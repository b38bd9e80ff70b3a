----------------------------- MODULE ResourceProofs -----------------------------
(* Theorems about Resource, for every set of resources and any number of     *)
(* edits and disturbances.                                                   *)
EXTENDS ResourceReads, TLAPS

-----------------------------------------------------------------------------
(* The inductive invariant. *)

\* A handler works on typed values; the read and delete handlers never hold an
\* unknown one.
Typed ==
    /\ kind \in Kinds
    /\ config = Absent \/ config \in [Given -> Values \ {Unknown}]
    /\ object = Absent \/ object \in Whole
    /\ state = Absent \/ state \in Whole
    /\ answer = Absent \/ answer \in Whole
    /\ model = Absent \/ model \in Object
    /\ saved = Absent \/ saved \in Object
    /\ plan = Absent \/ plan \in Object
    /\ phase \in {"read", "destroy"} =>
          model \in Whole /\ (saved = Absent \/ saved \in Whole)
    /\ phase \in {"idle", "plan", "create", "read", "update", "destroy"}
    /\ outcome \in {"none", "imported", "done", "failed", "inconsistent"}
    /\ pc \in Nat /\ tainted \in BOOLEAN
    /\ quiet \in BOOLEAN /\ unseen \in BOOLEAN /\ settled \in BOOLEAN

\* Which handler runs on what.
Flow ==
    /\ tainted => state # Absent
    /\ InHandler => model # Absent /\ pc >= 1
    /\ phase \in {"create", "update"} => plan # Absent
    /\ phase \in {"read", "update", "destroy"} => state # Absent
    /\ phase = "create" => state = Absent

\* From a create handler that has made an object nothing but a record of it can
\* come next, and a delete handler still has to delete.
WillRecord ==
    \E j \in pc .. Len(kind.create) :
        /\ RecordedAt(kind.create, pc, j)
        /\ Unconditional(kind.create[j]) \/ (j = pc /\ Applies(kind.create[j]))
WillDelete ==
    \E i \in pc .. Len(kind.destroy) : kind.destroy[i].op = "delete" /\ Applies(kind.destroy[i])

InCustody == ~kind.adopted /\ kind.name \notin Leaky
Safe ==
    InCustody /\ object # Absent =>
        /\ state # Absent \/ phase = "create"
        /\ phase \in {"read", "update"} => saved # Absent
        /\ phase = "create" => saved # Absent \/ WillRecord
        /\ phase = "destroy" => saved # Absent /\ (outcome = "failed" \/ WillDelete)

TypedFlow == Typed /\ Flow

-----------------------------------------------------------------------------
(* The values of a resource, and what the API makes of a request. *)

LEMMA NoFunction ==
    ASSUME kind \in Kinds
    PROVE  Attributes # {} /\ Absent \notin Whole /\ Absent \notin Object
<1>1. Attributes # {}
  BY ResourceAssumption DEF ResourceAssumption, WellFormed, Attributes
<1>2. DOMAIN Absent = {}
  BY DEF Absent
<1> QED
  BY <1>1, <1>2 DEF Whole, Object

LEMMA WholeIsObject == Whole \subseteq Object
  BY DEF Whole, Object

LEMMA GivenAreAttributes == Given \subseteq Attributes
  BY DEF Given, Attributes, AttributesOf

LEMMA ConsistentType ==
    ASSUME kind \in Kinds, NEW o \in Whole
    PROVE  Consistent(o) \in Whole
<1>1. \A a \in DOMAIN kind.schema.mirrors : kind.schema.mirrors[a] \in Attributes
  BY ResourceAssumption DEF ResourceAssumption, WellFormed, Attributes
<1>2. Null \in Values \ {Unknown}
  BY DEF Values, Null, Unknown
<1> QED
  BY <1>1, <1>2 DEF Consistent, Whole

LEMMA DefaultType == \A a : Default(a) \in Values \ {Unknown}
  BY DEF Default, Values, Null, Unknown, Chosen

LEMMA NewObjectType ==
    ASSUME kind \in Kinds, NEW sent, \A a \in DOMAIN sent : sent[a] \in Values
    PROVE  NewObject(sent) \in Whole
<1> DEFINE o == [a \in Attributes |->
                   IF a \in DOMAIN sent /\ sent[a] \notin {Null, Unknown}
                   THEN sent[a] ELSE Default(a)]
<1>1. o \in Whole
  BY DefaultType DEF Whole
<1> QED
  BY <1>1, ConsistentType DEF NewObject

LEMMA UpdatedType ==
    ASSUME kind \in Kinds, NEW o \in Whole,
           NEW sent, \A a \in DOMAIN sent : sent[a] \in Values
    PROVE  Updated(o, sent) \in Whole
<1> DEFINE u == [a \in DOMAIN o |->
                   IF a \in kind.schema.volatile THEN "later"
                   ELSE IF a \in DOMAIN sent /\ sent[a] # Unknown
                        THEN IF sent[a] = Null THEN Default(a) ELSE sent[a]
                   ELSE IF a \in DOMAIN kind.schema.nested /\ o[a] = Null THEN Default(a)
                   ELSE o[a]]
<1>1. "later" \in Values \ {Unknown}
  BY DEF Values, Unknown
<1>2. DOMAIN o = Attributes /\ \A a \in Attributes : o[a] \in Values \ {Unknown}
  BY DEF Whole
<1>3. u \in Whole
  BY <1>1, <1>2, DefaultType DEF Whole
<1> QED
  BY <1>3, ConsistentType DEF Updated

-----------------------------------------------------------------------------
(* The programs. *)

AllOps == Applying \union {"copy", "delete", "requireBefore", "forgetUnless", "forget"}

LEMMA ProgramType ==
    ASSUME Typed, InHandler
    PROVE  /\ Program \in Seq(StepsOf(AllOps, Attributes))
           /\ phase = "create" => Program = kind.create
           /\ phase = "read" => Program = kind.read
           /\ phase = "update" => Program = kind.update
           /\ phase = "destroy" => Program = kind.destroy
<1>1. /\ kind.create \in Seq(StepsOf(Applying, Attributes))
      /\ kind.update \in Seq(StepsOf(Applying \union {"copy", "delete", "requireBefore"}, Attributes))
      /\ kind.read \in Seq(StepsOf(Reading \union {"forgetUnless"}, Attributes))
      /\ kind.destroy \in Seq(StepsOf({"get", "wait", "clear", "delete", "forget"}, Attributes))
  BY ResourceAssumption DEF ResourceAssumption, WellFormed, Attributes, Typed
<1>2. ASSUME NEW ops, ops \subseteq AllOps
      PROVE  Seq(StepsOf(ops, Attributes)) \subseteq Seq(StepsOf(AllOps, Attributes))
  <2>1. StepsOf(ops, Attributes) \subseteq StepsOf(AllOps, Attributes)
    BY <1>2 DEF StepsOf
  <2> QED
    BY <2>1
<1>3. /\ Applying \subseteq AllOps
      /\ Applying \union {"copy", "delete", "requireBefore"} \subseteq AllOps
      /\ Reading \union {"forgetUnless"} \subseteq AllOps
      /\ {"get", "wait", "clear", "delete", "forget"} \subseteq AllOps
  BY DEF AllOps, Applying, Reading
<1>4. /\ kind.create \in Seq(StepsOf(AllOps, Attributes))
      /\ kind.update \in Seq(StepsOf(AllOps, Attributes))
      /\ kind.read \in Seq(StepsOf(AllOps, Attributes))
      /\ kind.destroy \in Seq(StepsOf(AllOps, Attributes))
  BY <1>1, <1>2, <1>3
<1>5. /\ phase = "create" => Program = kind.create
      /\ phase = "read" => Program = kind.read
      /\ phase = "update" => Program = kind.update
      /\ phase = "destroy" => Program = kind.destroy
  BY DEF Program
<1> QED
  BY <1>4, <1>5 DEF InHandler

\* What the step at pc looks like, in each of the handlers.
LEMMA StepType ==
    ASSUME TypedFlow, InHandler, pc <= Len(Program)
    PROVE  /\ Program[pc] \in StepsOf(AllOps, Attributes)
           /\ phase = "create" => Program[pc].op \in Applying
           /\ phase = "update" => Program[pc].op \in Applying \union {"copy", "delete", "requireBefore"}
           /\ phase = "read" => Program[pc].op \in Reading \union {"forgetUnless"}
           /\ phase = "destroy" => Program[pc].op \in {"get", "wait", "clear", "delete", "forget"}
<1> USE DEF TypedFlow
<1>1. /\ kind.create \in Seq(StepsOf(Applying, Attributes))
      /\ kind.update \in Seq(StepsOf(Applying \union {"copy", "delete", "requireBefore"}, Attributes))
      /\ kind.read \in Seq(StepsOf(Reading \union {"forgetUnless"}, Attributes))
      /\ kind.destroy \in Seq(StepsOf({"get", "wait", "clear", "delete", "forget"}, Attributes))
  BY ResourceAssumption DEF ResourceAssumption, WellFormed, Attributes, Typed
<1>2. pc \in 1 .. Len(Program)
  BY ProgramType DEF Typed, Flow
<1>3. ASSUME NEW ops, NEW p \in Seq(StepsOf(ops, Attributes)), NEW i \in 1 .. Len(p)
      PROVE  p[i].op \in ops
  <2>1. p[i] \in StepsOf(ops, Attributes)
    BY <1>3
  <2> QED
    BY <2>1 DEF StepsOf
<1>4. Program[pc] \in StepsOf(AllOps, Attributes)
  BY <1>2, ProgramType
<1>5. CASE phase = "create"
  BY <1>1, <1>2, <1>3, <1>4, <1>5, ProgramType
<1>6. CASE phase = "update"
  BY <1>1, <1>2, <1>3, <1>4, <1>6, ProgramType
<1>7. CASE phase = "read"
  BY <1>1, <1>2, <1>3, <1>4, <1>7, ProgramType
<1>8. CASE phase = "destroy"
  BY <1>1, <1>2, <1>3, <1>4, <1>8, ProgramType
<1> QED
  BY <1>5, <1>6, <1>7, <1>8 DEF InHandler

LEMMA SentType ==
    ASSUME TypedFlow, AtStep({"create", "put", "update", "blank", "clear"})
    PROVE  \A a \in DOMAIN Sent(Program[pc]) : Sent(Program[pc])[a] \in Values
<1>1. Program[pc] \in StepsOf(AllOps, Attributes)
  BY StepType DEF AtStep
<1>2. plan \in Object \/ Program[pc].op = "clear"
  BY StepType DEF AtStep, InHandler, TypedFlow, Typed, Flow, Reading, Fills
<1>3. Null \in Values /\ Unknown \in Values
  BY DEF Values, Null, Unknown
<1>4. ASSUME NEW step, step.attrs \subseteq Attributes, plan \in Object \/ step.op = "clear"
      PROVE  \A a \in DOMAIN Sent(step) : Sent(step)[a] \in Values
  <2>1. CASE step.op = "clear"
    BY <1>3, <2>1 DEF Sent
  <2>2. CASE step.op = "blank"
    BY <1>3, <1>4, <2>2 DEF Sent, Object
  <2>3. CASE step.op \notin {"clear", "blank"}
    BY <1>4, <2>3 DEF Sent, Object
  <2> QED
    BY <2>1, <2>2, <2>3
<1>5. Program[pc].attrs \subseteq Attributes
  BY <1>1 DEF StepsOf
<1> QED
  BY <1>2, <1>4, <1>5

LEMMA AppliedType ==
    ASSUME TypedFlow, AtStep({"create", "put", "update", "blank", "clear"})
    PROVE  /\ NewObject(Sent(Program[pc])) \in Whole
           /\ object # Absent => Updated(object, Sent(Program[pc])) \in Whole
  BY SentType, NewObjectType, UpdatedType DEF TypedFlow, Typed

-----------------------------------------------------------------------------
(* What a handler hands back. *)

LEMMA HandedBackType ==
    ASSUME TypedFlow, InHandler
    PROVE  /\ HandedBack = Absent <=> saved = Absent
           /\ Recorded(HandedBack) = Absent <=> saved = Absent
           /\ Recorded(HandedBack) = Absent \/ Recorded(HandedBack) \in Whole
           /\ phase = "read" => HandedBack = Absent \/ HandedBack \in Whole
<1> USE DEF TypedFlow
<1>1. model \in Object /\ (saved = Absent \/ saved \in Object)
  BY DEF Typed, Flow
<1>2. Attributes # {} /\ Absent \notin Whole /\ Absent \notin Object
  BY NoFunction DEF Typed
<1>3. Null \in Values \ {Unknown}
  BY DEF Values, Null, Unknown
<1>4. \A o \in Object : [a \in Attributes |-> IF o[a] = Unknown THEN Null ELSE o[a]] \in Whole
  BY <1>3 DEF Object, Whole
<1>5. CASE saved = Absent
  BY <1>5 DEF HandedBack, Recorded
<1>6. CASE saved # Absent /\ kind.framework
  <2>1. HandedBack = saved /\ saved \in Object
    BY <1>1, <1>6 DEF HandedBack
  <2>2. Recorded(HandedBack) \in Whole
    BY <1>4, <1>6, <2>1 DEF Recorded
  <2>3. phase = "read" => saved \in Whole
    BY <1>6 DEF Typed
  <2> QED
    BY <1>2, <1>6, <2>1, <2>2, <2>3
<1>7. CASE saved # Absent /\ ~kind.framework
  <2>1. HandedBack \in Whole
    BY <1>1, <1>4, <1>7 DEF HandedBack
  <2>2. Recorded(HandedBack) \in Whole
    BY <1>2, <1>4, <2>1, WholeIsObject DEF Recorded
  <2> QED
    BY <1>2, <1>7, <2>1, <2>2
<1> QED
  BY <1>5, <1>6, <1>7

-----------------------------------------------------------------------------
(* Type correctness. *)

LEMMA SameKind ==
    kind' = kind =>
        /\ Attributes' = Attributes /\ Given' = Given
        /\ Whole' = Whole /\ Object' = Object
  BY DEF Attributes, Given, Whole, Object

LEMMA RestTyped ==
    ASSUME TypedFlow, UNCHANGED <<kind, config>>, NEW p \in {"idle", "plan"}, Rest(p),
           object' = Absent \/ object' \in Whole,
           state' = Absent \/ state' \in Whole,
           tainted' \in BOOLEAN, tainted' => state' # Absent,
           outcome' \in {"none", "imported", "done", "failed", "inconsistent"},
           quiet' \in BOOLEAN, unseen' \in BOOLEAN, settled' \in BOOLEAN
    PROVE  TypedFlow'
<1>1. Typed'
  BY SameKind, SMT DEF TypedFlow, Typed, Rest
<1>2. Flow'
  BY DEF Flow, Rest, InHandler
<1> QED
  BY <1>1, <1>2 DEF TypedFlow

\* A step that leaves the handler running.
LEMMA ContinueTyped ==
    ASSUME TypedFlow, InHandler, pc <= Len(Program),
           UNCHANGED <<kind, config, state, tainted, phase, plan>>,
           pc' = pc + 1 \/ pc' = Len(Program) + 1,
           object' = Absent \/ object' \in Whole,
           answer' = Absent \/ answer' \in Whole,
           model' \in Object, phase \in {"read", "destroy"} => model' \in Whole,
           saved' = Absent \/ saved' \in Object,
           phase \in {"read", "destroy"} => saved' = Absent \/ saved' \in Whole,
           outcome' \in {"none", "imported", "done", "failed", "inconsistent"},
           quiet' \in BOOLEAN, unseen' \in BOOLEAN, settled' \in BOOLEAN
    PROVE  TypedFlow'
<1>1. Len(Program) \in Nat /\ pc \in Nat /\ pc >= 1
  BY ProgramType DEF TypedFlow, Typed, Flow
<1>2. pc' \in Nat /\ pc' >= 1
  BY <1>1
<1>3. Typed'
  BY <1>2, SameKind DEF TypedFlow, Typed
<1>4. model' # Absent
  BY NoFunction DEF TypedFlow, Typed
<1>5. Flow'
  BY <1>2, <1>4 DEF TypedFlow, Flow, InHandler
<1> QED
  BY <1>3, <1>5 DEF TypedFlow

LEMMA CreatePlanType ==
    ASSUME TypedFlow, config # Absent
    PROVE  CreatePlan \in Object
<1>1. \A a \in Given : config[a] \in Values
  BY DEF TypedFlow, Typed
<1>2. Null \in Values /\ Unknown \in Values /\ Chosen \in Values
  BY DEF Values, Null, Unknown, Chosen
<1> QED
  BY <1>1, <1>2 DEF CreatePlan, Object

LEMMA UpdatePlanType ==
    ASSUME TypedFlow, config # Absent, state # Absent
    PROVE  UpdatePlan \in Object
<1>1. \A a \in Given : config[a] \in Values
  BY DEF TypedFlow, Typed
<1>2. Null \in Values /\ Unknown \in Values /\ Chosen \in Values
  BY DEF Values, Null, Unknown, Chosen
<1>3. \A a \in Attributes : state[a] \in Values
  BY DEF TypedFlow, Typed, Whole
<1>4. \A a \in Attributes : Proposed(a) \in Values
  BY <1>1, <1>2, <1>3 DEF Proposed
<1>5. \A a \in Attributes : Marked(a) \in Values
  BY <1>2, <1>4 DEF Marked
<1>6. \A a \in Attributes : Planned(a) \in Values
  BY <1>3, <1>5 DEF Planned
<1> QED
  BY <1>6 DEF UpdatePlan, Object

\* The start of a handler.
LEMMA StartTyped ==
    ASSUME TypedFlow, UNCHANGED <<kind, config, object, state, tainted>>,
           NEW p \in {"create", "read", "update", "destroy"}, NEW q, Start(p, q),
           p \in {"create", "update"} => q \in Object,
           p \in {"read", "destroy"} => q = Absent,
           (p = "create") = (state = Absent),
           outcome' \in {"none", "imported", "done", "failed", "inconsistent"},
           quiet' \in BOOLEAN, unseen' \in BOOLEAN, settled' \in BOOLEAN
    PROVE  TypedFlow'
<1>1. Absent \notin Whole /\ Absent \notin Object
  BY NoFunction DEF TypedFlow, Typed
<1>2. state = Absent \/ (state \in Whole /\ state \in Object)
  BY WholeIsObject DEF TypedFlow, Typed
<1>3. CASE p \in {"create", "update"}
  <2>1. model' = q /\ plan' = q /\ q \in Object
    BY <1>1, <1>3 DEF Start
  <2>2. saved' = Absent \/ saved' \in Object
    BY <1>2 DEF Start
  <2>3. phase' \in {"create", "update"} /\ pc' = 1 /\ answer' = Absent
    BY <1>3 DEF Start
  <2>4. Typed'
    BY <2>1, <2>2, <2>3, SameKind DEF TypedFlow, Typed
  <2>5. Flow'
    BY <1>1, <1>3, <2>1, <2>3 DEF TypedFlow, Flow, InHandler, Start
  <2> QED
    BY <2>4, <2>5 DEF TypedFlow
<1>4. CASE p \in {"read", "destroy"}
  <2>1. model' = state /\ saved' = state /\ plan' = Absent
    BY <1>4 DEF Start
  <2>2. state \in Whole /\ state \in Object
    BY <1>2, <1>4
  <2>3. phase' \in {"read", "destroy"} /\ pc' = 1 /\ answer' = Absent
    BY <1>4 DEF Start
  <2>4. Typed'
    BY <2>1, <2>2, <2>3, SameKind DEF TypedFlow, Typed
  <2>5. Flow'
    BY <1>1, <1>4, <2>1, <2>2, <2>3 DEF TypedFlow, Flow, InHandler, Start
  <2> QED
    BY <2>4, <2>5 DEF TypedFlow
<1> QED
  BY <1>3, <1>4

Outcomes == {"none", "imported", "done", "failed", "inconsistent"}

LEMMA RunTyped ==
    ASSUME TypedFlow, Begin \/ PlanNothing \/ PlanCreate \/ PlanUpdate \/ PlanDestroy
    PROVE  TypedFlow'
<1> USE DEF world, weather
<1>1. /\ object = Absent \/ object \in Whole
      /\ state = Absent \/ state \in Whole
      /\ tainted \in BOOLEAN /\ (tainted => state # Absent)
      /\ outcome \in Outcomes /\ Before(outcome) \in Outcomes
      /\ quiet \in BOOLEAN /\ unseen \in BOOLEAN /\ settled \in BOOLEAN
      /\ Outcomes = {"none", "imported", "done", "failed", "inconsistent"}
  BY DEF TypedFlow, Typed, Flow, Before, Outcomes
<1>2. CASE Begin /\ state = Absent
  <2>1. Rest("plan") /\ UNCHANGED <<kind, config, object, state, tainted, unseen, settled>>
    BY <1>2 DEF Begin
  <2>2. outcome' \in Outcomes /\ quiet' = TRUE
    BY <1>1, <1>2 DEF Begin
  <2> QED
    BY <1>1, <2>1, <2>2, RestTyped
<1>3. CASE Begin /\ state # Absent
  <2>1. Start("read", Absent) /\ UNCHANGED <<kind, config, object, state, tainted, unseen, settled>>
    BY <1>3 DEF Begin
  <2>2. outcome' \in Outcomes /\ quiet' = TRUE
    BY <1>1, <1>3 DEF Begin
  <2> QED
    BY <1>1, <1>3, <2>1, <2>2, StartTyped
<1>4. CASE PlanNothing
  <2>1. Rest("idle") /\ UNCHANGED <<kind, config, object, state, tainted, unseen, quiet>>
    BY <1>4 DEF PlanNothing, Succeed
  <2>2. outcome' \in Outcomes /\ settled' = quiet
    BY <1>4 DEF PlanNothing, Succeed, Outcomes
  <2> QED
    BY <1>1, <2>1, <2>2, RestTyped
<1>5. CASE PlanCreate
  <2>1. /\ Start("create", CreatePlan) /\ config # Absent /\ state = Absent /\ settled' = FALSE
        /\ UNCHANGED <<kind, config, object, state, tainted, outcome, unseen, quiet>>
    BY <1>5 DEF PlanCreate
  <2> QED
    BY <1>1, <2>1, CreatePlanType, StartTyped
<1>6. CASE PlanUpdate
  <2>1. /\ Start("update", UpdatePlan) /\ config # Absent /\ state # Absent /\ settled' = FALSE
        /\ UNCHANGED <<kind, config, object, state, tainted, outcome, unseen, quiet>>
    BY <1>6 DEF PlanUpdate
  <2> QED
    BY <1>1, <2>1, UpdatePlanType, StartTyped
<1>7. CASE PlanDestroy
  <2>1. /\ Start("destroy", Absent) /\ state # Absent /\ settled' = FALSE
        /\ UNCHANGED <<kind, config, object, state, tainted, outcome, unseen, quiet>>
    BY <1>7 DEF PlanDestroy
  <2> QED
    BY <1>1, <2>1, StartTyped
<1> QED
  BY <1>2, <1>3, <1>4, <1>5, <1>6, <1>7

LEMMA AbortTyped ==
    ASSUME TypedFlow, InHandler, Abort, UNCHANGED <<kind, config>>,
           object' = Absent \/ object' \in Whole, quiet' \in BOOLEAN, unseen' \in BOOLEAN
    PROVE  TypedFlow'
<1>1. Rest("idle") /\ outcome' = "failed" /\ settled' = FALSE
  BY DEF Abort
<1>2. CASE phase \in {"create", "update"}
  <2>1. state' = Recorded(HandedBack) /\ tainted' = (phase = "create" /\ HandedBack # Absent)
    BY <1>2 DEF Abort
  <2> QED
    BY <1>1, <2>1, HandedBackType, RestTyped
<1>3. CASE phase \notin {"create", "update"}
  <2>1. UNCHANGED <<state, tainted>>
    BY <1>3 DEF Abort
  <2> QED
    BY <1>1, <2>1, RestTyped DEF TypedFlow, Typed, Flow
<1> QED
  BY <1>2, <1>3

\* What a handler works on, in the form the steps need it.
LEMMA Working ==
    ASSUME TypedFlow, InHandler
    PROVE  /\ object = Absent \/ object \in Whole
           /\ answer = Absent \/ answer \in Whole
           /\ model \in Object /\ (phase \in {"read", "destroy"} => model \in Whole)
           /\ saved = Absent \/ saved \in Object
           /\ phase \in {"read", "destroy"} => saved = Absent \/ saved \in Whole
           /\ outcome \in {"none", "imported", "done", "failed", "inconsistent"}
           /\ quiet \in BOOLEAN /\ unseen \in BOOLEAN /\ settled \in BOOLEAN
           /\ Null \in Values \ {Unknown} /\ Chosen \in Values \ {Unknown}
  BY DEF TypedFlow, Typed, Flow, Values, Null, Unknown, Chosen

LEMMA GoOnTyped ==
    ASSUME TypedFlow, InHandler, pc <= Len(Program), UNCHANGED <<kind, config>>,
           object' = Absent \/ object' \in Whole, quiet' \in BOOLEAN, unseen' \in BOOLEAN,
           GoOn \/ GoWithout
    PROVE  TypedFlow'
<1>1. CASE GoOn
  BY <1>1, Working, ContinueTyped DEF GoOn, Continue
<1>2. CASE GoWithout
  <2>1. answer' \in Whole
    BY <1>2, Working DEF GoWithout, Whole
  <2> QED
    BY <1>2, <2>1, Working, ContinueTyped DEF GoWithout, Continue
<1> QED
  BY <1>1, <1>2

LEMMA CallTyped ==
    ASSUME TypedFlow, CallCreate \/ CallUpdate \/ CallGet \/ CallDelete \/ CallWait
    PROVE  TypedFlow'
<1> USE DEF world, weather
<1>1. CASE CallCreate
  <2>1. InHandler /\ pc <= Len(Program) /\ AtStep({"create", "put", "update", "blank", "clear"})
    BY <1>1 DEF CallCreate, AtStep
  <2>2. object' \in Whole /\ answer' \in Whole
    BY <1>1, <2>1, AppliedType DEF CallCreate
  <2> QED
    BY <1>1, <2>1, <2>2, Working, ContinueTyped DEF CallCreate, Continue
<1>2. CASE CallUpdate
  <2>1. InHandler /\ pc <= Len(Program) /\ AtStep({"create", "put", "update", "blank", "clear"})
    BY <1>2 DEF CallUpdate, AtStep, Updates
  <2>2. object' \in Whole /\ answer' \in Whole
    BY <1>2, <2>1, AppliedType DEF CallUpdate, Found
  <2> QED
    BY <1>2, <2>1, <2>2, Working, ContinueTyped DEF CallUpdate, Continue
<1>3. CASE CallGet
  <2>1. InHandler /\ pc <= Len(Program)
    BY <1>3 DEF CallGet, AtStep
  <2>2. answer' \in Whole
    BY <1>3, <2>1, Working DEF CallGet, Found, Whole
  <2> QED
    BY <1>3, <2>1, <2>2, Working, ContinueTyped DEF CallGet, Continue
<1>4. CASE CallDelete
  BY <1>4, Working, ContinueTyped DEF CallDelete, Continue, AtStep
<1>5. CASE CallWait
  BY <1>5, Working, ContinueTyped DEF CallWait, Continue, AtStep
<1> QED
  BY <1>1, <1>2, <1>3, <1>4, <1>5

LEMMA MissesTyped ==
    ASSUME TypedFlow, CallMisses
    PROVE  TypedFlow'
<1> USE DEF world, weather
<1>1. /\ InHandler /\ pc <= Len(Program) /\ UNCHANGED <<kind, config, object, quiet, unseen>>
      /\ Program[pc] \in StepsOf(AllOps, Attributes)
  BY StepType DEF CallMisses, AtStep
<1>2. Program[pc].missing \in {"error", "goOn", "forget", "ok", "empty", "nothing"}
  BY <1>1 DEF StepsOf
<1>3. CASE Program[pc].missing = "error"
  BY <1>1, <1>3, Working, AbortTyped DEF CallMisses
<1>4. CASE Program[pc].missing = "goOn"
  BY <1>1, <1>4, Working, GoOnTyped DEF CallMisses
<1>5. CASE Program[pc].missing \in {"empty", "nothing"}
  BY <1>1, <1>5, Working, GoOnTyped DEF CallMisses
<1>6. CASE Program[pc].missing = "ok"
  BY <1>1, <1>6, Working, ContinueTyped DEF CallMisses, Continue
<1>7. CASE Program[pc].missing = "forget"
  BY <1>1, <1>7, Working, ContinueTyped DEF CallMisses
<1> QED
  BY <1>2, <1>3, <1>4, <1>5, <1>6, <1>7

LEMMA FailsTyped ==
    ASSUME TypedFlow, CallFails
    PROVE  TypedFlow'
<1> USE DEF world
<1>1. /\ InHandler /\ pc <= Len(Program) /\ UNCHANGED <<kind, config, unseen>> /\ quiet' = FALSE
  BY DEF CallFails, AtStep
<1>2. object' = Absent \/ object' \in Whole
  <2>1. CASE AtStep({"create", "put", "update", "blank", "clear"})
    BY <1>1, <2>1, AppliedType, Working DEF CallFails, Found
  <2>2. CASE Program[pc].op \notin {"create", "put", "update", "blank", "clear"}
    BY <1>1, <2>2, Working DEF CallFails, Updates
  <2> QED
    BY <1>1, <2>1, <2>2 DEF AtStep
<1>3. CASE Program[pc].missing = "goOn"
  BY <1>1, <1>2, <1>3, Working, GoOnTyped DEF CallFails
<1>4. CASE Program[pc].missing = "nothing"
  BY <1>1, <1>2, <1>4, Working, GoOnTyped DEF CallFails
<1>5. CASE Program[pc].missing \notin {"goOn", "nothing"}
  BY <1>1, <1>2, <1>5, Working, AbortTyped DEF CallFails
<1> QED
  BY <1>3, <1>4, <1>5

LEMMA LocalTyped ==
    ASSUME TypedFlow,
           Refuse \/ CallRefused \/ Drop \/ Skip \/ SaveState \/ ReadAnswer \/ CopyState \/ ComputeValue
    PROVE  TypedFlow'
<1> USE DEF world, weather
<1>1. CASE Refuse \/ CallRefused
  BY <1>1, Working, AbortTyped DEF Refuse, CallRefused, AtStep
<1>2. CASE Drop
  BY <1>2, Working, ContinueTyped DEF Drop, AtStep
<1>3. CASE Skip
  BY <1>3, Working, ContinueTyped DEF Skip, Continue
<1>4. CASE SaveState
  <2>1. InHandler /\ pc <= Len(Program) /\ phase' = phase
    BY <1>4 DEF SaveState, AtStep, Continue
  <2>2. [a \in Attributes |-> Null] \in Whole /\ [a \in Attributes |-> Null] \in Object
    BY <2>1, Working DEF Whole, Object
  <2>3. saved' \in {Absent, model, [a \in Attributes |-> Null]}
    BY <1>4 DEF SaveState
  <2> QED
    BY <1>4, <2>1, <2>2, <2>3, Working, ContinueTyped DEF SaveState, Continue
<1>5. CASE ReadAnswer
  <2>1. InHandler /\ pc <= Len(Program)
    BY <1>5 DEF ReadAnswer, AtStep
  <2>2. model' \in Object
    BY <1>5, <2>1, Working DEF ReadAnswer, Whole, Object
  <2>3. phase \in {"read", "destroy"} => model' \in Whole
    BY <1>5, <2>1, Working DEF ReadAnswer, Whole
  <2> QED
    BY <1>5, <2>1, <2>2, <2>3, Working, ContinueTyped DEF ReadAnswer, Continue
<1>6. CASE CopyState
  <2>1. InHandler /\ pc <= Len(Program)
    BY <1>6 DEF CopyState, AtStep
  <2>2. phase = "update"
    BY <1>6, <2>1, StepType DEF CopyState, AtStep, InHandler, Applying, Reading, Fills
  <2>3. state \in Object
    BY <2>2, WholeIsObject DEF TypedFlow, Typed, Flow
  <2>4. model' \in Object
    BY <1>6, <2>1, <2>3, Working DEF CopyState, Object
  <2> QED
    BY <1>6, <2>1, <2>2, <2>4, Working, ContinueTyped DEF CopyState, Continue
<1>7. CASE ComputeValue
  <2>1. InHandler /\ pc <= Len(Program)
    BY <1>7 DEF ComputeValue, AtStep
  <2>2. model' \in Object
    BY <1>7, <2>1, Working DEF ComputeValue, Object
  <2>3. phase \in {"read", "destroy"} => model' \in Whole
    BY <1>7, <2>1, Working DEF ComputeValue, Whole
  <2> QED
    BY <1>7, <2>1, <2>2, <2>3, Working, ContinueTyped DEF ComputeValue, Continue
<1> QED
  BY <1>1, <1>2, <1>3, <1>4, <1>5, <1>6, <1>7

LEMMA EndTyped ==
    ASSUME TypedFlow, EndRead \/ EndDestroy \/ EndApply
    PROVE  TypedFlow'
<1> USE DEF world, weather
<1>1. CASE EndRead
  <2>1. InHandler /\ phase = "read"
    BY <1>1 DEF EndRead, AtEnd, InHandler
  <2> QED
    BY <1>1, <2>1, Working, HandedBackType, RestTyped DEF EndRead, TypedFlow, Typed
<1>2. CASE EndDestroy
  <2>1. InHandler
    BY <1>2 DEF EndDestroy, AtEnd, InHandler
  <2>2. PICK p \in {"idle", "plan"} : Rest(p)
    BY <1>2 DEF EndDestroy
  <2>3. /\ state' = Absent \/ state' \in Whole
        /\ tainted' \in BOOLEAN /\ (tainted' => state' # Absent)
    BY <1>2 DEF EndDestroy, TypedFlow, Typed, Flow
  <2> QED
    BY <1>2, <2>1, <2>2, <2>3, Working, RestTyped DEF EndDestroy
<1>3. CASE EndApply
  <2>1. InHandler
    BY <1>3 DEF EndApply, AtEnd, InHandler
  <2>2. Rest("idle") /\ UNCHANGED <<kind, config, object, quiet, unseen>>
    BY <1>3 DEF EndApply, Succeed
  <2>3. state' = Recorded(HandedBack) /\ tainted' \in {FALSE, phase = "create" /\ HandedBack # Absent}
    BY <1>3 DEF EndApply
  <2>4. /\ outcome' \in {"none", "imported", "done", "failed", "inconsistent"}
        /\ settled' \in BOOLEAN
    BY <1>3, <2>1, Working DEF EndApply, Succeed
  <2>5. tainted' \in BOOLEAN /\ (tainted' => state' # Absent)
    BY <2>1, <2>3, HandedBackType
  <2> QED
    BY <2>1, <2>2, <2>3, <2>4, <2>5, Working, HandedBackType, RestTyped
<1> QED
  BY <1>1, <1>2, <1>3

LEMMA EditTyped ==
    ASSUME TypedFlow, Edit
    PROVE  TypedFlow'
<1> USE DEF weather
<1>1. phase = "idle" /\ settled' = FALSE
      /\ UNCHANGED <<kind, object, state, tainted, phase, pc, plan, model, answer, saved, quiet, unseen>>
  BY DEF Edit
<1>2. config' = Absent \/ config' \in [Given -> Values \ {Unknown}]
  <2>1. ASSUME NEW a \in Given, NEW v \in {"x", "y", Null}, EditAttribute(a, v)
        PROVE  config' \in [Given -> Values \ {Unknown}]
    BY <2>1 DEF EditAttribute, TypedFlow, Typed, Values, Null, Unknown
  <2> QED
    BY <2>1 DEF Edit
<1>3. outcome' \in {"none", "imported", "done", "failed", "inconsistent"}
  BY DEF Edit, Before
<1>4. Typed'
  BY <1>1, <1>2, <1>3, SameKind DEF TypedFlow, Typed
<1>5. Flow'
  BY <1>1 DEF TypedFlow, Flow, InHandler
<1> QED
  BY <1>4, <1>5 DEF TypedFlow

LEMMA InterfereTyped ==
    ASSUME TypedFlow, Interfere
    PROVE  TypedFlow'
<1> USE DEF world
<1>1. /\ object \in Whole /\ quiet' = FALSE /\ settled' = FALSE
      /\ UNCHANGED <<kind, config, state, tainted, phase, pc, plan, model, answer, saved, outcome>>
  BY DEF Interfere, TypedFlow, Typed
<1>2. \A a : {"x", "y", Null} \subseteq Values
  BY DEF Values, Null
<1>3. ASSUME NEW a, NEW v \in Values
      PROVE  Updated(object, [b \in {a} |-> v]) \in Whole
  BY <1>1, UpdatedType DEF TypedFlow, Typed
<1>4. object' = Absent \/ object' \in Whole
  <2>1. CASE object' = Absent
    BY <2>1
  <2>2. CASE object' # Absent
    <3>1. PICK a \in Given, v \in {"x", "y", Null} :
              object' = Updated(object, [b \in {a} |-> v])
      BY <2>2 DEF Interfere
    <3> QED
      BY <1>2, <1>3, <3>1
  <2> QED
    BY <2>1, <2>2
<1>5. unseen' \in BOOLEAN
  <2>1. \A a : (unseen \/ a \notin Seen) \in BOOLEAN
    OBVIOUS
  <2> QED
    BY <2>1 DEF Interfere, TypedFlow, Typed
<1>6. quiet' \in BOOLEAN /\ settled' \in BOOLEAN
  BY <1>1
<1>7. Typed'
  <2> HIDE DEF Whole, Object, Values
  <2> QED
    BY <1>1, <1>4, <1>5, <1>6, SameKind, SMTT(30) DEF TypedFlow, Typed
<1>8. Flow'
  BY <1>1 DEF TypedFlow, Flow, InHandler
<1> QED
  BY <1>7, <1>8 DEF TypedFlow

LEMMA InitTyped == Init => TypedFlow
<1> SUFFICES ASSUME Init PROVE TypedFlow
  OBVIOUS
<1>1. Null \in Values \ {Unknown} /\ "x" \in Values \ {Unknown}
  BY DEF Values, Null, Unknown
<1>2. kind \in Kinds
  BY DEF Init
<1>3. Absent \notin Whole
  BY <1>2, NoFunction
<1>4. config \in [Given -> Values \ {Unknown}]
  BY <1>1 DEF Init, Minimal, Full
<1>5. NewObject(config) \in Whole
  BY <1>2, <1>4, NewObjectType
<1>6. NewObject(<<>>) \in Whole
  <2>1. \A a \in DOMAIN <<>> : <<>>[a] \in Values
    OBVIOUS
  <2> QED
    BY <1>2, <2>1, NewObjectType
<1>7. object = Absent \/ object \in Whole
  BY <1>5, <1>6 DEF Init, Imported
<1>8. state = Absent \/ state \in Whole
  BY <1>1, <1>5 DEF Init, Imported, Whole
<1>9. Typed
  BY <1>2, <1>4, <1>7, <1>8 DEF Init, Imported, Typed, Absent
<1> QED
  BY <1>9 DEF Init, Flow, InHandler, TypedFlow

LEMMA NextTyped == TypedFlow /\ [Next]_vars => TypedFlow'
<1> SUFFICES ASSUME TypedFlow, [Next]_vars PROVE TypedFlow'
  OBVIOUS
<1>1. CASE UNCHANGED vars
  <2>1. Typed'
    BY <1>1, SameKind DEF vars, TypedFlow, Typed
  <2>2. Flow'
    BY <1>1 DEF vars, TypedFlow, Flow, InHandler
  <2> QED
    BY <2>1, <2>2 DEF TypedFlow
<1>2. CASE Run
  BY <1>2, RunTyped, EndTyped, CallTyped, MissesTyped, FailsTyped, LocalTyped DEF Run, Handle
<1>3. CASE Edit
  BY <1>3, EditTyped
<1>4. CASE Interfere
  BY <1>4, InterfereTyped
<1> QED
  BY <1>1, <1>2, <1>3, <1>4 DEF Next

LEMMA TypedInvariant == Spec => []TypedFlow
  BY InitTyped, NextTyped, PTL DEF Spec

\* Nothing unknown is recorded, whatever a handler was about to compute when it
\* failed; only what is recorded is tainted; every handler works on values.
THEOREM TypeCorrect == Spec => []TypeOK
<1>1. ASSUME TypedFlow PROVE TypeOK
  <2>1. /\ {object, state} \subseteq Whole \union {Absent}
        /\ {model, answer, saved, plan} \subseteq Object \union {Absent}
    BY <1>1, WholeIsObject DEF TypedFlow, Typed
  <2>2. {tainted, quiet, unseen, settled} \subseteq BOOLEAN
    BY <1>1, Zenon DEF TypedFlow, Typed
  <2> QED
    BY <1>1, <2>1, <2>2 DEF TypedFlow, Typed, Flow, TypeOK
<1> QED
  BY <1>1, TypedInvariant, PTL

-----------------------------------------------------------------------------
(* Custody: what it takes of the programs. *)

LEMMA IsCareful ==
    ASSUME TypedFlow, InCustody
    PROVE  Careful(kind)
  BY CustodyAssumption DEF CustodyAssumption, InCustody, TypedFlow, Typed

LEMMA UnconditionalParts ==
    ASSUME NEW s, Unconditional(s)
    PROVE  /\ s.when = {} /\ s.given = {} /\ s.configured = {} /\ s.unless = {}
           /\ s.unknown = {} /\ ~s.clean
  BY DEF Unconditional

LEMMA UnconditionalApplies ==
    ASSUME NEW s, Unconditional(s)
    PROVE  Applies(s)
  BY UnconditionalParts DEF Applies

LEMMA ProgramShape ==
    ASSUME Typed
    PROVE  /\ kind.create \in Seq(StepsOf(AllOps, Attributes))
           /\ kind.destroy \in Seq(StepsOf(AllOps, Attributes))
           /\ Len(kind.create) \in Nat /\ DOMAIN kind.create = 1 .. Len(kind.create)
           /\ Len(kind.update) \in Nat /\ DOMAIN kind.update = 1 .. Len(kind.update)
           /\ Len(kind.read) \in Nat /\ DOMAIN kind.read = 1 .. Len(kind.read)
           /\ Len(kind.destroy) \in Nat /\ DOMAIN kind.destroy = 1 .. Len(kind.destroy)
<1>1. /\ kind.create \in Seq(StepsOf(Applying, Attributes))
      /\ kind.update \in Seq(StepsOf(Applying \union {"copy", "delete", "requireBefore"}, Attributes))
      /\ kind.read \in Seq(StepsOf(Reading \union {"forgetUnless"}, Attributes))
      /\ kind.destroy \in Seq(StepsOf({"get", "wait", "clear", "delete", "forget"}, Attributes))
  BY ResourceAssumption DEF ResourceAssumption, WellFormed, Attributes, Typed
<1>2. ASSUME NEW ops, ops \subseteq AllOps
      PROVE  Seq(StepsOf(ops, Attributes)) \subseteq Seq(StepsOf(AllOps, Attributes))
  <2>1. StepsOf(ops, Attributes) \subseteq StepsOf(AllOps, Attributes)
    BY <1>2 DEF StepsOf
  <2> QED
    BY <2>1
<1>3. Applying \subseteq AllOps /\ {"get", "wait", "clear", "delete", "forget"} \subseteq AllOps
  BY DEF AllOps, Applying, Reading
<1>4. kind.create \in Seq(StepsOf(AllOps, Attributes)) /\ kind.destroy \in Seq(StepsOf(AllOps, Attributes))
  BY <1>1, <1>2, <1>3
<1>5. ASSUME NEW T, NEW p \in Seq(T)
      PROVE  Len(p) \in Nat /\ DOMAIN p = 1 .. Len(p)
  OBVIOUS
<1> QED
  BY <1>1, <1>4, <1>5

\* A delete handler begins with a deletion still to come.
LEMMA WillDeleteAtFirst ==
    ASSUME TypedFlow, InCustody, kind' = kind, pc' = 1
    PROVE  WillDelete'
<1>1. DOMAIN kind.destroy = 1 .. Len(kind.destroy)
      /\ \A i \in DOMAIN kind.destroy : kind.destroy[i] \in StepsOf(AllOps, Attributes)
  BY ProgramShape DEF TypedFlow
<1> DEFINE deletes == {i \in DOMAIN kind.destroy : kind.destroy[i].op = "delete"}
<1>2. ASSUME NEW i \in deletes, (Applies(kind.destroy[i]))'
      PROVE  WillDelete'
  BY <1>1, <1>2 DEF WillDelete
<1>3. CASE \E i \in deletes : Unconditional(kind.destroy[i])
  <2>1. PICK i \in deletes : Unconditional(kind.destroy[i])
    BY <1>3
  <2>2. (Applies(kind.destroy[i]))'
    BY <2>1, UnconditionalParts DEF Applies
  <2> QED
    BY <1>2, <2>2
<1>4. CASE \E i, j \in deletes, a \in AttributesOf(kind) :
                 /\ kind.destroy[i].given = {a} /\ Unconditional([kind.destroy[i] EXCEPT !.given = {}])
                 /\ kind.destroy[j].unless = {a} /\ Unconditional([kind.destroy[j] EXCEPT !.unless = {}])
  <2>1. PICK i \in deletes, j \in deletes, a \in AttributesOf(kind) :
                 /\ kind.destroy[i].given = {a} /\ Unconditional([kind.destroy[i] EXCEPT !.given = {}])
                 /\ kind.destroy[j].unless = {a} /\ Unconditional([kind.destroy[j] EXCEPT !.unless = {}])
    BY <1>4
  <2>2. kind.destroy[i] \in StepsOf(AllOps, Attributes) /\ kind.destroy[j] \in StepsOf(AllOps, Attributes)
    BY <1>1
  <2>3. /\ kind.destroy[i].when = {} /\ kind.destroy[i].given = {a} /\ kind.destroy[i].configured = {}
        /\ kind.destroy[i].unless = {} /\ kind.destroy[i].unknown = {} /\ ~kind.destroy[i].clean
    <3>1. UNION {kind.destroy[i].when, kind.destroy[i].configured, kind.destroy[i].unless,
                 kind.destroy[i].unknown} = {} /\ ~kind.destroy[i].clean
      BY <2>1, <2>2 DEF Unconditional, StepsOf
    <3> QED
      BY <2>1, <3>1
  <2>4. /\ kind.destroy[j].when = {} /\ kind.destroy[j].given = {} /\ kind.destroy[j].configured = {}
        /\ kind.destroy[j].unless = {a} /\ kind.destroy[j].unknown = {} /\ ~kind.destroy[j].clean
    <3>1. UNION {kind.destroy[j].when, kind.destroy[j].configured, kind.destroy[j].given,
                 kind.destroy[j].unknown} = {} /\ ~kind.destroy[j].clean
      BY <2>1, <2>2 DEF Unconditional, StepsOf
    <3> QED
      BY <2>1, <3>1
  <2>5. CASE Known(model'[a])
    <3>1. (Applies(kind.destroy[i]))'
      BY <2>3, <2>5 DEF Applies
    <3> QED
      BY <1>2, <3>1
  <2>6. CASE ~Known(model'[a])
    <3>1. (Applies(kind.destroy[j]))'
      BY <2>4, <2>6 DEF Applies
    <3> QED
      BY <1>2, <3>1
  <2> QED
    BY <2>5, <2>6
<1> QED
  BY <1>3, <1>4, IsCareful DEF Careful

\* After the call that makes the object, only its record comes next.
LEMMA WillRecordOnceMade ==
    ASSUME TypedFlow, InCustody, phase = "create", pc <= Len(Program), Makes(Program[pc]),
           Applies(Program[pc]), pc' = pc + 1,
           UNCHANGED <<kind, config, state, phase, plan, model, outcome>>
    PROVE  WillRecord'
<1>1. Program = kind.create /\ pc \in DOMAIN kind.create /\ pc \in Nat
  BY ProgramShape DEF Program, TypedFlow, Typed, Flow, InHandler
<1>2. PICK j \in (pc + 1) .. Len(kind.create) :
              /\ RecordedAt(kind.create, pc + 1, j)
              /\ \/ Unconditional(kind.create[j])
                 \/ j = pc + 1 /\ SameCondition(kind.create[pc], kind.create[j])
  BY <1>1, IsCareful DEF Careful
<1>3. CASE Unconditional(kind.create[j])
  BY <1>2, <1>3 DEF WillRecord
<1>4. CASE j = pc + 1 /\ SameCondition(kind.create[pc], kind.create[j])
  <2>1. kind.create[j] \in StepsOf(AllOps, Attributes)
    BY <1>1, <1>2, ProgramShape DEF TypedFlow
  <2>2. /\ kind.create[j].when = kind.create[pc].when
        /\ kind.create[j].given = kind.create[pc].given
        /\ kind.create[j].configured = kind.create[pc].configured
        /\ kind.create[j].unless = kind.create[pc].unless
        /\ kind.create[j].unknown = kind.create[pc].unknown
        /\ kind.create[j].clean = kind.create[pc].clean
    BY <1>4, <2>1 DEF SameCondition, StepsOf
  <2>3. (Applies(kind.create[j]))'
    BY <1>1, <2>2 DEF Applies, Differs
  <2> QED
    BY <1>2, <1>4, <2>3 DEF WillRecord
<1> QED
  BY <1>2, <1>3, <1>4

-----------------------------------------------------------------------------
(* Custody: the steps of Resource are steps of Custody. *)

There  == object # Absent /\ ~kind.adopted /\ kind.name \notin Leaky
Holder == IF state # Absent THEN "state"
          ELSE IF phase = "create" THEN "handler" ELSE "nobody"

HeldStep == [Held!Next]_(Held!custody)

LEMMA HeldVanish ==
    ASSUME There' => There, Holder' = Holder
    PROVE  HeldStep
<1> USE DEF There, Holder
<1>1. CASE There' = There
  BY <1>1 DEF HeldStep, Held!custody
<1>2. CASE There /\ ~There'
  BY <1>2 DEF HeldStep, Held!custody, Held!Next, Held!Vanish
<1> QED
  BY <1>1, <1>2

LEMMA HeldHandover ==
    ASSUME There' = There, Holder = "handler" /\ Holder' = "state"
    PROVE  HeldStep
  BY DEF There, Holder, HeldStep, Held!custody, Held!Next, Held!Record

LEMMA HeldNothing ==
    ASSUME ~There, ~There',
           \/ Holder = "nobody" /\ Holder' = "handler"
           \/ Holder = "handler" /\ Holder' = "nobody"
           \/ Holder = "state" /\ Holder' = "nobody"
    PROVE  HeldStep
  BY DEF There, Holder, HeldStep, Held!custody, Held!Next, Held!Take, Held!GiveUp, Held!Forget

LEMMA HeldMake ==
    ASSUME ~There, There', Holder = "handler", Holder' = "handler"
    PROVE  HeldStep
  BY DEF There, Holder, HeldStep, Held!custody, Held!Next, Held!Make

LEMMA Custodian ==
    ASSUME TypedFlow, Safe, There
    PROVE  /\ InCustody /\ Holder \in {"state", "handler"}
           /\ Holder = "state" <=> state # Absent
           /\ phase \in {"read", "update", "destroy"} => saved # Absent
  BY DEF TypedFlow, Typed, Safe, There, InCustody, Holder

LEMMA RestHeld ==
    ASSUME TypedFlow, Safe, kind' = kind, NEW p \in {"idle", "plan"}, Rest(p),
           object' # Absent => object # Absent,
           phase = "create" => (object' = Absent <=> object = Absent),
           There => state' # Absent,
           state = Absent /\ phase # "create" => state' = Absent
    PROVE  Safe' /\ HeldStep
<1>1. phase' = p /\ Holder' = IF state' # Absent THEN "state" ELSE "nobody"
  BY DEF Rest, Holder
<1>2. There' => There
  BY DEF There
<1>3. Safe'
  BY <1>1, <1>2 DEF Safe, There, InCustody
<1> SUFFICES HeldStep
  BY <1>3
<1>4. CASE There
  <2>1. Holder' = "state"
    BY <1>1, <1>4
  <2>2. CASE Holder = "state"
    BY <1>2, <2>1, <2>2, HeldVanish
  <2>3. CASE Holder = "handler"
    <3>1. phase = "create"
      BY <2>3 DEF Holder
    <3>2. There' = There
      BY <1>2, <1>4, <3>1 DEF There
    <3> QED
      BY <2>1, <2>3, <3>2, HeldHandover
  <2> QED
    BY <1>4, <2>2, <2>3, Custodian
<1>5. CASE ~There
  <2>1. ~There' /\ There' = There
    <3>1. There \in BOOLEAN /\ There' \in BOOLEAN
      BY DEF There
    <3> QED
      BY <1>2, <1>5, <3>1
  <2>2. \/ Holder' = Holder
        \/ Holder = "handler" /\ Holder' \in {"state", "nobody"}
        \/ Holder = "state" /\ Holder' = "nobody"
    BY <1>1 DEF Holder
  <2> QED
    BY <1>5, <2>1, <2>2, HeldVanish, HeldHandover, HeldNothing
<1> QED
  BY <1>4, <1>5

LEMMA StartHeld ==
    ASSUME TypedFlow, Safe, UNCHANGED <<kind, object, state>>, phase \in {"idle", "plan"},
           NEW p \in {"create", "read", "update", "destroy"}, NEW q, Start(p, q),
           (p = "create") = (state = Absent)
    PROVE  Safe' /\ HeldStep
<1>1. phase' = p /\ pc' = 1 /\ saved' = IF p = "create" THEN Absent ELSE state
  BY DEF Start
<1>2. There' = There /\ InCustody' = InCustody
  BY DEF There, InCustody
<1>3. CASE p = "create"
  <2>1. ~There
    BY <1>3 DEF Safe, There, InCustody
  <2>2. Safe'
    BY <1>2, <2>1 DEF Safe, There, InCustody
  <2>3. Holder = "nobody" /\ Holder' = "handler"
    BY <1>1, <1>3 DEF Holder
  <2> QED
    BY <1>2, <2>1, <2>2, <2>3, HeldNothing
<1>4. CASE p # "create"
  <2>1. InCustody => WillDelete'
    BY <1>1, WillDeleteAtFirst
  <2>2. Safe'
    BY <1>1, <1>2, <1>4, <2>1 DEF Safe
  <2>3. Holder = "state" /\ Holder' = "state"
    BY <1>4 DEF Holder
  <2> QED
    BY <1>2, <2>2, <2>3, HeldVanish
<1> QED
  BY <1>3, <1>4

\* A handler runs on: from a record it goes on with it, from an object it made
\* to the record, and towards a deletion.
LEMMA ContinueSafe ==
    ASSUME TypedFlow, Safe, InHandler, pc <= Len(Program),
           UNCHANGED <<kind, config, state, phase, plan>>, pc' = pc + 1,
           InCustody, object # Absent,
           saved' = saved \/ saved' # Absent,
           phase = "create" /\ Records(Program[pc]) /\ Applies(Program[pc]) => saved' # Absent,
           phase = "destroy" => model' = model,
           phase = "destroy" => outcome' \in {outcome, "failed"},
           phase = "destroy" /\ Program[pc].op = "delete" /\ Applies(Program[pc])
               => outcome' = "failed"
    PROVE  Safe'
<1>1. pc \in Nat
  BY DEF TypedFlow, Typed
<1>2. CASE phase \in {"read", "update"}
  BY <1>2 DEF Safe, TypedFlow, Flow
<1>3. CASE phase = "create"
  <2>1. Program = kind.create
    BY <1>3 DEF Program
  <2>2. CASE saved' # Absent
    BY <1>3, <2>2 DEF Safe
  <2>3. CASE saved' = Absent
    <3>1. PICK j \in pc .. Len(kind.create) :
              /\ RecordedAt(kind.create, pc, j)
              /\ Unconditional(kind.create[j]) \/ (j = pc /\ Applies(kind.create[j]))
      BY <1>3, <2>3 DEF Safe, WillRecord
    <3>2. Applies(kind.create[j]) \/ j # pc
      BY <3>1, UnconditionalApplies
    <3>3. j # pc
      BY <1>3, <2>1, <2>3, <3>1, <3>2 DEF RecordedAt
    <3>4. j \in (pc + 1) .. Len(kind.create) /\ Unconditional(kind.create[j])
          /\ RecordedAt(kind.create, pc + 1, j)
      BY <1>1, <3>1, <3>3 DEF RecordedAt
    <3>5. WillRecord'
      BY <3>4 DEF WillRecord
    <3> QED
      BY <1>3, <3>5 DEF Safe
  <2> QED
    BY <2>2, <2>3
<1>4. CASE phase = "destroy"
  <2>1. Program = kind.destroy
    BY <1>4 DEF Program
  <2>2. state # Absent /\ saved # Absent /\ saved' # Absent /\ (outcome = "failed" \/ WillDelete)
    BY <1>4 DEF Safe, TypedFlow, Flow
  <2>3. CASE outcome' = "failed"
    BY <1>4, <2>2, <2>3 DEF Safe
  <2>4. CASE outcome' # "failed"
    <3>1. outcome' = outcome /\ WillDelete
      BY <1>4, <2>2, <2>4
    <3>2. PICK i \in pc .. Len(kind.destroy) : kind.destroy[i].op = "delete" /\ Applies(kind.destroy[i])
      BY <3>1 DEF WillDelete
    <3>3. i # pc
      BY <1>4, <2>1, <2>4, <3>2
    <3>4. i \in (pc + 1) .. Len(kind.destroy)
      BY <1>1, <3>2, <3>3
    <3>5. model' = model /\ outcome' = outcome
      BY <1>4, <3>1
    <3>6. (Applies(kind.destroy[i]))'
      BY <3>2, <3>5 DEF Applies, Differs
    <3>7. WillDelete'
      BY <3>2, <3>4, <3>6 DEF WillDelete
    <3> QED
      BY <1>4, <2>2, <3>7 DEF Safe
  <2> QED
    BY <2>3, <2>4
<1> QED
  BY <1>2, <1>3, <1>4 DEF InHandler

\* Between two steps the holder stays the same.
LEMMA StayHeld ==
    ASSUME UNCHANGED <<kind, state, phase>>,
           InCustody /\ object' # Absent => object # Absent /\ Safe'
    PROVE  Safe' /\ HeldStep
<1>1. Safe'
  BY DEF Safe, InCustody
<1>2. There' => There
  BY DEF There, InCustody
<1>3. Holder' = Holder
  BY DEF Holder
<1> QED
  BY <1>1, <1>2, <1>3, HeldVanish

LEMMA RunHeld ==
    ASSUME TypedFlow, Safe, Begin \/ PlanNothing \/ PlanCreate \/ PlanUpdate \/ PlanDestroy
    PROVE  Safe' /\ HeldStep
<1> USE DEF world, weather
<1>1. phase \in {"idle", "plan"} /\ UNCHANGED <<kind, object, state>>
  BY DEF Begin, PlanNothing, PlanCreate, PlanUpdate, PlanDestroy
<1>2. There => state' # Absent
  BY <1>1 DEF Safe, There, InCustody
<1>3. CASE Begin
  <2>1. CASE state = Absent
    BY <1>1, <1>2, <1>3, <2>1, RestHeld DEF Begin
  <2>2. CASE state # Absent
    BY <1>1, <1>3, <2>2, StartHeld DEF Begin
  <2> QED
    BY <2>1, <2>2
<1>4. CASE PlanNothing
  BY <1>1, <1>2, <1>4, RestHeld DEF PlanNothing, Succeed
<1>5. CASE PlanCreate
  BY <1>1, <1>5, StartHeld DEF PlanCreate
<1>6. CASE PlanUpdate
  BY <1>1, <1>6, StartHeld DEF PlanUpdate
<1>7. CASE PlanDestroy
  BY <1>1, <1>7, StartHeld DEF PlanDestroy
<1> QED
  BY <1>3, <1>4, <1>5, <1>6, <1>7

LEMMA AbortHeld ==
    ASSUME TypedFlow, Safe, InHandler, Abort, kind' = kind,
           object' # Absent => object # Absent,
           phase = "create" => (object' = Absent <=> object = Absent),
           phase = "create" /\ There => saved # Absent
    PROVE  Safe' /\ HeldStep
<1>1. Rest("idle")
  BY DEF Abort
<1>2. CASE phase \in {"create", "update"}
  <2>1. state' = Absent <=> saved = Absent
    BY <1>2, HandedBackType DEF Abort
  <2>2. There => saved # Absent
    BY <1>2, Custodian
  <2>3. state = Absent /\ phase # "create" => state' = Absent
    BY <1>2 DEF TypedFlow, Flow
  <2> QED
    BY <1>1, <2>1, <2>2, <2>3, RestHeld
<1>3. CASE phase \notin {"create", "update"}
  <2>1. state' = state
    BY <1>3 DEF Abort
  <2>2. There => state # Absent
    BY <1>3, Custodian DEF Holder
  <2> QED
    BY <1>1, <1>3, <2>1, <2>2, RestHeld
<1> QED
  BY <1>2, <1>3

\* Until the object is recorded the create handler does nothing that can fail.
LEMMA OnlyHarmless ==
    ASSUME TypedFlow, Safe, There, phase = "create", saved = Absent
    PROVE  pc <= Len(Program) /\ (Records(Program[pc]) \/ Harmless(Program[pc]))
<1>1. Program = kind.create /\ pc \in Nat /\ Len(kind.create) \in Nat
  BY ProgramShape DEF Program, TypedFlow, Typed
<1>2. PICK j \in pc .. Len(kind.create) : RecordedAt(kind.create, pc, j)
  BY DEF Safe, There, InCustody, WillRecord
<1>3. CASE j = pc
  BY <1>1, <1>2, <1>3 DEF RecordedAt
<1>4. CASE j # pc
  <2>1. pc \in pc .. (j - 1)
    BY <1>1, <1>2, <1>4
  <2> QED
    BY <1>1, <1>2, <2>1 DEF RecordedAt
<1> QED
  BY <1>3, <1>4

LEMMA GoOnHeld ==
    ASSUME TypedFlow, Safe, InHandler, pc <= Len(Program), UNCHANGED <<kind, config>>,
           GoOn \/ GoWithout, InCustody /\ object' # Absent => object # Absent,
           Program[pc].op \in Calls,
           InCustody /\ phase = "destroy" /\ Program[pc].op = "delete" => GoOn \/ object' = Absent
    PROVE  Safe' /\ HeldStep
<1>1. UNCHANGED <<kind, config, state, phase, plan, saved, model>> /\ pc' = pc + 1
  BY DEF GoOn, GoWithout, Continue
<1>2. outcome' \in {outcome, "failed"} /\ (GoOn => outcome' = "failed")
  BY DEF GoOn, GoWithout
<1>3. ~Records(Program[pc])
  BY DEF Records, Calls, Updates
<1>4. InCustody /\ object' # Absent => Safe'
  BY <1>1, <1>2, <1>3, ContinueSafe
<1> QED
  BY <1>1, <1>4, StayHeld

LEMMA MissesHeld ==
    ASSUME TypedFlow, Safe, CallMisses
    PROVE  Safe' /\ HeldStep
<1> USE DEF world, weather
<1>1. /\ InHandler /\ pc <= Len(Program) /\ UNCHANGED <<kind, config, object>>
      /\ Program[pc] \in StepsOf(AllOps, Attributes) /\ ~Found
  BY StepType DEF CallMisses, AtStep
<1>2. Program[pc].missing \in {"error", "goOn", "forget", "ok", "empty", "nothing"}
  BY <1>1 DEF StepsOf
<1>3. ~There
  <2>1. InCustody => kind.schema.key = {}
    BY IsCareful DEF Careful
  <2> QED
    BY <1>1, <2>1 DEF Found, There, InCustody
<1>4. CASE Program[pc].missing = "error"
  <2>1. Abort
    BY <1>4 DEF CallMisses
  <2> QED
    BY <1>1, <1>3, <2>1, AbortHeld
<1>5. CASE Program[pc].missing # "error"
  <2>1. UNCHANGED <<state, phase>>
    BY <1>2, <1>5 DEF CallMisses, GoOn, GoWithout, Continue
  <2> QED
    BY <1>1, <1>3, <2>1, StayHeld DEF There, InCustody
<1> QED
  BY <1>4, <1>5

LEMMA FailsHeld ==
    ASSUME TypedFlow, Safe, CallFails
    PROVE  Safe' /\ HeldStep
<1> USE DEF world
<1>1. /\ InHandler /\ pc <= Len(Program) /\ UNCHANGED <<kind, config>> /\ Program[pc].op \in Calls
      /\ Applies(Program[pc])
  BY DEF CallFails, AtStep
<1>2. object' # Absent => object # Absent
  BY DEF CallFails, Found
<1>3. phase = "create" => (object' = Absent <=> object = Absent)
  <2>1. SUFFICES ASSUME phase = "create", object # Absent PROVE object' # Absent
    BY <1>2
  <2>2. Program[pc].op # "delete"
    BY <1>1, <2>1, StepType DEF Applying, Reading, Fills
  <2>3. CASE AtStep({"create", "put", "update", "blank", "clear"})
    BY <2>1, <2>2, <2>3, AppliedType, NoFunction DEF CallFails, TypedFlow, Typed
  <2>4. CASE Program[pc].op \notin {"create", "put", "update", "blank", "clear"}
    BY <2>1, <2>2, <2>4 DEF CallFails, Updates
  <2> QED
    BY <1>1, <2>3, <2>4 DEF AtStep
<1>4. CASE Program[pc].missing = "goOn"
  BY <1>1, <1>2, <1>4, GoOnHeld DEF CallFails
<1>5. CASE Program[pc].missing = "nothing"
  <2>1. GoWithout
    BY <1>5 DEF CallFails
  <2>2. ~(InCustody /\ phase = "destroy" /\ Program[pc].op = "delete")
    <3>1. SUFFICES ASSUME InCustody, phase = "destroy" PROVE Program[pc].op # "delete"
      OBVIOUS
    <3>2. Program = kind.destroy /\ pc \in DOMAIN kind.destroy
      BY <1>1, <3>1, ProgramShape DEF Program, TypedFlow, Typed, Flow
    <3> QED
      BY <1>5, <3>1, <3>2, IsCareful DEF Careful
  <2> QED
    BY <1>1, <1>2, <2>1, <2>2, GoOnHeld
<1>6. CASE Program[pc].missing \notin {"goOn", "nothing"}
  <2>1. Abort
    BY <1>6 DEF CallFails
  <2>2. phase = "create" /\ There => saved # Absent
    BY <1>1, <1>6, OnlyHarmless DEF Harmless, Records, Fills, Calls, Updates
  <2> QED
    BY <1>1, <1>2, <1>3, <2>1, <2>2, AbortHeld
<1> QED
  BY <1>4, <1>5, <1>6

\* A call or a local step that leaves the handler running and makes no object.
LEMMA StepHeld ==
    ASSUME TypedFlow, Safe, InHandler, pc <= Len(Program),
           UNCHANGED <<kind, config, state, phase, plan, outcome>>, pc' = pc + 1,
           object' # Absent => object # Absent,
           saved' = saved \/ saved' # Absent,
           Records(Program[pc]) /\ Applies(Program[pc]) => saved' # Absent,
           phase = "destroy" => model' = model,
           phase = "destroy" /\ Program[pc].op = "delete" /\ Applies(Program[pc]) => object' = Absent
    PROVE  Safe' /\ HeldStep
<1>1. InCustody /\ object' # Absent => Safe'
  BY ContinueSafe
<1> QED
  BY <1>1, StayHeld

LEMMA CreateHeld ==
    ASSUME TypedFlow, Safe, CallCreate
    PROVE  Safe' /\ HeldStep
<1> USE DEF world, weather
<1>1. /\ InHandler /\ pc <= Len(Program) /\ Makes(Program[pc]) /\ Applies(Program[pc])
      /\ UNCHANGED <<kind, config, state, phase, plan, model, saved, outcome>> /\ pc' = pc + 1
  BY DEF CallCreate, AtStep, Continue, Makes
<1>2. object' # Absent
  <2>1. AtStep({"create", "put", "update", "blank", "clear"})
    BY DEF CallCreate, AtStep
  <2> QED
    BY <2>1, AppliedType, NoFunction DEF CallCreate, TypedFlow, Typed
<1>3. CASE ~InCustody
  BY <1>1, <1>3, StayHeld
<1>4. CASE InCustody
  <2>1. phase = "create"
    <3>1. phase \in {"create", "update"}
      BY <1>1, StepType DEF InHandler, Makes, Reading, Fills
    <3>2. phase # "update"
      <4>1. SUFFICES ASSUME phase = "update" PROVE FALSE
        OBVIOUS
      <4>2. Program = kind.update /\ pc \in DOMAIN kind.update
        BY <1>1, <4>1, ProgramShape DEF Program, TypedFlow, Typed, Flow
      <4> QED
        BY <1>1, <1>4, <4>2, IsCareful DEF Careful
    <3> QED
      BY <3>1, <3>2
  <2>2. Safe'
    <3>1. CASE saved # Absent
      BY <1>1, <2>1, <3>1 DEF Safe
    <3>2. CASE saved = Absent
      <4>1. WillRecord'
        BY <1>1, <1>4, <2>1, WillRecordOnceMade
      <4> QED
        BY <1>1, <2>1, <4>1 DEF Safe
    <3> QED
      BY <3>1, <3>2
  <2>3. Holder = "handler" /\ Holder' = "handler"
    BY <1>1, <2>1 DEF Holder, TypedFlow, Flow
  <2>4. There'
    BY <1>1, <1>2, <1>4 DEF There, InCustody
  <2> QED
    BY <2>2, <2>3, <2>4, HeldMake, HeldVanish
<1> QED
  BY <1>3, <1>4

LEMMA CallHeld ==
    ASSUME TypedFlow, Safe, CallUpdate \/ CallGet \/ CallDelete \/ CallWait
    PROVE  Safe' /\ HeldStep
<1> USE DEF world, weather
<1>1. /\ InHandler /\ pc <= Len(Program) /\ pc' = pc + 1
      /\ UNCHANGED <<kind, config, state, phase, plan, outcome, saved, model>>
      /\ ~Records(Program[pc])
  BY DEF CallUpdate, CallGet, CallDelete, CallWait, AtStep, Continue, Records, Updates
<1>2. object' # Absent => object # Absent
  BY DEF CallUpdate, CallGet, CallDelete, CallWait, Found
<1>3. Program[pc].op = "delete" => object' = Absent
  BY DEF CallUpdate, CallGet, CallDelete, CallWait, AtStep, Updates
<1> QED
  BY <1>1, <1>2, <1>3, StepHeld

LEMMA LocalHeld ==
    ASSUME TypedFlow, Safe,
           Refuse \/ CallRefused \/ Drop \/ Skip \/ SaveState \/ ReadAnswer \/ CopyState \/ ComputeValue
    PROVE  Safe' /\ HeldStep
<1> USE DEF world, weather
<1>1. CASE Refuse \/ CallRefused
  <2>1. InHandler /\ Abort /\ UNCHANGED <<kind, object>>
        /\ Program[pc].op \in {"require", "requireBefore", "reject", "create"} \union Updates
    BY <1>1 DEF Refuse, CallRefused, Taken, Frozen, AtStep
  <2>2. phase = "create" /\ There => saved # Absent
    BY <2>1, OnlyHarmless DEF Harmless, Records, Fills, Updates
  <2> QED
    BY <2>1, <2>2, AbortHeld
<1>2. CASE Drop
  <2>1. /\ InHandler /\ pc <= Len(Program) /\ UNCHANGED <<kind, state, phase>>
        /\ Program[pc].op = "forgetUnless"
    BY <1>2 DEF Drop, AtStep
  <2>2. ~InCustody
    <3>1. phase = "read"
      BY <2>1, StepType DEF InHandler, Applying, Reading, Fills
    <3>2. Program = kind.read /\ pc \in DOMAIN kind.read
      BY <2>1, <3>1, ProgramShape DEF Program, TypedFlow, Typed, Flow, InHandler
    <3> QED
      BY <2>1, <3>2, IsCareful DEF Careful
  <2> QED
    BY <2>1, <2>2, StayHeld
<1>3. CASE Skip
  <2>1. /\ InHandler /\ pc <= Len(Program) /\ pc' = pc + 1
        /\ UNCHANGED <<kind, config, object, state, phase, plan, outcome, saved, model>>
    BY <1>3 DEF Skip, Continue
  <2>2. ~(Records(Program[pc]) /\ Applies(Program[pc]))
        /\ ~(Program[pc].op = "delete" /\ Applies(Program[pc]))
    BY <1>3 DEF Skip, Records
  <2> QED
    BY <2>1, <2>2, StepHeld
<1>4. CASE SaveState
  <2>1. /\ InHandler /\ pc <= Len(Program) /\ pc' = pc + 1
        /\ UNCHANGED <<kind, config, object, state, phase, plan, outcome, model>>
        /\ Program[pc].op \in {"saveId", "save", "forget"}
    BY <1>4 DEF SaveState, AtStep, Continue
  <2>2. CASE Program[pc].op = "forget"
    <3>1. phase = "destroy"
      BY <2>1, <2>2, StepType DEF InHandler, Applying, Reading, Fills
    <3>2. Program = kind.destroy /\ pc \in DOMAIN kind.destroy
      BY <2>1, <3>1, ProgramShape DEF Program, TypedFlow, Typed, Flow, InHandler
    <3>3. ~InCustody
      BY <2>2, <3>2, IsCareful DEF Careful
    <3> QED
      BY <2>1, <3>3, StayHeld
  <2>3. CASE Program[pc].op # "forget"
    <3>1. [a \in Attributes |-> Null] # Absent
      <4>1. [a \in Attributes |-> Null] \in Object
        BY <2>1, Working DEF Object
      <4> QED
        BY <4>1, NoFunction DEF TypedFlow, Typed
    <3>2. model # Absent
      BY <2>1 DEF TypedFlow, Flow
    <3>3. saved' # Absent
      BY <1>4, <2>3, <3>1, <3>2 DEF SaveState
    <3> QED
      BY <2>1, <3>3, StepHeld
  <2> QED
    BY <2>2, <2>3
<1>5. CASE ReadAnswer \/ CopyState \/ ComputeValue
  <2>1. /\ InHandler /\ pc <= Len(Program) /\ pc' = pc + 1
        /\ UNCHANGED <<kind, config, object, state, phase, plan, outcome, saved>>
        /\ Program[pc].op \in {"refresh", "refreshSet", "preserve", "copy", "compute", "without"}
    BY <1>5 DEF ReadAnswer, CopyState, ComputeValue, AtStep, Continue
  <2>2. phase # "destroy" /\ ~Records(Program[pc])
    BY <2>1, StepType DEF Records
  <2> QED
    BY <2>1, <2>2, StepHeld
<1> QED
  BY <1>1, <1>2, <1>3, <1>4, <1>5

LEMMA EndHeld ==
    ASSUME TypedFlow, Safe, EndRead \/ EndDestroy \/ EndApply
    PROVE  Safe' /\ HeldStep
<1> USE DEF world, weather
<1>1. UNCHANGED <<kind, object>> /\ InHandler /\ pc > Len(Program)
  BY DEF EndRead, EndDestroy, EndApply, AtEnd, InHandler
<1>2. pc \in Nat /\ Len(kind.create) \in Nat /\ Len(kind.destroy) \in Nat
  BY ProgramShape DEF TypedFlow, Typed
<1>3. CASE EndRead
  <2>1. phase = "read" /\ Rest("plan") /\ state' = HandedBack
    BY <1>3 DEF EndRead, AtEnd
  <2>2. There => state' # Absent
    BY <1>1, <2>1, Custodian, HandedBackType
  <2>3. state # Absent
    BY <2>1 DEF TypedFlow, Flow
  <2> QED
    BY <1>1, <2>1, <2>2, <2>3, RestHeld
<1>4. CASE EndDestroy
  <2>1. phase = "destroy" /\ Program = kind.destroy /\ state # Absent
    BY <1>4 DEF EndDestroy, AtEnd, Program, TypedFlow, Flow
  <2>2. ~WillDelete
    BY <1>1, <1>2, <2>1 DEF WillDelete
  <2>3. There => state' # Absent
    BY <1>4, <2>1, <2>2 DEF EndDestroy, Safe, There, InCustody
  <2>4. PICK p \in {"idle", "plan"} : Rest(p)
    BY <1>4 DEF EndDestroy
  <2> QED
    BY <1>1, <2>1, <2>3, <2>4, RestHeld
<1>5. CASE EndApply
  <2>1. Rest("idle") /\ state' = Recorded(HandedBack) /\ phase \in {"create", "update"}
    BY <1>5 DEF EndApply, AtEnd, Succeed
  <2>2. phase = "create" /\ There => saved # Absent
    BY <1>1, OnlyHarmless, <1>2 DEF Program
  <2>3. There => state' # Absent
    BY <1>1, <2>1, <2>2, Custodian, HandedBackType
  <2>4. phase # "create" => state # Absent
    BY <2>1 DEF TypedFlow, Flow
  <2> QED
    BY <1>1, <2>1, <2>3, <2>4, RestHeld
<1> QED
  BY <1>3, <1>4, <1>5

LEMMA OutsideHeld ==
    ASSUME TypedFlow, Safe, Edit \/ Interfere
    PROVE  Safe' /\ HeldStep
<1> USE DEF world, weather
<1>1. CASE Edit
  <2>1. UNCHANGED <<kind, object, state, phase>> /\ phase = "idle"
    BY <1>1 DEF Edit
  <2>2. Safe'
    BY <2>1 DEF Safe, InCustody
  <2> QED
    BY <2>1, <2>2, StayHeld
<1>2. CASE Interfere
  <2>1. UNCHANGED <<kind, config, state, phase, pc, plan, model, saved, outcome>> /\ object # Absent
    BY <1>2 DEF Interfere
  <2>2. WillRecord => WillRecord'
    <3>1. \A j : Applies(kind.create[j]) => (Applies(kind.create[j]))'
      BY <2>1 DEF Applies, Differs
    <3> QED
      BY <2>1, <3>1 DEF WillRecord
  <2>3. WillDelete => WillDelete'
    <3>1. \A j : Applies(kind.destroy[j]) => (Applies(kind.destroy[j]))'
      BY <2>1 DEF Applies, Differs
    <3> QED
      BY <2>1, <3>1 DEF WillDelete
  <2>4. Safe'
    BY <2>1, <2>2, <2>3 DEF Safe, InCustody
  <2> QED
    BY <2>1, <2>4, StayHeld
<1> QED
  BY <1>1, <1>2

LEMMA NextHeld == TypedFlow /\ Safe /\ [Next]_vars => Safe' /\ HeldStep
<1> SUFFICES ASSUME TypedFlow, Safe, [Next]_vars PROVE Safe' /\ HeldStep
  OBVIOUS
<1>1. CASE UNCHANGED vars
  <2>1. WillRecord' = WillRecord /\ WillDelete' = WillDelete
    BY <1>1 DEF vars, WillRecord, WillDelete, Applies, Differs
  <2>2. Safe'
    BY <1>1, <2>1 DEF vars, Safe, InCustody
  <2> QED
    BY <1>1, <2>2, StayHeld DEF vars
<1>2. CASE Run
  BY <1>2, RunHeld, EndHeld, CreateHeld, CallHeld, MissesHeld, FailsHeld, LocalHeld DEF Run, Handle
<1>3. CASE Edit \/ Interfere
  BY <1>3, OutsideHeld
<1> QED
  BY <1>1, <1>2, <1>3 DEF Next

LEMMA InitHeld == Init => Safe /\ Held!Init
<1> SUFFICES ASSUME Init PROVE Safe /\ Held!Init
  OBVIOUS
<1>1. TypedFlow /\ phase = "idle"
  BY InitTyped DEF Init
<1>2. kind.adopted \/ object = Absent \/ state # Absent
  <2>1. CASE Imported
    <3>1. [a \in Attributes |-> IF a \in kind.imports THEN object[a] ELSE Null] # Absent
      <4>1. DOMAIN [a \in Attributes |-> IF a \in kind.imports THEN object[a] ELSE Null] # {}
        BY <1>1, NoFunction DEF TypedFlow, Typed
      <4>2. DOMAIN Absent = {}
        BY DEF Absent
      <4> QED
        BY <4>1, <4>2
    <3> QED
      BY <2>1, <3>1 DEF Imported
  <2>2. CASE ~Imported
    BY <2>2 DEF Init
  <2> QED
    BY <2>1, <2>2
<1>3. Safe
  BY <1>1, <1>2 DEF Safe, InCustody
<1>4. Held!Init
  BY <1>1, <1>2 DEF Held!Init
<1> QED
  BY <1>3, <1>4

\* For any resources whose create handlers record what they make before anything
\* else can fail, and whose delete handlers leave out no deletion, the handlers
\* implement Custody: no failed call, early return, replacement or deletion by
\* somebody else ever makes an object that nobody knows of, or a second one.
THEOREM CustodyKept == Spec => KeepsCustody
<1>1. [](TypedFlow /\ Safe) /\ [][Next]_vars => [][Held!Next]_(Held!custody)
  BY NextHeld, PTL DEF HeldStep
<1>2. Spec => []Safe
  BY TypedInvariant, InitHeld, NextHeld, PTL DEF Spec
<1> QED
  BY <1>1, <1>2, TypedInvariant, InitHeld, PTL DEF Spec, KeepsCustody, Held!Spec

-----------------------------------------------------------------------------
(* The import: what the read handler after it has found out so far. *)

Importing == outcome = "imported" /\ phase = "read" /\ quiet /\ Recognised
Looked    == \E i \in 1 .. (pc - 1) : Looks(kind.read[i])
Learnt(a) == \E j \in 1 .. (pc - 1) : LearnsAt(kind, j, a)

\* An import has recorded what it takes to find the object, and the read handler
\* does not lose it; and each attribute the read handler holds is the null of the import or the value of the object,
\* that value once the handler is past a step that takes it.
ImportInv ==
    /\ outcome = "imported" => kind.importable
    /\ outcome = "imported" /\ phase \in {"idle", "read"} =>
          state # Absent /\ \A a \in Attributes \ kind.imports : state[a] = Null
    /\ Importing =>
          /\ saved # Absent
          /\ answer \in {Absent, object} /\ (Looked => answer = object)
          /\ \A a \in kind.schema.key : model[a] = object[a]
          /\ \A a \in ToLearn(kind) :
                /\ a \notin kind.imports => model[a] \in {Null, object[a]}
                /\ Learnt(a) => model[a] = object[a]
          /\ kind.framework /\ pc > Len(kind.read) => saved = model

LEMMA ToLearnIs ==
    ToLearn(kind) = {a \in Given \intersect Shown : <<kind.name, a>> \notin Unread}
  BY DEF ToLearn, Given, Shown

LEMMA ReadsAllOfIt ==
    ASSUME TypedFlow, ImportInv, outcome = "imported"
    PROVE  ReadsAll(kind)
  BY ReadAssumption DEF ReadAssumption, ImportInv, TypedFlow, Typed

LEMMA NotImporting ==
    ASSUME ImportInv, kind' = kind, outcome' # "imported" \/ outcome' = outcome,
           outcome' = "imported" => phase' \notin {"idle", "read"}
    PROVE  ImportInv'
  BY DEF ImportInv, Importing

\* Disturbed, or without the object that was imported, the handler may hold anything.
LEMMA ImportSpoilt ==
    ASSUME ImportInv, UNCHANGED <<kind, phase, state>>,
           outcome' # "imported" \/ outcome' = outcome, ~quiet' \/ ~Recognised'
    PROVE  ImportInv'
<1>1. Attributes' = Attributes
  BY DEF Attributes
<1> QED
  BY <1>1 DEF ImportInv, Importing

LEMMA InRead ==
    ASSUME TypedFlow, phase = "read"
    PROVE  /\ Program = kind.read /\ pc \in Nat /\ pc >= 1
           /\ pc <= Len(Program) => pc \in DOMAIN kind.read /\ pc <= Len(kind.read)
<1>1. Program = kind.read
  BY DEF Program
<1>2. pc \in Nat /\ pc >= 1
  BY DEF TypedFlow, Typed, Flow, InHandler
<1> QED
  BY <1>1, <1>2, ProgramShape DEF TypedFlow

LEMMA ImportInit == Init => ImportInv
<1> SUFFICES ASSUME Init PROVE ImportInv
  OBVIOUS
<1>1. phase = "idle" /\ kind \in Kinds
  BY DEF Init
<1>2. outcome = "imported" => Imported
  BY DEF Init
<1>3. ASSUME Imported
      PROVE  state # Absent /\ \A a \in Attributes \ kind.imports : state[a] = Null
  <2>1. state = [a \in Attributes |-> IF a \in kind.imports THEN object[a] ELSE Null]
    BY <1>3 DEF Imported
  <2>2. Attributes # {} /\ DOMAIN Absent = {}
    BY <1>1, NoFunction DEF Absent
  <2> QED
    BY <2>1, <2>2
<1> QED
  BY <1>1, <1>2, <1>3 DEF ImportInv, Importing, Imported

\* One step of the read handler ahead.
LEMMA ReadOn ==
    ASSUME TypedFlow, ImportInv, Importing, pc <= Len(kind.read), pc' = pc + 1,
           UNCHANGED <<kind, object, state, phase, quiet, outcome>>,
           saved' # Absent, answer' \in {Absent, object},
           Looked \/ Looks(kind.read[pc]) => answer' = object,
           \A a \in kind.schema.key : model'[a] \in {model[a], object[a]},
           \A a \in ToLearn(kind) :
              /\ model'[a] \in {model[a], object[a]}
              /\ LearnsAt(kind, pc, a) => model'[a] = object[a],
           kind.framework /\ pc = Len(kind.read) => saved' = model'
    PROVE  ImportInv'
<1>1. pc \in Nat /\ pc >= 1 /\ Len(kind.read) \in Nat
  BY ProgramShape DEF TypedFlow, Typed, Flow, Importing, InHandler
<1>2. \A j \in 1 .. (pc' - 1) : j \in 1 .. (pc - 1) \/ j = pc
  BY <1>1
<1>3. Looked' => Looked \/ Looks(kind.read[pc])
  BY <1>2 DEF Looked
<1>4. ASSUME NEW a PROVE (Learnt(a))' => Learnt(a) \/ LearnsAt(kind, pc, a)
  BY <1>2 DEF Learnt, LearnsAt
<1>5. Attributes' = Attributes /\ (ToLearn(kind))' = ToLearn(kind)
  BY DEF Attributes, ToLearn
<1>6. ASSUME NEW a \in ToLearn(kind)
      PROVE  /\ a \notin kind.imports => model'[a] \in {Null, object[a]}
             /\ (Learnt(a))' => model'[a] = object[a]
  BY <1>4, <1>6 DEF ImportInv
<1>7. kind.framework /\ pc' > Len(kind.read) => saved' = model'
  BY <1>1
<1>8. (Looked => answer = object)' /\ saved' # Absent /\ answer' \in {Absent, object'}
  BY <1>3
<1>9. \A a \in kind.schema.key : model'[a] = object[a]
  BY DEF ImportInv
<1> QED
  BY <1>5, <1>6, <1>7, <1>8, <1>9 DEF ImportInv, Importing

\* A step of the handler that the conditions of the step leave out.
LEMMA SkipImport ==
    ASSUME TypedFlow, ImportInv, Importing, Skip
    PROVE  ImportInv'
<1>1. /\ Program = kind.read /\ pc \in DOMAIN kind.read /\ pc <= Len(kind.read)
      /\ UNCHANGED <<kind, object, state, phase, quiet, outcome, model, answer, saved>>
      /\ pc' = pc + 1
  BY InRead DEF Skip, Continue, Importing, world, weather
<1> DEFINE step == kind.read[pc]
<1>2. ~Applies(step) \/ step.op \in {"require", "requireBefore", "reject", "forgetUnless"}
  BY <1>1 DEF Skip
<1>3. ~Looks(step)
  BY <1>2, UnconditionalApplies DEF Looks
<1>4. ASSUME NEW a \in ToLearn(kind), LearnsAt(kind, pc, a)
      PROVE  model[a] = object[a]
  <2>1. Learns(kind, step, a) /\ ~Applies(step)
    BY <1>2, <1>4 DEF LearnsAt, Learns
  <2>2. /\ a \notin kind.imports /\ step.unless = {a}
        /\ Unconditional([step EXCEPT !.unless = {}])
    BY <2>1, UnconditionalApplies DEF Learns
  <2>3. step \in StepsOf(AllOps, Attributes)
    BY <1>1, StepType DEF Importing, InHandler
  <2>4. /\ step.when = {} /\ step.given = {} /\ step.configured = {}
        /\ step.unknown = {} /\ ~step.clean
    <3> DEFINE bare == [step EXCEPT !.unless = {}]
    <3>1. /\ bare.when = step.when /\ bare.given = step.given
          /\ bare.configured = step.configured /\ bare.unknown = step.unknown
          /\ bare.clean = step.clean
      BY <2>3 DEF StepsOf
    <3>2. /\ bare.when = {} /\ bare.given = {} /\ bare.configured = {}
          /\ bare.unknown = {} /\ ~bare.clean
      BY <2>2, UnconditionalParts
    <3> HIDE DEF bare
    <3> QED
      BY <3>1, <3>2
  <2>5. Known(model[a])
    BY <2>1, <2>2, <2>4 DEF Applies
  <2>6. model[a] \in {Null, object[a]}
    BY <2>2 DEF ImportInv
  <2> QED
    BY <2>5, <2>6 DEF Known
<1>5. kind.framework => pc # Len(kind.read)
  <2>1. ReadsAll(kind)
    BY ReadsAllOfIt DEF Importing
  <2> QED
    BY <1>2, <2>1, UnconditionalApplies DEF ReadsAll
<1>6. saved # Absent /\ answer \in {Absent, object} /\ (Looked => answer = object)
  BY DEF ImportInv
<1> QED
  BY <1>1, <1>3, <1>4, <1>5, <1>6, ReadOn

LEMMA LookImport ==
    ASSUME TypedFlow, ImportInv, Importing, CallGet \/ CallWait
    PROVE  ImportInv'
<1>1. /\ Program = kind.read /\ pc \in DOMAIN kind.read /\ pc <= Len(kind.read)
      /\ UNCHANGED <<kind, object, state, phase, quiet, outcome, model, saved>>
      /\ pc' = pc + 1 /\ kind.read[pc].op \in {"get", "list", "wait"}
  BY InRead DEF CallGet, CallWait, AtStep, Continue, Importing, world, weather
<1>2. saved # Absent /\ answer \in {Absent, object} /\ (Looked => answer = object)
  BY DEF ImportInv
<1>3. CASE CallGet
  <2>1. object = [a \in Attributes |-> object[a]]
    BY DEF Importing, Recognised, TypedFlow, Typed, Whole
  <2>2. answer' = object
    BY <1>2, <1>3, <2>1 DEF CallGet
  <2>3. \A a \in ToLearn(kind) : ~LearnsAt(kind, pc, a)
    BY <1>1 DEF LearnsAt, Learns
  <2>4. kind.framework => pc # Len(kind.read)
    BY <1>1, ReadsAllOfIt DEF Importing, ReadsAll
  <2> QED
    BY <1>1, <1>2, <2>2, <2>3, <2>4, ReadOn
<1>4. CASE CallWait
  <2>1. answer' = answer /\ kind.read[pc].op = "wait"
    BY <1>1, <1>4 DEF CallWait, AtStep
  <2>2. ~Looks(kind.read[pc]) /\ \A a \in ToLearn(kind) : ~LearnsAt(kind, pc, a)
    BY <2>1 DEF LearnsAt, Learns, Looks
  <2>3. kind.framework => pc # Len(kind.read)
    BY <2>1, ReadsAllOfIt DEF Importing, ReadsAll
  <2> QED
    BY <1>1, <1>2, <2>1, <2>2, <2>3, ReadOn
<1> QED
  BY <1>3, <1>4

LEMMA LocalImport ==
    ASSUME TypedFlow, ImportInv, Importing, SaveState \/ ReadAnswer \/ ComputeValue
    PROVE  ImportInv'
<1>1. /\ Program = kind.read /\ pc \in DOMAIN kind.read /\ pc <= Len(kind.read)
      /\ UNCHANGED <<kind, object, state, phase, quiet, outcome, answer>>
      /\ pc' = pc + 1
  BY InRead DEF SaveState, ReadAnswer, ComputeValue, AtStep, Continue, Importing, world, weather
<1> DEFINE step == kind.read[pc]
<1>2. saved # Absent /\ answer \in {Absent, object} /\ (Looked => answer = object)
  BY DEF ImportInv
<1>3. /\ ReadsAll(kind) /\ ToLearn(kind) \subseteq Attributes
      /\ kind.schema.key \subseteq Attributes
  BY ReadsAllOfIt, ResourceAssumption
     DEF Importing, ToLearn, Attributes, AttributesOf, GivenOf,
         ResourceAssumption, WellFormed, TypedFlow, Typed
<1>4. CASE SaveState
  <2>1. step.op \in {"saveId", "save", "forget"} /\ model' = model
    BY <1>1, <1>4 DEF SaveState, AtStep
  <2>2. step.op # "forget"
    BY <1>1, StepType DEF Importing, InHandler, Reading, Fills, Applying
  <2>3. [a \in Attributes |-> Null] # Absent /\ model # Absent
    <3>1. [a \in Attributes |-> Null] \in Object
      BY DEF Object, Values
    <3> QED
      BY <3>1, NoFunction DEF TypedFlow, Typed, Flow, Importing, InHandler
  <2>4. saved' # Absent /\ (step.op = "save" => saved' = model)
    BY <1>1, <1>4, <2>1, <2>2, <2>3 DEF SaveState
  <2>5. ~Looks(step) /\ \A a \in ToLearn(kind) : ~LearnsAt(kind, pc, a)
    BY <2>1 DEF LearnsAt, Learns, Looks
  <2>6. kind.framework /\ pc = Len(kind.read) => saved' = model'
    BY <1>3, <2>1, <2>4 DEF ReadsAll
  <2> QED
    BY <1>1, <1>2, <2>1, <2>4, <2>5, <2>6, ReadOn
<1>5. CASE ReadAnswer
  <2>1. step.op \in {"refresh", "refreshSet", "preserve"} /\ saved' = saved
    BY <1>1, <1>5 DEF ReadAnswer, AtStep
  <2>2. \A a \in ToLearn(kind) :
           model'[a] = IF a \in step.attrs /\ answer # Absent /\ Reads(step.op, a)
                       THEN answer[a] ELSE model[a]
    BY <1>1, <1>3, <1>5 DEF ReadAnswer
  <2>3. ASSUME NEW a \in ToLearn(kind)
        PROVE  /\ model'[a] \in {model[a], object[a]}
               /\ LearnsAt(kind, pc, a) => model'[a] = object[a]
    <3>1. model'[a] \in {model[a], object[a]}
      BY <1>2, <2>2
    <3>2. ASSUME LearnsAt(kind, pc, a) PROVE model'[a] = object[a]
      <4>1. Learns(kind, step, a) /\ Looked /\ a \in step.attrs
        BY <3>2 DEF LearnsAt, Learns, Looked
      <4>2. answer = object /\ answer # Absent
        BY <1>2, <4>1 DEF Importing, Recognised
      <4>3. CASE step.op = "refresh"
        BY <2>2, <4>1, <4>2, <4>3 DEF Reads
      <4>4. CASE step.op # "refresh"
        <5>1. step.op = "refreshSet" /\ a \notin kind.imports
          BY <4>1, <4>4 DEF Learns
        <5>2. model[a] \in {Null, object[a]}
          BY <5>1 DEF ImportInv
        <5>3. CASE object[a] = Null
          BY <3>1, <5>2, <5>3
        <5>4. CASE object[a] # Null
          BY <2>2, <4>1, <4>2, <5>1, <5>4 DEF Reads
        <5> QED
          BY <5>3, <5>4
      <4> QED
        BY <4>3, <4>4
    <3> QED
      BY <3>1, <3>2
  <2>4. ~Looks(step) /\ (kind.framework => pc # Len(kind.read))
    BY <1>3, <2>1 DEF Looks, ReadsAll
  <2>5. \A a \in kind.schema.key : model'[a] \in {model[a], object[a]}
    BY <1>1, <1>2, <1>3, <1>5 DEF ReadAnswer
  <2> QED
    BY <1>1, <1>2, <2>1, <2>3, <2>4, <2>5, ReadOn
<1>6. CASE ComputeValue
  <2>1. step.op \in {"compute", "without"} /\ saved' = saved
    BY <1>1, <1>6 DEF ComputeValue, AtStep
  <2>2. ASSUME NEW a \in ToLearn(kind) PROVE model'[a] = model[a] /\ ~LearnsAt(kind, pc, a)
    <3>1. a \notin step.attrs
      BY <1>1, <1>3, <2>1 DEF ReadsAll, MakesUp
    <3> QED
      BY <1>1, <1>3, <1>6, <3>1 DEF ComputeValue, LearnsAt, Learns
  <2>3. ~Looks(step) /\ (kind.framework => pc # Len(kind.read))
    BY <1>3, <2>1 DEF Looks, ReadsAll
  <2>4. ASSUME NEW a \in kind.schema.key PROVE model'[a] = model[a]
    <3>1. a \notin step.attrs
      BY <1>1, <1>3, <2>1 DEF ReadsAll, MakesUp
    <3> QED
      BY <1>1, <1>3, <1>6, <3>1 DEF ComputeValue
  <2> QED
    BY <1>1, <1>2, <2>1, <2>2, <2>3, <2>4, ReadOn
<1> QED
  BY <1>4, <1>5, <1>6

\* A step of any handler: those of the others tell nothing about the import.
LEMMA HandleImport ==
    ASSUME TypedFlow, ImportInv, Handle
    PROVE  ImportInv'
<1> USE DEF world, weather
<1>1. InHandler /\ pc <= Len(Program) /\ kind' = kind
  BY DEF Handle, AtStep, Refuse, Drop, Skip, CallCreate, CallUpdate, CallGet, CallDelete,
         CallWait, CallRefused, CallMisses, CallFails, SaveState, ReadAnswer, CopyState,
         ComputeValue
<1>2. ASSUME Abort PROVE ImportInv'
  BY <1>1, <1>2, NotImporting DEF Abort
<1>3. ASSUME ~Abort
      PROVE  phase' = phase /\ state' = state /\ outcome' \in {outcome, "failed"}
  <2>1. ~Refuse /\ ~CallRefused
    BY <1>3 DEF Refuse, CallRefused
  <2>2. CASE CallMisses
    <3>1. Program[pc].missing \in {"error", "goOn", "forget", "ok", "empty", "nothing"}
      BY <1>1, StepType DEF StepsOf
    <3> QED
      BY <1>3, <2>2, <3>1 DEF CallMisses, GoOn, GoWithout, Continue
  <2>3. CASE CallFails
    BY <1>3, <2>3 DEF CallFails, GoOn, GoWithout, Continue
  <2>4. CASE Drop \/ Skip \/ CallCreate \/ CallUpdate \/ CallGet \/ CallDelete \/ CallWait
    BY <2>4 DEF Drop, Skip, CallCreate, CallUpdate, CallGet, CallDelete, CallWait, Continue
  <2>5. CASE SaveState \/ ReadAnswer \/ CopyState \/ ComputeValue
    BY <2>5 DEF SaveState, ReadAnswer, CopyState, ComputeValue, Continue
  <2> QED
    BY <2>1, <2>2, <2>3, <2>4, <2>5 DEF Handle
<1>4. CASE ~Abort /\ (phase # "read" \/ outcome' # "imported")
  BY <1>1, <1>3, <1>4, NotImporting DEF InHandler
<1>5. CASE ~Abort /\ phase = "read" /\ outcome' = "imported" /\ (~quiet' \/ ~Recognised')
  BY <1>1, <1>3, <1>5, ImportSpoilt
<1>6. CASE ~Abort /\ phase = "read" /\ outcome' = "imported" /\ quiet' /\ Recognised'
  <2>1. outcome = "imported" /\ outcome' = outcome
    BY <1>3, <1>6
  <2>2. Program[pc].op \in Reading \union {"forgetUnless"}
    BY <1>1, <1>6, StepType
  <2>3. ReadsAll(kind) /\ Program = kind.read /\ pc \in DOMAIN kind.read
    BY <1>1, <1>6, <2>1, ReadsAllOfIt, ProgramShape DEF Program, TypedFlow, Typed, Flow, InHandler
  <2>4. ~Refuse /\ ~CallRefused /\ ~Drop /\ ~CallFails /\ ~CallCreate /\ ~CallUpdate /\ ~CallDelete /\ ~CopyState
    BY <1>6, <2>2, <2>3 DEF Refuse, CallRefused, Drop, CallFails, CallCreate, CallUpdate,
                            CallDelete, CopyState, AtStep, ReadsAll, Reading, Fills,
                            Taken, Frozen, Updates
  <2>5. ~CallMisses
    <3>1. SUFFICES ASSUME CallMisses PROVE FALSE
      OBVIOUS
    <3>2. UNCHANGED <<kind, object, quiet>> /\ state' = state
      BY <1>3, <1>6, <3>1 DEF CallMisses
    <3>3. Importing
      BY <1>6, <2>1, <3>2 DEF Importing, Recognised
    <3>4. Found
      BY <3>3 DEF ImportInv, Importing, Recognised, Found
    <3> QED
      BY <3>1, <3>4 DEF CallMisses
  <2>6. Skip \/ CallGet \/ CallWait \/ SaveState \/ ReadAnswer \/ ComputeValue
    BY <2>4, <2>5 DEF Handle
  <2>7. quiet' = quiet /\ object' = object
    BY <2>6 DEF Skip, CallGet, CallWait, SaveState, ReadAnswer, ComputeValue
  <2>8. Importing
    BY <1>1, <1>3, <1>6, <2>1, <2>7 DEF Importing, Recognised
  <2> QED
    BY <2>6, <2>8, SkipImport, LookImport, LocalImport
<1> QED
  BY <1>2, <1>4, <1>5, <1>6

LEMMA BeginImport ==
    ASSUME TypedFlow, ImportInv, Begin
    PROVE  ImportInv'
<1> USE DEF world, weather
<1>1. /\ phase = "idle" /\ UNCHANGED <<kind, object, state>>
      /\ (outcome' = "imported" <=> outcome = "imported")
  BY DEF Begin, Before
<1>2. CASE outcome' # "imported" \/ state = Absent
  <2>1. outcome' = "imported" => phase' = "plan"
    BY <1>2 DEF Begin, Rest
  <2> QED
    BY <1>1, <2>1, NotImporting DEF Begin, Before
<1>3. CASE outcome' = "imported" /\ state # Absent
  <2>1. /\ phase' = "read" /\ pc' = 1 /\ model' = state /\ saved' = state /\ answer' = Absent
    BY <1>3 DEF Begin, Start
  <2>2. ~Looked' /\ \A a : ~(Learnt(a))'
    BY <2>1 DEF Looked, Learnt
  <2>3. \A a \in Attributes \ kind.imports : state[a] = Null
    BY <1>1, <1>3 DEF ImportInv
  <2>4. (ToLearn(kind))' = ToLearn(kind) /\ Attributes' = Attributes /\ ToLearn(kind) \subseteq Attributes
    BY <1>1 DEF ToLearn, Attributes, AttributesOf, GivenOf
  <2>5. ReadsAll(kind) /\ kind.importable
    BY <1>1, <1>3, ReadsAllOfIt DEF ImportInv
  <2>6. kind.framework => ~(pc' > Len(kind.read))
    BY <2>1, <2>5, ProgramShape DEF ReadsAll, TypedFlow
  <2> QED
    BY <1>1, <1>3, <2>1, <2>2, <2>3, <2>4, <2>5, <2>6 DEF ImportInv, Importing, Recognised
<1> QED
  BY <1>2, <1>3

LEMMA NextImport == TypedFlow /\ ImportInv /\ [Next]_vars => ImportInv'
<1> SUFFICES ASSUME TypedFlow, ImportInv, [Next]_vars PROVE ImportInv'
  OBVIOUS
<1> USE DEF world, weather
<1>1. CASE UNCHANGED vars
  <2>1. /\ Looked' = Looked /\ (ToLearn(kind))' = ToLearn(kind) /\ Attributes' = Attributes
        /\ \A a : (Learnt(a))' = Learnt(a)
    BY <1>1 DEF vars, Looked, Learnt, ToLearn, Attributes
  <2> QED
    BY <1>1, <2>1 DEF vars, ImportInv, Importing, Recognised
<1>2. CASE Begin
  BY <1>2, BeginImport
<1>3. CASE PlanNothing
  BY <1>3, NotImporting DEF PlanNothing, Succeed
<1>4. CASE PlanCreate \/ PlanUpdate \/ PlanDestroy
  BY <1>4, NotImporting DEF PlanCreate, PlanUpdate, PlanDestroy, Start
<1>5. CASE EndRead
  BY <1>5, NotImporting DEF EndRead, Rest
<1>6. CASE EndDestroy
  BY <1>6, NotImporting DEF EndDestroy, Rest
<1>7. CASE EndApply
  BY <1>7, NotImporting DEF EndApply, Succeed
<1>8. CASE Handle
  BY <1>8, HandleImport
<1>9. CASE Edit
  <2>1. UNCHANGED <<kind, state, phase>> /\ phase = "idle" /\ outcome' = Before(outcome)
    BY <1>9 DEF Edit
  <2>2. Attributes' = Attributes
    BY <2>1 DEF Attributes
  <2>3. outcome' = "imported" => outcome = "imported"
    BY <2>1 DEF Before
  <2> QED
    BY <2>1, <2>2, <2>3 DEF ImportInv, Importing
<1>10. CASE Interfere
  BY <1>10, ImportSpoilt DEF Interfere
<1> QED
  BY <1>1, <1>2, <1>3, <1>4, <1>5, <1>6, <1>7, <1>8, <1>9, <1>10 DEF Next, Run

\* For any resources whose read handlers ask the API and take the answer on every
\* path (ReadsAll), whatever the earlier and later steps of the handler do: the
\* first read of an imported object records it, every attribute that some handler
\* takes from the API at some time.
THEOREM ImportRead == Spec => ImportIsFaithful
<1>1. ASSUME TypedFlow, ImportInv, [Next]_vars,
             phase = "read", phase' = "plan", outcome = "imported", quiet, Recognised,
             NEW a \in Given \intersect Shown, <<kind.name, a>> \notin Unread
      PROVE  state'[a] = object[a]
  <2>1. EndRead
    <3>1. ~UNCHANGED vars /\ ~Begin /\ ~PlanNothing /\ ~PlanCreate /\ ~PlanUpdate /\ ~PlanDestroy
          /\ ~EndDestroy /\ ~EndApply /\ ~Edit /\ ~Interfere
      BY <1>1 DEF vars, Begin, PlanNothing, PlanCreate, PlanUpdate, PlanDestroy, EndDestroy,
                  EndApply, AtEnd, Edit, Interfere
    <3>2. ~CallMisses
      <4>1. SUFFICES ASSUME CallMisses PROVE phase' # "plan"
        BY <1>1
      <4>2. InHandler /\ Program[pc].missing \in {"error", "goOn", "forget", "ok", "empty", "nothing"}
        BY <1>1, <4>1, StepType DEF CallMisses, AtStep, StepsOf
      <4> QED
        BY <1>1, <4>1, <4>2 DEF CallMisses, GoOn, GoWithout, Continue, Abort, Rest
    <3>3. ~Handle
      BY <1>1, <3>2 DEF Handle, Refuse, Drop, Skip, CallCreate, CallUpdate, CallGet, CallDelete,
             CallWait, CallRefused, CallFails, SaveState, ReadAnswer, CopyState,
             ComputeValue, GoOn, GoWithout, Continue, Abort, Rest
    <3> QED
      BY <1>1, <3>1, <3>3 DEF Next, Run
  <2>2. Importing /\ ReadsAll(kind) /\ a \in ToLearn(kind) /\ a \in Attributes
    BY <1>1, ReadsAllOfIt, ToLearnIs, GivenAreAttributes DEF Importing
  <2>3. state' = HandedBack /\ pc > Len(kind.read) /\ pc \in Nat /\ Len(kind.read) \in Nat
    BY <1>1, <2>1, ProgramShape DEF EndRead, AtEnd, Program, TypedFlow, Typed
  <2>4. Learnt(a)
    <3>1. PICK j \in DOMAIN kind.read : LearnsAt(kind, j, a)
      BY <2>2 DEF ReadsAll
    <3>2. j \in 1 .. (pc - 1)
      BY <1>1, <2>3, ProgramShape DEF TypedFlow
    <3> QED
      BY <3>1, <3>2 DEF Learnt
  <2>5. model[a] = object[a] /\ saved # Absent /\ (kind.framework => saved = model)
    BY <1>1, <2>2, <2>3, <2>4 DEF ImportInv
  <2>6. object[a] # Unknown
    BY <1>1, <2>2 DEF Recognised, TypedFlow, Typed, Whole
  <2>7. CASE kind.framework
    BY <2>3, <2>5, <2>7 DEF HandedBack
  <2>8. CASE ~kind.framework
    BY <2>2, <2>3, <2>5, <2>6, <2>8 DEF HandedBack
  <2> QED
    BY <2>7, <2>8
<1>2. ASSUME TypedFlow, ImportInv, [Next]_vars
      PROVE  [phase = "read" /\ phase' = "plan" /\ outcome = "imported" /\ quiet /\ Recognised
              => \A a \in Given \intersect Shown :
                    <<kind.name, a>> \notin Unread => state'[a] = object[a]]_vars
  BY <1>1, <1>2
<1>3. Spec => []ImportInv
  BY TypedInvariant, ImportInit, NextImport, PTL DEF Spec
<1> QED
  BY <1>2, <1>3, TypedInvariant, PTL DEF Spec, ImportIsFaithful
=============================================================================
