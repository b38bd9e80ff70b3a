-------------------------------- MODULE Resource --------------------------------
(***************************************************************************)
(* One resource of the provider over its life: a configuration that the    *)
(* user edits, the object in the API, the state that Terraform keeps, and  *)
(* the four handlers that move the object towards the configuration.       *)
(*                                                                         *)
(* Kinds is the set of resources; a behaviour is about one of them, chosen *)
(* in Init.  The handlers are the programs of the kind (ResourceSteps.tla):*)
(* one action per kind of step, with the early return of a failed call.    *)
(* Between two steps of a handler somebody else may change or delete the   *)
(* object, and every call may fail: Disturbances bounds how often.         *)
(*                                                                         *)
(* What happens between two handlers - refresh, plan, replacement, taint,  *)
(* the check of the planned values - is Terraform and the two SDKs, which  *)
(* are outside this repository; those definitions are the contract the     *)
(* handlers are written against.                                           *)
(***************************************************************************)
EXTENDS ResourceSteps, Naturals, FiniteSets

CONSTANTS
    Kinds,          \* the resources, see the *Kinds modules
    Divergent,      \* <<resource, attribute>>: where the code is known to fall short
    Leaky,          \* the resources that are known to forget what they created
    Stuck,          \* those whose read handler fails once the object is gone
    Unread,         \* <<resource, attribute>>: what an import is known to miss
    Refused,        \* configurations that are planned, and then refused: see Refusal
    Imports,        \* whether a behaviour may begin with an import
    Edits,          \* bound: how often the user edits the configuration
    Disturbances    \* bound: failing calls, foreign changes and deletions

GivenOf(k) == k.schema.required \union k.schema.optional
                  \union k.schema.either \union k.schema.defaulted
AttributesOf(k) == GivenOf(k) \union k.schema.readOnly

\* The steps that the programs are made of: the delete handler works on what is
\* recorded, and only create and update send the values of a plan.
StepsOf(ops, attributes) ==
    [op : ops, attrs : SUBSET attributes,
     missing : {"error", "goOn", "forget", "ok", "empty", "nothing"},
     when : SUBSET attributes, given : SUBSET attributes, configured : SUBSET attributes,
     unless : SUBSET attributes, unknown : SUBSET attributes,
     altered : SUBSET attributes, clean : BOOLEAN]
Fills    == {"refresh", "refreshSet", "preserve", "compute", "without"}
Reading  == {"get", "list", "wait", "saveId", "save", "require"} \union Fills
Applying == {"create", "put", "update", "blank", "clear", "reject"} \union Reading

WellFormed(k) ==
    LET programs(ops) == Seq(StepsOf(ops, AttributesOf(k)))
    IN  /\ AttributesOf(k) # {} /\ k.touched \subseteq GivenOf(k)
        /\ k.schema.key \subseteq AttributesOf(k)
        /\ \A a \in DOMAIN k.schema.mirrors : k.schema.mirrors[a] \in AttributesOf(k)
        /\ k.create \in programs(Applying)
        /\ k.update \in programs(Applying \union {"copy", "delete", "requireBefore"})
        /\ k.read \in programs(Reading \union {"forgetUnless"})
        /\ k.destroy \in programs({"get", "wait", "clear", "delete", "forget"})

\* What every create and delete handler has to be like to lose no object, and all
\* but the Leaky ones are: after the call that makes the object, nothing that can
\* fail comes before the record of it, the deletion is not left out, and the
\* object can be found under what was recorded.
Unconditional(step) ==
    /\ UNION {step.when, step.given, step.configured, step.unless, step.unknown} = {}
    /\ ~step.clean
SameCondition(s, t) == s = [t EXCEPT !.op = s.op, !.attrs = s.attrs, !.missing = s.missing]
Makes(step)    == step.op \in {"create", "put"}
Records(step)  == step.op \in {"save", "saveId"}
Harmless(step) == step.op \in Fills \/ (step.op = "list" /\ step.missing = "nothing")
RecordedAt(p, i, j) == Records(p[j]) /\ \A m \in i .. (j - 1) : Harmless(p[m])
Careful(k) ==
    /\ k.schema.key = {}
    /\ \A i \in DOMAIN k.create : Makes(k.create[i]) =>
          \E j \in (i + 1) .. Len(k.create) :
              /\ RecordedAt(k.create, i + 1, j)
              /\ \/ Unconditional(k.create[j])
                 \/ j = i + 1 /\ SameCondition(k.create[i], k.create[j])
    /\ \A i \in DOMAIN k.update : ~Makes(k.update[i])
    /\ \A i \in DOMAIN k.read : k.read[i].op # "forgetUnless"
    /\ \A i \in DOMAIN k.destroy :
          /\ k.destroy[i].op # "forget"
          /\ k.destroy[i].op = "delete" => k.destroy[i].missing # "nothing"
    /\ LET deletes == {i \in DOMAIN k.destroy : k.destroy[i].op = "delete"}
       IN  \/ \E i \in deletes : Unconditional(k.destroy[i])
           \/ \E i, j \in deletes, a \in AttributesOf(k) :
                 /\ k.destroy[i].given = {a} /\ Unconditional([k.destroy[i] EXCEPT !.given = {}])
                 /\ k.destroy[j].unless = {a} /\ Unconditional([k.destroy[j] EXCEPT !.unless = {}])

ASSUME ResourceAssumption ==
    /\ \A k \in Kinds : WellFormed(k)
    /\ \A k \in Kinds : k.adopted \in BOOLEAN /\ k.framework \in BOOLEAN
    /\ Imports \in BOOLEAN /\ Edits \in Nat /\ Disturbances \in Nat
ASSUME CustodyAssumption ==
    \A k \in Kinds : k.adopted \/ k.name \in Leaky \/ Careful(k)

VARIABLES
    kind,       \* the resource this behaviour is about
    config,     \* what the user wrote: attribute -> value, or Absent
    object,     \* the object in the API, or Absent
    state,      \* the state Terraform recorded, or Absent
    tainted,    \* the recorded object is to be replaced
    phase,      \* "idle" or the handler that runs
    pc,         \* the next step of its program
    plan,       \* the planned values of this run
    model,      \* the values the handler works on (plan or data in the code)
    answer,     \* the last answer of the API
    saved,      \* the state the handler has handed back so far
    outcome,    \* how the last run of this configuration ended, or "imported"
    edits, disturbances, \* what is left of the bounds
    quiet,      \* nothing was disturbed since this run began
    unseen,     \* somebody changed what the read handler does not look at
    settled     \* the last run succeeded, and nothing was done since

vars == <<kind, config, object, state, tainted, phase, pc, plan, model,
          answer, saved, outcome, edits, disturbances, quiet, unseen, settled>>
world == <<kind, config, edits>>
weather == <<disturbances, quiet, unseen>>

Null == "null"
Unknown == "unknown"
Chosen == "api"                     \* a default, or the choice of the API
Values == {Null, Unknown, Chosen, "x", "y", "later"}
Absent == <<>>
Known(v) == v \notin {Null, Unknown, Chosen}   \* somebody gave this value

Given == GivenOf(kind)
Computed == kind.schema.either \union kind.schema.readOnly
Attributes == AttributesOf(kind)

---------------------------------------------------------------------------
(* The API *)

\* What the API has for an attribute that no request gave a value for.
Default(a) == IF a \in kind.schema.optional \ kind.schema.blank THEN Null ELSE Chosen

\* Read-only attributes that show another one follow it, and nothing is nested
\* in an attribute that is not there.
Orphan(o, a) == a \in DOMAIN kind.schema.nested /\ o[kind.schema.nested[a]] = Null
Consistent(o) ==
    [a \in DOMAIN o |->
        IF a \in DOMAIN kind.schema.mirrors THEN o[kind.schema.mirrors[a]]
        ELSE IF Orphan(o, a) THEN Null ELSE o[a]]

NewObject(sent) ==
    Consistent([a \in Attributes |->
                   IF a \in DOMAIN sent /\ sent[a] \notin {Null, Unknown}
                   THEN sent[a] ELSE Default(a)])

\* A null in a request clears the attribute; the API changes the volatile ones.
Updated(o, sent) ==
    Consistent([a \in DOMAIN o |->
                   IF a \in kind.schema.volatile THEN "later"
                   ELSE IF a \in DOMAIN sent /\ sent[a] # Unknown
                        THEN IF sent[a] = Null THEN Default(a) ELSE sent[a]
                   ELSE IF a \in DOMAIN kind.schema.nested /\ o[a] = Null THEN Default(a)
                   ELSE o[a]])

\* While an attribute that freezes the object is given, nothing else may change.
IsFrozen == \E a \in kind.schema.frozen : Known(object[a])

---------------------------------------------------------------------------
(* Terraform: the plan *)

\* Before the marking of unknown values: the configuration where it says
\* something, the default or the prior value where it does not.
Missing(a) == a \in DOMAIN kind.schema.nested /\ config[kind.schema.nested[a]] = Null

Proposed(a) ==
    IF Missing(a) THEN Null
    ELSE IF a \in Given /\ config[a] # Null THEN config[a]
    ELSE IF a \in kind.schema.defaulted THEN Chosen
    ELSE IF a \in kind.schema.optional THEN Null
    ELSE state[a]

Changes == \E a \in Attributes : Proposed(a) # state[a]

\* The framework marks the computed values of a changing resource unknown;
\* UseStateForUnknown (keep) puts the prior value back, if there is one.
Marked(a) ==
    IF kind.framework /\ a \in Computed /\ (a \in Given => config[a] = Null)
       /\ ~Missing(a) /\ Changes
    THEN Unknown ELSE Proposed(a)

Kept(a) ==
    \/ a \in kind.schema.keep /\ state[a] # Null
    \/ a \in DOMAIN kind.schema.keepUnless
          /\ \A b \in kind.schema.keepUnless[a] : Marked(b) \in {Unknown, state[b]}

Planned(a) == IF Marked(a) = Unknown /\ Kept(a) THEN state[a] ELSE Marked(a)

UpdatePlan == [a \in Attributes |-> Planned(a)]

CreatePlan ==
    [a \in Attributes |->
        IF Missing(a) THEN Null
        ELSE IF a \in Given /\ config[a] # Null THEN config[a]
        ELSE IF a \in kind.schema.defaulted THEN Chosen
        ELSE IF a \in kind.schema.optional THEN Null ELSE Unknown]

\* Terraform replaces where an attribute asks for it and its planned value differs
\* from the prior one, whatever order the plan modifiers ran in.
Replaces ==
    /\ config # Absent
    /\ \/ \E a \in kind.schema.replace : UpdatePlan[a] # state[a]
       \/ \E a \in kind.schema.replaceSet : config[a] # Null /\ UpdatePlan[a] # state[a]
       \/ \E a \in kind.schema.replaceUnset : ~Known(UpdatePlan[a]) /\ Known(state[a])
       \/ \E a \in DOMAIN kind.schema.replaceUnless :
             /\ UpdatePlan[a] \notin {Unknown, state[a]}
             /\ ~Known(UpdatePlan[kind.schema.replaceUnless[a]])

---------------------------------------------------------------------------
(* Terraform: one run.  The phases are "idle", "read" (the refresh), "plan", *)
(* and the handler that the plan asks for.                                    *)

Start(p, newPlan) ==
    /\ phase' = p
    /\ pc' = 1
    /\ plan' = newPlan
    /\ model' = IF newPlan = Absent THEN state ELSE newPlan
    /\ saved' = IF p = "create" THEN Absent ELSE state
    /\ answer' = Absent

Rest(p) ==
    /\ phase' = p
    /\ pc' = 0
    /\ plan' = Absent /\ model' = Absent /\ saved' = Absent /\ answer' = Absent

Before(o) == IF o = "imported" THEN o ELSE "none"

\* terraform apply begins with a refresh of what is recorded.
Begin ==
    /\ phase = "idle"
    /\ config # Absent \/ state # Absent
    /\ quiet' = TRUE
    /\ outcome' = Before(outcome)
    /\ IF state = Absent THEN Rest("plan") ELSE Start("read", Absent)
    /\ UNCHANGED <<world, object, state, tainted, disturbances, unseen, settled>>

Succeed ==
    /\ Rest("idle")
    /\ outcome' = "done"
    /\ settled' = quiet

\* What the plan asks for: a replacement is a destruction, then a creation.
PlanNothing ==
    /\ phase = "plan"
    /\ \/ state = Absent /\ config = Absent
       \/ state # Absent /\ config # Absent /\ ~tainted /\ UpdatePlan = state /\ ~Replaces
    /\ Succeed
    /\ UNCHANGED <<world, object, state, tainted, weather>>

PlanCreate ==
    /\ phase = "plan"
    /\ state = Absent /\ config # Absent
    /\ Start("create", CreatePlan)
    /\ settled' = FALSE
    /\ UNCHANGED <<world, object, state, tainted, outcome, weather>>

PlanUpdate ==
    /\ phase = "plan"
    /\ state # Absent /\ config # Absent /\ ~tainted
    /\ UpdatePlan # state /\ ~Replaces
    /\ Start("update", UpdatePlan)
    /\ settled' = FALSE
    /\ UNCHANGED <<world, object, state, tainted, outcome, weather>>

PlanDestroy ==
    /\ phase = "plan"
    /\ state # Absent
    /\ config = Absent \/ tainted \/ Replaces
    /\ Start("destroy", Absent)
    /\ settled' = FALSE
    /\ UNCHANGED <<world, object, state, tainted, outcome, weather>>

---------------------------------------------------------------------------
(* The handlers: one step of the program at a time *)

Program == CASE phase = "create"  -> kind.create
             [] phase = "read"    -> kind.read
             [] phase = "update"  -> kind.update
             [] phase = "destroy" -> kind.destroy

InHandler == phase \in {"create", "read", "update", "destroy"}
AtStep(ops) == InHandler /\ pc <= Len(Program) /\ Program[pc].op \in ops
Updates == {"update", "blank", "clear"}
Calls == {"create", "put", "get", "list", "delete", "wait"} \union Updates

Differs(a) == IF phase = "create" THEN plan[a] \notin {Null, Unknown} ELSE plan[a] # state[a]

Applies(step) ==
    /\ step.when = {} \/ \E a \in step.when : Differs(a)
    /\ \A a \in step.given : Known(model[a])
    /\ \A a \in step.configured : config[a] # Null
    /\ \A a \in step.unless : ~Known(model[a])
    /\ step.unknown = {} \/ \E a \in step.unknown : model[a] = Unknown
    /\ step.clean => outcome # "failed"

\* What a request carries.
Sent(step) ==
    CASE step.op = "blank"  -> [a \in step.attrs |-> IF plan[a] = Unknown THEN Null ELSE plan[a]]
      [] step.op = "clear"  -> [a \in step.attrs |-> Null]
      [] OTHER              ->
            [a \in {b \in step.attrs : b \in step.altered => Differs(b)} |-> plan[a]]

\* The object, if it is known to the API under the identity that the handler has.
Found == object # Absent /\ \A a \in kind.schema.key : object[a] = model[a]

\* The API refuses to make an object that has the identity of another one, and to
\* change a frozen one.
Taken(step) ==
    /\ step.op = "create" /\ kind.schema.key # {} /\ object # Absent
    /\ \A a \in kind.schema.key : NewObject(Sent(step))[a] = object[a]
Frozen(step) ==
    /\ step.op \in Updates /\ Found /\ IsFrozen
    /\ ~(DOMAIN Sent(step) \subseteq kind.schema.frozen)

Continue == pc' = pc + 1 /\ UNCHANGED <<phase, plan>>

\* What Terraform records when the handler ends: a framework handler hands the
\* state back explicitly, the SDKv2 takes the data as it is once there is an id.
HandedBack ==
    IF kind.framework \/ saved = Absent THEN saved
    ELSE [a \in Attributes |-> IF model[a] = Unknown THEN Null ELSE model[a]]

\* Terraform keeps no unknown value.
Recorded(result) ==
    IF result = Absent THEN Absent
    ELSE [a \in Attributes |-> IF result[a] = Unknown THEN Null ELSE result[a]]

\* The handler returns an error.  A create that has handed back something
\* leaves a tainted resource, one that has not leaves nothing.
Abort ==
    /\ Rest("idle")
    /\ outcome' = "failed"
    /\ settled' = FALSE
    /\ IF phase \in {"create", "update"}
       THEN /\ state' = Recorded(HandedBack)
            /\ tainted' = (phase = "create" /\ HandedBack # Absent)
       ELSE UNCHANGED <<state, tainted>>

\* The handler carries on with nothing where the call would have answered.
GoWithout ==
    /\ Continue
    /\ answer' = [a \in Attributes |-> IF a \in Program[pc].attrs \/ answer = Absent THEN Null ELSE answer[a]]
    /\ UNCHANGED <<state, tainted, model, saved, outcome, settled>>

\* The handler notes the error and carries on: the run fails in the end.
GoOn ==
    /\ Continue
    /\ answer' = Absent
    /\ outcome' = "failed"
    /\ UNCHANGED <<state, tainted, model, saved, settled>>

\* The handler cannot work on a null value of the attributes, in the plan or
\* in the state, or not at all.
Lacks(step) ==
    \/ step.op = "reject"
    \/ \E a \in step.attrs : Null = IF step.op = "requireBefore" THEN state[a] ELSE model[a]

Refuse ==
    /\ AtStep({"require", "requireBefore", "reject"}) /\ Applies(Program[pc]) /\ Lacks(Program[pc])
    /\ Abort
    /\ UNCHANGED <<world, object, weather>>

\* A recorded resource without an identity is dropped from the state.
Drop ==
    /\ AtStep({"forgetUnless"}) /\ Lacks(Program[pc])
    /\ saved' = Absent
    /\ pc' = Len(Program) + 1
    /\ UNCHANGED <<world, object, state, tainted, phase, plan, model, answer, outcome,
                   weather, settled>>

Skip ==
    /\ InHandler /\ pc <= Len(Program)
    /\ \/ ~Applies(Program[pc])
       \/ Program[pc].op \in {"require", "requireBefore", "reject", "forgetUnless"} /\ ~Lacks(Program[pc])
    /\ Continue
    /\ UNCHANGED <<world, object, state, tainted, model, answer, saved,
                   outcome, weather, settled>>

CallCreate ==
    /\ AtStep({"create", "put"}) /\ Applies(Program[pc]) /\ ~Taken(Program[pc])
    /\ object' = NewObject(Sent(Program[pc]))
    /\ answer' = object'
    /\ Continue
    /\ UNCHANGED <<world, state, tainted, model, saved, outcome, weather, settled>>

CallUpdate ==
    /\ AtStep(Updates) /\ Applies(Program[pc])
    /\ Found /\ ~Frozen(Program[pc])
    /\ object' = Updated(object, Sent(Program[pc]))
    /\ answer' = object'
    /\ Continue
    /\ UNCHANGED <<world, state, tainted, model, saved, outcome, weather, settled>>

CallGet ==
    /\ AtStep({"get", "list"}) /\ Applies(Program[pc])
    /\ Found
    /\ answer' = IF Program[pc].op = "get" THEN object
                 ELSE [a \in Attributes |-> IF a \in Program[pc].attrs \/ answer = Absent
                                               THEN object[a] ELSE answer[a]]
    /\ Continue
    /\ UNCHANGED <<world, object, state, tainted, model, saved, outcome, weather, settled>>

CallDelete ==
    /\ AtStep({"delete"}) /\ Applies(Program[pc])
    /\ Found
    /\ object' = Absent
    /\ Continue
    /\ UNCHANGED <<world, state, tainted, model, answer, saved, outcome, weather, settled>>

CallWait ==
    /\ AtStep({"wait"}) /\ Applies(Program[pc])
    /\ Continue
    /\ UNCHANGED <<world, object, state, tainted, model, answer, saved, outcome, weather, settled>>

\* The API refuses: 400.
CallRefused ==
    /\ AtStep(Calls) /\ Applies(Program[pc])
    /\ Taken(Program[pc]) \/ Frozen(Program[pc])
    /\ Abort
    /\ UNCHANGED <<world, object, weather>>

\* There is no object of that identity (any more): 404.
CallMisses ==
    /\ AtStep(Calls \ {"create", "put", "wait"}) /\ Applies(Program[pc])
    /\ ~Found
    /\ UNCHANGED <<world, object, weather>>
    /\ CASE Program[pc].missing = "error"  -> Abort
         [] Program[pc].missing = "goOn"   -> GoOn
         [] Program[pc].missing \in {"empty", "nothing"} -> GoWithout
         [] Program[pc].missing = "ok"     ->
                /\ Continue
                /\ UNCHANGED <<state, tainted, model, answer, saved, outcome, settled>>
         [] Program[pc].missing = "forget" ->
                /\ saved' = Absent
                /\ pc' = Len(Program) + 1
                /\ UNCHANGED <<state, tainted, phase, plan, model, answer, outcome, settled>>

\* Where the handler forgets an object that is gone, it takes every failed call
\* for a 404.
CallFailsMutant ==
    /\ AtStep(Calls) /\ Applies(Program[pc])
    /\ disturbances > 0
    /\ disturbances' = disturbances - 1
    /\ quiet' = FALSE
    /\ CASE Program[pc].missing = "goOn"    -> GoOn
         [] Program[pc].missing = "nothing" -> GoWithout
         [] Program[pc].missing = "forget"  ->
                /\ saved' = Absent
                /\ pc' = Len(Program) + 1
                /\ UNCHANGED <<state, tainted, phase, plan, model, answer, outcome, settled>>
         [] OTHER                           -> Abort
    /\ \/ UNCHANGED object
       \/ Program[pc].op = "put" /\ object # Absent /\ object' = NewObject(Sent(Program[pc]))
       \/ /\ Program[pc].op \in Updates /\ Found /\ ~Frozen(Program[pc])
          /\ object' = Updated(object, Sent(Program[pc]))
       \/ Program[pc].op = "delete" /\ Found /\ object' = Absent
    /\ UNCHANGED <<world, unseen>>

\* The call fails, or a poll times out.  An update or a deletion may have been
\* carried out all the same.
CallFails ==
    /\ AtStep(Calls) /\ Applies(Program[pc])
    /\ disturbances > 0
    /\ disturbances' = disturbances - 1
    /\ quiet' = FALSE
    /\ CASE Program[pc].missing = "goOn"    -> GoOn
         [] Program[pc].missing = "nothing" -> GoWithout
         [] OTHER                           -> Abort
    /\ \/ UNCHANGED object
       \/ Program[pc].op = "put" /\ object # Absent /\ object' = NewObject(Sent(Program[pc]))
       \/ /\ Program[pc].op \in Updates /\ Found /\ ~Frozen(Program[pc])
          /\ object' = Updated(object, Sent(Program[pc]))
       \/ Program[pc].op = "delete" /\ Found /\ object' = Absent
    /\ UNCHANGED <<world, unseen>>

\* The identity is recorded in a state that has no other attributes.
SaveStateMutant ==
    /\ AtStep({"saveId", "save", "forget"}) /\ Applies(Program[pc])
    /\ saved' = CASE Program[pc].op = "forget" -> Absent
                  [] Program[pc].op = "saveId" -> [a \in kind.schema.path |-> model[a]]
                  [] OTHER                     -> model
    /\ Continue
    /\ UNCHANGED <<world, object, state, tainted, model, answer, outcome, weather, settled>>

\* Recording the identity alone leaves every other attribute null.
SaveState ==
    /\ AtStep({"saveId", "save", "forget"}) /\ Applies(Program[pc])
    /\ saved' = CASE Program[pc].op = "forget"                     -> Absent
                  [] Program[pc].op = "saveId" /\ kind.framework -> [a \in Attributes |-> Null]
                  [] OTHER                                        -> model
    /\ Continue
    /\ UNCHANGED <<world, object, state, tainted, model, answer, outcome, weather, settled>>

\* Every flattening keeps whatever is known.
ReadsMutant(op, a) == IF op = "refreshSet" THEN answer[a] # Null ELSE model[a] = Unknown

Reads(op, a) == CASE op = "refresh"    -> TRUE
                  [] op = "refreshSet" -> answer[a] # Null
                  [] op = "preserve"   -> model[a] = Unknown

ReadAnswer ==
    /\ AtStep({"refresh", "refreshSet", "preserve"}) /\ Applies(Program[pc])
    /\ model' = [a \in Attributes |->
                    IF a \in Program[pc].attrs /\ answer # Absent /\ Reads(Program[pc].op, a)
                    THEN answer[a] ELSE model[a]]
    /\ Continue
    /\ UNCHANGED <<world, object, state, tainted, answer, saved, outcome, weather, settled>>

CopyState ==
    /\ AtStep({"copy"}) /\ Applies(Program[pc])
    /\ model' = [a \in Attributes |->
                    IF a \in Program[pc].attrs /\ model[a] = Unknown
                    THEN state[a] ELSE model[a]]
    /\ Continue
    /\ UNCHANGED <<world, object, state, tainted, answer, saved, outcome, weather, settled>>

ComputeValue ==
    /\ AtStep({"compute", "without"}) /\ Applies(Program[pc])
    /\ model' = [a \in Attributes |->
                    IF a \notin Program[pc].attrs \/ model[a] \notin {Null, Unknown} THEN model[a]
                    ELSE IF Program[pc].op = "compute" THEN Chosen ELSE Null]
    /\ Continue
    /\ UNCHANGED <<world, object, state, tainted, answer, saved, outcome, weather, settled>>

AtEnd(p) == phase = p /\ pc > Len(Program)

EndRead ==
    /\ AtEnd("read")
    /\ state' = HandedBack
    /\ tainted' = (tainted /\ HandedBack # Absent)
    /\ Rest("plan")
    /\ UNCHANGED <<world, object, outcome, weather, settled>>

\* A deletion that noted an error keeps the resource, unless it dropped it.
EndDestroy ==
    /\ AtEnd("destroy")
    /\ IF outcome = "failed" /\ saved # Absent THEN UNCHANGED <<state, tainted>>
       ELSE state' = Absent /\ tainted' = FALSE
    /\ Rest(IF outcome = "failed" THEN "idle" ELSE "plan")
    /\ UNCHANGED <<world, object, outcome, weather, settled>>

\* Terraform holds a framework provider to what was planned, and nobody may
\* leave a value unknown or lose the resource.
AsPlanned(result) ==
    /\ result # Absent
    /\ \A a \in Attributes :
          /\ result[a] # Unknown
          /\ kind.framework => plan[a] \in {Unknown, result[a]}

EndApply ==
    /\ AtEnd("create") \/ AtEnd("update")
    /\ state' = Recorded(HandedBack)
    /\ IF AsPlanned(HandedBack) /\ outcome # "failed"
       THEN Succeed /\ tainted' = FALSE
       ELSE /\ Rest("idle") /\ settled' = FALSE
            /\ outcome' = IF outcome = "failed" THEN "failed" ELSE "inconsistent"
            /\ tainted' = (phase = "create" /\ HandedBack # Absent)
    /\ UNCHANGED <<world, object, weather>>

---------------------------------------------------------------------------
(* The user, and everybody else *)

\* What the read handler takes from the answer of the API.
Seen == UNION {kind.read[i].attrs :
                  i \in {j \in DOMAIN kind.read : kind.read[j].op \in {"refresh", "refreshSet"}}}

\* A configuration gives an attribute only with the one it needs or is nested
\* in, and one of two that exclude each other.
Valid(c) ==
    /\ \A f \in {kind.schema.needs, kind.schema.nested} :
          \A a \in DOMAIN f \intersect Given : c[a] # Null => c[f[a]] # Null
    /\ \A a \in DOMAIN kind.schema.exclusive :
          c[a] = Null <=> c[kind.schema.exclusive[a]] # Null
    /\ \A a \in DOMAIN kind.schema.conflicts :
          c[a] # Null => \A b \in kind.schema.conflicts[a] : c[b] = Null

\* The least configuration, and one that says all that can be said at once.
OneWay  == DOMAIN kind.schema.exclusive
Left    == OneWay \union DOMAIN kind.schema.conflicts
Bound   == {a \in Given : \E f \in {kind.schema.needs, kind.schema.nested} :
                             a \in DOMAIN f /\ f[a] \in Left}
Minimal == [a \in Given |-> IF a \in kind.schema.required \union OneWay THEN "x" ELSE Null]
Full    == [a \in Given |-> IF a \in Left \union Bound THEN Null ELSE "x"]

EditAttribute(a, v) ==
    /\ config # Absent /\ config[a] # v
    /\ v = "x" <=> config[a] = Null
    /\ v = "y" => a \notin kind.schema.flag
    /\ v = Null => a \notin kind.schema.required
    /\ Valid([config EXCEPT ![a] = v])
    /\ config' = [config EXCEPT ![a] = v]

Edit ==
    /\ phase = "idle"
    /\ edits > 0
    /\ edits' = edits - 1
    /\ settled' = FALSE
    /\ outcome' = Before(outcome)
    /\ \/ \E a \in Given \intersect kind.touched, v \in {"x", "y", Null} : EditAttribute(a, v)
       \/ config # Absent /\ config' = Absent
    /\ UNCHANGED <<kind, object, state, tainted, phase, pc, plan, model, answer,
                   saved, weather>>

\* Somebody changes an attribute of the object that is not frozen, takes its value
\* back or deletes the object, at any time: what happens before a local step or a wait could as
\* well happen before the next call that looks at the object.
Interfere ==
    /\ phase = "idle" \/ AtStep(Calls \ {"wait"})
    /\ disturbances > 0
    /\ disturbances' = disturbances - 1
    /\ quiet' = FALSE
    /\ settled' = FALSE
    /\ object # Absent
    /\ \/ \E a \in (Given \intersect kind.touched) \ (kind.schema.path \union kind.schema.local) :
             /\ IsFrozen => a \in kind.schema.frozen
             /\ \E v \in {Null, IF a \in kind.schema.flag THEN "x" ELSE "y"} :
                   /\ v = Null => a \notin kind.schema.required
                   /\ object' = Updated(object, [b \in {a} |-> v])
                   /\ object'[a] # object[a]
             /\ unseen' = (unseen \/ a \notin Seen)
       \/ ~kind.adopted /\ object' = Absent /\ UNCHANGED unseen
    /\ UNCHANGED <<world, state, tainted, phase, pc, plan, model, answer,
                   saved, outcome>>

---------------------------------------------------------------------------
\* terraform import has recorded an object that the configuration describes.
Imported ==
    /\ Imports /\ kind.importable
    /\ object = NewObject(config)
    /\ state = [a \in Attributes |-> IF a \in kind.imports THEN object[a] ELSE Null]
    /\ outcome = "imported"

Init ==
    /\ kind \in Kinds
    /\ config \in {Minimal, Full}
    /\ \/ /\ object = IF kind.adopted THEN NewObject(<<>>) ELSE Absent
          /\ state = Absent /\ outcome = "none"
       \/ Imported
    /\ tainted = FALSE
    /\ phase = "idle" /\ pc = 0
    /\ plan = Absent /\ model = Absent /\ answer = Absent /\ saved = Absent
    /\ edits = Edits /\ disturbances = Disturbances
    /\ quiet = TRUE /\ unseen = FALSE /\ settled = FALSE

Handle ==
    \/ Refuse \/ Drop \/ Skip \/ CallCreate \/ CallUpdate \/ CallGet \/ CallDelete \/ CallWait
    \/ CallRefused \/ CallMisses \/ CallFails \/ SaveState \/ ReadAnswer \/ CopyState
    \/ ComputeValue

Run ==
    \/ Begin \/ PlanNothing \/ PlanCreate \/ PlanUpdate \/ PlanDestroy
    \/ EndRead \/ EndDestroy \/ EndApply \/ Handle

Next == Run \/ Edit \/ Interfere

Spec == Init /\ [][Next]_vars

\* Terraform carries a run on, and the user applies again.
FairSpec == Spec /\ WF_vars(Run)

---------------------------------------------------------------------------
(* Properties *)

Object == [Attributes -> Values]
Whole  == [Attributes -> Values \ {Unknown}]

\* Nothing unknown is recorded, and only what is recorded is tainted.
TypeOK ==
    /\ config = Absent \/ config \in [Given -> Values \ {Unknown}]
    /\ {object, state} \subseteq Whole \union {Absent}
    /\ tainted => state # Absent
    /\ {model, answer, saved, plan} \subseteq Object \union {Absent}
    /\ {tainted, quiet, unseen, settled} \subseteq BOOLEAN
    /\ phase \in {"idle", "plan", "create", "read", "update", "destroy"}
    /\ outcome \in {"none", "imported", "done", "failed", "inconsistent"}

\* The handlers keep the promise of Custody.tla: between a call that creates an
\* object and the record of it, no failure, early return, deletion by somebody
\* else or replacement makes an object that nobody knows of, or a second one.
Held == INSTANCE Custody WITH
            there  <- object # Absent /\ ~kind.adopted /\ kind.name \notin Leaky,
            holder <- IF state # Absent THEN "state"
                      ELSE IF phase = "create" THEN "handler" ELSE "nobody"
KeepsCustody == Held!Spec

Diverges(a) == <<kind.name, a>> \in Divergent

\* What is planned, and refused when it is applied: a configuration that gives some
\* attributes and lacks others, whatever the state (Unfit), or a change of some
\* attributes while others are given.
Matches(r) ==
    /\ r.name = kind.name /\ config # Absent
    /\ \A a \in r.given : config[a] # Null
    /\ \A a \in r.lacks : config[a] = Null
Unfit == \E r \in Refused : Matches(r) /\ r.alters = {}
Refusal ==
    \/ Unfit
    \/ \E r \in Refused :
          Matches(r) /\ state # Absent /\ \E a \in r.alters : Proposed(a) # state[a]

\* Left alone, a run succeeds: no handler fails, and none returns values that
\* Terraform rejects, unless a call failed or somebody interfered, the plan is one
\* of those that are known to be refused, or an object that nobody finds any more
\* takes up the identity of the one to be made.
Troubled ==
    \/ kind.name \in Stuck /\ object = Absent
    \/ unseen
    \/ Refusal
    \/ kind.schema.key # {} /\ state = Absent /\ object # Absent
    \/ config # Absent /\ \E a \in Given :
          /\ Diverges(a)
          /\ \/ config[a] = Null /\ object # Absent /\ object[a] # Null
             \/ state # Absent /\ config[a] # state[a]
QuietRunsSucceed == quiet /\ outcome \in {"failed", "inconsistent"} => Troubled

\* A run that succeeds undisturbed did what the configuration says: the state
\* has every configured value, and so has the object, unless somebody changed
\* an attribute that the read handler does not look at; of a configuration that is
\* refused, an SDKv2 update records the values, and the next run has nothing to do.
Realised(o, a) ==
    o[a] = config[a] \/ a \in kind.schema.local \/ (a \notin Seen /\ unseen)
SuccessIsTruthful ==
    [][phase # "idle" /\ phase' = "idle" /\ settled' /\ config # Absent /\ ~Unfit
        => /\ object' # Absent
           /\ \A a \in Given : config[a] # Null /\ ~Diverges(a)
                 => state'[a] = config[a] /\ Realised(object', a)]_vars

\* After such a run, another one has nothing to do, and it does nothing even if
\* one of its calls fails.
ApplyIsIdempotent ==
    [][phase = "plan" /\ phase' # "plan" /\ settled
        => \/ phase' = "idle"
           \/ \E a \in Attributes : Diverges(a) /\ Proposed(a) # state[a]]_vars

\* An object is replaced only if the configuration asks for another value of an
\* attribute that cannot be changed in place.
Fixed ==
    UNION {kind.schema.replace, kind.schema.replaceSet, kind.schema.replaceUnset,
           DOMAIN kind.schema.replaceUnless}
ReplacedForAReason ==
    [][phase = "plan" /\ phase' = "destroy" /\ config # Absent /\ ~tainted
        => \E a \in Fixed \intersect Given :
              \/ config[a] # state[a] /\ (config[a] # Null \/ a \notin Computed)
              \/ Diverges(a) /\ Marked(a) # state[a]]_vars

\* What nobody configured is left as it is.
UnmanagedUntouched ==
    [][object # Absent /\ object' # Absent /\ quiet' /\ kind.name \notin Leaky /\ config # Absent
        => \A a \in kind.schema.either \ kind.schema.volatile :
              config[a] = Null /\ ~Diverges(a) /\ ~Orphan(object, a) /\ ~Orphan(object', a)
                => object'[a] = object[a]]_vars

\* What the handlers take from the API at some time, and whether the object is
\* there under the identity that is recorded.
Shown ==
    LET steps == {kind.create[i] : i \in DOMAIN kind.create}
                 \union {kind.read[i] : i \in DOMAIN kind.read}
                 \union {kind.update[i] : i \in DOMAIN kind.update}
    IN UNION {s.attrs : s \in {t \in steps : t.op \in {"refresh", "refreshSet", "preserve"}}}
Recognised == object # Absent /\ \A a \in kind.schema.key : state[a] = object[a]

\* An import records the object: whatever attribute the handlers take from the
\* API at some time, the first read of an imported object takes, if it finds it.
ImportIsFaithful ==
    [][phase = "read" /\ phase' = "plan" /\ outcome = "imported" /\ quiet /\ Recognised
        => \A a \in Given \intersect Shown :
              <<kind.name, a>> \notin Unread => state'[a] = object[a]]_vars

\* Once the user leaves the configuration alone and calls succeed, applying it
\* again and again brings the object to it and keeps it there: its existence,
\* and every configured value.
Reached ==
    IF config = Absent THEN kind.adopted \/ object = Absent
    ELSE /\ object # Absent
         /\ \A a \in Given : config[a] # Null /\ ~Diverges(a) => Realised(object, a)
Untroubled ==
    /\ ~Refusal
    /\ config # Absent /\ state # Absent
          => \A a \in Attributes : Diverges(a) => Proposed(a) = state[a]
Converges ==
    kind.name \notin Leaky /\ <>[](Untroubled /\ ~(kind.name \in Stuck /\ object = Absent)) => <>[]Reached

=================================================================================
