-------------------------- MODULE InstanceUpdateProofs --------------------------
(* Theorems about InstanceUpdate, for any types, disk sizes, differences,    *)
(* failures and interference.                                                *)
EXTENDS InstanceUpdate, TLAPS

-----------------------------------------------------------------------------
(* The inductive invariant. *)

StepNames ==
    {"get", "unassign", "assign", "simple", "backups", "private", "migrate",
     "upsize", "disk", "downsize", "configs", "interface", "share",
     "reboot", "booted", "read"}

Order(step) == CHOOSE i \in DOMAIN Steps : Steps[i] = step

Running == op.pc = "update"

\* What the API never lets happen, whatever the provider asks for.
WorldInv ==
    /\ linode.disk <= Capacity[linode.type]
    /\ linode.job = "resize" => linode.disk <= Capacity[config.type]
    /\ linode.job = "disk" => config.disk <= Capacity[linode.type]
    /\ config.explicit /\ config.resize_disk => ~linode.lag /\ linode.job # "resize"
    /\ linode.lag => config.resize_disk /\ linode.type = config.type
    /\ "placement_group" \in linode.diff => linode.grouped \/ config.group
    /\ linode.on \/ linode.current

\* What a step of updateResource is there to put right.
Missing(step) ==
    \/ step = "unassign"  /\ "placement_group" \in linode.diff /\ ~config.group
    \/ step = "assign"    /\ "placement_group" \in linode.diff /\ config.group
    \/ step = "simple"    /\ "label" \in linode.diff
    \/ step = "backups"   /\ "backups_enabled" \in linode.diff
    \/ step = "private"   /\ "private_ip" \in linode.diff
    \/ step = "migrate"   /\ "region" \in linode.diff
    \/ step = "upsize"    /\ linode.type # config.type /\ Upsized
    \/ step = "disk"      /\ config.explicit /\ linode.disk # config.disk
    \/ step = "downsize"  /\ linode.type # config.type /\ ~Upsized
    \/ step = "configs"   /\ "config" \in linode.diff
    \/ step = "interface" /\ "interface" \in linode.diff
    \/ step = "share"     /\ "shared_ipv4" \in linode.diff

\* The step that runs is one whose condition holds, and what is missing is
\* still to come.
TodoInv ==
    Running =>
        /\ Applies(op.step, op.reboot)
        /\ \A s \in StepNames : Missing(s) =>
              Order(op.step) <= Order(s) /\ Applies(s, op.reboot)

\* What the steps that wait for a job can rely on.
WaitInv ==
    Running =>
        /\ At("migrate", "wait") => linode.job = "migrate" \/ "region" \notin linode.diff
        /\ TypeStep /\ op.phase = "wait" => linode.job = "resize" \/ linode.type = config.type
        /\ TypeStep /\ op.phase = "settle" => linode.type = config.type
        /\ TypeStep /\ op.phase # "start" => ~(config.explicit /\ config.resize_disk)
        /\ op.step = "disk" /\ op.phase \in {"offline", "call"} =>
              config.disk <= Capacity[config.type] /\ config.disk <= Capacity[op.inst.type]
        /\ linode.type \in {op.seen.type, config.type}
        /\ linode.type \in {op.inst.type, config.type} \/ op.step = "get"
        /\ op.step = "get" => ~op.reboot
        /\ op.step = "interface" /\ op.phase # "start" /\ op.power => config.vpc
        /\ op.step = "interface" /\ op.phase \in {"boot", "bootWait"} =>
              "interface" \notin linode.diff

\* Where no job was left over from an earlier run, a job is the one that the
\* step waits for.
JobInv ==
    Running /\ ~op.pending =>
        /\ linode.job = "migrate" => At("migrate", "wait")
        /\ linode.job = "shutdown" =>
              op.phase = "offline" \/ At("interface", "wait") \/ At("booted", "wait")
        /\ linode.job = "boot" => At("interface", "bootWait") \/ At("booted", "wait")
        /\ linode.job = "reboot" => At("reboot", "wait")
        /\ linode.job = "disk" => At("disk", "wait")
        /\ linode.job = "resize" => TypeStep /\ op.phase = "wait" /\ linode.disk = op.size
        /\ linode.lag => /\ TypeStep /\ op.phase \in {"wait", "settle"}
                         /\ linode.disk = op.size /\ linode.job # "resize"
        /\ ~config.explicit /\ ~Upsized /\ Order(op.step) <= Order("downsize")
              /\ ~(TypeStep /\ op.phase \in {"wait", "settle"}) => linode.disk = op.seen.disk
        /\ TypeStep /\ op.phase \in {"offline", "call"} => linode.disk <= Capacity[config.type]

\* Unless somebody interferes, the Linode is off where a call wants it off.
OffInv ==
    Running /\ ~op.pending /\ ~op.drift =>
        /\ op.phase = "call" /\ (TypeStep \/ op.step = "disk") => ~linode.on
        /\ At("interface", "wait") => linode.job = "shutdown" \/ ~linode.on
        /\ At("interface", "call") /\ config.vpc => ~linode.on

\* ... and is on or off in the end as the configuration says.
PowerInv ==
    Running /\ ~op.drift =>
        /\ At("booted", "wait") =>
              \/ config.booted = "true" /\ (linode.job = "boot" \/ (~Busy /\ linode.on))
              \/ config.booted = "false" /\ (linode.job = "shutdown" \/ (~Busy /\ ~linode.on))
        /\ op.step = "read" /\ config.booted # "unset" =>
              linode.job \in {"none", "disk"} /\ linode.on = (config.booted = "true")

\* A boot that is due is still to come.
RebootInv ==
    Running /\ ~op.drift /\ op.seen.current /\ ~config.skip /\ config.bootConfig
       /\ ~linode.current =>
        \/ config.booted = "false"
        \/ /\ op.reboot /\ Order(op.step) <= Order("reboot")
           /\ At("reboot", "wait") => linode.job = "reboot"

Inv ==
    /\ TypeOK /\ WorldInv /\ TodoInv /\ WaitInv /\ JobInv /\ OffInv
    /\ PowerInv /\ RebootInv

-----------------------------------------------------------------------------
(* The order of the steps. *)

LEMMA StepsAre ==
    /\ DOMAIN Steps = 1 .. 16
    /\ Steps[1] = "get" /\ Steps[2] = "unassign" /\ Steps[3] = "assign" /\ Steps[4] = "simple"
    /\ Steps[5] = "backups" /\ Steps[6] = "private" /\ Steps[7] = "migrate" /\ Steps[8] = "upsize"
    /\ Steps[9] = "disk" /\ Steps[10] = "downsize" /\ Steps[11] = "configs"
    /\ Steps[12] = "interface" /\ Steps[13] = "share" /\ Steps[14] = "reboot"
    /\ Steps[15] = "booted" /\ Steps[16] = "read"
  BY DEF Steps

LEMMA Orders ==
    /\ Order("get") = 1 /\ Order("unassign") = 2 /\ Order("assign") = 3 /\ Order("simple") = 4
    /\ Order("backups") = 5 /\ Order("private") = 6 /\ Order("migrate") = 7 /\ Order("upsize") = 8
    /\ Order("disk") = 9 /\ Order("downsize") = 10 /\ Order("configs") = 11
    /\ Order("interface") = 12 /\ Order("share") = 13 /\ Order("reboot") = 14
    /\ Order("booted") = 15 /\ Order("read") = 16
<1>1. \A i, j \in 1 .. 16 : Steps[i] = Steps[j] => i = j
  BY StepsAre
<1>2. ASSUME NEW i \in 1 .. 16
      PROVE  Order(Steps[i]) = i
  BY <1>1, StepsAre DEF Order
<1> QED
  BY <1>2, StepsAre

LEMMA OrderedSteps ==
    /\ \A s \in StepNames : Order(s) \in 1 .. 16 /\ Steps[Order(s)] = s
    /\ \A i \in 1 .. 16 : Steps[i] \in StepNames /\ Order(Steps[i]) = i
    /\ {Steps[i] : i \in DOMAIN Steps} = StepNames
<1>1. \A s \in StepNames : Order(s) \in 1 .. 16 /\ Steps[Order(s)] = s
  BY Orders, StepsAre DEF StepNames
<1>2. \A i \in 1 .. 16 : Steps[i] \in StepNames /\ Order(Steps[i]) = i
  BY Orders, StepsAre DEF StepNames
<1>3. {Steps[i] : i \in DOMAIN Steps} = StepNames
  BY <1>1, <1>2, StepsAre
<1> QED
  BY <1>1, <1>2, <1>3

\* A set of places that has the last one has a first one.
LEMMA First ==
    ASSUME NEW S, S \subseteq 1 .. 16, 16 \in S
    PROVE  \E i \in S : \A j \in S : i <= j
  BY SMTT(30)

\* After leads to the next step that applies and skips those that do not.
LEMMA AfterIsNext ==
    ASSUME NEW step \in StepNames, step # "read", NEW reboot
    PROVE  /\ After(step, reboot) \in StepNames
           /\ Order(step) < Order(After(step, reboot))
           /\ Applies(After(step, reboot), reboot)
           /\ \A t \in StepNames : Order(step) < Order(t) /\ Applies(t, reboot)
                 => Order(After(step, reboot)) <= Order(t)
<1> DEFINE later == {i \in DOMAIN Steps : i > Order(step) /\ Applies(Steps[i], reboot)}
<1> DEFINE next  == CHOOSE i \in later : \A j \in later : i <= j
<1>1. After(step, reboot) = Steps[next]
  BY DEF After, Order
<1>2. 16 \in later
  <2>1. Order(step) < 16
    BY OrderedSteps, StepsAre DEF StepNames
  <2>2. Applies("read", reboot)
    BY DEF Applies
  <2> QED
    BY <2>1, <2>2, StepsAre
<1>3. later \subseteq 1 .. 16
  BY StepsAre
<1>4. next \in later /\ \A j \in later : next <= j
  BY <1>2, <1>3, First
<1>5. next \in 1 .. 16 /\ next > Order(step) /\ Applies(Steps[next], reboot)
  BY <1>3, <1>4
<1>6. ASSUME NEW t \in StepNames, Order(step) < Order(t), Applies(t, reboot)
      PROVE  next <= Order(t)
  <2>1. Order(t) \in later
    BY <1>6, OrderedSteps, StepsAre
  <2> QED
    BY <1>4, <2>1
<1> HIDE DEF next, later
<1> QED
  BY <1>1, <1>5, <1>6, OrderedSteps

-----------------------------------------------------------------------------
(* Going on with the next step. *)

LEMMA FirstStep == Order("get") = 1 /\ Applies("get", FALSE)
  BY Orders DEF Applies

LEMMA SameApplies ==
    ASSUME op'.seen = op.seen, config' = config
    PROVE  \A s, r : Applies(s, r)' = Applies(s, r)
  BY DEF Applies, HasChange, Upsized, Downsized, WillReboot

LEMMA ProceedIs ==
    ASSUME op \in OpRecord, NEW inst, NEW reboot, Proceed(inst, reboot)
    PROVE  /\ op'.step = After(op.step, reboot) /\ op'.phase = "start"
           /\ op'.inst = inst /\ op'.reboot = reboot
           /\ op'.pc = op.pc /\ op'.seen = op.seen /\ op'.power = op.power
           /\ op'.size = op.size /\ op'.drift = op.drift /\ op'.pending = op.pending
           /\ op'.result = op.result
  BY DEF Proceed, OpRecord

\* What a step that ends has to leave behind: what it was there for is done, and
\* nothing else is undone.
LEMMA TodoAfter ==
    ASSUME TypeOK, TodoInv, Running, op.step # "read",
           NEW inst, NEW reboot, Proceed(inst, reboot), config' = config,
           \A s \in StepNames : Missing(s)' => Missing(s) /\ s # op.step
    PROVE  TodoInv'
<1>1. op \in OpRecord /\ op.step \in StepNames
  BY OrderedSteps DEF TypeOK, OpRecord
<1>2. op'.step = After(op.step, reboot) /\ op'.reboot = reboot /\ op'.seen = op.seen
  BY <1>1, ProceedIs
<1>3. Applies(op.step, op.reboot)'
  BY <1>1, <1>2, AfterIsNext, SameApplies
<1>4. ASSUME NEW s \in StepNames, Missing(s)'
      PROVE  (Order(op.step) <= Order(s) /\ Applies(s, op.reboot))'
  <2>1. Order(op.step) <= Order(s) /\ Applies(s, op.reboot) /\ s # op.step
    BY <1>4 DEF TodoInv
  <2>2. Order(op.step) < Order(s)
    BY <1>1, <2>1, OrderedSteps
  <2>3. Applies(s, reboot)
    BY <1>4, <2>1 DEF Applies, Missing
  <2> QED
    BY <1>1, <1>2, <2>2, <2>3, AfterIsNext, SameApplies
<1> QED
  BY <1>3, <1>4 DEF TodoInv

LEMMA StepType ==
    ASSUME TypeOK
    PROVE  /\ op \in OpRecord /\ linode \in LinodeRecord /\ config \in ConfigRecord
           /\ op.step \in StepNames /\ op.inst \in [status : StatusSet, type : Types]
           /\ Capacity \in [Types -> Nat \ {0}]
           /\ Status \in StatusSet /\ Snapshot \in [status : StatusSet, type : Types]
  BY OrderedSteps, InstanceUpdateAssumption
     DEF TypeOK, OpRecord, InstanceUpdateAssumption, Status, StatusSet, Snapshot, Power,
         LinodeRecord, Jobs

LEMMA ProceedTyped ==
    ASSUME TypeOK, Running, op.step # "read", NEW inst \in [status : StatusSet, type : Types],
           NEW reboot \in BOOLEAN, Proceed(inst, reboot), UNCHANGED <<config, budget>>,
           linode' \in LinodeRecord
    PROVE  TypeOK'
<1>1. After(op.step, reboot) \in StepNames
  BY StepType, AfterIsNext
<1>2. op' \in OpRecord
  BY <1>1, OrderedSteps DEF TypeOK, OpRecord, Proceed, Phases
<1> QED
  BY <1>2 DEF TypeOK

\* A step that has nothing to wait for, or has waited, and goes on with the next.
LEMMA ProceedInv ==
    ASSUME Inv, Running, op.step # "read", NEW inst \in [status : StatusSet, type : Types],
           NEW reboot \in BOOLEAN, Proceed(inst, reboot), UNCHANGED <<config, budget>>,
           linode' \in LinodeRecord,
           linode'.job = linode.job, linode'.type = linode.type, linode'.disk = linode.disk,
           linode'.lag = linode.lag, linode'.on = linode.on,
           "placement_group" \in linode'.diff => linode'.grouped \/ config.group,
           linode'.on \/ linode'.current,
           inst.type = linode.type \/ (inst = op.inst /\ op.step # "get"),
           \A s \in StepNames : Missing(s)' => Missing(s) /\ s # op.step,
           ~op.pending => ~Busy /\ ~linode.lag,
           op.step = "booted" /\ ~op.drift =>
               linode.job \in {"none", "disk"} /\ linode.on = (config.booted = "true"),
           ~op.drift /\ op.seen.current /\ ~config.skip /\ config.bootConfig /\ ~linode'.current
               => config.booted = "false" \/ (reboot /\ Order(op.step) < Order("reboot"))
    PROVE  Inv'
<1>1. TypeOK /\ TodoInv /\ TypeOK' /\ TodoInv'
  BY ProceedTyped, TodoAfter DEF Inv
<1>2. /\ op'.step = After(op.step, reboot) /\ op'.phase = "start" /\ op'.inst = inst
      /\ op'.reboot = reboot /\ op'.pc = op.pc /\ op'.seen = op.seen /\ op'.size = op.size
      /\ op'.drift = op.drift /\ op'.pending = op.pending
  BY <1>1, StepType, ProceedIs
<1>3. /\ op'.step \in StepNames /\ Order(op.step) < Order(op'.step)
      /\ \A t \in StepNames : Order(op.step) < Order(t) /\ Applies(t, reboot)
            => Order(op'.step) <= Order(t)
      /\ Order(op.step) \in 1 .. 16 /\ Order(op'.step) \in 1 .. 16
  BY <1>1, <1>2, StepType, AfterIsNext, OrderedSteps
<1>4. WorldInv'
  BY DEF Inv, WorldInv
<1>5. WaitInv'
  BY <1>2, <1>3, Orders DEF Inv, WaitInv, At, TypeStep, Running
<1>6. JobInv'
  <2>1. ~op.pending => linode.job = "none" /\ ~linode.lag
    BY DEF Busy
  <2>2. ASSUME ~op.pending, ~config.explicit, ~Upsized, Order(op'.step) <= Order("downsize")
        PROVE  linode.disk = op.seen.disk
    <3>1. op.step # "downsize" /\ op.step # "upsize"
      BY <1>1, <1>3, <2>2, Orders DEF TodoInv, Applies
    <3>2. Order(op.step) <= Order("downsize")
      BY <1>3, <2>2, Orders
    <3> QED
      BY <2>2, <3>1, <3>2 DEF Inv, JobInv, TypeStep
  <2>3. Upsized' = Upsized
    BY <1>2 DEF Upsized
  <2> QED
    BY <1>2, <2>1, <2>2, <2>3 DEF JobInv, TypeStep, At, Running
<1>7. OffInv'
  BY <1>2 DEF OffInv, At
<1>8. PowerInv'
  <2>1. ASSUME op'.step = "read", config.booted # "unset" PROVE op.step = "booted"
    <3>1. Applies("booted", reboot)
      BY <2>1 DEF Applies
    <3> QED
      BY <1>1, <1>3, <2>1, <3>1, StepType, Orders DEF StepNames
  <2> QED
    BY <1>2, <2>1 DEF PowerInv, At
<1>9. RebootInv'
  <2>1. ASSUME reboot, config.booted # "false", ~config.skip, config.bootConfig,
               Order(op.step) < Order("reboot")
        PROVE  Order(op'.step) <= Order("reboot")
    <3>1. Applies("reboot", reboot) /\ "reboot" \in StepNames
      BY <2>1 DEF Applies, WillReboot, StepNames
    <3> QED
      BY <1>3, <2>1, <3>1
  <2> QED
    BY <1>2, <2>1 DEF RebootInv, At
<1> QED
  BY <1>1, <1>4, <1>5, <1>6, <1>7, <1>8, <1>9 DEF Inv

\* The end of updateResource, or an error.
LEMMA ReturnInv ==
    ASSUME Inv, NEW result \in {"ok", "error"}, Return(result), UNCHANGED <<linode, config>>,
           budget' \in [failures : 0 .. MaxFailures, edits : 0 .. MaxInterference]
    PROVE  Inv'
<1>1. op'.pc = "idle" /\ op' \in OpRecord
  BY DEF Return, Inv, TypeOK, OpRecord
<1>2. TypeOK' /\ WorldInv'
  BY <1>1 DEF Inv, TypeOK, WorldInv
<1>3. TodoInv' /\ WaitInv' /\ JobInv' /\ OffInv' /\ PowerInv' /\ RebootInv'
  BY <1>1 DEF TodoInv, WaitInv, JobInv, OffInv, PowerInv, RebootInv, Running
<1> QED
  BY <1>2, <1>3 DEF Inv

LEMMA NoJob ==
    ASSUME Inv, Running, ~op.pending, op.phase \notin {"wait", "offline", "bootWait"}
    PROVE  ~Busy /\ (op.phase # "settle" => ~linode.lag)
  BY StepType DEF Inv, JobInv, At, TypeStep, Busy, LinodeRecord, Jobs

\* Steps that change nothing but what they are there for.
LEMMA PlainStepInv ==
    ASSUME Inv, Running, op.phase = "start", op.step \notin {"read", "booted", "get"},
           NEW inst, inst \in {op.inst, Snapshot}, NEW reboot \in BOOLEAN, Proceed(inst, reboot),
           config' = config, budget' = budget, linode' \in LinodeRecord,
           linode'.job = linode.job, linode'.type = linode.type, linode'.disk = linode.disk,
           linode'.lag = linode.lag, linode'.on = linode.on, linode'.diff \subseteq linode.diff,
           "placement_group" \in linode'.diff => linode'.grouped \/ config.group,
           linode.on \/ linode'.current,
           op.reboot => reboot,
           linode.current /\ ~linode'.current => reboot,
           \A s \in StepNames : Missing(s)' => s # op.step,
           Order(op.step) < Order("reboot")
    PROVE  Inv'
<1>1. \A s \in StepNames : Missing(s)' => Missing(s) /\ s # op.step
  <2>1. op'.seen = op.seen
    BY StepType, ProceedIs DEF Inv
  <2>2. \A s \in StepNames : Missing(s)' => Missing(s)
    BY <2>1 DEF Missing, Upsized
  <2> QED
    BY <2>2
<1>2. ~op.pending => ~Busy /\ ~linode.lag
  BY NoJob
<1>3. ~op.drift /\ op.seen.current /\ ~config.skip /\ config.bootConfig /\ ~linode'.current
         => config.booted = "false" \/ (reboot /\ Order(op.step) < Order("reboot"))
  BY StepType DEF Inv, RebootInv, OpRecord, LinodeRecord
<1>4. inst \in [status : StatusSet, type : Types]
      /\ (inst.type = linode.type \/ (inst = op.inst /\ op.step # "get"))
  BY StepType DEF Inv, Snapshot
<1> QED
  BY <1>1, <1>2, <1>3, <1>4, ProceedInv

LEMMA UnassignInv ==
    ASSUME Inv, Unassign
    PROVE  Inv'
<1>1. /\ op \in OpRecord /\ linode \in LinodeRecord /\ op.reboot \in BOOLEAN
      /\ linode.on \in BOOLEAN /\ linode.grouped \in BOOLEAN /\ linode.current \in BOOLEAN
      /\ linode.diff \in SUBSET AllAttributes
  BY StepType DEF Inv, OpRecord, LinodeRecord
<1>2. ("placement_group" \in linode.diff => linode.grouped \/ config.group)
      /\ (linode.on \/ linode.current)
  BY DEF Inv, WorldInv
<1>3. /\ Running /\ op.phase = "start" /\ op.step = "unassign"
      /\ Proceed(op.inst, op.reboot) /\ config' = config /\ budget' = budget
  BY DEF Unassign, At, Running, KeepRest
<1>4. /\ linode' \in LinodeRecord /\ linode'.job = linode.job /\ linode'.type = linode.type
      /\ linode'.disk = linode.disk /\ linode'.lag = linode.lag /\ linode'.on = linode.on
      /\ linode'.diff = (IF config.group THEN linode.diff ELSE linode.diff \ {"placement_group"})
      /\ linode'.grouped = FALSE /\ linode'.current = linode.current
  BY <1>1 DEF Unassign, LinodeRecord, HasChange
<1>5. \A s \in StepNames : Missing(s)' => s # op.step
  BY <1>3, <1>4 DEF Missing
<1>6. op.reboot \in BOOLEAN /\ (op.reboot => op.reboot)
      /\ (linode.current /\ ~linode'.current => op.reboot)
  BY <1>1, <1>4 DEF HasChange
<1>7. /\ linode'.diff \subseteq linode.diff /\ (linode.on \/ linode'.current)
      /\ ("placement_group" \in linode'.diff => linode'.grouped \/ config.group)
  BY <1>2, <1>4
<1>8. Order(op.step) < Order("reboot") /\ op.step \notin {"read", "booted", "get"}
  BY <1>3, Orders
<1> QED
  BY <1>3, <1>4, <1>5, <1>6, <1>7, <1>8, PlainStepInv

LEMMA AssignInv ==
    ASSUME Inv, Assign
    PROVE  Inv'
<1>1. /\ op \in OpRecord /\ linode \in LinodeRecord /\ op.reboot \in BOOLEAN
      /\ linode.on \in BOOLEAN /\ linode.grouped \in BOOLEAN /\ linode.current \in BOOLEAN
      /\ linode.diff \in SUBSET AllAttributes
  BY StepType DEF Inv, OpRecord, LinodeRecord
<1>2. ("placement_group" \in linode.diff => linode.grouped \/ config.group)
      /\ (linode.on \/ linode.current)
  BY DEF Inv, WorldInv
<1>3. /\ Running /\ op.phase = "start" /\ op.step = "assign"
      /\ Proceed(op.inst, op.reboot) /\ config' = config /\ budget' = budget
  BY DEF Assign, At, Running, KeepRest
<1>4. /\ linode' \in LinodeRecord /\ linode'.job = linode.job /\ linode'.type = linode.type
      /\ linode'.disk = linode.disk /\ linode'.lag = linode.lag /\ linode'.on = linode.on
      /\ linode'.diff = linode.diff \ {"placement_group"}
      /\ linode'.grouped = TRUE /\ linode'.current = linode.current
  BY <1>1 DEF Assign, LinodeRecord, HasChange
<1>5. \A s \in StepNames : Missing(s)' => s # op.step
  BY <1>3, <1>4 DEF Missing
<1>6. op.reboot \in BOOLEAN /\ (op.reboot => op.reboot)
      /\ (linode.current /\ ~linode'.current => op.reboot)
  BY <1>1, <1>4 DEF HasChange
<1>7. /\ linode'.diff \subseteq linode.diff /\ (linode.on \/ linode'.current)
      /\ ("placement_group" \in linode'.diff => linode'.grouped \/ config.group)
  BY <1>2, <1>4
<1>8. Order(op.step) < Order("reboot") /\ op.step \notin {"read", "booted", "get"}
  BY <1>3, Orders
<1> QED
  BY <1>3, <1>4, <1>5, <1>6, <1>7, <1>8, PlainStepInv

LEMMA SimpleUpdateInv ==
    ASSUME Inv, SimpleUpdate
    PROVE  Inv'
<1>1. /\ op \in OpRecord /\ linode \in LinodeRecord /\ op.reboot \in BOOLEAN
      /\ linode.on \in BOOLEAN /\ linode.grouped \in BOOLEAN /\ linode.current \in BOOLEAN
      /\ linode.diff \in SUBSET AllAttributes
  BY StepType DEF Inv, OpRecord, LinodeRecord
<1>2. ("placement_group" \in linode.diff => linode.grouped \/ config.group)
      /\ (linode.on \/ linode.current)
  BY DEF Inv, WorldInv
<1>3. /\ Running /\ op.phase = "start" /\ op.step = "simple"
      /\ Proceed(Snapshot, op.reboot) /\ config' = config /\ budget' = budget
  BY DEF SimpleUpdate, At, Running, KeepRest
<1>4. /\ linode' \in LinodeRecord /\ linode'.job = linode.job /\ linode'.type = linode.type
      /\ linode'.disk = linode.disk /\ linode'.lag = linode.lag /\ linode'.on = linode.on
      /\ linode'.diff = linode.diff \ {"label"}
      /\ linode'.grouped = linode.grouped /\ linode'.current = linode.current
  BY <1>1 DEF SimpleUpdate, LinodeRecord, HasChange
<1>5. \A s \in StepNames : Missing(s)' => s # op.step
  BY <1>3, <1>4 DEF Missing
<1>6. op.reboot \in BOOLEAN /\ (op.reboot => op.reboot)
      /\ (linode.current /\ ~linode'.current => op.reboot)
  BY <1>1, <1>4 DEF HasChange
<1>7. /\ linode'.diff \subseteq linode.diff /\ (linode.on \/ linode'.current)
      /\ ("placement_group" \in linode'.diff => linode'.grouped \/ config.group)
  BY <1>2, <1>4
<1>8. Order(op.step) < Order("reboot") /\ op.step \notin {"read", "booted", "get"}
  BY <1>3, Orders
<1> QED
  BY <1>3, <1>4, <1>5, <1>6, <1>7, <1>8, PlainStepInv

LEMMA UpdateBackupsInv ==
    ASSUME Inv, UpdateBackups
    PROVE  Inv'
<1>1. /\ op \in OpRecord /\ linode \in LinodeRecord /\ op.reboot \in BOOLEAN
      /\ linode.on \in BOOLEAN /\ linode.grouped \in BOOLEAN /\ linode.current \in BOOLEAN
      /\ linode.diff \in SUBSET AllAttributes
  BY StepType DEF Inv, OpRecord, LinodeRecord
<1>2. ("placement_group" \in linode.diff => linode.grouped \/ config.group)
      /\ (linode.on \/ linode.current)
  BY DEF Inv, WorldInv
<1>3. /\ Running /\ op.phase = "start" /\ op.step = "backups"
      /\ Proceed(op.inst, op.reboot) /\ config' = config /\ budget' = budget
  BY DEF UpdateBackups, At, Running, KeepRest
<1>4. /\ linode' \in LinodeRecord /\ linode'.job = linode.job /\ linode'.type = linode.type
      /\ linode'.disk = linode.disk /\ linode'.lag = linode.lag /\ linode'.on = linode.on
      /\ linode'.diff = linode.diff \ {"backups_enabled"}
      /\ linode'.grouped = linode.grouped /\ linode'.current = linode.current
  BY <1>1 DEF UpdateBackups, LinodeRecord, HasChange
<1>5. \A s \in StepNames : Missing(s)' => s # op.step
  BY <1>3, <1>4 DEF Missing
<1>6. op.reboot \in BOOLEAN /\ (op.reboot => op.reboot)
      /\ (linode.current /\ ~linode'.current => op.reboot)
  BY <1>1, <1>4 DEF HasChange
<1>7. /\ linode'.diff \subseteq linode.diff /\ (linode.on \/ linode'.current)
      /\ ("placement_group" \in linode'.diff => linode'.grouped \/ config.group)
  BY <1>2, <1>4
<1>8. Order(op.step) < Order("reboot") /\ op.step \notin {"read", "booted", "get"}
  BY <1>3, Orders
<1> QED
  BY <1>3, <1>4, <1>5, <1>6, <1>7, <1>8, PlainStepInv

LEMMA AddPrivateIPInv ==
    ASSUME Inv, AddPrivateIP
    PROVE  Inv'
<1>1. /\ op \in OpRecord /\ linode \in LinodeRecord /\ op.reboot \in BOOLEAN
      /\ linode.on \in BOOLEAN /\ linode.grouped \in BOOLEAN /\ linode.current \in BOOLEAN
      /\ linode.diff \in SUBSET AllAttributes
  BY StepType DEF Inv, OpRecord, LinodeRecord
<1>2. ("placement_group" \in linode.diff => linode.grouped \/ config.group)
      /\ (linode.on \/ linode.current)
  BY DEF Inv, WorldInv
<1>3. /\ Running /\ op.phase = "start" /\ op.step = "private"
      /\ Proceed(op.inst, TRUE) /\ config' = config /\ budget' = budget
  BY DEF AddPrivateIP, At, Running, KeepRest
<1>4. /\ linode' \in LinodeRecord /\ linode'.job = linode.job /\ linode'.type = linode.type
      /\ linode'.disk = linode.disk /\ linode'.lag = linode.lag /\ linode'.on = linode.on
      /\ linode'.diff = linode.diff \ {"private_ip"}
      /\ linode'.grouped = linode.grouped /\ linode'.current = ~linode.on
  BY <1>1 DEF AddPrivateIP, LinodeRecord, HasChange
<1>5. \A s \in StepNames : Missing(s)' => s # op.step
  BY <1>3, <1>4 DEF Missing
<1>6. TRUE \in BOOLEAN /\ (op.reboot => TRUE)
      /\ (linode.current /\ ~linode'.current => TRUE)
  BY <1>1, <1>4 DEF HasChange
<1>7. /\ linode'.diff \subseteq linode.diff /\ (linode.on \/ linode'.current)
      /\ ("placement_group" \in linode'.diff => linode'.grouped \/ config.group)
  BY <1>2, <1>4
<1>8. Order(op.step) < Order("reboot") /\ op.step \notin {"read", "booted", "get"}
  BY <1>3, Orders
<1> QED
  BY <1>3, <1>4, <1>5, <1>6, <1>7, <1>8, PlainStepInv

LEMMA UpdateInstanceConfigsInv ==
    ASSUME Inv, UpdateInstanceConfigs
    PROVE  Inv'
<1>1. /\ op \in OpRecord /\ linode \in LinodeRecord /\ op.reboot \in BOOLEAN
      /\ linode.on \in BOOLEAN /\ linode.grouped \in BOOLEAN /\ linode.current \in BOOLEAN
      /\ linode.diff \in SUBSET AllAttributes
  BY StepType DEF Inv, OpRecord, LinodeRecord
<1>2. ("placement_group" \in linode.diff => linode.grouped \/ config.group)
      /\ (linode.on \/ linode.current)
  BY DEF Inv, WorldInv
<1>3. /\ Running /\ op.phase = "start" /\ op.step = "configs"
      /\ Proceed(op.inst, op.reboot \/ HasChange("config")) /\ config' = config /\ budget' = budget
  BY DEF UpdateInstanceConfigs, At, Running, KeepRest
<1>4. /\ linode' \in LinodeRecord /\ linode'.job = linode.job /\ linode'.type = linode.type
      /\ linode'.disk = linode.disk /\ linode'.lag = linode.lag /\ linode'.on = linode.on
      /\ linode'.diff = linode.diff \ {"config"}
      /\ linode'.grouped = linode.grouped
      /\ linode'.current = (linode.current /\ ~(HasChange("config") /\ linode.on))
  BY <1>1 DEF UpdateInstanceConfigs, LinodeRecord, HasChange
<1>5. \A s \in StepNames : Missing(s)' => s # op.step
  BY <1>3, <1>4 DEF Missing
<1>6. (op.reboot \/ HasChange("config")) \in BOOLEAN
      /\ (op.reboot => op.reboot \/ HasChange("config"))
      /\ (linode.current /\ ~linode'.current => op.reboot \/ HasChange("config"))
  BY <1>1, <1>4 DEF HasChange
<1>7. /\ linode'.diff \subseteq linode.diff /\ (linode.on \/ linode'.current)
      /\ ("placement_group" \in linode'.diff => linode'.grouped \/ config.group)
  BY <1>2, <1>4
<1>8. Order(op.step) < Order("reboot") /\ op.step \notin {"read", "booted", "get"}
  BY <1>3, Orders
<1> QED
  BY <1>3, <1>4, <1>5, <1>6, <1>7, <1>8, PlainStepInv

LEMMA ShareIPsInv ==
    ASSUME Inv, ShareIPs
    PROVE  Inv'
<1>1. /\ op \in OpRecord /\ linode \in LinodeRecord /\ op.reboot \in BOOLEAN
      /\ linode.on \in BOOLEAN /\ linode.grouped \in BOOLEAN /\ linode.current \in BOOLEAN
      /\ linode.diff \in SUBSET AllAttributes
  BY StepType DEF Inv, OpRecord, LinodeRecord
<1>2. ("placement_group" \in linode.diff => linode.grouped \/ config.group)
      /\ (linode.on \/ linode.current)
  BY DEF Inv, WorldInv
<1>3. /\ Running /\ op.phase = "start" /\ op.step = "share"
      /\ Proceed(op.inst, op.reboot) /\ config' = config /\ budget' = budget
  BY DEF ShareIPs, At, Running, KeepRest
<1>4. /\ linode' \in LinodeRecord /\ linode'.job = linode.job /\ linode'.type = linode.type
      /\ linode'.disk = linode.disk /\ linode'.lag = linode.lag /\ linode'.on = linode.on
      /\ linode'.diff = linode.diff \ {"shared_ipv4"}
      /\ linode'.grouped = linode.grouped /\ linode'.current = linode.current
  BY <1>1 DEF ShareIPs, LinodeRecord, HasChange
<1>5. \A s \in StepNames : Missing(s)' => s # op.step
  BY <1>3, <1>4 DEF Missing
<1>6. op.reboot \in BOOLEAN /\ (op.reboot => op.reboot)
      /\ (linode.current /\ ~linode'.current => op.reboot)
  BY <1>1, <1>4 DEF HasChange
<1>7. /\ linode'.diff \subseteq linode.diff /\ (linode.on \/ linode'.current)
      /\ ("placement_group" \in linode'.diff => linode'.grouped \/ config.group)
  BY <1>2, <1>4
<1>8. Order(op.step) < Order("reboot") /\ op.step \notin {"read", "booted", "get"}
  BY <1>3, Orders
<1> QED
  BY <1>3, <1>4, <1>5, <1>6, <1>7, <1>8, PlainStepInv

-----------------------------------------------------------------------------
(* Steps that change nothing. *)

LEMMA KeepStepInv ==
    ASSUME Inv, Running, op.step # "read", NEW inst, NEW reboot \in BOOLEAN,
           Proceed(inst, reboot), Keep,
           inst = Snapshot \/ (inst = op.inst /\ op.step # "get"),
           ~Missing(op.step),
           ~op.pending => ~Busy /\ ~linode.lag,
           op.step = "booted" /\ ~op.drift =>
               linode.job \in {"none", "disk"} /\ linode.on = (config.booted = "true"),
           op.reboot => reboot,
           op.step = "reboot" => op.phase = "wait" /\ linode.job # "reboot"
    PROVE  Inv'
<1>1. /\ op \in OpRecord /\ linode \in LinodeRecord /\ op.step \in StepNames
      /\ op.inst \in [status : StatusSet, type : Types] /\ op.reboot \in BOOLEAN
      /\ Snapshot \in [status : StatusSet, type : Types]
  BY StepType DEF Inv, OpRecord
<1>2. linode' = linode /\ config' = config /\ budget' = budget
  BY DEF Keep
<1>3. inst \in [status : StatusSet, type : Types]
      /\ (inst.type = linode.type \/ (inst = op.inst /\ op.step # "get"))
  BY <1>1 DEF Snapshot
<1>4. \A s \in StepNames : Missing(s)' => Missing(s) /\ s # op.step
  <2>1. op'.seen = op.seen
    BY <1>1, ProceedIs
  <2>2. \A s \in StepNames : Missing(s)' => Missing(s)
    BY <1>2, <2>1 DEF Missing, Upsized
  <2> QED
    BY <2>2
<1>5. /\ "placement_group" \in linode.diff => linode.grouped \/ config.group
      /\ linode.on \/ linode.current
  BY DEF Inv, WorldInv
<1>6. ASSUME ~op.drift, op.seen.current, ~config.skip, config.bootConfig, ~linode.current,
             config.booted # "false"
      PROVE  reboot /\ Order(op.step) < Order("reboot")
  <2>1. op.reboot /\ Order(op.step) <= Order("reboot")
        /\ (At("reboot", "wait") => linode.job = "reboot")
    BY <1>6 DEF Inv, RebootInv
  <2>2. op.step # "reboot"
    BY <2>1 DEF At, Running
  <2>3. Order(op.step) \in 1 .. 16 /\ Order(op.step) # 14
    BY <1>1, <2>2, OrderedSteps, StepsAre
  <2>4. Order(op.step) < Order("reboot")
    BY <2>1, <2>3, Orders
  <2> QED
    BY <2>1, <2>4
<1> QED
  BY <1>1, <1>2, <1>3, <1>4, <1>5, <1>6, ProceedInv

LEMMA GetInstanceInv ==
    ASSUME Inv, GetInstance
    PROVE  Inv'
<1>1. Running /\ op.step = "get" /\ op.phase = "start" /\ Proceed(Snapshot, FALSE) /\ Keep
  BY DEF GetInstance, At, Running
<1>2. op.reboot \in BOOLEAN /\ linode \in LinodeRecord
  BY StepType DEF Inv, OpRecord
<1>3. ~Missing(op.step)
  BY <1>1 DEF Missing
<1>4. ~op.pending => ~Busy /\ ~linode.lag
  BY <1>1, NoJob
<1>8. ~op.reboot
  BY <1>1 DEF Inv, WaitInv
<1> QED
  BY <1>1, <1>2, <1>3, <1>4, <1>8, KeepStepInv

LEMMA MigratedInv ==
    ASSUME Inv, Migrated
    PROVE  Inv'
<1>1. Running /\ op.step = "migrate" /\ op.phase = "wait" /\ Proceed(Snapshot, op.reboot) /\ Keep
  BY DEF Migrated, At, Running
<1>2. op.reboot \in BOOLEAN /\ linode \in LinodeRecord
  BY StepType DEF Inv, OpRecord
<1>3. ~Missing(op.step)
  BY <1>1 DEF Migrated, Missing, Inv, WaitInv, At, Busy
<1>4. ~op.pending => ~Busy /\ ~linode.lag
  BY <1>1 DEF Migrated, Inv, JobInv, TypeStep, At
<1> QED
  BY <1>1, <1>2, <1>3, <1>4, KeepStepInv

LEMMA TypeChangedInv ==
    ASSUME Inv, TypeChanged
    PROVE  Inv'
<1>1. Running /\ TypeStep /\ op.phase = "settle" /\ Proceed(Snapshot, op.reboot \/ Upsized) /\ Keep
  BY DEF TypeChanged, At, Running
<1>2. op.reboot \in BOOLEAN /\ linode \in LinodeRecord
  BY StepType DEF Inv, OpRecord
<1>3. ~Missing(op.step)
  BY <1>1 DEF Missing, Inv, WaitInv, TypeStep
<1>4. ~op.pending => ~Busy /\ ~linode.lag
  <2>1. ASSUME ~op.pending PROVE linode.job = "none" \/ linode.job = "disk"
    BY <1>1, <1>2 DEF TypeChanged, Status, LinodeRecord, Jobs
  <2>2. ASSUME ~op.pending PROVE linode.job # "disk"
    BY <1>1, <2>2 DEF Inv, JobInv, TypeStep, At
  <2>3. ASSUME ~op.pending PROVE ~linode.lag
    BY <1>1, <2>3 DEF TypeChanged, Inv, JobInv, WorldInv
  <2> QED
    BY <2>1, <2>2, <2>3 DEF Busy
<1>6. (op.reboot \/ Upsized) \in BOOLEAN
  BY <1>2 DEF Upsized
<1> QED
  BY <1>1, <1>2, <1>3, <1>4, <1>6, KeepStepInv DEF TypeStep

LEMMA DiskUnchangedInv ==
    ASSUME Inv, DiskUnchanged
    PROVE  Inv'
<1>1. Running /\ op.step = "disk" /\ op.phase = "start" /\ Proceed(op.inst, op.reboot) /\ Keep
  BY DEF DiskUnchanged, At, Running
<1>2. op.reboot \in BOOLEAN /\ linode \in LinodeRecord
  BY StepType DEF Inv, OpRecord
<1>3. ~Missing(op.step)
  BY <1>1 DEF DiskUnchanged, Missing
<1>4. ~op.pending => ~Busy /\ ~linode.lag
  BY <1>1, NoJob
<1> QED
  BY <1>1, <1>2, <1>3, <1>4, KeepStepInv

LEMMA DiskResizedInv ==
    ASSUME Inv, DiskResized
    PROVE  Inv'
<1>1. Running /\ op.step = "disk" /\ op.phase = "wait" /\ Proceed(op.inst, TRUE) /\ Keep
  BY DEF DiskResized, At, Running
<1>2. op.reboot \in BOOLEAN /\ linode \in LinodeRecord
  BY StepType DEF Inv, OpRecord
<1>3. ~Missing(op.step)
  BY <1>1 DEF DiskResized, Missing
<1>4. ~op.pending => ~Busy /\ ~linode.lag
  BY <1>1 DEF DiskResized, Inv, JobInv, TypeStep, At
<1> QED
  BY <1>1, <1>2, <1>3, <1>4, KeepStepInv

LEMMA BootedAfterVPCInv ==
    ASSUME Inv, BootedAfterVPC
    PROVE  Inv'
<1>1. Running /\ op.step = "interface" /\ op.phase = "bootWait" /\ Proceed(op.inst, op.reboot) /\ Keep
  BY DEF BootedAfterVPC, At, Running
<1>2. op.reboot \in BOOLEAN /\ linode \in LinodeRecord
  BY StepType DEF Inv, OpRecord
<1>3. ~Missing(op.step)
  BY <1>1 DEF Missing, Inv, WaitInv
<1>4. ~op.pending => ~Busy /\ ~linode.lag
  BY <1>1 DEF BootedAfterVPC, Inv, JobInv, TypeStep, At
<1> QED
  BY <1>1, <1>2, <1>3, <1>4, KeepStepInv

LEMMA RebootedInv ==
    ASSUME Inv, Rebooted
    PROVE  Inv'
<1>1. Running /\ op.step = "reboot" /\ op.phase = "wait" /\ Proceed(op.inst, op.reboot) /\ Keep
  BY DEF Rebooted, At, Running
<1>2. op.reboot \in BOOLEAN /\ linode \in LinodeRecord
  BY StepType DEF Inv, OpRecord
<1>3. ~Missing(op.step)
  BY <1>1 DEF Missing
<1>4. ~op.pending => ~Busy /\ ~linode.lag
  BY <1>1 DEF Rebooted, Inv, JobInv, TypeStep, At
<1>7. linode.job # "reboot"
  BY DEF Rebooted, Busy
<1> QED
  BY <1>1, <1>2, <1>3, <1>4, <1>7, KeepStepInv

LEMMA BootedHandledInv ==
    ASSUME Inv, BootedHandled
    PROVE  Inv'
<1>1. Running /\ op.step = "booted" /\ op.phase = "wait" /\ Proceed(op.inst, op.reboot) /\ Keep
  BY DEF BootedHandled, At, Running
<1>2. op.reboot \in BOOLEAN /\ linode \in LinodeRecord
  BY StepType DEF Inv, OpRecord
<1>3. ~Missing(op.step)
  BY <1>1 DEF Missing
<1>4. ~op.pending => ~Busy /\ ~linode.lag
  BY <1>1 DEF BootedHandled, Inv, JobInv, TypeStep, At
<1>5. ~op.drift => linode.job = "none" /\ linode.on = (config.booted = "true")
  BY <1>1, <1>2 DEF BootedHandled, Inv, PowerInv, At, Busy, LinodeRecord
<1> QED
  BY <1>1, <1>2, <1>3, <1>4, <1>5, KeepStepInv

-----------------------------------------------------------------------------
(* Steps that wait. *)

\* A step that goes on with its next phase, and may have started a job.
LEMMA WaitingTyped ==
    ASSUME Inv, Running, op' \in OpRecord, op'.pc = op.pc, op'.step = op.step,
           op'.seen = op.seen, op'.reboot = op.reboot, config' = config, budget' = budget,
           NEW job \in Jobs, linode' = [linode EXCEPT !.job = job]
    PROVE  /\ TypeOK' /\ TodoInv' /\ Upsized' = Upsized
           /\ linode'.job = job /\ linode'.type = linode.type /\ linode'.disk = linode.disk
           /\ linode'.lag = linode.lag /\ linode'.on = linode.on /\ linode'.diff = linode.diff
           /\ linode'.grouped = linode.grouped /\ linode'.current = linode.current
<1>1. /\ linode'.job = job /\ linode'.type = linode.type /\ linode'.disk = linode.disk
      /\ linode'.lag = linode.lag /\ linode'.on = linode.on /\ linode'.diff = linode.diff
      /\ linode'.grouped = linode.grouped /\ linode'.current = linode.current
      /\ linode' \in LinodeRecord
  BY StepType DEF Inv, LinodeRecord
<1>2. TypeOK'
  BY <1>1 DEF Inv, TypeOK
<1>3. \A s \in StepNames : Missing(s)' => Missing(s)
  BY <1>1 DEF Missing, Upsized
<1>4. TodoInv'
  BY <1>3, SameApplies DEF Inv, TodoInv, Running
<1>5. Upsized' = Upsized
  BY DEF Upsized
<1> QED
  BY <1>1, <1>2, <1>4, <1>5

LEMMA MigrateInv ==
    ASSUME Inv, Migrate
    PROVE  Inv'
<1>1. /\ op \in OpRecord /\ linode \in LinodeRecord /\ op.step \in StepNames
      /\ linode.on \in BOOLEAN /\ linode.job \in Jobs
  BY StepType DEF Inv, LinodeRecord
<1>2. /\ Running /\ op.step = "migrate" /\ op.phase = "start"
      /\ config' = config /\ budget' = budget
  BY DEF Migrate, At, Running, Keep, KeepRest, DiskStep, Busy
<1>3. /\ op' \in OpRecord /\ op'.pc = op.pc /\ op'.step = op.step /\ op'.phase = "wait"
      /\ op'.inst = op.inst /\ op'.seen = op.seen /\ op'.reboot = op.reboot
      /\ op'.drift = op.drift /\ op'.pending = op.pending
      /\ op'.size = op.size /\ op'.power = op.power
  BY <1>1, <1>2 DEF Migrate, Goto, OpRecord, LinodeRecord, Phases
<1>4. PICK job \in Jobs :
         job = "migrate" /\ linode' = [linode EXCEPT !.job = job]
  BY <1>1, <1>2 DEF Migrate, StartJob, LinodeRecord, Jobs, Keep, Busy
<1>5. /\ TypeOK' /\ TodoInv' /\ Upsized' = Upsized
      /\ linode'.job = job /\ linode'.type = linode.type /\ linode'.disk = linode.disk
      /\ linode'.lag = linode.lag /\ linode'.on = linode.on /\ linode'.diff = linode.diff
      /\ linode'.grouped = linode.grouped /\ linode'.current = linode.current
  BY <1>2, <1>3, <1>4, WaitingTyped
<1>6. ~op.pending => linode.job = "none" /\ ~linode.lag
  BY <1>2, NoJob DEF Busy
<1>10. WorldInv'
  BY <1>2, <1>4, <1>5 DEF Inv, WorldInv
<1>11. WaitInv'
  BY <1>2, <1>3, <1>4, <1>5 DEF Inv, WaitInv, TypeStep
<1>12. JobInv'
  BY <1>2, <1>3, <1>4, <1>5 DEF Inv, JobInv, Running, At
<1>13. OffInv'
  BY <1>2, <1>3, <1>5 DEF Inv, OffInv, At
<1>14. PowerInv'
  BY <1>2, <1>3, <1>5 DEF Inv, PowerInv, At
<1>15. RebootInv'
  BY <1>2, <1>3, <1>5 DEF Inv, RebootInv, At
<1> QED
  BY <1>5, <1>10, <1>11, <1>12, <1>13, <1>14, <1>15 DEF Inv

LEMMA ResizeInstanceInv ==
    ASSUME Inv, ResizeInstance
    PROVE  Inv'
<1>1. /\ op \in OpRecord /\ linode \in LinodeRecord /\ op.step \in StepNames
      /\ linode.on \in BOOLEAN /\ linode.job \in Jobs
  BY StepType DEF Inv, LinodeRecord
<1>2. /\ Running /\ TypeStep /\ op.phase = "call"
      /\ linode.disk <= Capacity[config.type]
      /\ config' = config /\ budget' = budget
  BY DEF ResizeInstance, At, Running, Keep, KeepRest, DiskStep, Busy
<1>3. /\ op' \in OpRecord /\ op'.pc = op.pc /\ op'.step = op.step /\ op'.phase = "wait"
      /\ op'.inst = op.inst /\ op'.seen = op.seen /\ op'.reboot = op.reboot
      /\ op'.drift = op.drift /\ op'.pending = op.pending
      /\ op'.size = linode.disk /\ op'.power = op.power
  BY <1>1, <1>2 DEF ResizeInstance, Goto, OpRecord, LinodeRecord, Phases
<1>4. PICK job \in Jobs :
         job = "resize" /\ linode' = [linode EXCEPT !.job = job]
  BY <1>1, <1>2 DEF ResizeInstance, StartJob, LinodeRecord, Jobs, Keep, Busy
<1>5. /\ TypeOK' /\ TodoInv' /\ Upsized' = Upsized
      /\ linode'.job = job /\ linode'.type = linode.type /\ linode'.disk = linode.disk
      /\ linode'.lag = linode.lag /\ linode'.on = linode.on /\ linode'.diff = linode.diff
      /\ linode'.grouped = linode.grouped /\ linode'.current = linode.current
  BY <1>2, <1>3, <1>4, WaitingTyped
<1>6. ~op.pending => linode.job = "none" /\ ~linode.lag
  BY <1>2, NoJob DEF Busy
<1>7. ~(config.explicit /\ config.resize_disk)
  BY <1>2 DEF Inv, WaitInv
<1>10. WorldInv'
  BY <1>2, <1>4, <1>5, <1>7 DEF Inv, WorldInv
<1>11. WaitInv'
  BY <1>2, <1>3, <1>4, <1>5 DEF Inv, WaitInv, At, TypeStep
<1>12. JobInv'
  BY <1>2, <1>3, <1>4, <1>5 DEF Inv, JobInv, TypeStep
<1>13. OffInv'
  BY <1>2, <1>3, <1>5 DEF Inv, OffInv
<1>14. PowerInv'
  BY <1>2, <1>3, <1>5 DEF Inv, PowerInv, At, TypeStep
<1>15. RebootInv'
  BY <1>2, <1>3, <1>5 DEF Inv, RebootInv, At, TypeStep
<1> QED
  BY <1>5, <1>10, <1>11, <1>12, <1>13, <1>14, <1>15 DEF Inv

LEMMA ResizedInv ==
    ASSUME Inv, Resized
    PROVE  Inv'
<1>1. /\ op \in OpRecord /\ linode \in LinodeRecord /\ op.step \in StepNames
      /\ linode.on \in BOOLEAN /\ linode.job \in Jobs
  BY StepType DEF Inv, LinodeRecord
<1>2. /\ Running /\ TypeStep /\ op.phase = "wait" /\ linode.job = "none"
      /\ config' = config /\ budget' = budget
  BY DEF Resized, At, Running, Keep, KeepRest, DiskStep, Busy
<1>3. /\ op' \in OpRecord /\ op'.pc = op.pc /\ op'.step = op.step /\ op'.phase = "settle"
      /\ op'.inst = op.inst /\ op'.seen = op.seen /\ op'.reboot = op.reboot
      /\ op'.drift = op.drift /\ op'.pending = op.pending
      /\ op'.size = op.size /\ op'.power = op.power
  BY <1>1, <1>2 DEF Resized, Goto, OpRecord, LinodeRecord, Phases
<1>4. PICK job \in Jobs :
         job = linode.job /\ linode' = [linode EXCEPT !.job = job]
  BY <1>1, <1>2 DEF Resized, StartJob, LinodeRecord, Jobs, Keep, Busy
<1>5. /\ TypeOK' /\ TodoInv' /\ Upsized' = Upsized
      /\ linode'.job = job /\ linode'.type = linode.type /\ linode'.disk = linode.disk
      /\ linode'.lag = linode.lag /\ linode'.on = linode.on /\ linode'.diff = linode.diff
      /\ linode'.grouped = linode.grouped /\ linode'.current = linode.current
  BY <1>2, <1>3, <1>4, WaitingTyped
<1>10. WorldInv'
  BY <1>2, <1>4, <1>5 DEF Inv, WorldInv
<1>11. WaitInv'
  BY <1>2, <1>3, <1>5 DEF Inv, WaitInv, At
<1>12. JobInv'
  BY <1>2, <1>3, <1>4, <1>5 DEF Inv, JobInv, TypeStep
<1>13. OffInv'
  BY <1>2, <1>3, <1>5 DEF Inv, OffInv, At
<1>14. PowerInv'
  BY <1>2, <1>3, <1>4, <1>5 DEF Inv, PowerInv, At
<1>15. RebootInv'
  BY <1>2, <1>3, <1>5 DEF Inv, RebootInv, At
<1> QED
  BY <1>5, <1>10, <1>11, <1>12, <1>13, <1>14, <1>15 DEF Inv

LEMMA WentOfflineInv ==
    ASSUME Inv, WentOffline
    PROVE  Inv'
<1>1. /\ op \in OpRecord /\ linode \in LinodeRecord /\ op.step \in StepNames
      /\ linode.on \in BOOLEAN /\ linode.job \in Jobs
  BY StepType DEF Inv, LinodeRecord
<1>2. /\ Running /\ op.step \in {"upsize", "downsize", "disk"}
      /\ op.phase = "offline" /\ Status = "offline"
      /\ config' = config /\ budget' = budget
  BY DEF WentOffline, At, Running, Keep, KeepRest, DiskStep, Busy
<1>3. /\ op' \in OpRecord /\ op'.pc = op.pc /\ op'.step = op.step /\ op'.phase = "call"
      /\ op'.inst = op.inst /\ op'.seen = op.seen /\ op'.reboot = op.reboot
      /\ op'.drift = op.drift /\ op'.pending = op.pending
      /\ op'.size = op.size /\ op'.power = op.power
  BY <1>1, <1>2 DEF WentOffline, Goto, OpRecord, LinodeRecord, Phases
<1>4. PICK job \in Jobs :
         job = linode.job /\ linode' = [linode EXCEPT !.job = job]
  BY <1>1, <1>2 DEF WentOffline, StartJob, LinodeRecord, Jobs, Keep, Busy
<1>5. /\ TypeOK' /\ TodoInv' /\ Upsized' = Upsized
      /\ linode'.job = job /\ linode'.type = linode.type /\ linode'.disk = linode.disk
      /\ linode'.lag = linode.lag /\ linode'.on = linode.on /\ linode'.diff = linode.diff
      /\ linode'.grouped = linode.grouped /\ linode'.current = linode.current
  BY <1>2, <1>3, <1>4, WaitingTyped
<1>6. linode.job \in {"none", "disk"} /\ ~linode.on
  BY <1>1, <1>2 DEF Status, Power, Jobs
<1>10. WorldInv'
  BY <1>2, <1>4, <1>5 DEF Inv, WorldInv
<1>11. WaitInv'
  BY <1>2, <1>3, <1>5 DEF Inv, WaitInv, At, TypeStep
<1>12. JobInv'
  BY <1>2, <1>3, <1>4, <1>5, <1>6 DEF Inv, JobInv, At, TypeStep
<1>13. OffInv'
  BY <1>2, <1>5, <1>6 DEF Inv, OffInv
<1>14. PowerInv'
  BY <1>2, <1>3, <1>5 DEF Inv, PowerInv, At
<1>15. RebootInv'
  BY <1>2, <1>3, <1>5 DEF Inv, RebootInv, At
<1> QED
  BY <1>5, <1>10, <1>11, <1>12, <1>13, <1>14, <1>15 DEF Inv

LEMMA ShutDownForDiskInv ==
    ASSUME Inv, ShutDownForDisk
    PROVE  Inv'
<1>1. /\ op \in OpRecord /\ linode \in LinodeRecord /\ op.step \in StepNames
      /\ linode.on \in BOOLEAN /\ linode.job \in Jobs
  BY StepType DEF Inv, LinodeRecord
<1>2. /\ Running /\ op.step = "disk" /\ op.phase = "start"
      /\ config.disk <= Capacity[config.type] /\ config.disk <= Capacity[op.inst.type]
      /\ config' = config /\ budget' = budget
  BY DEF ShutDownForDisk, At, Running, Keep, KeepRest, DiskStep, Busy
<1>3. /\ op' \in OpRecord /\ op'.pc = op.pc /\ op'.step = op.step /\ op'.phase = "offline"
      /\ op'.inst = op.inst /\ op'.seen = op.seen /\ op'.reboot = op.reboot
      /\ op'.drift = op.drift /\ op'.pending = op.pending
      /\ op'.size = op.size /\ op'.power = op.power
  BY <1>1, <1>2 DEF ShutDownForDisk, Goto, OpRecord, LinodeRecord, Phases
<1>4. PICK job \in Jobs :
         job \in {linode.job, "shutdown"} /\ linode' = [linode EXCEPT !.job = job]
  BY <1>1, <1>2 DEF ShutDownForDisk, StartJob, LinodeRecord, Jobs, Keep, Busy
<1>5. /\ TypeOK' /\ TodoInv' /\ Upsized' = Upsized
      /\ linode'.job = job /\ linode'.type = linode.type /\ linode'.disk = linode.disk
      /\ linode'.lag = linode.lag /\ linode'.on = linode.on /\ linode'.diff = linode.diff
      /\ linode'.grouped = linode.grouped /\ linode'.current = linode.current
  BY <1>2, <1>3, <1>4, WaitingTyped
<1>6. ~op.pending => linode.job = "none" /\ ~linode.lag
  BY <1>2, NoJob DEF Busy
<1>10. WorldInv'
  BY <1>2, <1>4, <1>5 DEF Inv, WorldInv
<1>11. WaitInv'
  BY <1>2, <1>3, <1>5 DEF Inv, WaitInv, At, TypeStep
<1>12. JobInv'
  BY <1>2, <1>3, <1>4, <1>5, <1>6 DEF Inv, JobInv, TypeStep
<1>13. OffInv'
  BY <1>2, <1>3, <1>5 DEF Inv, OffInv, At
<1>14. PowerInv'
  BY <1>2, <1>3, <1>5 DEF Inv, PowerInv, At
<1>15. RebootInv'
  BY <1>2, <1>3, <1>5 DEF Inv, RebootInv, At
<1> QED
  BY <1>5, <1>10, <1>11, <1>12, <1>13, <1>14, <1>15 DEF Inv

LEMMA ResizeInstanceDiskInv ==
    ASSUME Inv, ResizeInstanceDisk
    PROVE  Inv'
<1>1. /\ op \in OpRecord /\ linode \in LinodeRecord /\ op.step \in StepNames
      /\ linode.on \in BOOLEAN /\ linode.job \in Jobs
  BY StepType DEF Inv, LinodeRecord
<1>2. /\ Running /\ op.step = "disk" /\ op.phase = "call"
      /\ config.disk <= Capacity[linode.type]
      /\ config' = config /\ budget' = budget
  BY DEF ResizeInstanceDisk, At, Running, Keep, KeepRest, DiskStep, Busy
<1>3. /\ op' \in OpRecord /\ op'.pc = op.pc /\ op'.step = op.step /\ op'.phase = "wait"
      /\ op'.inst = op.inst /\ op'.seen = op.seen /\ op'.reboot = op.reboot
      /\ op'.drift = op.drift /\ op'.pending = op.pending
      /\ op'.size = op.size /\ op'.power = op.power
  BY <1>1, <1>2 DEF ResizeInstanceDisk, Goto, OpRecord, LinodeRecord, Phases
<1>4. PICK job \in Jobs :
         job = "disk" /\ linode' = [linode EXCEPT !.job = job]
  BY <1>1, <1>2 DEF ResizeInstanceDisk, StartJob, LinodeRecord, Jobs, Keep, Busy
<1>5. /\ TypeOK' /\ TodoInv' /\ Upsized' = Upsized
      /\ linode'.job = job /\ linode'.type = linode.type /\ linode'.disk = linode.disk
      /\ linode'.lag = linode.lag /\ linode'.on = linode.on /\ linode'.diff = linode.diff
      /\ linode'.grouped = linode.grouped /\ linode'.current = linode.current
  BY <1>2, <1>3, <1>4, WaitingTyped
<1>6. ~op.pending => linode.job = "none" /\ ~linode.lag
  BY <1>2, NoJob DEF Busy
<1>10. WorldInv'
  BY <1>2, <1>4, <1>5 DEF Inv, WorldInv
<1>11. WaitInv'
  BY <1>2, <1>3, <1>5 DEF Inv, WaitInv, At, TypeStep
<1>12. JobInv'
  BY <1>2, <1>3, <1>4, <1>5 DEF Inv, JobInv, Running, At
<1>13. OffInv'
  BY <1>2, <1>3, <1>5 DEF Inv, OffInv
<1>14. PowerInv'
  BY <1>2, <1>3, <1>5 DEF Inv, PowerInv, At
<1>15. RebootInv'
  BY <1>2, <1>3, <1>5 DEF Inv, RebootInv, At
<1> QED
  BY <1>5, <1>10, <1>11, <1>12, <1>13, <1>14, <1>15 DEF Inv

LEMMA ShutDownForVPCDoneInv ==
    ASSUME Inv, ShutDownForVPCDone
    PROVE  Inv'
<1>1. /\ op \in OpRecord /\ linode \in LinodeRecord /\ op.step \in StepNames
      /\ linode.on \in BOOLEAN /\ linode.job \in Jobs
  BY StepType DEF Inv, LinodeRecord
<1>2. /\ Running /\ op.step = "interface" /\ op.phase = "wait" /\ linode.job = "none"
      /\ config' = config /\ budget' = budget
  BY DEF ShutDownForVPCDone, At, Running, Keep, KeepRest, DiskStep, Busy
<1>3. /\ op' \in OpRecord /\ op'.pc = op.pc /\ op'.step = op.step /\ op'.phase = "call"
      /\ op'.inst = op.inst /\ op'.seen = op.seen /\ op'.reboot = op.reboot
      /\ op'.drift = op.drift /\ op'.pending = op.pending
      /\ op'.size = op.size /\ op'.power = op.power
  BY <1>1, <1>2 DEF ShutDownForVPCDone, Goto, OpRecord, LinodeRecord, Phases
<1>4. PICK job \in Jobs :
         job = linode.job /\ linode' = [linode EXCEPT !.job = job]
  BY <1>1, <1>2 DEF ShutDownForVPCDone, StartJob, LinodeRecord, Jobs, Keep, Busy
<1>5. /\ TypeOK' /\ TodoInv' /\ Upsized' = Upsized
      /\ linode'.job = job /\ linode'.type = linode.type /\ linode'.disk = linode.disk
      /\ linode'.lag = linode.lag /\ linode'.on = linode.on /\ linode'.diff = linode.diff
      /\ linode'.grouped = linode.grouped /\ linode'.current = linode.current
  BY <1>2, <1>3, <1>4, WaitingTyped
<1>10. WorldInv'
  BY <1>2, <1>4, <1>5 DEF Inv, WorldInv
<1>11. WaitInv'
  BY <1>2, <1>3, <1>5 DEF Inv, WaitInv, At, TypeStep
<1>12. JobInv'
  BY <1>2, <1>3, <1>4, <1>5 DEF Inv, JobInv, TypeStep
<1>13. OffInv'
  BY <1>2, <1>3, <1>5 DEF Inv, OffInv, Running, At
<1>14. PowerInv'
  BY <1>2, <1>3, <1>5 DEF Inv, PowerInv, At
<1>15. RebootInv'
  BY <1>2, <1>3, <1>5 DEF Inv, RebootInv, At
<1> QED
  BY <1>5, <1>10, <1>11, <1>12, <1>13, <1>14, <1>15 DEF Inv

LEMMA BootAfterVPCInv ==
    ASSUME Inv, BootAfterVPC
    PROVE  Inv'
<1>1. /\ op \in OpRecord /\ linode \in LinodeRecord /\ op.step \in StepNames
      /\ linode.on \in BOOLEAN /\ linode.job \in Jobs
  BY StepType DEF Inv, LinodeRecord
<1>2. /\ Running /\ op.step = "interface" /\ op.phase = "boot"
      /\ config' = config /\ budget' = budget
  BY DEF BootAfterVPC, At, Running, Keep, KeepRest, DiskStep, Busy
<1>3. /\ op' \in OpRecord /\ op'.pc = op.pc /\ op'.step = op.step /\ op'.phase = "bootWait"
      /\ op'.inst = op.inst /\ op'.seen = op.seen /\ op'.reboot = op.reboot
      /\ op'.drift = op.drift /\ op'.pending = op.pending
      /\ op'.size = op.size /\ op'.power = op.power
  BY <1>1, <1>2 DEF BootAfterVPC, Goto, OpRecord, LinodeRecord, Phases
<1>4. PICK job \in Jobs :
         job = "boot" /\ linode' = [linode EXCEPT !.job = job]
  BY <1>1, <1>2 DEF BootAfterVPC, StartJob, LinodeRecord, Jobs, Keep, Busy
<1>5. /\ TypeOK' /\ TodoInv' /\ Upsized' = Upsized
      /\ linode'.job = job /\ linode'.type = linode.type /\ linode'.disk = linode.disk
      /\ linode'.lag = linode.lag /\ linode'.on = linode.on /\ linode'.diff = linode.diff
      /\ linode'.grouped = linode.grouped /\ linode'.current = linode.current
  BY <1>2, <1>3, <1>4, WaitingTyped
<1>6. ~op.pending => linode.job = "none" /\ ~linode.lag
  BY <1>2, NoJob DEF Busy
<1>10. WorldInv'
  BY <1>2, <1>4, <1>5 DEF Inv, WorldInv
<1>11. WaitInv'
  BY <1>2, <1>3, <1>5 DEF Inv, WaitInv, At, TypeStep
<1>12. JobInv'
  BY <1>2, <1>3, <1>4, <1>5 DEF Inv, JobInv, Running, At
<1>13. OffInv'
  BY <1>2, <1>3, <1>5 DEF Inv, OffInv, At
<1>14. PowerInv'
  BY <1>2, <1>3, <1>5 DEF Inv, PowerInv, At
<1>15. RebootInv'
  BY <1>2, <1>3, <1>5 DEF Inv, RebootInv, At
<1> QED
  BY <1>5, <1>10, <1>11, <1>12, <1>13, <1>14, <1>15 DEF Inv

LEMMA RebootInstanceInv ==
    ASSUME Inv, RebootInstance
    PROVE  Inv'
<1>1. /\ op \in OpRecord /\ linode \in LinodeRecord /\ op.step \in StepNames
      /\ linode.on \in BOOLEAN /\ linode.job \in Jobs
  BY StepType DEF Inv, LinodeRecord
<1>2. /\ Running /\ op.step = "reboot" /\ op.phase = "start"
      /\ config' = config /\ budget' = budget
  BY DEF RebootInstance, At, Running, Keep, KeepRest, DiskStep, Busy
<1>3. /\ op' \in OpRecord /\ op'.pc = op.pc /\ op'.step = op.step /\ op'.phase = "wait"
      /\ op'.inst = op.inst /\ op'.seen = op.seen /\ op'.reboot = op.reboot
      /\ op'.drift = op.drift /\ op'.pending = op.pending
      /\ op'.size = op.size /\ op'.power = op.power
  BY <1>1, <1>2 DEF RebootInstance, Goto, OpRecord, LinodeRecord, Phases
<1>4. PICK job \in Jobs :
         job = "reboot" /\ linode' = [linode EXCEPT !.job = job]
  BY <1>1, <1>2 DEF RebootInstance, StartJob, LinodeRecord, Jobs, Keep, Busy
<1>5. /\ TypeOK' /\ TodoInv' /\ Upsized' = Upsized
      /\ linode'.job = job /\ linode'.type = linode.type /\ linode'.disk = linode.disk
      /\ linode'.lag = linode.lag /\ linode'.on = linode.on /\ linode'.diff = linode.diff
      /\ linode'.grouped = linode.grouped /\ linode'.current = linode.current
  BY <1>2, <1>3, <1>4, WaitingTyped
<1>6. ~op.pending => linode.job = "none" /\ ~linode.lag
  BY <1>2, NoJob DEF Busy
<1>10. WorldInv'
  BY <1>2, <1>4, <1>5 DEF Inv, WorldInv
<1>11. WaitInv'
  BY <1>2, <1>3, <1>5 DEF Inv, WaitInv, At, TypeStep
<1>12. JobInv'
  BY <1>2, <1>3, <1>4, <1>5 DEF Inv, JobInv, Running, At
<1>13. OffInv'
  BY <1>2, <1>3, <1>5 DEF Inv, OffInv, At
<1>14. PowerInv'
  BY <1>2, <1>3, <1>5 DEF Inv, PowerInv, At
<1>15. RebootInv'
  BY <1>2, <1>3, <1>4, <1>5 DEF Inv, RebootInv
<1> QED
  BY <1>5, <1>10, <1>11, <1>12, <1>13, <1>14, <1>15 DEF Inv

LEMMA EnsureOfflineInv ==
    ASSUME Inv, EnsureOffline
    PROVE  Inv'
<1>1. /\ op \in OpRecord /\ linode \in LinodeRecord /\ op.step \in StepNames
      /\ linode.on \in BOOLEAN /\ linode.job \in Jobs
  BY StepType DEF Inv, LinodeRecord
<1>2. /\ Running /\ TypeStep /\ op.phase = "start" /\ DiskFits
      /\ config' = config /\ budget' = budget
  BY DEF EnsureOffline, At, Running, Keep, KeepRest, DiskStep, Busy
<1>3. /\ op' \in OpRecord /\ op'.pc = op.pc /\ op'.step = op.step /\ op'.phase \in {"call", "offline"}
      /\ op'.inst = op.inst /\ op'.seen = op.seen /\ op'.reboot = op.reboot
      /\ op'.drift = op.drift /\ op'.pending = op.pending
      /\ op'.size = op.size /\ op'.power = op.power
  BY <1>1, <1>2 DEF EnsureOffline, Goto, OpRecord, LinodeRecord, Phases
<1>4. PICK job \in Jobs :
         /\ job = linode.job \/ (linode.job = "none" /\ job = "shutdown" /\ op'.phase = "offline")
         /\ op'.phase = "call" => Status = "offline"
         /\ linode' = [linode EXCEPT !.job = job]
  <2>1. linode = [linode EXCEPT !.job = linode.job]
    BY <1>1 DEF LinodeRecord
  <2>2. [linode EXCEPT !.job = "shutdown"].job = "shutdown" /\ "shutdown" \in Jobs
    BY <1>1 DEF LinodeRecord, Jobs
  <2>3. CASE UNCHANGED linode /\ op'.phase = "call" /\ Status = "offline"
    BY <1>1, <2>1, <2>3
  <2>4. CASE UNCHANGED linode /\ op'.phase = "offline"
    BY <1>1, <2>1, <2>4
  <2>5. CASE StartJob("shutdown") /\ op'.phase = "offline"
    BY <1>1, <2>2, <2>5, Zenon DEF StartJob, Busy
  <2>6. \/ UNCHANGED linode /\ op'.phase = "call" /\ Status = "offline"
        \/ UNCHANGED linode /\ op'.phase = "offline"
        \/ StartJob("shutdown") /\ op'.phase = "offline"
    BY <1>1 DEF EnsureOffline, Goto, OpRecord
  <2> QED
    BY <2>3, <2>4, <2>5, <2>6
<1>5. /\ TypeOK' /\ TodoInv' /\ Upsized' = Upsized
      /\ linode'.job = job /\ linode'.type = linode.type /\ linode'.disk = linode.disk
      /\ linode'.lag = linode.lag /\ linode'.on = linode.on /\ linode'.diff = linode.diff
      /\ linode'.grouped = linode.grouped /\ linode'.current = linode.current
  BY <1>2, <1>3, <1>4, WaitingTyped
<1>6. ~op.pending => linode.job = "none" /\ ~linode.lag
  BY <1>2, NoJob DEF Busy
<1>7. op'.phase = "call" => ~linode.on
  BY <1>1, <1>4, <1>5 DEF Status, Power, Jobs
<1>8. ~op.pending => linode.disk <= Capacity[config.type]
  <2>1. CASE op.step = "upsize"
    <3>1. Capacity[config.type] > Capacity[op.seen.type]
      BY <1>2, <2>1 DEF Inv, TodoInv, Applies, Upsized
    <3> QED
      BY <1>1, <1>2, <3>1, StepType DEF Inv, WorldInv, WaitInv, OpRecord, LinodeRecord, ConfigRecord
  <2>2. CASE op.step = "downsize" /\ config.explicit
    <3>1. ~Missing("disk")
      BY <1>2, <2>2, Orders DEF Inv, TodoInv, StepNames
    <3> QED
      BY <1>2, <2>2, <3>1 DEF Missing, DiskFits, PlannedDisk
  <2>3. CASE op.step = "downsize" /\ ~config.explicit
    <3>1. ~Upsized
      BY <1>2, <2>3 DEF Inv, TodoInv, Applies, Downsized
    <3>2. ~op.pending => linode.disk = op.seen.disk
      BY <1>2, <2>3, <3>1, Orders DEF Inv, JobInv, TypeStep
    <3> QED
      BY <1>2, <2>3, <3>2 DEF DiskFits, PlannedDisk
  <2> QED
    BY <1>2, <2>1, <2>2, <2>3 DEF TypeStep
<1>9. ~(config.explicit /\ config.resize_disk)
  BY <1>2 DEF DiskFits
<1>10. WorldInv'
  BY <1>2, <1>4, <1>5 DEF Inv, WorldInv
<1>11. WaitInv'
  BY <1>2, <1>3, <1>5, <1>9 DEF Inv, WaitInv, At, TypeStep
<1>12. JobInv'
  BY <1>2, <1>3, <1>4, <1>5, <1>6, <1>8 DEF Inv, JobInv
<1>13. OffInv'
  BY <1>2, <1>3, <1>5, <1>7 DEF Inv, OffInv, At
<1>14. PowerInv'
  BY <1>2, <1>3, <1>5 DEF Inv, PowerInv, At, TypeStep
<1>15. RebootInv'
  BY <1>2, <1>3, <1>5 DEF Inv, RebootInv, At
<1> QED
  BY <1>5, <1>10, <1>11, <1>12, <1>13, <1>14, <1>15 DEF Inv

LEMMA DecidePowerOnInv ==
    ASSUME Inv, DecidePowerOn
    PROVE  Inv'
<1>1. /\ op \in OpRecord /\ linode \in LinodeRecord /\ op.step \in StepNames
      /\ linode.on \in BOOLEAN /\ linode.job \in Jobs
  BY StepType DEF Inv, LinodeRecord
<1>2. /\ Running /\ op.step = "interface" /\ op.phase = "start"
      /\ config' = config /\ budget' = budget
  BY DEF DecidePowerOn, At, Running, Keep
<1>3. /\ op' \in OpRecord /\ op'.pc = op.pc /\ op'.step = op.step
      /\ op'.phase \in {"settle", "call"} /\ (op'.phase = "call" => ~config.vpc)
      /\ op'.inst = op.inst /\ op'.seen = op.seen /\ op'.reboot = op.reboot
      /\ op'.drift = op.drift /\ op'.pending = op.pending
      /\ op'.size = op.size /\ (op'.power => config.vpc)
  BY <1>1, <1>2, ZenonT(30) DEF DecidePowerOn, OpRecord, Phases
<1>4. PICK job \in Jobs : job = linode.job /\ linode' = [linode EXCEPT !.job = job]
  BY <1>1, <1>2 DEF DecidePowerOn, LinodeRecord, Keep
<1>5. /\ TypeOK' /\ TodoInv' /\ Upsized' = Upsized
      /\ linode'.job = job /\ linode'.type = linode.type /\ linode'.disk = linode.disk
      /\ linode'.lag = linode.lag /\ linode'.on = linode.on /\ linode'.diff = linode.diff
      /\ linode'.grouped = linode.grouped /\ linode'.current = linode.current
  BY <1>2, <1>3, <1>4, WaitingTyped
<1>6. ~op.pending => linode.job = "none" /\ ~linode.lag
  BY <1>2, NoJob DEF Busy
<1>10. WorldInv'
  BY <1>2, <1>4, <1>5 DEF Inv, WorldInv
<1>11. WaitInv'
  BY <1>2, <1>3, <1>5 DEF Inv, WaitInv, At, TypeStep
<1>12. JobInv'
  BY <1>2, <1>3, <1>4, <1>5, <1>6 DEF Inv, JobInv, Running, TypeStep
<1>13. OffInv'
  BY <1>2, <1>3, <1>5 DEF Inv, OffInv, At, TypeStep
<1>14. PowerInv'
  BY <1>2, <1>3, <1>5 DEF Inv, PowerInv, At
<1>15. RebootInv'
  BY <1>2, <1>3, <1>5 DEF Inv, RebootInv, At
<1> QED
  BY <1>5, <1>10, <1>11, <1>12, <1>13, <1>14, <1>15 DEF Inv

LEMMA ShutDownForVPCInv ==
    ASSUME Inv, ShutDownForVPC
    PROVE  Inv'
<1>1. /\ op \in OpRecord /\ linode \in LinodeRecord /\ op.step \in StepNames
      /\ linode.on \in BOOLEAN /\ linode.job \in Jobs
  BY StepType DEF Inv, LinodeRecord
<1>2. /\ Running /\ op.step = "interface" /\ op.phase = "settle"
      /\ config' = config /\ budget' = budget
  BY DEF ShutDownForVPC, At, Running, Keep, KeepRest, DiskStep, Busy
<1>. DEFINE running == Status = "running"
<1>3. /\ op' \in OpRecord /\ op'.pc = op.pc /\ op'.step = op.step
      /\ op'.phase = (IF running THEN "wait" ELSE "call")
      /\ op'.inst = op.inst /\ op'.seen = op.seen /\ op'.reboot = op.reboot
      /\ op'.drift = op.drift /\ op'.pending = op.pending
      /\ op'.size = op.size /\ op'.power = op.power
  <2>1. op' = [op EXCEPT !.phase = IF running THEN "wait" ELSE "call"]
    <3>1. CASE running
      BY <3>1 DEF ShutDownForVPC, Goto
    <3>2. CASE ~running
      BY <3>2 DEF ShutDownForVPC, Goto
    <3> QED
      BY <3>1, <3>2
  <2>. HIDE DEF running
  <2> QED
    BY <1>1, <2>1 DEF OpRecord, Phases
<1>4. PICK job \in Jobs :
         /\ job = linode.job \/ job = "shutdown"
         /\ op'.phase = "wait" => job = "shutdown"
         /\ op'.phase = "call" => job = linode.job /\ Status = "offline"
         /\ linode' = [linode EXCEPT !.job = job]
  <2>1. CASE running
    <3>1. linode' = [linode EXCEPT !.job = "shutdown"]
      BY <2>1 DEF ShutDownForVPC, StartJob
    <3> QED
      BY <1>3, <2>1, <3>1 DEF Jobs
  <2>2. CASE ~running
    <3>1. linode' = linode /\ Status = "offline"
      BY <2>2 DEF ShutDownForVPC
    <3>2. linode = [linode EXCEPT !.job = linode.job]
      BY <1>1 DEF LinodeRecord
    <3> QED
      BY <1>1, <1>3, <2>2, <3>1, <3>2
  <2> QED
    BY <2>1, <2>2
<1>30. op'.phase \in {"wait", "call"}
  BY <1>3
<1>. HIDE DEF running
<1>5. /\ TypeOK' /\ TodoInv' /\ Upsized' = Upsized
      /\ linode'.job = job /\ linode'.type = linode.type /\ linode'.disk = linode.disk
      /\ linode'.lag = linode.lag /\ linode'.on = linode.on /\ linode'.diff = linode.diff
      /\ linode'.grouped = linode.grouped /\ linode'.current = linode.current
  BY <1>2, <1>3, <1>4, WaitingTyped
<1>6. ~op.pending => linode.job = "none" /\ ~linode.lag
  BY <1>1, <1>2, NoJob DEF Inv, JobInv, TypeStep, Busy
<1>7. op'.phase = "call" => ~linode.on
  BY <1>1, <1>4 DEF Status, Power, Jobs
<1>10. WorldInv'
  BY <1>2, <1>4, <1>5 DEF Inv, WorldInv
<1>11. WaitInv'
  BY <1>2, <1>3, <1>5 DEF Inv, WaitInv, At, TypeStep
<1>12. JobInv'
  BY <1>2, <1>3, <1>4, <1>5 DEF Inv, JobInv, Running, At, TypeStep
<1>13. OffInv'
  BY <1>2, <1>3, <1>4, <1>5, <1>7 DEF Inv, OffInv, At, TypeStep
<1>14. PowerInv'
  BY <1>2, <1>3, <1>5 DEF Inv, PowerInv, At
<1>15. RebootInv'
  BY <1>2, <1>3, <1>5 DEF Inv, RebootInv, At
<1> QED
  BY <1>5, <1>10, <1>11, <1>12, <1>13, <1>14, <1>15 DEF Inv

LEMMA HandleBootedOnInv ==
    ASSUME Inv, At("booted", "start"), Status = "offline", config.booted = "true",
           StartJob("boot"), Goto("wait"), KeepRest
    PROVE  Inv'
<1>1. /\ op \in OpRecord /\ linode \in LinodeRecord /\ op.step \in StepNames
      /\ linode.on \in BOOLEAN /\ linode.job \in Jobs
  BY StepType DEF Inv, LinodeRecord
<1>2. /\ Running /\ op.step = "booted" /\ op.phase = "start"
      /\ config' = config /\ budget' = budget
  BY DEF At, Running, Keep, KeepRest, DiskStep, Busy
<1>3. /\ op' \in OpRecord /\ op'.pc = op.pc /\ op'.step = op.step /\ op'.phase = "wait"
      /\ op'.inst = op.inst /\ op'.seen = op.seen /\ op'.reboot = op.reboot
      /\ op'.drift = op.drift /\ op'.pending = op.pending
      /\ op'.size = op.size /\ op'.power = op.power
  BY <1>1, <1>2 DEF At, Goto, OpRecord, LinodeRecord, Phases
<1>4. PICK job \in Jobs :
         job = "boot" /\ linode' = [linode EXCEPT !.job = job]
  BY <1>1, <1>2 DEF StartJob, LinodeRecord, Jobs, Keep, Busy
<1>5. /\ TypeOK' /\ TodoInv' /\ Upsized' = Upsized
      /\ linode'.job = job /\ linode'.type = linode.type /\ linode'.disk = linode.disk
      /\ linode'.lag = linode.lag /\ linode'.on = linode.on /\ linode'.diff = linode.diff
      /\ linode'.grouped = linode.grouped /\ linode'.current = linode.current
  BY <1>2, <1>3, <1>4, WaitingTyped
<1>6. ~op.pending => linode.job = "none" /\ ~linode.lag
  BY <1>2, NoJob DEF Busy
<1>10. WorldInv'
  BY <1>2, <1>4, <1>5 DEF Inv, WorldInv
<1>11. WaitInv'
  BY <1>2, <1>3, <1>5 DEF Inv, WaitInv, At, TypeStep
<1>12. JobInv'
  BY <1>2, <1>3, <1>4, <1>5 DEF Inv, JobInv, At
<1>13. OffInv'
  BY <1>2, <1>3, <1>5 DEF Inv, OffInv, At
<1>14. PowerInv'
  BY <1>2, <1>3, <1>4, <1>5 DEF Inv, PowerInv
<1>15. RebootInv'
  BY <1>2, <1>3, <1>5 DEF Inv, RebootInv, At
<1> QED
  BY <1>5, <1>10, <1>11, <1>12, <1>13, <1>14, <1>15 DEF Inv

LEMMA HandleBootedOffInv ==
    ASSUME Inv, At("booted", "start"), Status = "running", config.booted = "false",
           StartJob("shutdown"), Goto("wait"), KeepRest
    PROVE  Inv'
<1>1. /\ op \in OpRecord /\ linode \in LinodeRecord /\ op.step \in StepNames
      /\ linode.on \in BOOLEAN /\ linode.job \in Jobs
  BY StepType DEF Inv, LinodeRecord
<1>2. /\ Running /\ op.step = "booted" /\ op.phase = "start"
      /\ config' = config /\ budget' = budget
  BY DEF At, Running, Keep, KeepRest, DiskStep, Busy
<1>3. /\ op' \in OpRecord /\ op'.pc = op.pc /\ op'.step = op.step /\ op'.phase = "wait"
      /\ op'.inst = op.inst /\ op'.seen = op.seen /\ op'.reboot = op.reboot
      /\ op'.drift = op.drift /\ op'.pending = op.pending
      /\ op'.size = op.size /\ op'.power = op.power
  BY <1>1, <1>2 DEF At, Goto, OpRecord, LinodeRecord, Phases
<1>4. PICK job \in Jobs :
         job = "shutdown" /\ linode' = [linode EXCEPT !.job = job]
  BY <1>1, <1>2 DEF StartJob, LinodeRecord, Jobs, Keep, Busy
<1>5. /\ TypeOK' /\ TodoInv' /\ Upsized' = Upsized
      /\ linode'.job = job /\ linode'.type = linode.type /\ linode'.disk = linode.disk
      /\ linode'.lag = linode.lag /\ linode'.on = linode.on /\ linode'.diff = linode.diff
      /\ linode'.grouped = linode.grouped /\ linode'.current = linode.current
  BY <1>2, <1>3, <1>4, WaitingTyped
<1>6. ~op.pending => linode.job = "none" /\ ~linode.lag
  BY <1>2, NoJob DEF Busy
<1>10. WorldInv'
  BY <1>2, <1>4, <1>5 DEF Inv, WorldInv
<1>11. WaitInv'
  BY <1>2, <1>3, <1>5 DEF Inv, WaitInv, At, TypeStep
<1>12. JobInv'
  BY <1>2, <1>3, <1>4, <1>5 DEF Inv, JobInv, At
<1>13. OffInv'
  BY <1>2, <1>3, <1>5 DEF Inv, OffInv, At
<1>14. PowerInv'
  BY <1>2, <1>3, <1>4, <1>5 DEF Inv, PowerInv
<1>15. RebootInv'
  BY <1>2, <1>5 DEF Inv, RebootInv
<1> QED
  BY <1>5, <1>10, <1>11, <1>12, <1>13, <1>14, <1>15 DEF Inv

LEMMA HandleBootedInv ==
    ASSUME Inv, HandleBooted
    PROVE  Inv'
<1>1. CASE Status = "offline" /\ config.booted = "true" /\ StartJob("boot") /\ Goto("wait")
  BY <1>1, HandleBootedOnInv DEF HandleBooted
<1>2. CASE Status = "running" /\ config.booted = "false" /\ StartJob("shutdown") /\ Goto("wait")
  BY <1>2, HandleBootedOffInv DEF HandleBooted
<1>3. CASE /\ Status = IF config.booted = "true" THEN "running" ELSE "offline"
           /\ Proceed(op.inst, op.reboot) /\ UNCHANGED linode
  <2>1. Running /\ op.step = "booted" /\ op.phase = "start" /\ Keep
    BY <1>3 DEF HandleBooted, At, Running, Keep, KeepRest
  <2>2. linode.on \in BOOLEAN /\ linode.job \in Jobs /\ op.reboot \in BOOLEAN
    BY StepType DEF Inv, LinodeRecord, OpRecord
  <2>3. ~Missing(op.step)
    BY <2>1 DEF Missing
  <2>4. ~op.pending => ~Busy /\ ~linode.lag
    BY <2>1, NoJob
  <2>5. linode.job \in {"none", "disk"} /\ Status = Power(linode.on)
    BY <1>3, <2>2 DEF Status, Jobs
  <2>6. linode.on = (config.booted = "true")
    BY <1>3, <2>2, <2>5 DEF Power
  <2> QED
    BY <1>3, <2>1, <2>2, <2>3, <2>4, <2>5, <2>6, KeepStepInv
<1> QED
  BY <1>1, <1>2, <1>3 DEF HandleBooted

LEMMA UpdateInterfacesInv ==
    ASSUME Inv, UpdateInterfaces
    PROVE  Inv'
<1>1. /\ op \in OpRecord /\ linode \in LinodeRecord /\ op.step \in StepNames
      /\ linode.on \in BOOLEAN /\ linode.job \in Jobs /\ linode.current \in BOOLEAN
      /\ config \in ConfigRecord
      /\ op.inst \in [status : StatusSet, type : Types]
  BY StepType DEF Inv, LinodeRecord
<1>2. /\ Running /\ op.step = "interface" /\ op.phase = "call"
      /\ config.vpc => ~linode.on
      /\ config' = config /\ budget' = budget
  BY DEF UpdateInterfaces, At, Running, KeepRest
<1>3. /\ linode' \in LinodeRecord /\ linode'.job = linode.job /\ linode'.type = linode.type
      /\ linode'.disk = linode.disk /\ linode'.lag = linode.lag /\ linode'.on = linode.on
      /\ linode'.diff = linode.diff \ {"interface"} /\ linode'.grouped = linode.grouped
      /\ linode'.current = (linode.current /\ ~linode.on)
  BY <1>1 DEF UpdateInterfaces, LinodeRecord
<1>4. ~op.pending => ~Busy /\ ~linode.lag
  BY <1>2, NoJob
<1>5. /\ "placement_group" \in linode'.diff => linode'.grouped \/ config.group
      /\ linode'.on \/ linode'.current
      /\ config.vpc => linode'.current
  BY <1>1, <1>2, <1>3 DEF Inv, WorldInv
<1>6. op'.seen = op.seen
  BY <1>1 DEF UpdateInterfaces, Proceed, OpRecord
<1>7. \A s \in StepNames : Missing(s)' => Missing(s) /\ s # op.step
  BY <1>2, <1>3, <1>6 DEF Missing, Upsized
<1>8. CASE op.power
  <2>1. /\ op' \in OpRecord /\ op'.pc = op.pc /\ op'.step = op.step /\ op'.phase = "boot"
        /\ op'.inst = op.inst /\ op'.reboot = FALSE /\ op'.size = op.size
        /\ op'.power = op.power /\ op'.drift = op.drift /\ op'.pending = op.pending
    BY <1>1, <1>8, ZenonT(30) DEF UpdateInterfaces, OpRecord, Phases
  <2>2. TypeOK'
    BY <1>2, <1>3, <2>1 DEF Inv, TypeOK
  <2>3. ASSUME NEW s \in StepNames, Missing(s)'
        PROVE  (Order(op.step) <= Order(s) /\ Applies(s, op.reboot))'
    <3>1. Order(op.step) <= Order(s) /\ Applies(s, op.reboot)
      BY <1>2, <1>7, <2>3 DEF Inv, TodoInv
    <3>2. Applies(s, FALSE)
      BY <2>3, <3>1 DEF Applies, Missing
    <3> QED
      BY <1>2, <1>6, <2>1, <3>1, <3>2, SameApplies
  <2>4. Applies(op.step, op.reboot)'
    <3>1. Applies(op.step, FALSE)
      BY <1>2 DEF Inv, TodoInv, Applies
    <3> QED
      BY <1>2, <1>6, <2>1, <3>1, SameApplies
  <2>5. TodoInv'
    BY <2>3, <2>4 DEF TodoInv
  <2>6. config.vpc
    BY <1>2, <1>8 DEF Inv, WaitInv
  <2>7. WorldInv'
    BY <1>2, <1>3, <1>5 DEF Inv, WorldInv
  <2>8. WaitInv'
    BY <1>2, <1>3, <1>6, <2>1, <2>6 DEF Inv, WaitInv, Running, At, TypeStep
  <2>9. Upsized' = Upsized
    BY <1>2, <1>6 DEF Upsized
  <2>10. JobInv'
    BY <1>2, <1>3, <1>4, <1>6, <2>1, <2>9 DEF Inv, JobInv, Running, At, TypeStep, Busy
  <2>11. OffInv' /\ PowerInv'
    BY <1>2, <1>3, <2>1 DEF OffInv, PowerInv, Running, At, TypeStep
  <2>12. RebootInv'
    BY <1>5, <2>6 DEF RebootInv
  <2> QED
    BY <2>2, <2>5, <2>7, <2>8, <2>10, <2>11, <2>12 DEF Inv
<1>9. CASE ~op.power
  <2>1. Proceed(op.inst, ~config.vpc)
    BY <1>9 DEF UpdateInterfaces
  <2>2. (~config.vpc) \in BOOLEAN /\ (~linode'.current => ~config.vpc)
    BY <1>1, <1>5 DEF ConfigRecord
  <2>3. Order(op.step) < Order("reboot")
    BY <1>2, Orders
  <2> QED
    BY <1>1, <1>2, <1>3, <1>4, <1>5, <1>7, <2>1, <2>2, <2>3, ProceedInv
<1> QED
  BY <1>8, <1>9

-----------------------------------------------------------------------------
(* The other steps. *)

LEMMA ReturnsInv ==
    ASSUME Inv, PlanNothing \/ RemovePrivateIPRejected \/ TypeRejected \/ DiskRejected
                \/ InterfaceRejected \/ ReadResource \/ StepFails
    PROVE  Inv'
<1>1. budget \in [failures : 0 .. MaxFailures, edits : 0 .. MaxInterference]
  BY DEF Inv, TypeOK
<1>2. CASE ~StepFails
  <2>1. Keep /\ (Return("ok") \/ Return("error"))
    BY <1>2 DEF PlanNothing, RemovePrivateIPRejected, TypeRejected, DiskRejected,
                InterfaceRejected, ReadResource
  <2> QED
    BY <1>1, <2>1, ReturnInv DEF Keep
<1>3. CASE StepFails
  <2>1. budget' \in [failures : 0 .. MaxFailures, edits : 0 .. MaxInterference]
    BY <1>1, <1>3, InstanceUpdateAssumption DEF StepFails, InstanceUpdateAssumption
  <2> QED
    BY <1>3, <2>1, ReturnInv DEF StepFails
<1> QED
  BY <1>2, <1>3

LEMMA PlanUpdateInv ==
    ASSUME Inv, PlanUpdate
    PROVE  Inv'
<1>1. op \in OpRecord /\ linode \in LinodeRecord /\ linode.type \in Types
  BY StepType DEF Inv, LinodeRecord
<1>2. linode' = linode /\ config' = config /\ budget' = budget
  BY DEF PlanUpdate, Keep
<1>3. /\ op' \in OpRecord /\ op'.pc = "update" /\ op'.step = "get" /\ op'.phase = "start"
      /\ op'.seen = linode /\ op'.reboot = FALSE /\ op'.drift = FALSE
      /\ op'.pending = (Busy \/ linode.lag)
  <2>1. (Busy \/ linode.lag) \in BOOLEAN
    BY <1>1 DEF Busy, LinodeRecord
  <2>2. "get" \in {Steps[i] : i \in DOMAIN Steps} /\ "start" \in Phases
    BY OrderedSteps DEF StepNames, Phases
  <2> QED
    BY <1>1, <2>1, <2>2 DEF PlanUpdate, OpRecord
<1>4. TypeOK' /\ WorldInv'
  BY <1>2, <1>3 DEF Inv, TypeOK, WorldInv
<1>5. ASSUME NEW s \in StepNames, Missing(s)'
      PROVE  (Order(op.step) <= Order(s) /\ Applies(s, op.reboot))'
  <2>1. /\ "placement_group" \in linode.diff => linode.grouped \/ config.group
        /\ linode'.diff = linode.diff /\ linode'.type = linode.type
    BY <1>2 DEF Inv, WorldInv
  <2>2. Applies(s, op.reboot)'
    BY <1>2, <1>3, <1>5, <2>1 DEF Applies, Missing, HasChange, Upsized, Downsized
  <2>3. Order("get") <= Order(s)
    BY OrderedSteps, FirstStep
  <2> QED
    BY <1>3, <2>2, <2>3
<1>6. TodoInv'
  BY <1>3, <1>5 DEF TodoInv, Applies
<1>7. WaitInv'
  BY <1>2, <1>3 DEF WaitInv, At, TypeStep
<1>8. JobInv'
  BY <1>2, <1>3 DEF JobInv, At, TypeStep, Busy
<1>9. OffInv' /\ PowerInv' /\ RebootInv'
  BY <1>2, <1>3 DEF OffInv, PowerInv, RebootInv, At
<1> QED
  BY <1>4, <1>6, <1>7, <1>8, <1>9 DEF Inv

\* What the API does by itself leaves the update where it is.
LEMMA WorldMoves ==
    ASSUME Inv, op' = op, config' = config, budget' = budget, linode' \in LinodeRecord,
           WorldInv', linode'.type \in {linode.type, config.type},
           \A s \in StepNames : Missing(s)' => Missing(s)
    PROVE  TypeOK' /\ TodoInv' /\ Upsized' = Upsized
<1>1. TypeOK'
  BY DEF Inv, TypeOK
<1>2. TodoInv'
  BY SameApplies DEF Inv, TodoInv, Running
<1> QED
  BY <1>1, <1>2 DEF Upsized

LEMMA DiskCatchesUpInv ==
    ASSUME Inv, DiskCatchesUp
    PROVE  Inv'
<1>1. /\ op \in OpRecord /\ linode \in LinodeRecord /\ config \in ConfigRecord
      /\ linode.type \in Types /\ config.type \in Types /\ Capacity[linode.type] \in Nat
  BY StepType DEF Inv, LinodeRecord, ConfigRecord
<1>2. op' = op /\ config' = config /\ budget' = budget /\ linode.lag
  BY DEF DiskCatchesUp
<1>3. /\ linode' \in LinodeRecord /\ linode'.job = linode.job /\ linode'.type = linode.type
      /\ linode'.disk = Capacity[linode.type] /\ linode'.lag = FALSE /\ linode'.on = linode.on
      /\ linode'.diff = linode.diff /\ linode'.grouped = linode.grouped
      /\ linode'.current = linode.current
  BY <1>1 DEF DiskCatchesUp, LinodeRecord
<1>4. linode.type = config.type /\ ~config.explicit
  BY <1>2 DEF Inv, WorldInv
<1>5. WorldInv'
  BY <1>1, <1>2, <1>3, <1>4 DEF Inv, WorldInv
<1>6. \A s \in StepNames : Missing(s)' => Missing(s)
  BY <1>2, <1>3, <1>4 DEF Missing, Upsized
<1>7. TypeOK' /\ TodoInv' /\ Upsized' = Upsized
  BY <1>2, <1>3, <1>5, <1>6, WorldMoves
<1>8. WaitInv'
  BY <1>2, <1>3 DEF Inv, WaitInv, Running, At, TypeStep
<1>9. JobInv'
  BY <1>2, <1>3, <1>4, <1>7 DEF Inv, JobInv, Running, At, TypeStep
<1>10. OffInv' /\ PowerInv' /\ RebootInv'
  BY <1>2, <1>3 DEF Inv, OffInv, PowerInv, RebootInv, Running, At, TypeStep, Busy
<1> QED
  BY <1>5, <1>7, <1>8, <1>9, <1>10 DEF Inv

LEMMA PowerElsewhereInv ==
    ASSUME Inv, PowerElsewhere
    PROVE  Inv'
<1>1. /\ op \in OpRecord /\ linode \in LinodeRecord /\ config' = config
      /\ linode.job = "none"
  BY StepType DEF Inv, PowerElsewhere, Busy
<1>2. /\ op' \in OpRecord /\ op'.pc = op.pc /\ op'.step = op.step /\ op'.phase = op.phase
      /\ op'.inst = op.inst /\ op'.seen = op.seen /\ op'.reboot = op.reboot
      /\ op'.size = op.size /\ op'.power = op.power /\ op'.drift = TRUE
      /\ op'.pending = op.pending
  BY <1>1 DEF PowerElsewhere, OpRecord
<1>3. /\ linode' \in LinodeRecord /\ linode'.job = linode.job /\ linode'.type = linode.type
      /\ linode'.disk = linode.disk /\ linode'.lag = linode.lag
      /\ linode'.diff = linode.diff /\ linode'.grouped = linode.grouped
      /\ linode'.current = TRUE
  BY <1>1 DEF PowerElsewhere, LinodeRecord
<1>4. TypeOK'
  BY <1>1, <1>2, <1>3, InstanceUpdateAssumption
     DEF Inv, TypeOK, PowerElsewhere, InstanceUpdateAssumption
<1>5. WorldInv'
  BY <1>1, <1>3 DEF Inv, WorldInv
<1>6. TodoInv'
  <2>1. \A s \in StepNames : Missing(s)' => Missing(s)
    BY <1>1, <1>2, <1>3 DEF Missing, Upsized
  <2> QED
    BY <1>1, <1>2, <2>1, SameApplies DEF Inv, TodoInv, Running
<1>7. WaitInv'
  BY <1>1, <1>2, <1>3 DEF Inv, WaitInv, Running, At, TypeStep
<1>8. JobInv'
  BY <1>1, <1>2, <1>3 DEF Inv, JobInv, Running, At, TypeStep, Upsized
<1>9. OffInv' /\ PowerInv' /\ RebootInv'
  BY <1>2, <1>3 DEF OffInv, PowerInv, RebootInv
<1> QED
  BY <1>4, <1>5, <1>6, <1>7, <1>8, <1>9 DEF Inv

LEMMA JobFinishesInv ==
    ASSUME Inv, JobFinishes
    PROVE  Inv'
<1>1. /\ op \in OpRecord /\ linode \in LinodeRecord /\ config \in ConfigRecord
      /\ linode.job \in Jobs /\ linode.job # "none" /\ op.step \in StepNames
      /\ linode.type \in Types /\ config.type \in Types
      /\ op' = op /\ config' = config /\ budget' = budget
  BY StepType DEF Inv, LinodeRecord, ConfigRecord, JobFinishes, Busy
<1>2. CASE linode.job \in {"boot", "reboot"}
  <2>1. /\ linode' \in LinodeRecord /\ linode'.job = "none" /\ linode'.type = linode.type
        /\ linode'.disk = linode.disk /\ linode'.lag = linode.lag /\ linode'.on = TRUE
        /\ linode'.diff = linode.diff /\ linode'.grouped = linode.grouped
        /\ linode'.current = TRUE
    BY <1>1, <1>2 DEF JobFinishes, JobDone, LinodeRecord, ConfigRecord, Jobs
  <2>2. WorldInv'
    BY <1>1, <1>2, <2>1 DEF Inv, WorldInv
  <2>3. \A s \in StepNames : Missing(s)' => Missing(s)
    BY <1>1, <2>1 DEF Missing, Upsized
  <2>4. TypeOK' /\ TodoInv' /\ Upsized' = Upsized
    BY <1>1, <2>1, <2>2, <2>3, WorldMoves
  <2>5. WaitInv'
    BY <1>1, <1>2, <2>1 DEF Inv, WaitInv, Running, At, TypeStep
  <2>6. JobInv'
    BY <1>1, <1>2, <2>1, <2>4 DEF Inv, JobInv, Running, At, TypeStep
  <2>7. OffInv'
    BY <1>1, <1>2, <2>1 DEF Inv, OffInv, JobInv, Running, At, TypeStep
  <2>8. PowerInv'
    BY <1>1, <1>2, <2>1 DEF Inv, PowerInv, Running, At, Busy
  <2>9. RebootInv'
    BY <1>1, <1>2, <2>1 DEF Inv, RebootInv, Running, At
  <2> QED
    BY <2>2, <2>4, <2>5, <2>6, <2>7, <2>8, <2>9 DEF Inv
<1>3. CASE linode.job = "shutdown"
  <2>1. /\ linode' \in LinodeRecord /\ linode'.job = "none" /\ linode'.type = linode.type
        /\ linode'.disk = linode.disk /\ linode'.lag = linode.lag /\ linode'.on = FALSE
        /\ linode'.diff = linode.diff /\ linode'.grouped = linode.grouped
        /\ linode'.current = TRUE
    BY <1>1, <1>3 DEF JobFinishes, JobDone, LinodeRecord, ConfigRecord, Jobs
  <2>2. WorldInv'
    BY <1>1, <1>3, <2>1 DEF Inv, WorldInv
  <2>3. \A s \in StepNames : Missing(s)' => Missing(s)
    BY <1>1, <2>1 DEF Missing, Upsized
  <2>4. TypeOK' /\ TodoInv' /\ Upsized' = Upsized
    BY <1>1, <2>1, <2>2, <2>3, WorldMoves
  <2>5. WaitInv'
    BY <1>1, <1>3, <2>1 DEF Inv, WaitInv, Running, At, TypeStep
  <2>6. JobInv'
    BY <1>1, <1>3, <2>1, <2>4 DEF Inv, JobInv, Running, At, TypeStep
  <2>7. OffInv'
    BY <1>1, <1>3, <2>1 DEF Inv, OffInv, JobInv, Running, At, TypeStep
  <2>8. PowerInv'
    BY <1>1, <1>3, <2>1 DEF Inv, PowerInv, Running, At, Busy
  <2>9. RebootInv'
    BY <1>1, <1>3, <2>1 DEF Inv, RebootInv, Running, At
  <2> QED
    BY <2>2, <2>4, <2>5, <2>6, <2>7, <2>8, <2>9 DEF Inv
<1>4. CASE linode.job = "resize"
  <2>1. /\ linode' \in LinodeRecord /\ linode'.job = "none" /\ linode'.type = config.type
        /\ linode'.disk = linode.disk /\ linode'.lag = config.resize_disk /\ linode'.on = FALSE
        /\ linode'.diff = linode.diff /\ linode'.grouped = linode.grouped
        /\ linode'.current = TRUE
    BY <1>1, <1>4 DEF JobFinishes, JobDone, LinodeRecord, ConfigRecord, Jobs
  <2>2. WorldInv'
    BY <1>1, <1>4, <2>1 DEF Inv, WorldInv
  <2>3. \A s \in StepNames : Missing(s)' => Missing(s)
    BY <1>1, <2>1 DEF Missing, Upsized
  <2>4. TypeOK' /\ TodoInv' /\ Upsized' = Upsized
    BY <1>1, <2>1, <2>2, <2>3, WorldMoves
  <2>5. WaitInv'
    BY <1>1, <1>4, <2>1 DEF Inv, WaitInv, Running, At, TypeStep
  <2>6. JobInv'
    BY <1>1, <1>4, <2>1, <2>4 DEF Inv, JobInv, Running, At, TypeStep
  <2>7. OffInv'
    BY <1>1, <1>4, <2>1 DEF Inv, OffInv, JobInv, Running, At, TypeStep
  <2>8. PowerInv'
    BY <1>1, <1>4, <2>1 DEF Inv, PowerInv, Running, At, Busy
  <2>9. RebootInv'
    BY <1>1, <1>4, <2>1 DEF Inv, RebootInv, Running, At
  <2> QED
    BY <2>2, <2>4, <2>5, <2>6, <2>7, <2>8, <2>9 DEF Inv
<1>5. CASE linode.job = "disk"
  <2>1. /\ linode' \in LinodeRecord /\ linode'.job = "none" /\ linode'.type = linode.type
        /\ linode'.disk = config.disk /\ linode'.lag = linode.lag /\ linode'.on = linode.on
        /\ linode'.diff = linode.diff /\ linode'.grouped = linode.grouped
        /\ linode'.current = linode.current
    BY <1>1, <1>5 DEF JobFinishes, JobDone, LinodeRecord, ConfigRecord, Jobs
  <2>2. WorldInv'
    BY <1>1, <1>5, <2>1 DEF Inv, WorldInv
  <2>3. \A s \in StepNames : Missing(s)' => Missing(s)
    BY <1>1, <2>1 DEF Missing, Upsized
  <2>4. TypeOK' /\ TodoInv' /\ Upsized' = Upsized
    BY <1>1, <2>1, <2>2, <2>3, WorldMoves
  <2>5. WaitInv'
    BY <1>1, <1>5, <2>1 DEF Inv, WaitInv, Running, At, TypeStep
  <2>6. JobInv'
    <3>1. Running /\ ~op.pending => config.explicit
      BY <1>5 DEF Inv, TodoInv, JobInv, At, Applies
    <3> QED
      BY <3>1, <1>1, <1>5, <2>1, <2>4 DEF Inv, JobInv, Running, At, TypeStep
  <2>7. OffInv'
    BY <1>1, <1>5, <2>1 DEF Inv, OffInv, JobInv, Running, At, TypeStep
  <2>8. PowerInv'
    BY <1>1, <1>5, <2>1 DEF Inv, PowerInv, Running, At, Busy
  <2>9. RebootInv'
    BY <1>1, <1>5, <2>1 DEF Inv, RebootInv, Running, At
  <2> QED
    BY <2>2, <2>4, <2>5, <2>6, <2>7, <2>8, <2>9 DEF Inv
<1>6. CASE linode.job = "migrate"
  <2>1. /\ linode' \in LinodeRecord /\ linode'.job = "none" /\ linode'.type = linode.type
        /\ linode'.disk = linode.disk /\ linode'.lag = linode.lag /\ linode'.on = linode.on
        /\ linode'.diff = (linode.diff \ {"region"}) /\ linode'.grouped = linode.grouped
        /\ linode'.current = linode.current
    BY <1>1, <1>6 DEF JobFinishes, JobDone, LinodeRecord, ConfigRecord, Jobs
  <2>2. WorldInv'
    BY <1>1, <1>6, <2>1 DEF Inv, WorldInv
  <2>3. \A s \in StepNames : Missing(s)' => Missing(s)
    BY <1>1, <2>1 DEF Missing, Upsized
  <2>4. TypeOK' /\ TodoInv' /\ Upsized' = Upsized
    BY <1>1, <2>1, <2>2, <2>3, WorldMoves
  <2>5. WaitInv'
    BY <1>1, <1>6, <2>1 DEF Inv, WaitInv, Running, At, TypeStep
  <2>6. JobInv'
    BY <1>1, <1>6, <2>1, <2>4 DEF Inv, JobInv, Running, At, TypeStep
  <2>7. OffInv'
    BY <1>1, <1>6, <2>1 DEF Inv, OffInv, JobInv, Running, At, TypeStep
  <2>8. PowerInv'
    BY <1>1, <1>6, <2>1 DEF Inv, PowerInv, Running, At, Busy
  <2>9. RebootInv'
    BY <1>1, <1>6, <2>1 DEF Inv, RebootInv, Running, At
  <2> QED
    BY <2>2, <2>4, <2>5, <2>6, <2>7, <2>8, <2>9 DEF Inv
<1> QED
  BY <1>1, <1>2, <1>3, <1>4, <1>5, <1>6 DEF Jobs

LEMMA StutterInv ==
    ASSUME Inv, UNCHANGED vars
    PROVE  Inv'
<1>1. linode' = linode /\ config' = config /\ op' = op /\ budget' = budget
  BY DEF vars
<1>2. Upsized' = Upsized /\ \A s \in StepNames : Missing(s)' = Missing(s)
  BY <1>1 DEF Missing, Upsized
<1>3. TypeOK' /\ WorldInv' /\ WaitInv' /\ PowerInv' /\ RebootInv'
  BY <1>1 DEF Inv, TypeOK, WorldInv, WaitInv, PowerInv, RebootInv, Running, At, TypeStep, Busy
<1>4. TodoInv' /\ JobInv' /\ OffInv'
  BY <1>1, <1>2, SameApplies
     DEF Inv, TodoInv, JobInv, OffInv, Running, At, TypeStep
<1> QED
  BY <1>3, <1>4 DEF Inv

-----------------------------------------------------------------------------
(* The theorems. *)

LEMMA InitInv == Init => Inv
<1> SUFFICES ASSUME Init
             PROVE  Inv
  OBVIOUS
<1>1. Capacity \in [Types -> Nat \ {0}] /\ StartTypes \subseteq Types
      /\ Attributes \subseteq AllAttributes /\ MaxFailures \in Nat /\ MaxInterference \in Nat
  BY InstanceUpdateAssumption DEF InstanceUpdateAssumption
<1>2. config \in ConfigRecord
  BY <1>1 DEF Init, ConfigRecord
<1>3. linode \in LinodeRecord
  BY <1>1 DEF Init, LinodeRecord, Jobs
<1>4. op \in OpRecord
  <2>1. "get" \in {Steps[i] : i \in DOMAIN Steps}
    BY OrderedSteps DEF StepNames
  <2> QED
    BY <1>3, <2>1 DEF Init, OpRecord, Phases, StatusSet, LinodeRecord
<1>5. budget \in [failures : 0 .. MaxFailures, edits : 0 .. MaxInterference]
  BY <1>1 DEF Init
<1>6. WorldInv
  BY DEF Init, WorldInv
<1>7. ~Running
  BY DEF Init, Running
<1> QED
  BY <1>2, <1>3, <1>4, <1>5, <1>6, <1>7
     DEF Inv, TypeOK, TodoInv, WaitInv, JobInv, OffInv, PowerInv, RebootInv

LEMMA NextInv == Inv /\ [Next]_vars => Inv'
<1> SUFFICES ASSUME Inv, [Next]_vars
             PROVE  Inv'
  OBVIOUS
<1>1. CASE Terraform
  BY <1>1, ReturnsInv, PlanUpdateInv DEF Terraform
<1>2. CASE EarlySteps
  BY <1>2, GetInstanceInv, UnassignInv, AssignInv, SimpleUpdateInv, UpdateBackupsInv,
     AddPrivateIPInv, ReturnsInv, MigrateInv, MigratedInv
     DEF EarlySteps
<1>3. CASE ResizeSteps
  BY <1>3, ReturnsInv, EnsureOfflineInv, WentOfflineInv, ResizeInstanceInv, ResizedInv,
     TypeChangedInv, DiskUnchangedInv, ShutDownForDiskInv, ResizeInstanceDiskInv,
     DiskResizedInv
     DEF ResizeSteps
<1>4. CASE LateSteps
  BY <1>4, UpdateInstanceConfigsInv, ReturnsInv, DecidePowerOnInv, ShutDownForVPCInv,
     ShutDownForVPCDoneInv, UpdateInterfacesInv, BootAfterVPCInv, BootedAfterVPCInv, ShareIPsInv,
     RebootInstanceInv, RebootedInv, HandleBootedInv, BootedHandledInv
     DEF LateSteps
<1>5. CASE StepFails
  BY <1>5, ReturnsInv
<1>6. CASE API \/ PowerElsewhere
  BY <1>6, JobFinishesInv, DiskCatchesUpInv, PowerElsewhereInv DEF API
<1>7. CASE UNCHANGED vars
  BY <1>7, StutterInv
<1> QED
  BY <1>1, <1>2, <1>3, <1>4, <1>5, <1>6, <1>7 DEF Next, Provider

\* Whatever the configuration, the differences, the failures and the
\* interference, the invariant holds throughout: what the refresh saw missing is
\* still to come or done, every job is the one the running step waits for, and
\* the power state and the reboot are as the next steps expect them.
THEOREM Invariance == Spec => []Inv
  BY InitInv, NextInv, PTL DEF Spec

\* The variables of updateResource and of the Linode stay of their types.
THEOREM TypeCorrect == Spec => []TypeOK
<1>1. Inv => TypeOK
  BY DEF Inv
<1> QED
  BY Invariance, <1>1, PTL

LEMMA AcceptedInv == Inv => CallsAccepted
<1> SUFFICES ASSUME Inv, op.pc = "update", op.phase = "call", ~op.drift, ~op.pending
             PROVE  ~Refused
  BY DEF CallsAccepted
<1>1. ~Busy
  BY NoJob DEF Running
<1>2. TypeStep => linode.disk <= Capacity[config.type]
  BY DEF Inv, JobInv, Running
<1>3. op.step = "disk" => ~linode.on /\ ~(config.disk > Capacity[linode.type])
  <2>1. ASSUME op.step = "disk"
        PROVE  config.disk <= Capacity[linode.type]
    BY <2>1 DEF Inv, WaitInv, Running
  <2>2. config.disk \in Nat /\ Capacity[linode.type] \in Nat
    BY StepType DEF Inv, ConfigRecord, LinodeRecord
  <2> QED
    BY <2>1, <2>2 DEF Inv, OffInv, Running
<1>4. op.step = "interface" /\ config.vpc => ~linode.on
  BY DEF Inv, OffInv, Running, At
<1>5. linode.disk \in Nat /\ Capacity[config.type] \in Nat
  BY StepType DEF Inv, ConfigRecord, LinodeRecord
<1> QED
  BY <1>1, <1>2, <1>3, <1>4, <1>5 DEF Refused

\* updateResource asks for a resize of the type or of the disk, and for a change
\* of VPC interfaces, only when the API can take it: for any types and disk
\* sizes, and whichever steps came before in the same update.
THEOREM OnlyAcceptableCalls == Spec => []CallsAccepted
  BY Invariance, AcceptedInv, PTL

\* Only the final read ends an update without an error.
LEMMA SuccessIsRead ==
    ASSUME Inv, Next, Succeeds
    PROVE  Running /\ op.step = "read" /\ Keep
<1>1. op \in OpRecord
  BY DEF Inv, TypeOK
<1>2. op.pc = "update" /\ op'.pc = "idle" /\ op'.result = "ok"
  BY DEF Succeeds
<1>3. ASSUME NEW inst, NEW reboot, Proceed(inst, reboot)
      PROVE  FALSE
  BY <1>1, <1>2, <1>3, ProceedIs
<1>4. ASSUME NEW phase, Goto(phase)
      PROVE  FALSE
  BY <1>1, <1>2, <1>4 DEF Goto, OpRecord
<1>5. ~Return("error")
  BY <1>1, <1>2 DEF Return, OpRecord
<1>6. ~Terraform
  BY <1>2 DEF Terraform, PlanNothing, PlanUpdate
<1>7. ~EarlySteps
  BY <1>3, <1>4, <1>5
     DEF EarlySteps, GetInstance, Unassign, Assign, SimpleUpdate, UpdateBackups,
         AddPrivateIP, RemovePrivateIPRejected, Migrate, Migrated
<1>8. ~ResizeSteps
  <2>1. ~ResizeInstance
    BY <1>1, <1>2 DEF ResizeInstance, OpRecord
  <2> QED
    BY <1>3, <1>4, <1>5, <2>1
       DEF ResizeSteps, TypeRejected, EnsureOffline, WentOffline, Resized, TypeChanged,
           DiskRejected, DiskUnchanged, ShutDownForDisk, ResizeInstanceDisk, DiskResized
<1>9. ~StepFails
  BY <1>5 DEF StepFails
<1>10. ~API /\ ~PowerElsewhere
  BY <1>1, <1>2 DEF API, JobFinishes, DiskCatchesUp, PowerElsewhere, OpRecord
<1>11. CASE LateSteps
  <2>1. ~DecidePowerOn
    BY <1>1, <1>2 DEF DecidePowerOn, OpRecord
  <2>2. ~UpdateInterfaces
    BY <1>1, <1>2, <1>3 DEF UpdateInterfaces, OpRecord
  <2>3. ReadResource
    BY <1>3, <1>4, <1>5, <1>11, <2>1, <2>2
       DEF LateSteps, UpdateInstanceConfigs, InterfaceRejected, ShutDownForVPC, ShutDownForVPCDone,
           BootAfterVPC, BootedAfterVPC, ShareIPs, RebootInstance, Rebooted,
           HandleBooted, BootedHandled
  <2> QED
    BY <2>3 DEF ReadResource, At, Running
<1> QED
  BY <1>6, <1>7, <1>8, <1>9, <1>10, <1>11 DEF Next, Provider

LEMMA SuccessLeaves ==
    ASSUME Inv, [Next]_vars, Succeeds
    PROVE  /\ Applied' /\ (linode.lag => op.pending)
           /\ ~op.drift => ~BootedDiffers'
           /\ ~op.drift /\ op.seen.current /\ ~config.skip /\ config.bootConfig /\ linode'.on
                 => linode'.current
<1>1. Running /\ op.step = "read" /\ linode' = linode /\ config' = config
  <2>1. Next
    BY DEF Succeeds, vars
  <2> QED
    BY <2>1, SuccessIsRead DEF Keep
<1>2. linode \in LinodeRecord /\ linode.on \in BOOLEAN /\ config \in ConfigRecord
  BY StepType DEF Inv, LinodeRecord
<1>3. \A s \in StepNames : ~Missing(s)
  <2>1. ASSUME NEW s \in StepNames, Missing(s)
        PROVE  FALSE
    <3>1. 16 <= Order(s) /\ s # "read"
      BY <1>1, <2>1, Orders DEF Inv, TodoInv, Missing
    <3> QED
      BY <3>1, Orders DEF StepNames
  <2> QED
    BY <2>1
<1>4. linode.diff = {}
  <2>1. \A a \in AllAttributes : a \notin linode.diff
    BY <1>3 DEF AllAttributes, Missing, StepNames
  <2> QED
    BY <1>2, <2>1 DEF LinodeRecord
<1>5. linode.type = config.type /\ (config.explicit => linode.disk = config.disk)
  BY <1>3 DEF Missing, StepNames
<1>6. Applied'
  BY <1>1, <1>4, <1>5 DEF Applied
<1>7. linode.lag => op.pending
  BY <1>1 DEF Inv, JobInv, TypeStep
<1>8. ASSUME ~op.drift, config.booted # "unset"
      PROVE  linode.job \in {"none", "disk"} /\ linode.on = (config.booted = "true")
  BY <1>1, <1>8 DEF Inv, PowerInv
<1>9. ~op.drift => ~BootedDiffers'
  <2>1. linode.job \in {"none", "disk"} => Status = Power(linode.on)
    BY DEF Status
  <2>2. IsBooted(Power(linode.on)) = linode.on
    BY <1>2 DEF IsBooted, Power
  <2>3. Status' = Status
    BY <1>1 DEF Status
  <2> QED
    BY <1>1, <1>8, <2>1, <2>2, <2>3 DEF BootedDiffers
<1>10. ASSUME ~op.drift, op.seen.current, ~config.skip, config.bootConfig, linode.on
       PROVE  linode.current
  <2>1. linode.current \/ config.booted = "false"
    BY <1>1, <1>10, Orders DEF Inv, RebootInv
  <2> QED
    BY <1>8, <1>10, <2>1
<1> QED
  BY <1>1, <1>6, <1>7, <1>9, <1>10

\* An apply that ends without an error leaves the Linode as configured, for any
\* number of differences: no step that updateResource skipped was needed, no
\* later step undoes an earlier one, and the disk shows its new size.
THEOREM SuccessTruthful == Spec => SuccessIsTruthful
<1>1. Inv /\ [Next]_vars => [Succeeds => Applied' /\ (linode.lag => op.pending)]_vars
  BY SuccessLeaves
<1> QED
  BY Invariance, <1>1, PTL DEF Spec, SuccessIsTruthful

\* The configured power state holds when updateResource succeeds, whichever of
\* its steps shut the Linode down, booted or rebooted it.
THEOREM PowerKept == Spec => BootedAsConfigured
<1>1. Inv /\ [Next]_vars => [Succeeds /\ ~op.drift => ~BootedDiffers']_vars
  BY SuccessLeaves
<1> QED
  BY Invariance, <1>1, PTL DEF Spec, BootedAsConfigured

\* No step loses the rebootInstance of an earlier one: a Linode that runs after
\* a successful update was booted after every change that needs it.
THEOREM NoRebootLost == Spec => RebootsNotLost
<1>1. Inv /\ [Next]_vars =>
        [Succeeds /\ ~op.drift /\ op.seen.current /\ ~config.skip
            /\ config.bootConfig /\ linode'.on => linode'.current]_vars
  BY SuccessLeaves
<1> QED
  BY Invariance, <1>1, PTL DEF Spec, RebootsNotLost

=============================================================================
