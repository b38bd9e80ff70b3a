------------------------------ MODULE LinodePower ------------------------------
(***************************************************************************)
(* One Linode and the handlers of other resources that power it off, boot  *)
(* it and reboot it: linode_instance_disk (a resize, a deletion), linode_  *)
(* instance_config (booted, a change, a deletion) and the resources that   *)
(* reboot a Linode at once when an address is added to it.  Terraform      *)
(* applies them at the same time unless the configuration orders them, and *)
(* none of them knows of the others: each reads the power state, and acts  *)
(* on it some calls later.                                                 *)
(*                                                                         *)
(* Every action is one API call of a handler and what the handler decides  *)
(* from the answer, or a job of the API that ends.                         *)
(***************************************************************************)
EXTENDS Naturals, Sequences, FiniteSets

CONSTANTS
    Handlers,       \* the handlers that Terraform runs at the same time
    Disks, Configs, \* of the Linode
    Assignments,    \* handler -> task: what they may be asked to do together
    MaxFailures     \* bound: calls and jobs that fail, waits that time out

Nothing == "nothing"
DiskVerbs   == {"resize", "delete"}
ConfigVerbs == {"create", "change", "rewire", "remove"}

\* booted is the attribute of the configuration, "unset" if it is not managed;
\* "change" is an update without interfaces, "rewire" one of VPC interfaces.
TaskRecord ==
    [verb : DiskVerbs, on : Disks, booted : {"unset"}]
        \union [verb : ConfigVerbs, on : Configs, booted : {"unset", "true", "false"}]
        \union [verb : {"reboot"}, on : {Nothing}, booted : {"unset"}]

ASSUME PowerAssumption ==
    /\ Assignments \subseteq [Handlers -> TaskRecord]
    /\ \A task \in Assignments, g, h \in Handlers :    \* one resource of each disk and config
          g # h /\ task[g].on = task[h].on => task[g].on = Nothing
    /\ Nothing \notin Disks \union Configs
    /\ MaxFailures \in Nat

VARIABLES
    linode,     \* the Linode, as the API has it
    events,     \* the events of the Linode, the latest last
    handler,    \* the handlers
    skip,       \* skip_implicit_reboots of the provider
    wasOn,      \* the Linode was running when the apply began
    failures    \* what is left of the bound

vars == <<linode, events, handler, skip, wasOn, failures>>

---------------------------------------------------------------------------
(* The API: one job at a time, each with its event *)

Powers   == {"running", "offline", "booting", "rebooting", "shutting_down"}
Actions  == {"boot", "reboot", "shutdown", "disk_resize", "disk_delete"}
Subjects == Disks \union Configs \union {Nothing}

Busy == linode.job # 0
Left == {d \in Disks : linode.disks[d] # "gone"}

\* Without a config, a boot is into the last one booted, if it is still there.
Target(on) ==
    IF on # Nothing THEN on
    ELSE IF linode.booted \in linode.configs THEN linode.booted
    ELSE IF linode.configs # {} THEN CHOOSE c \in linode.configs : TRUE
    ELSE Nothing

Accepts(action, on) ==
    CASE action = "boot"                         -> linode.power = "offline" /\ Target(on) \in linode.configs
      [] action = "reboot"                       -> linode.power = "running" /\ Target(on) \in linode.configs
      [] action = "shutdown"                     -> linode.power = "running"
      [] action \in {"disk_resize", "disk_delete"} -> linode.power = "offline"

\* The event of a boot names the config, and a boot takes up the changes that
\* were made to it.
Started(action, on) ==
    LET during == CASE action = "boot"     -> "booting"
                    [] action = "reboot"   -> "rebooting"
                    [] action = "shutdown" -> "shutting_down"
                    [] OTHER               -> linode.power
    IN  [linode EXCEPT !.job = Len(events) + 1,
                       !.power = during,
                       !.booted = IF action \in {"boot", "reboot"} THEN Target(on) ELSE @,
                       !.pending = IF action \in {"boot", "reboot"} THEN @ \ {Target(on)} ELSE @]

StartJob(action, on) ==
    /\ linode' = Started(action, on)
    /\ events' = Append(events, [action |-> action, status |-> "started",
                                 on |-> IF action \in {"boot", "reboot"} THEN Target(on) ELSE on])

EndJob ==
    /\ Busy
    /\ LET job == events[linode.job]
       IN  \/ /\ events' = [events EXCEPT ![linode.job].status = "finished"]
              /\ linode' = [linode EXCEPT
                    !.job = 0,
                    !.power = CASE @ \in {"booting", "rebooting"} -> "running"
                                [] @ = "shutting_down"            -> "offline"
                                [] OTHER                          -> @,
                    !.disks = CASE job.action = "disk_resize" -> [@ EXCEPT ![job.on] = "new"]
                                [] job.action = "disk_delete" -> [@ EXCEPT ![job.on] = "gone"]
                                [] OTHER                      -> @]
              /\ UNCHANGED failures
           \/ /\ failures > 0 /\ failures' = failures - 1
              /\ events' = [events EXCEPT ![linode.job].status = "failed"]
              /\ linode' = [linode EXCEPT
                    !.job = 0,
                    !.power = CASE @ \in {"booting", "rebooting"} -> "offline"
                                [] @ = "shutting_down"            -> "running"
                                [] OTHER                          -> @]
    /\ UNCHANGED <<handler, skip, wasOn>>

---------------------------------------------------------------------------
(* What the helpers read *)

\* IsInstanceInBootedState
IsBooted(status) == status \in {"running", "rebooting", "booting"}

\* GetCurrentBootedConfig: the config of the latest boot event, of a Linode that
\* is on, or is about to be.
BootEvents == {i \in DOMAIN events : events[i].action \in {"boot", "reboot"}}
LatestOf(indices) == CHOOSE i \in indices : \A j \in indices : j <= i
CurrentBootedConfig ==
    IF IsBooted(linode.power) /\ BootEvents # {} THEN events[LatestOf(BootEvents)].on ELSE Nothing

\* Mutant: the poller does not look at the disk of an event.
PolledMutant(h) ==
    {i \in DOMAIN events : i > handler[h].watch /\ events[i].action = handler[h].call.action}

\* A poller knows the events there were when it was made, and takes the latest
\* one of its action (and disk) that it does not know.
Polled(h) ==
    LET call == handler[h].call
    IN  {i \in DOMAIN events :
            /\ i > handler[h].watch
            /\ events[i].action = call.action
            /\ call.action \in {"disk_resize", "disk_delete"} => events[i].on = call.on}

---------------------------------------------------------------------------
(* A handler: the task, the next step, and its local variables *)

Idle == [action |-> Nothing, on |-> Nothing]
Fresh(t) ==
    [task |-> t, pc |-> "start", result |-> "none", noted |-> FALSE,
     status |-> Nothing, current |-> Nothing,    \* as read from the API
     reboot |-> FALSE, off |-> FALSE,            \* shouldReboot, powerOffRequired
     call |-> Idle, watch |-> 0, next |-> Nothing]

At(h, pc) == handler[h].pc = pc
Of(h) == handler[h].task
Manages(h) == Of(h).booted # "unset"

Becomes(h, r) == handler' = [handler EXCEPT ![h] = r]
Goto(h, pc) == Becomes(h, [handler[h] EXCEPT !.pc = pc])
End(h, result) == Becomes(h, [handler[h] EXCEPT !.pc = "end", !.result = result])
Fail(h) == End(h, "error")

\* Make a poller, make the request, wait for the event, go on at next.
Calling(r, action, on, next) ==
    [r EXCEPT !.pc = "watch", !.call = [action |-> action, on |-> on], !.next = next]
Do(h, action, on, next) == Becomes(h, Calling(handler[h], action, on, next))

\* The deletion of a disk notes the error of its calls and carries on; the
\* result of the boot after a change of interfaces is not looked at.
Ignores(h) == handler[h].next = "unlooked"
FailCall(h) ==
    CASE handler[h].call.action = "disk_delete" ->
            Becomes(h, [handler[h] EXCEPT !.pc = "list", !.noted = TRUE])
      [] Ignores(h) -> Goto(h, "apply")
      [] OTHER      -> Fail(h)

Return(h, next) == IF next = "unlooked" THEN Goto(h, "apply")
                   ELSE IF next = "end" THEN End(h, IF handler[h].noted THEN "error" ELSE "ok")
                   ELSE Goto(h, next)

API == <<linode, events>>
Settings == <<skip, wasOn>>
Quietly == UNCHANGED <<linode, events, skip, wasOn, failures>>

Watch(h) ==
    /\ At(h, "watch")
    /\ Becomes(h, [handler[h] EXCEPT !.pc = "request", !.watch = Len(events)])
    /\ Quietly

\* Mutant: the poller is made after the request, and knows the event.
RequestMutant(h) ==
    /\ At(h, "request") /\ ~Busy
    /\ LET call == handler[h].call
       IN  IF Accepts(call.action, call.on)
           THEN /\ StartJob(call.action, call.on)
                /\ Becomes(h, [handler[h] EXCEPT !.pc = "await", !.watch = Len(events')])
           ELSE FailCall(h) /\ UNCHANGED API
    /\ UNCHANGED <<Settings, failures>>

\* The client tries again while the Linode is busy.
Request(h) ==
    /\ At(h, "request") /\ ~Busy
    /\ LET call == handler[h].call
       IN  IF Accepts(call.action, call.on)
           THEN StartJob(call.action, call.on) /\ Goto(h, "await")
           ELSE FailCall(h) /\ UNCHANGED API
    /\ UNCHANGED <<Settings, failures>>

EventOf(h) == events[LatestOf(Polled(h))]
Await(h) ==
    /\ At(h, "await")
    /\ Polled(h) # {} /\ EventOf(h).status # "started"
    /\ IF EventOf(h).status = "finished" THEN Return(h, handler[h].next) ELSE FailCall(h)
    /\ Quietly

---------------------------------------------------------------------------
(* WaitForInstanceNonTransientStatus, then what the caller does with it *)

Settled(status) == status \in {"running", "offline"}
Steady(status) == IF IsBooted(status) THEN "running" ELSE "offline"

\* runDiskOperation, and SafeShutdownInstance for a change of interfaces
WithStatus(h, status) ==
    LET r == [handler[h] EXCEPT !.status = status]
        work == IF Of(h).verb \in DiskVerbs THEN "operate" ELSE "put"
    IN  IF status = "offline" THEN Becomes(h, [r EXCEPT !.pc = work])
        ELSE IF work = "operate" /\ skip THEN Fail(h)
        ELSE Becomes(h, Calling(r, "shutdown", Nothing, work))

FindStatus(h) ==
    /\ IF Settled(linode.power) THEN WithStatus(h, linode.power)
       ELSE Becomes(h, [handler[h] EXCEPT !.pc = "settle", !.status = Steady(linode.power)])
    /\ Quietly

Settle(h) ==
    /\ At(h, "settle") /\ linode.power = handler[h].status
    /\ WithStatus(h, linode.power)
    /\ Quietly

---------------------------------------------------------------------------
(* linode_instance_disk: resizeDiskSync, Delete, and runDiskOperation around them *)

StartDisk(h) ==
    /\ At(h, "start") /\ Of(h).verb \in DiskVerbs
    /\ FindStatus(h)

Operate(h) ==
    /\ At(h, "operate")
    /\ IF Of(h).verb = "resize" THEN Do(h, "disk_resize", Of(h).on, "check")
                                ELSE Do(h, "disk_delete", Of(h).on, "list")
    /\ Quietly

CheckSize(h) ==
    /\ At(h, "check")
    /\ IF linode.disks[Of(h).on] = "new" THEN Goto(h, "list") ELSE Fail(h)
    /\ Quietly

\* Mutant: the boot depends on what the Linode is now, not on what it was.
ListDisksMutant(h) ==
    /\ At(h, "list")
    /\ IF Left # {} /\ linode.power = "running" THEN Do(h, "boot", Nothing, "end")
                                               ELSE Return(h, "end")
    /\ Quietly

\* The Linode is booted again if it was running and has a disk left.
ListDisks(h) ==
    /\ At(h, "list")
    /\ IF Left # {} /\ handler[h].status = "running" THEN Do(h, "boot", Nothing, "end")
                                                     ELSE Return(h, "end")
    /\ Quietly

---------------------------------------------------------------------------
(* linode_instance_config: updateResource, createResource, deleteResource *)

StartConfig(h) ==
    /\ At(h, "start") /\ Of(h).verb \in ConfigVerbs
    /\ CASE Of(h).verb = "create" -> Goto(h, "apply")
         [] Of(h).verb = "remove" -> Becomes(h, [handler[h] EXCEPT !.pc = "removal", !.status = linode.power])
         [] OTHER                 -> Becomes(h, [handler[h] EXCEPT !.pc = "inspect", !.status = linode.power])
    /\ Quietly

\* isBootedConfig decides what the update does to the power; both reads are
\* made before the first write.
Inspect(h) ==
    /\ At(h, "inspect")
    /\ LET isBootedConfig == CurrentBootedConfig = Of(h).on /\ handler[h].status = "running"
           off == Of(h).verb = "rewire" /\ isBootedConfig
           r == [handler[h] EXCEPT !.off = off, !.reboot = isBootedConfig /\ ~off /\ ~skip]
       IN  IF off /\ skip THEN Fail(h)
           ELSE Becomes(h, [r EXCEPT !.pc = IF off THEN "safe" ELSE "put"])
    /\ Quietly

SafeShutdown(h) ==
    /\ At(h, "safe")
    /\ FindStatus(h)

\* Mutant: a Linode whose power is not managed stays off.
PutMutant(h) ==
    /\ At(h, "put")
    /\ Goto(h, "apply")
    /\ UNCHANGED <<API, Settings, failures>>

\* UpdateInstanceConfig; a Linode that was powered off for it and whose power is
\* not managed is booted again.
Put(h) ==
    /\ At(h, "put")
    /\ linode' = [linode EXCEPT !.pending = IF Of(h).on = linode.booted /\ linode.power # "offline"
                                            THEN @ \union {Of(h).on} ELSE @]
    /\ IF handler[h].off /\ ~Manages(h) THEN Do(h, "boot", Of(h).on, "unlooked") ELSE Goto(h, "apply")
    /\ UNCHANGED <<events, Settings, failures>>

\* applyBootStatus: the power state and the booted config, then what they lead to.
Apply(h) ==
    /\ At(h, "apply")
    /\ IF Manages(h) THEN Becomes(h, [handler[h] EXCEPT !.pc = "decide", !.status = linode.power])
                     ELSE End(h, "ok")
    /\ Quietly

Decide(h) ==
    /\ At(h, "decide")
    /\ LET isBooted == IsBooted(handler[h].status)
           mine == CurrentBootedConfig = Of(h).on
           r == [handler[h] EXCEPT !.current = CurrentBootedConfig]
       IN  CASE Of(h).booted = "true" /\ isBooted /\ (~mine \/ handler[h].reboot) -> Becomes(h, [r EXCEPT !.pc = "running"])
             [] Of(h).booted = "true" /\ ~isBooted -> Becomes(h, Calling(r, "boot", Of(h).on, "end"))
             [] Of(h).booted = "false" /\ isBooted /\ mine -> Becomes(h, [r EXCEPT !.pc = "running"])
             [] OTHER -> End(h, "ok")
    /\ Quietly

\* WaitForInstanceStatus, then a reboot or a shutdown of whatever runs by now.
Running(h) ==
    /\ At(h, "running") /\ linode.power = "running"
    /\ IF Of(h).booted = "true" THEN Do(h, "reboot", Of(h).on, "end")
                                ELSE Do(h, "shutdown", Nothing, "end")
    /\ Quietly

\* isConfigBooted: of a Linode that is on but has no boot event, the state knows
\* better.
Removal(h) ==
    /\ At(h, "removal")
    /\ LET booted == /\ IsBooted(handler[h].status)
                     /\ \/ CurrentBootedConfig = Of(h).on
                        \/ CurrentBootedConfig = Nothing /\ Of(h).booted = "true"
       IN  IF booted THEN Do(h, "shutdown", Nothing, "drop") ELSE Goto(h, "drop")
    /\ Quietly

\* Mutant: the config that was booted is forgotten.
DropConfigMutant(h) ==
    /\ At(h, "drop")
    /\ linode' = [linode EXCEPT !.configs = @ \ {Of(h).on}, !.booted = Nothing]
    /\ End(h, "ok")
    /\ UNCHANGED <<events, Settings, failures>>

DropConfig(h) ==
    /\ At(h, "drop")
    /\ linode' = [linode EXCEPT !.configs = @ \ {Of(h).on}]
    /\ End(h, "ok")
    /\ UNCHANGED <<events, Settings, failures>>

---------------------------------------------------------------------------
(* rebootInstance, of the resources that add an address to a Linode *)

StartReboot(h) ==
    /\ At(h, "start") /\ Of(h).verb = "reboot"
    /\ IF linode.power = "running" THEN Do(h, "reboot", Nothing, "rebooted") ELSE End(h, "ok")
    /\ Quietly

Rebooted(h) ==
    /\ At(h, "rebooted") /\ linode.power = "running"
    /\ End(h, "ok")
    /\ Quietly

---------------------------------------------------------------------------
(* Failures *)

Calls(h) == handler[h].pc \in {"watch", "request", "await"}

\* A call is not answered: the handler returns, and a job it may have started
\* goes on.  A lost answer to the request itself counts as a failed wait.
CallFails(h) ==
    /\ failures > 0 /\ failures' = failures - 1
    /\ ~At(h, "end")
    /\ \/ ~Calls(h) /\ Fail(h)
       \/ Calls(h) /\ FailCall(h)
       \/ At(h, "inspect") /\ Goto(h, "put")     \* no booted config is known, then
    /\ UNCHANGED <<API, Settings>>

\* A wait for what will not come ends with its timeout: nothing is under way, and
\* all the others have ended or wait like this one.
Stalled(h) ==
    \/ At(h, "settle") /\ linode.power # handler[h].status
    \/ (At(h, "running") \/ At(h, "rebooted")) /\ linode.power # "running"
TimesOut(h) ==
    /\ Stalled(h) /\ ~Busy
    /\ \A g \in Handlers : At(g, "end") \/ Stalled(g)
    /\ Fail(h)
    /\ Quietly

---------------------------------------------------------------------------
Begins(power, config) ==
    /\ linode = [power |-> power, job |-> 0, booted |-> config, pending |-> {},
                 disks |-> [d \in Disks |-> "old"], configs |-> Configs]
    /\ events \in {<<>>, <<[action |-> "boot", on |-> config, status |-> "finished"]>>}

Init ==
    /\ \E power \in {"running", "offline"}, c \in Configs : Begins(power, c)
    /\ wasOn = (linode.power = "running")
    /\ \E task \in Assignments : handler = [h \in Handlers |-> Fresh(task[h])]
    /\ \A h \in Handlers : Of(h).verb = "create" => linode.booted # Of(h).on
    /\ skip \in BOOLEAN
    /\ failures = MaxFailures

Step(h) ==
    \/ Watch(h) \/ Request(h) \/ Await(h) \/ Settle(h)
    \/ StartDisk(h) \/ Operate(h) \/ CheckSize(h) \/ ListDisks(h)
    \/ StartConfig(h) \/ Inspect(h) \/ SafeShutdown(h) \/ Put(h) \/ Apply(h) \/ Decide(h)
    \/ Running(h) \/ Removal(h) \/ DropConfig(h)
    \/ StartReboot(h) \/ Rebooted(h)
    \/ TimesOut(h)

Next == EndJob \/ \E h \in Handlers : Step(h) \/ CallFails(h)

Spec == Init /\ [][Next]_vars

\* Jobs end, and the provider runs every handler on.
FairSpec == Spec /\ WF_vars(EndJob) /\ \A h \in Handlers : WF_vars(Step(h))

---------------------------------------------------------------------------
(* Properties *)

TypeOK ==
    /\ linode \in [power : Powers, job : 0 .. Len(events), booted : Configs, pending : SUBSET Configs,
                   disks : [Disks -> {"old", "new", "gone"}], configs : SUBSET Configs]
    /\ \A i \in DOMAIN events :
          events[i] \in [action : Actions, on : Subjects, status : {"started", "finished", "failed"}]
    /\ \A h \in Handlers :
          /\ Of(h) \in TaskRecord
          /\ handler[h].status \in Powers \union {Nothing}
          /\ handler[h].current \in Configs \union {Nothing}
          /\ handler[h].watch \in 0 .. Len(events)
          /\ handler[h].result \in {"none", "ok", "error"}
    /\ {skip, wasOn} \subseteq BOOLEAN /\ failures \in 0 .. MaxFailures

Ended == \A h \in Handlers : At(h, "end")
Succeeded == Ended /\ \A h \in Handlers : handler[h].result = "ok"

\* What a handler reports as done is done, whoever else worked on the Linode: an
\* answer about the job of another handler is not taken for its own.
SuccessMeansDone ==
    \A h \in Handlers : handler[h].result = "ok" =>
        CASE Of(h).verb = "resize" -> linode.disks[Of(h).on] = "new"
          [] Of(h).verb = "delete" -> linode.disks[Of(h).on] = "gone"
          [] Of(h).verb = "remove" -> Of(h).on \notin linode.configs
          [] OTHER                 -> TRUE

\* If all handlers succeed, and one at most is about a config or a reboot, the
\* power is what its booted attribute says, or what it was before the apply:
\* disks that are resized or deleted meanwhile make no difference, except that a
\* Linode that is off only for that long is not seen to be on, and that of a Linode
\* without a boot event nobody knows which config it runs.
OfDisk(h) == Of(h).verb \in DiskVerbs
Interlude == \E g \in Handlers : OfDisk(g) /\ handler[g].status = "running"
PowerAsConfigured ==
    Succeeded /\ Left # {} =>
        \A h \in Handlers :
            (\A g \in Handlers \ {h} : OfDisk(g)) =>
                LET on == linode.power = "running"
                    mine == linode.booted = Of(h).on
                IN  CASE Of(h).booted = "true" /\ Of(h).verb # "remove"  -> on /\ mine
                      [] Of(h).booted = "false" /\ Of(h).verb # "remove" -> ~(on /\ mine) \/ Interlude \/ BootEvents = {}
                      [] Of(h).verb = "remove" \/ (Of(h).verb = "rewire" /\ ~Manages(h)) -> on => wasOn
                      [] OTHER                                           -> on = wasOn

\* Handlers of one Linode get into each other's way - a request of one is refused
\* because another one changed the power - but as long as no call fails, those
\* that have to shut the Linode down bring it back between them.
TurnsOff(t) == t.verb = "remove" \/ t.booted = "false"
RunsAgain ==
    Ended /\ failures = MaxFailures /\ wasOn /\ Left # {}
        => \/ linode.power = "running"
           \/ \E h \in Handlers : TurnsOff(Of(h))

\* A change of the interfaces of the booted config ends with the Linode running.
RestartsAfterChange ==
    \A h \in Handlers :
        handler[h].result = "ok" /\ handler[h].off /\ ~Manages(h) /\ Ended => linode.power = "running"

\* docs/resources/instance_config.md: a change of the config that is booted
\* reboots the Linode, unless implicit reboots are to be skipped.
ChangeReboots ==
    Succeeded /\ ~skip /\ linode.power = "running" => linode.pending = {}

\* docs/resources/instance_config.md: "If false, the Linode will be shutdown only
\* if it is currently booted into this config."  It is about applyBootStatus, which
\* creates and changes call last; a removal and SafeShutdownInstance have their own
\* reasons to shut the Linode down.
ShutsDownForBooted(h) ==
    /\ Of(h).verb \in ConfigVerbs \ {"remove"} /\ Of(h).booted = "false"
    /\ At(h, "request") /\ handler[h].call.action = "shutdown" /\ handler[h].next = "end"
    /\ handler'[h].pc = "await"
ShutsDownOnlyItsOwn ==
    [][\A h \in Handlers : ShutsDownForBooted(h) => linode.booted = Of(h).on]_vars

\* Every handler ends: none waits for ever for a power state or an event that
\* another one keeps from coming.
HandlersEnd == <>Ended
===============================================================================
