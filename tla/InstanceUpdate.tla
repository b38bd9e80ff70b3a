---------------------------- MODULE InstanceUpdate ----------------------------
(***************************************************************************)
(* The update of a linode_instance (linode/instance/resource.go,           *)
(* updateResource, with the helpers it calls): a fixed sequence of steps,  *)
(* most of them skipped when their attribute does not change, several of   *)
(* which power the Linode off, reboot it or boot it.  Calls fail, waits    *)
(* time out, apply is run again after an error, and the Linode is powered  *)
(* on or off behind the provider's back.                                   *)
(***************************************************************************)
EXTENDS Naturals, Sequences, FiniteSets

CONSTANTS
    Types,          \* Linode types
    Capacity,       \* disk space of a type
    StartTypes,     \* types a Linode may have at the start
    Attributes,     \* attributes that may differ at the start, of those below
    MaxDiff,        \* bound: how many of them differ
    MaxFailures,    \* bound: calls that fail or waits that time out
    MaxInterference \* bound: times somebody else powers the Linode on or off

\* One attribute per step of updateResource; "label" stands for all those of
\* InstanceUpdateOptions, "config" for the IPAM address of an interface of the
\* boot configuration.
AllAttributes ==
    {"placement_group", "label", "backups_enabled", "private_ip", "region",
     "config", "interface", "shared_ipv4"}

ASSUME InstanceUpdateAssumption ==
    /\ Types # {}
    /\ StartTypes \subseteq Types
    /\ Capacity \in [Types -> Nat \ {0}]
    /\ Attributes \subseteq AllAttributes
    /\ MaxDiff \in Nat /\ MaxFailures \in Nat /\ MaxInterference \in Nat

VARIABLES
    linode,     \* the Linode, as the API has it
    config,     \* what the operator's configuration asks for; fixed
    op,         \* the update that runs
    budget

vars == <<linode, config, op, budget>>

-----------------------------------------------------------------------------
Jobs == {"none", "boot", "reboot", "shutdown", "resize", "disk", "migrate"}

\* diff: the attributes whose value is not the configured one.
\* current: the running system was booted after the last change that needs a
\* boot to take effect.  lag: a disk resized with its Linode still shows its
\* old size.
LinodeRecord ==
    [on : BOOLEAN, job : Jobs, diff : SUBSET AllAttributes, grouped : BOOLEAN,
     type : Types, disk : Nat, lag : BOOLEAN, current : BOOLEAN]

\* group: a placement group is configured.  vpc: the old or the new interfaces
\* include a VPC.  explicit: disk blocks are used; otherwise disks are
\* implicit and resize_disk may be set.  bootConfig: the boot configuration is
\* known (boot_config_label is set, or there is just one).  skip:
\* skip_implicit_reboots of the provider.
ConfigRecord ==
    [booted : {"unset", "true", "false"}, type : Types, disk : Nat,
     group : BOOLEAN, private_ip : BOOLEAN, vpc : BOOLEAN, explicit : BOOLEAN,
     resize_disk : BOOLEAN, bootConfig : BOOLEAN, skip : BOOLEAN]

Steps ==
    <<"get", "unassign", "assign", "simple", "backups", "private", "migrate",
      "upsize", "disk", "downsize", "configs", "interface", "share",
      "reboot", "booted", "read">>

Phases == {"start", "offline", "call", "wait", "settle", "boot", "bootWait"}

StatusSet == {"running", "offline", "booting", "rebooting", "shutting_down",
              "resizing", "migrating"}

\* seen: the Linode at the refresh.  inst: the local variable instance of
\* updateResource.  reboot: rebootInstance.  power: shouldPowerOn.  size: the
\* primary disk before a resize.  drift: somebody interfered.  pending: a job
\* of an earlier run was unfinished at the refresh.
OpRecord ==
    [pc : {"idle", "update"},
     step : {Steps[i] : i \in DOMAIN Steps}, phase : Phases,
     seen : LinodeRecord, inst : [status : StatusSet, type : Types],
     reboot : BOOLEAN, power : BOOLEAN, size : Nat, drift : BOOLEAN,
     pending : BOOLEAN,
     result : {"none", "ok", "error"}]

TypeOK ==
    /\ linode \in LinodeRecord
    /\ config \in ConfigRecord
    /\ op \in OpRecord
    /\ budget \in [failures : 0 .. MaxFailures, edits : 0 .. MaxInterference]

-----------------------------------------------------------------------------
(* What the API shows, and what isInstanceBooted makes of it. *)

Power(on) == IF on THEN "running" ELSE "offline"

Status ==
    CASE linode.job = "boot"     -> "booting"
      [] linode.job = "reboot"   -> "rebooting"
      [] linode.job = "shutdown" -> "shutting_down"
      [] linode.job = "resize"   -> "resizing"
      [] linode.job = "migrate"  -> "migrating"
      [] OTHER                   -> Power(linode.on)

Busy == linode.job # "none"

\* isInstanceBooted
IsBooted(status) == status \in {"running", "rebooting", "booting"}

-----------------------------------------------------------------------------
(* Which steps an update takes: the conditions of updateResource on the     *)
(* difference between the configuration and the refreshed state.            *)

HasChange(a) == a \in op.seen.diff

Upsized == Capacity[config.type] > Capacity[op.seen.type]

\* Mutant: a type with the same disk space is not seen as a change.
DownsizedMutant == Capacity[config.type] < Capacity[op.seen.type]

\* Downsized, or changed to a type with the same disk space.
Downsized == op.seen.type # config.type /\ ~Upsized

\* d.Get("disk"): the blocks of the configuration, or the computed value.
PlannedDisk == IF config.explicit THEN config.disk ELSE op.seen.disk

BootedDiffers ==
    config.booted # "unset" /\ IsBooted(Status) # (config.booted = "true")

\* The plan is empty: nothing in the refreshed state differs.
InSync ==
    /\ linode.diff = {} /\ linode.type = config.type
    /\ config.explicit => linode.disk = config.disk
    /\ ~BootedDiffers

\* rebootInstance at the end, with the conditions under which it is honoured.
WillReboot(reboot) ==
    reboot /\ config.booted # "false" /\ ~config.skip /\ config.bootConfig

Applies(step, reboot) ==
    CASE step = "unassign"  -> HasChange("placement_group") /\ op.seen.grouped
      [] step = "assign"    -> HasChange("placement_group") /\ config.group
      [] step = "simple"    -> HasChange("label")
      [] step = "backups"   -> HasChange("backups_enabled")
      [] step = "private"   -> HasChange("private_ip")
      [] step = "migrate"   -> HasChange("region")
      [] step = "upsize"    -> Upsized
      [] step = "disk"      -> config.explicit
      [] step = "downsize"  -> Downsized
      [] step = "interface" -> HasChange("interface")
      [] step = "share"     -> HasChange("shared_ipv4")
      [] step = "reboot"    -> WillReboot(reboot)
      [] step = "booted"    -> config.booted # "unset"
      [] OTHER              -> TRUE

After(step, reboot) ==
    LET n == CHOOSE i \in DOMAIN Steps : Steps[i] = step
        later == {i \in DOMAIN Steps : i > n /\ Applies(Steps[i], reboot)}
    IN  Steps[CHOOSE i \in later : \A j \in later : i <= j]

At(step, phase) == op.pc = "update" /\ op.step = step /\ op.phase = phase

Goto(phase) == op' = [op EXCEPT !.phase = phase]

\* Go on with the next step that applies; instance and rebootInstance are the
\* local variables.
Proceed(inst, reboot) ==
    op' = [op EXCEPT !.step = After(op.step, reboot), !.phase = "start",
                     !.inst = inst, !.reboot = reboot]

Return(result) == op' = [op EXCEPT !.pc = "idle", !.result = result]

\* Mutant: the job instead of the status.
SnapshotMutant == [status |-> linode.job, type |-> linode.type]

Snapshot == [status |-> Status, type |-> linode.type]

StartJob(job) == ~Busy /\ linode' = [linode EXCEPT !.job = job]

Keep == UNCHANGED <<linode, config, budget>>
KeepRest == UNCHANGED <<config, budget>>

-----------------------------------------------------------------------------
(* Refresh and plan: what the update goes by is what the refresh saw. *)

PlanNothing ==
    /\ op.pc = "idle" /\ InSync
    /\ Return("ok")
    /\ Keep

PlanUpdate ==
    /\ op.pc = "idle" /\ ~InSync
    /\ op' = [op EXCEPT !.pc = "update", !.step = "get", !.phase = "start",
                        !.seen = linode, !.reboot = FALSE, !.power = FALSE,
                        !.drift = FALSE, !.pending = Busy \/ linode.lag]
    /\ Keep

-----------------------------------------------------------------------------
(* The steps of updateResource, in order. *)

GetInstance ==
    /\ At("get", "start")
    /\ Proceed(Snapshot, FALSE)
    /\ Keep

\* reassignPlacementGroup: two calls, the second one only if the first works.
Unassign ==
    /\ At("unassign", "start")
    /\ linode' = [linode EXCEPT !.grouped = FALSE,
            !.diff = IF config.group THEN @ ELSE @ \ {"placement_group"}]
    /\ Proceed(op.inst, op.reboot)
    /\ KeepRest

Assign ==
    /\ At("assign", "start")
    /\ linode' = [linode EXCEPT !.grouped = TRUE, !.diff = @ \ {"placement_group"}]
    /\ Proceed(op.inst, op.reboot)
    /\ KeepRest

\* UpdateInstance; its answer replaces instance.
SimpleUpdate ==
    /\ At("simple", "start")
    /\ linode' = [linode EXCEPT !.diff = @ \ {"label"}]
    /\ Proceed(Snapshot, op.reboot)
    /\ KeepRest

UpdateBackups ==
    /\ At("backups", "start")
    /\ linode' = [linode EXCEPT !.diff = @ \ {"backups_enabled"}]
    /\ Proceed(op.inst, op.reboot)
    /\ KeepRest

AddPrivateIP ==
    /\ At("private", "start") /\ config.private_ip
    /\ linode' = [linode EXCEPT !.diff = @ \ {"private_ip"}, !.current = ~linode.on]
    /\ Proceed(op.inst, TRUE)
    /\ KeepRest

RemovePrivateIPRejected ==
    /\ At("private", "start") /\ ~config.private_ip
    /\ Return("error")
    /\ Keep

\* applyInstanceMigration
Migrate ==
    /\ At("migrate", "start")
    /\ StartJob("migrate")
    /\ Goto("wait")
    /\ KeepRest

\* Mutant: the migration goes on in the background.
MigratedMutant ==
    /\ At("migrate", "wait")
    /\ Proceed(Snapshot, op.reboot)
    /\ Keep

Migrated ==
    /\ At("migrate", "wait") /\ ~Busy
    /\ Proceed(Snapshot, op.reboot)
    /\ Keep

-----------------------------------------------------------------------------
(* applyInstanceTypeChange, before the disks when the new type has more    *)
(* disk space and after them otherwise; a cold migration.                  *)

TypeStep == op.step \in {"upsize", "downsize"}

DiskFits ==
    /\ PlannedDisk <= Capacity[config.type]
    /\ config.resize_disk =>
          ~config.explicit /\ linode.disk <= Capacity[config.type]

TypeRejected ==
    /\ op.pc = "update" /\ TypeStep /\ op.phase = "start" /\ ~DiskFits
    /\ Return("error")
    /\ Keep

\* ensureInstanceOffline
EnsureOffline ==
    /\ op.pc = "update" /\ TypeStep /\ op.phase = "start" /\ DiskFits
    /\ \/ /\ Status = "offline" /\ Goto("call")
          /\ UNCHANGED linode
       \/ /\ Status = "shutting_down" /\ Goto("offline")
          /\ UNCHANGED linode
       \/ /\ Status \notin {"offline", "shutting_down"}
          /\ StartJob("shutdown") /\ Goto("offline")
    /\ KeepRest

\* Mutant: the handler resizes as soon as the shutdown is accepted.
WentOfflineMutant ==
    /\ op.pc = "update" /\ op.step \in {"upsize", "downsize", "disk"}
    /\ op.phase = "offline"
    /\ Goto("call")
    /\ Keep

\* WaitForInstanceStatus(offline), of ensureInstanceOffline and of
\* changeInstanceDiskSize.
WentOffline ==
    /\ op.pc = "update" /\ op.step \in {"upsize", "downsize", "disk"}
    /\ op.phase = "offline"
    /\ Status = "offline"
    /\ Goto("call")
    /\ Keep

ResizeInstance ==
    /\ op.pc = "update" /\ TypeStep /\ op.phase = "call"
    /\ linode.disk <= Capacity[config.type]
    /\ StartJob("resize")
    /\ op' = [op EXCEPT !.phase = "wait", !.size = linode.disk]
    /\ KeepRest

\* The event is finished.
Resized ==
    /\ op.pc = "update" /\ TypeStep /\ op.phase = "wait" /\ ~Busy
    /\ Goto("settle")
    /\ Keep

\* The status is offline again, and the API shows the new size of the primary
\* disk when it was resized too.  rebootInstance is set after an upsize only.
TypeChanged ==
    /\ op.pc = "update" /\ TypeStep /\ op.phase = "settle"
    /\ Status = "offline"
    /\ config.resize_disk => linode.disk # op.size
    /\ Proceed(Snapshot, op.reboot \/ Upsized)
    /\ Keep

-----------------------------------------------------------------------------
(* applyInstanceDiskSpec with one explicit disk: changeInstanceDiskSize,   *)
(* which goes by instance, not by the status of the moment.                *)

DiskStep == At("disk", "start") /\ linode.disk # config.disk

DiskRejected ==
    /\ At("disk", "start")
    /\ \/ config.disk > Capacity[config.type]
       \/ linode.disk # config.disk /\ config.disk > Capacity[op.inst.type]
    /\ Return("error")
    /\ Keep

DiskUnchanged ==
    /\ At("disk", "start") /\ linode.disk = config.disk
    /\ config.disk <= Capacity[config.type]
    /\ Proceed(op.inst, op.reboot)
    /\ Keep

ShutDownForDisk ==
    /\ DiskStep
    /\ config.disk <= Capacity[config.type] /\ config.disk <= Capacity[op.inst.type]
    /\ IF op.inst.status \in {"offline", "shutting_down"}
       THEN UNCHANGED linode ELSE StartJob("shutdown")
    /\ Goto("offline")
    /\ KeepRest

ResizeInstanceDisk ==
    /\ At("disk", "call")
    /\ ~linode.on /\ config.disk <= Capacity[linode.type]
    /\ StartJob("disk")
    /\ Goto("wait")
    /\ KeepRest

DiskResized ==
    /\ At("disk", "wait") /\ ~Busy /\ linode.disk = config.disk
    /\ Proceed(op.inst, TRUE)
    /\ Keep

-----------------------------------------------------------------------------
(* Configurations, interfaces and shared addresses. *)

\* Mutant: rebootInstance = didChangeConfig.
UpdateInstanceConfigsMutant ==
    /\ At("configs", "start")
    /\ linode' = [linode EXCEPT !.diff = @ \ {"config"},
            !.current = @ /\ ~(HasChange("config") /\ linode.on)]
    /\ Proceed(op.inst, HasChange("config"))
    /\ KeepRest

\* updateInstanceConfigs; it reports a change of the boot configuration's
\* interfaces.
UpdateInstanceConfigs ==
    /\ At("configs", "start")
    /\ linode' = [linode EXCEPT !.diff = @ \ {"config"},
            !.current = @ /\ ~(HasChange("config") /\ linode.on)]
    /\ Proceed(op.inst, op.reboot \/ HasChange("config"))
    /\ KeepRest

\* GetInstanceConfig fails for configuration 0;
\* ShutdownInstanceForVPCInterfaceUpdate refuses under skip_implicit_reboots.
InterfaceRejected ==
    /\ At("interface", "start")
    /\ ~config.bootConfig \/ (config.vpc /\ config.skip)
    /\ Return("error")
    /\ Keep

\* shouldPowerOn goes by the status of the moment, which may be "booting" still.
DecidePowerOn ==
    /\ At("interface", "start") /\ config.bootConfig
    /\ config.vpc => ~config.skip
    /\ LET powerOn == config.booted = "unset" /\ config.vpc /\ Status = "running"
       IN  op' = [op EXCEPT !.power = powerOn,
                            !.phase = IF config.vpc THEN "settle" ELSE "call"]
    /\ Keep

\* SafeShutdownInstance, when a VPC interface is involved: it looks again, once
\* WaitForInstanceNonTransientStatus is through.
ShutDownForVPC ==
    /\ At("interface", "settle") /\ Status \in {"running", "offline"}
    /\ IF Status = "running" THEN StartJob("shutdown") /\ Goto("wait")
       ELSE Goto("call") /\ UNCHANGED linode
    /\ KeepRest

ShutDownForVPCDone ==
    /\ At("interface", "wait") /\ ~Busy
    /\ Goto("call")
    /\ Keep

\* UpdateInstanceConfig; rebootInstance is overwritten.  The API wants the
\* Linode off when a VPC interface changes.
UpdateInterfaces ==
    /\ At("interface", "call")
    /\ config.vpc => ~linode.on
    /\ linode' = [linode EXCEPT !.diff = @ \ {"interface"},
                                !.current = @ /\ ~linode.on]
    /\ IF op.power THEN op' = [op EXCEPT !.phase = "boot", !.reboot = FALSE]
       ELSE Proceed(op.inst, ~config.vpc)
    /\ KeepRest

\* BootInstanceAfterVPCInterfaceUpdate
BootAfterVPC ==
    /\ At("interface", "boot")
    /\ StartJob("boot")
    /\ Goto("bootWait")
    /\ KeepRest

BootedAfterVPC ==
    /\ At("interface", "bootWait") /\ ~Busy
    /\ Proceed(op.inst, op.reboot)
    /\ Keep

ShareIPs ==
    /\ At("share", "start")
    /\ linode' = [linode EXCEPT !.diff = @ \ {"shared_ipv4"}]
    /\ Proceed(op.inst, op.reboot)
    /\ KeepRest

-----------------------------------------------------------------------------
(* The implicit reboot, handleBootedUpdate, and the final read. *)

\* The API boots a Linode that is off.
RebootInstance ==
    /\ At("reboot", "start")
    /\ StartJob("reboot")
    /\ Goto("wait")
    /\ KeepRest

Rebooted ==
    /\ At("reboot", "wait") /\ ~Busy /\ Status = "running"
    /\ Proceed(op.inst, op.reboot)
    /\ Keep

\* Mutant: a Linode that runs is not shut down.
HandleBootedMutant ==
    /\ At("booted", "start")
    /\ \/ /\ Status = "offline" /\ config.booted = "true"
          /\ StartJob("boot") /\ Goto("wait")
       \/ /\ config.booted = "false" \/ Status = "running"
          /\ Proceed(op.inst, op.reboot)
          /\ UNCHANGED linode
    /\ KeepRest

\* handleBootedUpdate, after WaitForInstanceNonTransientStatus, which gives up
\* on a resize or a migration.
HandleBooted ==
    /\ At("booted", "start")
    /\ \/ /\ Status = "offline" /\ config.booted = "true"
          /\ StartJob("boot") /\ Goto("wait")
       \/ /\ Status = "running" /\ config.booted = "false"
          /\ StartJob("shutdown") /\ Goto("wait")
       \/ /\ Status = IF config.booted = "true" THEN "running" ELSE "offline"
          /\ Proceed(op.inst, op.reboot)
          /\ UNCHANGED linode
    /\ KeepRest

BootedHandled ==
    /\ At("booted", "wait") /\ ~Busy
    /\ Proceed(op.inst, op.reboot)
    /\ Keep

ReadResource ==
    /\ At("read", "start")
    /\ Return("ok")
    /\ Keep

-----------------------------------------------------------------------------
(* Errors. *)

\* The call is refused, or the wait cannot end: the API is busy or the disk
\* does not fit; somebody powered the Linode on while the handler waits for it
\* to be off, or off while the handler waits for it to run; a disk that has
\* the right size already never changes its size.
Refused ==
    \/ Busy /\ (op.phase \in {"start", "call", "boot"} \/ At("interface", "settle"))
    \/ TypeStep /\ op.phase = "call" /\ linode.disk > Capacity[config.type]
    \/ /\ op.step = "disk" /\ op.phase = "call"
       /\ linode.on \/ config.disk > Capacity[linode.type]
    \/ op.step = "interface" /\ op.phase = "call" /\ config.vpc /\ linode.on

Stuck ==
    \/ /\ op.phase = "offline" /\ Status = "running"
    \/ /\ TypeStep /\ op.phase = "settle"
       /\ \/ Status = "running"
          \/ config.resize_disk /\ ~linode.lag /\ linode.disk = op.size
    \/ op.step = "disk" /\ op.phase = "wait" /\ ~Busy /\ linode.disk # config.disk
    \/ op.step = "reboot" /\ op.phase = "wait" /\ Status = "offline"

\* Any call or wait returns an error; updateResource stops there.
StepFails ==
    /\ op.pc = "update"
    /\ \/ /\ budget.failures > 0
          /\ budget' = [budget EXCEPT !.failures = @ - 1]
       \/ (Refused \/ Stuck) /\ UNCHANGED budget
    /\ Return("error")
    /\ UNCHANGED <<linode, config>>

-----------------------------------------------------------------------------
(* The API, and others. *)

JobDone ==
    CASE linode.job \in {"boot", "reboot"} ->
            [linode EXCEPT !.job = "none", !.on = TRUE, !.current = TRUE]
      [] linode.job = "shutdown" ->
            [linode EXCEPT !.job = "none", !.on = FALSE, !.current = TRUE]
      [] linode.job = "resize" ->
            [linode EXCEPT !.job = "none", !.on = FALSE, !.current = TRUE,
                           !.type = config.type, !.lag = config.resize_disk]
      [] linode.job = "disk" ->
            [linode EXCEPT !.job = "none", !.disk = config.disk]
      [] linode.job = "migrate" ->
            [linode EXCEPT !.job = "none", !.diff = @ \ {"region"}]

JobFinishes ==
    /\ Busy
    /\ linode' = JobDone
    /\ UNCHANGED <<config, op, budget>>

\* "Sometimes the API falls behind on updating the disk info."
DiskCatchesUp ==
    /\ linode.lag
    /\ linode' = [linode EXCEPT !.lag = FALSE, !.disk = Capacity[linode.type]]
    /\ UNCHANGED <<config, op, budget>>

PowerElsewhere ==
    /\ ~Busy /\ budget.edits > 0
    /\ linode' = [linode EXCEPT !.on = ~@, !.current = TRUE]
    /\ budget' = [budget EXCEPT !.edits = @ - 1]
    /\ op' = [op EXCEPT !.drift = TRUE]
    /\ UNCHANGED config

-----------------------------------------------------------------------------
Init ==
    /\ config \in [booted : {"unset", "true", "false"}, type : Types,
                   disk : {Capacity[t] : t \in Types}, group : BOOLEAN,
                   private_ip : BOOLEAN, vpc : BOOLEAN, explicit : BOOLEAN,
                   resize_disk : BOOLEAN, bootConfig : BOOLEAN, skip : BOOLEAN]
    /\ linode \in [on : BOOLEAN, job : {"none"}, diff : SUBSET Attributes,
                   grouped : BOOLEAN, type : StartTypes,
                   disk : {Capacity[t] : t \in Types}, lag : {FALSE},
                   current : {TRUE}]
    /\ Cardinality(linode.diff) <= MaxDiff
    /\ linode.disk <= Capacity[linode.type]
    \* what no difference depends on is fixed
    /\ "placement_group" \in linode.diff => linode.grouped \/ config.group
    /\ "placement_group" \notin linode.diff => ~linode.grouped /\ ~config.group
    /\ "private_ip" \notin linode.diff => config.private_ip
    /\ "interface" \notin linode.diff => ~config.vpc
    /\ ~config.explicit => config.disk = linode.disk /\ config.bootConfig
    /\ op = [pc |-> "idle", step |-> "get", phase |-> "start", seen |-> linode,
             inst |-> [status |-> "offline", type |-> linode.type],
             reboot |-> FALSE, power |-> FALSE, size |-> 0,
             drift |-> FALSE, pending |-> FALSE, result |-> "none"]
    /\ budget = [failures |-> MaxFailures, edits |-> MaxInterference]

Terraform == PlanNothing \/ PlanUpdate

EarlySteps ==
    \/ GetInstance \/ Unassign \/ Assign \/ SimpleUpdate \/ UpdateBackups
    \/ AddPrivateIP \/ RemovePrivateIPRejected \/ Migrate \/ Migrated

ResizeSteps ==
    \/ TypeRejected \/ EnsureOffline \/ WentOffline \/ ResizeInstance
    \/ Resized \/ TypeChanged \/ DiskRejected \/ DiskUnchanged
    \/ ShutDownForDisk \/ ResizeInstanceDisk \/ DiskResized

LateSteps ==
    \/ UpdateInstanceConfigs \/ InterfaceRejected \/ DecidePowerOn \/ ShutDownForVPC
    \/ ShutDownForVPCDone \/ UpdateInterfaces \/ BootAfterVPC
    \/ BootedAfterVPC \/ ShareIPs \/ RebootInstance \/ Rebooted
    \/ HandleBooted \/ BootedHandled \/ ReadResource

Provider == Terraform \/ EarlySteps \/ ResizeSteps \/ LateSteps \/ StepFails

API == JobFinishes \/ DiskCatchesUp

Next == Provider \/ API \/ PowerElsewhere

Spec == Init /\ [][Next]_vars

\* The provider keeps going (its waits time out), apply is run again after an
\* error, and the API finishes what it accepted.
FairSpec == Spec /\ WF_vars(Provider) /\ WF_vars(API)

-----------------------------------------------------------------------------
(* Properties. *)

\* updateResource asks for a resize of the type or of the disk, and for a
\* change of VPC interfaces, only when the API can take it: the Linode is off,
\* no job runs and the disk fits; unless somebody interferes or a job of an
\* earlier run is still unfinished.
CallsAccepted ==
    op.pc = "update" /\ op.phase = "call" /\ ~op.drift /\ ~op.pending
       => ~Refused

Applied ==
    /\ linode.diff = {} /\ linode.type = config.type
    /\ config.explicit => linode.disk = config.disk

Succeeds == op.pc = "update" /\ op'.pc = "idle" /\ op'.result = "ok"

\* An apply that ends without an error leaves the Linode as configured: every
\* step updateResource skipped was not needed, the disk shows its new size,
\* and no later step undid an earlier one.
SuccessIsTruthful ==
    [][Succeeds => Applied' /\ (linode.lag => op.pending)]_vars

\* A configured power state holds when updateResource succeeds, whichever of
\* its steps shut the Linode down, booted or rebooted it before
\* handleBootedUpdate; unless somebody interferes.
BootedAsConfigured ==
    [][Succeeds /\ ~op.drift => ~BootedDiffers']_vars

\* A Linode that runs after a successful update was booted after every change
\* that needs it (no step loses the rebootInstance of an earlier one), when it
\* ran an up-to-date system before and implicit reboots are possible.
RebootsNotLost ==
    [][Succeeds /\ ~op.drift /\ op.seen.current /\ ~config.skip
          /\ config.bootConfig /\ linode'.on => linode'.current]_vars

\* The configuration can be applied at all.
Feasible ==
    /\ config.private_ip
    /\ "interface" \in linode.diff =>
          config.bootConfig /\ ~(config.vpc /\ config.skip)
    /\ config.explicit /\ linode.type # config.type => ~config.resize_disk
    /\ IF config.explicit THEN config.disk <= Capacity[config.type]
       ELSE linode.disk <= Capacity[config.type]

\* Applying again after errors gets there, as long as the configuration can be
\* applied: no failure between two steps leaves the Linode in a state the next
\* update cannot get out of.
EventuallyApplied == Feasible ~> Applied /\ ~BootedDiffers

\* docs/resources/instance.md: "If unspecified, the Linode's power status will
\* not be managed by the Provider."
PowerUnmanaged ==
    [][Succeeds /\ config.booted = "unset" /\ ~config.skip /\ config.bootConfig
          /\ ~op.drift /\ ~op.pending => linode'.on = op.seen.on]_vars

=============================================================================
