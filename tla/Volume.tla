------------------------------- MODULE Volume -------------------------------
(***************************************************************************)
(* The linode_volume resource (linode/volume/framework_resource.go): what  *)
(* the provider's Create, Read, Update and Delete do to a block storage    *)
(* volume and to the Terraform state, one action per API call, while the   *)
(* API works asynchronously, calls fail, waits time out, the operator      *)
(* edits the configuration and runs apply again, and other resources       *)
(* attach, detach and delete the volume behind the handlers' back.         *)
(***************************************************************************)
EXTENDS Naturals

CONSTANTS
    Linodes,        \* ids of the Linodes a volume may be attached to
    Sizes,          \* sizes the configuration may ask for
    Labels,         \* labels (they stand for label and tags)
    SourceSize,     \* size of the volume that clones are made from
    MaxVolumes,     \* bound: volumes the API hands out
    MaxFailures,    \* bound: calls that fail or waits that time out
    MaxEdits,       \* bound: edits of the configuration, and drifts
    Null,           \* an attribute the configuration leaves out
    Nil             \* a nil *int in the API's answer: not attached

ASSUME VolumeAssumption ==
    /\ Linodes \subseteq Nat \ {0}
    /\ Sizes \subseteq Nat \ {0}
    /\ SourceSize \in Nat \ {0}
    /\ MaxVolumes \in Nat
    /\ MaxFailures \in Nat
    /\ MaxEdits \in Nat
    /\ Labels # {}
    /\ Null \notin Nat
    /\ Nil \notin Nat

VolumeIds == 1 .. MaxVolumes

VARIABLES
    cloud,      \* the API's volumes, by id
    config,     \* the resource block the operator wrote
    st,         \* what the Terraform state holds for the resource
    op,         \* the operation the provider is running
    budget      \* failures and edits still allowed

vars == <<cloud, config, st, op, budget>>

-----------------------------------------------------------------------------
(* The records the variables hold. *)

\* linode is where the volume is, target where the API is taking it.
VolumeRecord ==
    [status : {"none", "creating", "active", "resizing"},
     size   : Nat,
     label  : Labels,
     linode : Linodes \cup {Nil},
     target : Linodes \cup {Nil},
     cloned : BOOLEAN]

ConfigRecord ==
    [present : BOOLEAN, clone : BOOLEAN, size : Sizes, label : Labels,
     linode : Linodes \cup {Null}]

\* id 0 is "no resource in the state".  A linode_id of 0 is what
\* FlattenVolume stores for a volume that is not attached.
StateRecord ==
    [id : VolumeIds \cup {0}, size : Nat, label : Labels,
     linode : Linodes \cup {0}, tainted : BOOLEAN]

PlanRecord ==
    [size : Sizes, label : Labels, linode : Linodes \cup {0, Null}]

Steps ==
    {"idle", "planned",
     "create", "createWait",
     "clone", "cloneWait", "cloneUpdate", "cloneResize", "cloneResizeWait",
     "cloneAttach",
     "resize", "resizeWait", "update", "detach", "detachWait", "attach",
     "attachWait", "save",
     "deleteDetach", "deleteDetachWait", "delete"}

OpRecord ==
    [pc : Steps, id : VolumeIds \cup {0}, plan : PlanRecord,
     then : {"idle", "create", "clone"},
     drift : BOOLEAN, pending : BOOLEAN, result : {"none", "ok", "error"}]

TypeOK ==
    /\ cloud \in [VolumeIds -> VolumeRecord]
    /\ config \in ConfigRecord
    /\ st \in StateRecord
    /\ op \in OpRecord
    /\ budget \in [failures : 0 .. MaxFailures, edits : 0 .. MaxEdits]

-----------------------------------------------------------------------------
(* Pieces of the handlers. *)

Exists(v) == cloud[v].status # "none"
Moving(v) == cloud[v].linode # cloud[v].target

\* Mutant: a nil linode_id is stored as it is.
LinodeIDValueMutant(linode) == linode

\* helper.IntPointerValueWithDefault: a nil linode_id is stored as 0, never
\* as null.
LinodeIDValue(linode) == IF linode = Nil THEN 0 ELSE linode

\* VolumeResourceModel.FlattenVolume(volume, FALSE): every attribute is
\* overwritten with what the API returned.
FlattenVolume(v) ==
    [id |-> v, size |-> cloud[v].size, label |-> cloud[v].label,
     linode |-> LinodeIDValue(cloud[v].linode), tainted |-> FALSE]

\* FlattenVolume(volume, TRUE) on the plan: what the plan knows is kept, so
\* only a linode_id that was unknown is read from the API.
FlattenPlan(v, tainted) ==
    [id |-> v, size |-> op.plan.size, label |-> op.plan.label,
     linode |-> IF op.plan.linode = Null
                THEN LinodeIDValue(cloud[v].linode) ELSE op.plan.linode,
     tainted |-> tainted]

NoState == [id |-> 0, size |-> 0, label |-> CHOOSE l \in Labels : TRUE,
            linode |-> 0, tainted |-> FALSE]

Goto(pc) == op' = [op EXCEPT !.pc = pc]
Return(result) ==
    op' = [op EXCEPT !.pc = "idle", !.id = 0, !.then = "idle",
                     !.result = result]

\* The volume is gone, or another resource took it where the wait does not
\* look for it: the call is refused, the wait runs into its deadline.
Hopeless ==
    /\ op.id # 0
    /\ \/ ~Exists(op.id)
       \/ /\ op.pc \in {"detachWait", "deleteDetachWait"}
          /\ cloud[op.id].target # Nil
       \/ op.pc = "attachWait" /\ cloud[op.id].target # op.plan.linode

\* A call or a wait returns an error: MaxFailures times for no reason the
\* model sees, and always when it is hopeless.
CallFails ==
    \/ /\ budget.failures > 0
       /\ budget' = [budget EXCEPT !.failures = @ - 1]
    \/ Hopeless /\ UNCHANGED budget

SpendEdit ==
    /\ budget.edits > 0
    /\ budget' = [budget EXCEPT !.edits = @ - 1]

Put(v, rec) == cloud' = [cloud EXCEPT ![v] = rec]

\* What a call makes of a volume.
Resized(v, size)  == [cloud[v] EXCEPT !.status = "resizing", !.size = size]
Labelled(v, label) == [cloud[v] EXCEPT !.label = label]
Sent(v, target)   == [cloud[v] EXCEPT !.target = target]
Placed(v, linode) == [cloud[v] EXCEPT !.linode = linode, !.target = linode]
Deleted(v)        == [cloud[v] EXCEPT !.status = "none", !.target = Nil]

-----------------------------------------------------------------------------
(* Read, and the plan Terraform makes from the refreshed state. *)

\* Mutant: a volume that is gone is an error.
ReadMutant ==
    /\ op.pc = "idle"
    /\ IF st.id # 0 /\ ~Exists(st.id) THEN Return("error") /\ UNCHANGED st
       ELSE /\ op' = [op EXCEPT !.pc = "planned", !.drift = FALSE,
                                !.pending = st.id # 0 /\ Moving(st.id)]
            /\ st' = IF st.id = 0 THEN st
                     ELSE [FlattenVolume(st.id) EXCEPT !.tainted = st.tainted]
    /\ UNCHANGED <<cloud, config, budget>>

Read ==
    /\ op.pc = "idle"
    /\ op' = [op EXCEPT !.pc = "planned", !.drift = FALSE,
                        !.pending = st.id # 0 /\ Moving(st.id)]
    /\ st' = IF st.id = 0 THEN st
             ELSE IF ~Exists(st.id) THEN NoState
             ELSE [FlattenVolume(st.id) EXCEPT !.tainted = st.tainted]
    /\ UNCHANGED <<cloud, config, budget>>

\* UseStateForUnknown: a linode_id the configuration leaves out is planned
\* as the one in the state, and is unknown only on creation.
PlannedLinodeID ==
    IF config.linode # Null THEN config.linode
    ELSE IF st.id = 0 \/ st.tainted THEN Null ELSE st.linode

Plan ==
    [size |-> config.size, label |-> config.label, linode |-> PlannedLinodeID]

InSync ==
    st.size = Plan.size /\ st.label = Plan.label /\ st.linode = Plan.linode

CreateStep == IF config.clone THEN "clone" ELSE "create"

Begin(pc, then) ==
    op' = [op EXCEPT !.pc = pc, !.id = st.id, !.plan = Plan, !.then = then]

PlanNothing ==
    /\ op.pc = "planned"
    /\ \/ ~config.present /\ st.id = 0
       \/ config.present /\ st.id # 0 /\ ~st.tainted /\ InSync
    /\ Return("ok")
    /\ UNCHANGED <<cloud, config, st, budget>>

PlanCreate ==
    /\ op.pc = "planned" /\ config.present /\ st.id = 0
    /\ Begin(CreateStep, "idle")
    /\ UNCHANGED <<cloud, config, st, budget>>

PlanUpdate ==
    /\ op.pc = "planned" /\ config.present /\ st.id # 0
    /\ ~st.tainted /\ ~InSync
    /\ Begin("resize", "idle")
    /\ UNCHANGED <<cloud, config, st, budget>>

\* Delete, followed by Create when the resource is tainted.
PlanDelete ==
    /\ op.pc = "planned" /\ st.id # 0
    /\ ~config.present \/ st.tainted
    /\ Begin("deleteDetach", IF config.present THEN CreateStep ELSE "idle")
    /\ UNCHANGED <<cloud, config, st, budget>>

-----------------------------------------------------------------------------
(* Create: CreateVolume, and CreateVolumeFromSource. *)

NewVolume(v, size, label, target, cloned) ==
    /\ cloud[v].size = 0            \* the API never reuses an id
    /\ \A w \in VolumeIds : w < v => cloud[w].size > 0
    /\ Put(v, [status |-> "creating", size |-> size, label |-> label,
               linode |-> Nil, target |-> target, cloned |-> cloned])

CreateVolume ==
    /\ op.pc = "create"
    /\ \E v \in VolumeIds :
          /\ NewVolume(v, op.plan.size, op.plan.label,
                       IF op.plan.linode = Null THEN Nil ELSE op.plan.linode,
                       FALSE)
          /\ op' = [op EXCEPT !.pc = "createWait", !.id = v]
    /\ UNCHANGED <<config, st, budget>>

CreateVolumeActive ==
    /\ op.pc = "createWait" /\ cloud[op.id].status = "active"
    /\ st' = FlattenPlan(op.id, FALSE)
    /\ Return("ok")
    /\ UNCHANGED <<cloud, config, budget>>

\* The wait after CreateVolume fails: the handler returns a nil volume and
\* Create puts nothing into the state.
CreateVolumeTimeout ==
    /\ op.pc = "createWait"
    /\ CallFails /\ Return("error")
    /\ UNCHANGED <<cloud, config, st>>

\* cloneCheck refuses a size smaller than the source's before any call.
CloneCheckFails ==
    /\ op.pc = "clone" /\ op.plan.size < SourceSize
    /\ Return("error")
    /\ UNCHANGED <<cloud, config, st, budget>>

CloneVolume ==
    /\ op.pc = "clone" /\ op.plan.size >= SourceSize
    /\ \E v \in VolumeIds :
          /\ NewVolume(v, SourceSize, op.plan.label, Nil, TRUE)
          /\ op' = [op EXCEPT !.pc = "cloneWait", !.id = v]
    /\ UNCHANGED <<config, st, budget>>

CloneVolumeActive ==
    /\ op.pc = "cloneWait" /\ cloud[op.id].status = "active"
    /\ Goto("cloneUpdate")
    /\ UNCHANGED <<cloud, config, st, budget>>

\* UpdateVolume with the tags, then the resize only if the sizes differ.
CloneUpdateVolume ==
    /\ op.pc = "cloneUpdate" /\ Exists(op.id)
    /\ Put(op.id, Labelled(op.id, op.plan.label))
    /\ Goto(IF op.plan.size # cloud[op.id].size THEN "cloneResize"
            ELSE "cloneAttach")
    /\ UNCHANGED <<config, st, budget>>

CloneResizeVolume ==
    /\ op.pc = "cloneResize" /\ Exists(op.id)
    /\ Put(op.id, Resized(op.id, op.plan.size))
    /\ Goto("cloneResizeWait")
    /\ UNCHANGED <<config, st, budget>>

CloneResizeActive ==
    /\ op.pc = "cloneResizeWait" /\ cloud[op.id].status = "active"
    /\ Goto("cloneAttach")
    /\ UNCHANGED <<cloud, config, st, budget>>

\* AttachVolume when a linode_id is planned (no wait follows), and the save.
CloneAttachVolume ==
    /\ op.pc = "cloneAttach"
    /\ IF op.plan.linode = Null THEN UNCHANGED cloud
       ELSE Exists(op.id) /\ Put(op.id, Sent(op.id, op.plan.linode))
    /\ st' = FlattenPlan(op.id, FALSE)
    /\ Return("ok")
    /\ UNCHANGED <<config, budget>>

\* Mutant: a failure after the clone saves nothing.
CloneStepFailsMutant ==
    /\ op.pc \in {"cloneWait", "cloneUpdate", "cloneResize",
                  "cloneResizeWait", "cloneAttach"}
    /\ CallFails /\ Return("error")
    /\ UNCHANGED <<cloud, config, st>>

\* A failure of any call or wait after CloneVolume: the handler returns the
\* volume it has, Create saves it, and Terraform marks it tainted.
CloneStepFails ==
    /\ op.pc \in {"cloneWait", "cloneUpdate", "cloneResize",
                  "cloneResizeWait", "cloneAttach"}
    /\ op.pc = "cloneAttach" => op.plan.linode # Null
    /\ CallFails
    /\ st' = FlattenPlan(op.id, TRUE)
    /\ Return("error")
    /\ UNCHANGED <<cloud, config>>

-----------------------------------------------------------------------------
(* Update: each step that does not apply is skipped. *)

AfterResize == IF st.label # op.plan.label THEN "update"
               ELSE IF st.linode # op.plan.linode THEN "detach" ELSE "save"
\* Mutant: the attachment is compared only when nothing else changed.
AfterUpdateMutant == "save"
AfterUpdate == IF st.linode # op.plan.linode THEN "detach" ELSE "save"

ResizeSkipped ==
    /\ op.pc = "resize" /\ st.size = op.plan.size
    /\ Goto(AfterResize)
    /\ UNCHANGED <<cloud, config, st, budget>>

\* HandleResize; the API only grows volumes.
ResizeVolume ==
    /\ op.pc = "resize" /\ Exists(op.id) /\ st.size # op.plan.size
    /\ op.plan.size >= cloud[op.id].size
    /\ Put(op.id, Resized(op.id, op.plan.size))
    /\ Goto("resizeWait")
    /\ UNCHANGED <<config, st, budget>>

ResizeRejected ==
    /\ op.pc = "resize" /\ Exists(op.id) /\ st.size # op.plan.size
    /\ op.plan.size < cloud[op.id].size
    /\ Return("error")
    /\ UNCHANGED <<cloud, config, st, budget>>

ResizeActive ==
    /\ op.pc = "resizeWait" /\ cloud[op.id].status = "active"
    /\ Goto(AfterResize)
    /\ UNCHANGED <<cloud, config, st, budget>>

UpdateVolume ==
    /\ op.pc = "update" /\ Exists(op.id)
    /\ Put(op.id, Labelled(op.id, op.plan.label))
    /\ Goto(AfterUpdate)
    /\ UNCHANGED <<config, st, budget>>

\* DetachVolumeAndWait.  The linode_id of the state is never null, so a
\* change of linode_id always detaches first, whatever the volume is
\* attached to.
DetachVolume ==
    /\ op.pc \in {"detach", "deleteDetach"} /\ Exists(op.id)
    /\ Put(op.id, Sent(op.id, Nil))
    /\ Goto(IF op.pc = "detach" THEN "detachWait" ELSE "deleteDetachWait")
    /\ UNCHANGED <<config, st, budget>>

\* Mutant: the handler does not wait for the detachment.
DetachedMutant ==
    /\ op.pc \in {"detachWait", "deleteDetachWait"} /\ Exists(op.id)
    /\ Goto(IF op.pc = "detachWait" THEN "attach" ELSE "delete")
    /\ UNCHANGED <<cloud, config, st, budget>>

Detached ==
    /\ op.pc \in {"detachWait", "deleteDetachWait"} /\ Exists(op.id)
    /\ cloud[op.id].linode = Nil
    /\ Goto(IF op.pc = "detachWait" THEN "attach" ELSE "delete")
    /\ UNCHANGED <<cloud, config, st, budget>>

AttachVolume ==
    /\ op.pc = "attach" /\ Exists(op.id)
    /\ cloud[op.id].linode = Nil     \* the API refuses an attached volume
    /\ Put(op.id, Sent(op.id, op.plan.linode))
    /\ Goto("attachWait")
    /\ UNCHANGED <<config, st, budget>>

AttachRefused ==
    /\ op.pc = "attach" /\ Exists(op.id) /\ cloud[op.id].linode # Nil
    /\ Return("error")
    /\ UNCHANGED <<cloud, config, st, budget>>

Attached ==
    /\ op.pc = "attachWait" /\ Exists(op.id)
    /\ cloud[op.id].linode = op.plan.linode
    /\ Goto("save")
    /\ UNCHANGED <<cloud, config, st, budget>>

Save ==
    /\ op.pc = "save"
    /\ st' = FlattenPlan(op.id, FALSE)
    /\ Return("ok")
    /\ UNCHANGED <<cloud, config, budget>>

\* The prior state is kept when Update, Delete or the first call of Create
\* fails: the handler returns before State.Set.
StepFails ==
    /\ op.pc \in {"create", "clone", "resize", "resizeWait", "update",
                  "detach", "detachWait", "attach", "attachWait",
                  "deleteDetach", "deleteDetachWait", "delete"}
    /\ op.pc = "resize" => st.size # op.plan.size
    /\ CallFails /\ Return("error")
    /\ UNCHANGED <<cloud, config, st>>

-----------------------------------------------------------------------------
(* Delete; a replacement goes on with Create. *)

DeleteVolume ==
    /\ op.pc = "delete" /\ Exists(op.id)
    /\ cloud[op.id].linode = Nil     \* the API refuses an attached volume
    /\ Put(op.id, Deleted(op.id))
    /\ st' = NoState
    /\ IF op.then = "idle" THEN Return("ok")
       ELSE op' = [op EXCEPT !.pc = op.then, !.id = 0, !.then = "idle"]
    /\ UNCHANGED <<config, budget>>

DeleteRefused ==
    /\ op.pc = "delete" /\ Exists(op.id) /\ cloud[op.id].linode # Nil
    /\ Return("error")
    /\ UNCHANGED <<cloud, config, st, budget>>

-----------------------------------------------------------------------------
(* The API's own steps, the operator, and other resources. *)

VolumeBecomesActive(v) ==
    /\ cloud[v].status \in {"creating", "resizing"}
    /\ Put(v, [cloud[v] EXCEPT !.status = "active"])
    /\ UNCHANGED <<config, st, op, budget>>

VolumeMoves(v) ==
    /\ cloud[v].status \notin {"none", "creating"}
    /\ Moving(v)
    /\ Put(v, [cloud[v] EXCEPT !.linode = cloud[v].target])
    /\ UNCHANGED <<config, st, op, budget>>

\* Only between runs: the plan is made from one configuration.  The block is
\* changed, or removed (what it said does not matter any more).
EditConfig ==
    /\ op.pc = "idle" /\ SpendEdit
    /\ \/ config' \in {c \in ConfigRecord : c.present /\ c.clone = config.clone}
       \/ config' = [config EXCEPT !.present = FALSE]
    /\ op' = [op EXCEPT !.drift = TRUE]
    /\ UNCHANGED <<cloud, st>>

Drift(v, rec) ==
    /\ SpendEdit /\ Exists(v) /\ Put(v, rec)
    /\ op' = [op EXCEPT !.drift = TRUE]
    /\ UNCHANGED <<config, st>>

\* makeVolumeDetacher of an instance configuration, or the deletion of the
\* Linode the volume is on.
DetachedElsewhere(v) ==
    /\ cloud[v].target # Nil
    /\ Drift(v, Placed(v, Nil))

\* A device of an instance configuration names the volume.
AttachedElsewhere(v, l) ==
    /\ cloud[v].status = "active"
    /\ cloud[v].linode = Nil /\ cloud[v].target = Nil
    /\ Drift(v, Placed(v, l))

DeletedElsewhere(v) ==
    /\ cloud[v].linode = Nil
    /\ Drift(v, Deleted(v))

-----------------------------------------------------------------------------
Init ==
    /\ cloud = [v \in VolumeIds |->
                  [status |-> "none", size |-> 0, label |-> NoState.label,
                   linode |-> Nil, target |-> Nil, cloned |-> FALSE]]
    /\ config \in {c \in ConfigRecord : c.present}
    /\ st = NoState
    /\ op = [pc |-> "idle", id |-> 0,
             plan |-> [size |-> config.size, label |-> config.label,
                       linode |-> config.linode],
             then |-> "idle", drift |-> TRUE, pending |-> FALSE, result |-> "none"]
    /\ budget = [failures |-> MaxFailures, edits |-> MaxEdits]

Terraform == Read \/ PlanNothing \/ PlanCreate \/ PlanUpdate \/ PlanDelete

CreateHandler ==
    \/ CreateVolume \/ CreateVolumeActive \/ CreateVolumeTimeout
    \/ CloneCheckFails \/ CloneVolume \/ CloneVolumeActive
    \/ CloneUpdateVolume \/ CloneResizeVolume \/ CloneResizeActive
    \/ CloneAttachVolume \/ CloneStepFails

UpdateHandler ==
    \/ ResizeSkipped \/ ResizeVolume \/ ResizeRejected \/ ResizeActive
    \/ UpdateVolume \/ AttachVolume \/ AttachRefused \/ Attached \/ Save

DeleteHandler == DeleteVolume \/ DeleteRefused

Provider ==
    \/ Terraform \/ CreateHandler \/ UpdateHandler \/ DeleteHandler
    \/ DetachVolume \/ Detached \/ StepFails

API == \E v \in VolumeIds : VolumeBecomesActive(v) \/ VolumeMoves(v)

Environment ==
    \/ EditConfig
    \/ \E v \in VolumeIds : DetachedElsewhere(v) \/ DeletedElsewhere(v)
    \/ \E v \in VolumeIds, l \in Linodes : AttachedElsewhere(v, l)

Next == Provider \/ API \/ Environment

Spec == Init /\ [][Next]_vars

\* The handlers do not stop between two calls, the operator runs apply until
\* nothing is left to do, and the API finishes the work it has accepted.
FairSpec == Spec /\ WF_vars(Provider) /\ \A v \in VolumeIds :
                        /\ WF_vars(VolumeBecomesActive(v))
                        /\ WF_vars(VolumeMoves(v))

-----------------------------------------------------------------------------
(* Properties. *)

Tracked(v) == st.id = v

\* Every volume cloned by Create that still exists is in the Terraform state
\* or in the hands of the handler that runs: CreateVolumeFromSource returns
\* the volume with every error after the clone.
ClonedVolumesTracked ==
    \A v \in VolumeIds :
        Exists(v) /\ cloud[v].cloned => Tracked(v) \/ op.id = v

\* The same of every volume Create made: "We should always set the created
\* resource into state even if there is an error to prevent untracked
\* resources created on the cloud" (Create).
VolumesTracked ==
    \A v \in VolumeIds : Exists(v) => Tracked(v) \/ op.id = v

Whereabouts(v) == {LinodeIDValue(cloud[v].linode), LinodeIDValue(cloud[v].target)}

Applied ==
    IF config.present
    THEN /\ st.id # 0 /\ ~st.tainted /\ Exists(st.id)
         /\ cloud[st.id].size = config.size /\ st.size = config.size
         /\ cloud[st.id].label = config.label /\ st.label = config.label
         /\ config.linode # Null => config.linode \in Whereabouts(st.id)
         /\ st.linode # 0 => st.linode \in Whereabouts(st.id)
    ELSE st.id = 0

RunEndsWell ==
    /\ op.pc # "idle" /\ op'.pc = "idle" /\ op'.result = "ok"
    /\ ~op'.drift /\ ~op'.pending

\* A run that ends without an error, that nobody interfered with, and that
\* found no move of an earlier failed run still pending, leaves the volume
\* as configured, and where the state says or on its way there; a run for a
\* removed block leaves nothing in the state.
SuccessIsTruthful ==
    [][RunEndsWell => Applied']_vars

\* Update attaches, and Delete deletes, only a volume that is attached to
\* nothing and on its way to nothing, even when an earlier attach timed out
\* and is still pending (unless another resource interferes).
CallsOnDetachedVolume ==
    op.pc \in {"attach", "delete"} /\ ~op.drift /\ Exists(op.id) =>
        cloud[op.id].linode = Nil /\ cloud[op.id].target = Nil

\* What no run can reach: the API does not shrink a volume, and a clone is
\* not smaller than its source.
Unreachable ==
    \/ st.id # 0 /\ config.size < cloud[st.id].size
    \/ config.clone /\ config.size < SourceSize

\* Applying again and again brings the volume to its configuration after any
\* partial failure, once failures and edits stop.
EventuallyApplied ==
    <>[](op.result = "ok" /\ Applied)
        \/ <>[](config.present /\ Unreachable)

=============================================================================
