---------------------------- MODULE VolumeProofs ----------------------------
(* Theorems about Volume, for every value of its constants. *)
EXTENDS Volume, TLAPS

USE VolumeAssumption

-----------------------------------------------------------------------------
(* What the helper operators return. *)

LEMMA NoStateType == NoState \in StateRecord
<1>1. (CHOOSE l \in Labels : TRUE) \in Labels
  BY DEF VolumeAssumption
<1> QED
  BY <1>1 DEF NoState, StateRecord

LEMMA FlattenVolumeType ==
    ASSUME TypeOK, NEW v \in VolumeIds
    PROVE  FlattenVolume(v) \in StateRecord
  BY DEF TypeOK, VolumeRecord, FlattenVolume, StateRecord, LinodeIDValue

LEMMA FlattenPlanType ==
    ASSUME TypeOK, NEW v \in VolumeIds, NEW t \in BOOLEAN
    PROVE  FlattenPlan(v, t) \in StateRecord
<1>1. op.plan \in PlanRecord
  BY DEF TypeOK, OpRecord
<1>2. op.plan.linode = Null \/ op.plan.linode \in Linodes \cup {0}
  BY <1>1 DEF PlanRecord
<1> QED
  BY <1>1, <1>2 DEF TypeOK, VolumeRecord, FlattenPlan, StateRecord,
     LinodeIDValue, PlanRecord, VolumeAssumption

LEMMA PlanType ==
    ASSUME TypeOK
    PROVE  Plan \in PlanRecord
  BY DEF TypeOK, ConfigRecord, StateRecord, Plan, PlannedLinodeID, PlanRecord

-----------------------------------------------------------------------------
(* The control invariant: which volume and which plan a handler works on. *)

NewSteps    == {"createWait", "cloneWait", "cloneUpdate", "cloneResize",
                "cloneResizeWait", "cloneAttach"}
CreateSteps == {"create", "clone"} \cup NewSteps
MoveSteps   == {"detach", "detachWait", "attach", "attachWait"}
UpdateSteps == {"resize", "resizeWait", "update", "save"} \cup MoveSteps
DeleteSteps == {"deleteDetach", "deleteDetachWait", "delete"}

Control ==
    /\ op.pc \in {"idle", "planned", "create", "clone"} => op.id = 0
    /\ op.pc \in CreateSteps => st.id = 0
    /\ op.pc \in NewSteps => op.id # 0
    /\ op.pc \in UpdateSteps \cup DeleteSteps => op.id = st.id /\ op.id # 0
    /\ op.pc \in CreateSteps \/ op.then # "idle" =>
            op.plan.linode \in Linodes \cup {Null}
    /\ op.pc \in UpdateSteps =>
            op.plan.linode \in Linodes \/ op.plan.linode = st.linode
    /\ op.pc \in MoveSteps => op.plan.linode # st.linode
    /\ op.pc \notin DeleteSteps => op.then = "idle"

TypedControl == TypeOK /\ Control

-----------------------------------------------------------------------------
(* Type correctness. *)

LEMMA InitType == Init => TypeOK
  BY NoStateType
  DEF Init, TypeOK, NoState, VolumeRecord, ConfigRecord, StateRecord, OpRecord,
      PlanRecord, Steps

LEMMA CallFailsType ==
    ASSUME TypeOK, CallFails
    PROVE  budget' \in [failures : 0 .. MaxFailures, edits : 0 .. MaxEdits]
  BY DEF TypeOK, CallFails, VolumeAssumption

LEMMA TerraformType ==
    ASSUME TypedControl, Terraform
    PROVE  TypeOK'
<1> USE DEF TypedControl
<1>1. CASE Read
  <2>1. st' \in StateRecord
    <3>1. CASE st.id \in VolumeIds /\ Exists(st.id)
      BY <1>1, <3>1, FlattenVolumeType
      DEF TypeOK, Read, StateRecord, VolumeAssumption, VolumeIds
    <3>2. CASE st.id \in VolumeIds /\ ~Exists(st.id)
      BY <1>1, <3>2, NoStateType DEF TypeOK, Read
    <3>3. CASE st.id = 0
      BY <1>1, <3>3 DEF TypeOK, Read
    <3> QED
      BY <3>1, <3>2, <3>3 DEF TypeOK, StateRecord
  <2>2. op' \in OpRecord
    BY <1>1 DEF TypeOK, Read, OpRecord, Steps, Moving
  <2> QED
    BY <1>1, <2>1, <2>2 DEF TypeOK, Read
<1>2. CASE PlanNothing
  BY <1>2 DEF TypeOK, PlanNothing, Return, OpRecord, Steps
<1>3. CASE PlanCreate
  BY <1>3, PlanType
  DEF TypeOK, PlanCreate, Begin, CreateStep, OpRecord, Steps, StateRecord
<1>4. CASE PlanUpdate
  BY <1>4, PlanType
  DEF TypeOK, PlanUpdate, Begin, OpRecord, Steps, StateRecord
<1>5. CASE PlanDelete
  BY <1>5, PlanType
  DEF TypeOK, PlanDelete, Begin, CreateStep, OpRecord, Steps, StateRecord
<1> QED
  BY <1>1, <1>2, <1>3, <1>4, <1>5 DEF Terraform

LEMMA NewVolumeType ==
    ASSUME TypeOK, NEW v \in VolumeIds, NEW size \in Nat, NEW label \in Labels,
           NEW target \in Linodes \cup {Nil}, NEW cloned \in BOOLEAN,
           NewVolume(v, size, label, target, cloned)
    PROVE  cloud' \in [VolumeIds -> VolumeRecord]
  BY DEF TypeOK, NewVolume, Put, VolumeRecord

LEMMA PutType ==
    ASSUME TypeOK, NEW v \in VolumeIds, NEW rec \in VolumeRecord, Put(v, rec)
    PROVE  cloud' \in [VolumeIds -> VolumeRecord]
  BY DEF TypeOK, Put

LEMMA ResizedType ==
    ASSUME TypeOK, NEW v \in VolumeIds, NEW size \in Nat
    PROVE  Resized(v, size) \in VolumeRecord
  BY DEF TypeOK, Resized, VolumeRecord

LEMMA SentType ==
    ASSUME TypeOK, NEW v \in VolumeIds, NEW target \in Linodes \cup {Nil}
    PROVE  Sent(v, target) \in VolumeRecord
  BY DEF TypeOK, Sent, VolumeRecord

LEMMA DeletedType ==
    ASSUME TypeOK, NEW v \in VolumeIds
    PROVE  Deleted(v) \in VolumeRecord
  BY DEF TypeOK, Deleted, VolumeRecord

LEMMA PlacedType ==
    ASSUME TypeOK, NEW v \in VolumeIds, NEW linode \in Linodes \cup {Nil}
    PROVE  Placed(v, linode) \in VolumeRecord
  BY ZenonT(30) DEF TypeOK, Placed, VolumeRecord

LEMMA LabelledType ==
    ASSUME TypeOK, NEW v \in VolumeIds, NEW label \in Labels
    PROVE  Labelled(v, label) \in VolumeRecord
  BY DEF TypeOK, Labelled, VolumeRecord

LEMMA CreateHandlerType ==
    ASSUME TypedControl, CreateHandler
    PROVE  TypeOK'
<1> USE DEF TypedControl
<1>0. /\ op.id \in VolumeIds \cup {0}
      /\ op.plan \in PlanRecord
      /\ op.plan.size \in Nat /\ op.plan.label \in Labels
  BY DEF TypeOK, OpRecord, PlanRecord, VolumeAssumption
<1>1. CASE CreateVolume
  <2>1. PICK v \in VolumeIds :
           /\ NewVolume(v, op.plan.size, op.plan.label,
                        IF op.plan.linode = Null THEN Nil ELSE op.plan.linode,
                        FALSE)
           /\ op' = [op EXCEPT !.pc = "createWait", !.id = v]
    BY <1>1 DEF CreateVolume
  <2>2. (IF op.plan.linode = Null THEN Nil ELSE op.plan.linode)
            \in Linodes \cup {Nil}
    BY <1>1 DEF Control, CreateVolume, CreateSteps
  <2>3. cloud' \in [VolumeIds -> VolumeRecord]
    BY <1>0, <2>1, <2>2, NewVolumeType
  <2> QED
    BY <1>1, <2>1, <2>3 DEF TypeOK, CreateVolume, OpRecord, Steps
<1>2. CASE CreateVolumeActive
  BY <1>0, <1>2, FlattenPlanType
  DEF TypeOK, Control, CreateVolumeActive, NewSteps, Return, OpRecord, Steps
<1>3. CASE CreateVolumeTimeout
  BY <1>3, CallFailsType DEF TypeOK, CreateVolumeTimeout, Return, OpRecord, Steps
<1>4. CASE CloneCheckFails
  BY <1>4 DEF TypeOK, CloneCheckFails, Return, OpRecord, Steps
<1>5. CASE CloneVolume
  <2>1. PICK v \in VolumeIds :
           /\ NewVolume(v, SourceSize, op.plan.label, Nil, TRUE)
           /\ op' = [op EXCEPT !.pc = "cloneWait", !.id = v]
    BY <1>5 DEF CloneVolume
  <2>2. cloud' \in [VolumeIds -> VolumeRecord]
    BY <1>0, <2>1, NewVolumeType DEF VolumeAssumption
  <2> QED
    BY <1>5, <2>1, <2>2 DEF TypeOK, CloneVolume, OpRecord, Steps
<1>6. CASE CloneVolumeActive
  BY <1>6 DEF TypeOK, CloneVolumeActive, Goto, OpRecord, Steps
<1>7. CASE CloneUpdateVolume
  <2>1. cloud' \in [VolumeIds -> VolumeRecord]
    BY <1>0, <1>7, LabelledType, PutType DEF Control, NewSteps, CloneUpdateVolume
  <2> QED
    BY <1>7, <2>1 DEF TypeOK, CloneUpdateVolume, Goto, OpRecord, Steps
<1>8. CASE CloneResizeVolume
  <2>1. cloud' \in [VolumeIds -> VolumeRecord]
    BY <1>0, <1>8, ResizedType, PutType DEF Control, NewSteps, CloneResizeVolume
  <2> QED
    BY <1>8, <2>1 DEF TypeOK, CloneResizeVolume, Goto, OpRecord, Steps
<1>9. CASE CloneResizeActive
  BY <1>9 DEF TypeOK, CloneResizeActive, Goto, OpRecord, Steps
<1>10. CASE CloneAttachVolume
  <2>1. op.id \in VolumeIds /\ op.plan.linode \in Linodes \cup {Null}
    BY <1>0, <1>10 DEF Control, CloneAttachVolume, CreateSteps, NewSteps
  <2>2. cloud' \in [VolumeIds -> VolumeRecord]
    BY <1>10, <2>1, SentType, PutType DEF TypeOK, CloneAttachVolume
  <2>3. st' \in StateRecord
    BY <1>10, <2>1, FlattenPlanType DEF CloneAttachVolume
  <2> QED
    BY <1>10, <2>2, <2>3 DEF TypeOK, CloneAttachVolume, Return, OpRecord, Steps
<1>11. CASE CloneStepFails
  BY <1>0, <1>11, FlattenPlanType, CallFailsType
  DEF TypeOK, Control, NewSteps, CloneStepFails, Return, OpRecord, Steps
<1> QED
  BY <1>1, <1>2, <1>3, <1>4, <1>5, <1>6, <1>7, <1>8, <1>9, <1>10, <1>11
  DEF CreateHandler

LEMMA UpdateHandlerType ==
    ASSUME TypedControl, UpdateHandler
    PROVE  TypeOK'
<1> USE DEF TypedControl
<1>0. /\ op.id \in VolumeIds \cup {0}
      /\ op.plan \in PlanRecord
      /\ op.plan.size \in Nat /\ op.plan.label \in Labels
  BY DEF TypeOK, OpRecord, PlanRecord, VolumeAssumption
<1>1. AfterResize \in Steps /\ AfterUpdate \in Steps
  BY DEF AfterResize, AfterUpdate, Steps
<1>2. op.pc \in UpdateSteps => op.id \in VolumeIds
  BY <1>0 DEF Control
<1>3. CASE ResizeSkipped
  BY <1>1, <1>3 DEF TypeOK, ResizeSkipped, Goto, OpRecord
<1>4. CASE ResizeVolume
  <2>1. cloud' \in [VolumeIds -> VolumeRecord]
    BY <1>0, <1>2, <1>4, ResizedType, PutType DEF ResizeVolume, UpdateSteps
  <2> QED
    BY <1>4, <2>1 DEF TypeOK, ResizeVolume, Goto, OpRecord, Steps
<1>5. CASE ResizeRejected
  BY <1>5 DEF TypeOK, ResizeRejected, Return, OpRecord, Steps
<1>6. CASE ResizeActive
  BY <1>1, <1>6 DEF TypeOK, ResizeActive, Goto, OpRecord
<1>7. CASE UpdateVolume
  <2>1. cloud' \in [VolumeIds -> VolumeRecord]
    BY <1>0, <1>2, <1>7, LabelledType, PutType DEF UpdateVolume, UpdateSteps
  <2> QED
    BY <1>1, <1>7, <2>1 DEF TypeOK, UpdateVolume, Goto, OpRecord
<1>8. CASE AttachVolume
  <2>1. op.id \in VolumeIds /\ op.plan.linode \in Linodes
    BY <1>2, <1>8 DEF Control, AttachVolume, UpdateSteps, MoveSteps
  <2>2. cloud' \in [VolumeIds -> VolumeRecord]
    BY <1>8, <2>1, SentType, PutType DEF AttachVolume
  <2> QED
    BY <1>8, <2>2 DEF TypeOK, AttachVolume, Goto, OpRecord, Steps
<1>9. CASE AttachRefused
  BY <1>9 DEF TypeOK, AttachRefused, Return, OpRecord, Steps
<1>10. CASE Attached
  BY <1>10 DEF TypeOK, Attached, Goto, OpRecord, Steps
<1>11. CASE Save
  BY <1>2, <1>11, FlattenPlanType
  DEF TypeOK, Save, UpdateSteps, Return, OpRecord, Steps
<1> QED
  BY <1>3, <1>4, <1>5, <1>6, <1>7, <1>8, <1>9, <1>10, <1>11 DEF UpdateHandler

LEMMA DeleteAndSharedType ==
    ASSUME TypedControl, DeleteHandler \/ DetachVolume \/ Detached \/ StepFails
    PROVE  TypeOK'
<1> USE DEF TypedControl
<1>0. /\ op.id \in VolumeIds \cup {0}
      /\ op.pc \in UpdateSteps \cup DeleteSteps => op.id \in VolumeIds
  BY DEF TypeOK, OpRecord, Control
<1>1. CASE DeleteVolume
  <2>1. op.id \in VolumeIds
    BY <1>0, <1>1 DEF DeleteVolume, DeleteSteps
  <2>2. Deleted(op.id) \in VolumeRecord
    BY <2>1, DeletedType
  <2>3. cloud' \in [VolumeIds -> VolumeRecord]
    <3>1. Put(op.id, Deleted(op.id))
      BY <1>1 DEF DeleteVolume
    <3> QED
      BY <2>1, <2>2, <3>1, PutType
  <2>4. op' \in OpRecord
    <3>1. CASE Return("ok")
      BY <3>1 DEF TypeOK, Return, OpRecord, Steps
    <3>2. CASE op' = [op EXCEPT !.pc = op.then, !.id = 0, !.then = "idle"]
      BY <3>2 DEF TypeOK, OpRecord, Steps
    <3> QED
      BY <1>1, <3>1, <3>2 DEF DeleteVolume
  <2> QED
    BY <1>1, <2>3, <2>4, NoStateType DEF TypeOK, DeleteVolume
<1>2. CASE DeleteRefused
  BY <1>2 DEF TypeOK, DeleteRefused, Return, OpRecord, Steps
<1>3. CASE DetachVolume
  <2>1. op.id \in VolumeIds
    BY <1>0, <1>3 DEF DetachVolume, UpdateSteps, MoveSteps, DeleteSteps
  <2>2. cloud' \in [VolumeIds -> VolumeRecord]
    BY <1>3, <2>1, SentType, PutType DEF DetachVolume
  <2> QED
    BY <1>3, <2>2 DEF TypeOK, DetachVolume, Goto, OpRecord, Steps
<1>4. CASE Detached
  BY <1>4 DEF TypeOK, Detached, Goto, OpRecord, Steps
<1>5. CASE StepFails
  BY <1>5, CallFailsType DEF TypeOK, StepFails, Return, OpRecord, Steps
<1> QED
  BY <1>1, <1>2, <1>3, <1>4, <1>5 DEF DeleteHandler

LEMMA SpendEditType ==
    ASSUME TypeOK, SpendEdit
    PROVE  budget' \in [failures : 0 .. MaxFailures, edits : 0 .. MaxEdits]
  BY DEF TypeOK, SpendEdit, VolumeAssumption

LEMMA DriftType ==
    ASSUME TypeOK, NEW v \in VolumeIds, NEW rec \in VolumeRecord, Drift(v, rec)
    PROVE  TypeOK'
<1>1. cloud' \in [VolumeIds -> VolumeRecord]
  BY PutType DEF Drift
<1>2. budget' \in [failures : 0 .. MaxFailures, edits : 0 .. MaxEdits]
  BY SpendEditType DEF Drift
<1> QED
  BY <1>1, <1>2 DEF TypeOK, Drift, OpRecord

LEMMA OutsideType ==
    ASSUME TypeOK, API \/ Environment
    PROVE  TypeOK'
<1>1. ASSUME NEW v \in VolumeIds, VolumeBecomesActive(v)
      PROVE  TypeOK'
  <2>1. [cloud[v] EXCEPT !.status = "active"] \in VolumeRecord
    BY DEF TypeOK, VolumeRecord
  <2> QED
    BY <1>1, <2>1, PutType DEF TypeOK, VolumeBecomesActive
<1>2. ASSUME NEW v \in VolumeIds, VolumeMoves(v)
      PROVE  TypeOK'
  <2>1. [cloud[v] EXCEPT !.linode = cloud[v].target] \in VolumeRecord
    BY DEF TypeOK, VolumeRecord
  <2> QED
    BY <1>2, <2>1, PutType DEF TypeOK, VolumeMoves
<1>3. ASSUME NEW v \in VolumeIds, DetachedElsewhere(v)
      PROVE  TypeOK'
  BY <1>3, PlacedType, DriftType DEF DetachedElsewhere
<1>4. ASSUME NEW v \in VolumeIds, DeletedElsewhere(v)
      PROVE  TypeOK'
  BY <1>4, DeletedType, DriftType DEF DeletedElsewhere
<1>5. ASSUME NEW v \in VolumeIds, NEW l \in Linodes, AttachedElsewhere(v, l)
      PROVE  TypeOK'
  BY <1>5, PlacedType, DriftType DEF AttachedElsewhere
<1>6. CASE EditConfig
  <2>1. config' \in ConfigRecord
    BY <1>6 DEF TypeOK, EditConfig, ConfigRecord
  <2>2. op' \in OpRecord
    BY <1>6 DEF TypeOK, EditConfig, OpRecord
  <2> QED
    BY <1>6, <2>1, <2>2, SpendEditType DEF TypeOK, EditConfig
<1> QED
  BY <1>1, <1>2, <1>3, <1>4, <1>5, <1>6 DEF API, Environment

-----------------------------------------------------------------------------
(* The control invariant is kept by every step. *)

LEMMA InitControl == Init => Control
  BY DEF Init, Control, NoState, CreateSteps, NewSteps, UpdateSteps, MoveSteps,
         DeleteSteps

LEMMA TerraformControl ==
    ASSUME TypedControl, Terraform
    PROVE  Control'
<1> USE DEF TypedControl, CreateSteps, NewSteps, UpdateSteps, MoveSteps,
            DeleteSteps
<1>0. /\ op.then \in {"idle", "create", "clone"}
      /\ config.linode \in Linodes \cup {Null}
      /\ st.linode \in Linodes \cup {0}
  BY DEF TypeOK, OpRecord, ConfigRecord, StateRecord
<1>1. CASE Read
  BY <1>1 DEF TypeOK, OpRecord, Control, Read
<1>2. CASE PlanNothing
  BY <1>2 DEF TypeOK, OpRecord, Control, PlanNothing, Return
<1>3. CASE PlanCreate
  BY <1>0, <1>3
  DEF TypeOK, OpRecord, Control, PlanCreate, Begin, CreateStep, Plan,
      PlannedLinodeID
<1>4. CASE PlanUpdate
  BY <1>0, <1>4
  DEF TypeOK, OpRecord, Control, PlanUpdate, Begin, Plan, PlannedLinodeID
<1>5. CASE PlanDelete
  BY <1>0, <1>5
  DEF TypeOK, OpRecord, Control, PlanDelete, Begin, CreateStep, Plan,
      PlannedLinodeID
<1> QED
  BY <1>1, <1>2, <1>3, <1>4, <1>5 DEF Terraform

LEMMA CreateHandlerControl ==
    ASSUME TypedControl, CreateHandler
    PROVE  Control'
<1> USE DEF TypedControl, CreateSteps, NewSteps, UpdateSteps, MoveSteps,
            DeleteSteps
<1>1. CASE CreateVolume
  BY <1>1 DEF TypeOK, OpRecord, Control, CreateVolume, VolumeIds
<1>2. CASE CreateVolumeActive
  BY <1>2 DEF TypeOK, OpRecord, Control, CreateVolumeActive, Return
<1>3. CASE CreateVolumeTimeout
  BY <1>3 DEF TypeOK, OpRecord, Control, CreateVolumeTimeout, Return
<1>4. CASE CloneCheckFails
  BY <1>4 DEF TypeOK, OpRecord, Control, CloneCheckFails, Return
<1>5. CASE CloneVolume
  BY <1>5 DEF TypeOK, OpRecord, Control, CloneVolume, VolumeIds
<1>6. CASE CloneVolumeActive
  BY <1>6 DEF TypeOK, OpRecord, Control, CloneVolumeActive, Goto
<1>7. CASE CloneUpdateVolume
  BY <1>7 DEF TypeOK, OpRecord, Control, CloneUpdateVolume, Goto
<1>8. CASE CloneResizeVolume
  BY <1>8 DEF TypeOK, OpRecord, Control, CloneResizeVolume, Goto
<1>9. CASE CloneResizeActive
  BY <1>9 DEF TypeOK, OpRecord, Control, CloneResizeActive, Goto
<1>10. CASE CloneAttachVolume
  BY <1>10 DEF TypeOK, OpRecord, Control, CloneAttachVolume, Return
<1>11. CASE CloneStepFails
  BY <1>11 DEF TypeOK, OpRecord, Control, CloneStepFails, Return
<1> QED
  BY <1>1, <1>2, <1>3, <1>4, <1>5, <1>6, <1>7, <1>8, <1>9, <1>10, <1>11
  DEF CreateHandler

LEMMA UpdateHandlerControl ==
    ASSUME TypedControl, UpdateHandler
    PROVE  Control'
<1> USE DEF TypedControl, CreateSteps, NewSteps, UpdateSteps, MoveSteps,
            DeleteSteps
<1>1. CASE ResizeSkipped
  BY <1>1 DEF TypeOK, OpRecord, Control, ResizeSkipped, Goto, AfterResize
<1>2. CASE ResizeVolume
  BY <1>2 DEF TypeOK, OpRecord, Control, ResizeVolume, Goto
<1>3. CASE ResizeRejected
  BY <1>3 DEF TypeOK, OpRecord, Control, ResizeRejected, Return
<1>4. CASE ResizeActive
  BY <1>4 DEF TypeOK, OpRecord, Control, ResizeActive, Goto, AfterResize
<1>5. CASE UpdateVolume
  BY <1>5 DEF TypeOK, OpRecord, Control, UpdateVolume, Goto, AfterUpdate
<1>6. CASE AttachVolume
  BY <1>6 DEF TypeOK, OpRecord, Control, AttachVolume, Goto
<1>7. CASE AttachRefused
  BY <1>7 DEF TypeOK, OpRecord, Control, AttachRefused, Return
<1>8. CASE Attached
  BY <1>8 DEF TypeOK, OpRecord, Control, Attached, Goto
<1>9. CASE Save
  BY <1>9 DEF TypeOK, OpRecord, Control, Save, Return
<1> QED
  BY <1>1, <1>2, <1>3, <1>4, <1>5, <1>6, <1>7, <1>8, <1>9 DEF UpdateHandler

LEMMA DeleteAndSharedControl ==
    ASSUME TypedControl, DeleteHandler \/ DetachVolume \/ Detached \/ StepFails
    PROVE  Control'
<1> USE DEF TypedControl, CreateSteps, NewSteps, UpdateSteps, MoveSteps,
            DeleteSteps
<1>1. CASE DeleteVolume
  <2>1. st' = NoState /\ op.pc = "delete"
    BY <1>1 DEF DeleteVolume
  <2>2. CASE Return("ok")
    BY <2>1, <2>2 DEF TypeOK, OpRecord, Control, NoState, Return
  <2>3. CASE /\ op.then # "idle"
             /\ op' = [op EXCEPT !.pc = op.then, !.id = 0, !.then = "idle"]
    BY <2>1, <2>3 DEF TypeOK, OpRecord, Control, NoState
  <2> QED
    BY <1>1, <2>2, <2>3 DEF DeleteVolume
<1>2. CASE DeleteRefused
  BY <1>2 DEF TypeOK, OpRecord, Control, DeleteRefused, Return
<1>3. CASE DetachVolume
  BY <1>3 DEF TypeOK, OpRecord, Control, DetachVolume, Goto
<1>4. CASE Detached
  BY <1>4 DEF TypeOK, OpRecord, Control, Detached, Goto
<1>5. CASE StepFails
  BY <1>5 DEF TypeOK, OpRecord, Control, StepFails, Return
<1> QED
  BY <1>1, <1>2, <1>3, <1>4, <1>5 DEF DeleteHandler

LEMMA OutsideControl ==
    ASSUME TypedControl, API \/ Environment
    PROVE  Control'
<1>1. /\ st' = st
      /\ op' = op \/ op' = [op EXCEPT !.drift = TRUE]
  BY DEF API, VolumeBecomesActive, VolumeMoves, Environment, EditConfig, Drift,
         DetachedElsewhere, DeletedElsewhere, AttachedElsewhere
<1> QED
  BY <1>1 DEF TypedControl, TypeOK, OpRecord, Control

-----------------------------------------------------------------------------
(* Type correctness of the specification. *)

LEMMA TypedControlStep == TypedControl /\ [Next]_vars => TypedControl'
<1> SUFFICES ASSUME TypedControl, [Next]_vars PROVE TypedControl'
  OBVIOUS
<1>1. CASE Terraform
  BY <1>1, TerraformType, TerraformControl DEF TypedControl
<1>2. CASE CreateHandler
  BY <1>2, CreateHandlerType, CreateHandlerControl DEF TypedControl
<1>3. CASE UpdateHandler
  BY <1>3, UpdateHandlerType, UpdateHandlerControl DEF TypedControl
<1>4. CASE DeleteHandler \/ DetachVolume \/ Detached \/ StepFails
  BY <1>4, DeleteAndSharedType, DeleteAndSharedControl DEF TypedControl
<1>5. CASE API \/ Environment
  BY <1>5, OutsideType, OutsideControl DEF TypedControl
<1>6. CASE UNCHANGED vars
  <2>1. TypeOK'
    BY <1>6 DEF vars, TypedControl, TypeOK
  <2>2. Control'
    BY <1>6 DEF vars, TypedControl, Control
  <2> QED
    BY <2>1, <2>2 DEF TypedControl
<1> QED
  BY <1>1, <1>2, <1>3, <1>4, <1>5, <1>6 DEF Next, Provider

\* Every reachable state is well typed (the variables of the model), and every
\* handler works on the volume it created or the one in the state (the id that
\* Create, Update and Delete carry from call to call).
THEOREM TypeCorrect == Spec => [](TypeOK /\ Control)
<1>1. Init => TypedControl
  BY InitType, InitControl DEF TypedControl
<1>2. TypedControl => TypeOK /\ Control
  BY DEF TypedControl
<1> QED
  BY <1>1, <1>2, TypedControlStep, PTL DEF Spec

-----------------------------------------------------------------------------
(* No cloned volume is lost. *)

\* ClonedVolumesTracked is not inductive: CreateVolumeTimeout drops the id of
\* the volume CreateVolume made, which is not a clone.
ClonesKept ==
    /\ TypedControl
    /\ ClonedVolumesTracked
    /\ op.pc = "createWait" => ~cloud[op.id].cloned

\* What every step but the creation of a volume does to the volumes there are.
NoneAppears ==
    \A w \in VolumeIds : /\ Exists(w)' => Exists(w)
                        /\ cloud'[w].cloned = cloud[w].cloned

LEMMA PutKeeps ==
    ASSUME TypeOK, NEW v \in VolumeIds, Exists(v), NEW rec, Put(v, rec),
           rec.cloned = cloud[v].cloned
    PROVE  NoneAppears
  BY DEF TypeOK, Put, NoneAppears, Exists

LEMMA RecordKeeps ==
    ASSUME TypeOK, NEW v \in VolumeIds, NEW x
    PROVE  /\ Resized(v, x).cloned = cloud[v].cloned
           /\ Labelled(v, x).cloned = cloud[v].cloned
           /\ Sent(v, x).cloned = cloud[v].cloned
           /\ Placed(v, x).cloned = cloud[v].cloned
           /\ Deleted(v).cloned = cloud[v].cloned
           /\ [cloud[v] EXCEPT !.status = x].cloned = cloud[v].cloned
           /\ [cloud[v] EXCEPT !.linode = x].cloned = cloud[v].cloned
  BY DEF TypeOK, VolumeRecord, Resized, Labelled, Sent, Placed, Deleted

LEMMA DeletedStatus ==
    ASSUME TypeOK, NEW v \in VolumeIds
    PROVE  Deleted(v).status = "none"
  BY DEF TypeOK, VolumeRecord, Deleted

LEMMA GotoStep ==
    ASSUME TypeOK, NEW pc, Goto(pc)
    PROVE  op'.pc = pc /\ op'.id = op.id /\ op'.drift = op.drift
  BY DEF TypeOK, OpRecord, Goto

LEMMA ReturnStep ==
    ASSUME TypeOK, NEW result, Return(result)
    PROVE  op'.pc = "idle" /\ op'.id = 0
  BY DEF TypeOK, OpRecord, Return

LEMMA HandlersKeep ==
    ASSUME TypedControl,
           CreateHandler \/ UpdateHandler \/ DeleteHandler \/ DetachVolume
               \/ Detached \/ StepFails,
           ~CreateVolume, ~CloneVolume
    PROVE  NoneAppears
<1> USE DEF TypedControl
<1>1. Exists(op.id) /\ op.pc \in NewSteps \cup UpdateSteps \cup DeleteSteps
        => op.id \in VolumeIds
  BY DEF TypeOK, OpRecord, Control
<1>2. CASE UNCHANGED cloud
  BY <1>2 DEF NoneAppears, Exists
<1>3. CASE CloneUpdateVolume
  BY <1>1, <1>3, PutKeeps, RecordKeeps DEF CloneUpdateVolume, NewSteps
<1>4. CASE CloneResizeVolume
  BY <1>1, <1>4, PutKeeps, RecordKeeps DEF CloneResizeVolume, NewSteps
<1>5. CASE CloneAttachVolume /\ op.plan.linode # Null
  BY <1>1, <1>5, PutKeeps, RecordKeeps DEF CloneAttachVolume, NewSteps
<1>6. CASE ResizeVolume
  BY <1>1, <1>6, PutKeeps, RecordKeeps DEF ResizeVolume, UpdateSteps
<1>7. CASE UpdateVolume
  BY <1>1, <1>7, PutKeeps, RecordKeeps DEF UpdateVolume, UpdateSteps
<1>8. CASE AttachVolume
  BY <1>1, <1>8, PutKeeps, RecordKeeps DEF AttachVolume, UpdateSteps, MoveSteps
<1>9. CASE DetachVolume
  BY <1>1, <1>9, PutKeeps, RecordKeeps
  DEF DetachVolume, UpdateSteps, MoveSteps, DeleteSteps
<1>10. CASE DeleteVolume
  <2>1. /\ Exists(op.id) /\ op.pc = "delete"
        /\ Put(op.id, Deleted(op.id))
    BY <1>10 DEF DeleteVolume
  <2> QED
    BY <1>1, <2>1, PutKeeps, RecordKeeps DEF DeleteSteps
<1> QED
  BY <1>2, <1>3, <1>4, <1>5, <1>6, <1>7, <1>8, <1>9, <1>10
  DEF CreateHandler, UpdateHandler, DeleteHandler, CreateVolumeActive,
      CreateVolumeTimeout, CloneCheckFails, CloneVolumeActive,
      CloneResizeActive, CloneAttachVolume, CloneStepFails, ResizeSkipped,
      ResizeRejected, ResizeActive, AttachRefused, Attached, Save,
      DeleteRefused, Detached, StepFails

LEMMA OutsideKeeps ==
    ASSUME TypeOK, API \/ Environment
    PROVE  NoneAppears
<1>1. ASSUME NEW v \in VolumeIds, VolumeBecomesActive(v)
      PROVE  NoneAppears
  BY <1>1, PutKeeps, RecordKeeps DEF VolumeBecomesActive, Exists
<1>2. ASSUME NEW v \in VolumeIds, VolumeMoves(v)
      PROVE  NoneAppears
  BY <1>2, PutKeeps, RecordKeeps DEF VolumeMoves, Exists
<1>3. ASSUME NEW v \in VolumeIds, DetachedElsewhere(v)
      PROVE  NoneAppears
  BY <1>3, PutKeeps, RecordKeeps DEF DetachedElsewhere, Drift
<1>4. ASSUME NEW v \in VolumeIds, DeletedElsewhere(v)
      PROVE  NoneAppears
  BY <1>4, PutKeeps, RecordKeeps DEF DeletedElsewhere, Drift
<1>5. ASSUME NEW v \in VolumeIds, NEW l \in Linodes, AttachedElsewhere(v, l)
      PROVE  NoneAppears
  BY <1>5, PutKeeps, RecordKeeps DEF AttachedElsewhere, Drift
<1>6. CASE EditConfig
  BY <1>6 DEF EditConfig, NoneAppears, Exists
<1> QED
  BY <1>1, <1>2, <1>3, <1>4, <1>5, <1>6 DEF API, Environment

LEMMA ClonesKeptStep == ClonesKept /\ [Next]_vars => ClonesKept'
<1> SUFFICES ASSUME ClonesKept, [Next]_vars PROVE ClonesKept'
  OBVIOUS
<1> USE DEF ClonesKept, TypedControl, CreateSteps, NewSteps, UpdateSteps,
            MoveSteps, DeleteSteps
<1>0. /\ TypedControl'
      /\ cloud \in [VolumeIds -> VolumeRecord]
      /\ op \in OpRecord /\ st \in StateRecord
  BY TypedControlStep DEF TypeOK
<1>1. CASE Terraform
  <2>1. /\ cloud' = cloud
        /\ op.pc \in {"idle", "planned"} /\ op'.pc # "createWait"
    <3>1. CASE Read \/ PlanNothing
      BY <1>0, <3>1 DEF Read, PlanNothing, Return, OpRecord
    <3>2. CASE PlanCreate
      BY <1>0, <3>2 DEF PlanCreate, Begin, CreateStep, OpRecord
    <3>3. CASE PlanUpdate
      BY <1>0, <3>3 DEF PlanUpdate, Begin, OpRecord
    <3>4. CASE PlanDelete
      BY <1>0, <3>4 DEF PlanDelete, Begin, OpRecord
    <3> QED
      BY <1>1, <3>1, <3>2, <3>3, <3>4 DEF Terraform
  <2>2. op.id = 0
    BY <2>1 DEF Control
  <2>3. ASSUME NEW v \in VolumeIds, st.id = v, Exists(v)
        PROVE  st'.id = v
    <3>1. CASE Read
      <4>1. st' = [FlattenVolume(v) EXCEPT !.tainted = st.tainted]
        BY <2>3, <3>1 DEF Read, VolumeIds, VolumeAssumption
      <4> QED
        BY <4>1 DEF FlattenVolume
    <3>2. CASE ~Read
      BY <1>1, <2>3, <3>2
      DEF Terraform, PlanNothing, PlanCreate, PlanUpdate, PlanDelete
    <3> QED
      BY <3>1, <3>2
  <2>4. ClonedVolumesTracked'
    BY <2>1, <2>2, <2>3 DEF ClonedVolumesTracked, Tracked, Exists, VolumeIds
  <2> QED
    BY <1>0, <2>1, <2>4
<1>2. CASE CreateVolume \/ CloneVolume
  <2>1. op.id = 0 /\ st.id = 0
    BY <1>2 DEF Control, CreateVolume, CloneVolume
  <2>2. PICK v \in VolumeIds :
           /\ \A w \in VolumeIds : w # v => cloud'[w] = cloud[w]
           /\ op'.id = v
           /\ op'.pc = "createWait" => ~cloud'[v].cloned
    <3>1. CASE CreateVolume
      BY <1>0, <3>1 DEF CreateVolume, NewVolume, Put, OpRecord
    <3>2. CASE CloneVolume
      BY <1>0, <3>2 DEF CloneVolume, NewVolume, Put, OpRecord
    <3> QED
      BY <1>2, <3>1, <3>2
  <2>3. ClonedVolumesTracked'
    BY <2>1, <2>2 DEF ClonedVolumesTracked, Tracked, Exists, VolumeIds
  <2> QED
    BY <1>0, <2>2, <2>3
<1>3. CASE CreateVolumeTimeout
  <2>1. /\ cloud' = cloud /\ st' = st
        /\ op.pc = "createWait" /\ op'.pc = "idle"
    BY <1>0, <1>3 DEF CreateVolumeTimeout, Return, OpRecord
  <2> QED
    BY <1>0, <2>1 DEF ClonedVolumesTracked, Tracked, Exists
<1>4. CASE CreateVolumeActive \/ CloneAttachVolume \/ CloneStepFails
  <2>1. /\ st'.id = op.id /\ st.id = 0 /\ op'.pc = "idle"
    BY <1>4, ReturnStep
    DEF CreateVolumeActive, CloneAttachVolume, CloneStepFails, FlattenPlan,
        Control
  <2>2. NoneAppears
    BY <1>4, HandlersKeep
    DEF CreateHandler, CreateVolumeActive, CloneAttachVolume, CloneStepFails,
        CreateVolume, CloneVolume
  <2> QED
    BY <1>0, <2>1, <2>2 DEF ClonedVolumesTracked, Tracked, NoneAppears, VolumeIds
<1>5. CASE \/ CloneCheckFails \/ CloneVolumeActive \/ CloneUpdateVolume
           \/ CloneResizeVolume \/ CloneResizeActive
  <2>1. /\ st' = st /\ (op'.id = op.id \/ op.id = 0) /\ op'.pc # "createWait"
    <3>1. CASE CloneCheckFails
      BY <3>1, ReturnStep DEF CloneCheckFails, Control
    <3>2. CASE CloneVolumeActive
      BY <3>2, GotoStep DEF CloneVolumeActive
    <3>3. CASE CloneUpdateVolume
      BY <3>3, GotoStep DEF CloneUpdateVolume
    <3>4. CASE CloneResizeVolume \/ CloneResizeActive
      BY <3>4, GotoStep DEF CloneResizeVolume, CloneResizeActive
    <3> QED
      BY <1>5, <3>1, <3>2, <3>3, <3>4
  <2>2. NoneAppears
    <3>1. CASE CloneCheckFails
      BY <3>1 DEF CloneCheckFails, NoneAppears, Exists
    <3>2. CASE ~CloneCheckFails
      <4>1. op.pc \notin {"create", "clone"}
        BY <1>5, <3>2
        DEF CloneVolumeActive, CloneUpdateVolume, CloneResizeVolume,
            CloneResizeActive
      <4>2. ~CreateVolume /\ ~CloneVolume
        BY <4>1 DEF CreateVolume, CloneVolume
      <4> QED
        BY <1>5, <4>2, HandlersKeep DEF CreateHandler
    <3> QED
      BY <3>1, <3>2
  <2> QED
    BY <1>0, <2>1, <2>2 DEF ClonedVolumesTracked, Tracked, NoneAppears, VolumeIds
<1>6. CASE UpdateHandler \/ DetachVolume \/ Detached
  <2>1. op.id = st.id /\ op'.pc # "createWait"
    BY <1>0, <1>6
    DEF UpdateHandler, ResizeSkipped, ResizeVolume, ResizeRejected,
        ResizeActive, UpdateVolume, AttachVolume, AttachRefused, Attached, Save,
        DetachVolume, Detached, Goto, Return, OpRecord, Control, AfterResize,
        AfterUpdate
  <2>2. st'.id = st.id
    BY <1>6, <2>1
    DEF UpdateHandler, ResizeSkipped, ResizeVolume, ResizeRejected,
        ResizeActive, UpdateVolume, AttachVolume, AttachRefused, Attached, Save,
        DetachVolume, Detached, FlattenPlan
  <2>3. op.pc \in UpdateSteps \cup DeleteSteps
    BY <1>6
    DEF UpdateHandler, ResizeSkipped, ResizeVolume, ResizeRejected,
        ResizeActive, UpdateVolume, AttachVolume, AttachRefused, Attached, Save,
        DetachVolume, Detached
  <2>4. NoneAppears
    BY <1>6, <2>3, HandlersKeep DEF CreateVolume, CloneVolume
  <2> QED
    BY <1>0, <2>1, <2>2, <2>4 DEF ClonedVolumesTracked, Tracked, NoneAppears
<1>7. CASE DeleteVolume
  <2>1. op.id = st.id /\ op'.pc # "createWait"
    <3>1. op.then \in {"idle", "create", "clone"}
      BY <1>0 DEF OpRecord
    <3>2. op.pc = "delete"
      BY <1>7 DEF DeleteVolume
    <3>3. op'.pc = "idle" \/ op'.pc = op.then
      BY <1>0, <1>7 DEF DeleteVolume, Return, OpRecord
    <3> QED
      BY <3>1, <3>2, <3>3 DEF Control
  <2>2. \A v \in VolumeIds : /\ Exists(v)' => Exists(v) /\ v # op.id
                            /\ cloud'[v].cloned = cloud[v].cloned
    <3>1. Put(op.id, Deleted(op.id)) /\ op.id \in VolumeIds
      BY <1>0, <1>7 DEF DeleteVolume, OpRecord, Control
    <3>2. /\ Deleted(op.id).status = "none"
          /\ Deleted(op.id).cloned = cloud[op.id].cloned
      BY <1>0, <3>1, RecordKeeps, DeletedStatus
    <3> QED
      BY <1>0, <3>1, <3>2 DEF Put, Exists
  <2> QED
    BY <1>0, <2>1, <2>2 DEF ClonedVolumesTracked, Tracked
<1>8. CASE DeleteRefused \/ StepFails
  <2>1. /\ cloud' = cloud /\ st' = st /\ op'.pc = "idle"
        /\ op.id = st.id \/ op.id = 0
    BY <1>0, <1>8 DEF DeleteRefused, StepFails, Return, OpRecord, Control
  <2> QED
    BY <1>0, <2>1 DEF ClonedVolumesTracked, Tracked, Exists, VolumeIds
<1>9. CASE API \/ Environment
  <2>1. /\ st' = st /\ op'.id = op.id /\ op'.pc = op.pc
    BY <1>0, <1>9
    DEF API, VolumeBecomesActive, VolumeMoves, Environment, EditConfig, Drift,
        DetachedElsewhere, DeletedElsewhere, AttachedElsewhere, OpRecord
  <2>2. op.pc = "createWait" => op.id \in VolumeIds
    BY <1>0 DEF OpRecord, Control
  <2>3. NoneAppears
    BY <1>9, OutsideKeeps
  <2> QED
    BY <1>0, <2>1, <2>2, <2>3 DEF ClonedVolumesTracked, Tracked, NoneAppears
<1>10. CASE UNCHANGED vars
  BY <1>0, <1>10 DEF vars, ClonedVolumesTracked, Tracked, Exists
<1> QED
  BY <1>1, <1>2, <1>3, <1>4, <1>5, <1>6, <1>7, <1>8, <1>9, <1>10
  DEF Next, Provider, CreateHandler, DeleteHandler

\* Whatever calls fail and whoever interferes, a volume that Create cloned and
\* that still exists is in the Terraform state or in the running handler's
\* hands (CreateVolumeFromSource returns it with every error).
THEOREM ClonesTracked == Spec => []ClonedVolumesTracked
<1>1. Init => ClonesKept
  BY InitType, InitControl
  DEF Init, ClonesKept, TypedControl, ClonedVolumesTracked, Exists
<1>2. ClonesKept => ClonedVolumesTracked
  BY DEF ClonesKept
<1> QED
  BY <1>1, <1>2, ClonesKeptStep, PTL DEF Spec

-----------------------------------------------------------------------------
(* Update attaches, and Delete deletes, only a detached volume. *)

\* While the handler waits for the detachment, and after it, the volume is
\* not on its way anywhere, unless another resource interfered.
Detaching ==
    op.pc \in {"detachWait", "deleteDetachWait", "attach", "delete"}
        /\ ~op.drift /\ Exists(op.id) => cloud[op.id].target = Nil

DetachKept == TypedControl /\ Detaching /\ CallsOnDetachedVolume

\* The steps that bring the control to where DetachKept says something.
DetachSteps == {"detachWait", "deleteDetachWait", "attach", "delete"}

LEMMA ElsewhereDrifts ==
    ASSUME TypeOK, Environment
    PROVE  op'.drift
  BY DEF TypeOK, OpRecord, Environment, EditConfig, DetachedElsewhere,
         DeletedElsewhere, AttachedElsewhere, Drift

LEMMA APIKeepsDetached ==
    ASSUME TypeOK, API, NEW v \in VolumeIds, cloud[v].target = Nil
    PROVE  /\ op' = op
           /\ cloud'[v].target = Nil
           /\ cloud[v].linode = Nil => cloud'[v].linode = Nil
           /\ Exists(v)' => Exists(v)
<1>1. PICK w \in VolumeIds : VolumeBecomesActive(w) \/ VolumeMoves(w)
  BY DEF API
<1>2. CASE VolumeBecomesActive(w)
  BY <1>2 DEF TypeOK, VolumeRecord, VolumeBecomesActive, Put, Exists
<1>3. CASE VolumeMoves(w)
  BY <1>3 DEF TypeOK, VolumeRecord, VolumeMoves, Put, Exists
<1> QED
  BY <1>1, <1>2, <1>3

\* Every other step of the provider leaves DetachSteps or stays out of them.
LEMMA OtherStepsOut ==
    ASSUME TypedControl, Provider, ~DetachVolume, ~Detached
    PROVE  op'.pc \notin DetachSteps
<1> USE DEF TypedControl, DetachSteps
<1>1. CASE Terraform
  <2>1. CASE Read
    BY <2>1 DEF TypeOK, OpRecord, Read
  <2>2. CASE PlanNothing
    BY <2>2, ReturnStep DEF PlanNothing
  <2>3. CASE PlanCreate
    BY <2>3 DEF TypeOK, OpRecord, PlanCreate, Begin, CreateStep
  <2>4. CASE PlanUpdate
    BY <2>4 DEF TypeOK, OpRecord, PlanUpdate, Begin
  <2>5. CASE PlanDelete
    BY <2>5 DEF TypeOK, OpRecord, PlanDelete, Begin
  <2> QED
    BY <1>1, <2>1, <2>2, <2>3, <2>4, <2>5 DEF Terraform
<1>2. CASE CreateVolume \/ CloneVolume
  BY <1>2 DEF TypeOK, OpRecord, CreateVolume, CloneVolume
<1>3. CASE \/ CreateVolumeActive \/ CreateVolumeTimeout \/ CloneCheckFails
           \/ CloneAttachVolume \/ CloneStepFails
  BY <1>3, ReturnStep
  DEF CreateVolumeActive, CreateVolumeTimeout, CloneCheckFails,
      CloneAttachVolume, CloneStepFails
<1>4. CASE \/ CloneVolumeActive \/ CloneUpdateVolume \/ CloneResizeVolume
           \/ CloneResizeActive
  <2>1. CASE CloneUpdateVolume
    BY <2>1, GotoStep DEF CloneUpdateVolume
  <2>2. CASE CloneVolumeActive \/ CloneResizeVolume \/ CloneResizeActive
    BY <2>2, GotoStep DEF CloneVolumeActive, CloneResizeVolume, CloneResizeActive
  <2> QED
    BY <1>4, <2>1, <2>2
<1>5. CASE UpdateHandler
  <2>1. AfterResize \notin DetachSteps /\ AfterUpdate \notin DetachSteps
    BY DEF AfterResize, AfterUpdate
  <2>2. CASE ResizeSkipped \/ ResizeActive \/ UpdateVolume
    BY <2>1, <2>2, GotoStep DEF ResizeSkipped, ResizeActive, UpdateVolume
  <2>3. CASE ResizeVolume \/ AttachVolume \/ Attached
    BY <2>3, GotoStep DEF ResizeVolume, AttachVolume, Attached
  <2>4. CASE ResizeRejected \/ AttachRefused \/ Save
    BY <2>4, ReturnStep DEF ResizeRejected, AttachRefused, Save
  <2> QED
    BY <1>5, <2>2, <2>3, <2>4 DEF UpdateHandler
<1>6. CASE DeleteVolume
  <2>1. CASE Return("ok")
    BY <2>1, ReturnStep
  <2>2. CASE op' = [op EXCEPT !.pc = op.then, !.id = 0, !.then = "idle"]
    BY <2>2 DEF TypeOK, OpRecord
  <2> QED
    BY <1>6, <2>1, <2>2 DEF DeleteVolume
<1>7. CASE DeleteRefused \/ StepFails
  BY <1>7, ReturnStep DEF DeleteRefused, StepFails
<1> QED
  BY <1>1, <1>2, <1>3, <1>4, <1>5, <1>6, <1>7
  DEF Provider, CreateHandler, DeleteHandler

LEMMA DetachKeptStep == DetachKept /\ [Next]_vars => DetachKept'
<1> SUFFICES ASSUME DetachKept, [Next]_vars PROVE DetachKept'
  OBVIOUS
<1> USE DEF DetachKept, TypedControl
<1>0. TypedControl'
  BY TypedControlStep
<1>1. CASE Provider /\ ~DetachVolume /\ ~Detached
  <2>1. op'.pc \notin DetachSteps
    BY <1>1, OtherStepsOut
  <2> QED
    BY <1>0, <2>1 DEF Detaching, CallsOnDetachedVolume, DetachSteps
<1>2. CASE DetachVolume
  <2>1. op.id \in VolumeIds /\ op.pc \in {"detach", "deleteDetach"}
    BY <1>2
    DEF TypeOK, OpRecord, Control, DetachVolume, UpdateSteps, MoveSteps,
        DeleteSteps
  <2>2. op'.id = op.id /\ op'.pc \in {"detachWait", "deleteDetachWait"}
    <3>1. CASE op.pc = "detach"
      BY <1>2, <3>1, GotoStep DEF DetachVolume
    <3>2. CASE op.pc = "deleteDetach"
      BY <1>2, <3>2, GotoStep DEF DetachVolume
    <3> QED
      BY <2>1, <3>1, <3>2
  <2>3. cloud'[op.id].target = Nil
    <3>1. Put(op.id, Sent(op.id, Nil))
      BY <1>2 DEF DetachVolume
    <3>2. \A v \in VolumeIds : Sent(v, Nil).target = Nil
      BY DEF TypeOK, VolumeRecord, Sent
    <3> QED
      BY <2>1, <3>1, <3>2 DEF TypeOK, Put
  <2> QED
    BY <1>0, <2>2, <2>3 DEF Detaching, CallsOnDetachedVolume
<1>3. CASE Detached
  <2>1. /\ op.pc \in {"detachWait", "deleteDetachWait"} /\ Exists(op.id)
        /\ cloud[op.id].linode = Nil /\ cloud' = cloud
    BY <1>3 DEF Detached
  <2>2. op'.id = op.id /\ op'.drift = op.drift
    BY <1>3, GotoStep DEF Detached
  <2> QED
    BY <1>0, <2>1, <2>2 DEF Detaching, CallsOnDetachedVolume, Exists
<1>4. CASE API
  <2>1. op.pc \in DetachSteps => op.id \in VolumeIds
    BY DEF TypeOK, OpRecord, Control, DetachSteps, UpdateSteps, MoveSteps,
           DeleteSteps
  <2>2. op' = op
    BY <1>4 DEF API, VolumeBecomesActive, VolumeMoves
  <2>3. op.id \in VolumeIds => (Exists(op.id)' => Exists(op.id))
    BY <1>4, <2>2, OutsideKeeps DEF NoneAppears, Exists
  <2> QED
    BY <1>0, <1>4, <2>1, <2>2, <2>3, APIKeepsDetached
    DEF Detaching, CallsOnDetachedVolume, DetachSteps
<1>5. CASE Environment
  BY <1>0, <1>5, ElsewhereDrifts DEF Detaching, CallsOnDetachedVolume
<1>6. CASE UNCHANGED vars
  BY <1>0, <1>6 DEF vars, Detaching, CallsOnDetachedVolume, Exists
<1> QED
  BY <1>1, <1>2, <1>3, <1>4, <1>5, <1>6 DEF Next

\* AttachVolume in Update and DeleteVolume in Delete are called only for a
\* volume that is attached to nothing and on its way to nothing, unless
\* another resource interfered: DetachVolumeAndWait precedes both, and the
\* detachment it asks for overrides any attachment still pending.
THEOREM DetachedFirst == Spec => []CallsOnDetachedVolume
<1>1. Init => DetachKept
  BY InitType, InitControl
  DEF Init, DetachKept, TypedControl, Detaching, CallsOnDetachedVolume
<1>2. DetachKept => CallsOnDetachedVolume
  BY DEF DetachKept
<1> QED
  BY <1>1, <1>2, DetachKeptStep, PTL DEF Spec

-----------------------------------------------------------------------------
(* A run that ends well is truthful. *)

\* The volume is where l says, or on its way there.
HeadedFor(v, l) == l \notin {0, Null} => cloud[v].target = l

\* A run that nobody interfered with, and that found no pending move.
Undisturbed == op.pc # "idle" /\ ~op.drift /\ ~op.pending

StateRead ==
    op.pc = "planned" /\ st.id # 0 =>
        /\ Exists(st.id)
        /\ cloud[st.id].size = st.size
        /\ cloud[st.id].label = st.label
        /\ HeadedFor(st.id, st.linode)

PlanFollowed ==
    op.pc # "planned" =>
        /\ op.plan.size = config.size
        /\ op.plan.label = config.label
        /\ config.linode # Null => op.plan.linode = config.linode
        /\ config.present <=> op.pc \notin DeleteSteps \/ op.then # "idle"

\* The steps before which the handler has brought the volume to the planned
\* size, to the planned label, and on its way to the planned Linode.
SizedSteps    == {"createWait", "cloneResizeWait", "cloneAttach",
                  "resizeWait", "update", "save"} \cup MoveSteps
LabelledSteps == {"createWait", "cloneResize", "cloneResizeWait",
                  "cloneAttach", "save"} \cup MoveSteps
SentSteps     == {"createWait", "attachWait", "save"}

VolumeFollows ==
    /\ op.pc \in NewSteps \cup UpdateSteps => Exists(op.id)
    /\ op.pc \in SizedSteps => cloud[op.id].size = op.plan.size
    /\ op.pc \in LabelledSteps => cloud[op.id].label = op.plan.label
    /\ op.pc \in SentSteps => HeadedFor(op.id, op.plan.linode)
    /\ op.pc = "resize" => cloud[op.id].size = st.size
    /\ op.pc \in {"resize", "resizeWait"} => cloud[op.id].label = st.label
    /\ op.pc \in {"resize", "resizeWait", "update"} =>
            HeadedFor(op.id, st.linode)

RunFaithful == Undisturbed => StateRead /\ PlanFollowed /\ VolumeFollows

FaithfulKept == TypedControl /\ RunFaithful

\* What every operation but an edit or another resource's call keeps of op.
RunKept == op'.drift = op.drift /\ op'.pending = op.pending

LEMMA GotoRun ==
    ASSUME TypeOK, NEW pc, Goto(pc)
    PROVE  /\ op'.pc = pc /\ op'.id = op.id /\ op'.plan = op.plan
           /\ op'.then = op.then /\ RunKept
  BY DEF TypeOK, OpRecord, Goto, RunKept

LEMMA ReturnRun ==
    ASSUME TypeOK, NEW result, Return(result)
    PROVE  op'.pc = "idle" /\ op'.result = result /\ RunKept
  BY DEF TypeOK, OpRecord, Return, RunKept

LEMMA PutRecord ==
    ASSUME TypeOK, NEW v \in VolumeIds, NEW rec, Put(v, rec)
    PROVE  cloud'[v] = rec
  BY DEF TypeOK, Put

LEMMA RecordMade ==
    ASSUME TypeOK, NEW v \in VolumeIds, NEW x
    PROVE  /\ Resized(v, x).size = x
           /\ Resized(v, x).label = cloud[v].label
           /\ Resized(v, x).target = cloud[v].target
           /\ Resized(v, x).status # "none"
           /\ Labelled(v, x).size = cloud[v].size
           /\ Labelled(v, x).label = x
           /\ Labelled(v, x).target = cloud[v].target
           /\ Labelled(v, x).status = cloud[v].status
           /\ Sent(v, x).size = cloud[v].size
           /\ Sent(v, x).label = cloud[v].label
           /\ Sent(v, x).target = x
           /\ Sent(v, x).status = cloud[v].status
  BY DEF TypeOK, VolumeRecord, Resized, Labelled, Sent

\* The API's own steps change neither what a volume is like nor where it goes.
LEMMA APIFaithful ==
    ASSUME FaithfulKept, API
    PROVE  RunFaithful'
<1> USE DEF FaithfulKept, TypedControl
<1>1. /\ op' = op /\ st' = st /\ config' = config
      /\ \A v \in VolumeIds : /\ Exists(v)' <=> Exists(v)
                              /\ cloud'[v].size = cloud[v].size
                              /\ cloud'[v].label = cloud[v].label
                              /\ cloud'[v].target = cloud[v].target
  <2>1. PICK w \in VolumeIds : VolumeBecomesActive(w) \/ VolumeMoves(w)
    BY DEF API
  <2>2. CASE VolumeBecomesActive(w)
    BY <2>2 DEF TypeOK, VolumeRecord, VolumeBecomesActive, Put, Exists
  <2>3. CASE VolumeMoves(w)
    BY <2>3 DEF TypeOK, VolumeRecord, VolumeMoves, Put, Exists
  <2> QED
    BY <2>1, <2>2, <2>3
<1>2. /\ st.id # 0 => st.id \in VolumeIds
      /\ op.pc \in NewSteps \cup UpdateSteps => op.id \in VolumeIds
  BY DEF TypeOK, StateRecord, OpRecord, Control
<1>3. Undisturbed' <=> Undisturbed
  BY <1>1 DEF Undisturbed
<1>4. StateRead => StateRead'
  BY <1>1, <1>2 DEF StateRead, HeadedFor, Exists
<1>5. PlanFollowed => PlanFollowed'
  BY <1>1 DEF PlanFollowed
<1>6. VolumeFollows => VolumeFollows'
  <2>1. CASE op.pc \in NewSteps \cup UpdateSteps
    BY <1>1, <1>2, <2>1 DEF VolumeFollows, HeadedFor, Exists
  <2>2. CASE op.pc \notin NewSteps \cup UpdateSteps
    BY <1>1, <2>2
    DEF VolumeFollows, NewSteps, UpdateSteps, MoveSteps, SizedSteps,
        LabelledSteps, SentSteps
  <2> QED
    BY <2>1, <2>2
<1> QED
  BY <1>3, <1>4, <1>5, <1>6 DEF RunFaithful

LEMMA EnvironmentFaithful ==
    ASSUME FaithfulKept, Environment
    PROVE  RunFaithful'
  BY ElsewhereDrifts DEF FaithfulKept, TypedControl, RunFaithful, Undisturbed

\* Read copies the volume into the state, and the plan copies the configuration.
LEMMA TerraformFaithful ==
    ASSUME FaithfulKept, Terraform
    PROVE  RunFaithful'
<1> USE DEF FaithfulKept, TypedControl, NewSteps, UpdateSteps, MoveSteps,
            DeleteSteps, SizedSteps, LabelledSteps, SentSteps
<1>0. op \in OpRecord /\ st \in StateRecord
  BY DEF TypeOK
<1>1. CASE Read
  <2>1. /\ cloud' = cloud /\ op'.pc = "planned"
        /\ st.id # 0 /\ ~op'.pending => cloud[st.id].linode = cloud[st.id].target
    BY <1>0, <1>1 DEF Read, OpRecord, Moving
  <2>2. PlanFollowed' /\ VolumeFollows'
    BY <2>1 DEF PlanFollowed, VolumeFollows
  <2>3. CASE st'.id = 0
    BY <2>2, <2>3 DEF RunFaithful, StateRead
  <2>4. CASE st'.id # 0
    <3>1. /\ st.id # 0 /\ st.id \in VolumeIds /\ Exists(st.id)
          /\ st' = [FlattenVolume(st.id) EXCEPT !.tainted = st.tainted]
      BY <1>0, <1>1, <2>4 DEF Read, StateRecord, NoState
    <3>2. /\ st'.id = st.id /\ st'.size = cloud[st.id].size
          /\ st'.label = cloud[st.id].label
          /\ st'.linode = LinodeIDValue(cloud[st.id].linode)
      BY <3>1 DEF FlattenVolume
    <3>3. ~op'.pending /\ st'.linode \notin {0, Null} => cloud[st.id].target = st'.linode
      BY <2>1, <3>1, <3>2 DEF LinodeIDValue
    <3>4. ~op'.pending => StateRead'
      <4>1. Exists(st.id)'
        BY <2>1, <3>1, <3>2 DEF Exists
      <4> QED
        BY <2>1, <3>1, <3>2, <3>3, <4>1 DEF StateRead, HeadedFor, Exists
    <3> QED
      BY <2>2, <3>4 DEF RunFaithful, Undisturbed
  <2> QED
    BY <2>3, <2>4
<1>2. CASE PlanNothing
  BY <1>2, ReturnRun DEF PlanNothing, RunFaithful, Undisturbed
<1>3. ASSUME NEW pc \in Steps, NEW then, Begin(pc, then), op.pc = "planned"
      PROVE  /\ op'.pc = pc /\ op'.id = st.id /\ op'.plan = Plan
             /\ op'.then = then /\ RunKept
             /\ Undisturbed' => Undisturbed
  BY <1>0, <1>3 DEF Begin, OpRecord, Undisturbed, RunKept
<1>4. /\ Plan.size = config.size /\ Plan.label = config.label
      /\ config.linode # Null => Plan.linode = config.linode
  BY DEF Plan, PlannedLinodeID
<1>5. CASE PlanCreate
  <2>1. op'.pc \in {"create", "clone"} /\ op'.plan = Plan /\ config'.present
        /\ config' = config
    BY <1>3, <1>5 DEF PlanCreate, CreateStep, Steps
  <2> QED
    BY <1>4, <2>1 DEF RunFaithful, StateRead, PlanFollowed, VolumeFollows
<1>6. CASE PlanUpdate
  <2>1. /\ op'.pc = "resize" /\ op'.plan = Plan /\ op'.id = st.id
        /\ config.present /\ (Undisturbed' => Undisturbed)
        /\ cloud' = cloud /\ config' = config /\ st' = st
        /\ st.id # 0 /\ op.pc = "planned"
    BY <1>3, <1>6 DEF PlanUpdate, Steps
  <2>2. PlanFollowed'
    BY <1>4, <2>1 DEF PlanFollowed
  <2>3. StateRead => VolumeFollows'
    BY <2>1 DEF StateRead, VolumeFollows, Exists, HeadedFor
  <2>4. StateRead'
    BY <2>1 DEF StateRead
  <2>5. Undisturbed' => StateRead
    BY <2>1 DEF RunFaithful
  <2> QED
    BY <2>2, <2>3, <2>4, <2>5 DEF RunFaithful
<1>7. CASE PlanDelete
  <2>1. /\ op'.pc = "deleteDetach" /\ op'.plan = Plan /\ config' = config
        /\ config.present <=> op'.then # "idle"
    BY <1>3, <1>7 DEF PlanDelete, CreateStep, Steps
  <2> QED
    BY <1>4, <2>1 DEF RunFaithful, StateRead, PlanFollowed, VolumeFollows
<1> QED
  BY <1>1, <1>2, <1>5, <1>6, <1>7 DEF Terraform

\* A return leaves nothing to claim; only a step that goes on has to be shown.
LEMMA ReturnFaithful ==
    ASSUME TypeOK, NEW result, Return(result)
    PROVE  RunFaithful'
  BY ReturnRun DEF RunFaithful, Undisturbed

\* A step of a handler that goes on with the run it is in.
LEMMA RunGoesOn ==
    ASSUME FaithfulKept, op.pc \notin {"idle", "planned"}, RunKept, Undisturbed'
    PROVE  PlanFollowed /\ VolumeFollows
  BY DEF FaithfulKept, RunFaithful, Undisturbed, RunKept

\* It follows the plan as long as it keeps it, and stays in the operation.
LEMMA PlanKept ==
    ASSUME PlanFollowed, op.pc # "planned",
           config' = config, op'.plan = op.plan, op'.then = op.then,
           op.pc \in DeleteSteps <=> op'.pc \in DeleteSteps
    PROVE  PlanFollowed'
  BY DEF PlanFollowed

LEMMA CreateFaithful ==
    ASSUME FaithfulKept, CreateHandler
    PROVE  RunFaithful'
<1> USE DEF FaithfulKept, TypedControl
<1>0. /\ op \in OpRecord
      /\ op.pc \in NewSteps => op.id \in VolumeIds
  BY DEF TypeOK, OpRecord, Control
<1>1. CASE CreateVolume
  <2>1. PICK v \in VolumeIds :
           /\ NewVolume(v, op.plan.size, op.plan.label,
                        IF op.plan.linode = Null THEN Nil ELSE op.plan.linode,
                        FALSE)
           /\ op' = [op EXCEPT !.pc = "createWait", !.id = v]
    BY <1>1 DEF CreateVolume
  <2>2. /\ op'.pc = "createWait" /\ op'.id = v /\ op'.plan = op.plan
        /\ op'.then = op.then /\ RunKept
    BY <1>0, <2>1 DEF OpRecord, RunKept
  <2>3. /\ cloud'[v].status = "creating" /\ cloud'[v].size = op.plan.size
        /\ cloud'[v].label = op.plan.label
        /\ op.plan.linode # Null => cloud'[v].target = op.plan.linode
    BY <2>1, PutRecord DEF NewVolume
  <2>4. VolumeFollows'
    BY <2>2, <2>3
    DEF VolumeFollows, HeadedFor, Exists, NewSteps, UpdateSteps, MoveSteps,
        SizedSteps, LabelledSteps, SentSteps
  <2>5. Undisturbed' => PlanFollowed'
    BY <1>1, <2>2, RunGoesOn, PlanKept DEF CreateVolume, DeleteSteps
  <2> QED
    BY <2>2, <2>4, <2>5 DEF RunFaithful, StateRead
<1>2. CASE CloneVolume
  <2>1. PICK v \in VolumeIds :
           /\ NewVolume(v, SourceSize, op.plan.label, Nil, TRUE)
           /\ op' = [op EXCEPT !.pc = "cloneWait", !.id = v]
    BY <1>2 DEF CloneVolume
  <2>2. /\ op'.pc = "cloneWait" /\ op'.id = v /\ op'.plan = op.plan
        /\ op'.then = op.then /\ RunKept
    BY <1>0, <2>1 DEF OpRecord, RunKept
  <2>3. cloud'[v].status = "creating"
    BY <2>1, PutRecord DEF NewVolume
  <2>4. VolumeFollows'
    BY <2>2, <2>3
    DEF VolumeFollows, Exists, NewSteps, UpdateSteps, MoveSteps, SizedSteps,
        LabelledSteps, SentSteps
  <2>5. Undisturbed' => PlanFollowed'
    BY <1>2, <2>2, RunGoesOn, PlanKept DEF CloneVolume, DeleteSteps
  <2> QED
    BY <2>2, <2>4, <2>5 DEF RunFaithful, StateRead
<1>3. CASE CloneVolumeActive
  <2>1. /\ op.pc = "cloneWait" /\ op'.pc = "cloneUpdate" /\ op'.id = op.id
        /\ op'.plan = op.plan /\ op'.then = op.then /\ RunKept
        /\ cloud' = cloud /\ config' = config
    BY <1>3, GotoRun DEF CloneVolumeActive
  <2>2. Undisturbed' => PlanFollowed' /\ VolumeFollows
    BY <2>1, RunGoesOn, PlanKept DEF DeleteSteps
  <2>3. VolumeFollows => VolumeFollows'
    BY <2>1
    DEF VolumeFollows, Exists, NewSteps, UpdateSteps, MoveSteps, SizedSteps,
        LabelledSteps, SentSteps
  <2> QED
    BY <2>1, <2>2, <2>3 DEF RunFaithful, StateRead
<1>4. CASE CloneUpdateVolume
  <2>1. /\ op.pc = "cloneUpdate" /\ Exists(op.id) /\ config' = config
        /\ op'.pc = (IF op.plan.size # cloud[op.id].size THEN "cloneResize"
                     ELSE "cloneAttach")
        /\ op'.id = op.id /\ op'.plan = op.plan /\ op'.then = op.then /\ RunKept
    BY <1>4, GotoRun DEF CloneUpdateVolume
  <2>2. /\ cloud'[op.id].status = cloud[op.id].status
        /\ cloud'[op.id].size = cloud[op.id].size
        /\ cloud'[op.id].label = op.plan.label
    BY <1>0, <1>4, PutRecord, RecordMade DEF CloneUpdateVolume, NewSteps
  <2>3. Undisturbed' => PlanFollowed'
    BY <2>1, RunGoesOn, PlanKept DEF DeleteSteps
  <2>4. VolumeFollows'
    BY <2>1, <2>2
    DEF VolumeFollows, Exists, NewSteps, UpdateSteps, MoveSteps, SizedSteps,
        LabelledSteps, SentSteps
  <2> QED
    BY <2>1, <2>3, <2>4 DEF RunFaithful, StateRead
<1>5. CASE CloneResizeVolume
  <2>1. /\ op.pc = "cloneResize" /\ op'.pc = "cloneResizeWait"
        /\ op'.id = op.id /\ op'.plan = op.plan /\ op'.then = op.then /\ RunKept
        /\ config' = config
    BY <1>5, GotoRun DEF CloneResizeVolume
  <2>2. /\ cloud'[op.id].status # "none"
        /\ cloud'[op.id].size = op.plan.size
        /\ cloud'[op.id].label = cloud[op.id].label
    BY <1>0, <1>5, PutRecord, RecordMade DEF CloneResizeVolume, NewSteps
  <2>3. Undisturbed' => PlanFollowed' /\ VolumeFollows
    BY <2>1, RunGoesOn, PlanKept DEF DeleteSteps
  <2>4. VolumeFollows => VolumeFollows'
    BY <2>1, <2>2
    DEF VolumeFollows, Exists, NewSteps, UpdateSteps, MoveSteps, SizedSteps,
        LabelledSteps, SentSteps
  <2> QED
    BY <2>1, <2>3, <2>4 DEF RunFaithful, StateRead
<1>6. CASE CloneResizeActive
  <2>1. /\ op.pc = "cloneResizeWait" /\ op'.pc = "cloneAttach"
        /\ op'.id = op.id /\ op'.plan = op.plan /\ op'.then = op.then /\ RunKept
        /\ cloud' = cloud /\ config' = config
    BY <1>6, GotoRun DEF CloneResizeActive
  <2>2. Undisturbed' => PlanFollowed' /\ VolumeFollows
    BY <2>1, RunGoesOn, PlanKept DEF DeleteSteps
  <2>3. VolumeFollows => VolumeFollows'
    BY <2>1
    DEF VolumeFollows, Exists, NewSteps, UpdateSteps, MoveSteps, SizedSteps,
        LabelledSteps, SentSteps
  <2> QED
    BY <2>1, <2>2, <2>3 DEF RunFaithful, StateRead
<1>7. CASE \/ CreateVolumeActive \/ CreateVolumeTimeout \/ CloneCheckFails
           \/ CloneAttachVolume \/ CloneStepFails
  BY <1>7, ReturnFaithful
  DEF CreateVolumeActive, CreateVolumeTimeout, CloneCheckFails,
      CloneAttachVolume, CloneStepFails
<1> QED
  BY <1>1, <1>2, <1>3, <1>4, <1>5, <1>6, <1>7 DEF CreateHandler

LEMMA UpdateFaithful ==
    ASSUME FaithfulKept, UpdateHandler
    PROVE  RunFaithful'
<1> USE DEF FaithfulKept, TypedControl
<1>0. /\ op.pc \in UpdateSteps => op.id \in VolumeIds
      /\ op.pc \in UpdateSteps =>
            op.plan.linode = st.linode \/ op.plan.linode \in Linodes
  BY DEF TypeOK, OpRecord, Control
<1>1. CASE ResizeSkipped \/ ResizeActive
  <2>1. /\ op.pc \in {"resize", "resizeWait"}
        /\ op.pc = "resize" => st.size = op.plan.size
        /\ op'.pc = AfterResize /\ op'.id = op.id /\ op'.plan = op.plan
        /\ op'.then = op.then /\ RunKept
        /\ cloud' = cloud /\ config' = config /\ st' = st
    <3>1. CASE ResizeSkipped
      BY <3>1, GotoRun DEF ResizeSkipped
    <3>2. CASE ResizeActive
      BY <3>2, GotoRun DEF ResizeActive
    <3> QED
      BY <1>1, <3>1, <3>2
  <2>2. op'.pc \in {"update", "detach", "save"}
    BY <2>1 DEF AfterResize
  <2>3. Undisturbed' => PlanFollowed' /\ VolumeFollows
    BY <2>1, <2>2, RunGoesOn, PlanKept DEF DeleteSteps
  <2>4. VolumeFollows => VolumeFollows'
    <3> SUFFICES ASSUME VolumeFollows PROVE VolumeFollows'
      OBVIOUS
    <3>1. /\ Exists(op.id) /\ cloud[op.id].size = op.plan.size
          /\ cloud[op.id].label = st.label /\ HeadedFor(op.id, st.linode)
      BY <2>1
      DEF VolumeFollows, UpdateSteps, SizedSteps
    <3>2. /\ op'.pc \in {"detach", "save"} => st.label = op.plan.label
          /\ op'.pc = "save" => st.linode = op.plan.linode
      BY <2>1 DEF AfterResize
    <3> QED
      BY <2>1, <2>2, <3>1, <3>2
      DEF VolumeFollows, HeadedFor, Exists, NewSteps, UpdateSteps, MoveSteps,
          SizedSteps, LabelledSteps, SentSteps
  <2> QED
    BY <2>2, <2>3, <2>4 DEF RunFaithful, StateRead
<1>2. CASE ResizeVolume
  <2>1. /\ op.pc = "resize" /\ op'.pc = "resizeWait"
        /\ op'.id = op.id /\ op'.plan = op.plan /\ op'.then = op.then /\ RunKept
        /\ config' = config /\ st' = st
    BY <1>2, GotoRun DEF ResizeVolume
  <2>2. /\ cloud'[op.id].status # "none"
        /\ cloud'[op.id].size = op.plan.size
        /\ cloud'[op.id].label = cloud[op.id].label
        /\ cloud'[op.id].target = cloud[op.id].target
    BY <1>0, <1>2, PutRecord, RecordMade DEF ResizeVolume, UpdateSteps
  <2>3. Undisturbed' => PlanFollowed' /\ VolumeFollows
    BY <2>1, RunGoesOn, PlanKept DEF DeleteSteps
  <2>4. VolumeFollows => VolumeFollows'
    BY <2>1, <2>2
    DEF VolumeFollows, HeadedFor, Exists, NewSteps, UpdateSteps, MoveSteps,
        SizedSteps, LabelledSteps, SentSteps
  <2> QED
    BY <2>1, <2>3, <2>4 DEF RunFaithful, StateRead
<1>3. CASE UpdateVolume
  <2>1. /\ op.pc = "update" /\ Exists(op.id)
        /\ op'.pc = (IF st.linode # op.plan.linode THEN "detach" ELSE "save")
        /\ op'.id = op.id /\ op'.plan = op.plan /\ op'.then = op.then /\ RunKept
        /\ config' = config /\ st' = st
    BY <1>3, GotoRun DEF UpdateVolume, AfterUpdate
  <2>2. /\ cloud'[op.id].status = cloud[op.id].status
        /\ cloud'[op.id].size = cloud[op.id].size
        /\ cloud'[op.id].label = op.plan.label
        /\ cloud'[op.id].target = cloud[op.id].target
    BY <1>0, <1>3, PutRecord, RecordMade DEF UpdateVolume, UpdateSteps
  <2>3. Undisturbed' => PlanFollowed' /\ VolumeFollows
    BY <2>1, RunGoesOn, PlanKept DEF DeleteSteps
  <2>4. VolumeFollows => VolumeFollows'
    BY <2>1, <2>2
    DEF VolumeFollows, HeadedFor, Exists, NewSteps, UpdateSteps, MoveSteps,
        SizedSteps, LabelledSteps, SentSteps
  <2> QED
    BY <2>1, <2>3, <2>4 DEF RunFaithful, StateRead
<1>4. CASE AttachVolume
  <2>1. /\ op.pc = "attach" /\ Exists(op.id) /\ op'.pc = "attachWait"
        /\ op'.id = op.id /\ op'.plan = op.plan /\ op'.then = op.then /\ RunKept
        /\ config' = config
    BY <1>4, GotoRun DEF AttachVolume
  <2>2. /\ cloud'[op.id].status = cloud[op.id].status
        /\ cloud'[op.id].size = cloud[op.id].size
        /\ cloud'[op.id].label = cloud[op.id].label
        /\ cloud'[op.id].target = op.plan.linode
    BY <1>0, <1>4, PutRecord, RecordMade DEF AttachVolume, UpdateSteps, MoveSteps
  <2>3. Undisturbed' => PlanFollowed' /\ VolumeFollows
    BY <2>1, RunGoesOn, PlanKept DEF DeleteSteps
  <2>4. VolumeFollows => VolumeFollows'
    BY <2>1, <2>2
    DEF VolumeFollows, HeadedFor, Exists, NewSteps, UpdateSteps, MoveSteps,
        SizedSteps, LabelledSteps, SentSteps
  <2> QED
    BY <2>1, <2>3, <2>4 DEF RunFaithful, StateRead
<1>5. CASE Attached
  <2>1. /\ op.pc = "attachWait" /\ Exists(op.id) /\ op'.pc = "save"
        /\ op'.id = op.id /\ op'.plan = op.plan /\ op'.then = op.then /\ RunKept
        /\ cloud' = cloud /\ config' = config /\ st' = st
    BY <1>5, GotoRun DEF Attached
  <2>2. Undisturbed' => PlanFollowed' /\ VolumeFollows
    BY <2>1, RunGoesOn, PlanKept DEF DeleteSteps
  <2>3. VolumeFollows => VolumeFollows'
    BY <2>1
    DEF VolumeFollows, HeadedFor, Exists, NewSteps, UpdateSteps, MoveSteps,
        SizedSteps, LabelledSteps, SentSteps
  <2> QED
    BY <2>1, <2>2, <2>3 DEF RunFaithful, StateRead
<1>6. CASE ResizeRejected \/ AttachRefused \/ Save
  BY <1>6, ReturnFaithful DEF ResizeRejected, AttachRefused, Save
<1> QED
  BY <1>1, <1>2, <1>3, <1>4, <1>5, <1>6 DEF UpdateHandler

LEMMA DeleteAndSharedFaithful ==
    ASSUME FaithfulKept, DeleteHandler \/ DetachVolume \/ Detached \/ StepFails
    PROVE  RunFaithful'
<1> USE DEF FaithfulKept, TypedControl
<1>0. /\ op \in OpRecord
      /\ op.pc \in UpdateSteps \cup DeleteSteps => op.id \in VolumeIds
  BY DEF TypeOK, OpRecord, Control
<1>1. CASE DeleteVolume /\ op.then = "idle"
  BY <1>1, ReturnFaithful DEF DeleteVolume
<1>2. CASE DeleteVolume /\ op.then # "idle"
  <2>1. /\ op.pc = "delete" /\ op.then \in {"create", "clone"}
        /\ op'.pc = op.then /\ op'.plan = op.plan /\ RunKept
        /\ config' = config
    BY <1>0, <1>2 DEF DeleteVolume, OpRecord, RunKept
  <2>2. Undisturbed' => PlanFollowed
    BY <2>1, RunGoesOn
  <2>3. PlanFollowed => PlanFollowed'
    BY <2>1 DEF PlanFollowed, DeleteSteps
  <2>4. VolumeFollows'
    BY <2>1
    DEF VolumeFollows, NewSteps, UpdateSteps, MoveSteps, SizedSteps,
        LabelledSteps, SentSteps
  <2> QED
    BY <2>1, <2>2, <2>3, <2>4 DEF RunFaithful, StateRead
<1>3. CASE DetachVolume /\ op.pc = "detach"
  <2>1. /\ op.pc = "detach" /\ Exists(op.id) /\ op'.pc = "detachWait"
        /\ op'.id = op.id /\ op'.plan = op.plan /\ op'.then = op.then /\ RunKept
        /\ config' = config
    BY <1>3, GotoRun DEF DetachVolume
  <2>2. /\ cloud'[op.id].status = cloud[op.id].status
        /\ cloud'[op.id].size = cloud[op.id].size
        /\ cloud'[op.id].label = cloud[op.id].label
    BY <1>0, <1>3, PutRecord, RecordMade DEF DetachVolume, UpdateSteps, MoveSteps
  <2>3. Undisturbed' => PlanFollowed' /\ VolumeFollows
    BY <2>1, RunGoesOn, PlanKept DEF DeleteSteps
  <2>4. VolumeFollows => VolumeFollows'
    BY <2>1, <2>2
    DEF VolumeFollows, Exists, NewSteps, UpdateSteps, MoveSteps, SizedSteps,
        LabelledSteps, SentSteps
  <2> QED
    BY <2>1, <2>3, <2>4 DEF RunFaithful, StateRead
<1>4. CASE Detached /\ op.pc = "detachWait"
  <2>1. /\ op.pc = "detachWait" /\ Exists(op.id) /\ op'.pc = "attach"
        /\ op'.id = op.id /\ op'.plan = op.plan /\ op'.then = op.then /\ RunKept
        /\ cloud' = cloud /\ config' = config
    BY <1>4, GotoRun DEF Detached
  <2>2. Undisturbed' => PlanFollowed' /\ VolumeFollows
    BY <2>1, RunGoesOn, PlanKept DEF DeleteSteps
  <2>3. VolumeFollows => VolumeFollows'
    BY <2>1
    DEF VolumeFollows, Exists, NewSteps, UpdateSteps, MoveSteps, SizedSteps,
        LabelledSteps, SentSteps
  <2> QED
    BY <2>1, <2>2, <2>3 DEF RunFaithful, StateRead
<1>5. CASE \/ DetachVolume /\ op.pc = "deleteDetach"
           \/ Detached /\ op.pc = "deleteDetachWait"
  <2>1. /\ op.pc \in {"deleteDetach", "deleteDetachWait"}
        /\ op'.pc \in {"deleteDetachWait", "delete"}
        /\ op'.plan = op.plan /\ op'.then = op.then /\ RunKept
        /\ config' = config
    <3>1. CASE DetachVolume /\ op.pc = "deleteDetach"
      BY <3>1, GotoRun DEF DetachVolume
    <3>2. CASE Detached /\ op.pc = "deleteDetachWait"
      BY <3>2, GotoRun DEF Detached
    <3> QED
      BY <1>5, <3>1, <3>2
  <2>2. Undisturbed' => PlanFollowed'
    BY <2>1, RunGoesOn, PlanKept DEF DeleteSteps
  <2>3. VolumeFollows'
    BY <2>1
    DEF VolumeFollows, NewSteps, UpdateSteps, MoveSteps, SizedSteps,
        LabelledSteps, SentSteps
  <2> QED
    BY <2>1, <2>2, <2>3 DEF RunFaithful, StateRead
<1>6. CASE DeleteRefused \/ StepFails
  BY <1>6, ReturnFaithful DEF DeleteRefused, StepFails
<1> QED
  BY <1>1, <1>2, <1>3, <1>4, <1>5, <1>6 DEF DeleteHandler, DetachVolume, Detached

LEMMA FaithfulStep == FaithfulKept /\ [Next]_vars => FaithfulKept'
<1> SUFFICES ASSUME FaithfulKept, [Next]_vars PROVE FaithfulKept'
  OBVIOUS
<1>1. TypedControl'
  BY TypedControlStep DEF FaithfulKept
<1>2. CASE Next
  BY <1>1, <1>2, TerraformFaithful, CreateFaithful, UpdateFaithful,
     DeleteAndSharedFaithful, APIFaithful, EnvironmentFaithful
  DEF FaithfulKept, Next, Provider
<1>3. CASE UNCHANGED vars
  BY <1>1, <1>3
  DEF vars, FaithfulKept, RunFaithful, Undisturbed, StateRead, PlanFollowed,
      VolumeFollows, HeadedFor, Exists
<1> QED
  BY <1>2, <1>3

\* What Create and Update save is the configuration, and the volume has it.
LEMMA SavedTruth ==
    ASSUME TypeOK, PlanFollowed, op.pc # "planned", config.present,
           op.id \in VolumeIds, op.id # 0,
           config' = config, st' = FlattenPlan(op.id, FALSE),
           cloud'[op.id].status # "none",
           cloud'[op.id].size = op.plan.size,
           cloud'[op.id].label = op.plan.label,
           op.plan.linode \notin {0, Null} =>
               cloud'[op.id].target = op.plan.linode,
           op.plan.linode = Null => cloud'[op.id].linode = cloud[op.id].linode
    PROVE  Applied'
<1>1. /\ op.plan.linode \in Linodes \cup {0, Null}
      /\ config.linode \in Linodes \cup {Null}
  BY DEF TypeOK, OpRecord, PlanRecord, ConfigRecord
<1>2. /\ op.plan.size = config.size /\ op.plan.label = config.label
      /\ config.linode # Null => op.plan.linode = config.linode
  BY DEF PlanFollowed
<1>3. /\ st'.id = op.id /\ st'.size = op.plan.size /\ st'.label = op.plan.label
      /\ ~st'.tainted
      /\ op.plan.linode # Null => st'.linode = op.plan.linode
      /\ op.plan.linode = Null => st'.linode = LinodeIDValue(cloud[op.id].linode)
  BY DEF FlattenPlan
<1>4. op.plan.linode \in Linodes => op.plan.linode \in Whereabouts(st.id)'
  <2>1. \A l \in Linodes : l \notin {0, Null} /\ LinodeIDValue(l) = l
    BY DEF LinodeIDValue, VolumeAssumption
  <2> QED
    BY <1>3, <2>1 DEF Whereabouts, LinodeIDValue
<1>5. op.plan.linode = Null => st'.linode \in Whereabouts(st.id)'
  BY <1>3 DEF Whereabouts, LinodeIDValue
<1>6. /\ st'.linode # 0 => st'.linode \in Whereabouts(st.id)'
      /\ config.linode # Null => config.linode \in Whereabouts(st.id)'
  BY <1>1, <1>2, <1>3, <1>4, <1>5
<1> QED
  BY <1>2, <1>3, <1>6 DEF Applied, Exists

LEMMA NothingToDoTruth ==
    ASSUME TypeOK, StateRead, PlanNothing, UNCHANGED <<cloud, config, st>>
    PROVE  Applied'
<1>0. /\ cloud' = cloud /\ config' = config /\ st' = st /\ op.pc = "planned"
      /\ st.linode \in Linodes \cup {0} /\ config.linode \in Linodes \cup {Null}
  BY DEF PlanNothing, TypeOK, StateRecord, ConfigRecord
<1>1. CASE ~config.present /\ st.id = 0
  BY <1>0, <1>1 DEF Applied
<1>2. CASE config.present /\ st.id # 0 /\ ~st.tainted /\ InSync
  <2>1. /\ st.size = config.size /\ st.label = config.label
        /\ config.linode # Null => st.linode = config.linode
    BY <1>2 DEF InSync, Plan, PlannedLinodeID
  <2>2. /\ Exists(st.id) /\ cloud[st.id].size = st.size
        /\ cloud[st.id].label = st.label /\ HeadedFor(st.id, st.linode)
    BY <1>0, <1>2 DEF StateRead
  <2>3. st.linode # 0 => st.linode \in Whereabouts(st.id)
    <3>1. \A l \in Linodes : l \notin {0, Null} /\ LinodeIDValue(l) = l
      BY DEF LinodeIDValue, VolumeAssumption
    <3> QED
      BY <1>0, <2>2, <3>1 DEF HeadedFor, Whereabouts
  <2>4. config.linode # Null => config.linode # 0
    BY <1>0 DEF VolumeAssumption
  <2>5. Applied
    BY <1>2, <2>1, <2>2, <2>3, <2>4 DEF Applied
  <2> QED
    BY <1>0, <2>5 DEF Applied, Exists, Whereabouts
<1> QED
  BY <1>1, <1>2 DEF PlanNothing

LEMMA SuccessLeaves ==
    ASSUME FaithfulKept, Next, RunEndsWell
    PROVE  Applied'
<1> USE DEF FaithfulKept, TypedControl
<1>0. /\ op \in OpRecord
      /\ op.pc \in NewSteps \cup UpdateSteps =>
            op.id \in VolumeIds /\ op.id # 0
      /\ op.pc # "idle" /\ op'.pc = "idle" /\ op'.result = "ok"
      /\ ~op'.drift /\ ~op'.pending
  BY DEF TypeOK, OpRecord, Control, RunEndsWell
<1>1. CASE PlanNothing
  <2>1. StateRead
    BY <1>0, <1>1, ReturnRun DEF PlanNothing, RunFaithful, Undisturbed, RunKept
  <2> QED
    BY <1>1, <2>1, NothingToDoTruth DEF PlanNothing
<1>2. CASE CreateVolumeActive \/ CloneAttachVolume \/ Save
  <2>1. /\ op.pc \in {"createWait", "cloneAttach", "save"} /\ RunKept
        /\ config' = config /\ st' = FlattenPlan(op.id, FALSE)
        /\ op.pc # "cloneAttach" => cloud' = cloud
    <3>1. CASE CreateVolumeActive
      BY <3>1, ReturnRun DEF CreateVolumeActive
    <3>2. CASE CloneAttachVolume
      BY <3>2, ReturnRun DEF CloneAttachVolume
    <3>3. CASE Save
      BY <3>3, ReturnRun DEF Save
    <3> QED
      BY <1>2, <3>1, <3>2, <3>3
  <2>2. PlanFollowed /\ VolumeFollows
    BY <1>0, <2>1 DEF RunFaithful, Undisturbed, RunKept
  <2>3. /\ config.present /\ op.id \in VolumeIds /\ op.id # 0
        /\ Exists(op.id) /\ cloud[op.id].size = op.plan.size
        /\ cloud[op.id].label = op.plan.label
        /\ op.pc # "cloneAttach" => HeadedFor(op.id, op.plan.linode)
    BY <1>0, <2>1, <2>2
    DEF PlanFollowed, VolumeFollows, DeleteSteps, NewSteps, UpdateSteps,
        SizedSteps, LabelledSteps, SentSteps
  <2>4. CASE op.pc # "cloneAttach" \/ op.plan.linode = Null
    <3>1. /\ cloud' = cloud
          /\ op.plan.linode \notin {0, Null} =>
                cloud'[op.id].target = op.plan.linode
      BY <1>2, <2>1, <2>3, <2>4
      DEF CloneAttachVolume, CreateVolumeActive, Save, HeadedFor
    <3> QED
      BY <2>1, <2>2, <2>3, <3>1, SavedTruth DEF Exists
  <2>5. CASE op.pc = "cloneAttach" /\ op.plan.linode # Null
    <3>1. Put(op.id, Sent(op.id, op.plan.linode))
      BY <1>2, <2>5 DEF CreateVolumeActive, CloneAttachVolume, Save
    <3>2. /\ cloud'[op.id].status = cloud[op.id].status
          /\ cloud'[op.id].size = cloud[op.id].size
          /\ cloud'[op.id].label = cloud[op.id].label
          /\ cloud'[op.id].target = op.plan.linode
      BY <2>3, <3>1, PutRecord, RecordMade
    <3> QED
      BY <2>1, <2>2, <2>3, <2>5, <3>2, SavedTruth DEF Exists
  <2> QED
    BY <2>4, <2>5
<1>3. CASE DeleteVolume
  <2>1. op.then = "idle"
    BY <1>0, <1>3 DEF DeleteVolume, OpRecord
  <2>2. /\ op.pc = "delete" /\ RunKept /\ st' = NoState /\ config' = config
    BY <1>3, <2>1, ReturnRun DEF DeleteVolume
  <2>3. PlanFollowed
    BY <1>0, <2>2 DEF RunFaithful, Undisturbed, RunKept
  <2>4. ~config.present
    BY <2>1, <2>2, <2>3 DEF PlanFollowed, DeleteSteps
  <2> QED
    BY <2>2, <2>4 DEF Applied, NoState
<1>4. CASE \/ CreateVolumeTimeout \/ CloneCheckFails \/ CloneStepFails
           \/ ResizeRejected \/ AttachRefused \/ DeleteRefused \/ StepFails
  <2>1. Return("error")
    BY <1>4
    DEF CreateVolumeTimeout, CloneCheckFails, CloneStepFails, ResizeRejected,
        AttachRefused, DeleteRefused, StepFails
  <2> QED
    BY <1>0, <2>1, ReturnRun
<1>5. CASE Read \/ PlanCreate \/ PlanUpdate \/ PlanDelete
  <2>1. op'.pc \in {"planned", "create", "clone", "resize", "deleteDetach"}
    BY <1>0, <1>5
    DEF OpRecord, Read, PlanCreate, PlanUpdate, PlanDelete, Begin, CreateStep
  <2> QED
    BY <1>0, <2>1
<1>6. CASE CreateVolume \/ CloneVolume
  <2>1. op'.pc \in {"createWait", "cloneWait"}
    BY <1>0, <1>6 DEF OpRecord, CreateVolume, CloneVolume
  <2> QED
    BY <1>0, <2>1
<1>7. CASE \/ CloneVolumeActive \/ CloneUpdateVolume \/ CloneResizeVolume
           \/ CloneResizeActive
  <2>1. op'.pc \in {"cloneUpdate", "cloneResize", "cloneAttach",
                    "cloneResizeWait"}
    BY <1>7, GotoRun
    DEF CloneVolumeActive, CloneUpdateVolume, CloneResizeVolume,
        CloneResizeActive
  <2> QED
    BY <1>0, <2>1
<1>8. CASE \/ ResizeSkipped \/ ResizeVolume \/ ResizeActive \/ UpdateVolume
           \/ AttachVolume \/ Attached \/ DetachVolume \/ Detached
  <2>1. /\ AfterResize \in Steps \ {"idle"} /\ AfterUpdate \in Steps \ {"idle"}
    BY DEF AfterResize, AfterUpdate, Steps
  <2>2. op'.pc # "idle"
    BY <1>8, <2>1, GotoRun
    DEF ResizeSkipped, ResizeVolume, ResizeActive, UpdateVolume, AttachVolume,
        Attached, DetachVolume, Detached
  <2> QED
    BY <1>0, <2>2
<1>9. CASE API
  BY <1>0, <1>9 DEF API, VolumeBecomesActive, VolumeMoves
<1>10. CASE Environment
  BY <1>0, <1>10, ElsewhereDrifts
<1> QED
  BY <1>1, <1>2, <1>3, <1>4, <1>5, <1>6, <1>7, <1>8, <1>9, <1>10
  DEF Next, Provider, Terraform, CreateHandler, UpdateHandler, DeleteHandler

\* A run that ends without an error, that nobody interfered with and that found
\* no move still pending, leaves the volume as configured, whichever calls the
\* handlers made or skipped and whatever earlier runs left half done: what
\* State.Set stores after Create and Update is the plan, not what the API says.
THEOREM SuccessTruthful == Spec => SuccessIsTruthful
<1>1. Init => FaithfulKept
  BY InitType, InitControl
  DEF Init, FaithfulKept, TypedControl, RunFaithful, Undisturbed
<1>2. FaithfulKept /\ [Next]_vars => [RunEndsWell => Applied']_vars
  BY SuccessLeaves
<1> QED
  BY <1>1, <1>2, FaithfulStep, PTL DEF Spec, SuccessIsTruthful
=============================================================================
