------------------------- MODULE InstanceSwapProofs -------------------------
(* Theorems about InstanceSwap, for every value of its constants. *)
EXTENDS InstanceSwap, TLAPS

USE InstanceSwapAssumption

-----------------------------------------------------------------------------
(* The space: what the API has accepted fits, so that no resize it finishes *)
(* can take the two disks over the capacity of the type.                     *)

SpaceInv ==
    /\ Total <= Capacity
    /\ Busy => Head(job).size >= 1 /\ Fits(Head(job))

TypedSpace == TypeOK /\ SpaceInv

(* What adjustSwapSizeIfNeeded still has to do. *)

Todo == op.toResize

Ours == ~op.pending     \* no resize of an earlier run was found running

\* The sizes were computed from the disks as they are, and nothing but the
\* handler's own resizes has changed them since.
PlannedWell ==
    op.pc = "planned" /\ Ours => ~Busy /\ op.oldSwap = size["swap"]

\* The two resizes share out the space there was; the last one gets what the
\* other has left.
SharesSpace ==
    op.pc \in {"call", "wait"} /\ Ours =>
        /\ Len(Todo) = 2 => /\ Todo[2].disk = Other(Todo[1].disk)
                            /\ Todo[1].size + Todo[2].size = op.total
                            /\ Todo[2].disk = "swap" => Todo[2].size = swap_size
        /\ Len(Todo) = 1 =>
                /\ Todo[1].size + size[Other(Todo[1].disk)] = op.total
                /\ Todo[1].disk = "boot" => size["swap"] = swap_size
        /\ Todo[1].disk = "swap" => Todo[1].size = swap_size

\* The first resize makes its disk no larger.
ShrinksFirst ==
    op.pc = "call" /\ Ours =>
        /\ ~Busy
        /\ Len(Todo) = 2 => /\ Todo[1].size <= size[Todo[1].disk]
                            /\ op.total = Total

\* The API works on the resize the handler waits for.
WaitsForOwn == op.pc = "wait" /\ Ours /\ Busy => job[1] = Todo[1]

PlanInv == PlannedWell /\ SharesSpace /\ ShrinksFirst /\ WaitsForOwn

IInv == TypedSpace /\ PlanInv

-----------------------------------------------------------------------------
LEMMA InitIInv == Init => IInv
<1> SUFFICES ASSUME Init PROVE IInv
  OBVIOUS
<1>1. PICK swap \in SwapSizes : size = [boot |-> Capacity - swap, swap |-> swap]
  BY DEF Init
<1>2. size \in [Disks -> 0 .. Capacity] /\ Total = Capacity
  BY <1>1 DEF Disks, Total
<1>3. TypeOK
  BY <1>2 DEF Init, TypeOK, OpRecord
<1>4. SpaceInv
  BY <1>2 DEF Init, SpaceInv, Busy
<1> QED
  BY <1>3, <1>4 DEF Init, IInv, TypedSpace, PlanInv, PlannedWell, SharesSpace,
     ShrinksFirst, WaitsForOwn

(* The resizes that are planned. *)

LEMMA ToResizeType ==
    ASSUME TypeOK
    PROVE  ToResize \in Seq(Resizes) /\ Len(ToResize) = 2
<1>1. BootWanted \in -Capacity .. 2 * Capacity
  BY DEF TypeOK, OpRecord, BootWanted, Disks
<1>2. swap_size \in -Capacity .. 2 * Capacity
  BY DEF TypeOK
<1> DEFINE boot == [disk |-> "boot", size |-> BootWanted]
           swap == [disk |-> "swap", size |-> swap_size]
<1>3. boot \in Resizes /\ swap \in Resizes
  BY <1>1, <1>2 DEF Resizes, Disks
<1>4. ToResize = <<swap, boot>> \/ ToResize = <<boot, swap>>
  BY DEF ToResize
<1> HIDE DEF boot, swap
<1>5. /\ <<swap, boot>> \in Seq(Resizes) /\ Len(<<swap, boot>>) = 2
      /\ <<boot, swap>> \in Seq(Resizes) /\ Len(<<boot, swap>>) = 2
  BY <1>3
<1> QED
  BY <1>4, <1>5

LEMMA ToResizeShares ==
    ASSUME TypeOK, op.oldSwap = size["swap"]
    PROVE  /\ ToResize[2].disk = Other(ToResize[1].disk)
           /\ ToResize[1].size + ToResize[2].size = Total
           /\ ToResize[1].size <= size[ToResize[1].disk]
           /\ ToResize[1].disk = "swap" => ToResize[1].size = swap_size
           /\ ToResize[2].disk = "swap" => ToResize[2].size = swap_size
  BY DEF TypeOK, OpRecord, ToResize, BootWanted, Other, Total, Disks

-----------------------------------------------------------------------------
(* Type correctness, with the space invariant it needs. *)

LEMMA ProviderType ==
    ASSUME TypedSpace, Provider
    PROVE  TypeOK'
<1> USE DEF TypedSpace
<1>1. CASE Plan
  BY <1>1, ZenonT(30) DEF TypeOK, Plan, Return, OpRecord, Disks, Busy
<1>2. CASE AdjustSwapSize
  <2>1. Total \in 0 .. Capacity
    BY DEF TypeOK, SpaceInv, Total, Disks
  <2> QED
    BY <1>2, <2>1, ToResizeType DEF TypeOK, AdjustSwapSize, OpRecord
<1>3. CASE ResizeInstanceDisk
  <2>1. op.toResize \in Seq(Resizes) /\ Len(op.toResize) \in {1, 2}
    BY <1>3 DEF TypeOK, ResizeInstanceDisk, OpRecord
  <2>2. Head(op.toResize) \in Resizes
    BY <2>1
  <2>3. job' \in Seq(Resizes) /\ Len(job') <= 1
    BY <1>3, <2>2 DEF ResizeInstanceDisk
  <2>4. op' \in OpRecord /\ op'.toResize = op.toResize
    BY <1>3 DEF TypeOK, ResizeInstanceDisk, OpRecord
  <2> QED
    BY <1>3, <2>1, <2>3, <2>4 DEF TypeOK, ResizeInstanceDisk
<1>4. CASE NilDisk \/ ResizeRefused \/ ResizeFailed
  BY <1>4 DEF TypeOK, NilDisk, ResizeRefused, ResizeFailed, Return, OpRecord
<1>5. CASE DiskResized
  <2>1. CASE Len(op.toResize) = 1
    BY <1>5, <2>1 DEF TypeOK, DiskResized, Return, OpRecord
  <2>2. CASE Len(op.toResize) = 2
    <3>1. Tail(op.toResize) \in Seq(Resizes) /\ Len(Tail(op.toResize)) = 1
      <4>1. op.toResize \in Seq(Resizes)
        BY DEF TypeOK, OpRecord
      <4> QED
        BY <2>2, <4>1, SMTT(20)
    <3>2. op' = [op EXCEPT !.pc = "call", !.toResize = Tail(op.toResize)]
      BY <1>5, <2>2 DEF DiskResized
    <3>3. op' \in OpRecord /\ op'.toResize = Tail(op.toResize)
      BY <3>1, <3>2 DEF TypeOK, OpRecord
    <3> QED
      BY <1>5, <3>1, <3>3 DEF TypeOK, DiskResized
  <2>3. Len(op.toResize) \in {1, 2}
    BY <1>5 DEF TypeOK, DiskResized
  <2> QED
    BY <2>1, <2>2, <2>3
<1>6. CASE StepFails
  <2>1. op' \in OpRecord /\ op'.pc = "idle"
    BY <1>6 DEF TypeOK, StepFails, Return, OpRecord
  <2>2. failures' \in 0 .. MaxFailures
    BY <1>6 DEF TypeOK, StepFails
  <2> QED
    BY <1>6, <2>1, <2>2 DEF TypeOK, StepFails
<1> QED
  BY <1>1, <1>2, <1>3, <1>4, <1>5, <1>6 DEF Provider

LEMMA JobSize ==
    ASSUME TypedSpace, Busy
    PROVE  /\ Head(job) \in Resizes
           /\ Head(job) = job[1]
           /\ Head(job).size \in 1 .. Capacity
           /\ Head(job).size + size[Other(Head(job).disk)] <= Capacity
<1>1. Head(job) \in Resizes /\ Head(job) = job[1]
  BY DEF TypedSpace, TypeOK, Busy
<1> QED
  BY <1>1 DEF TypedSpace, TypeOK, SpaceInv, Fits, Resizes, Disks, Other

LEMMA JobDoneTotal ==
    ASSUME TypedSpace, JobDone
    PROVE  /\ size' \in [Disks -> 0 .. Capacity]
           /\ Total' = Head(job).size + size[Other(Head(job).disk)]
           /\ size'[Head(job).disk] = Head(job).size
           /\ size'[Other(Head(job).disk)] = size[Other(Head(job).disk)]
  BY JobSize DEF TypedSpace, TypeOK, JobDone, Resizes, Total, Disks, Other

LEMMA TypeStep ==
    ASSUME TypedSpace, Next
    PROVE  TypeOK'
<1>1. CASE Provider
  BY <1>1, ProviderType
<1>2. CASE JobDone
  BY <1>2, JobDoneTotal DEF TypedSpace, TypeOK, JobDone
<1>3. CASE JobFails
  BY <1>3 DEF TypedSpace, TypeOK, JobFails
<1> QED
  BY <1>1, <1>2, <1>3 DEF Next

LEMMA SpaceStep ==
    ASSUME TypedSpace, Next
    PROVE  SpaceInv'
<1>1. CASE ResizeInstanceDisk
  <2>1. job' = <<Head(op.toResize)>> /\ size' = size
    BY <1>1 DEF ResizeInstanceDisk
  <2>2. Head(job') = Head(op.toResize)
    BY <2>1
  <2> QED
    BY <1>1, <2>1, <2>2
    DEF ResizeInstanceDisk, Accepted, TypedSpace, SpaceInv, Total, Fits
<1>2. CASE JobDone
  BY <1>2, JobSize, JobDoneTotal DEF JobDone, SpaceInv, Busy
<1>3. CASE JobFails
  BY <1>3 DEF JobFails, TypedSpace, SpaceInv, Busy, Total
<1>4. CASE UNCHANGED <<size, job>>
  BY <1>4 DEF TypedSpace, SpaceInv, Busy, Total, Fits
<1> QED
  BY <1>1, <1>2, <1>3, <1>4
  DEF Next, Provider, Plan, AdjustSwapSize, NilDisk, ResizeRefused,
      DiskResized, ResizeFailed, StepFails

THEOREM InductiveTypedSpace == Spec => []TypedSpace
<1>1. Init => TypedSpace
  BY InitIInv DEF IInv
<1>2. TypedSpace /\ [Next]_vars => TypedSpace'
  <2>1. CASE Next
    BY <2>1, TypeStep, SpaceStep DEF TypedSpace
  <2>2. CASE UNCHANGED vars
    BY <2>2 DEF vars, TypedSpace, TypeOK, SpaceInv, Busy, Total, Fits
  <2> QED
    BY <2>1, <2>2
<1> QED
  BY <1>1, <1>2, PTL DEF Spec

\* Every value stays within its type; in particular no disk, and no job the
\* API has accepted, is larger than the type of the Linode allows.
THEOREM SwapTypeCorrect == Spec => []TypeOK
  BY InductiveTypedSpace, PTL DEF TypedSpace

-----------------------------------------------------------------------------
(* The plan of adjustSwapSizeIfNeeded. *)

LEMMA TodoType ==
    ASSUME TypeOK, op.pc \in {"call", "wait"}
    PROVE  /\ Head(Todo) = Todo[1] /\ Todo[1] \in Resizes
           /\ Len(Todo) = 1 \/ Len(Todo) = 2
           /\ Len(Todo) = 2 => /\ Todo[2] \in Resizes
                                /\ Len(Tail(Todo)) = 1 /\ Tail(Todo)[1] = Todo[2]
<1>1. Todo \in Seq(Resizes) /\ Len(Todo) \in {1, 2}
  BY DEF TypeOK, OpRecord, Todo
<1>2. Head(Todo) = Todo[1] /\ Todo[1] \in Resizes
  BY <1>1
<1>3. ASSUME Len(Todo) = 2
      PROVE  Todo[2] \in Resizes /\ Len(Tail(Todo)) = 1 /\ Tail(Todo)[1] = Todo[2]
  <2>1. Todo[2] \in Resizes
    BY <1>1, <1>3
  <2>2. Tail(Todo) \in Seq(Resizes) /\ Len(Tail(Todo)) = 1
    BY <1>1, <1>3
  <2>3. Tail(Todo)[1] = Todo[2]
    BY <1>1, <1>3, <2>2
  <2> QED
    BY <2>1, <2>2, <2>3
<1> QED
  BY <1>1, <1>2, <1>3

LEMMA TypedOp ==
    ASSUME TypeOK
    PROVE  /\ op.total \in 0 .. Capacity /\ op.pending \in BOOLEAN
           /\ op.oldSwap \in 0 .. Capacity
           /\ size["boot"] \in 0 .. Capacity /\ size["swap"] \in 0 .. Capacity
  BY DEF TypeOK, OpRecord, Disks

LEMMA IdlePlan ==
    ASSUME op'.pc = "idle"
    PROVE  PlanInv'
  BY DEF PlanInv, PlannedWell, SharesSpace, ShrinksFirst, WaitsForOwn

LEMMA ReturnIdles ==
    ASSUME TypeOK, NEW r, Return(r)
    PROVE  op'.pc = "idle"
  BY DEF TypeOK, OpRecord, Return

LEMMA PlanSteps ==
    ASSUME IInv, Provider
    PROVE  PlanInv'
<1>0. TypeOK /\ PlanInv
  BY DEF IInv, TypedSpace
<1>1. CASE Plan
  <2>1. CASE size["swap"] = swap_size
    BY <1>0, <1>1, <2>1, ReturnIdles, IdlePlan DEF Plan
  <2>2. CASE size["swap"] # swap_size
    <3>1. /\ op'.pc = "planned" /\ op'.oldSwap = size["swap"]
          /\ op'.pending = Busy
      BY <1>0, <1>1, <2>2 DEF Plan, TypeOK, OpRecord
    <3>2. Busy' = Busy /\ size' = size
      BY <1>1 DEF Plan, Busy
    <3> QED
      BY <3>1, <3>2
      DEF PlanInv, PlannedWell, SharesSpace, ShrinksFirst, WaitsForOwn, Ours
  <2> QED
    BY <2>1, <2>2
<1>2. CASE AdjustSwapSize
  <2>1. /\ op'.pc = "call" /\ op'.toResize = ToResize /\ op'.total = Total
        /\ op'.pending = op.pending
    BY <1>0, <1>2 DEF AdjustSwapSize, TypeOK, OpRecord
  <2>2. Busy' = Busy /\ size' = size /\ Total' = Total /\ swap_size' = swap_size
    BY <1>2 DEF AdjustSwapSize, Busy, Total
  <2>3. SUFFICES ASSUME Ours' PROVE PlanInv'
    BY <2>1 DEF PlanInv, PlannedWell, SharesSpace, ShrinksFirst, WaitsForOwn
  <2>4. ~Busy /\ op.oldSwap = size["swap"]
    BY <1>0, <1>2, <2>1, <2>3 DEF PlanInv, PlannedWell, AdjustSwapSize, Ours
  <2>5. Todo' = ToResize /\ Len(Todo') = 2
    BY <1>0, <2>1, ToResizeType DEF Todo
  <2>6. SharesSpace'
    BY <1>0, <2>1, <2>2, <2>4, <2>5, ToResizeShares DEF SharesSpace
  <2>7. ShrinksFirst'
    BY <1>0, <2>1, <2>2, <2>4, <2>5, ToResizeShares DEF ShrinksFirst
  <2> QED
    BY <2>1, <2>6, <2>7 DEF PlanInv, PlannedWell, WaitsForOwn
<1>3. CASE ResizeInstanceDisk
  <2>1. op'.pc = "wait" /\ Todo' = Todo /\ op'.total = op.total /\ Ours' = Ours
    BY <1>0, <1>3 DEF ResizeInstanceDisk, TypeOK, OpRecord, Todo, Ours
  <2>2. job'[1] = Todo[1]
    BY <1>0, <1>3, TodoType DEF ResizeInstanceDisk, Todo
  <2>3. SharesSpace'
    BY <1>0, <1>3, <2>1 DEF PlanInv, SharesSpace, ResizeInstanceDisk
  <2> QED
    BY <2>1, <2>2, <2>3 DEF PlanInv, PlannedWell, ShrinksFirst, WaitsForOwn
<1>4. CASE NilDisk \/ ResizeRefused \/ ResizeFailed \/ StepFails
  BY <1>0, <1>4, ReturnIdles, IdlePlan
  DEF NilDisk, ResizeRefused, ResizeFailed, StepFails
<1>5. CASE DiskResized
  <2>0. op.pc = "wait" /\ Todo[1] \in Resizes /\ size[Todo[1].disk] = Todo[1].size
    BY <1>0, <1>5, TodoType DEF DiskResized, Todo
  <2>1. CASE Len(Todo) = 1
    BY <1>0, <1>5, <2>1, ReturnIdles, IdlePlan DEF DiskResized, Todo
  <2>2. CASE Len(Todo) = 2
    <3>1. /\ op'.pc = "call" /\ Todo' = Tail(Todo) /\ op'.total = op.total
          /\ Ours' = Ours
      <4>1. op' = [op EXCEPT !.pc = "call", !.toResize = Tail(op.toResize)]
        BY <1>5, <2>2 DEF DiskResized, Todo
      <4> QED
        BY <1>0, <4>1 DEF TypeOK, OpRecord, Todo, Ours
    <3>2. Todo[2] \in Resizes
      BY <1>0, <2>0, <2>2, TodoType
    <3>3. Len(Todo') = 1 /\ Todo'[1] = Todo[2]
      BY <1>0, <2>0, <2>2, <3>1, TodoType
    <3>4. ~Busy' /\ size' = size /\ swap_size' = swap_size
      BY <1>5 DEF DiskResized, Busy
    <3>5. SUFFICES ASSUME Ours PROVE PlanInv'
      BY <3>1 DEF PlanInv, PlannedWell, SharesSpace, ShrinksFirst, WaitsForOwn
    <3>6. /\ Todo[2].disk = Other(Todo[1].disk)
          /\ Todo[1].size + Todo[2].size = op.total
          /\ Todo[2].disk = "swap" => Todo[2].size = swap_size
          /\ Todo[1].disk = "swap" => Todo[1].size = swap_size
      BY <1>0, <2>0, <2>2, <3>5 DEF PlanInv, SharesSpace
    <3>7. Other(Todo[2].disk) = Todo[1].disk
      BY <2>0, <3>6 DEF Resizes, Disks, Other
    <3>8. Todo[2].size + size[Other(Todo[2].disk)] = op.total
      BY <2>0, <3>2, <3>6, <3>7 DEF Resizes
    <3>9. Todo[2].disk = "boot" => size["swap"] = swap_size
      BY <2>0, <3>6, <3>7 DEF Resizes, Disks, Other
    <3>10. SharesSpace'
      BY <3>1, <3>3, <3>4, <3>6, <3>8, <3>9 DEF SharesSpace
    <3> QED
      BY <3>1, <3>3, <3>4, <3>10
      DEF PlanInv, PlannedWell, ShrinksFirst, WaitsForOwn
  <2> QED
    BY <1>0, <2>0, <2>1, <2>2, TodoType
<1> QED
  BY <1>1, <1>2, <1>3, <1>4, <1>5 DEF Provider

LEMMA PlanJobDone ==
    ASSUME IInv, JobDone
    PROVE  PlanInv'
<1>0. TypedSpace /\ TypeOK /\ PlanInv /\ Busy
  BY DEF IInv, TypedSpace, JobDone
<1>1. op' = op /\ ~Busy' /\ swap_size' = swap_size
  BY DEF JobDone, Busy
<1>2. CASE op.pc = "wait" /\ Ours
  <2>1. Head(job) = Todo[1]
    BY <1>0, <1>2, JobSize DEF PlanInv, WaitsForOwn
  <2>2. size'[Other(Todo[1].disk)] = size[Other(Todo[1].disk)]
    BY <1>0, <2>1, JobDoneTotal
  <2>3. Todo[1].disk = "boot" => size'["swap"] = size["swap"]
    BY <2>2 DEF Other
  <2>4. SharesSpace'
    BY <1>0, <1>1, <2>2, <2>3 DEF PlanInv, SharesSpace, Todo, Ours
  <2> QED
    BY <1>1, <1>2, <2>4 DEF PlanInv, PlannedWell, ShrinksFirst, WaitsForOwn
<1>3. CASE ~(op.pc = "wait" /\ Ours)
  BY <1>0, <1>1, <1>3
  DEF PlanInv, PlannedWell, SharesSpace, ShrinksFirst, WaitsForOwn, Ours
<1> QED
  BY <1>2, <1>3

LEMMA PlanStep ==
    ASSUME IInv, [Next]_vars
    PROVE  PlanInv'
<1>1. CASE Provider
  BY <1>1, PlanSteps
<1>2. CASE JobDone
  BY <1>2, PlanJobDone
<1>3. CASE JobFails
  BY <1>3
  DEF JobFails, IInv, PlanInv, PlannedWell, SharesSpace, ShrinksFirst,
      WaitsForOwn, Todo, Ours, Busy, Total
<1>4. CASE UNCHANGED vars
  BY <1>4
  DEF vars, IInv, PlanInv, PlannedWell, SharesSpace, ShrinksFirst,
      WaitsForOwn, Todo, Ours, Busy, Total
<1> QED
  BY <1>1, <1>2, <1>3, <1>4 DEF Next

THEOREM SwapInvariant == Spec => []IInv
<1>1. IInv /\ [Next]_vars => PlanInv'
  BY PlanStep
<1>2. Init => IInv
  BY InitIInv
<1>3. IInv <=> TypedSpace /\ PlanInv
  BY DEF IInv
<1> QED
  BY <1>1, <1>2, <1>3, InductiveTypedSpace, PTL DEF Spec

-----------------------------------------------------------------------------
(* The properties. *)

LEMMA PlanFits ==
    ASSUME IInv
    PROVE  ResizesFit
<1> SUFFICES ASSUME op.pc = "call", Ours PROVE Fits(Head(Todo))
  BY DEF ResizesFit, Ours, Todo
<1>0. TypeOK /\ SpaceInv /\ PlanInv
  BY DEF IInv, TypedSpace
<1>1. Head(Todo) = Todo[1] /\ Todo[1] \in Resizes
  BY <1>0, TodoType
<1>2. CASE Len(Todo) = 2
  <2>1. Todo[1].size <= size[Todo[1].disk]
    BY <1>0, <1>2 DEF PlanInv, ShrinksFirst
  <2>2. size[Todo[1].disk] + size[Other(Todo[1].disk)] = Total
    BY <1>0, <1>1, TypedOp DEF Resizes, Disks, Other, Total
  <2> QED
    BY <1>0, <1>1, <2>1, <2>2
    DEF TypeOK, SpaceInv, Fits, Resizes, Disks, Other
<1>3. CASE Len(Todo) = 1
  BY <1>0, <1>1, <1>3, TypedOp DEF PlanInv, SharesSpace, Fits
<1> QED
  BY <1>0, <1>2, <1>3, TodoType

\* adjustSwapSizeIfNeeded never asks for more space than there is, whatever
\* the capacity, the configured sizes and the number of earlier failures.
THEOREM ResizesAlwaysFit == Spec => []ResizesFit
<1>1. IInv => ResizesFit
  BY PlanFits
<1> QED
  BY <1>1, SwapInvariant, PTL

LEMMA PlanKeepsSpace ==
    ASSUME IInv, [Next]_vars,
           op.pc = "wait", op'.pc = "idle", op'.result = "ok", Ours
    PROVE  size'["swap"] = swap_size /\ Total' = op.total
<1>0. TypeOK /\ PlanInv
  BY DEF IInv, TypedSpace
<1>1. DiskResized
  <2>1. ~ResizeFailed /\ ~StepFails
    BY <1>0 DEF ResizeFailed, StepFails, Return, TypeOK, OpRecord
  <2>2. ~JobDone /\ ~JobFails /\ ~UNCHANGED vars
    BY DEF JobDone, JobFails, vars
  <2> QED
    BY <2>1, <2>2
    DEF Next, Provider, Plan, AdjustSwapSize, ResizeInstanceDisk, NilDisk,
        ResizeRefused
<1>2. Todo[1] \in Resizes /\ size[Todo[1].disk] = Todo[1].size /\ size' = size
  BY <1>0, <1>1, TodoType DEF DiskResized, Todo
<1>3. Len(Todo) = 1
  BY <1>0, <1>1, TodoType DEF DiskResized, TypeOK, OpRecord, Todo
<1>4. /\ Todo[1].size + size[Other(Todo[1].disk)] = op.total
      /\ Todo[1].disk = "boot" => size["swap"] = swap_size
      /\ Todo[1].disk = "swap" => Todo[1].size = swap_size
  BY <1>0, <1>3 DEF PlanInv, SharesSpace
<1> QED
  BY <1>0, <1>2, <1>4, TypedOp DEF Resizes, Disks, Other, Total

\* A change of swap_size that succeeds gives the swap disk its size and loses
\* no space, whatever happened before it.
THEOREM SpaceIsKept == Spec => SpaceKept
<1>1. IInv /\ [Next]_vars =>
        [op.pc = "wait" /\ op'.pc = "idle" /\ op'.result = "ok" /\ ~op.pending
            => size'["swap"] = swap_size /\ Total' = op.total]_vars
  BY PlanKeepsSpace DEF Ours
<1> QED
  BY <1>1, SwapInvariant, PTL DEF Spec, SpaceKept

=============================================================================
