----------------------------- MODULE InstanceSwap -----------------------------
(***************************************************************************)
(* The default disks of a linode_instance deployed from an image, and what *)
(* a change of swap_size does to them (linode/instance/resource.go,        *)
(* adjustSwapSizeIfNeeded): two resizes, by the difference between the     *)
(* configured and the refreshed swap_size.  The Linode's power state is    *)
(* InstanceUpdate's subject.                                               *)
(***************************************************************************)
EXTENDS Integers, Sequences

CONSTANTS
    Capacity,       \* disk space of the type
    SwapSizes,      \* values of swap_size, in the configuration or at the start
    MaxFailures     \* bound: calls, jobs or waits that fail

ASSUME InstanceSwapAssumption ==
    /\ Capacity \in Nat
    /\ SwapSizes \subseteq 0 .. Capacity
    /\ MaxFailures \in Nat

VARIABLES
    size,       \* the sizes of the two disks; 0: there is no such disk
    job,        \* the resize the API works on, as a sequence of at most one
    swap_size,  \* the configured one; fixed
    op,         \* the update that runs
    failures

vars == <<size, job, swap_size, op, failures>>

Disks == {"boot", "swap"}

Other(disk) == IF disk = "boot" THEN "swap" ELSE "boot"

\* Sizes come from a difference, so that a resize may be to less than nothing.
Resizes == [disk : Disks, size : -Capacity .. 2 * Capacity]

\* oldSwap: swap_size in the refreshed state.  toResize: what is still to be
\* done.  total: the space both disks took when the sizes were computed.
\* pending: a resize of an earlier run was unfinished at the refresh.
OpRecord ==
    [pc : {"idle", "planned", "call", "wait"}, oldSwap : 0 .. Capacity,
     toResize : Seq(Resizes), total : 0 .. Capacity,
     pending : BOOLEAN, result : {"none", "ok", "error", "panic"}]

TypeOK ==
    /\ size \in [Disks -> 0 .. Capacity]
    /\ job \in Seq(Resizes) /\ Len(job) <= 1
    /\ swap_size \in 0 .. Capacity
    /\ op \in OpRecord
    /\ op.pc \in {"call", "wait"} => Len(op.toResize) \in {1, 2}
    /\ failures \in 0 .. MaxFailures

Busy == job # <<>>

Total == size["boot"] + size["swap"]

Fits(resize) == resize.size + size[Other(resize.disk)] <= Capacity

Accepted(resize) == resize.size >= 1 /\ Fits(resize) /\ ~Busy

Return(result) == op' = [op EXCEPT !.pc = "idle", !.result = result]

-----------------------------------------------------------------------------
\* flattenInstanceDisks gives swap_size its value in the state.
Plan ==
    /\ op.pc = "idle"
    /\ IF size["swap"] = swap_size THEN Return("ok")
       ELSE op' = [op EXCEPT !.pc = "planned", !.oldSwap = size["swap"],
                             !.pending = Busy]
    /\ UNCHANGED <<size, job, swap_size, failures>>

\* Mutant: the difference has the wrong sign and is counted twice.
BootWantedMutant == size["boot"] + 2 * (swap_size - op.oldSwap)

\* The boot disk's size is the current one, oldSwap the refreshed one.
BootWanted == size["boot"] + op.oldSwap - swap_size

\* Mutant: the boot disk always goes first.
ToResizeMutant ==
    <<[disk |-> "boot", size |-> BootWanted], [disk |-> "swap", size |-> swap_size]>>

\* A swap disk that becomes smaller is resized first.
ToResize ==
    LET boot == [disk |-> "boot", size |-> BootWanted]
        swap == [disk |-> "swap", size |-> swap_size]
    IN  IF size["boot"] < BootWanted THEN <<swap, boot>> ELSE <<boot, swap>>

AdjustSwapSize ==
    /\ op.pc = "planned"
    /\ op' = [op EXCEPT !.pc = "call", !.toResize = ToResize, !.total = Total]
    /\ UNCHANGED <<size, job, swap_size, failures>>

\* changeInstanceDiskSize.
ResizeInstanceDisk ==
    /\ op.pc = "call" /\ size[Head(op.toResize).disk] # 0
    /\ Accepted(Head(op.toResize))
    /\ job' = <<Head(op.toResize)>>
    /\ op' = [op EXCEPT !.pc = "wait"]
    /\ UNCHANGED <<size, swap_size, failures>>

\* getInstanceDefaultDisks found no such disk: its pointer is nil.
NilDisk ==
    /\ op.pc = "call" /\ size[Head(op.toResize).disk] = 0
    /\ Return("panic")
    /\ UNCHANGED <<size, job, swap_size, failures>>

\* changeInstanceDiskSize and the API refuse what does not fit.
ResizeRefused ==
    /\ op.pc = "call" /\ size[Head(op.toResize).disk] # 0
    /\ ~Accepted(Head(op.toResize))
    /\ Return("error")
    /\ UNCHANGED <<size, job, swap_size, failures>>

\* Mutant: the second disk is left to the next run.
DiskResizedMutant ==
    /\ op.pc = "wait" /\ ~Busy
    /\ size[Head(op.toResize).disk] = Head(op.toResize).size
    /\ Return("ok")
    /\ UNCHANGED <<size, job, swap_size, failures>>

DiskResized ==
    /\ op.pc = "wait" /\ ~Busy
    /\ size[Head(op.toResize).disk] = Head(op.toResize).size
    /\ IF Len(op.toResize) = 1 THEN Return("ok")
       ELSE op' = [op EXCEPT !.pc = "call", !.toResize = Tail(@)]
    /\ UNCHANGED <<size, job, swap_size, failures>>

\* The event says failed, or the disk has not got its size.
ResizeFailed ==
    /\ op.pc = "wait" /\ ~Busy
    /\ size[Head(op.toResize).disk] # Head(op.toResize).size
    /\ Return("error")
    /\ UNCHANGED <<size, job, swap_size, failures>>

\* A call is refused, or a wait times out.
StepFails ==
    /\ op.pc # "idle" /\ failures > 0
    /\ failures' = failures - 1
    /\ Return("error")
    /\ UNCHANGED <<size, job, swap_size>>

-----------------------------------------------------------------------------
\* The API finishes a resize, or fails to: a file system may not shrink.
JobDone ==
    /\ Busy
    /\ size' = [size EXCEPT ![Head(job).disk] = Head(job).size]
    /\ job' = <<>>
    /\ UNCHANGED <<swap_size, op, failures>>

JobFails ==
    /\ Busy /\ failures > 0
    /\ job' = <<>>
    /\ failures' = failures - 1
    /\ UNCHANGED <<size, swap_size, op>>

-----------------------------------------------------------------------------
Init ==
    /\ swap_size \in SwapSizes
    /\ \E swap \in SwapSizes : size = [boot |-> Capacity - swap, swap |-> swap]
    /\ size["boot"] > 0
    /\ job = <<>>
    /\ op = [pc |-> "idle", oldSwap |-> 0, toResize |-> <<>>, total |-> 0,
             pending |-> FALSE, result |-> "none"]
    /\ failures = MaxFailures

Provider ==
    \/ Plan \/ AdjustSwapSize \/ ResizeInstanceDisk \/ NilDisk
    \/ ResizeRefused \/ DiskResized \/ ResizeFailed \/ StepFails

Next == Provider \/ JobDone \/ JobFails

Spec == Init /\ [][Next]_vars

-----------------------------------------------------------------------------
\* The disk that becomes smaller is resized before the one that grows, so that
\* adjustSwapSizeIfNeeded never asks for more space than there is, however many
\* earlier updates failed half way; unless a resize of one is still running.
ResizesFit ==
    op.pc = "call" /\ ~op.pending => Fits(Head(op.toResize))

\* A change of swap_size that succeeds moves space from one disk to the other
\* and loses none.
SpaceKept ==
    [][op.pc = "wait" /\ op'.pc = "idle" /\ op'.result = "ok" /\ ~op.pending
          => size'["swap"] = swap_size /\ Total' = op.total]_vars

\* docs/resources/instance.md: "The swap disk will be allocated with the value
\* of the swap_size attribute and the boot disk will take up the remainder of
\* disk space alotted by the instance type's specification."
BootTakesRemainder == op.pc = "idle" /\ op.result = "ok" => Total = Capacity

=============================================================================
