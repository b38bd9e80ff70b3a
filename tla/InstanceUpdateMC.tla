--------------------------- MODULE InstanceUpdateMC ---------------------------
(* Types with three sizes of disk, two of them with the same one. *)
EXTENDS InstanceUpdate

MCCapacity ==
    [t \in Types |-> CASE t = "nanode" -> 1 [] t = "large" -> 3 [] OTHER -> 2]

=============================================================================
