----------------------------- MODULE LKEClusterMC -----------------------------
(* Small instances of LKECluster. *)
EXTENDS LKECluster

MCSpec(type, count) == [type |-> type, count |-> count]

\* One pair differs in the type, one in what can be updated in place.
MCSpecs ==
    {MCSpec("standard", 1), MCSpec("standard", 2), MCSpec("dedicated", 1)}

MCTwoSpecs == {MCSpec("standard", 1), MCSpec("dedicated", 1)}

=============================================================================
