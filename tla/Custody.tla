-------------------------------- MODULE Custody --------------------------------
(***************************************************************************)
(* What the handlers of a resource promise about the object they stand     *)
(* for: it is always in somebody's hands.  Either the create handler that  *)
(* is about to make it, or has made it, is still running, or the state of  *)
(* Terraform holds it; whoever is outside may take it away at any time,    *)
(* and only then does the state let go of it.  Resource.tla implements     *)
(* this, for every resource whose handlers keep the promise.               *)
(***************************************************************************)

VARIABLES
    there,      \* the object exists
    holder      \* who knows of it: "nobody", "handler" (create) or "state"

custody == <<there, holder>>

\* There is nothing, or an import has recorded what there is.
Init == holder \in {"nobody", "state"} /\ there \in {FALSE, holder = "state"}

\* A create handler starts where there is nothing, and makes one object.
Take   == ~there /\ holder = "nobody" /\ holder' = "handler" /\ UNCHANGED there
Make   == ~there /\ holder = "handler" /\ there' = TRUE /\ UNCHANGED holder

\* It ends with a record, or with nothing if there is nothing.
Record == holder = "handler" /\ holder' = "state" /\ UNCHANGED there
GiveUp == ~there /\ holder = "handler" /\ holder' = "nobody" /\ UNCHANGED there

\* The object is deleted, by the delete handler or by somebody else.
Vanish == there /\ there' = FALSE /\ UNCHANGED holder

\* A record is dropped once its object is gone.
Forget == ~there /\ holder = "state" /\ holder' = "nobody" /\ UNCHANGED there

Next == Take \/ Make \/ Record \/ GiveUp \/ Vanish \/ Forget

Spec == Init /\ [][Next]_custody
================================================================================
