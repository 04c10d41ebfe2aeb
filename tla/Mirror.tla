------------------------------- MODULE Mirror -------------------------------
(***************************************************************************)
(* What syncing the clients table to the engine promises: the engine holds *)
(* a copy of the wanted peers, taken as a whole, or nothing after a        *)
(* restart.  It never holds a mixture of two tables.                       *)
(***************************************************************************)
CONSTANT Peers
VARIABLES want, have

vars == <<want, have>>

Init == want \in SUBSET Peers /\ have = want

\* The table changes.
Edit == want' \in SUBSET Peers /\ have' = have

\* One sync.
Push == have' = want /\ want' = want

\* The engine loses its state.
Drop == have' = {} /\ want' = want

Next == Edit \/ Push \/ Drop

Spec == Init /\ [][Next]_vars
=============================================================================
