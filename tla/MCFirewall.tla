----------------------------- MODULE MCFirewall -----------------------------
(* Instances of Firewall for TLC. *)
EXTENDS Firewall, TLC

\* Clients and jobs are interchangeable; used by runs without liveness only.
Symmetry == Permutations(Clients) \union Permutations(Jobs)
=============================================================================
