---------------------------- MODULE MCRouterSetup ----------------------------
(* Instances of RouterSetup for TLC. *)
EXTENDS RouterSetup, TLC
Symmetry == Permutations(Jobs) \union Permutations(Routers)
=============================================================================
