----------------------------- MODULE MCPeerSync -----------------------------
(* Instances of PeerSync for TLC. *)
EXTENDS PeerSync, TLC

\* Clients and jobs are interchangeable; used by runs without liveness only.
Symmetry == Permutations(Clients) \union Permutations(Jobs)
=============================================================================
