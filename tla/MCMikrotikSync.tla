--------------------------- MODULE MCMikrotikSync ---------------------------
(* Instances of MikrotikSync for TLC. *)
EXTENDS MikrotikSync
=============================================================================
