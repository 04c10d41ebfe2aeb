----------------------------- MODULE MCAccounts -----------------------------
(* Instances of Accounts for TLC. *)
EXTENDS Accounts, TLC

\* Requests are interchangeable.
Symmetry == Permutations(Jobs)
=============================================================================
