---------------------------- MODULE MCContracts ----------------------------
(* Contracts for TLC. *)
EXTENDS Contracts, TLC

Perms == Permutations(Users) \cup Permutations(TaskIds)
=============================================================================
