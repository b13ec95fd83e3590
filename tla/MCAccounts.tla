----------------------------- MODULE MCAccounts ------------------------------
(* An instance of Accounts for TLC. *)
EXTENDS Accounts, TLC

RequestSymmetry == Permutations(Requests)
=============================================================================
