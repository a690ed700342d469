----------------------------- MODULE MCAccounts -----------------------------
(* Small instance of Accounts for TLC. *)
EXTENDS Accounts, TLC

Symmetry == Permutations(Names) \cup Permutations(Workers)
=============================================================================
