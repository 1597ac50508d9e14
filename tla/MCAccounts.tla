------------------------------ MODULE MCAccounts -------------------------------
(***************************************************************************)
(* Instances of Accounts for TLC.                                          *)
(***************************************************************************)
EXTENDS Accounts, TLC

Symmetry == Permutations(Calls) \cup Permutations(Tokens) \cup Permutations(Users)
    \cup Permutations(Emails) \cup Permutations(Passwords)
===============================================================================
