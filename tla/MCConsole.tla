------------------------------- MODULE MCConsole -------------------------------
(***************************************************************************)
(* A small instance of Console for TLC: of the three lists, which the code *)
(* treats alike but for a policy's statements, the policies; of the two    *)
(* queries of a user, which every table treats alike, one; and two         *)
(* mutations that no page has heard of yet.                                *)
(***************************************************************************)
EXTENDS Console, TLC

CONSTANTS c1, c2

MCKeys == {"users", "user", "policies", "policy"}
MCMutations == {c1, c2}

\* Mutations are compared for equality and never named.
Symmetry == Permutations(MCMutations)
===============================================================================
