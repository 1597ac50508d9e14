------------------------------- MODULE MCProject --------------------------------
(***************************************************************************)
(* An instance of Project for TLC: two seeds that may overlap, and two     *)
(* drawn passwords, each pair interchangeable.                             *)
(***************************************************************************)
EXTENDS Project, TLC

Symmetry == Permutations(Runners) \cup Permutations(Secrets)
===============================================================================
