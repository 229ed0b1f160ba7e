------------------------------- MODULE MCAgent -------------------------------
(***************************************************************************)
(* Small instances of Agent.                                               *)
(***************************************************************************)
EXTENDS Agent, TLC

Symmetry == Permutations(Students)
==============================================================================
