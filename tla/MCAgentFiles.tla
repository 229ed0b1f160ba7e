----------------------------- MODULE MCAgentFiles -----------------------------
(***************************************************************************)
(* AgentFiles with three exam files in two versions each, a schedule that  *)
(* changes three times, and two faults of any kind.  Two of the exams      *)
(* share a package, so that an answer can have new exams in a known        *)
(* package, in a new one, and in both.                                     *)
(***************************************************************************)
EXTENDS AgentFiles

CONSTANTS f1, f2, f3, p1, p2

MCFiles == {f1, f2, f3}
MCPackage == [f \in MCFiles |-> IF f = f3 THEN p2 ELSE p1]
==============================================================================
