---------------------------- MODULE ExamLifecycle ----------------------------
(***************************************************************************)
(* What the exam database promises to the agent, to Abitti2 and to the     *)
(* teachers: scheduled exam packages are worked on one at a time.  A       *)
(* package is elected as the current one, walks through its whole life     *)
(* cycle one phase at a time, and only when it is archived may another one *)
(* be elected.  Nothing else, in particular no import of exam information, *)
(* moves a package.  ExamStore implements this specification.              *)
(***************************************************************************)

CONSTANT Packages      \* external ids of scheduled exam packages

VARIABLES
  state,     \* package -> phase of its life cycle
  current    \* the packages flagged as current

vars == <<state, current>>

\* The phase of a package nobody has worked on: NULL in the database.
NoState == "none"

PackageStates ==
  {NoState, "ready", "running", "stopping", "stopped", "archived"}

\* The phases in which a package occupies the exam server.
Active == {"ready", "running", "stopping", "stopped"}

NextState ==
  [s \in PackageStates \ {"archived"} |->
     CASE s = NoState    -> "ready"
       [] s = "ready"    -> "running"
       [] s = "running"  -> "stopping"
       [] s = "stopping" -> "stopped"
       [] s = "stopped"  -> "archived"]

TypeOK == /\ state \in [Packages -> PackageStates]
          /\ current \subseteq Packages

Init == /\ state = [p \in Packages |-> NoState]
        /\ current = {}

Elect(p) == /\ current = {}
            /\ state[p] = NoState
            /\ current' = {p}
            /\ UNCHANGED state

Advance(p) == /\ p \in current
              /\ state[p] # "archived"
              /\ state' = [state EXCEPT ![p] = NextState[state[p]]]
              /\ current' = IF state'[p] = "archived" THEN current \ {p}
                                                      ELSE current

Next == \E p \in Packages : Elect(p) \/ Advance(p)

Spec == Init /\ [][Next]_vars

(***************************************************************************)
(* At most one package occupies the exam server, and it is the current one.*)
(***************************************************************************)
OneExamAtATime ==
  \A p, q \in Packages :
    /\ state[p] \in Active => p \in current
    /\ p \in current /\ q \in current => p = q
==============================================================================
