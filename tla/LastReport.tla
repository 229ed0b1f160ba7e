------------------------------ MODULE LastReport ------------------------------
(***************************************************************************)
(* What the status report store of the API promises: whoever asks for the  *)
(* last status report gets the one that was stored last, as long as the    *)
(* clock of the machine goes forward.  Once it has been set back, reports  *)
(* may be hidden behind one that was stored before, but what readers get   *)
(* changes only when a report is stored, never to one that readers have    *)
(* already been past, and the first report that is stored after the clock  *)
(* has caught up ends it.                                                  *)
(*                                                                         *)
(* Reports are numbered in the order in which they are stored.             *)
(***************************************************************************)
EXTENDS Naturals

VARIABLES
  last,    \* the number of the report stored last, 0 when there is none
  top,     \* the reports that readers may get: several if stamped alike
  behind,  \* the clock is behind the reports
  answer   \* what the last reader got, 0 for null

lastVars == <<last, top, behind, answer>>

Init == last = 0 /\ top = {} /\ behind = FALSE /\ answer = 0

Put ==
  /\ last' = last + 1
  /\ \/ top' = {last'}
     \/ behind /\ top' \subseteq top \cup {last'} /\ top' \cap top # {}
  /\ behind' \in BOOLEAN /\ (behind' => behind)
  /\ UNCHANGED answer

Get == /\ answer' \in IF last = 0 THEN {0} ELSE top
       /\ UNCHANGED <<last, top, behind>>

LoseTrack == behind' = TRUE /\ UNCHANGED <<last, top, answer>>

Next == Put \/ Get \/ LoseTrack

Spec == Init /\ [][Next]_lastVars
==============================================================================
