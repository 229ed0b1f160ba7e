----------------------------- MODULE StatusReports -----------------------------
(***************************************************************************)
(* The table abitti2_status_report and its two handlers in                 *)
(* ktp_controller/api/system/routes.py.  The agent stores a report for     *)
(* every stats message of Abitti2, and decides from the last report when   *)
(* an exam has stopped.  The table is kept small by deleting its oldest    *)
(* rows, and both "oldest" and "last" are decided by dbrow_created_at, the *)
(* wall clock at the time of the insertion.  The handlers do not suspend,  *)
(* so that requests are served one after the other.                        *)
(***************************************************************************)
EXTENDS Naturals, FiniteSets

CONSTANTS
  MaxCount,       \* _get_status_report_max_count
  PreserveCount,  \* _get_status_report_preserve_count
  MaxReports,     \* bound: reports stored
  MaxSteps        \* bound: how often the clock is set back

\* The "logical invariant" of routes.py
ASSUME CountsAssumption == /\ PreserveCount \in Nat /\ MaxCount \in Nat
                           /\ 0 < PreserveCount /\ PreserveCount < MaxCount
ASSUME BoundsAssumption == MaxReports \in Nat /\ MaxSteps \in Nat

VARIABLES
  rows,    \* the table; a report is known by its number
  stored,  \* how many reports have been stored so far
  now,     \* datetime.utcnow
  steps,   \* how often the clock has been set back
  answer   \* what the last reader got

vars == <<rows, stored, now, steps, answer>>

Row == [number : Nat, createdAt : Nat]

TypeOK ==
  /\ rows \subseteq Row /\ IsFiniteSet(rows)
  /\ \A r \in rows : r.number \in 1..stored
  /\ \A r, q \in rows : r.number = q.number => r = q
  /\ stored \in Nat /\ now \in Nat /\ steps \in Nat /\ answer \in 0..stored
  /\ Cardinality(rows) <= MaxCount

Init == rows = {} /\ stored = 0 /\ now = 0 /\ steps = 0 /\ answer = 0

\* Variation: the latest rows are deleted, the order being descending.
OldestDescending(n) ==
  {old \in SUBSET rows :
     /\ Cardinality(old) = n
     /\ \A r \in old : \A q \in rows \ old : r.createdAt >= q.createdAt}

\* The first n rows by dbrow_created_at; rows of the same instant come in
\* any order.
Oldest(n) ==
  {old \in SUBSET rows :
     /\ Cardinality(old) = n
     /\ \A r \in old : \A q \in rows \ old : r.createdAt <= q.createdAt}

\* Variation: the limit is tested with ">".
KeptOneMore ==
  IF Cardinality(rows) > MaxCount
  THEN {rows \ old : old \in Oldest(Cardinality(rows) - PreserveCount)}
  ELSE {rows}

\* At the limit all but the latest PreserveCount rows are deleted.
Kept ==
  IF Cardinality(rows) >= MaxCount
  THEN {rows \ old : old \in Oldest(Cardinality(rows) - PreserveCount)}
  ELSE {rows}

\* _send_abitti2_status_report, for a report that the schema accepts.  Two
\* reports are never stored in the same instant of a steady clock.
SendStatusReport ==
  /\ stored < MaxReports
  /\ stored' = stored + 1
  /\ now' = now + 1
  /\ \E kept \in Kept :
       rows' = kept \cup {[number |-> stored', createdAt |-> now']}
  /\ UNCHANGED <<steps, answer>>

\* Variation: the first row of an unordered query, that is the one with the
\* smallest key.
NewestByKey == {r \in rows : \A q \in rows : r.number <= q.number}

Newest == {r \in rows : \A q \in rows : q.createdAt <= r.createdAt}

\* _get_last_abitti2_status_report
GetLastStatusReport ==
  /\ answer' \in IF rows = {} THEN {0} ELSE {r.number : r \in Newest}
  /\ UNCHANGED <<rows, stored, now, steps>>

\* The clock of the machine is set back.
SetClockBack ==
  /\ steps < MaxSteps /\ steps' = steps + 1
  /\ \E t \in 0..now : t < now /\ now' = t
  /\ UNCHANGED <<rows, stored, answer>>

Next == SendStatusReport \/ GetLastStatusReport \/ SetClockBack

Spec == Init /\ [][Next]_vars

------------------------------------------------------------------------------
(***************************************************************************)
(* Properties.                                                             *)
(***************************************************************************)

\* Deleting at the limit never takes what a reader needs: the table holds
\* the report stored last and PreserveCount more, or all there ever were,
\* whatever the clock does; with a steady clock these are the latest ones.
LatestAreKept ==
  /\ stored > 0 => \E r \in rows : r.number = stored
  /\ Cardinality(rows) > PreserveCount \/ Cardinality(rows) = stored
  /\ steps = 0 => \A n \in 1..stored :
       n + PreserveCount >= stored => \E r \in rows : r.number = n

\* A reader gets the report stored last, except while the clock is behind
\* the reports: then readers go on getting one of those they may have got
\* before, or the new one if it is stamped as late, whatever is deleted
\* meanwhile, and the first one stored when the clock has caught up is the
\* last one again.
Register == INSTANCE LastReport WITH
              last <- stored,
              top <- {r.number : r \in Newest},
              behind <- (\E r \in rows : r.createdAt > now)

LastReportSpec == Register!Spec
==============================================================================
