-------------------------- MODULE StatusReportsProofs --------------------------
(***************************************************************************)
(* Theorems about StatusReports for any limit, any number of rows to       *)
(* preserve, any number of reports and any clock, checked by the TLA+      *)
(* proof system.                                                           *)
(***************************************************************************)
EXTENDS StatusReports, FiniteSetTheorems, Integers, TLAPS

USE CountsAssumption, BoundsAssumption

\* With a steady clock the instants order the rows as the numbers do, and
\* none lies in the future.
RowsInOrder ==
  steps = 0 => /\ \A r \in rows : r.createdAt <= now
               /\ \A r, q \in rows :
                    r.number < q.number => r.createdAt < q.createdAt

\* The inductive invariant.
Inv == TypeOK /\ LatestAreKept /\ RowsInOrder

------------------------------------------------------------------------------
(***************************************************************************)
(* What a deletion leaves.                                                 *)
(***************************************************************************)

\* The rows that stay number PreserveCount, or all of them.
LEMMA KeptCount ==
  ASSUME TypeOK, NEW kept \in Kept
  PROVE  /\ kept \subseteq rows /\ IsFiniteSet(kept)
         /\ Cardinality(kept) \in Nat /\ Cardinality(rows) \in Nat
         /\ Cardinality(kept) < MaxCount
         /\ \/ kept = rows
            \/ Cardinality(kept) = PreserveCount
         /\ Cardinality(rows) > PreserveCount =>
              Cardinality(kept) >= PreserveCount
<1>1. IsFiniteSet(rows) /\ Cardinality(rows) \in Nat
  BY FS_CardinalityType DEF TypeOK
<1>2. CASE Cardinality(rows) >= MaxCount
  <2>1. PICK old \in Oldest(Cardinality(rows) - PreserveCount) :
               kept = rows \ old
    BY <1>2 DEF Kept
  <2>2. old \subseteq rows /\ Cardinality(old) = Cardinality(rows) - PreserveCount
    BY <2>1 DEF Oldest
  <2>3. IsFiniteSet(old) /\ rows \cap old = old
    BY <1>1, <2>2, FS_Subset
  <2>4. /\ IsFiniteSet(kept)
        /\ Cardinality(kept) = Cardinality(rows) - Cardinality(old)
    <3>1. /\ IsFiniteSet(rows \ old)
          /\ Cardinality(rows \ old)
               = Cardinality(rows) - Cardinality(rows \cap old)
      BY <1>1, FS_Difference
    <3> QED  BY <2>1, <2>3, <3>1
  <2>5. Cardinality(kept) = PreserveCount
    BY <1>1, <2>2, <2>4
  <2> QED  BY <1>1, <2>1, <2>4, <2>5
<1>3. CASE ~(Cardinality(rows) >= MaxCount)
  BY <1>1, <1>3 DEF Kept
<1> QED  BY <1>2, <1>3

\* With a steady clock the latest PreserveCount reports are among them: if
\* one was deleted, all rows that stay would be later ones, and there are
\* not so many.
LEMMA LatestStay ==
  ASSUME Inv, steps = 0, NEW kept \in Kept,
         NEW n \in 1..stored, n + PreserveCount > stored
  PROVE  \E r \in kept : r.number = n
<1>1. stored \in Nat /\ IsFiniteSet(rows) /\ Cardinality(rows) \in Nat
  BY FS_CardinalityType DEF Inv, TypeOK
<1>2. PICK r \in rows : r.number = n
  BY <1>1 DEF Inv, LatestAreKept
<1>3. CASE kept = rows
  BY <1>2, <1>3
<1>4. CASE kept # rows
  <2>1. PICK old \in Oldest(Cardinality(rows) - PreserveCount) :
               kept = rows \ old
    BY <1>4 DEF Kept
  <2>2. Cardinality(kept) = PreserveCount /\ IsFiniteSet(kept)
    BY <1>4, KeptCount DEF Inv
  <2>3. SUFFICES ASSUME r \in old PROVE FALSE
    BY <1>2, <2>1
  <2>4. \A q \in kept : q.number \in (n + 1)..stored
    <3> TAKE q \in kept
    <3>1. q \in rows /\ q \notin old /\ q # r
      BY <2>1, <2>3
    <3>2. r.createdAt <= q.createdAt
      BY <2>1, <2>3, <3>1 DEF Oldest
    <3>3. q.number \in 1..stored /\ q.number # n
      BY <1>2, <3>1 DEF Inv, TypeOK
    <3>4. ~(q.number < n)
      <4>1. q.createdAt \in Nat /\ r.createdAt \in Nat
        BY <1>2, <3>1 DEF Inv, TypeOK, Row
      <4> QED  BY <1>2, <3>1, <3>2, <4>1 DEF Inv, RowsInOrder
    <3> QED  BY <1>1, <3>3, <3>4
  <2> DEFINE later == (n + 1)..stored
             number == [q \in kept |-> q.number]
  <2>5. /\ IsFiniteSet(later)
        /\ Cardinality(later) < PreserveCount
    <3>1. n \in Int /\ stored \in Int
      BY <1>1
    <3>2. /\ IsFiniteSet(later)
          /\ Cardinality(later) = IF n + 1 > stored THEN 0
                                                    ELSE stored - (n + 1) + 1
      BY <3>1, FS_Interval
    <3> QED  BY <1>1, <3>2
  <2>6. number \in [kept -> later]
    BY <2>4
  <2>7. PICK q1, q2 \in kept : q1 # q2 /\ number[q1] = number[q2]
    <3>1. Cardinality(later) < Cardinality(kept)
      BY <2>2, <2>5
    <3> HIDE DEF later, number
    <3> QED  BY <2>2, <2>5, <2>6, <3>1, FS_PigeonHole
  <2> QED  BY <2>1, <2>7 DEF Inv, TypeOK
<1> QED  BY <1>3, <1>4

------------------------------------------------------------------------------
(***************************************************************************)
(* The invariant.                                                          *)
(***************************************************************************)

\* An empty table is in order.
LEMMA Initially == Init => Inv
<1> SUFFICES ASSUME Init PROVE Inv
  OBVIOUS
<1>1. IsFiniteSet(rows) /\ Cardinality(rows) = 0
  BY FS_EmptySet DEF Init
<1> QED  BY <1>1 DEF Init, Inv, TypeOK, LatestAreKept, RowsInOrder

\* Storing a report, with the retention at the limit, keeps the order.
LEMMA StoreKeepsInv == Inv /\ SendStatusReport => Inv'
<1> SUFFICES ASSUME Inv, SendStatusReport PROVE Inv'
  OBVIOUS
<1>1. PICK kept \in Kept :
             rows' = kept \cup {[number |-> stored', createdAt |-> now']}
  BY DEF SendStatusReport
<1> DEFINE row == [number |-> stored', createdAt |-> now']
<1>2. /\ stored \in Nat /\ now \in Nat /\ steps \in Nat
      /\ stored' = stored + 1 /\ now' = now + 1
      /\ steps' = steps /\ answer' = answer
  BY DEF SendStatusReport, Inv, TypeOK
<1>3. kept \subseteq rows /\ IsFiniteSet(kept) /\ Cardinality(kept) < MaxCount
  BY KeptCount DEF Inv
<1>4. /\ IsFiniteSet(rows')
      /\ Cardinality(rows') = Cardinality(kept) + 1
  <2>1. row \notin kept
    BY <1>2, <1>3 DEF Inv, TypeOK
  <2> QED  BY <1>1, <1>3, <2>1, FS_AddElement
<1>5. TypeOK'
  <2>1. rows' \subseteq Row
    BY <1>1, <1>2, <1>3 DEF Inv, TypeOK, Row
  <2>2. \A r \in rows' : r.number \in 1..stored'
    BY <1>1, <1>2, <1>3 DEF Inv, TypeOK
  <2>3. \A r, q \in rows' : r.number = q.number => r = q
    <3>1. \A r \in kept : r.number # row.number
      BY <1>2, <1>3 DEF Inv, TypeOK
    <3> QED  BY <1>1, <1>3, <3>1 DEF Inv, TypeOK
  <2>4. Cardinality(rows') <= MaxCount
    BY <1>3, <1>4, KeptCount DEF Inv
  <2>5. answer' \in 0..stored'
    BY <1>2 DEF Inv, TypeOK
  <2> QED  BY <1>2, <1>4, <2>1, <2>2, <2>3, <2>4, <2>5 DEF TypeOK
<1>6. LatestAreKept'
  <2>1. \E r \in rows' : r.number = stored'
    <3>1. row \in rows' /\ row.number = stored'
      BY <1>1
    <3> QED  BY <3>1
  <2>2. Cardinality(rows') > PreserveCount \/ Cardinality(rows') = stored'
    <3>1. CASE kept = rows
      BY <1>2, <1>4, <3>1, KeptCount DEF Inv, LatestAreKept
    <3>2. CASE Cardinality(kept) = PreserveCount
      BY <1>4, <3>2
    <3> QED  BY <3>1, <3>2, KeptCount DEF Inv
  <2>3. steps' = 0 => \A n \in 1..stored' :
          n + PreserveCount >= stored' => \E r \in rows' : r.number = n
    <3> SUFFICES ASSUME steps = 0, NEW n \in 1..stored',
                        n + PreserveCount >= stored'
                 PROVE  \E r \in rows' : r.number = n
      BY <1>2
    <3>1. CASE n = stored'
      BY <2>1, <3>1
    <3>2. CASE n # stored'
      <4>1. n \in 1..stored /\ n + PreserveCount > stored
        BY <1>2, <3>2
      <4>2. \E r \in kept : r.number = n
        BY <4>1, LatestStay
      <4> QED  BY <1>1, <4>2
    <3> QED  BY <3>1, <3>2
  <2> QED  BY <2>1, <2>2, <2>3 DEF LatestAreKept
<1>7. RowsInOrder'
  <2> SUFFICES ASSUME steps = 0
               PROVE  /\ \A r \in rows' : r.createdAt <= now'
                      /\ \A r, q \in rows' :
                           r.number < q.number => r.createdAt < q.createdAt
    BY <1>2 DEF RowsInOrder
  <2>1. \A r \in kept : /\ r.createdAt \in Nat /\ r.createdAt < now'
                        /\ r.number \in Nat /\ r.number < stored'
    BY <1>2, <1>3 DEF Inv, TypeOK, Row, RowsInOrder
  <2>2. \A r, q \in kept : r.number < q.number => r.createdAt < q.createdAt
    BY <1>3 DEF Inv, RowsInOrder
  <2> QED  BY <1>1, <1>2, <2>1, <2>2
<1> QED  BY <1>5, <1>6, <1>7 DEF Inv

\* Reading changes no row, and setting the clock back ends what RowsInOrder
\* says.
LEMMA NextKeepsInv == Inv /\ [Next]_vars => Inv'
<1> SUFFICES ASSUME Inv, [Next]_vars PROVE Inv'
  OBVIOUS
<1>1. CASE SendStatusReport
  BY <1>1, StoreKeepsInv
<1>2. CASE GetLastStatusReport
  <2>1. answer' \in 0..stored
    BY <1>2 DEF GetLastStatusReport, Newest, Inv, TypeOK
  <2> QED  BY <1>2, <2>1 DEF GetLastStatusReport, Inv, TypeOK,
                            LatestAreKept, RowsInOrder
<1>3. CASE SetClockBack
  <2>1. steps' \in Nat /\ steps' # 0 /\ now' \in Nat
    BY <1>3 DEF SetClockBack, Inv, TypeOK
  <2> QED  BY <1>3, <2>1 DEF SetClockBack, Inv, TypeOK, LatestAreKept,
                            RowsInOrder
<1>4. CASE UNCHANGED vars
  BY <1>4 DEF vars, Inv, TypeOK, LatestAreKept, RowsInOrder
<1> QED  BY <1>1, <1>2, <1>3, <1>4 DEF Next

\* The order of the rows is inductive.
LEMMA Invariance == Spec => []Inv
<1> QED  BY Initially, NextKeepsInv, PTL DEF Spec

\* The table keeps its type and its limit.
THEOREM RowsBounded == Spec => []TypeOK
<1>1. Inv => TypeOK
  BY DEF Inv
<1> QED  BY <1>1, Invariance, PTL

\* Deleting at the limit takes none of the latest reports.
THEOREM LatestSurvive == Spec => []LatestAreKept
<1>1. Inv => LatestAreKept
  BY DEF Inv
<1> QED  BY <1>1, Invariance, PTL

------------------------------------------------------------------------------
(***************************************************************************)
(* The abstract specification.                                             *)
(***************************************************************************)

\* A table with rows has a newest one.
NewestExists == rows # {} => Newest # {}

\* Of the newest rows one at least is not deleted: if one of them is, none
\* of the rows that stay can be older.
LEMMA NewestStays ==
  ASSUME TypeOK, NewestExists, rows # {}, NEW kept \in Kept
  PROVE  kept \cap Newest # {}
<1>1. PICK m \in Newest : TRUE
  BY DEF NewestExists
<1>2. m \in rows /\ \A q \in rows : q.createdAt <= m.createdAt
  BY <1>1 DEF Newest
<1>3. CASE m \in kept
  BY <1>1, <1>3
<1>4. CASE m \notin kept
  <2>1. PICK old \in Oldest(Cardinality(rows) - PreserveCount) :
               kept = rows \ old
    BY <1>2, <1>4 DEF Kept
  <2>2. kept # {}
    <3>1. Cardinality(kept) = PreserveCount
      BY <1>2, <1>4, KeptCount
    <3> QED  BY <3>1, FS_EmptySet
  <2>3. PICK k \in kept : TRUE
    BY <2>2
  <2>4. k \in rows /\ k \notin old /\ m \in old
    BY <1>2, <1>4, <2>1, <2>3
  <2>5. m.createdAt <= k.createdAt
    BY <2>1, <2>4 DEF Oldest
  <2>6. \A q \in rows : q.createdAt <= k.createdAt
    <3> TAKE q \in rows
    <3>1. q.createdAt \in Nat /\ m.createdAt \in Nat /\ k.createdAt \in Nat
      BY <1>2, <2>4 DEF TypeOK, Row
    <3> QED  BY <1>2, <2>5, <3>1
  <2> QED  BY <2>3, <2>4, <2>6 DEF Newest
<1> QED  BY <1>3, <1>4

\* What a report that is stored does to the newest rows.  If no row lies in
\* the future it is the newest itself, and no row does afterwards; if one
\* does, a newest row goes on being one.
LEMMA StoreAmongNewest ==
  ASSUME TypeOK, NewestExists, NEW kept \in Kept, NEW row,
         stored' = stored + 1, now' = now + 1,
         row = [number |-> stored', createdAt |-> now'],
         rows' = kept \cup {row}
  PROVE  /\ Newest' # {} /\ Newest' \subseteq Newest \cup {row}
         /\ (\E r \in rows' : r.createdAt > now') =>
               \E r \in rows : r.createdAt > now
         /\ IF \E r \in rows : r.createdAt > now
            THEN Newest' \cap Newest # {}
            ELSE Newest' = {row}
<1>1. /\ now \in Nat /\ now' = now + 1 /\ row.createdAt = now'
      /\ \A r \in rows : r.createdAt \in Nat
  BY DEF TypeOK, Row
<1>2. kept \subseteq rows
  BY KeptCount
<1>3. (\E r \in rows' : r.createdAt > now') =>
         \E r \in rows : r.createdAt > now
  BY <1>1, <1>2
<1>4. CASE \E r \in rows : r.createdAt > now
  <2>1. PICK k \in kept \cap Newest : TRUE
    BY <1>4, NewestStays
  <2>2. k \in rows /\ \A q \in rows : q.createdAt <= k.createdAt
    BY <2>1 DEF Newest
  <2>3. PICK r \in rows : r.createdAt > now
    BY <1>4
  <2>4. k.createdAt >= now'
    <3>1. k.createdAt \in Nat /\ r.createdAt \in Nat /\ r.createdAt <= k.createdAt
      BY <1>1, <2>2, <2>3
    <3> QED  BY <1>1, <2>3, <3>1
  <2>5. k \in Newest'
    <3>1. \A q \in rows' : q.createdAt <= k.createdAt
      BY <1>1, <1>2, <2>2, <2>4
    <3> QED  BY <2>1, <3>1 DEF Newest
  <2>6. \A r1 \in Newest' : r1 = row \/ r1 \in Newest
    <3> TAKE r1 \in Newest'
    <3>1. r1 \in rows' /\ k.createdAt <= r1.createdAt
      BY <2>1 DEF Newest
    <3>2. CASE r1 \in kept
      <4>1. \A q \in rows : q.createdAt <= r1.createdAt
        <5> TAKE q \in rows
        <5>1. /\ q.createdAt \in Nat /\ k.createdAt \in Nat
              /\ r1.createdAt \in Nat /\ q.createdAt <= k.createdAt
          BY <1>1, <1>2, <2>2, <3>2
        <5> QED  BY <3>1, <5>1
      <4> QED  BY <1>2, <3>2, <4>1 DEF Newest
    <3> QED  BY <3>1, <3>2
  <2> QED  BY <1>3, <1>4, <2>1, <2>5, <2>6
<1>5. CASE ~(\E r \in rows : r.createdAt > now)
  <2>1. \A r \in kept : r.createdAt \in Nat /\ r.createdAt < now'
    BY <1>1, <1>2, <1>5
  <2>2. row \in Newest'
    <3>1. row \in rows' /\ \A q \in rows' : q.createdAt <= row.createdAt
      BY <1>1, <2>1
    <3> QED  BY <3>1 DEF Newest
  <2>3. \A r \in Newest' : r = row
    <3> TAKE r \in Newest'
    <3>1. r \in rows' /\ now' <= r.createdAt
      BY <1>1 DEF Newest
    <3> QED  BY <1>1, <2>1, <3>1
  <2> QED  BY <1>3, <1>5, <2>2, <2>3
<1> QED  BY <1>4, <1>5

\* What the mapping rests on.
MapInv == Inv /\ NewestExists

\* There is a newest row whenever there is one.
LEMMA NewestInvariance == Spec => []MapInv
<1>1. Init => MapInv
  BY Initially DEF Init, MapInv, NewestExists
<1>2. MapInv /\ [Next]_vars => MapInv'
  <2> SUFFICES ASSUME MapInv, [Next]_vars PROVE NewestExists'
    BY NextKeepsInv DEF MapInv
  <2>1. CASE SendStatusReport
    <3>1. PICK kept \in Kept :
                 rows' = kept \cup {[number |-> stored', createdAt |-> now']}
      BY <2>1 DEF SendStatusReport
    <3> DEFINE row == [number |-> stored', createdAt |-> now']
    <3>2. stored' = stored + 1 /\ now' = now + 1
      BY <2>1 DEF SendStatusReport
    <3>3. Newest' # {}
      BY <3>1, <3>2, StoreAmongNewest DEF MapInv, Inv
    <3> QED  BY <3>3 DEF NewestExists
  <2>2. CASE rows' = rows
    BY <2>2 DEF MapInv, NewestExists, Newest
  <2> QED  BY <2>1, <2>2 DEF Next, GetLastStatusReport, SetClockBack, vars
<1> QED  BY <1>1, <1>2, PTL DEF Spec

\* The table is empty only before the first report.
LEMMA EmptyAtFirst == Inv => (rows = {} <=> stored = 0)
<1> QED  BY DEF Inv, TypeOK, LatestAreKept

\* The registers of the abstract specification as functions of the table.
Top == {r.number : r \in Newest}
Behind == \E r \in rows : r.createdAt > now

\* Storing a report is a Put.
LEMMA StoreMaps ==
  ASSUME MapInv, SendStatusReport
  PROVE  /\ \/ Top' = {stored'}
            \/ /\ Behind /\ Top' \subseteq Top \cup {stored'}
               /\ Top' \cap Top # {}
         /\ Behind' => Behind
<1>1. PICK kept \in Kept :
             rows' = kept \cup {[number |-> stored', createdAt |-> now']}
  BY DEF SendStatusReport
<1> DEFINE row == [number |-> stored', createdAt |-> now']
<1>2. stored' = stored + 1 /\ now' = now + 1
  BY DEF SendStatusReport
<1>3. /\ Newest' # {} /\ Newest' \subseteq Newest \cup {row}
      /\ (\E r \in rows' : r.createdAt > now') =>
            \E r \in rows : r.createdAt > now
      /\ IF \E r \in rows : r.createdAt > now
         THEN Newest' \cap Newest # {}
         ELSE Newest' = {row}
  BY <1>1, <1>2, StoreAmongNewest DEF MapInv, Inv
<1>4. row.number = stored'
  OBVIOUS
<1> HIDE DEF row
<1>5. Behind' => Behind
  BY <1>3 DEF Behind
<1>6. CASE Behind
  <2>1. Top' \subseteq Top \cup {stored'}
    BY <1>3, <1>4 DEF Top
  <2>2. PICK r \in Newest' : r \in Newest
    BY <1>3, <1>6 DEF Behind
  <2>3. r.number \in Top' /\ r.number \in Top
    BY <2>2 DEF Top
  <2> QED  BY <1>5, <1>6, <2>1, <2>3
<1>7. CASE ~Behind
  <2>1. Newest' = {row}
    BY <1>3, <1>7 DEF Behind
  <2>2. Top' = {stored'}
    BY <1>4, <2>1 DEF Top
  <2> QED  BY <1>5, <2>2
<1> QED  BY <1>6, <1>7

\* Storing writes the register, reading reads it, and a clock that is set
\* back leaves it alone.
LEMMA StepMaps ==
  MapInv /\ [Next]_vars => [Register!Next]_(Register!lastVars)
<1> SUFFICES ASSUME MapInv, [Next]_vars
             PROVE  [Register!Next]_(Register!lastVars)
  OBVIOUS
<1> USE DEF Register!Next, Register!lastVars
<1>1. CASE SendStatusReport
  <2>1. stored' = stored + 1 /\ answer' = answer
    BY <1>1 DEF SendStatusReport
  <2>2. Register!Put
    BY <1>1, <2>1, StoreMaps DEF Register!Put, Top, Behind
  <2> QED  BY <2>2
<1>2. CASE GetLastStatusReport
  <2>1. /\ stored' = stored /\ Top' = Top /\ Behind' = Behind
    BY <1>2 DEF GetLastStatusReport, Top, Behind, Newest
  <2>2. answer' \in IF stored = 0 THEN {0} ELSE Top
    BY <1>2, EmptyAtFirst DEF GetLastStatusReport, Top, MapInv
  <2> QED  BY <2>1, <2>2 DEF Register!Get, Top, Behind
<1>3. CASE SetClockBack
  <2>1. stored' = stored /\ answer' = answer /\ Top' = Top
    BY <1>3 DEF SetClockBack, Top, Newest
  <2>2. Behind => Behind'
    <3> SUFFICES ASSUME Behind PROVE Behind'
      OBVIOUS
    <3>1. PICK r \in rows : r.createdAt > now
      BY DEF Behind
    <3>2. /\ r \in rows' /\ r.createdAt \in Nat /\ now \in Nat
          /\ now' \in Nat /\ now' < now
      BY <1>3, <3>1 DEF SetClockBack, MapInv, Inv, TypeOK, Row
    <3> QED  BY <3>1, <3>2 DEF Behind
  <2>3. CASE Behind' = Behind
    BY <2>1, <2>3 DEF Top, Behind
  <2>4. CASE Behind' = TRUE
    BY <2>1, <2>4 DEF Register!LoseTrack, Top, Behind
  <2> QED  BY <2>2, <2>3, <2>4 DEF Behind
<1>4. CASE UNCHANGED vars
  <2>1. Top' = Top /\ Behind' = Behind
    BY <1>4 DEF vars, Top, Behind, Newest
  <2> QED  BY <1>4, <2>1 DEF vars, Top, Behind
<1> QED  BY <1>1, <1>2, <1>3, <1>4 DEF Next

\* Readers get the report stored last; while the clock is behind the reports
\* they get none that they have been past, and the next one in time ends it.
THEOREM ImplementsLastReport == Spec => LastReportSpec
<1>1. Init => Register!Init
  BY DEF Init, Newest, Register!Init
<1>2. MapInv /\ [Next]_vars => [Register!Next]_(Register!lastVars)
  BY StepMaps
<1> QED  BY <1>1, <1>2, NewestInvariance, PTL
         DEF Spec, LastReportSpec, Register!Spec
==============================================================================
