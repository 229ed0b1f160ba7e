-------------------------- MODULE ExamSessionProofs --------------------------
(***************************************************************************)
(* ExamSession implements ExamStore, for any number of packages, exams,    *)
(* files and exam informations: the objects in memory, the rows flushed so *)
(* far and what the queries find amount to the operators of ExamStore that *)
(* look at the exam information as a whole.                                *)
(***************************************************************************)
EXTENDS ExamSession, ExamStoreProofs

Columns == [fileVersion : [Files -> Versions \cup {NoVersion}],
            fileOf : [Exams -> Files \cup {NoFile}],
            owner : [Exams -> Packages \cup {NoPackage}],
            dbid : [Packages -> Nat],
            start : [Packages -> Time], end : [Packages -> Time],
            locked : SUBSET Packages]

SessionRecord == [info : ExamInfos, exams : Nat, packages : Nat,
                  memory : Columns, transaction : Columns]

------------------------------------------------------------------------------
(***************************************************************************)
(* What is true between two rounds of the loops.                           *)
(***************************************************************************)

\* The entries handled so far, and the packages among them.
ExamsDone == 1..session.exams
PackagesDone == 1..session.packages
Handled == {session.info.packages[k].id : k \in PackagesDone}

Progress ==
  /\ session \in SessionRecord
  /\ WellFormed(session.info)
  /\ session.info.request \notin requests
  /\ session.exams <= Len(session.info.exams)
  /\ session.packages <= Len(session.info.packages)
  /\ session.packages > 0 => session.exams = Len(session.info.exams)

\* Memory has the last contents mentioned; a mentioned file has a row.
FilesHeld ==
  \A f \in Files :
    LET mentions == {i \in ExamsDone : session.info.exams[i].file = f}
    IN /\ \A i \in mentions :
            (\A j \in mentions : j <= i)
              => session.memory.fileVersion[f] = session.info.exams[i].version
       /\ mentions = {} => session.memory.fileVersion[f] = fileVersion[f]
       /\ session.transaction.fileVersion[f] = NoVersion
            <=> fileVersion[f] = NoVersion /\ mentions = {}

\* A new exam is found once something was flushed after it was added.
Found(e) ==
  \/ e \in SavedExams
  \/ \E i \in ExamsDone :
       /\ session.info.exams[i].id = e
       /\ \/ \E j \in ExamsDone : j > i /\ FlushesFile(session.info, j)
          \/ \E j \in PackagesDone :
               FlushesPackage(Packages \ Saved, session.info, j)

ExamsHeld ==
  \A e \in Exams :
    LET mentions == {i \in ExamsDone : session.info.exams[i].id = e}
    IN /\ \A i \in mentions :
            session.memory.fileOf[e] = session.info.exams[i].file
       /\ mentions = {} => session.memory.fileOf[e] = fileOf[e]
       /\ session.transaction.fileOf[e] # NoFile <=> Found(e)

\* New packages are flushed at once.
RowsHeld ==
  /\ session.transaction.dbid = session.memory.dbid
  /\ \A p \in Packages :
       session.memory.dbid[p] =
         IF p \in Handled THEN DbidAfter(session.info, p) ELSE dbid[p]

SchedulesHeld ==
  \A p \in Packages :
    /\ session.memory.start[p] =
         IF p \in Handled THEN Announced(session.info, p).start ELSE start[p]
    /\ session.memory.end[p] =
         IF p \in Handled THEN Announced(session.info, p).end ELSE end[p]
    /\ p \in session.memory.locked <=>
         IF p \in Handled THEN Announced(session.info, p).locked
                          ELSE p \in locked

\* Keeps and OwnerAfter, for the packages handled so far
ReleasedBy(k, e) == Releases(owner, Packages \ Saved, session.info, k, e)

KeptBy(k, e) ==
  /\ ListsExam(session.info, k, e)
  /\ \A j \in PackagesDone :
       j > k => ~ListsExam(session.info, j, e) /\ ~ReleasedBy(j, e)

OwnersHeld ==
  \A e \in Exams :
    /\ \A k \in PackagesDone :
         KeptBy(k, e) => session.memory.owner[e] = session.info.packages[k].id
    /\ (\A k \in PackagesDone : ~KeptBy(k, e))
         => session.memory.owner[e] =
              IF \E k \in PackagesDone : ReleasedBy(k, e) THEN NoPackage
                                                          ELSE owner[e]

\* The exams a package not handled yet still owns: in memory those that no
\* package took over, in the transaction also those taken over since the
\* last flush.
OwnersToCome ==
  \A e \in Exams, p \in Packages \ Handled :
    /\ session.memory.owner[e] = p
         <=> /\ owner[e] = p
             /\ \A k \in PackagesDone : ~ListsExam(session.info, k, e)
    /\ session.transaction.owner[e] = p
         <=> /\ owner[e] = p
             /\ \A j, k \in PackagesDone :
                  ListsExam(session.info, j, e) /\ j < k
                    => ~FlushesPackage(Packages \ Saved, session.info, k)

\* No .one() has raised NoResultFound.
AllFound ==
  \A k \in PackagesDone : \A e \in session.info.packages[k].exams :
    Visible(session.info, k, e)

SessionInv ==
  Busy => /\ Progress
          /\ FilesHeld
          /\ ExamsHeld
          /\ RowsHeld
          /\ SchedulesHeld
          /\ OwnersHeld
          /\ OwnersToCome
          /\ AllFound

------------------------------------------------------------------------------
(***************************************************************************)
(* The steps of a session, field by field.                                 *)
(***************************************************************************)

\* What is committed are columns of the tables.
LEMMA CommittedType == TypeOK => Committed \in Columns
BY DEF TypeOK, Committed, Columns

\* The columns of a record of columns.
LEMMA ColumnsType ==
  ASSUME NEW c \in Columns
  PROVE  /\ c.fileVersion \in [Files -> Versions \cup {NoVersion}]
         /\ c.fileOf \in [Exams -> Files \cup {NoFile}]
         /\ c.owner \in [Exams -> Packages \cup {NoPackage}]
         /\ c.dbid \in [Packages -> Nat]
         /\ c.start \in [Packages -> Time]
         /\ c.end \in [Packages -> Time]
         /\ c.locked \subseteq Packages
BY DEF Columns

\* A round of the first loop: the file's contents and the exam's file are
\* written in memory, and the former is flushed if the file is new.
LEMMA ExamRound ==
  ASSUME session \in SessionRecord, SaveScheduledExam
  PROVE  LET i == session.exams + 1
             exam == session.info.exams[i]
             flush == session.transaction.fileVersion[exam.file] = NoVersion
         IN /\ i \in DOMAIN session.info.exams
            /\ session'.info = session.info
            /\ session'.exams = i
            /\ session'.packages = session.packages
            /\ session' \in SessionRecord
            /\ session'.memory = [session.memory EXCEPT
                                    !.fileVersion[exam.file] = exam.version,
                                    !.fileOf[exam.id] = exam.file]
            /\ session'.transaction =
                 IF flush THEN [session.memory EXCEPT
                                  !.fileVersion[exam.file] = exam.version]
                          ELSE session.transaction
<1> DEFINE i == session.exams + 1
           exam == session.info.exams[i]
           flush == session.transaction.fileVersion[exam.file] = NoVersion
           filed == [session.memory EXCEPT
                       !.fileVersion[exam.file] = exam.version]
           written == [filed EXCEPT !.fileOf[exam.id] = exam.file]
           flushed == IF flush THEN filed ELSE session.transaction
<1>1. /\ session.info \in ExamInfos
      /\ session.exams \in Nat /\ session.packages \in Nat
      /\ session.memory \in Columns /\ session.transaction \in Columns
      /\ session.exams < Len(session.info.exams)
  BY DEF SessionRecord, SaveScheduledExam
<1>2. /\ i \in DOMAIN session.info.exams
      /\ exam.id \in Exams /\ exam.file \in Files /\ exam.version \in Versions
  BY <1>1, InfoType
<1>3. filed \in Columns
  BY <1>1, <1>2 DEF Columns
<1>4. written \in Columns
  BY <1>2, <1>3 DEF Columns
<1>5. session' = [info |-> session.info, exams |-> i,
                  packages |-> session.packages,
                  memory |-> written, transaction |-> flushed]
  BY <1>1, <1>2 DEF SaveScheduledExam, Flushed, SessionRecord
<1>6. written = [session.memory EXCEPT !.fileVersion[exam.file] = exam.version,
                                       !.fileOf[exam.id] = exam.file]
  BY <1>1, <1>2 DEF Columns
<1>7. session' \in SessionRecord
  <2> HIDE DEF written, filed
  <2> QED  BY <1>1, <1>2, <1>3, <1>4, <1>5 DEF SessionRecord
<1> QED
  <2> HIDE DEF written
  <2> QED  BY <1>2, <1>5, <1>6, <1>7

\* A round of the second loop: the package is written in memory, a new one
\* is flushed with all that memory holds, the exams the transaction shows
\* as a known one's are released, and the listed exams are taken over.
LEMMA PackageRound ==
  ASSUME TypeOK, session \in SessionRecord, SaveScheduledExamPackage
  PROVE  LET k == session.packages + 1
             package == session.info.packages[k]
             new == FlushesWhenNew(session, package)
             rows == PackageSaved(session.memory, package)
             own == [e \in Exams |->
                       IF session.transaction.owner[e] = package.id /\ ~new
                       THEN NoPackage ELSE session.memory.owner[e]]
         IN /\ k \in DOMAIN session.info.packages
            /\ session.exams = Len(session.info.exams)
            /\ session'.info = session.info
            /\ session'.exams = session.exams
            /\ session'.packages = k
            /\ session' \in SessionRecord
            /\ session'.memory =
                 [rows EXCEPT !.owner =
                    [e \in Exams |-> IF e \in package.exams THEN package.id
                                                            ELSE own[e]]]
            /\ session'.transaction =
                 IF new THEN [rows EXCEPT !.owner = own]
                        ELSE session.transaction
            /\ \A e \in package.exams :
                 session'.transaction.fileOf[e] # NoFile
<1> DEFINE k == session.packages + 1
           package == session.info.packages[k]
           new == FlushesWhenNew(session, package)
           rows == PackageSaved(session.memory, package)
           own == [e \in Exams |->
                     IF session.transaction.owner[e] = package.id /\ ~new
                     THEN NoPackage ELSE session.memory.owner[e]]
           released == [session.memory EXCEPT !.owner = own]
           written == [rows EXCEPT !.owner = own]
           taken == [e \in Exams |-> IF e \in package.exams THEN package.id
                                                            ELSE own[e]]
           flushed == IF new THEN written ELSE session.transaction
<1>1. /\ session.info \in ExamInfos
      /\ session.exams \in Nat /\ session.packages \in Nat
      /\ session.memory \in Columns /\ session.transaction \in Columns
      /\ session.packages < Len(session.info.packages)
      /\ session.exams = Len(session.info.exams)
  BY DEF SessionRecord, SaveScheduledExamPackage
<1>2. /\ k \in DOMAIN session.info.packages
      /\ package.id \in Packages
      /\ package.start \in Time /\ package.end \in Time
      /\ package.exams \subseteq Exams
  BY <1>1, InfoType
<1>3. own \in [Exams -> Packages \cup {NoPackage}]
  BY <1>1, ColumnsType
<1>4. taken \in [Exams -> Packages \cup {NoPackage}]
  BY <1>2, <1>3
<1>5. released \in Columns
  BY <1>1, <1>3 DEF Columns
<1>6. Cardinality(RowsOf(session.memory)) \in Nat
  BY PackagesAssumption, FS_Subset, FS_CardinalityType DEF RowsOf
<1>7. rows \in Columns
  <2> DEFINE numbered ==
        [session.memory.dbid EXCEPT ![package.id] =
           IF @ = 0 THEN Cardinality(RowsOf(session.memory)) + 1 ELSE @]
  <2>1. numbered \in [Packages -> Nat]
    BY <1>1, <1>2, <1>6, ColumnsType
  <2>2. rows = [session.memory EXCEPT
           !.dbid = numbered,
           !.start = [session.memory.start EXCEPT ![package.id] = package.start],
           !.end = [session.memory.end EXCEPT ![package.id] = package.end],
           !.locked = (session.memory.locked \ {package.id})
                  \cup (IF package.locked THEN {package.id} ELSE {})]
    BY <1>1 DEF PackageSaved, Columns
  <2> HIDE DEF numbered, rows
  <2> QED  BY <1>1, <1>2, <2>1, <2>2 DEF Columns
<1>8. PackageSaved(released, package) = written
  BY <1>1 DEF PackageSaved, RowsOf, Columns
<1>9. written \in Columns /\ [written EXCEPT !.owner = taken] \in Columns
  <2> HIDE DEF rows, own, taken
  <2> QED  BY <1>3, <1>4, <1>7 DEF Columns
<1>10. ExamsReleased(session, package) = [session EXCEPT !.memory = released]
  BY <1>1 DEF ExamsReleased, SessionRecord, Columns
<1>11. PICK saved :
         /\ saved = Flushed([session EXCEPT !.memory = written], new)
         /\ session' = [ExamsTaken(saved, package) EXCEPT !.packages = k]
         /\ \A e \in package.exams : saved.transaction.fileOf[e] # NoFile
  <2> HIDE DEF released, rows, written
  <2>1. [[session EXCEPT !.memory = released]
           EXCEPT !.memory = PackageSaved(@, package)]
          = [session EXCEPT !.memory = written]
    BY <1>1, <1>8 DEF SessionRecord
  <2> QED  BY <1>10, <2>1 DEF SaveScheduledExamPackage
<1>12. saved = [session EXCEPT !.memory = written, !.transaction = flushed]
  <2> HIDE DEF written
  <2> QED  BY <1>1, <1>11 DEF Flushed, SessionRecord
<1>13. ExamsTaken(saved, package) =
         [saved EXCEPT !.memory = [written EXCEPT !.owner = taken]]
  <2>1. saved.memory = written
    <3> HIDE DEF written
    <3> QED  BY <1>1, <1>12 DEF SessionRecord
  <2>2. written.owner = own
    <3> HIDE DEF own, rows
    <3> QED  BY <1>7 DEF Columns
  <2> HIDE DEF written, own
  <2> QED  BY <1>1, <2>1, <2>2, <1>12 DEF ExamsTaken
<1>14. session' = [info |-> session.info, exams |-> session.exams,
                   packages |-> k, memory |-> [written EXCEPT !.owner = taken],
                   transaction |-> flushed]
  <2> HIDE DEF written, taken, flushed
  <2> QED  BY <1>1, <1>11, <1>12, <1>13 DEF SessionRecord
<1>15. [written EXCEPT !.owner = taken] = [rows EXCEPT !.owner = taken]
  <2> HIDE DEF rows, own, taken
  <2> QED  BY <1>7 DEF Columns
<1>16. session' \in SessionRecord
  <2> HIDE DEF written, taken
  <2> QED  BY <1>1, <1>2, <1>9, <1>14 DEF SessionRecord
<1>17. /\ session'.info = session.info
       /\ session'.exams = session.exams
       /\ session'.packages = k
       /\ session'.memory = [rows EXCEPT !.owner = taken]
       /\ session'.transaction = flushed
  <2> HIDE DEF written, taken, rows, flushed
  <2> QED  BY <1>14, <1>15
<1>18. \A e \in package.exams : session'.transaction.fileOf[e] # NoFile
  <2> HIDE DEF written, flushed
  <2>1. saved.transaction = flushed
    BY <1>1, <1>12 DEF SessionRecord
  <2> QED  BY <1>11, <1>17, <2>1
<1> QED  BY <1>1, <1>2, <1>16, <1>17, <1>18, Zenon

------------------------------------------------------------------------------
(***************************************************************************)
(* Each step keeps the invariant.                                          *)
(***************************************************************************)

\* The tables stay as they are until the session ends.
SameTables ==
  /\ requests' = requests
  /\ fileVersion' = fileVersion
  /\ fileOf' = fileOf
  /\ owner' = owner
  /\ dbid' = dbid
  /\ start' = start
  /\ end' = end
  /\ locked' = locked

\* Memory and transaction know the same files: a new one is flushed at once.
LEMMA SameFilesKnown ==
  ASSUME Progress, FilesHeld, NEW f \in Files
  PROVE  session.memory.fileVersion[f] = NoVersion
           <=> session.transaction.fileVersion[f] = NoVersion
<1> DEFINE mentions == {i \in ExamsDone : session.info.exams[i].file = f}
<1>1. /\ session.info \in ExamInfos /\ session.exams \in Nat
      /\ session.exams <= Len(session.info.exams)
  BY DEF Progress, SessionRecord
<1>2. mentions \subseteq 1..session.exams
  BY DEF ExamsDone
<1>3. \A i \in mentions : session.info.exams[i].version \in Versions
  BY <1>1, <1>2, InfoType
<1>4. mentions # {} => \E i \in mentions : \A j \in mentions : j <= i
  BY <1>1, <1>2, LastPosition
<1> QED  BY <1>3, <1>4, FilesAssumption DEF FilesHeld

\* A round of the first loop: no package was handled yet, and a flush shows
\* the exams added in earlier rounds.
LEMMA ExamRoundInv ==
  ASSUME TypeOK, SessionInv, SaveScheduledExam
  PROVE  SessionInv'
<1> DEFINE i == session.exams + 1
           exam == session.info.exams[i]
           flush == session.transaction.fileVersion[exam.file] = NoVersion
           memory == session.memory
           before == session.transaction
           after == session'.transaction
<1>1. /\ Busy /\ Progress /\ FilesHeld /\ ExamsHeld /\ RowsHeld
      /\ SchedulesHeld /\ OwnersHeld /\ OwnersToCome
  BY DEF SaveScheduledExam, SessionInv
<1>2. SameTables
  BY DEF SaveScheduledExam, SameTables, vars, examVars, scheduleVars
<1>3. /\ session.info \in ExamInfos
      /\ session.exams \in Nat /\ session.packages = 0
      /\ memory \in Columns /\ before \in Columns
      /\ session.exams < Len(session.info.exams)
      /\ Len(session.info.exams) \in Nat
  <2>1. /\ session.info \in ExamInfos
        /\ session.exams \in Nat /\ session.packages \in Nat
        /\ memory \in Columns /\ before \in Columns
    BY <1>1 DEF Progress, SessionRecord
  <2>2. Len(session.info.exams) \in Nat
    BY <2>1, InfoType
  <2>3. session.exams < Len(session.info.exams)
    BY DEF SaveScheduledExam
  <2>4. session.packages > 0 => session.exams = Len(session.info.exams)
    BY <1>1 DEF Progress
  <2> QED  BY <2>1, <2>2, <2>3, <2>4
<1>4. /\ i \in DOMAIN session.info.exams
      /\ session'.info = session.info
      /\ session'.exams = i
      /\ session'.packages = 0
      /\ session' \in SessionRecord
      /\ session'.memory = [memory EXCEPT !.fileVersion[exam.file] = exam.version,
                                          !.fileOf[exam.id] = exam.file]
      /\ after = IF flush THEN [memory EXCEPT
                                  !.fileVersion[exam.file] = exam.version]
                          ELSE before
  BY <1>1, <1>3, ExamRound DEF Progress
<1>5. /\ exam.id \in Exams /\ exam.file \in Files /\ exam.version \in Versions
      /\ exam.version # NoVersion
  BY <1>3, <1>4, InfoType, FilesAssumption
<1>6. /\ session'.memory.fileVersion =
           [memory.fileVersion EXCEPT ![exam.file] = exam.version]
      /\ session'.memory.fileOf = [memory.fileOf EXCEPT ![exam.id] = exam.file]
      /\ session'.memory.owner = memory.owner
      /\ session'.memory.dbid = memory.dbid
      /\ session'.memory.start = memory.start
      /\ session'.memory.end = memory.end
      /\ session'.memory.locked = memory.locked
  BY <1>3, <1>4 DEF Columns
<1>7. /\ ~flush => after = before
      /\ flush => /\ after.fileVersion =
                       [memory.fileVersion EXCEPT ![exam.file] = exam.version]
                  /\ after.fileOf = memory.fileOf
                  /\ after.owner = memory.owner
                  /\ after.dbid = memory.dbid
  BY <1>3, <1>4 DEF Columns
<1>8. ExamsDone = 1..session.exams /\ ExamsDone' = 1..i
  BY <1>4 DEF ExamsDone
<1>9. PackagesDone = {} /\ PackagesDone' = {} /\ Handled = {} /\ Handled' = {}
  BY <1>3, <1>4 DEF PackagesDone, Handled
<1>10. \A j \in 1..i : j \in 1..session.exams \/ j = i
  BY <1>3
<1>11. flush <=> FlushesFile(session.info, i)
  <2>1. flush <=> /\ fileVersion[exam.file] = NoVersion
                  /\ \A j \in 1..session.exams :
                       session.info.exams[j].file # exam.file
    BY <1>1, <1>5, <1>8 DEF FilesHeld
  <2>2. i - 1 = session.exams
    BY <1>3
  <2> QED  BY <2>1, <2>2 DEF FlushesFile
<1> HIDE DEF flush, memory, before, after
<1>12. Progress'
  BY <1>1, <1>2, <1>3, <1>4, InfoType
     DEF Progress, SameTables, WellFormed
<1>13. FilesHeld'
  <2> SUFFICES ASSUME NEW f \in Files
               PROVE  LET done == {j \in 1..i : session.info.exams[j].file = f}
                      IN /\ \A j \in done :
                              (\A h \in done : h <= j)
                                => session'.memory.fileVersion[f]
                                     = session.info.exams[j].version
                         /\ done = {} => session'.memory.fileVersion[f]
                                           = fileVersion[f]
                         /\ after.fileVersion[f] = NoVersion
                              <=> fileVersion[f] = NoVersion /\ done = {}
    BY <1>2, <1>4, <1>8 DEF FilesHeld, SameTables, after
  <2> DEFINE mentions == {j \in 1..session.exams :
                            session.info.exams[j].file = f}
             done == {j \in 1..i : session.info.exams[j].file = f}
  <2>1. /\ \A j \in mentions :
             (\A h \in mentions : h <= j)
               => memory.fileVersion[f] = session.info.exams[j].version
        /\ mentions = {} => memory.fileVersion[f] = fileVersion[f]
        /\ before.fileVersion[f] = NoVersion
             <=> fileVersion[f] = NoVersion /\ mentions = {}
    BY <1>1, <1>8 DEF FilesHeld, memory, before
  <2>2. /\ memory.fileVersion \in [Files -> Versions \cup {NoVersion}]
        /\ before.fileVersion \in [Files -> Versions \cup {NoVersion}]
    BY <1>3, ColumnsType
  <2>3. CASE f = exam.file
    <3>1. i \in done /\ \A j \in done : j <= i
      BY <1>3, <2>3
    <3>2. session'.memory.fileVersion[f] = exam.version
      BY <1>5, <1>6, <2>2, <2>3
    <3>3. after.fileVersion[f] # NoVersion
      BY <1>5, <1>7, <2>2, <2>3 DEF flush, before
    <3>4. \A j \in done : (\A h \in done : h <= j) => j = i
      BY <1>3, <3>1
    <3> QED  BY <3>1, <3>2, <3>3, <3>4
  <2>4. CASE f # exam.file
    <3>1. done = mentions
      BY <1>3, <1>10, <2>4
    <3>2. session'.memory.fileVersion[f] = memory.fileVersion[f]
      BY <1>5, <1>6, <2>2, <2>4
    <3>3. after.fileVersion[f] = NoVersion
            <=> fileVersion[f] = NoVersion /\ mentions = {}
      <4>1. CASE flush
        <5>1. after.fileVersion[f] = memory.fileVersion[f]
          BY <1>5, <1>7, <2>2, <2>4, <4>1
        <5>2. memory.fileVersion[f] = NoVersion
                <=> before.fileVersion[f] = NoVersion
          BY <1>1, SameFilesKnown DEF memory, before
        <5> QED  BY <2>1, <5>1, <5>2
      <4>2. CASE ~flush
        BY <1>7, <2>1, <4>2
      <4> QED  BY <4>1, <4>2
    <3> QED  BY <2>1, <3>1, <3>2, <3>3
  <2> QED  BY <2>3, <2>4
<1>14. ExamsHeld'
  <2> SUFFICES ASSUME NEW e \in Exams
               PROVE  LET done == {j \in 1..i : session.info.exams[j].id = e}
                      IN /\ \A j \in done :
                              session'.memory.fileOf[e]
                                = session.info.exams[j].file
                         /\ done = {} => session'.memory.fileOf[e] = fileOf[e]
                         /\ after.fileOf[e] # NoFile <=> Found(e)'
    BY <1>2, <1>4, <1>8 DEF ExamsHeld, SameTables, after
  <2> DEFINE mentions == {j \in 1..session.exams :
                            session.info.exams[j].id = e}
             done == {j \in 1..i : session.info.exams[j].id = e}
             shown(n) == \/ e \in SavedExams
                         \/ \E j \in 1..n :
                              /\ session.info.exams[j].id = e
                              /\ \E h \in 1..n :
                                   h > j /\ FlushesFile(session.info, h)
  <2>1. /\ \A j \in mentions :
             memory.fileOf[e] = session.info.exams[j].file
        /\ mentions = {} => memory.fileOf[e] = fileOf[e]
        /\ before.fileOf[e] # NoFile <=> Found(e)
    BY <1>1, <1>8 DEF ExamsHeld, memory, before
  <2>2. Found(e) <=> shown(session.exams)
    BY <1>8, <1>9 DEF Found
  <2>3. Found(e)' <=> shown(i)
    BY <1>2, <1>4, <1>8, <1>9
       DEF Found, SameTables, SavedExams, FlushesFile
  <2>4. memory.fileOf \in [Exams -> Files \cup {NoFile}]
    BY <1>3, ColumnsType
  <2>5. \A j \in done : session'.memory.fileOf[e] = session.info.exams[j].file
    <3> SUFFICES ASSUME NEW j \in done
                 PROVE  session'.memory.fileOf[e] = session.info.exams[j].file
      OBVIOUS
    <3>1. CASE e = exam.id
      <4>1. j \in DOMAIN session.info.exams
        BY <1>3, InfoType
      <4>2. j = i
        BY <1>3, <1>4, <3>1, <4>1, ExamInfosAssumption
      <4> QED  BY <1>5, <1>6, <2>4, <3>1, <4>2
    <3>2. CASE e # exam.id
      <4>1. j \in mentions
        BY <1>3, <1>10, <3>2
      <4>2. session'.memory.fileOf[e] = memory.fileOf[e]
        BY <1>5, <1>6, <2>4, <3>2
      <4> QED  BY <2>1, <4>1, <4>2
    <3> QED  BY <3>1, <3>2
  <2>6. done = {} => session'.memory.fileOf[e] = fileOf[e]
    <3> SUFFICES ASSUME done = {}
                 PROVE  session'.memory.fileOf[e] = fileOf[e]
      OBVIOUS
    <3>1. e # exam.id /\ mentions = {}
      BY <1>3
    <3>2. session'.memory.fileOf[e] = memory.fileOf[e]
      BY <1>5, <1>6, <2>4, <3>1
    <3> QED  BY <2>1, <3>1, <3>2
  <2>7. after.fileOf[e] # NoFile <=> shown(i)
    <3>1. CASE flush
      <4>1. after.fileOf[e] = memory.fileOf[e]
        BY <1>7, <3>1
      <4>2. \A j \in mentions : session.info.exams[j].file # NoFile
        <5>1. \A j \in mentions : j \in DOMAIN session.info.exams
          BY <1>3, InfoType
        <5> QED  BY <1>3, <5>1, InfoType, FilesAssumption
      <4>3. memory.fileOf[e] # NoFile <=> e \in SavedExams \/ mentions # {}
        BY <2>1, <4>2 DEF SavedExams
      <4>4. shown(i) <=> e \in SavedExams \/ mentions # {}
        <5>1. \A j \in mentions : j \in 1..i /\ i > j
          BY <1>3
        <5>2. i \in 1..i /\ FlushesFile(session.info, i)
          BY <1>3, <1>11, <3>1
        <5>3. \A j, h \in 1..i : h > j => j \in 1..session.exams
          BY <1>3
        <5> QED  BY <5>1, <5>2, <5>3
      <4> QED  BY <4>1, <4>3, <4>4
    <3>2. CASE ~flush
      <4>1. ~FlushesFile(session.info, i)
        BY <1>11, <3>2
      <4>2. \A j, h \in 1..i :
              h > j /\ FlushesFile(session.info, h)
                => j \in 1..session.exams /\ h \in 1..session.exams
        BY <1>3, <4>1
      <4>3. 1..session.exams \subseteq 1..i
        BY <1>3
      <4>4. shown(i) <=> shown(session.exams)
        BY <4>2, <4>3
      <4> QED  BY <1>7, <2>1, <2>2, <3>2, <4>4
    <3> QED  BY <3>1, <3>2
  <2> QED  BY <2>3, <2>5, <2>6, <2>7
<1>15. RowsHeld'
  BY <1>1, <1>2, <1>6, <1>7, <1>9
     DEF RowsHeld, SameTables, memory, before, after
<1>16. SchedulesHeld'
  BY <1>1, <1>2, <1>6, <1>9 DEF SchedulesHeld, SameTables, memory
<1>17. OwnersHeld'
  BY <1>1, <1>2, <1>6, <1>9 DEF OwnersHeld, SameTables, memory
<1>18. OwnersToCome'
  BY <1>1, <1>2, <1>6, <1>7, <1>9
     DEF OwnersToCome, SameTables, memory, before, after
<1>19. AllFound'
  BY <1>9 DEF AllFound
<1> QED  BY <1>12, <1>13, <1>14, <1>15, <1>16, <1>17, <1>18, <1>19
            DEF SessionInv

\* A package is where the list has it.
LEMMA PositionOfEntry ==
  ASSUME NEW info \in ExamInfos, NEW k \in DOMAIN info.packages
  PROVE  /\ info.packages[k].id \in Listed(info)
         /\ PositionOf(info, info.packages[k].id) = k
         /\ Announced(info, info.packages[k].id) = info.packages[k]
<1>1. \A j \in DOMAIN info.packages :
        info.packages[j].id = info.packages[k].id => j = k
  BY ExamInfosAssumption
<1>2. PositionOf(info, info.packages[k].id) = k
  BY <1>1 DEF PositionOf
<1> QED  BY <1>2 DEF Announced, Listed

\* While the second loop runs, the package at hand is flushed if and only if
\* the database had no row for it, and the queries find what they find
\* according to the whole list.
LEMMA SeenIsVisible ==
  ASSUME TypeOK, SessionInv, Busy, session.exams = Len(session.info.exams),
         session.packages < Len(session.info.packages)
  PROVE  LET k == session.packages + 1
             package == session.info.packages[k]
             new == FlushesWhenNew(session, package)
             seen == IF new THEN session.memory ELSE session.transaction
         IN /\ k \in DOMAIN session.info.packages
            /\ package.id \in Packages \ Handled
            /\ new <=> FlushesPackage(Packages \ Saved, session.info, k)
            /\ \A e \in Exams :
                 seen.fileOf[e] # NoFile <=> Visible(session.info, k, e)
<1> DEFINE info == session.info
           k == session.packages + 1
           package == info.packages[k]
           new == FlushesWhenNew(session, package)
           seen == IF new THEN session.memory ELSE session.transaction
<1>1. Progress /\ ExamsHeld /\ RowsHeld
  BY DEF SessionInv
<1>2. /\ info \in ExamInfos /\ session.exams \in Nat
      /\ session.packages \in Nat
      /\ session.memory \in Columns /\ session.transaction \in Columns
  BY <1>1 DEF Progress, SessionRecord
<1>3. /\ DOMAIN info.exams = 1..session.exams
      /\ Len(info.packages) \in Nat
      /\ DOMAIN info.packages = 1..Len(info.packages)
  BY <1>2, InfoType
<1>4. k \in DOMAIN info.packages /\ k - 1 = session.packages
  BY <1>2, <1>3
<1>5. package.id \in Packages
  BY <1>2, <1>4, InfoType
<1>6. package.id \notin Handled
  <2>1. \A j \in 1..session.packages : j \in DOMAIN info.packages /\ j # k
    BY <1>2, <1>3
  <2> QED  BY <1>2, <1>4, <2>1, PositionOfEntry DEF Handled, PackagesDone
<1>7. new <=> FlushesPackage(Packages \ Saved, info, k)
  BY <1>1, <1>5, <1>6 DEF RowsHeld, FlushesWhenNew, FlushesPackage, Saved
<1>8. ASSUME NEW e \in Exams
      PROVE  seen.fileOf[e] # NoFile <=> Visible(info, k, e)
  <2> DEFINE mentions == {i \in ExamsDone : info.exams[i].id = e}
  <2>1. ExamsDone = DOMAIN info.exams
    BY <1>3 DEF ExamsDone
  <2>2. PackagesDone = 1..session.packages
    BY DEF PackagesDone
  <2>3. CASE new
    <3>1. \A i \in mentions : info.exams[i].file # NoFile
      BY <1>2, <2>1, InfoType, FilesAssumption
    <3>2. seen.fileOf[e] # NoFile <=> e \in SavedExams \/ mentions # {}
      BY <1>1, <2>3, <3>1 DEF ExamsHeld, SavedExams
    <3>3. k \in 1..k
      BY <1>2
    <3> QED  BY <1>7, <2>1, <2>3, <3>2, <3>3 DEF Visible
  <2>4. CASE ~new
    <3>1. ~FlushesPackage(Packages \ Saved, info, k)
      BY <1>7, <2>4
    <3>2. /\ \A j \in 1..k : j \in 1..session.packages \/ j = k
          /\ 1..session.packages \subseteq 1..k
      BY <1>2
    <3>3. (\E j \in 1..k : FlushesPackage(Packages \ Saved, info, j))
            <=> \E j \in PackagesDone :
                  FlushesPackage(Packages \ Saved, info, j)
      BY <2>2, <3>1, <3>2
    <3>4. Found(e) <=> Visible(info, k, e)
      BY <2>1, <3>3 DEF Found, Visible
    <3> QED  BY <1>1, <2>4, <3>4 DEF ExamsHeld
  <2> QED  BY <2>3, <2>4
<1> QED  BY <1>4, <1>5, <1>6, <1>7, <1>8

\* The next key of the table is the one DbidAfter gives.
LEMMA NextKey ==
  ASSUME TypeOK, SessionInv, Busy, session.exams = Len(session.info.exams),
         NEW k \in DOMAIN session.info.packages, k = session.packages + 1,
         FlushesPackage(Packages \ Saved, session.info, k)
  PROVE  DbidAfter(session.info, session.info.packages[k].id)
           = Cardinality(RowsOf(session.memory)) + 1
<1> DEFINE info == session.info
           p == info.packages[k].id
           added == Handled \ Saved
           upto == {q \in Listed(info) \ Saved :
                      PositionOf(info, q) <= PositionOf(info, p)}
<1>1. /\ info \in ExamInfos /\ session.packages \in Nat /\ RowsHeld
  BY DEF SessionInv, Progress, SessionRecord
<1>2. DOMAIN info.packages = 1..Len(info.packages) /\ Len(info.packages) \in Nat
  BY <1>1, InfoType
<1>3. \A j \in 1..session.packages : j \in DOMAIN info.packages /\ j < k
  BY <1>1, <1>2
<1>4. Handled \subseteq Packages /\ p \notin Handled /\ p \in Packages \ Saved
  <2>1. Handled \subseteq Packages
    BY <1>1, <1>3, InfoType DEF Handled, PackagesDone
  <2>2. p \notin Handled
    BY <1>1, <1>3, PositionOfEntry DEF Handled, PackagesDone
  <2> QED  BY <2>1, <2>2 DEF FlushesPackage
<1>5. RowsOf(session.memory) = Saved \cup added
  <2>1. \A q \in Handled : DbidAfter(info, q) # 0
    <3>1. Handled \subseteq Listed(info)
      BY <1>3 DEF Handled, PackagesDone, Listed
    <3> QED  BY <1>1, <1>4, <3>1, DbidAfterType
  <2> QED  BY <1>1, <1>4, <2>1 DEF RowsHeld, RowsOf, Saved
<1>6. upto = added \cup {p}
  <2>1. PositionOf(info, p) = k /\ p \in Listed(info)
    BY <1>1, PositionOfEntry
  <2>2. \A q \in added : q \in upto
    BY <1>1, <1>3, <2>1, PositionOfEntry DEF Handled, PackagesDone
  <2>3. p \in upto
    BY <1>1, <1>4, <2>1
  <2>4. \A q \in upto : q = p \/ q \in added
    <3> SUFFICES ASSUME NEW q \in upto PROVE q = p \/ q \in Handled
      OBVIOUS
    <3>1. PICK j \in DOMAIN info.packages : info.packages[j].id = q
      BY DEF Listed
    <3>2. PositionOf(info, q) = j
      BY <1>1, <3>1, PositionOfEntry
    <3>3. j \in 1..session.packages \/ j = k
      BY <1>1, <1>2, <2>1, <3>2
    <3> QED  BY <3>1, <3>3 DEF Handled, PackagesDone
  <2> QED  BY <2>2, <2>3, <2>4
<1>7. IsFiniteSet(Saved) /\ IsFiniteSet(added)
  <2>1. Saved \in SUBSET Packages /\ added \in SUBSET Packages
    BY <1>4 DEF Saved
  <2> QED  BY <2>1, PackagesAssumption, FS_Subset
<1>8. /\ Cardinality(Saved) \in Nat /\ Cardinality(added) \in Nat
      /\ Cardinality(Saved \cup added) = Cardinality(Saved) + Cardinality(added)
  <2>1. Saved \cap added = {}
    OBVIOUS
  <2> HIDE DEF added
  <2>2. Cardinality(Saved) \in Nat /\ Cardinality(added) \in Nat
    BY <1>7, FS_CardinalityType
  <2>3. Cardinality(Saved \cup added)
          = Cardinality(Saved) + Cardinality(added) - Cardinality({})
    BY <1>7, <2>1, FS_Union, Zenon
  <2> QED  BY <2>2, <2>3, FS_EmptySet
<1>9. Cardinality(upto) = Cardinality(added) + 1
  <2>1. p \notin added
    BY <1>4
  <2> HIDE DEF added, upto, p
  <2> QED  BY <1>6, <1>7, <2>1, FS_AddElement
<1>10. DbidAfter(info, p) = Cardinality(Saved) + Cardinality(upto)
  <2>1. p \in Listed(info) \ Saved
    BY <1>1, <1>4, PositionOfEntry
  <2> QED  BY <2>1 DEF DbidAfter
<1> HIDE DEF upto, added, p
<1> QED  BY <1>5, <1>8, <1>9, <1>10 DEF p

\* A round of the second loop: the exams the transaction shows as a known
\* package's are those that Releases says, because every new package before
\* it was flushed with what memory held.
LEMMA PackageRoundInv ==
  ASSUME TypeOK, SessionInv, SaveScheduledExamPackage
  PROVE  SessionInv'
<1> DEFINE info == session.info
           k == session.packages + 1
           package == info.packages[k]
           p == package.id
           new == FlushesWhenNew(session, package)
           memory == session.memory
           before == session.transaction
           after == session'.transaction
           rows == PackageSaved(memory, package)
           own == [e \in Exams |-> IF before.owner[e] = package.id /\ ~new
                                   THEN NoPackage ELSE memory.owner[e]]
<1>1. /\ Busy /\ Progress /\ FilesHeld /\ ExamsHeld /\ RowsHeld
      /\ SchedulesHeld /\ OwnersHeld /\ OwnersToCome /\ AllFound
  BY DEF SaveScheduledExamPackage, SessionInv
<1>2. SameTables
  BY DEF SaveScheduledExamPackage, SameTables, vars, examVars, scheduleVars
<1>3. /\ info \in ExamInfos
      /\ session.exams \in Nat /\ session.packages \in Nat
      /\ memory \in Columns /\ before \in Columns
      /\ session.exams = Len(info.exams)
      /\ session.packages < Len(info.packages)
  BY <1>1 DEF SaveScheduledExamPackage, Progress, SessionRecord
<1>4. /\ session'.info = info
      /\ session'.exams = session.exams
      /\ session'.packages = k
      /\ session' \in SessionRecord
      /\ session'.memory =
           [rows EXCEPT !.owner =
              [e \in Exams |-> IF e \in package.exams THEN package.id
                                                      ELSE own[e]]]
      /\ after = IF new THEN [rows EXCEPT !.owner = own] ELSE before
      /\ \A e \in package.exams : after.fileOf[e] # NoFile
  BY <1>1, PackageRound, Zenon DEF Progress
<1>5. /\ k \in DOMAIN info.packages
      /\ p \in Packages \ Handled
      /\ new <=> FlushesPackage(Packages \ Saved, info, k)
      /\ \A e \in Exams :
           (IF new THEN memory ELSE before).fileOf[e] # NoFile
             <=> Visible(info, k, e)
  BY <1>1, <1>3, SeenIsVisible
<1>6. /\ package.start \in Time /\ package.end \in Time
      /\ package.locked \in BOOLEAN
      /\ package.exams \subseteq Exams
      /\ Announced(info, p) = package
      /\ DOMAIN info.packages = 1..Len(info.packages)
      /\ Len(info.packages) \in Nat
  BY <1>3, <1>5, InfoType, PositionOfEntry
<1>7. /\ rows.fileVersion = memory.fileVersion
      /\ rows.fileOf = memory.fileOf
      /\ rows.dbid = [memory.dbid EXCEPT ![p] =
           IF @ = 0 THEN Cardinality(RowsOf(memory)) + 1 ELSE @]
      /\ rows.start = [memory.start EXCEPT ![p] = package.start]
      /\ rows.end = [memory.end EXCEPT ![p] = package.end]
      /\ rows.locked = (memory.locked \ {p})
                         \cup (IF package.locked THEN {p} ELSE {})
      /\ DOMAIN rows = {"fileVersion", "fileOf", "owner", "dbid", "start",
                        "end", "locked"}
  BY <1>3 DEF PackageSaved, Columns
<1>8. /\ session'.memory.fileVersion = memory.fileVersion
      /\ session'.memory.fileOf = memory.fileOf
      /\ session'.memory.dbid = rows.dbid
      /\ session'.memory.start = rows.start
      /\ session'.memory.end = rows.end
      /\ session'.memory.locked = rows.locked
      /\ \A e \in Exams : session'.memory.owner[e] =
           IF e \in package.exams THEN p
           ELSE IF before.owner[e] = p /\ ~new THEN NoPackage
           ELSE memory.owner[e]
  <2> DEFINE taken == [e \in Exams |-> IF e \in package.exams THEN package.id
                                                            ELSE own[e]]
  <2>1. session'.memory = [rows EXCEPT !.owner = taken]
    BY <1>4
  <2>2. \A e \in Exams : taken[e] =
           IF e \in package.exams THEN p
           ELSE IF before.owner[e] = p /\ ~new THEN NoPackage
           ELSE memory.owner[e]
    OBVIOUS
  <2> HIDE DEF rows, taken, p, memory, new, before
  <2> QED  BY <1>7, <2>1, <2>2
<1>9. /\ ~new => after = before
      /\ new => /\ after.fileVersion = memory.fileVersion
                /\ after.fileOf = memory.fileOf
                /\ after.dbid = rows.dbid
                /\ \A e \in Exams : after.owner[e] = memory.owner[e]
  <2>1. after = IF new THEN [rows EXCEPT !.owner = own] ELSE before
    BY <1>4
  <2>2. new => \A e \in Exams : own[e] = memory.owner[e]
    OBVIOUS
  <2> HIDE DEF rows, own, p, memory, new, before, after
  <2> QED  BY <1>7, <2>1, <2>2
<1> HIDE DEF new, before, after, rows, own, memory
<1>10. /\ ExamsDone' = ExamsDone
      /\ PackagesDone = 1..session.packages
      /\ PackagesDone' = PackagesDone \cup {k}
      /\ k \notin PackagesDone
      /\ \A j \in PackagesDone : j < k /\ j \in DOMAIN info.packages
  BY <1>3, <1>4, <1>6 DEF ExamsDone, PackagesDone
<1>11. Handled' = Handled \cup {p}
  BY <1>4, <1>10 DEF Handled
<1>12. /\ \A e \in Exams :
            after.fileOf[e] # NoFile <=> Visible(info, k, e)
       /\ \A e \in package.exams : Visible(info, k, e)
  BY <1>4, <1>5, <1>6, <1>9 DEF after, before
<1>13. Progress'
  <2>1. Len(info.packages) \in Nat /\ k <= Len(info.packages)
    BY <1>5, <1>6
  <2> QED  BY <1>1, <1>2, <1>3, <1>4, <2>1
              DEF Progress, SameTables, WellFormed
<1>14. FilesHeld'
  <2>1. \A f \in Files : after.fileVersion[f] = NoVersion
                           <=> before.fileVersion[f] = NoVersion
    BY <1>1, <1>9, SameFilesKnown DEF memory, before
  <2> QED  BY <1>1, <1>2, <1>4, <1>8, <1>10, <2>1
              DEF FilesHeld, SameTables, before, after, memory
<1>15. ExamsHeld'
  <2>1. ExamsDone = DOMAIN info.exams
    BY <1>3, InfoType DEF ExamsDone
  <2>2. PackagesDone' = 1..k
    BY <1>4 DEF PackagesDone
  <2>3. \A e \in Exams : Found(e)' <=> Visible(info, k, e)
    BY <1>2, <1>4, <1>10, <2>1, <2>2
       DEF Found, Visible, SameTables, SavedExams, Saved, FlushesFile,
           FlushesPackage
  <2> QED  BY <1>1, <1>2, <1>4, <1>8, <1>10, <1>12, <2>3
              DEF ExamsHeld, SameTables, memory, after
<1>16. RowsHeld'
  <2>1. memory.dbid \in [Packages -> Nat] /\ before.dbid = memory.dbid
    BY <1>1, <1>3, ColumnsType DEF RowsHeld, memory, before
  <2>2. new <=> memory.dbid[p] = 0
    BY <2>1 DEF new, FlushesWhenNew, before
  <2>3. \A q \in Packages : rows.dbid[q] =
          IF q = p /\ new THEN Cardinality(RowsOf(memory)) + 1
                          ELSE memory.dbid[q]
    BY <1>5, <1>7, <2>1, <2>2
  <2>4. after.dbid = rows.dbid
    BY <1>5, <1>7, <1>9, <2>1, <2>2
  <2>5. \A q \in Packages : DbidAfter(session.info, q)' = DbidAfter(info, q)
    BY <1>2, <1>4
       DEF SameTables, DbidAfter, Listed, PositionOf, Saved
  <2>6. new => DbidAfter(info, p) = Cardinality(RowsOf(memory)) + 1
    BY <1>1, <1>3, <1>5, NextKey DEF memory
  <2>7. ~new => DbidAfter(info, p) = memory.dbid[p]
    BY <1>1, <1>5 DEF DbidAfter, FlushesPackage, RowsHeld, memory
  <2>8. \A q \in Packages : rows.dbid[q] =
          IF q \in Handled' THEN DbidAfter(info, q) ELSE dbid[q]
    BY <1>1, <1>11, <2>3, <2>6, <2>7 DEF RowsHeld, memory
  <2> QED  BY <1>2, <1>8, <2>4, <2>5, <2>8 DEF RowsHeld, SameTables, after
<1>17. SchedulesHeld'
  <2>1. /\ memory.start \in [Packages -> Time]
        /\ memory.end \in [Packages -> Time]
        /\ memory.locked \subseteq Packages
    BY <1>3, ColumnsType DEF memory
  <2>2. \A q \in Packages : Announced(session.info, q)' = Announced(info, q)
    BY <1>4 DEF Announced, PositionOf
  <2>3. /\ session'.memory.start = [memory.start EXCEPT ![p] = package.start]
        /\ session'.memory.end = [memory.end EXCEPT ![p] = package.end]
        /\ session'.memory.locked = (memory.locked \ {p})
                         \cup (IF package.locked THEN {p} ELSE {})
    BY <1>7, <1>8, Zenon
  <2>4. p \in Packages
    BY <1>5
  <2>5. \A q \in Packages :
          /\ session'.memory.start[q] =
               IF q = p THEN package.start ELSE memory.start[q]
          /\ session'.memory.end[q] =
               IF q = p THEN package.end ELSE memory.end[q]
          /\ q \in session'.memory.locked <=>
               IF q = p THEN package.locked ELSE q \in memory.locked
    <3> HIDE DEF p, package
    <3> QED  BY <2>1, <2>3, <2>4
  <2> QED  BY <1>1, <1>2, <1>6, <1>11, <2>2, <2>5
              DEF SchedulesHeld, SameTables, memory
<1>18. ASSUME NEW e \in Exams
       PROVE  ReleasedBy(k, e) <=> before.owner[e] = p /\ ~new
  <2>1. 1..(k - 1) = PackagesDone
    BY <1>3, <1>10
  <2>2. ~new <=> p \notin Packages \ Saved
    BY <1>5 DEF FlushesPackage
  <2>3. before.owner[e] = p
          <=> /\ owner[e] = p
              /\ \A i, j \in PackagesDone :
                   ListsExam(info, i, e) /\ i < j
                     => ~FlushesPackage(Packages \ Saved, info, j)
    BY <1>1, <1>5, <1>18 DEF OwnersToCome, before
  <2> QED  BY <2>1, <2>2, <2>3 DEF ReleasedBy, Releases
<1>19. \A j \in 1..k, e \in Exams :
         ReleasedBy(j, e)' <=> ReleasedBy(j, e)
  BY <1>2, <1>4
     DEF ReleasedBy, Releases, SameTables, Saved, FlushesPackage, ListsExam
<1>20. OwnersHeld'
  <2>1. PackagesDone \subseteq 1..k /\ k \in 1..k
    BY <1>3, <1>10
  <2>2. \A e \in Exams, j \in {k} : KeptBy(j, e)' <=> ListsExam(info, j, e)
    <3>1. \A i \in PackagesDone' : ~(i > k)
      BY <1>3, <1>10
    <3> QED  BY <1>4, <3>1 DEF KeptBy, ListsExam
  <2>3. \A e \in Exams, j \in PackagesDone :
          KeptBy(j, e)' <=> /\ KeptBy(j, e)
                            /\ ~ListsExam(info, k, e)
                            /\ ~ReleasedBy(k, e)
    BY <1>4, <1>10, <1>19, <2>1 DEF KeptBy, ListsExam
  <2> SUFFICES
        ASSUME NEW e \in Exams
        PROVE  /\ \A j \in PackagesDone' : KeptBy(j, e)' =>
                    session'.memory.owner[e] = info.packages[j].id
               /\ (\A j \in PackagesDone' : ~KeptBy(j, e)')
                    => session'.memory.owner[e] =
                         IF \E j \in PackagesDone' : ReleasedBy(j, e)
                         THEN NoPackage ELSE owner[e]
    BY <1>2, <1>4, <1>10, <1>19, <2>1 DEF OwnersHeld, SameTables
  <2>4. CASE ListsExam(info, k, e)
    <3>1. session'.memory.owner[e] = p
      BY <1>8, <2>4 DEF ListsExam
    <3> QED  BY <1>10, <2>2, <2>3, <2>4, <3>1
  <2>5. CASE ~ListsExam(info, k, e) /\ ReleasedBy(k, e)
    <3>1. session'.memory.owner[e] = NoPackage
      BY <1>8, <1>18, <2>5 DEF ListsExam
    <3> QED  BY <1>10, <2>2, <2>3, <2>5, <3>1
  <2>6. CASE ~ListsExam(info, k, e) /\ ~ReleasedBy(k, e)
    <3>1. session'.memory.owner[e] = memory.owner[e]
      BY <1>8, <1>18, <2>6 DEF ListsExam
    <3>2. \A j \in PackagesDone' : KeptBy(j, e)' =>
            j \in PackagesDone /\ KeptBy(j, e)
      BY <1>10, <2>2, <2>3, <2>6
    <3>3. \A j \in PackagesDone : KeptBy(j, e)' <=> KeptBy(j, e)
      BY <2>3, <2>6
    <3>4. (\E j \in PackagesDone' : ReleasedBy(j, e))
            <=> \E j \in PackagesDone : ReleasedBy(j, e)
      BY <1>10, <2>6
    <3> QED  BY <1>1, <1>10, <3>1, <3>2, <3>3, <3>4 DEF OwnersHeld, memory
  <2> QED  BY <2>4, <2>5, <2>6
<1>21. OwnersToCome'
  <2> SUFFICES
        ASSUME NEW e \in Exams, NEW q \in Packages \ Handled'
        PROVE  /\ session'.memory.owner[e] = q
                    <=> /\ owner[e] = q
                        /\ \A j \in PackagesDone' : ~ListsExam(info, j, e)
               /\ after.owner[e] = q
                    <=> /\ owner[e] = q
                        /\ \A i, j \in PackagesDone' :
                             ListsExam(info, i, e) /\ i < j
                               => ~FlushesPackage(Packages \ Saved, info, j)
    BY <1>2, <1>4
       DEF OwnersToCome, SameTables, ListsExam, FlushesPackage, Saved, after
  <2>1. q \in Packages \ Handled /\ q # p /\ q # NoPackage
    BY <1>11, PackagesAssumption
  <2>2. /\ memory.owner[e] = q
             <=> /\ owner[e] = q
                 /\ \A j \in PackagesDone : ~ListsExam(info, j, e)
        /\ before.owner[e] = q
             <=> /\ owner[e] = q
                 /\ \A i, j \in PackagesDone :
                      ListsExam(info, i, e) /\ i < j
                        => ~FlushesPackage(Packages \ Saved, info, j)
    BY <1>1, <2>1 DEF OwnersToCome, memory, before
  <2>3. session'.memory.owner[e] = q
          <=> /\ owner[e] = q
              /\ \A j \in PackagesDone' : ~ListsExam(info, j, e)
    <3>1. CASE ListsExam(info, k, e)
      BY <1>8, <1>10, <2>1, <3>1 DEF ListsExam
    <3>2. CASE ~ListsExam(info, k, e) /\ ReleasedBy(k, e)
      <4>1. session'.memory.owner[e] = NoPackage
        BY <1>8, <1>18, <3>2 DEF ListsExam
      <4>2. owner[e] = p
        BY <3>2 DEF ReleasedBy, Releases
      <4> QED  BY <2>1, <4>1, <4>2
    <3>3. CASE ~ListsExam(info, k, e) /\ ~ReleasedBy(k, e)
      <4>1. session'.memory.owner[e] = memory.owner[e]
        BY <1>8, <1>18, <3>3 DEF ListsExam
      <4> QED  BY <1>10, <2>2, <3>3, <4>1
    <3> QED  BY <3>1, <3>2, <3>3
  <2>4. after.owner[e] = q
          <=> /\ owner[e] = q
              /\ \A i, j \in PackagesDone' :
                   ListsExam(info, i, e) /\ i < j
                     => ~FlushesPackage(Packages \ Saved, info, j)
    <3>1. /\ \A i \in PackagesDone : i < k /\ ~(k < i)
          /\ ~(k < k)
      BY <1>3, <1>10
    <3>2. CASE new
      BY <1>5, <1>9, <1>10, <2>2, <3>1, <3>2
    <3>3. CASE ~new
      BY <1>5, <1>9, <1>10, <2>2, <3>1, <3>3
    <3> QED  BY <3>2, <3>3
  <2> QED  BY <2>3, <2>4
<1>22. AllFound'
  <2>1. \A j \in PackagesDone' : \A e \in info.packages[j].exams :
          Visible(info, j, e)
    BY <1>1, <1>10, <1>12 DEF AllFound
  <2> QED  BY <1>2, <1>4, <2>1
              DEF AllFound, Visible, SameTables, SavedExams, Saved,
                  FlushesFile, FlushesPackage
<1> QED  BY <1>13, <1>14, <1>15, <1>16, <1>17, <1>20, <1>21,
            <1>22
            DEF SessionInv

\* A session starts with what is committed.
LEMMA BeginInv ==
  ASSUME TypeOK, NEW info \in ExamInfos, Begin(info)
  PROVE  SessionInv'
<1>1. SameTables
  BY DEF Begin, SameTables, vars, examVars, scheduleVars
<1>2. /\ session' = [info |-> info, exams |-> 0, packages |-> 0,
                     memory |-> Committed, transaction |-> Committed]
      /\ WellFormed(info) /\ info.request \notin requests
  BY DEF Begin
<1>3. /\ session'.info = info /\ session'.exams = 0 /\ session'.packages = 0
      /\ session'.memory = Committed /\ session'.transaction = Committed
  BY <1>2
<1>4. Committed \in Columns
  BY CommittedType
<1>5. session' \in SessionRecord
  BY <1>2, <1>4 DEF SessionRecord
<1>6. ExamsDone' = {} /\ PackagesDone' = {} /\ Handled' = {}
  BY <1>3 DEF ExamsDone, PackagesDone, Handled
<1>7. Progress'
  BY <1>1, <1>2, <1>3, <1>5, InfoType DEF Progress, SameTables, WellFormed
<1>8. FilesHeld'
  BY <1>1, <1>3, <1>6 DEF FilesHeld, SameTables, Committed
<1>9. ExamsHeld'
  BY <1>1, <1>3, <1>6 DEF ExamsHeld, Found, SameTables, SavedExams, Committed
<1>10. RowsHeld'
  BY <1>1, <1>3, <1>6 DEF RowsHeld, SameTables, Committed
<1>11. SchedulesHeld'
  BY <1>1, <1>3, <1>6 DEF SchedulesHeld, SameTables, Committed
<1>12. OwnersHeld'
  BY <1>1, <1>3, <1>6 DEF OwnersHeld, SameTables, Committed
<1>13. OwnersToCome'
  BY <1>1, <1>3, <1>6 DEF OwnersToCome, SameTables, Committed
<1>14. AllFound'
  BY <1>6 DEF AllFound
<1> QED  BY <1>7, <1>8, <1>9, <1>10, <1>11, <1>12, <1>13, <1>14 DEF SessionInv

\* Nothing but the session's own steps and its end touches what it relies on.
LEMMA SessionStays ==
  ASSUME SessionInv, session' = session, SameTables
  PROVE  SessionInv'
<1> SUFFICES ASSUME Busy
             PROVE  /\ Progress' /\ FilesHeld' /\ ExamsHeld' /\ RowsHeld'
                    /\ SchedulesHeld' /\ OwnersHeld' /\ OwnersToCome'
                    /\ AllFound'
  BY DEF SessionInv, Busy, NoSession
<1> USE DEF SameTables
<1>1. /\ Progress /\ FilesHeld /\ ExamsHeld /\ RowsHeld
      /\ SchedulesHeld /\ OwnersHeld /\ OwnersToCome /\ AllFound
  BY DEF SessionInv
<1>2. /\ ExamsDone' = ExamsDone /\ PackagesDone' = PackagesDone
      /\ Handled' = Handled
      /\ Saved' = Saved /\ SavedExams' = SavedExams
  BY DEF ExamsDone, PackagesDone, Handled, Saved, SavedExams
<1>3. Progress'
  BY <1>1 DEF Progress, WellFormed
<1>4. FilesHeld'
  BY <1>1, <1>2 DEF FilesHeld
<1>5. ExamsHeld'
  BY <1>1, <1>2 DEF ExamsHeld, Found, FlushesFile, FlushesPackage
<1>6. RowsHeld'
  <2>1. \A q \in Packages :
          DbidAfter(session.info, q)' = DbidAfter(session.info, q)
    BY <1>2 DEF DbidAfter, Listed, PositionOf
  <2> QED  BY <1>1, <1>2, <2>1 DEF RowsHeld
<1>7. SchedulesHeld'
  BY <1>1, <1>2 DEF SchedulesHeld, Announced, PositionOf
<1>8. OwnersHeld'
  <2>1. \A k, e : ReleasedBy(k, e)' <=> ReleasedBy(k, e)
    BY <1>2 DEF ReleasedBy, Releases, ListsExam, FlushesPackage
  <2>2. \A k, e : KeptBy(k, e)' <=> KeptBy(k, e)
    BY <1>2, <2>1 DEF KeptBy, ListsExam
  <2> QED  BY <1>1, <1>2, <2>1, <2>2 DEF OwnersHeld
<1>9. OwnersToCome'
  BY <1>1, <1>2 DEF OwnersToCome, ListsExam, FlushesPackage
<1>10. AllFound'
  BY <1>1, <1>2 DEF AllFound, Visible, FlushesFile, FlushesPackage
<1> QED  BY <1>3, <1>4, <1>5, <1>6, <1>7, <1>8, <1>9, <1>10

------------------------------------------------------------------------------
(***************************************************************************)
(* The end of a session is a step of ExamStore.                            *)
(***************************************************************************)

\* What is committed is what the exam information as a whole amounts to.
LEMMA CommitSaves ==
  ASSUME TypeOK, SessionInv, Commit
  PROVE  session.info \in ExamInfos /\ CommitExamInfo(session.info)
<1> DEFINE info == session.info
           memory == session.memory
<1>1. /\ Progress /\ FilesHeld /\ ExamsHeld /\ RowsHeld
      /\ SchedulesHeld /\ OwnersHeld /\ OwnersToCome /\ AllFound
  BY DEF SessionInv, Commit
<1>2. info \in ExamInfos /\ memory \in Columns
  BY <1>1 DEF Progress, SessionRecord
<1>3. ExamsDone = DOMAIN info.exams /\ PackagesDone = DOMAIN info.packages
  BY <1>2, InfoType DEF Commit, ExamsDone, PackagesDone
<1>4. Handled = Listed(info)
  BY <1>3 DEF Handled, Listed
<1>5. Importable(info)
  BY <1>1, <1>3 DEF AllFound, Importable
<1>6. memory.fileVersion = [f \in Files |-> FileVersionAfter(info, f)]
  <2> SUFFICES ASSUME NEW f \in Files
               PROVE  memory.fileVersion[f] = FileVersionAfter(info, f)
    BY <1>2, ColumnsType
  <2> DEFINE mentions == {i \in DOMAIN info.exams : info.exams[i].file = f}
  <2>1. CASE mentions = {}
    BY <1>1, <1>3, <2>1 DEF FilesHeld, FileVersionAfter
  <2>2. CASE mentions # {}
    <3>1. \E i \in mentions : \A j \in mentions : j <= i
      BY <1>2, <2>2, InfoType, LastPosition
    <3>2. PICK i \in mentions :
            /\ i = CHOOSE h \in mentions : \A j \in mentions : j <= h
            /\ \A j \in mentions : j <= i
      BY <3>1
    <3>3. memory.fileVersion[f] = info.exams[i].version
      BY <1>1, <1>3, <3>2 DEF FilesHeld
    <3> QED  BY <2>2, <3>2, <3>3 DEF FileVersionAfter
  <2> QED  BY <2>1, <2>2
<1>7. memory.fileOf = [e \in Exams |-> FileOfAfter(info, e)]
  <2> SUFFICES ASSUME NEW e \in Exams
               PROVE  memory.fileOf[e] = FileOfAfter(info, e)
    BY <1>2, ColumnsType
  <2> QED  BY <1>1, <1>3 DEF ExamsHeld, FileOfAfter
<1>8. memory.owner = [e \in Exams |->
                        OwnerAfter(owner, Packages \ Saved, info, e)]
  <2> SUFFICES ASSUME NEW e \in Exams
               PROVE  memory.owner[e]
                        = OwnerAfter(owner, Packages \ Saved, info, e)
    BY <1>2, ColumnsType
  <2>1. \A k \in DOMAIN info.packages :
          KeptBy(k, e) <=> Keeps(owner, Packages \ Saved, info, k, e)
    BY <1>3 DEF KeptBy, Keeps, ReleasedBy
  <2>2. /\ \A k \in DOMAIN info.packages :
             Keeps(owner, Packages \ Saved, info, k, e)
               => memory.owner[e] = info.packages[k].id
        /\ (\A k \in DOMAIN info.packages :
              ~Keeps(owner, Packages \ Saved, info, k, e))
             => memory.owner[e] =
                  IF \E k \in DOMAIN info.packages :
                       Releases(owner, Packages \ Saved, info, k, e)
                  THEN NoPackage ELSE owner[e]
    BY <1>1, <1>3, <2>1 DEF OwnersHeld, ReleasedBy
  <2> QED  BY <2>2 DEF OwnerAfter
<1>9. memory.dbid = [p \in Packages |-> DbidAfter(info, p)]
  <2> SUFFICES ASSUME NEW p \in Packages
               PROVE  memory.dbid[p] = DbidAfter(info, p)
    BY <1>2, ColumnsType
  <2> QED  BY <1>1, <1>4 DEF RowsHeld, DbidAfter
<1>10. /\ memory.start = [p \in Packages |->
            IF p \in Listed(info) THEN Announced(info, p).start ELSE start[p]]
       /\ memory.end = [p \in Packages |->
            IF p \in Listed(info) THEN Announced(info, p).end ELSE end[p]]
  BY <1>1, <1>2, <1>4, ColumnsType DEF SchedulesHeld
<1>11. memory.locked = {p \in Packages :
         IF p \in Listed(info) THEN Announced(info, p).locked ELSE p \in locked}
  BY <1>1, <1>2, <1>4, ColumnsType DEF SchedulesHeld
<1> QED  BY <1>1, <1>2, <1>5, <1>6, <1>7, <1>8, <1>9, <1>10, <1>11
            DEF Commit, CommitExamInfo, Progress

\* An exception means that the exam information cannot be imported.
LEMMA NoResultRefuses ==
  ASSUME TypeOK, SessionInv, NoResultFound
  PROVE  session.info \in ExamInfos /\ RefuseExamInfo(session.info)
<1> DEFINE info == session.info
           k == session.packages + 1
<1>1. Progress /\ info \in ExamInfos
  BY DEF SessionInv, NoResultFound, Progress, SessionRecord
<1>2. /\ Busy /\ session.exams = Len(info.exams)
      /\ session.packages < Len(info.packages)
  BY DEF NoResultFound
<1>3. PICK e \in info.packages[k].exams :
        (IF FlushesWhenNew(session, info.packages[k]) THEN session.memory
         ELSE session.transaction).fileOf[e] = NoFile
  BY DEF NoResultFound
<1>4. k \in DOMAIN info.packages /\ ~Visible(info, k, e)
  <2>1. k \in DOMAIN info.packages
    BY <1>2, SeenIsVisible
  <2>2. e \in Exams
    BY <1>1, <2>1, InfoType
  <2> QED  BY <1>2, <1>3, <2>1, <2>2, SeenIsVisible
<1>5. ~Importable(info)
  BY <1>4 DEF Importable
<1>6. /\ response' = "failed"
      /\ UNCHANGED <<examVars, scheduleVars, lifeVars, now>>
  BY DEF NoResultFound
<1> QED  BY <1>1, <1>5, <1>6 DEF RefuseExamInfo, Progress

\* Each step of the detailed specification is a step of ExamStore or leaves
\* its tables alone.
LEMMA StepSaves ==
  ASSUME TypeOK, SessionInv, [SessionNext]_sessionVars
  PROVE  [Next]_vars
<1>1. ASSUME NEW info \in ExamInfos, Begin(info)
      PROVE  UNCHANGED vars
  BY <1>1 DEF Begin
<1>2. CASE SaveScheduledExam
  BY <1>2 DEF SaveScheduledExam
<1>3. CASE SaveScheduledExamPackage
  BY <1>3 DEF SaveScheduledExamPackage
<1>4. CASE NoResultFound
  BY <1>4, NoResultRefuses DEF Next, SaveExamInfo
<1>5. CASE Commit
  BY <1>5, CommitSaves DEF Next, SaveExamInfo
<1>6. CASE Killed
  BY <1>6 DEF Killed
<1>7. CASE Other
  BY <1>7 DEF Other, Next, SaveExamInfo
<1>8. CASE Tick
  BY <1>8 DEF Next
<1>9. CASE UNCHANGED sessionVars
  BY <1>9 DEF sessionVars
<1> QED  BY <1>1, <1>2, <1>3, <1>4, <1>5, <1>6, <1>7, <1>8, <1>9
            DEF SessionNext

\* Each step of a session keeps what is said of its rounds.
LEMMA SessionStepInv ==
  ASSUME TypeOK, SessionInv, [SessionNext]_sessionVars
  PROVE  SessionInv'
<1>1. ASSUME NEW info \in ExamInfos, Begin(info)
      PROVE  SessionInv'
  BY <1>1, BeginInv
<1>2. CASE SaveScheduledExam
  BY <1>2, ExamRoundInv
<1>3. CASE SaveScheduledExamPackage
  BY <1>3, PackageRoundInv
<1>4. CASE NoResultFound \/ Commit \/ Killed
  BY <1>4 DEF NoResultFound, Commit, Killed, SessionInv, Busy, NoSession
<1>5. CASE Other
  BY <1>5 DEF Other, SessionInv, Busy, NoSession
<1>6. CASE Tick /\ UNCHANGED session
  BY <1>6, SessionStays DEF Tick, SameTables, examVars, scheduleVars
<1>7. CASE UNCHANGED sessionVars
  BY <1>7, SessionStays
     DEF sessionVars, SameTables, vars, examVars, scheduleVars
<1> QED  BY <1>1, <1>2, <1>3, <1>4, <1>5, <1>6, <1>7 DEF SessionNext

\* The invariant of the tables and that of the session hold together: what
\* the former needs of a step is that it is one of ExamStore.
THEOREM SessionInvariance == SessionSpec => [](Inv /\ SessionInv)
<1>1. SessionInit => Inv /\ SessionInv
  BY InitInv DEF SessionInit, SessionInv, Busy
<1>2. Inv /\ SessionInv /\ [SessionNext]_sessionVars => (Inv /\ SessionInv)'
  <2> SUFFICES ASSUME Inv, SessionInv, [SessionNext]_sessionVars
               PROVE  Inv' /\ SessionInv'
    OBVIOUS
  <2>1. TypeOK
    BY DEF Inv
  <2>2. [Next]_vars /\ SessionInv'
    BY <2>1, StepSaves, SessionStepInv
  <2> QED  BY <2>2, NextInv
<1> QED  BY <1>1, <1>2, PTL DEF SessionSpec

\* The request handler's loops, its objects in memory, its flushes and its
\* exceptions amount to one atomic save, whatever the database holds and
\* whatever list Exam-O-Matic sends: the tables go through no history that
\* ExamStore does not allow.
THEOREM ImplementsStore == SessionSpec => StoreSpec
<1>1. SessionInit => Init
  BY DEF SessionInit
<1>2. Inv /\ SessionInv /\ [SessionNext]_sessionVars => [Next]_vars
  BY StepSaves DEF Inv
<1> QED  BY <1>1, <1>2, SessionInvariance, PTL DEF SessionSpec, StoreSpec, Spec

\* Hence all that is proved of ExamStore holds of the request handler with
\* its session, whenever the API process dies: one exam at a time, tables
\* that agree, lives that do not overlap, a life cycle without detours.
THEOREM SessionSafe ==
  SessionSpec => /\ [](OneExamAtATime /\ TablesAgree /\ LivesDoNotOverlap)
                 /\ LifecycleSpec
BY ImplementsStore, OneExam, ReferencesHold, LivesApart, ImplementsLifecycle,
   PTL DEF StoreSpec
==============================================================================
