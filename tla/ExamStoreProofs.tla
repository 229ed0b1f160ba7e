--------------------------- MODULE ExamStoreProofs ---------------------------
(***************************************************************************)
(* Theorems about ExamStore for any number of packages, exams, files and   *)
(* exam informations, checked by the TLA+ proof system.                    *)
(***************************************************************************)
EXTENDS ExamStore, FiniteSetTheorems, WellFoundedInduction, Integers, TLAPS

USE DEF Time, NoTime

\* The inductive invariant.  That a current package is not archived is what
\* lets an archived package free the server for the next one.
CurrentNotArchived == \A p \in current : state[p] # "archived"

Inv == /\ TypeOK
       /\ OneExamAtATime
       /\ CurrentNotArchived
       /\ TablesAgree
       /\ LivesDoNotOverlap

------------------------------------------------------------------------------
(***************************************************************************)
(* Lemmas about an exam information.                                       *)
(***************************************************************************)

\* A set of positions of a list has a last one.
LEMMA LastPosition ==
  ASSUME NEW n \in Nat, NEW S, S \subseteq 1..n, S # {}
  PROVE  \E i \in S : \A j \in S : j <= i
<1> DEFINE T == {n - i : i \in S}
<1>0. \A i \in S : i \in Nat /\ i <= n
  OBVIOUS
<1>1. T \subseteq Nat /\ T # {}
  <2>1. \A i \in S : n - i \in Nat
    BY <1>0
  <2>2. PICK i \in S : TRUE
    OBVIOUS
  <2>3. n - i \in T
    OBVIOUS
  <2> QED  BY <2>1, <2>3
<1>2. PICK m \in T : \A y \in T : ~(<<y, m>> \in OpToRel(<, Nat))
  BY <1>1, NatLessThanWellFounded, WFMin, Zenon
<1>3. \A y \in T : ~(y < m)
  BY <1>1, <1>2 DEF OpToRel
<1>4. PICK i \in S : m = n - i
  BY <1>2
<1>5. \A j \in S : j <= i
  <2> TAKE j \in S
  <2>1. ~(n - j < n - i)
    BY <1>3, <1>4
  <2> QED  BY <1>0, <2>1
<1> QED  BY <1>5

\* Exam information is made of lists of exams and packages.
LEMMA InfoType ==
  ASSUME NEW info \in ExamInfos
  PROVE  /\ info.request \in Requests
         /\ info.exams \in Seq(ExamRecord)
         /\ info.packages \in Seq(PackageRecord)
         /\ DOMAIN info.exams = 1..Len(info.exams)
         /\ DOMAIN info.packages = 1..Len(info.packages)
         /\ Len(info.exams) \in Nat /\ Len(info.packages) \in Nat
         /\ \A i \in DOMAIN info.exams :
              /\ info.exams[i].id \in Exams
              /\ info.exams[i].file \in Files
              /\ info.exams[i].version \in Versions
         /\ \A k \in DOMAIN info.packages :
              /\ info.packages[k].id \in Packages
              /\ info.packages[k].start \in Time
              /\ info.packages[k].end \in Time
              /\ info.packages[k].locked \in BOOLEAN
              /\ info.packages[k].exams \subseteq Exams
<1>1. info \in ExamInfoRecord
  BY ExamInfosAssumption
<1>2. /\ info.request \in Requests
      /\ info.exams \in Seq(ExamRecord)
      /\ info.packages \in Seq(PackageRecord)
  BY <1>1 DEF ExamInfoRecord
<1>3. /\ \A i \in DOMAIN info.exams : info.exams[i] \in ExamRecord
      /\ \A k \in DOMAIN info.packages : info.packages[k] \in PackageRecord
  BY <1>2
<1>4. /\ DOMAIN info.exams = 1..Len(info.exams)
      /\ DOMAIN info.packages = 1..Len(info.packages)
      /\ Len(info.exams) \in Nat /\ Len(info.packages) \in Nat
  BY <1>2
<1>5. \A i \in DOMAIN info.exams :
              /\ info.exams[i].id \in Exams
              /\ info.exams[i].file \in Files
              /\ info.exams[i].version \in Versions
  BY <1>3 DEF ExamRecord
<1>6. \A k \in DOMAIN info.packages :
              /\ info.packages[k].id \in Packages
              /\ info.packages[k].start \in Time
              /\ info.packages[k].end \in Time
              /\ info.packages[k].locked \in BOOLEAN
              /\ info.packages[k].exams \subseteq Exams
  BY <1>3 DEF PackageRecord
<1> QED  BY <1>2, <1>4, <1>5, <1>6

\* A listed package is announced by an entry of the list.
LEMMA AnnouncedType ==
  ASSUME NEW info \in ExamInfos, NEW p \in Listed(info)
  PROVE  /\ PositionOf(info, p) \in DOMAIN info.packages
         /\ Announced(info, p).id = p
         /\ Announced(info, p).start \in Time
         /\ Announced(info, p).end \in Time
         /\ p \in Packages
<1>1. PICK k \in DOMAIN info.packages : info.packages[k].id = p
  BY DEF Listed
<1>2. /\ PositionOf(info, p) \in DOMAIN info.packages
      /\ info.packages[PositionOf(info, p)].id = p
  BY <1>1 DEF PositionOf
<1> QED  BY <1>2, InfoType DEF Announced

\* New rows get a key other than 0, known rows keep theirs.
LEMMA DbidAfterType ==
  ASSUME TypeOK, NEW info \in ExamInfos, NEW p \in Packages
  PROVE  /\ DbidAfter(info, p) \in Nat
         /\ p \in Saved \cup Listed(info) => DbidAfter(info, p) # 0
<1> DEFINE Q == {q \in Listed(info) \ Saved :
                   PositionOf(info, q) <= PositionOf(info, p)}
<1>1. Listed(info) \subseteq Packages
  BY AnnouncedType
<1>2. IsFiniteSet(Saved) /\ IsFiniteSet(Q)
  <2>1. Saved \in SUBSET Packages /\ Q \in SUBSET Packages
    BY <1>1 DEF Saved
  <2> QED  BY <2>1, PackagesAssumption, FS_Subset
<1>3. Cardinality(Saved) \in Nat /\ Cardinality(Q) \in Nat
  BY <1>2, FS_CardinalityType
<1>4. CASE p \in Listed(info) \ Saved
  <2>1. PositionOf(info, p) \in Nat
    BY <1>4, AnnouncedType, InfoType
  <2>2. p \in Q
    BY <1>4, <2>1
  <2>3. Cardinality(Q) # 0
    BY <1>2, <2>2, FS_EmptySet
  <2>4. DbidAfter(info, p) = Cardinality(Saved) + Cardinality(Q)
    BY <1>4 DEF DbidAfter
  <2> HIDE DEF Q
  <2> QED  BY <1>3, <2>3, <2>4
<1>5. CASE p \notin Listed(info) \ Saved
  <2>1. DbidAfter(info, p) = dbid[p]
    BY <1>5, Zenon DEF DbidAfter
  <2> QED  BY <1>5, <2>1 DEF TypeOK, Saved
<1> QED  BY <1>4, <1>5

\* An exam ends up in a package that lists it, in none, or where it was.
LEMMA OwnerAfterType ==
  ASSUME NEW info \in ExamInfos, NEW own, NEW new, NEW e
  PROVE  \/ \E k \in DOMAIN info.packages :
              /\ e \in info.packages[k].exams
              /\ OwnerAfter(own, new, info, e) = info.packages[k].id
         \/ OwnerAfter(own, new, info, e) = NoPackage
         \/ OwnerAfter(own, new, info, e) = own[e]
<1>1. CASE \E k \in DOMAIN info.packages : Keeps(own, new, info, k, e)
  <2> DEFINE c == CHOOSE k \in DOMAIN info.packages :
                    Keeps(own, new, info, k, e)
  <2>1. c \in DOMAIN info.packages /\ Keeps(own, new, info, c, e)
    BY <1>1
  <2>2. e \in info.packages[c].exams
    BY <2>1 DEF Keeps, ListsExam
  <2>3. OwnerAfter(own, new, info, e) = info.packages[c].id
    BY <1>1 DEF OwnerAfter
  <2> QED  BY <2>1, <2>2, <2>3
<1>2. CASE ~\E k \in DOMAIN info.packages : Keeps(own, new, info, k, e)
  BY <1>2 DEF OwnerAfter
<1> QED  BY <1>1, <1>2

\* Every file that is mentioned has a version afterwards.
LEMMA FileVersionAfterType ==
  ASSUME TypeOK, NEW info \in ExamInfos, NEW f \in Files
  PROVE  /\ FileVersionAfter(info, f) \in Versions \cup {NoVersion}
         /\ fileVersion[f] # NoVersion => FileVersionAfter(info, f) # NoVersion
         /\ \A i \in DOMAIN info.exams :
              info.exams[i].file = f => FileVersionAfter(info, f) # NoVersion
<1> DEFINE M == {i \in DOMAIN info.exams : info.exams[i].file = f}
           c == CHOOSE i \in M : \A j \in M : j <= i
<1>1. CASE M = {}
  <2>1. FileVersionAfter(info, f) = fileVersion[f]
    BY <1>1 DEF FileVersionAfter
  <2> QED  BY <1>1, <2>1 DEF TypeOK
<1>2. CASE M # {}
  <2>1. M \subseteq 1..Len(info.exams) /\ Len(info.exams) \in Nat
    BY InfoType
  <2>2. c \in M
    <3> HIDE DEF M
    <3> QED  BY <1>2, <2>1, LastPosition
  <2>3. FileVersionAfter(info, f) = info.exams[c].version
    BY <1>2 DEF FileVersionAfter
  <2>4. info.exams[c].version \in Versions
    BY <2>2, InfoType
  <2> QED  BY <2>3, <2>4, FilesAssumption
<1> QED  BY <1>1, <1>2

\* An exam that is listed gets its file, any other keeps its own.
LEMMA FileOfAfterType ==
  ASSUME TypeOK, NEW info \in ExamInfos, NEW e \in Exams
  PROVE  \/ /\ \E i \in DOMAIN info.exams :
                 /\ info.exams[i].id = e
                 /\ FileOfAfter(info, e) = info.exams[i].file
            /\ FileOfAfter(info, e) \in Files
         \/ /\ \A i \in DOMAIN info.exams : info.exams[i].id # e
            /\ FileOfAfter(info, e) = fileOf[e]
<1>1. CASE \E i \in DOMAIN info.exams : info.exams[i].id = e
  <2> DEFINE c == CHOOSE i \in DOMAIN info.exams : info.exams[i].id = e
  <2>1. c \in DOMAIN info.exams /\ info.exams[c].id = e
    BY <1>1
  <2>2. FileOfAfter(info, e) = info.exams[c].file
    BY <1>1 DEF FileOfAfter
  <2> QED  BY <2>1, <2>2, InfoType
<1>2. CASE ~\E i \in DOMAIN info.exams : info.exams[i].id = e
  BY <1>2 DEF FileOfAfter
<1> QED  BY <1>1, <1>2

------------------------------------------------------------------------------
(***************************************************************************)
(* The actions preserve the invariant.                                     *)
(***************************************************************************)

USE DEF NoState, PackageStates, Lifecycle!NoState, Lifecycle!PackageStates

\* The empty database is consistent.
LEMMA InitInv == Init => Inv
<1> SUFFICES ASSUME Init PROVE Inv
  OBVIOUS
<1>1. TypeOK
  BY MaxTimeAssumption DEF Init, TypeOK, Responses
<1>2. OneExamAtATime /\ CurrentNotArchived /\ LivesDoNotOverlap
  BY DEF Init, OneExamAtATime, Lifecycle!OneExamAtATime, Lifecycle!Active,
         CurrentNotArchived, LivesDoNotOverlap
<1>3. TablesAgree
  BY DEF Init, TablesAgree, Saved, SavedExams
<1> QED  BY <1>1, <1>2, <1>3 DEF Inv

\* An import keeps the types of the columns.
LEMMA CommitTypeOK ==
  ASSUME Inv, NEW info \in ExamInfos, CommitExamInfo(info)
  PROVE  TypeOK'
<1> USE DEF Inv
<1>1. requests' \subseteq Requests
  BY InfoType DEF CommitExamInfo, TypeOK
<1>2. fileVersion' \in [Files -> Versions \cup {NoVersion}]
  BY FileVersionAfterType DEF CommitExamInfo
<1>3. fileOf' \in [Exams -> Files \cup {NoFile}]
  BY FileOfAfterType DEF CommitExamInfo, TypeOK
<1>4. owner' \in [Exams -> Packages \cup {NoPackage}]
  <2> SUFFICES ASSUME NEW e \in Exams
               PROVE  OwnerAfter(owner, Packages \ Saved, info, e)
                        \in Packages \cup {NoPackage}
    BY DEF CommitExamInfo
  <2> DEFINE o == OwnerAfter(owner, Packages \ Saved, info, e)
  <2>1. \/ \E k \in DOMAIN info.packages :
             e \in info.packages[k].exams /\ o = info.packages[k].id
        \/ o = NoPackage
        \/ o = owner[e]
    BY OwnerAfterType
  <2>2. owner[e] \in Packages \cup {NoPackage}
    BY DEF TypeOK
  <2>3. (o \in Packages \cup {NoPackage})
    <3> HIDE DEF o
    <3> QED  BY <2>1, <2>2, InfoType
  <2> QED  BY <2>3
<1>5. dbid' \in [Packages -> Nat]
  BY DbidAfterType DEF CommitExamInfo
<1>6. start' \in [Packages -> Time] /\ end' \in [Packages -> Time]
  BY AnnouncedType DEF CommitExamInfo, TypeOK
<1>7. locked' \subseteq Packages
  BY DEF CommitExamInfo
<1>8. /\ current' \subseteq Packages
      /\ state' \in [Packages -> PackageStates]
      /\ changedAt' \in [Packages -> Time \cup {NoTime}]
      /\ now' \in Time
      /\ response' \in Responses
  BY DEF CommitExamInfo, TypeOK, lifeVars, Responses
<1> QED  BY <1>1, <1>2, <1>3, <1>4, <1>5, <1>6, <1>7, <1>8 DEF TypeOK

\* An import keeps foreign keys and nullable columns in agreement.
LEMMA CommitTablesAgree ==
  ASSUME Inv, NEW info \in ExamInfos, CommitExamInfo(info)
  PROVE  TablesAgree'
<1> USE DEF Inv
<1>1. Saved \cup Listed(info) \subseteq Saved'
  <2> SUFFICES ASSUME NEW p \in Packages, p \in Saved \cup Listed(info)
               PROVE  dbid'[p] # 0
    BY AnnouncedType DEF Saved
  <2> QED  BY DbidAfterType DEF CommitExamInfo
<1>2. \A e \in Exams :
        (e \in SavedExams \/ \E i \in DOMAIN info.exams : info.exams[i].id = e)
          => e \in SavedExams'
  <2> SUFFICES ASSUME NEW e \in Exams,
                      \/ e \in SavedExams
                      \/ \E i \in DOMAIN info.exams : info.exams[i].id = e
               PROVE  FileOfAfter(info, e) # NoFile
    BY DEF CommitExamInfo, SavedExams
  <2> QED  BY FileOfAfterType, FilesAssumption DEF SavedExams
<1>3. ASSUME NEW e \in Exams, owner'[e] # NoPackage
      PROVE  owner'[e] \in Saved' /\ e \in SavedExams'
  <2> DEFINE o == OwnerAfter(owner, Packages \ Saved, info, e)
  <2>1. owner'[e] = o
    BY DEF CommitExamInfo
  <2>2. CASE \E k \in DOMAIN info.packages :
               e \in info.packages[k].exams /\ o = info.packages[k].id
    <3>1. PICK k \in DOMAIN info.packages :
            e \in info.packages[k].exams /\ o = info.packages[k].id
      BY <2>2
    <3>2. o \in Listed(info)
      BY <3>1 DEF Listed
    <3>3. Visible(info, k, e)
      BY <3>1 DEF CommitExamInfo, Importable
    <3>4. e \in SavedExams'
      BY <3>3, <1>2 DEF Visible
    <3> QED  BY <1>1, <2>1, <3>2, <3>4
  <2>3. CASE o = owner[e]
    <3>1. owner[e] \in Saved /\ e \in SavedExams
      BY <1>3, <2>1, <2>3 DEF TablesAgree
    <3> QED  BY <1>1, <1>2, <2>1, <2>3, <3>1
  <2>4. \/ \E k \in DOMAIN info.packages :
             e \in info.packages[k].exams /\ o = info.packages[k].id
        \/ o = NoPackage
        \/ o = owner[e]
    BY OwnerAfterType
  <2> HIDE DEF o
  <2> QED  BY <1>3, <2>1, <2>2, <2>3, <2>4
<1>4. ASSUME NEW e \in Exams, e \in SavedExams'
      PROVE  fileVersion'[fileOf'[e]] # NoVersion
  <2>1. fileOf'[e] = FileOfAfter(info, e) /\ FileOfAfter(info, e) # NoFile
    BY <1>4 DEF CommitExamInfo, SavedExams
  <2>2. \A f \in Files : fileVersion'[f] = FileVersionAfter(info, f)
    BY DEF CommitExamInfo
  <2>3. CASE \E i \in DOMAIN info.exams :
               /\ info.exams[i].id = e
               /\ FileOfAfter(info, e) = info.exams[i].file
    BY <2>1, <2>2, <2>3, FileVersionAfterType, InfoType
  <2>4. CASE FileOfAfter(info, e) = fileOf[e]
    <3>1. fileOf[e] \in Files /\ fileVersion[fileOf[e]] # NoVersion
      BY <2>1, <2>4 DEF TablesAgree, TypeOK, SavedExams
    <3> QED  BY <2>1, <2>2, <2>4, <3>1, FileVersionAfterType
  <2> QED  BY <2>3, <2>4, FileOfAfterType
<1>5. locked' \cup current' \subseteq Saved'
  <2>1. locked' \subseteq locked \cup Listed(info) /\ current' = current
    BY DEF CommitExamInfo, lifeVars
  <2> QED  BY <1>1, <2>1 DEF TablesAgree
<1>6. \A p \in Packages :
        /\ state'[p] # NoState => p \in Saved' /\ changedAt'[p] <= now'
        /\ state'[p] = NoState <=> changedAt'[p] = NoTime
  BY <1>1 DEF CommitExamInfo, lifeVars, TablesAgree
<1> QED  BY <1>3, <1>4, <1>5, <1>6 DEF TablesAgree

\* Imports, errors and the clock leave the life cycle alone.
LEMMA LifeUnchanged ==
  ASSUME Inv, UNCHANGED lifeVars
  PROVE  OneExamAtATime' /\ CurrentNotArchived' /\ LivesDoNotOverlap'
BY DEF Inv, lifeVars, OneExamAtATime, Lifecycle!OneExamAtATime,
       Lifecycle!Active, CurrentNotArchived, LivesDoNotOverlap

\* Time alone does not make the tables disagree.
LEMMA TablesUnchanged ==
  ASSUME Inv, UNCHANGED <<examVars, scheduleVars, state, changedAt>>,
         now' \in Time, now <= now', current' \subseteq Saved
  PROVE  TablesAgree'
<1>1. Saved' = Saved /\ SavedExams' = SavedExams
  BY DEF Saved, SavedExams, examVars, scheduleVars
<1>2. \A p \in Packages :
        /\ state'[p] # NoState => p \in Saved' /\ changedAt'[p] <= now'
        /\ state'[p] = NoState <=> changedAt'[p] = NoTime
  <2> SUFFICES ASSUME NEW p \in Packages, state[p] # NoState
               PROVE  p \in Saved /\ changedAt[p] <= now'
    BY <1>1 DEF Inv, TablesAgree
  <2>1. p \in Saved /\ changedAt[p] <= now
    BY DEF Inv, TablesAgree
  <2>2. changedAt[p] \in Nat /\ now \in Nat /\ now' \in Nat
    BY MaxTimeAssumption DEF Inv, TypeOK
  <2> QED  BY <2>1, <2>2
<1> QED  BY <1>1, <1>2 DEF Inv, TablesAgree, examVars, scheduleVars

\* save_exam_info, when it is committed
LEMMA CommitInv ==
  ASSUME Inv, NEW info \in ExamInfos, CommitExamInfo(info)
  PROVE  Inv'
<1>1. UNCHANGED lifeVars
  BY DEF CommitExamInfo
<1> QED  BY <1>1, CommitTypeOK, CommitTablesAgree, LifeUnchanged DEF Inv

\* save_exam_info, when it is refused or rolled back
LEMMA RefuseInv ==
  ASSUME Inv, NEW info \in ExamInfos, RefuseExamInfo(info)
  PROVE  Inv'
<1>1. TypeOK'
  BY DEF Inv, RefuseExamInfo, TypeOK, examVars, scheduleVars, lifeVars,
         Responses
<1>2. TablesAgree'
  BY DEF Inv, RefuseExamInfo, TablesAgree, Saved, SavedExams, examVars,
         scheduleVars, lifeVars
<1>3. UNCHANGED lifeVars
  BY DEF RefuseExamInfo
<1> QED  BY <1>1, <1>2, <1>3, LifeUnchanged DEF Inv

\* get_current_exam_package, with its election
LEMMA GetCurrentInv ==
  ASSUME Inv, GetCurrentExamPackage
  PROVE  Inv'
<1> USE DEF Inv
<1>1. \/ current' = current
      \/ \E p \in Candidates : current = {} /\ current' = {p}
  BY DEF GetCurrentExamPackage
<1>2. \A p \in Candidates : p \in Saved /\ state[p] = NoState
  BY DEF Candidates
<1>3. current' \subseteq Saved
  BY <1>1, <1>2 DEF TablesAgree
<1>4. state' = state /\ changedAt' = changedAt /\ now' = now
  BY DEF GetCurrentExamPackage
<1>5. TypeOK'
  <2>1. current' \subseteq Packages
    BY <1>3 DEF Saved
  <2> QED  BY <2>1 DEF GetCurrentExamPackage, TypeOK, examVars, scheduleVars,
                       Responses
<1>6. TablesAgree'
  <2>1. now' \in Time /\ now <= now'
    BY <1>4, MaxTimeAssumption DEF TypeOK
  <2> QED  BY <1>3, <2>1, TablesUnchanged DEF GetCurrentExamPackage
<1>7. OneExamAtATime' /\ CurrentNotArchived' /\ LivesDoNotOverlap'
  BY <1>1, <1>2, <1>4 DEF OneExamAtATime, Lifecycle!OneExamAtATime,
       Lifecycle!Active, CurrentNotArchived, LivesDoNotOverlap
<1> QED  BY <1>5, <1>6, <1>7

\* set_current_exam_package_state
LEMMA SetStateInv ==
  ASSUME Inv, NEW p \in Packages, NEW s \in PackageStates \ {NoState},
         SetCurrentExamPackageState(p, s)
  PROVE  Inv'
<1> USE DEF Inv
<1>1. TypeOK'
  BY DEF SetCurrentExamPackageState, TypeOK, examVars, scheduleVars, lifeVars,
         Responses
<1>2. CASE UNCHANGED lifeVars
  <2>1. now' \in Time /\ now <= now' /\ current' \subseteq Saved
    BY <1>2, MaxTimeAssumption
       DEF SetCurrentExamPackageState, TypeOK, TablesAgree, lifeVars
  <2>2. TablesAgree'
    BY <1>2, <2>1, TablesUnchanged DEF SetCurrentExamPackageState, lifeVars
  <2> QED  BY <1>1, <1>2, <2>2, LifeUnchanged
<1>3. CASE /\ p \in current
           /\ state' = [state EXCEPT ![p] = s]
           /\ changedAt' = [changedAt EXCEPT ![p] = now]
           /\ current' = IF s \in EndStates THEN current \ {p} ELSE current
  <2>1. \A q \in Packages :
          /\ state'[q] = IF q = p THEN s ELSE state[q]
          /\ changedAt'[q] = IF q = p THEN now ELSE changedAt[q]
    BY <1>3 DEF TypeOK
  <2>2. \A q \in Packages : q \in current => q = p
    BY <1>3 DEF OneExamAtATime, Lifecycle!OneExamAtATime
  <2>3. OneExamAtATime' /\ CurrentNotArchived'
    <3>1. \A q \in Packages : q # p => state[q] \notin Lifecycle!Active
      BY <2>2 DEF OneExamAtATime, Lifecycle!OneExamAtATime
    <3>2. s \in Lifecycle!Active => s \notin EndStates
      BY DEF Lifecycle!Active, EndStates
    <3>3. s \notin EndStates => s # "archived"
      BY DEF EndStates
    <3>4. OneExamAtATime'
      BY <1>3, <2>1, <2>2, <3>1, <3>2
         DEF OneExamAtATime, Lifecycle!OneExamAtATime, Lifecycle!Active
    <3>5. CurrentNotArchived'
      BY <1>3, <2>1, <2>2, <3>3 DEF CurrentNotArchived, TypeOK
    <3> QED  BY <3>4, <3>5
  <2>4. TablesAgree'
    <3>1. Saved' = Saved /\ SavedExams' = SavedExams /\ now' = now
      BY DEF SetCurrentExamPackageState, Saved, SavedExams, examVars,
             scheduleVars
    <3>2. \A q \in Packages :
            /\ state'[q] # NoState => q \in Saved' /\ changedAt'[q] <= now'
            /\ state'[q] = NoState <=> changedAt'[q] = NoTime
      <4>1. p \in Saved /\ now <= now /\ now # NoTime
        BY <1>3, MaxTimeAssumption DEF TablesAgree, TypeOK
      <4> QED  BY <2>1, <3>1, <4>1 DEF TablesAgree
    <3>3. locked' \cup current' \subseteq Saved'
      BY <1>3, <3>1 DEF TablesAgree, SetCurrentExamPackageState, scheduleVars
    <3> QED  BY <3>1, <3>2, <3>3
             DEF TablesAgree, SetCurrentExamPackageState, examVars
  <2>5. LivesDoNotOverlap'
    <3> SUFFICES ASSUME NEW a \in Packages, NEW q \in Packages,
                        state'[a] = "archived",
                        state'[q] \in Lifecycle!Active
                 PROVE  changedAt'[a] <= changedAt'[q]
      BY DEF LivesDoNotOverlap
    <3>1. CASE a = p
      <4>1. q # p /\ state[q] \in Lifecycle!Active
        BY <2>1, <3>1 DEF Lifecycle!Active
      <4>2. q \in current
        BY <4>1 DEF OneExamAtATime, Lifecycle!OneExamAtATime
      <4> QED  BY <2>2, <4>1, <4>2
    <3>2. CASE a # p /\ q = p
      <4>1. changedAt[a] <= now
        BY <2>1, <3>2 DEF TablesAgree
      <4> QED  BY <2>1, <3>2, <4>1
    <3>3. CASE a # p /\ q # p
      BY <2>1, <3>3 DEF LivesDoNotOverlap
    <3> QED  BY <3>1, <3>2, <3>3
  <2> QED  BY <1>1, <2>3, <2>4, <2>5
<1> QED  BY <1>2, <1>3 DEF SetCurrentExamPackageState

\* A tick moves the clock and nothing else.
LEMMA TickInv ==
  ASSUME Inv, Tick
  PROVE  Inv'
<1> USE DEF Inv
<1>1. now' \in Time /\ now <= now'
  BY MaxTimeAssumption DEF Tick, TypeOK
<1>2. TypeOK'
  BY <1>1 DEF Tick, TypeOK, examVars, scheduleVars, lifeVars
<1>3. TablesAgree'
  <2>1. current' \subseteq Saved
    BY DEF Tick, lifeVars, TablesAgree
  <2> QED  BY <1>1, <2>1, TablesUnchanged DEF Tick, lifeVars
<1> QED  BY <1>2, <1>3, LifeUnchanged DEF Tick

\* A step that changes nothing keeps the invariant.
LEMMA StutterInv ==
  ASSUME Inv, UNCHANGED vars
  PROVE  Inv'
BY DEF Inv, vars, examVars, scheduleVars, lifeVars, TypeOK, OneExamAtATime,
       Lifecycle!OneExamAtATime, CurrentNotArchived, TablesAgree, Saved,
       SavedExams, LivesDoNotOverlap

\* Every handler keeps the invariant.
LEMMA NextInv ==
  ASSUME Inv, [Next]_vars
  PROVE  Inv'
<1>1. ASSUME NEW info \in ExamInfos, SaveExamInfo(info) PROVE Inv'
  BY <1>1, CommitInv, RefuseInv DEF SaveExamInfo
<1>2. CASE GetCurrentExamPackage
  BY <1>2, GetCurrentInv
<1>3. ASSUME NEW p \in Packages, NEW s \in PackageStates \ {NoState},
             SetCurrentExamPackageState(p, s)
      PROVE  Inv'
  BY <1>3, SetStateInv
<1>4. CASE Tick
  BY <1>4, TickInv
<1>5. CASE UNCHANGED vars
  BY <1>5, StutterInv
<1> QED  BY <1>1, <1>2, <1>3, <1>4, <1>5 DEF Next

------------------------------------------------------------------------------
(***************************************************************************)
(* Theorems.                                                               *)
(***************************************************************************)

\* The handlers of the exam routes, in any order and with any exam
\* informations, keep the tables within the inductive invariant.
THEOREM Invariance == Spec => []Inv
BY InitInv, NextInv, PTL DEF Spec

\* Every column of every table keeps its type.
THEOREM TypeCorrect == Spec => []TypeOK
<1>1. Inv => TypeOK
  BY DEF Inv
<1> QED  BY <1>1, Invariance, PTL

\* However requests interleave, at most one package occupies the exam
\* server and it is the one _get_current_exam_package returns.
THEOREM OneExam == Spec => []OneExamAtATime
<1>1. Inv => OneExamAtATime
  BY DEF Inv
<1> QED  BY <1>1, Invariance, PTL

\* No import leaves a reference to a row that does not exist, and state and
\* state_changed_at are always set together.
THEOREM ReferencesHold == Spec => []TablesAgree
<1>1. Inv => TablesAgree
  BY DEF Inv
<1> QED  BY <1>1, Invariance, PTL

\* What is recorded of a package in progress is later than what is recorded
\* of any archived one.
THEOREM LivesApart == Spec => []LivesDoNotOverlap
<1>1. Inv => LivesDoNotOverlap
  BY DEF Inv
<1> QED  BY <1>1, Invariance, PTL

\* Every step of the API is a step of the abstract life cycle or leaves it
\* alone: imports, failed requests and repeated ones never move a package.
THEOREM ImplementsLifecycle == Spec => LifecycleSpec
<1> USE DEF Lifecycle!Elect, Lifecycle!Advance, Lifecycle!NextState
<1>1. Init => Lifecycle!Init
  BY DEF Init, Lifecycle!Init
<1>2. Inv /\ [Next]_vars => [Lifecycle!Next]_(Lifecycle!vars)
  <2> SUFFICES ASSUME Inv, [Next]_vars
               PROVE  Lifecycle!Next \/ UNCHANGED <<state, current>>
    BY DEF Lifecycle!vars
  <2>1. ASSUME NEW info \in ExamInfos, SaveExamInfo(info)
        PROVE  UNCHANGED <<state, current>>
    BY <2>1 DEF SaveExamInfo, CommitExamInfo, RefuseExamInfo, lifeVars
  <2>2. CASE GetCurrentExamPackage
    <3>1. \A p \in Candidates : p \in Packages /\ state[p] = NoState
      BY DEF Candidates, Saved
    <3> QED  BY <2>2, <3>1 DEF GetCurrentExamPackage, Lifecycle!Next
  <2>3. ASSUME NEW p \in Packages, NEW s \in PackageStates \ {NoState},
               SetCurrentExamPackageState(p, s)
        PROVE  Lifecycle!Next \/ UNCHANGED <<state, current>>
    <3>1. CASE UNCHANGED lifeVars
      BY <3>1 DEF lifeVars
    <3>2. CASE /\ p \in current
               /\ <<state[p], s>> \in ValidTransitions
               /\ state' = [state EXCEPT ![p] = s]
               /\ current' = IF s \in EndStates THEN current \ {p}
                                                ELSE current
      <4>1. state[p] \in PackageStates \ {"archived"}
        BY <3>2 DEF ValidTransitions
      <4>2. s = Lifecycle!NextState[state[p]]
        BY <3>2, <4>1 DEF ValidTransitions
      <4>3. s = "archived" <=> s \in EndStates
        BY DEF EndStates
      <4>4. state'[p] = s
        BY <3>2 DEF Inv, TypeOK
      <4>5. Lifecycle!Advance(p)
        BY <3>2, <4>1, <4>2, <4>3, <4>4
      <4> QED  BY <4>5 DEF Lifecycle!Next
    <3> QED  BY <2>3, <3>1, <3>2 DEF SetCurrentExamPackageState
  <2>4. CASE Tick
    BY <2>4 DEF Tick, lifeVars
  <2>5. CASE UNCHANGED vars
    BY <2>5 DEF vars, lifeVars
  <2> QED  BY <2>1, <2>2, <2>3, <2>4, <2>5 DEF Next
<1> QED  BY <1>1, <1>2, Invariance, PTL DEF Spec, LifecycleSpec, Lifecycle!Spec

\* After a save, an exam that one package of the list lists is that
\* package's, or nobody's: never the one of another package of the list.
LEMMA OwnerAfterFirst ==
  ASSUME NEW info \in ExamInfos, ListsOnce(info), NEW own, NEW new,
         NEW k \in DOMAIN info.packages, NEW e \in info.packages[k].exams
  PROVE  OwnerAfter(own, new, info, e) \in {info.packages[k].id, NoPackage}
<1>1. \A j \in DOMAIN info.packages : Keeps(own, new, info, j, e) => j = k
  BY DEF Keeps, ListsExam, ListsOnce
<1>2. CASE \E j \in DOMAIN info.packages : Keeps(own, new, info, j, e)
  BY <1>1, <1>2 DEF OwnerAfter
<1>3. CASE ~\E j \in DOMAIN info.packages : Keeps(own, new, info, j, e)
  <2>1. ~Keeps(own, new, info, k, e)
    BY <1>3
  <2>2. PICK j \in DOMAIN info.packages :
          j > k /\ (ListsExam(info, j, e) \/ Releases(own, new, info, j, e))
    BY <2>1 DEF Keeps, ListsExam
  <2>3. j # k
    BY <2>2, InfoType
  <2>4. ~ListsExam(info, j, e)
    BY <2>3 DEF ListsExam, ListsOnce
  <2>5. \E i \in DOMAIN info.packages : Releases(own, new, info, i, e)
    BY <2>2, <2>4
  <2> QED  BY <1>3, <2>5 DEF OwnerAfter
<1> QED  BY <1>2, <1>3

\* Saving the packages of an exam information a second time puts each exam
\* where it is listed, whatever the tables held before the first time: a
\* connection lost by one import lasts until the next one only.
THEOREM SecondSave == Spec => []SecondSaveConverges
<1>1. SecondSaveConverges
  <2> SUFFICES
        ASSUME NEW info \in ExamInfos, ListsOnce(info),
               NEW k \in DOMAIN info.packages, NEW e \in info.packages[k].exams
        PROVE  LET first == [x \in Exams |->
                                OwnerAfter(owner, Packages \ Saved, info, x)]
                   new == (Packages \ Saved) \ Listed(info)
               IN OwnerAfter(first, new, info, e) = info.packages[k].id
    BY DEF SecondSaveConverges
  <2> DEFINE first == [x \in Exams |->
                         OwnerAfter(owner, Packages \ Saved, info, x)]
             new == (Packages \ Saved) \ Listed(info)
  <2>1. e \in Exams
    BY InfoType
  <2>2. first[e] \in {info.packages[k].id, NoPackage}
    <3>1. OwnerAfter(owner, Packages \ Saved, info, e)
            \in {info.packages[k].id, NoPackage}
      BY OwnerAfterFirst
    <3> QED  BY <2>1, <3>1
  <2> HIDE DEF first, new
  <2>3. Keeps(first, new, info, k, e)
    <3> SUFFICES ASSUME NEW j \in DOMAIN info.packages, j > k
                 PROVE  ~ListsExam(info, j, e) /\ ~Releases(first, new, info, j, e)
      BY DEF Keeps, ListsExam
    <3>1. j # k
      BY InfoType
    <3>2. ~ListsExam(info, j, e)
      BY <3>1 DEF ListsExam, ListsOnce
    <3>3. info.packages[j].id # info.packages[k].id
      BY <3>1, ExamInfosAssumption
    <3>4. info.packages[j].id # NoPackage
      BY InfoType, PackagesAssumption
    <3>5. ~Releases(first, new, info, j, e)
      BY <2>2, <3>3, <3>4 DEF Releases
    <3> QED  BY <3>2, <3>5
  <2>4. \A j \in DOMAIN info.packages : Keeps(first, new, info, j, e) => j = k
    BY DEF Keeps, ListsExam, ListsOnce
  <2>5. OwnerAfter(first, new, info, e) = info.packages[k].id
    BY <2>3, <2>4 DEF OwnerAfter
  <2> QED  BY <2>5 DEF first, new
<1> QED  BY <1>1, PTL

------------------------------------------------------------------------------
(***************************************************************************)
(* How far the three things go that comments and tests take for granted    *)
(* and the code does not ensure: what must happen for each to fail.        *)
(***************************************************************************)

\* Nothing but an import that says so takes the lock of a current package.
OnlyImportsUnlock ==
  [][current \subseteq locked =>
       \/ current' \subseteq locked'
       \/ \E info \in ExamInfos :
            /\ CommitExamInfo(info)
            /\ \E k \in DOMAIN info.packages :
                 info.packages[k].id \in current /\ ~info.packages[k].locked]_vars

\* An exam gets into the package that lists it the first time, unless the
\* package it had before comes later in the list.
OnlyOldOwnersTakeBack ==
  [][\A info \in ExamInfos : CommitExamInfo(info) /\ ListsOnce(info) =>
       \A k \in DOMAIN info.packages : \A e \in info.packages[k].exams :
         \/ owner'[e] = info.packages[k].id
         \/ \E j \in DOMAIN info.packages :
              j > k /\ owner[e] = info.packages[j].id]_vars

\* A complete exam information that cannot be saved has a new exam in a known
\* package, with none but known packages before it.
OnlyMixedImportsFail ==
  \A info \in ExamInfos : Consistent(info) /\ ~Importable(info) =>
    \E k \in DOMAIN info.packages :
      /\ \E e \in info.packages[k].exams : e \notin SavedExams
      /\ \A j \in 1..k : info.packages[j].id \in Saved

\* The current package loses its lock in no other way than that which the run
\* exam_store_unlocked shows: an election takes a locked package, and no
\* request but save_exam_info touches the column.
THEOREM UnlockedByImports == Spec => OnlyImportsUnlock
<1> DEFINE Unlocks(info) ==
             /\ CommitExamInfo(info)
             /\ \E k \in DOMAIN info.packages :
                  info.packages[k].id \in current /\ ~info.packages[k].locked
           Step == current \subseteq locked =>
                     \/ current' \subseteq locked'
                     \/ \E info \in ExamInfos : Unlocks(info)
<1>1. ASSUME Inv, Next PROVE Step
  <2> SUFFICES ASSUME current \subseteq locked
               PROVE  \/ current' \subseteq locked'
                      \/ \E info \in ExamInfos : Unlocks(info)
    OBVIOUS
  <2>1. ASSUME NEW info \in ExamInfos, CommitExamInfo(info),
               ~(current' \subseteq locked')
        PROVE  Unlocks(info)
    <3>1. PICK p \in current : p \notin locked'
      BY <2>1 DEF CommitExamInfo, lifeVars
    <3>2. p \in Packages /\ p \in locked
      BY <1>1 DEF Inv, TypeOK
    <3>3. p \in Listed(info) /\ ~Announced(info, p).locked
      BY <2>1, <3>1, <3>2 DEF CommitExamInfo
    <3>4. /\ PositionOf(info, p) \in DOMAIN info.packages
          /\ info.packages[PositionOf(info, p)].id = p
      BY <3>3, AnnouncedType DEF Announced
    <3>5. ~info.packages[PositionOf(info, p)].locked
      BY <3>3 DEF Announced
    <3> QED  BY <2>1, <3>4, <3>5
  <2>2. CASE \E info \in ExamInfos : RefuseExamInfo(info)
    BY <2>2 DEF RefuseExamInfo, lifeVars, scheduleVars
  <2>3. CASE GetCurrentExamPackage
    BY <2>3 DEF GetCurrentExamPackage, scheduleVars, Candidates
  <2>4. ASSUME NEW p \in Packages, NEW s \in PackageStates \ {NoState},
               SetCurrentExamPackageState(p, s)
        PROVE  current' \subseteq locked'
    BY <2>4 DEF SetCurrentExamPackageState, scheduleVars, lifeVars
  <2>5. CASE Tick
    BY <2>5 DEF Tick, lifeVars, scheduleVars
  <2> HIDE DEF Unlocks
  <2> QED  BY <1>1, <2>1, <2>2, <2>3, <2>4, <2>5 DEF Next, SaveExamInfo
<1>2. Inv /\ [Next]_vars => [Step]_vars
  BY <1>1
<1>3. Spec => [][Step]_vars
  BY <1>2, Invariance, PTL DEF Spec
<1> QED  BY <1>3 DEF OnlyImportsUnlock

\* Where the run exam_store_moved_exam goes wrong, the old package comes
\* later in the list; there is no other way.
THEOREM TakenBackByOldOwners == Spec => OnlyOldOwnersTakeBack
<1> DEFINE Step ==
      \A info \in ExamInfos : CommitExamInfo(info) /\ ListsOnce(info) =>
        \A k \in DOMAIN info.packages : \A e \in info.packages[k].exams :
          \/ owner'[e] = info.packages[k].id
          \/ \E j \in DOMAIN info.packages :
               j > k /\ owner[e] = info.packages[j].id
<1>1. Step
  <2> SUFFICES
        ASSUME NEW info \in ExamInfos, CommitExamInfo(info), ListsOnce(info),
               NEW k \in DOMAIN info.packages, NEW e \in info.packages[k].exams,
               ~\E j \in DOMAIN info.packages :
                  j > k /\ owner[e] = info.packages[j].id
        PROVE  owner'[e] = info.packages[k].id
    OBVIOUS
  <2> DEFINE new == Packages \ Saved
  <2>1. e \in Exams
    BY InfoType
  <2>2. owner'[e] = OwnerAfter(owner, new, info, e)
    BY <2>1 DEF CommitExamInfo
  <2> HIDE DEF new
  <2>3. Keeps(owner, new, info, k, e)
    <3> SUFFICES ASSUME NEW j \in DOMAIN info.packages, j > k
                 PROVE  ~ListsExam(info, j, e) /\ ~Releases(owner, new, info, j, e)
      BY DEF Keeps, ListsExam
    <3>1. j # k
      BY InfoType
    <3>2. ~ListsExam(info, j, e)
      BY <3>1 DEF ListsExam, ListsOnce
    <3>3. ~Releases(owner, new, info, j, e)
      BY DEF Releases
    <3> QED  BY <3>2, <3>3
  <2>4. \A j \in DOMAIN info.packages : Keeps(owner, new, info, j, e) => j = k
    BY DEF Keeps, ListsExam, ListsOnce
  <2>5. OwnerAfter(owner, new, info, e) = info.packages[k].id
    BY <2>3, <2>4 DEF OwnerAfter
  <2> QED  BY <2>2, <2>5
<1>2. [][Step]_vars
  BY <1>1, PTL
<1> QED  BY <1>2 DEF OnlyOldOwnersTakeBack

\* Where the run exam_store_new_exam ends in an internal error, a new exam
\* comes with a known package: as long as Exam-O-Matic adds exams only
\* together with packages that come first, everything can be saved.
THEOREM FailuresAreMixed == Spec => []OnlyMixedImportsFail
<1>1. OnlyMixedImportsFail
  <2> SUFFICES ASSUME NEW info \in ExamInfos, Consistent(info), ~Importable(info)
               PROVE  \E k \in DOMAIN info.packages :
                        /\ \E e \in info.packages[k].exams : e \notin SavedExams
                        /\ \A j \in 1..k : info.packages[j].id \in Saved
    BY DEF OnlyMixedImportsFail
  <2>1. PICK k \in DOMAIN info.packages :
          \E e \in info.packages[k].exams : ~Visible(info, k, e)
    BY DEF Importable
  <2>2. PICK e \in info.packages[k].exams : ~Visible(info, k, e)
    BY <2>1
  <2>3. PICK i \in DOMAIN info.exams : info.exams[i].id = e
    BY DEF Consistent
  <2>4. e \notin SavedExams
    BY <2>2 DEF Visible
  <2>5. ASSUME NEW j \in 1..k
        PROVE  info.packages[j].id \in Saved
    <3>1. info.packages[j].id \notin Packages \ Saved
      BY <2>2, <2>3 DEF Visible, FlushesPackage
    <3>2. j \in DOMAIN info.packages
      BY InfoType
    <3>3. info.packages[j].id \in Packages
      BY <3>2, InfoType
    <3> QED  BY <3>1, <3>3
  <2> QED  BY <2>2, <2>4, <2>5
<1> QED  BY <1>1, PTL
==============================================================================
