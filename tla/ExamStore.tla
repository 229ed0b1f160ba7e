------------------------------ MODULE ExamStore ------------------------------
(***************************************************************************)
(* The exam part of the KTP Controller API: the SQLite tables of           *)
(* ktp_controller/api/models.py and the handlers of                        *)
(* ktp_controller/api/exam/routes.py.  A column of a table is a function   *)
(* from external ids, a flag is the set of rows that carry it, and every   *)
(* handler is one action: the handlers never suspend, each uses one        *)
(* session and commits at most once, so requests of different clients are  *)
(* serialised by the API's event loop.                                     *)
(***************************************************************************)
EXTENDS Naturals, Sequences, FiniteSets

CONSTANTS
  Packages,    \* external ids of scheduled exam packages
  Exams,       \* external ids of scheduled exams
  Files,       \* external ids of exam files
  Versions,    \* contents of an exam file (size, sha256, decrypt code)
  Requests,    \* ids under which Exam-O-Matic hands out exam information
  ExamInfos,   \* the exam informations Exam-O-Matic may hand out
  NoPackage, NoFile, NoVersion,    \* NULL in a column of these types
  MaxTime      \* bound of the clock

Time == 0..MaxTime
NoTime == MaxTime + 1              \* NULL in a column of times

\* schemas.ScheduledExam, schemas.ScheduledExamPackage, schemas.ExamInfo
ExamRecord == [id : Exams, file : Files, version : Versions]
PackageRecord == [id : Packages, start : Time, end : Time,
                  locked : BOOLEAN, exams : SUBSET Exams]
ExamInfoRecord == [request : Requests,
                   exams : Seq(ExamRecord), packages : Seq(PackageRecord)]

\* Exam-O-Matic lists a scheduled exam once, and the packages of an exam
\* information are the keys of a JSON object.
ASSUME ExamInfosAssumption ==
  /\ ExamInfos \subseteq ExamInfoRecord
  /\ \A info \in ExamInfos :
       /\ \A i, j \in DOMAIN info.exams :
            info.exams[i].id = info.exams[j].id => i = j
       /\ \A i, j \in DOMAIN info.packages :
            info.packages[i].id = info.packages[j].id => i = j

ASSUME PackagesAssumption == IsFiniteSet(Packages) /\ NoPackage \notin Packages
ASSUME FilesAssumption == NoFile \notin Files /\ NoVersion \notin Versions
ASSUME MaxTimeAssumption == MaxTime \in Nat

VARIABLES
  requests,    \* exam_info: the request ids already saved
  fileVersion, \* exam_file_info: the contents announced, or NoVersion
  fileOf,      \* scheduled_exam: the file of the exam, or NoFile: no row
  owner,       \* scheduled_exam: the package of the exam, or NoPackage
  dbid,        \* scheduled_exam_package: the key of the row, 0: no row
  start, end,  \* scheduled_exam_package: the times of the package
  locked,      \* scheduled_exam_package: the packages flagged as locked
  current,     \* scheduled_exam_package: the packages flagged as current
  state,       \* scheduled_exam_package: the phase of the package
  changedAt,   \* scheduled_exam_package: state_changed_at
  now,         \* ktp_controller.utils.utcnow()
  response     \* how the API answered the last request

examVars == <<requests, fileVersion, fileOf, owner>>
scheduleVars == <<dbid, start, end, locked>>
lifeVars == <<current, state, changedAt>>
vars == <<examVars, scheduleVars, lifeVars, now, response>>

Responses == {"none", "ok", "invalid", "conflict", "failed"}

Lifecycle == INSTANCE ExamLifecycle

NoState == Lifecycle!NoState
PackageStates == Lifecycle!PackageStates

TypeOK ==
  /\ requests \subseteq Requests
  /\ fileVersion \in [Files -> Versions \cup {NoVersion}]
  /\ fileOf \in [Exams -> Files \cup {NoFile}]
  /\ owner \in [Exams -> Packages \cup {NoPackage}]
  /\ dbid \in [Packages -> Nat]
  /\ start \in [Packages -> Time]
  /\ end \in [Packages -> Time]
  /\ locked \subseteq Packages
  /\ current \subseteq Packages
  /\ state \in [Packages -> PackageStates]
  /\ changedAt \in [Packages -> Time \cup {NoTime}]
  /\ now \in Time
  /\ response \in Responses

\* An empty database, as the migrations of alembic/versions leave it.
Init ==
  /\ requests = {}
  /\ fileVersion = [f \in Files |-> NoVersion]
  /\ fileOf = [e \in Exams |-> NoFile]
  /\ owner = [e \in Exams |-> NoPackage]
  /\ dbid = [p \in Packages |-> 0]
  /\ start = [p \in Packages |-> 0]
  /\ end = [p \in Packages |-> 0]
  /\ locked = {}
  /\ current = {}
  /\ state = [p \in Packages |-> NoState]
  /\ changedAt = [p \in Packages |-> NoTime]
  /\ now = 0
  /\ response = "none"

Saved == {p \in Packages : dbid[p] # 0}
SavedExams == {e \in Exams : fileOf[e] # NoFile}

------------------------------------------------------------------------------
(***************************************************************************)
(* Saving exam information.  The session of a request does not flush on    *)
(* its own (autoflush=False): a query sees the rows of the database and    *)
(* the rows flushed so far, and _save_scheduled_exam leaves a new exam     *)
(* unflushed.  What is flushed is a matter of the order of the list.       *)
(***************************************************************************)

\* schemas.ScheduledExamPackage.check_times
WellFormed(info) ==
  \A k \in DOMAIN info.packages :
    info.packages[k].start < info.packages[k].end

\* _save_exam_file_info adds and flushes a row for the i-th exam's file.
FlushesFile(info, i) ==
  /\ fileVersion[info.exams[i].file] = NoVersion
  /\ \A j \in 1..(i - 1) : info.exams[j].file # info.exams[i].file

\* _save_scheduled_exam_package adds and flushes a row for the k-th package.
FlushesPackage(new, info, k) == info.packages[k].id \in new

ListsExam(info, k, e) == e \in info.packages[k].exams

\* Variation: an exam the query does not find is not missed.
VisibleOrNot(info, k, e) == TRUE

\* The query for exam e finds a row while the k-th package is saved.
Visible(info, k, e) ==
  \/ e \in SavedExams
  \/ \E i \in DOMAIN info.exams :
       /\ info.exams[i].id = e
       /\ \/ \E j \in DOMAIN info.exams : j > i /\ FlushesFile(info, j)
          \/ \E j \in 1..k : FlushesPackage(Packages \ Saved, info, j)

\* No .one() of _save_scheduled_exam_package raises NoResultFound.
Importable(info) ==
  \A k \in DOMAIN info.packages :
    \A e \in info.packages[k].exams : Visible(info, k, e)

(***************************************************************************)
(* Which package an exam belongs to after the loop over the packages, when *)
(* it belonged to own[e] and the packages in new had no row before.  An    *)
(* existing package first releases the exams the database shows as its     *)
(* own; an exam an earlier package of the list took over is shown with its *)
(* new owner only if that was flushed in between.  The exam stays with the *)
(* last package that lists it, unless its old package comes even later.    *)
(***************************************************************************)
\* Variation: an existing package releases whatever exam there is.
ReleasesAnything(own, new, info, k, e) == info.packages[k].id \notin new

Releases(own, new, info, k, e) ==
  /\ info.packages[k].id \notin new
  /\ own[e] = info.packages[k].id
  /\ \A i, j \in 1..(k - 1) :
       ListsExam(info, i, e) /\ i < j => ~FlushesPackage(new, info, j)

Keeps(own, new, info, k, e) ==
  /\ ListsExam(info, k, e)
  /\ \A j \in DOMAIN info.packages :
       j > k => ~ListsExam(info, j, e) /\ ~Releases(own, new, info, j, e)

OwnerAfter(own, new, info, e) ==
  IF \E k \in DOMAIN info.packages : Keeps(own, new, info, k, e)
  THEN info.packages[CHOOSE k \in DOMAIN info.packages :
                       Keeps(own, new, info, k, e)].id
  ELSE IF \E k \in DOMAIN info.packages : Releases(own, new, info, k, e)
       THEN NoPackage
       ELSE own[e]

Listed(info) == {info.packages[k].id : k \in DOMAIN info.packages}

PositionOf(info, p) ==
  CHOOSE k \in DOMAIN info.packages : info.packages[k].id = p

\* The package of the list with external id p.
Announced(info, p) == info.packages[PositionOf(info, p)]

\* AUTOINCREMENT: new rows are numbered in the order they are flushed.
DbidAfter(info, p) ==
  IF p \in Listed(info) \ Saved
  THEN Cardinality(Saved)
       + Cardinality({q \in Listed(info) \ Saved :
                        PositionOf(info, q) <= PositionOf(info, p)})
  ELSE dbid[p]

\* _save_exam_file_info and _save_scheduled_exam: the last mention wins.
FileVersionAfter(info, f) ==
  LET mentions == {i \in DOMAIN info.exams : info.exams[i].file = f}
  IN IF mentions = {} THEN fileVersion[f]
     ELSE info.exams[CHOOSE i \in mentions :
                       \A j \in mentions : j <= i].version

\* Variation: the exam's own id ends up in the column of its file.
FileOfAfterMixedUp(info, e) ==
  IF \E i \in DOMAIN info.exams : info.exams[i].id = e THEN e ELSE fileOf[e]

FileOfAfter(info, e) ==
  IF \E i \in DOMAIN info.exams : info.exams[i].id = e
  THEN info.exams[CHOOSE i \in DOMAIN info.exams : info.exams[i].id = e].file
  ELSE fileOf[e]

\* _save_exam_info, when it reaches db.commit().
CommitExamInfo(info) ==
  /\ WellFormed(info)
  /\ info.request \notin requests
  /\ Importable(info)
  /\ requests' = requests \cup {info.request}
  /\ fileVersion' = [f \in Files |-> FileVersionAfter(info, f)]
  /\ fileOf' = [e \in Exams |-> FileOfAfter(info, e)]
  /\ owner' = [e \in Exams |->
                 OwnerAfter(owner, Packages \ Saved, info, e)]
  /\ dbid' = [p \in Packages |-> DbidAfter(info, p)]
  /\ start' = [p \in Packages |->
       IF p \in Listed(info) THEN Announced(info, p).start ELSE start[p]]
  /\ end' = [p \in Packages |->
       IF p \in Listed(info) THEN Announced(info, p).end ELSE end[p]]
  /\ locked' = {p \in Packages :
       IF p \in Listed(info) THEN Announced(info, p).locked ELSE p \in locked}
  /\ response' = "ok"
  /\ UNCHANGED <<lifeVars, now>>

\* _save_exam_info answers with an error and the session is rolled back:
\* 422 before the handler runs, 409, or the 500 of an uncaught exception.
RefuseExamInfo(info) ==
  /\ response' = IF ~WellFormed(info) THEN "invalid"
                 ELSE IF info.request \in requests THEN "conflict"
                 ELSE "failed"
  /\ ~WellFormed(info) \/ info.request \in requests \/ ~Importable(info)
  /\ UNCHANGED <<examVars, scheduleVars, lifeVars, now>>

SaveExamInfo(info) == CommitExamInfo(info) \/ RefuseExamInfo(info)

------------------------------------------------------------------------------
(***************************************************************************)
(* The current package.                                                    *)
(***************************************************************************)

\* Variation: a package already worked on is no worse a candidate.
CandidatesInAnyState == {p \in Saved \cap locked : end[p] >= now}

\* The packages _get_current_exam_package may elect.
Candidates == {p \in Saved \cap locked : state[p] = NoState /\ end[p] >= now}

\* ORDER BY start_time, dbid
Before(p, q) ==
  start[p] < start[q] \/ (start[p] = start[q] /\ dbid[p] <= dbid[q])

\* Variation: the unique index is all that keeps a second one from election.
GetCurrentExamPackageUnchecked ==
  /\ \/ /\ Candidates = {}
        /\ UNCHANGED current
     \/ \E p \in Candidates :
          /\ \A q \in Candidates : Before(p, q)
          /\ current' = current \cup {p}
  /\ response' = "ok"
  /\ UNCHANGED <<examVars, scheduleVars, state, changedAt, now>>

\* _get_current_exam_package: a read that elects when there is nothing to
\* read.  The answer is current', null when it stays empty.
GetCurrentExamPackage ==
  /\ \/ /\ current # {} \/ Candidates = {}
        /\ UNCHANGED current
     \/ /\ current = {}
        /\ \E p \in Candidates :
             /\ \A q \in Candidates : Before(p, q)
             /\ current' = {p}
  /\ response' = "ok"
  /\ UNCHANGED <<examVars, scheduleVars, state, changedAt, now>>

\* _VALID_TRANSITIONS and _END_STATES
ValidTransitions == {<<NoState, "ready">>, <<"ready", "running">>,
  <<"running", "stopping">>, <<"stopping", "stopped">>,
  <<"stopped", "archived">>}

\* Variation: a stopped package makes room for the next one.
EndStatesTooSoon == {"stopped", "archived"}

EndStates == {"archived"}

\* _set_current_exam_package_state
SetCurrentExamPackageState(p, s) ==
  /\ IF p \in current /\ <<state[p], s>> \in ValidTransitions
     THEN /\ state' = [state EXCEPT ![p] = s]
          /\ changedAt' = [changedAt EXCEPT ![p] = now]
          /\ current' = IF s \in EndStates THEN current \ {p} ELSE current
     ELSE UNCHANGED lifeVars
  /\ response' = IF p \in current
                    /\ (s = state[p] \/ <<state[p], s>> \in ValidTransitions)
                 THEN "ok" ELSE "conflict"
  /\ UNCHANGED <<examVars, scheduleVars, now>>

Tick == /\ now < MaxTime
        /\ now' = now + 1
        /\ UNCHANGED <<examVars, scheduleVars, lifeVars, response>>

Next ==
  \/ \E info \in ExamInfos : SaveExamInfo(info)
  \/ GetCurrentExamPackage
  \/ \E p \in Packages, s \in PackageStates \ {NoState} :
       SetCurrentExamPackageState(p, s)
  \/ Tick

Spec == Init /\ [][Next]_vars
------------------------------------------------------------------------------
(***************************************************************************)
(* Safety.                                                                 *)
(***************************************************************************)

\* At most one package occupies the exam server, and it is the current one:
\* what the partial unique index of models.ScheduledExamPackage and the
\* handlers together ensure whatever Exam-O-Matic sends meanwhile.
OneExamAtATime == Lifecycle!OneExamAtATime

\* Every history of the tables is a history of the abstract life cycle: an
\* import, a failed request or a repeated one never moves a package.
LifecycleSpec == Lifecycle!Spec

\* Foreign keys and nullable columns agree: an exam's package and file have
\* rows, a package with a history has a row, and state and state_changed_at
\* are set together, never in the future.
TablesAgree ==
  /\ \A e \in Exams :
       /\ owner[e] # NoPackage => owner[e] \in Saved /\ e \in SavedExams
       /\ e \in SavedExams => fileVersion[fileOf[e]] # NoVersion
  /\ locked \cup current \subseteq Saved
  /\ \A p \in Packages :
       /\ state[p] # NoState => p \in Saved /\ changedAt[p] <= now
       /\ state[p] = NoState <=> changedAt[p] = NoTime

\* The lives of two packages do not overlap: all that is recorded of a
\* package in progress was recorded after every other one was archived.
LivesDoNotOverlap ==
  \A p, q \in Packages :
    state[p] = "archived" /\ state[q] \in Lifecycle!Active =>
      changedAt[p] <= changedAt[q]

\* Each exam is in at most one package of the exam information.
ListsOnce(info) ==
  \A i, j \in DOMAIN info.packages :
    \A e \in info.packages[i].exams : ListsExam(info, j, e) => i = j

\* Whatever the tables hold, saving the same packages twice in a row (under
\* two request ids) puts every listed exam into the package that lists it,
\* though saving them once may not.
SecondSaveConverges ==
  \A info \in ExamInfos : ListsOnce(info) =>
    LET first == [e \in Exams |->
                    OwnerAfter(owner, Packages \ Saved, info, e)]
        new == (Packages \ Saved) \ Listed(info)
    IN \A k \in DOMAIN info.packages : \A e \in info.packages[k].exams :
         OwnerAfter(first, new, info, e) = info.packages[k].id

------------------------------------------------------------------------------
(***************************************************************************)
(* What comments and tests of the repository say, and the code does not.   *)
(***************************************************************************)

Consistent(info) ==
  /\ WellFormed(info)
  /\ ListsOnce(info)
  /\ \A k \in DOMAIN info.packages : \A e \in info.packages[k].exams :
       \E i \in DOMAIN info.exams : info.exams[i].id = e

\* A complete exam information with a new request id can be saved.
NewExamInfoCanBeSaved ==
  \A info \in ExamInfos :
    Consistent(info) /\ info.request \notin requests => Importable(info)

\* Only the old connections of a package are removed, never one that the
\* same exam information has just made.
OnlyOldConnectionsAreRemoved ==
  [][\A info \in ExamInfos :
       CommitExamInfo(info) /\ Consistent(info) =>
         \A k \in DOMAIN info.packages : \A e \in info.packages[k].exams :
           owner'[e] # NoPackage]_vars

\* The current package is locked.
CurrentIsLocked == current \subseteq locked
==============================================================================
