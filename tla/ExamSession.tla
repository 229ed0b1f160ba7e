----------------------------- MODULE ExamSession -----------------------------
(***************************************************************************)
(* How _save_exam_info of ktp_controller/api/exam/routes.py comes to the   *)
(* result that ExamStore states in one step: the request's SQLAlchemy      *)
(* session with its objects in memory, the flushes that write them into    *)
(* the open transaction, queries that read the transaction only            *)
(* (autoflush=False), and the commit, the exception or the death of the    *)
(* API process that ends it.  The tables of ExamStore are what is          *)
(* committed; SessionSpec implements its Spec.                             *)
(***************************************************************************)
EXTENDS ExamStore

VARIABLE session    \* the request being handled, or NoSession

sessionVars == <<vars, session>>

\* The columns a save touches: as committed, flushed or held in memory.
Committed == [fileVersion |-> fileVersion, fileOf |-> fileOf, owner |-> owner,
              dbid |-> dbid, start |-> start, end |-> end, locked |-> locked]

NoSession == [info |-> <<>>]
Busy == session # NoSession

SessionInit == Init /\ session = NoSession

\* The request passed the schema and its id is new: the handler starts.
Begin(info) ==
  /\ ~Busy
  /\ WellFormed(info)
  /\ info.request \notin requests
  /\ session' = [info |-> info, exams |-> 0, packages |-> 0,
                 memory |-> Committed, transaction |-> Committed]
  /\ UNCHANGED vars

\* db.flush(), with what the caller has just put into memory
Flushed(s, flush) == IF flush THEN [s EXCEPT !.transaction = s.memory] ELSE s

\* One round of the first loop: _save_scheduled_exam for the next exam.
SaveScheduledExam ==
  /\ Busy
  /\ session.exams < Len(session.info.exams)
  /\ LET i == session.exams + 1
         exam == session.info.exams[i]
         newFile == session.transaction.fileVersion[exam.file] = NoVersion
         filed == Flushed([session EXCEPT
                     !.memory.fileVersion[exam.file] = exam.version], newFile)
     IN session' = [filed EXCEPT !.exams = i,
                                 !.memory.fileOf[exam.id] = exam.file]
  /\ UNCHANGED vars

RowsOf(view) == {p \in Packages : view.dbid[p] # 0}

\* The announced package written over its row, new or not.
PackageSaved(view, package) ==
  [view EXCEPT
     !.dbid[package.id] = IF @ = 0 THEN Cardinality(RowsOf(view)) + 1 ELSE @,
     !.start[package.id] = package.start,
     !.end[package.id] = package.end,
     !.locked = (@ \ {package.id})
                  \cup (IF package.locked THEN {package.id} ELSE {})]

\* Variation: a package is flushed whenever it is saved.
FlushesWhenSaved(s, package) == TRUE

\* A new package is flushed before its exams are looked up.
FlushesWhenNew(s, package) == s.transaction.dbid[package.id] = 0

\* The exams the relation scheduled_exams loads are released in memory.
ExamsReleased(s, package) ==
  [s EXCEPT !.memory.owner = [e \in Exams |->
     IF /\ s.transaction.owner[e] = package.id
        /\ ~FlushesWhenNew(s, package)
     THEN NoPackage ELSE @[e]]]

ExamsTaken(s, package) ==
  [s EXCEPT !.memory.owner = [e \in Exams |->
     IF e \in package.exams THEN package.id ELSE @[e]]]

\* One round of the second loop: _save_scheduled_exam_package.
SaveScheduledExamPackage ==
  /\ Busy
  /\ session.exams = Len(session.info.exams)
  /\ session.packages < Len(session.info.packages)
  /\ LET k == session.packages + 1
         package == session.info.packages[k]
         released == ExamsReleased(session, package)
         saved == Flushed([released EXCEPT
                             !.memory = PackageSaved(@, package)],
                          FlushesWhenNew(session, package))
     IN /\ \A e \in package.exams : saved.transaction.fileOf[e] # NoFile
        /\ session' = [ExamsTaken(saved, package) EXCEPT !.packages = k]
  /\ UNCHANGED vars

\* .one() raises NoResultFound for an exam the query does not see.
NoResultFound ==
  /\ Busy
  /\ session.exams = Len(session.info.exams)
  /\ session.packages < Len(session.info.packages)
  /\ LET package == session.info.packages[session.packages + 1]
         seen == IF FlushesWhenNew(session, package) THEN session.memory
                                                     ELSE session.transaction
     IN \E e \in package.exams : seen.fileOf[e] = NoFile
  /\ session' = NoSession
  /\ response' = "failed"
  /\ UNCHANGED <<examVars, scheduleVars, lifeVars, now>>

\* db.commit()
Commit ==
  /\ Busy
  /\ session.exams = Len(session.info.exams)
  /\ session.packages = Len(session.info.packages)
  /\ requests' = requests \cup {session.info.request}
  /\ fileVersion' = session.memory.fileVersion
  /\ fileOf' = session.memory.fileOf
  /\ owner' = session.memory.owner
  /\ dbid' = session.memory.dbid
  /\ start' = session.memory.start
  /\ end' = session.memory.end
  /\ locked' = session.memory.locked
  /\ response' = "ok"
  /\ session' = NoSession
  /\ UNCHANGED <<lifeVars, now>>

\* The API process dies: the client sees a broken connection, and SQLite
\* rolls the transaction back.
Killed == /\ Busy
          /\ session' = NoSession
          /\ UNCHANGED vars

\* Handlers do not suspend, so nothing is served in between.
Other ==
  /\ ~Busy
  /\ \/ \E info \in ExamInfos :
          /\ ~WellFormed(info) \/ info.request \in requests
          /\ RefuseExamInfo(info)
     \/ GetCurrentExamPackage
     \/ \E p \in Packages, s \in PackageStates \ {NoState} :
          SetCurrentExamPackageState(p, s)
  /\ UNCHANGED session

SessionNext ==
  \/ \E info \in ExamInfos : Begin(info)
  \/ SaveScheduledExam
  \/ SaveScheduledExamPackage
  \/ NoResultFound
  \/ Commit
  \/ Killed
  \/ Other
  \/ Tick /\ UNCHANGED session

SessionSpec == SessionInit /\ [][SessionNext]_sessionVars

(***************************************************************************)
(* The loop, its flushes and its exceptions amount to one atomic save: the *)
(* exam information is imported as ExamStore says or not at all.           *)
(***************************************************************************)
StoreSpec == Spec
==============================================================================
