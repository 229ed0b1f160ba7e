-------------------------- MODULE AgentAnswersProofs --------------------------
(***************************************************************************)
(* More theorems about Agent, checked by the TLA+ proof system: its type   *)
(* invariant, and what becomes of the students' sessions and answers under *)
(* auto control when stats messages are read at once.                      *)
(***************************************************************************)
EXTENDS AgentProofs

------------------------------------------------------------------------------
(***************************************************************************)
(* The type invariant.                                                     *)
(***************************************************************************)

\* No papers are papers, and no download is a download.
LEMMA NothingTyped ==
  /\ Server!NoPapers \in [Students -> 0..MaxEdits]
  /\ NoDownload \in [exam : Packages \cup {Dummy, NoExam},
                    papers : [Students -> 0..MaxEdits]]
<1>1. Server!NoPapers \in [Students -> 0..MaxEdits]
  BY BoundsAssumption DEF Server!NoPapers
<1>. QED
  BY <1>1 DEF NoDownload

\* What Abitti2 says of itself is a stats message.
LEMMA StatsTyped == Server!Stats \in Server!StatsType
BY DEF Server!Stats, Server!StatsType

\* Work that ends leaves nothing behind.
LEMMA LeaveTyped ==
  ASSUME Leave
  PROVE  /\ pc' \in Steps /\ target' \in Packages \cup {NoPackage}
         /\ toStop' \subseteq Students /\ isStopped' \in BOOLEAN
         /\ download' \in [exam : Packages \cup {Dummy, NoExam},
                           papers : [Students -> 0..MaxEdits]]
BY NothingTyped DEF Leave, Steps

\* Whatever a call does to Abitti2, it stays a server.
LEMMA ServerTyped ==
  ASSUME Server!ServerTypeOK,
         \/ \E x \in Packages \cup {Dummy} : Server!LoadExam(x)
         \/ Server!DecryptExams \/ Server!StartExams
         \/ Server!ChangeSecurityCode
         \/ \E s \in Students : Server!EndSession(s)
         \/ Server!Student \/ Server!AnnounceCode
         \/ UNCHANGED serverVars
  PROVE  Server!ServerTypeOK'
<1>. USE BoundsAssumption DEF Server!ServerTypeOK, Server!NoPapers
<1>1. CASE \E x \in Packages \cup {Dummy} : Server!LoadExam(x)
  BY <1>1 DEF Server!LoadExam
<1>2. CASE Server!DecryptExams \/ Server!StartExams
  BY <1>2 DEF Server!DecryptExams, Server!StartExams
<1>3. CASE Server!ChangeSecurityCode \/ Server!AnnounceCode
           \/ UNCHANGED serverVars
  BY <1>3 DEF Server!ChangeSecurityCode, Server!AnnounceCode, serverVars
<1>4. CASE \E s \in Students : Server!EndSession(s)
  BY <1>4 DEF Server!EndSession
<1>5. CASE Server!Student
  <2>1. ASSUME NEW s \in Students, Server!Join(s) \/ Server!Finish(s)
        PROVE  Server!ServerTypeOK'
    BY <2>1 DEF Server!Join, Server!Finish
  <2>2. ASSUME NEW s \in Students, Server!SaveAnswers(s)
        PROVE  Server!ServerTypeOK'
    <3>1. papers' \in [Students -> 0..MaxEdits]
      BY <2>2 DEF Server!SaveAnswers
    <3>2. written' \in [Packages -> [Students -> 0..MaxEdits]]
      BY <2>2, <3>1 DEF Server!SaveAnswers
    <3>. QED
      BY <2>2, <3>1, <3>2 DEF Server!SaveAnswers
  <2>. QED
    BY <1>5, <2>1, <2>2 DEF Server!Student
<1>. QED
  BY <1>1, <1>2, <1>3, <1>4, <1>5

WorkType ==
  /\ pc \in Steps /\ target \in Packages \cup {NoPackage}
  /\ toStop \subseteq Students /\ isStopped \in BOOLEAN
  /\ download \in [exam : Packages \cup {Dummy, NoExam},
                   papers : [Students -> 0..MaxEdits]]

RestType ==
  /\ window \in [Packages -> Windows]
  /\ locked \subseteq Packages /\ imports \in 0..MaxImports
  /\ report \in Server!StatsType \cup {NoReport} /\ fresh \in BOOLEAN
  /\ channel \in Seq(Server!StatsType) /\ Len(channel) <= MaxDelayed
  /\ examList \in {"none", "empty", "exams"}
  /\ auto \in BOOLEAN /\ savedAuto \in BOOLEAN
  /\ received \in [Packages -> [Students -> 0..MaxEdits]]
  /\ faults \in 0..MaxFaults

\* At first everything has its type.
LEMMA InitTyped == Init => TypeOK
<1>. SUFFICES ASSUME Init
              PROVE  TypeOK
  OBVIOUS
<1>1. Lifecycle!TypeOK
  BY DEF Init, Lifecycle!Init, Lifecycle!TypeOK, Lifecycle!NoState,
         Lifecycle!PackageStates
<1>2. Server!ServerTypeOK
  BY NothingTyped DEF Init, Server!ServerInit, Server!ServerTypeOK
<1>3. WorkType
  BY NothingTyped DEF Init, WorkType, Steps
<1>4. RestType
  <2>1. channel \in Seq(Server!StatsType) /\ Len(channel) <= MaxDelayed
    BY BoundsAssumption DEF Init
  <2>2. received \in [Packages -> [Students -> 0..MaxEdits]]
    BY NothingTyped DEF Init
  <2>3. imports \in 0..MaxImports /\ faults \in 0..MaxFaults
    BY BoundsAssumption DEF Init
  <2>4. /\ window \in [Packages -> Windows] /\ locked \subseteq Packages
        /\ report \in Server!StatsType \cup {NoReport} /\ fresh \in BOOLEAN
        /\ examList \in {"none", "empty", "exams"}
        /\ auto \in BOOLEAN /\ savedAuto \in BOOLEAN
    BY DEF Init, Windows
  <2>. QED
    BY <2>1, <2>2, <2>3, <2>4 DEF RestType
<1>. QED
  BY <1>1, <1>2, <1>3, <1>4 DEF TypeOK, WorkType, RestType

\* The calls to Abitti2 that are part of the work
LEMMA CallsTyped ==
  ASSUME WorkInv, TypeOK,
         \/ ChangeCode \/ UploadPackage \/ DecryptPackage \/ StartExam
         \/ StopSession \/ ResetUpload \/ ResetDecrypt \/ ResetStart
  PROVE  TypeOK'
<1>1. target \in Packages \/ pc \in Resetting
  BY DEF ChangeCode, UploadPackage, DecryptPackage, StartExam, StopSession,
         ResetUpload, ResetDecrypt, ResetStart, ServerCall, WorkInv, LifeType,
         IdleWork, Resetting
<1>2. Server!ServerTypeOK'
  <2>1. \/ \E x \in Packages \cup {Dummy} : Server!LoadExam(x)
        \/ Server!DecryptExams \/ Server!StartExams
        \/ Server!ChangeSecurityCode
        \/ \E s \in Students : Server!EndSession(s)
        \/ UNCHANGED serverVars
    BY <1>1
       DEF TypeOK, ChangeCode, UploadPackage, DecryptPackage, StartExam, StopSession,
           ResetUpload, ResetDecrypt, ResetStart, ServerCall, Call, WorkType,
           Resetting
  <2>. QED
    BY <2>1, ServerTyped DEF TypeOK
<1>3. WorkType'
  <2>1. \/ Leave
        \/ /\ UNCHANGED <<target, toStop, isStopped, download>>
           /\ pc' \in {"load", "report", "decrypt", "set", "resetDecrypt",
                       "resetStart"}
        \/ UNCHANGED <<pc, target, isStopped, download>> /\ toStop' \subseteq toStop
    BY DEF ChangeCode, UploadPackage, DecryptPackage, StartExam, StopSession,
           ResetUpload, ResetDecrypt, ResetStart, ServerCall, Call, Go
  <2>. QED
    BY <2>1, LeaveTyped DEF TypeOK, WorkType, Steps
<1>4. Lifecycle!TypeOK'
  BY DEF ChangeCode, UploadPackage, DecryptPackage, StartExam, StopSession,
         ResetUpload, ResetDecrypt, ResetStart, ServerCall, storeVars, TypeOK,
         Lifecycle!TypeOK
<1>5. RestType'
  BY BoundsAssumption
     DEF ChangeCode, UploadPackage, DecryptPackage, StartExam, StopSession,
         ResetUpload, ResetDecrypt, ResetStart, ServerCall, Call, Fault,
         scheduleVars, reportVars, memoryVars, TypeOK, RestType
<1>. QED
  BY <1>2, <1>3, <1>4, <1>5 DEF TypeOK, WorkType, RestType

\* Starting a piece of work
LEMMA WorkTyped ==
  ASSUME WorkInv, TypeOK, NEW trigger, Work(trigger)
  PROVE  TypeOK'
<1>1. /\ UNCHANGED <<scheduleVars, reportVars, serverVars, memoryVars, received,
                     faults>>
      /\ UNCHANGED <<toStop, isStopped, download>>
  BY DEF Work, Take, Go, workVars
<1>2. LifeType'
  BY WorkBegins DEF WorkInv
<1>. QED
  BY <1>1, <1>2
     DEF TypeOK, LifeType, Lifecycle!TypeOK, Server!ServerTypeOK, scheduleVars,
         reportVars, serverVars, memoryVars

\* The other steps of the work
LEMMA StepsTyped ==
  ASSUME WorkInv, TypeOK,
         \/ GetReport \/ SessionsStopped \/ DownloadAnswers \/ UploadAnswers
         \/ SetState
  PROVE  TypeOK'
<1>1. LifeType'
  BY StopKeeps, SetStateKeeps DEF WorkInv
<1>2. Server!ServerTypeOK'
  BY DEF GetReport, SessionsStopped, DownloadAnswers, UploadAnswers, SetState,
         TypeOK, Server!ServerTypeOK, serverVars
<1>3. WorkType'
  <2>1. \/ Leave
        \/ UNCHANGED <<toStop, isStopped, download>>
        \/ GetReport /\ report # NoReport /\ UNCHANGED download
           /\ toStop' = report.students /\ isStopped' = AllStopped
        \/ DownloadAnswers /\ UNCHANGED <<toStop, isStopped>>
           /\ download' = [exam |-> loaded, papers |-> papers]
    BY DEF GetReport, SessionsStopped, DownloadAnswers, UploadAnswers, SetState,
           Call, Go
  <2>2. CASE Leave
    BY <2>2, LeaveTyped DEF WorkType
  <2>3. CASE UNCHANGED <<toStop, isStopped, download>>
    BY <2>3, <1>1 DEF TypeOK, WorkType, LifeType
  <2>4. CASE GetReport /\ report # NoReport /\ UNCHANGED download
             /\ toStop' = report.students /\ isStopped' = AllStopped
    BY <2>4, <1>1 DEF TypeOK, WorkType, LifeType, Server!StatsType, AllStopped
  <2>5. CASE DownloadAnswers /\ UNCHANGED <<toStop, isStopped>>
             /\ download' = [exam |-> loaded, papers |-> papers]
    BY <2>5, <1>1 DEF TypeOK, WorkType, LifeType, Server!ServerTypeOK
  <2>. QED
    BY <2>1, <2>2, <2>3, <2>4, <2>5
<1>4. received' \in [Packages -> [Students -> 0..MaxEdits]]
  <2>1. \/ UNCHANGED received
        \/ received' = [received EXCEPT ![target] =
                           LaterPapers(@, download.papers)]
    BY DEF GetReport, SessionsStopped, DownloadAnswers, UploadAnswers, SetState,
           Call
  <2>2. \A a, b \in [Students -> 0..MaxEdits] :
          LaterPapers(a, b) \in [Students -> 0..MaxEdits]
    BY DEF LaterPapers
  <2>3. download.papers \in [Students -> 0..MaxEdits]
    BY DEF TypeOK
  <2>4. received \in [Packages -> [Students -> 0..MaxEdits]]
    BY DEF TypeOK
  <2>5. CASE target \in Packages
    <3>1. LaterPapers(received[target], download.papers)
            \in [Students -> 0..MaxEdits]
      BY <2>2, <2>3, <2>4, <2>5
    <3>. QED
      BY <2>1, <2>4, <3>1
  <2>6. CASE target \notin Packages
    BY <2>1, <2>4, <2>6
  <2>. QED
    BY <2>5, <2>6
<1>5. fresh' \in BOOLEAN /\ faults' \in 0..MaxFaults
  <2>1. fresh' \in {fresh, FALSE}
    BY DEF GetReport, SessionsStopped, DownloadAnswers, UploadAnswers, SetState,
           Call, reportVars
  <2>2. UNCHANGED faults \/ Fault
    BY DEF GetReport, SessionsStopped, DownloadAnswers, UploadAnswers, SetState,
           Call
  <2>3. fresh \in BOOLEAN /\ faults \in 0..MaxFaults
    BY DEF TypeOK
  <2>4. faults' \in 0..MaxFaults
    BY <2>2, <2>3, BoundsAssumption DEF Fault
  <2>. QED
    BY <2>1, <2>3, <2>4
<1>6. UNCHANGED <<scheduleVars, report, memoryVars>>
  BY DEF GetReport, SessionsStopped, DownloadAnswers, UploadAnswers, SetState,
         reportVars
<1>. QED
  BY <1>1, <1>2, <1>3, <1>4, <1>5, <1>6
     DEF TypeOK, LifeType, WorkType, Lifecycle!TypeOK, scheduleVars, memoryVars

\* Messages, commands, restarts and other people
LEMMA OthersTyped ==
  ASSUME WorkInv, TypeOK,
         \/ \E c \in {"enable_auto", "disable_auto"} : Command(c)
         \/ DelayStats \/ ReceiveStats \/ ReceiveExamList \/ ChangeKeycode
         \/ RefreshExams \/ \E killed \in BOOLEAN : Restart(killed)
         \/ OtherClient \/ TimePasses \/ People \/ UNCHANGED vars
  PROVE  TypeOK'
<1>. USE BoundsAssumption
     DEF storeVars, scheduleVars, reportVars, serverVars, memoryVars, workVars,
         vars, Fault
<1>1. CASE \/ \E c \in {"enable_auto", "disable_auto"} : Command(c)
           \/ ReceiveExamList \/ UNCHANGED vars
  <2>1. /\ auto' \in BOOLEAN /\ examList' \in {"none", "empty", "exams"}
        /\ UNCHANGED <<storeVars, scheduleVars, reportVars, serverVars, channel,
                       savedAuto, workVars, received, faults>>
    BY <1>1 DEF Command, ReceiveExamList, TypeOK
  <2>. QED
    BY <2>1 DEF TypeOK, Lifecycle!TypeOK, Server!ServerTypeOK
<1>2. CASE DelayStats
  <2>1. /\ channel' \in Seq(Server!StatsType) /\ Len(channel') <= MaxDelayed
    BY <1>2, StatsTyped DEF DelayStats, TypeOK
  <2>. QED
    BY <1>2, <2>1 DEF DelayStats, TypeOK, Lifecycle!TypeOK, Server!ServerTypeOK
<1>3. CASE ReceiveStats
  <2>1. /\ channel' \in Seq(Server!StatsType) /\ Len(channel') <= MaxDelayed
    BY <1>3 DEF ReceiveStats, TypeOK
  <2>2. report' \in Server!StatsType \cup {NoReport} /\ fresh' \in BOOLEAN
    <3>1. channel # <<>> => Head(channel) \in Server!StatsType
      BY DEF TypeOK
    <3>2. /\ report \in Server!StatsType \cup {NoReport}
          /\ fresh \in BOOLEAN
      BY DEF TypeOK
    <3>3. \/ fresh' = TRUE /\ report' = Server!Stats
          \/ fresh' = TRUE /\ report' = Head(channel) /\ channel # <<>>
          \/ report' = report /\ fresh' = fresh
      BY <1>3 DEF ReceiveStats
    <3>. QED
      BY <3>1, <3>2, <3>3, StatsTyped
  <2>3. faults' \in 0..MaxFaults
    BY <1>3 DEF ReceiveStats, TypeOK
  <2>. QED
    BY <1>3, <2>1, <2>2, <2>3
       DEF ReceiveStats, TypeOK, Lifecycle!TypeOK, Server!ServerTypeOK
<1>4. CASE ChangeKeycode \/ People
  <2>1. Server!ServerTypeOK'
    BY <1>4, ServerTyped DEF ChangeKeycode, People, TypeOK
  <2>. QED
    BY <1>4, <2>1 DEF ChangeKeycode, People, TypeOK, Lifecycle!TypeOK
<1>5. CASE RefreshExams \/ TimePasses
  <2>1. /\ window' \in [Packages -> Windows] /\ locked' \subseteq Packages
        /\ imports' \in 0..MaxImports
    <3>1. /\ window \in [Packages -> Windows] /\ locked \subseteq Packages
          /\ imports \in 0..MaxImports
      BY DEF TypeOK
    <3>2. CASE RefreshExams
      BY <3>1, <3>2 DEF RefreshExams
    <3>3. CASE TimePasses
      BY <3>1, <3>3 DEF TimePasses, Windows
    <3>. QED
      BY <1>5, <3>2, <3>3
  <2>. QED
    BY <1>5, <2>1 DEF RefreshExams, TimePasses, TypeOK, Lifecycle!TypeOK,
                      Server!ServerTypeOK
<1>6. CASE \E killed \in BOOLEAN : Restart(killed)
  <2>1. /\ channel' \in Seq(Server!StatsType) /\ Len(channel') <= MaxDelayed
    BY <1>6 DEF Restart
  <2>. QED
    BY <1>6, <2>1, LeaveTyped
       DEF Restart, TypeOK, Lifecycle!TypeOK, Server!ServerTypeOK
<1>7. CASE OtherClient
  <2>1. LifeType'
    BY <1>7, WorkNext DEF Next, WorkInv
  <2>. QED
    BY <1>7, <2>1 DEF OtherClient, LifeType, TypeOK, Lifecycle!TypeOK,
                      Server!ServerTypeOK
<1>. QED
  BY <1>1, <1>2, <1>3, <1>4, <1>5, <1>6, <1>7

\* Every step keeps the types.
LEMMA TypedNext ==
  ASSUME WorkInv, TypeOK, [Next]_vars
  PROVE  TypeOK'
BY CallsTyped, WorkTyped, StepsTyped, OthersTyped
   DEF Next, WorkStep, TimeWork, Command

(***************************************************************************)
(* Every variable of the agent, the API and Abitti2 keeps its type, for    *)
(* all bounds; a number of saved edits or of messages in the socket never  *)
(* exceeds its bound, and what Exam-O-Matic has got is never more than     *)
(* what a student can have written.                                        *)
(***************************************************************************)
THEOREM AgentTyped == Spec => []TypeOK
<1>. DEFINE IInv == WorkInv /\ TypeOK
<1>1. Init => IInv
  BY InitWork, InitTyped
<1>2. IInv /\ [Next]_vars => IInv'
  BY WorkNext, TypedNext
<1>. QED
  BY <1>1, <1>2, PTL DEF Spec

------------------------------------------------------------------------------
(***************************************************************************)
(* Abitti2 as the agent leaves it.                                         *)
(***************************************************************************)

\* Nobody learns a code between the first step of stopping and the archive,
\* not even that of the waiting room.
ShutDoor ==
  \A p \in Packages : state[p] \in {"stopping", "stopped"} => ~codeKnown

\* Sessions begin only on a server that runs.
QuietServer ==
  phase # "running" => \A s \in Students : session[s] = "out"

\* What is loaded, by the state of the package and by the step of the work
LoadedWork ==
  /\ \A p \in Packages : loaded = p =>
       state[p] # "archived" /\ (state[p] = "none" => phase # "running")
  /\ pc \in {"resetDecrypt", "resetStart"} => loaded = Dummy
  /\ pc = "set" /\ target # NoPackage =>
       (state[target] = "stopped" => loaded = Dummy)

\* Nothing was written for a package that was not started.
Unwritten ==
  \A p \in Packages : state[p] = "none" =>
    \A s \in Students : written[p][s] = 0

ServerInv == ShutDoor /\ QuietServer /\ LoadedWork /\ Unwritten

SessionVars == <<loaded, phase, session, papers, codeKnown, written>>

\* Who is not at work and no student leaves Abitti2 and the states alone, and
\* what he begins is not yet one of the steps that matter here.
LEMMA Bystanders ==
  ASSUME WorkInv, [AutoNext]_vars, ~WorkStep, ~ChangeKeycode, ~People
  PROVE  /\ UNCHANGED <<state, received>> /\ UNCHANGED SessionVars
         /\ \/ UNCHANGED <<pc, target, toStop, isStopped, download>>
            \/ Leave
            \/ /\ pc = "idle" /\ UNCHANGED <<isStopped, download>>
               /\ pc' \in {"code", "load", "start", "report"}
            \/ /\ pc = "idle" /\ UNCHANGED <<isStopped, download>>
               /\ pc' = "resetLoad" /\ target' = NoPackage
         /\ ReceiveStats \/ UNCHANGED reportVars
<1>. USE DEF SessionVars, storeVars, scheduleVars, reportVars, serverVars,
             memoryVars, workVars
<1>1. CASE TimeWork
  <2>1. pc = "idle" /\ target = NoPackage
    BY <1>1 DEF TimeWork, Work, WorkInv, PackageWork
  <2>2. ASSUME NEW q \in Packages, Take(q, "time")
        PROVE  \/ UNCHANGED workVars
               \/ /\ pc' \in {"code", "load", "start", "report"}
                  /\ UNCHANGED <<isStopped, download>>
    BY <2>2 DEF Take, FirstStep
  <2>3. /\ UNCHANGED <<state, received>> /\ UNCHANGED SessionVars
        /\ UNCHANGED reportVars
    BY <1>1 DEF TimeWork, Work, Lifecycle!Elect
  <2>4. \/ \E q \in Packages : Take(q, "time")
        \/ Go("resetLoad") \/ UNCHANGED workVars
    BY <1>1 DEF TimeWork, Work, Electable, WorkInv, LifeType
  <2>. QED
    BY <2>1, <2>2, <2>3, <2>4 DEF Go
<1>2. CASE \E killed \in BOOLEAN : Restart(killed)
  BY <1>2 DEF Restart
<1>3. CASE OtherClient
  BY <1>3 DEF OtherClient, Lifecycle!Elect
<1>4. CASE DelayStats \/ ReceiveStats \/ ReceiveExamList \/ RefreshExams
           \/ TimePasses \/ UNCHANGED vars
  BY <1>4 DEF DelayStats, ReceiveStats, ReceiveExamList, RefreshExams,
              TimePasses, vars
<1>. QED
  BY <1>1, <1>2, <1>3, <1>4 DEF AutoNext

\* A state that is set moves one package one state on, or nothing.
LEMMA StateMoves ==
  ASSUME WorkInv, SetState
  PROVE  /\ pc = "set" /\ Leave
         /\ UNCHANGED SessionVars /\ UNCHANGED <<report, received>>
         /\ \/ UNCHANGED <<state, fresh>>
            \/ /\ target \in Packages /\ target # NoPackage
               /\ \A p \in Packages \ {target} : state'[p] = state[p]
               /\ state'[target] = "stopping" => state[target] = "running"
               /\ state'[target] = "stopped" => state[target] = "stopping"
               /\ state'[target] = "archived" => state[target] = "stopped"
               /\ state'[target] # "none"
               /\ fresh' = FALSE
<1>1. /\ pc = "set" /\ Leave
      /\ UNCHANGED SessionVars /\ UNCHANGED <<report, received>>
      /\ \/ UNCHANGED <<state, fresh>>
         \/ Lifecycle!Advance(target) /\ fresh' = FALSE
  BY DEF SetState, Call, storeVars, serverVars, SessionVars
<1>2. CASE Lifecycle!Advance(target)
  <2>1. /\ target \in Packages /\ target # NoPackage
        /\ state \in [Packages -> Lifecycle!PackageStates]
        /\ state[target] # "archived"
    BY <1>2, ValuesAssumption DEF Lifecycle!Advance, WorkInv, LifeType
  <2>. QED
    BY <1>1, <1>2, <2>1
       DEF Lifecycle!Advance, Lifecycle!NextState, Lifecycle!NoState,
           Lifecycle!PackageStates
<1>. QED
  BY <1>1, <1>2

\* The door opens only when a code is announced, and that is not done then.
LEMMA ShutNext ==
  ASSUME WorkInv, DoorInv, ShutDoor, [AutoNext]_vars
  PROVE  ShutDoor'
<1>1. CASE SetState
  BY <1>1, StateMoves
     DEF ShutDoor, SessionVars, DoorInv, ShutWhileStopping, Closing
<1>2. CASE WorkStep /\ ~SetState
  <2>1. UNCHANGED state /\ codeKnown' \in {codeKnown, FALSE}
    BY <1>2
       DEF WorkStep, ChangeCode, UploadPackage, DecryptPackage, StartExam,
           GetReport, StopSession, SessionsStopped, DownloadAnswers,
           UploadAnswers, ResetUpload, ResetDecrypt, ResetStart, ServerCall,
           Call, storeVars, serverVars, Server!LoadExam, Server!DecryptExams,
           Server!StartExams, Server!ChangeSecurityCode, Server!EndSession
  <2>. QED
    BY <2>1 DEF ShutDoor
<1>3. CASE ChangeKeycode
  BY <1>3 DEF ChangeKeycode, Server!ChangeSecurityCode, storeVars, ShutDoor
<1>4. CASE People /\ Server!Student
  BY <1>4 DEF People, Server!Student, Server!Join, Server!SaveAnswers,
              Server!Finish, storeVars, ShutDoor
<1>5. CASE People /\ ~Server!Student
  <2>1. UNCHANGED state
        /\ \A p \in current : state[p] \notin {"stopping", "stopped"}
    BY <1>5 DEF People, storeVars
  <2>. QED
    BY <2>1 DEF ShutDoor, WorkInv, OneCurrent, Lifecycle!Active
<1>6. CASE ~WorkStep /\ ~ChangeKeycode /\ ~People
  BY <1>6, Bystanders DEF ShutDoor, SessionVars
<1>. QED
  BY <1>1, <1>2, <1>3, <1>4, <1>5, <1>6

\* Loading ends all sessions, and nobody joins before the start.
LEMMA QuietNext ==
  ASSUME WorkInv, TypeOK, QuietServer, [AutoNext]_vars
  PROVE  QuietServer'
<1>. USE DEF QuietServer
<1>1. CASE SetState \/ GetReport \/ SessionsStopped \/ DownloadAnswers
           \/ UploadAnswers
  BY <1>1 DEF SetState, GetReport, SessionsStopped, DownloadAnswers,
              UploadAnswers, serverVars
<1>2. CASE UploadPackage \/ ResetUpload
  BY <1>2 DEF UploadPackage, ResetUpload, ServerCall, Call, serverVars,
              Server!LoadExam
<1>3. CASE \/ ChangeCode \/ DecryptPackage \/ StartExam \/ ResetDecrypt
           \/ ResetStart \/ ChangeKeycode
  BY <1>3 DEF ChangeCode, DecryptPackage, StartExam, ResetDecrypt, ResetStart,
              ChangeKeycode, ServerCall, Call, serverVars,
              Server!DecryptExams, Server!StartExams,
              Server!ChangeSecurityCode
<1>4. CASE StopSession
  BY <1>4 DEF StopSession, ServerCall, Call, serverVars, Server!EndSession,
              TypeOK, Server!ServerTypeOK
<1>5. CASE People
  BY <1>5 DEF People, Server!Student, Server!Join, Server!SaveAnswers,
              Server!Finish, Server!AnnounceCode
<1>6. CASE ~WorkStep /\ ~ChangeKeycode /\ ~People
  BY <1>6, Bystanders DEF SessionVars
<1>. QED
  BY <1>1, <1>2, <1>3, <1>4, <1>5, <1>6 DEF WorkStep

\* A package is loaded before it has a state, started only when it has one,
\* and replaced by the waiting room before it is archived.
LEMMA LoadedNext ==
  ASSUME WorkInv, LoadedWork, [AutoNext]_vars
  PROVE  LoadedWork'
<1>. USE ValuesAssumption DEF LoadedWork
<1>1. CASE SetState
  BY <1>1, StateMoves DEF SessionVars, Leave, WorkInv, LifeType
<1>2. CASE UploadPackage \/ ResetUpload
  BY <1>2 DEF UploadPackage, ResetUpload, ServerCall, Call, storeVars,
              serverVars, Server!LoadExam, Go, Leave, WorkInv, LifeType,
              PackageWork
<1>3. CASE DecryptPackage \/ StartExam \/ ResetDecrypt \/ ResetStart
  <2>1. /\ UNCHANGED <<state, loaded>>
        /\ phase' = "running" /\ phase # "running" =>
             StartExam \/ ResetStart
    BY <1>3 DEF DecryptPackage, StartExam, ResetDecrypt, ResetStart, ServerCall,
                Call, storeVars, serverVars, Server!DecryptExams,
                Server!StartExams, Go
  <2>2. /\ StartExam => loaded = target /\ state[target] = "ready"
        /\ ResetStart => loaded = Dummy
    BY DEF StartExam, ResetStart, ServerCall, WorkInv, LifeType, PackageWork,
           IdleWork, Resetting, ServerFollowsState
  <2>3. /\ pc' \in {"resetDecrypt", "resetStart"} => loaded = Dummy
        /\ pc' = "set" /\ target' # NoPackage =>
             (state[target'] = "stopped" => loaded = Dummy)
    BY <1>3, <2>2
       DEF DecryptPackage, StartExam, ResetDecrypt, ResetStart, ServerCall,
           Call, Go, Leave, WorkInv, PackageWork, IdleWork, Resetting
  <2>. QED
    BY <2>1, <2>2, <2>3
<1>4. CASE \/ ChangeCode \/ GetReport \/ StopSession \/ SessionsStopped
           \/ DownloadAnswers \/ UploadAnswers
  <2>1. /\ UNCHANGED <<state, loaded, phase>>
        /\ \/ Leave
           \/ /\ UNCHANGED target
              /\ pc' \in {"load", "report", "stop", "download", "upload",
                          "resetLoad"}
           \/ UNCHANGED target /\ pc' = "set" /\ pc = "stop"
    BY <1>4
       DEF ChangeCode, GetReport, StopSession, SessionsStopped,
           DownloadAnswers, UploadAnswers, ServerCall, Call, Go, storeVars,
           serverVars, Server!ChangeSecurityCode, Server!EndSession
  <2>. QED
    BY <2>1 DEF Leave, WorkInv, PackageWork
<1>5. CASE ChangeKeycode \/ People
  BY <1>5 DEF ChangeKeycode, People, Server!ChangeSecurityCode, Server!Student,
              Server!Join, Server!SaveAnswers, Server!Finish,
              Server!AnnounceCode, storeVars, workVars
<1>6. CASE ~WorkStep /\ ~ChangeKeycode /\ ~People
  BY <1>6, Bystanders DEF SessionVars, Leave
<1>. QED
  BY <1>1, <1>2, <1>3, <1>4, <1>5, <1>6 DEF WorkStep

\* Who writes is in a session, and that needs a start.
LEMMA UnwrittenNext ==
  ASSUME WorkInv, TypeOK, QuietServer, LoadedWork, Unwritten,
         [AutoNext]_vars
  PROVE  Unwritten'
<1>. USE DEF Unwritten
<1>1. CASE SetState
  BY <1>1, StateMoves DEF SessionVars
<1>2. CASE WorkStep /\ ~SetState
  BY <1>2
     DEF WorkStep, ChangeCode, UploadPackage, DecryptPackage, StartExam,
         GetReport, StopSession, SessionsStopped, DownloadAnswers,
         UploadAnswers, ResetUpload, ResetDecrypt, ResetStart, ServerCall,
         Call, storeVars, serverVars, Server!LoadExam, Server!DecryptExams,
         Server!StartExams, Server!ChangeSecurityCode, Server!EndSession
<1>3. CASE ChangeKeycode
  BY <1>3 DEF ChangeKeycode, Server!ChangeSecurityCode, storeVars
<1>4. CASE People
  <2>1. UNCHANGED state
    BY <1>4 DEF People, storeVars
  <2>2. ASSUME NEW s \in Students, Server!SaveAnswers(s)
        PROVE  Unwritten'
    <3>1. loaded \in Packages => state[loaded] # "none"
      BY <2>2 DEF Server!SaveAnswers, QuietServer, LoadedWork
    <3>. QED
      BY <2>1, <2>2, <3>1
         DEF Server!SaveAnswers, TypeOK, Server!ServerTypeOK
  <2>3. CASE UNCHANGED written
    BY <2>1, <2>3
  <2>. QED
    BY <1>4, <2>2, <2>3 DEF People, Server!Student, Server!Join, Server!Finish,
                            Server!AnnounceCode
<1>5. CASE ~WorkStep /\ ~ChangeKeycode /\ ~People
  BY <1>5, Bystanders DEF SessionVars
<1>. QED
  BY <1>1, <1>2, <1>3, <1>4, <1>5

------------------------------------------------------------------------------
(***************************************************************************)
(* Stopping and archiving.                                                 *)
(***************************************************************************)

NoneIn == \A s \in Students : session[s] # "in"

\* The report and Abitti2 agree on whether there are answers.
Told == report.papers <=> papers # Server!NoPapers

\* A report that arrived since stopping began misses no session, and if none
\* is open nothing more is written.
StoppingReport ==
  \A p \in Packages : state[p] = "stopping" /\ fresh =>
    /\ \A s \in Students : session[s] = "in" => s \in report.open
    /\ report.open = {} => Told

\* Work that decided that all has stopped was right.
StoppingWork ==
  /\ isStopped = TRUE =>
       /\ target # NoPackage /\ pc \in {"stop", "set"}
       /\ state[target] = "stopping" /\ NoneIn /\ Told
  /\ pc = "set" /\ target # NoPackage =>
       (state[target] = "stopping" => isStopped = TRUE)

\* What archiving meets
StoppedServer ==
  \A p \in Packages : state[p] = "stopped" =>
    /\ NoneIn
    /\ loaded = p => Told
    /\ loaded = Dummy => papers = Server!NoPapers

\* What is sent is what was written, and it is sent before the reset.
Sending ==
  /\ pc = "upload" => /\ target # NoPackage /\ loaded = target
                      /\ download = [exam |-> target, papers |-> papers]
  /\ pc = "resetLoad" /\ target # NoPackage /\ loaded = target =>
       \A s \in Students : written[target][s] <= received[target][s]

Frame == <<state, loaded, session, papers, written, received, report, fresh>>
Rest == <<target, toStop, isStopped, download>>

\* The package at work is the only active one.
LEMMA OnlyTarget ==
  ASSUME WorkInv, NEW p \in Packages, state[p] \in Lifecycle!Active
  PROVE  target = NoPackage \/ target = p
BY DEF WorkInv, OneCurrent, PackageWork

\* Most calls to Abitti2 disturb no session and no answer.
LEMMA PlainCalls ==
  ASSUME WorkInv, \/ ChangeCode \/ DecryptPackage \/ StartExam
                  \/ ResetDecrypt \/ ResetStart \/ SessionsStopped
  PROVE  /\ UNCHANGED Frame
         /\ \/ Leave
            \/ UNCHANGED Rest /\ pc' \in {"load", "report", "resetStart"}
            \/ /\ UNCHANGED Rest /\ pc' = "set"
               /\ target # NoPackage => state[target] # "stopping" \/ isStopped = TRUE
<1>. USE DEF Frame, Rest, storeVars, serverVars, reportVars
<1>1. CASE ChangeCode \/ ResetDecrypt
  BY <1>1 DEF ChangeCode, ResetDecrypt, ServerCall, Call, Go,
              Server!ChangeSecurityCode, Server!DecryptExams
<1>2. CASE DecryptPackage \/ StartExam \/ ResetStart
  <2>1. target # NoPackage => state[target] # "stopping"
    BY <1>2 DEF DecryptPackage, StartExam, ResetStart, ServerCall, WorkInv,
                PackageWork, Resetting
  <2>. QED
    BY <1>2, <2>1
       DEF DecryptPackage, StartExam, ResetStart, ServerCall, Call, Go,
           Server!DecryptExams, Server!StartExams
<1>3. CASE SessionsStopped
  BY <1>3 DEF SessionsStopped, Go
<1>. QED
  BY <1>1, <1>2, <1>3

\* Loading a package clears the server when no session can be lost by it.
LEMMA Loads ==
  ASSUME WorkInv, LoadedWork, UploadPackage \/ ResetUpload
  PROVE  /\ UNCHANGED <<state, written, received, report, fresh>>
         /\ \A p \in Packages : state[p] # "stopping"
         /\ \/ UNCHANGED <<loaded, session, papers>>
            \/ /\ \A s \in Students : session'[s] = "out"
               /\ papers' = Server!NoPapers
               /\ \A p \in Packages : state[p] = "stopped" => loaded' = Dummy
               /\ \A p \in Packages : loaded = p =>
                    \/ state[p] = "none"
                    \/ pc = "resetLoad" /\ target # NoPackage /\ target = p
         /\ \/ Leave
            \/ UNCHANGED Rest /\ pc' \in {"decrypt", "resetDecrypt"}
<1>1. UNCHANGED <<state, written, received, report, fresh>>
  BY DEF UploadPackage, ResetUpload, ServerCall, Call, storeVars, reportVars,
         serverVars, Server!LoadExam
<1>2. /\ UploadPackage => target # NoPackage /\ state[target] = "none"
      /\ ResetUpload /\ target # NoPackage => state[target] = "stopped"
      /\ ResetUpload /\ target = NoPackage =>
           \A p \in Packages : state[p] \notin Lifecycle!Active
  BY DEF UploadPackage, ResetUpload, ServerCall, WorkInv, IdleWork, PackageWork,
         Resetting
<1>3. ASSUME NEW p \in Packages, state[p] \in Lifecycle!Active
      PROVE  /\ state[p] = "stopped" /\ ResetUpload
             /\ target # NoPackage /\ target = p
  BY <1>2, <1>3, OnlyTarget DEF Lifecycle!Active
<1>4. \A p \in Packages :
        \/ state[p] \in {"none", "archived"}
        \/ state[p] \in Lifecycle!Active
  BY DEF WorkInv, LifeType, Lifecycle!PackageStates, Lifecycle!NoState,
         Lifecycle!Active
<1>5. \A p \in Packages : state[p] # "stopping"
  BY <1>3 DEF Lifecycle!Active
<1>6. \/ UNCHANGED <<loaded, session, papers>>
      \/ /\ \A s \in Students : session'[s] = "out"
         /\ papers' = Server!NoPapers
         /\ ResetUpload => loaded' = Dummy
  BY DEF UploadPackage, ResetUpload, ServerCall, Call, serverVars,
         Server!LoadExam
<1>7. /\ \A p \in Packages : state[p] = "stopped" => ResetUpload
      /\ \A p \in Packages : loaded = p =>
           \/ state[p] = "none"
           \/ pc = "resetLoad" /\ target # NoPackage /\ target = p
  BY <1>3, <1>4 DEF LoadedWork, ResetUpload, ServerCall, Lifecycle!Active
<1>8. Leave \/ (UNCHANGED Rest /\ pc' \in {"decrypt", "resetDecrypt"})
  BY DEF UploadPackage, ResetUpload, ServerCall, Call, Go, Rest
<1>. QED
  BY <1>1, <1>5, <1>6, <1>7, <1>8

\* The people leave the API and the work alone.
LEMMA PeopleAct ==
  ASSUME People, ShutDoor
  PROVE  /\ UNCHANGED <<state, loaded, received, report, fresh>>
         /\ UNCHANGED workVars
         /\ \/ UNCHANGED <<session, papers, written>>
            \/ /\ \E s \in Students : Server!Join(s)
               /\ \A p \in Packages : state[p] \notin {"stopping", "stopped"}
            \/ \E s \in Students : Server!SaveAnswers(s)
            \/ \E s \in Students : Server!Finish(s)
BY DEF People, ShutDoor, Server!Student, Server!Join, Server!SaveAnswers,
       Server!Finish, Server!AnnounceCode, storeVars, reportVars, workVars

\* Ending a session lets nobody in.
LEMMA Ends ==
  ASSUME TypeOK, StopSession
  PROVE  /\ UNCHANGED <<state, loaded, papers, written, received, report, fresh>>
         /\ \A s \in Students : session'[s] = "in" => session[s] = "in"
         /\ \/ Leave
            \/ UNCHANGED <<pc, target, isStopped, download>> /\ pc = "stop"
<1>1. session \in [Students -> {"out", "in", "ended"}]
  BY DEF TypeOK, Server!ServerTypeOK
<1>. QED
  BY <1>1 DEF StopSession, ServerCall, Call, storeVars, reportVars, serverVars,
              Server!EndSession

\* With no message in the socket, what is read is what Abitti2 is now.
LEMMA Reads ==
  ASSUME MaxDelayed = 0, TypeOK, ReceiveStats
  PROVE  \/ UNCHANGED reportVars
         \/ /\ report'.papers <=> papers # Server!NoPapers
            /\ \A s \in Students : session[s] = "in" => s \in report'.open
<1>1. channel = <<>>
  BY DEF TypeOK
<1>2. UNCHANGED reportVars \/ report' = Server!Stats
  BY <1>1 DEF ReceiveStats
<1>3. Server!Stats.papers = (papers # Server!NoPapers)
  BY DEF Server!Stats
<1>4. Server!Stats.open = {s \in Students : session[s] = "in"}
  BY DEF Server!Stats
<1>. QED
  BY <1>2, <1>3, <1>4

EndInv == /\ StoppingReport /\ StoppingWork /\ StoppedServer /\ Sending
          /\ NoAnswerIsLost

StudentInv == TypeOK /\ WorkInv /\ ServerInv /\ EndInv

\* A report is asked for before the step that it decides.
LEMMA ReportRead ==
  ASSUME WorkInv, GetReport
  PROVE  /\ UNCHANGED Frame /\ pc = "report" /\ target # NoPackage
         /\ \/ Leave
            \/ /\ UNCHANGED Rest /\ pc' = "download"
               /\ state[target] = "stopped"
            \/ /\ UNCHANGED Rest /\ pc' = "resetLoad"
               /\ state[target] = "stopped" /\ ~report.papers
            \/ /\ UNCHANGED target /\ pc' = "stop"
               /\ isStopped' = TRUE => AllStopped
BY DEF GetReport, Go, Frame, Rest, storeVars, serverVars, reportVars, WorkInv,
       IdleWork, Resetting

\* What is downloaded is what is on the server now.
LEMMA Downloads ==
  ASSUME WorkInv, DownloadAnswers
  PROVE  /\ UNCHANGED Frame /\ pc = "download" /\ target # NoPackage
         /\ state[target] = "stopped"
         /\ \/ Leave
            \/ /\ UNCHANGED <<target, toStop, isStopped>> /\ pc' = "upload"
               /\ papers # Server!NoPapers
               /\ download' = [exam |-> loaded, papers |-> papers]
BY DEF DownloadAnswers, Frame, storeVars, serverVars, reportVars, WorkInv,
       IdleWork, PackageWork, Resetting

\* What is sent is added to what Exam-O-Matic has.
LEMMA Uploads ==
  ASSUME TypeOK, WorkInv, Sending, UploadAnswers
  PROVE  /\ UNCHANGED <<state, loaded, session, papers, written, report, fresh>>
         /\ pc = "upload" /\ target # NoPackage /\ loaded = target
         /\ \A p \in Packages : \A s \in Students :
              received[p][s] <= received'[p][s]
         /\ \/ Leave
            \/ /\ UNCHANGED Rest /\ pc' = "resetLoad"
               /\ \A s \in Students : papers[s] <= received'[target][s]
<1>1. /\ UNCHANGED <<state, loaded, session, papers, written, report, fresh>>
      /\ pc = "upload" /\ target # NoPackage /\ loaded = target
      /\ download.exam = target /\ download.papers = papers
  BY DEF UploadAnswers, Sending, storeVars, serverVars, reportVars
<1>2. target \in Packages
  BY <1>1 DEF WorkInv, LifeType
<1>3. /\ received \in [Packages -> [Students -> 0..MaxEdits]]
      /\ papers \in [Students -> 0..MaxEdits]
  BY DEF TypeOK, Server!ServerTypeOK
<1>4. \/ UNCHANGED received
      \/ received' =
           [received EXCEPT ![target] = LaterPapers(received[target], papers)]
  BY <1>1 DEF UploadAnswers, Call
<1>5. \A p \in Packages : \A s \in Students :
        received[p][s] \in Nat /\ papers[s] \in Nat
  BY <1>3, BoundsAssumption
<1>6. \A p \in Packages : \A s \in Students :
        received[p][s] <= received'[p][s]
  BY <1>2, <1>3, <1>4, <1>5 DEF LaterPapers
<1>7. \/ Leave
      \/ /\ UNCHANGED Rest /\ pc' = "resetLoad"
         /\ received' =
              [received EXCEPT ![target] = LaterPapers(received[target], papers)]
  BY <1>1 DEF UploadAnswers, Call, Go, Rest
<1>8. received' =
        [received EXCEPT ![target] = LaterPapers(received[target], papers)]
        => \A s \in Students : papers[s] <= received'[target][s]
  BY <1>2, <1>3, <1>5 DEF LaterPapers
<1>. QED
  BY <1>1, <1>6, <1>7, <1>8

\* Nobody in a session is missed between two reports.
LEMMA ReportNext ==
  ASSUME MaxDelayed = 0, StudentInv, [AutoNext]_vars
  PROVE  StoppingReport'
<1>. USE DEF StudentInv, EndInv, ServerInv
<1>. USE DEF StoppingReport, Told
<1>1. CASE SetState
  BY <1>1, StateMoves DEF SessionVars
<1>2. CASE UNCHANGED Frame
  BY <1>2 DEF Frame
<1>3. CASE UploadPackage \/ ResetUpload
  BY <1>3, Loads
<1>4. CASE UploadAnswers
  BY <1>4, Uploads
<1>5. CASE StopSession
  BY <1>5, Ends
<1>6. CASE People
  <2>1. CASE UNCHANGED <<session, papers, written>>
    BY <1>6, <2>1, PeopleAct
  <2>2. CASE \A p \in Packages : state[p] \notin {"stopping", "stopped"}
    BY <1>6, <2>2, PeopleAct
  <2>3. ASSUME NEW s \in Students, Server!SaveAnswers(s) \/ Server!Finish(s)
        PROVE  StoppingReport'
    <3>1. /\ \A q \in Students : session'[q] = "in" => session[q] = "in"
          /\ session[s] = "in" /\ UNCHANGED <<state, report, fresh>>
          /\ Server!Finish(s) => UNCHANGED papers
      BY <1>6, <2>3, PeopleAct
         DEF Server!SaveAnswers, Server!Finish, TypeOK, Server!ServerTypeOK
    <3>2. CASE Server!SaveAnswers(s)
      BY <3>1, <3>2
    <3>3. CASE Server!Finish(s)
      BY <3>1, <3>3
    <3>. QED
      BY <2>3, <3>2, <3>3
  <2>. QED
    BY <1>6, <2>1, <2>2, <2>3, PeopleAct
<1>7. CASE ~WorkStep /\ ~ChangeKeycode /\ ~People
  <2>1. /\ UNCHANGED state /\ UNCHANGED SessionVars
        /\ \/ UNCHANGED reportVars
           \/ /\ report'.papers <=> papers # Server!NoPapers
              /\ \A s \in Students : session[s] = "in" => s \in report'.open
    BY <1>7, Bystanders, Reads
  <2>. QED
    BY <2>1 DEF SessionVars, reportVars
<1>. QED
  BY <1>1, <1>2, <1>3, <1>4, <1>5, <1>6, <1>7, PlainCalls, ReportRead, Downloads
     DEF WorkStep, ChangeKeycode, Server!ChangeSecurityCode, Frame, storeVars,
         reportVars

\* The decision that all has stopped stays right until it is carried out.
LEMMA StoppingNext ==
  ASSUME StudentInv, [AutoNext]_vars
  PROVE  StoppingWork'
<1>. USE DEF StudentInv, EndInv, ServerInv
<1>. USE DEF StoppingWork, NoneIn, Told
<1>1. CASE SetState
  BY <1>1, StateMoves DEF Leave
<1>2. CASE \/ ChangeCode \/ DecryptPackage \/ StartExam
           \/ ResetDecrypt \/ ResetStart \/ SessionsStopped
  <2>1. UNCHANGED Rest /\ pc' \in {"load", "report", "resetStart"} => isStopped # TRUE
    BY <1>2 DEF ChangeCode, DecryptPackage, StartExam, ResetDecrypt, ResetStart,
                SessionsStopped, ServerCall, Call, Go, Leave
  <2>. QED
    BY <1>2, <2>1, PlainCalls DEF Frame, Rest, Leave
<1>3. CASE UploadPackage \/ ResetUpload
  <2>1. isStopped # TRUE
    BY <1>3 DEF UploadPackage, ResetUpload, ServerCall
  <2>. QED
    BY <1>3, <2>1, Loads DEF Rest, Leave
<1>4. CASE GetReport
  BY <1>4, ReportRead DEF Frame, Rest, Leave, AllStopped, StoppingReport, Told,
                          WorkInv, LifeType
<1>5. CASE DownloadAnswers \/ UploadAnswers
  BY <1>5, Downloads, Uploads DEF Frame, Rest, Leave
<1>6. CASE StopSession
  BY <1>6, Ends DEF Leave
<1>7. CASE People
  <2>1. CASE isStopped # TRUE
    BY <1>7, <2>1, PeopleAct DEF workVars
  <2>2. CASE isStopped = TRUE
    <3>1. /\ target \in Packages /\ state[target] = "stopping"
          /\ \A s \in Students : ~Server!SaveAnswers(s) /\ ~Server!Finish(s)
      BY <2>2 DEF WorkInv, LifeType, Server!SaveAnswers, Server!Finish
    <3>. QED
      BY <1>7, <2>2, <3>1, PeopleAct DEF workVars
  <2>. QED
    BY <2>1, <2>2
<1>8. CASE ChangeKeycode
  BY <1>8 DEF ChangeKeycode, Server!ChangeSecurityCode, storeVars, reportVars,
              workVars
<1>9. CASE ~WorkStep /\ ~ChangeKeycode /\ ~People
  <2>1. ReceiveStats => isStopped # TRUE
    BY DEF ReceiveStats
  <2>. QED
    BY <1>9, <2>1, Bystanders DEF SessionVars, Leave, reportVars
<1>. QED
  BY <1>1, <1>2, <1>3, <1>4, <1>5, <1>6, <1>7, <1>8, <1>9 DEF WorkStep

\* Nothing moves on the server between "stopped" and the reset.
LEMMA StoppedNext ==
  ASSUME MaxDelayed = 0, StudentInv, [AutoNext]_vars
  PROVE  StoppedServer'
<1>. USE DEF StudentInv, EndInv, ServerInv
<1>. USE DEF StoppedServer, NoneIn, Told
<1>1. CASE SetState
  <2>1. ASSUME NEW p \in Packages, state'[p] = "stopped", state[p] # "stopped"
        PROVE  /\ state[p] = "stopping" /\ p = target /\ isStopped = TRUE
               /\ UNCHANGED SessionVars /\ UNCHANGED report
    BY <1>1, <2>1, StateMoves DEF StoppingWork
  <2>2. ASSUME NEW p \in Packages, state[p] = "stopping"
        PROVE  loaded # Dummy
    BY <2>2, ValuesAssumption DEF WorkInv, ServerFollowsState
  <2>3. UNCHANGED SessionVars /\ UNCHANGED report
    BY <1>1, StateMoves
  <2>. QED
    BY <2>1, <2>2, <2>3 DEF StoppingWork, SessionVars
<1>2. CASE UNCHANGED Frame
  BY <1>2 DEF Frame
<1>3. CASE UploadPackage \/ ResetUpload
  BY <1>3, Loads, ValuesAssumption
<1>4. CASE UploadAnswers
  BY <1>4, Uploads
<1>5. CASE StopSession
  BY <1>5, Ends
<1>6. CASE People
  <2>1. CASE \A p \in Packages : state[p] # "stopped"
    BY <1>6, <2>1, PeopleAct
  <2>2. CASE NoneIn
    <3>1. \A s \in Students : ~Server!SaveAnswers(s) /\ ~Server!Finish(s)
      BY <2>2 DEF Server!SaveAnswers, Server!Finish
    <3>2. CASE UNCHANGED <<session, papers, written>>
      BY <1>6, <3>2, PeopleAct
    <3>3. CASE \A p \in Packages : state[p] \notin {"stopping", "stopped"}
      BY <1>6, <3>3, PeopleAct
    <3>. QED
      BY <1>6, <3>1, <3>2, <3>3, PeopleAct
  <2>. QED
    BY <2>1, <2>2
<1>7. CASE ~WorkStep /\ ~ChangeKeycode /\ ~People
  <2>1. /\ UNCHANGED state /\ UNCHANGED SessionVars
        /\ \/ UNCHANGED reportVars
           \/ /\ report'.papers <=> papers # Server!NoPapers
              /\ \A s \in Students : session[s] = "in" => s \in report'.open
    BY <1>7, Bystanders, Reads
  <2>. QED
    BY <2>1 DEF SessionVars, reportVars
<1>. QED
  BY <1>1, <1>2, <1>3, <1>4, <1>5, <1>6, <1>7, PlainCalls, ReportRead, Downloads
     DEF WorkStep, ChangeKeycode, Server!ChangeSecurityCode, Frame, storeVars,
         reportVars

\* What is downloaded is sent for the package it belongs to, and without
\* answers there is nothing to send.
LEMMA SendingNext ==
  ASSUME StudentInv, [AutoNext]_vars
  PROVE  Sending'
<1>. USE DEF StudentInv, EndInv, ServerInv
<1>. USE DEF Sending
<1>1. CASE SetState
  BY <1>1, StateMoves DEF Leave
<1>2. CASE \/ ChangeCode \/ DecryptPackage \/ StartExam
           \/ ResetDecrypt \/ ResetStart \/ SessionsStopped
  BY <1>2, PlainCalls DEF Frame, Rest, Leave
<1>3. CASE UploadPackage \/ ResetUpload
  BY <1>3, Loads DEF Rest, Leave
<1>4. CASE GetReport
  <2>1. CASE Leave
    BY <2>1 DEF Leave
  <2>2. CASE pc' \in {"download", "stop"}
    BY <2>2
  <2>3. CASE /\ UNCHANGED Rest /\ pc' = "resetLoad"
             /\ state[target] = "stopped" /\ ~report.papers
    <3>1. UNCHANGED Frame /\ target # NoPackage /\ target \in Packages
      BY <1>4, ReportRead DEF WorkInv, LifeType
    <3>2. loaded = target => papers = Server!NoPapers
      BY <2>3, <3>1 DEF StoppedServer, Told
    <3>3. \A s \in Students :
            received[target][s] \in Nat /\ written[target][s] \in Nat
      BY <3>1, BoundsAssumption DEF TypeOK, Server!ServerTypeOK
    <3>4. loaded = target =>
            \A s \in Students : written[target][s] <= received[target][s]
      BY <3>1, <3>2, <3>3 DEF NoAnswerIsLost, Server!NoPapers
    <3>. QED
      BY <2>3, <3>1, <3>4 DEF Frame, Rest
  <2>. QED
    BY <1>4, <2>1, <2>2, <2>3, ReportRead
<1>5. CASE DownloadAnswers
  <2>1. target \in Packages /\ state[target] = "stopped"
    BY <1>5, Downloads DEF WorkInv, LifeType
  <2>2. papers # Server!NoPapers => loaded = target
    BY <2>1 DEF StoppedServer, WorkInv, ServerFollowsState
  <2>. QED
    BY <1>5, <2>2, Downloads DEF Frame, Leave
<1>6. CASE UploadAnswers
  <2>1. CASE Leave
    BY <2>1 DEF Leave
  <2>2. CASE UNCHANGED Rest /\ pc' = "resetLoad"
             /\ \A s \in Students : papers[s] <= received'[target][s]
    <3>1. /\ UNCHANGED <<loaded, papers, written, target>>
          /\ target \in Packages /\ loaded = target
          /\ \A s \in Students : received[target][s] <= received'[target][s]
      BY <1>6, <2>2, Uploads DEF Rest, WorkInv, LifeType
    <3>2. \A s \in Students : /\ received[target][s] \in Nat
                              /\ received'[target][s] \in Nat
                              /\ written[target][s] \in Nat
                              /\ papers[s] \in Nat
      BY <3>1, BoundsAssumption, TypedNext, AutoSteps DEF TypeOK, Server!ServerTypeOK
    <3>3. \A s \in Students : written[target][s] <= received'[target][s]
      BY <2>2, <3>1, <3>2 DEF NoAnswerIsLost
    <3>. QED
      BY <2>2, <3>1, <3>3
  <2>. QED
    BY <1>6, <2>1, <2>2, Uploads
<1>7. CASE StopSession
  BY <1>7, Ends DEF Leave
<1>8. CASE People
  <2>1. UNCHANGED <<state, loaded, received>> /\ UNCHANGED workVars
    BY <1>8, PeopleAct
  <2>2. CASE pc \in {"upload", "resetLoad"} /\ target # NoPackage
    <3>1. target \in Packages /\ state[target] = "stopped"
      BY <2>2 DEF WorkInv, LifeType, PackageWork, Resetting
    <3>2. UNCHANGED <<papers, written>>
      BY <1>8, <3>1, PeopleAct
         DEF StoppedServer, NoneIn, Server!SaveAnswers, Server!Join,
             Server!Finish
    <3>. QED
      BY <2>1, <3>2 DEF workVars
  <2>. QED
    BY <2>1, <2>2 DEF workVars
<1>9. CASE ChangeKeycode
  BY <1>9 DEF ChangeKeycode, Server!ChangeSecurityCode, storeVars, workVars
<1>10. CASE ~WorkStep /\ ~ChangeKeycode /\ ~People
  BY <1>10, Bystanders DEF SessionVars, Leave
<1>. QED
  BY <1>1, <1>2, <1>3, <1>4, <1>5, <1>6, <1>7, <1>8, <1>9, <1>10 DEF WorkStep

\* An answer leaves the server only after it has been sent.
LEMMA AnswersNext ==
  ASSUME StudentInv, [AutoNext]_vars
  PROVE  NoAnswerIsLost'
<1>. USE DEF StudentInv, EndInv, ServerInv
<1>. USE DEF NoAnswerIsLost
<1>1. CASE SetState
  BY <1>1, StateMoves DEF SessionVars
<1>2. CASE UNCHANGED Frame
  BY <1>2 DEF Frame
<1>3. CASE UploadPackage \/ ResetUpload
  <2>1. \A p \in Packages : \A s \in Students : received[p][s] \in Nat
    BY BoundsAssumption DEF TypeOK
  <2>2. CASE UNCHANGED <<loaded, papers>>
    BY <1>3, <2>2, Loads
  <2>3. CASE \A p \in Packages : loaded = p =>
               \/ state[p] = "none"
               \/ pc = "resetLoad" /\ target # NoPackage /\ target = p
    <3>1. \A p \in Packages : \A s \in Students :
            written[p][s] <= received[p][s]
      BY <2>1, <2>3 DEF Unwritten, Sending
    <3>. QED
      BY <1>3, <3>1, Loads
  <2>. QED
    BY <1>3, <2>2, <2>3, Loads
<1>4. CASE UploadAnswers
  <2>1. \A p \in Packages : \A s \in Students :
          received[p][s] \in Nat /\ received'[p][s] \in Nat
          /\ written[p][s] \in Nat
    BY BoundsAssumption, TypedNext, AutoSteps DEF TypeOK, Server!ServerTypeOK
  <2>2. /\ UNCHANGED <<loaded, papers, written>>
        /\ \A p \in Packages : \A s \in Students :
             received[p][s] <= received'[p][s]
    BY <1>4, Uploads
  <2>. QED
    BY <2>1, <2>2
<1>5. CASE StopSession
  BY <1>5, Ends
<1>6. CASE People
  <2>1. CASE UNCHANGED <<papers, written>>
    BY <1>6, <2>1, PeopleAct
  <2>2. ASSUME NEW s \in Students, Server!SaveAnswers(s)
        PROVE  NoAnswerIsLost'
    <3>1. UNCHANGED <<loaded, received>>
      BY <1>6, PeopleAct
    <3>2. papers'[s] <= papers'[s]
      BY BoundsAssumption, TypedNext, AutoSteps DEF TypeOK, Server!ServerTypeOK
    <3>3. \A q \in Students \ {s} : papers'[q] = papers[q]
      BY <2>2 DEF Server!SaveAnswers, TypeOK, Server!ServerTypeOK
    <3>4. \A p \in Packages : \A q \in Students :
            written'[p][q] = IF p = loaded /\ q = s THEN papers'[s]
                                                   ELSE written[p][q]
      BY <2>2 DEF Server!SaveAnswers, TypeOK, Server!ServerTypeOK
    <3>. QED
      BY <3>1, <3>2, <3>3, <3>4
  <2>. QED
    BY <1>6, <2>1, <2>2, PeopleAct DEF Server!Join, Server!Finish
<1>7. CASE ~WorkStep /\ ~ChangeKeycode /\ ~People
  BY <1>7, Bystanders DEF SessionVars
<1>. QED
  BY <1>1, <1>2, <1>3, <1>4, <1>5, <1>6, <1>7, PlainCalls, ReportRead, Downloads
     DEF WorkStep, ChangeKeycode, Server!ChangeSecurityCode, Frame, storeVars,
         reportVars

\* At first nobody has written anything, and the students know the code.
LEMMA InitStudents == Init => StudentInv
<1>. SUFFICES ASSUME Init
              PROVE  StudentInv
  OBVIOUS
<1>1. TypeOK /\ WorkInv
  BY InitTyped, InitWork
<1>2. /\ \A p \in Packages : state[p] = "none" /\ loaded # p
      /\ \A s \in Students : session[s] = "out"
      /\ \A p \in Packages : \A s \in Students :
           written[p][s] = 0 /\ received[p][s] = 0
      /\ pc = "idle" /\ target = NoPackage /\ isStopped = FALSE
  BY ValuesAssumption
     DEF Init, Lifecycle!Init, Lifecycle!NoState, Server!ServerInit,
         Server!NoPapers
<1>3. ServerInv
  BY <1>2 DEF ServerInv, ShutDoor, QuietServer, LoadedWork, Unwritten
<1>4. EndInv
  BY <1>2 DEF EndInv, StoppingReport, StoppingWork, StoppedServer, Sending,
              NoAnswerIsLost
<1>. QED
  BY <1>1, <1>3, <1>4 DEF StudentInv

\* The invariant of stopping and archiving is inductive.
LEMMA StudentsNext ==
  ASSUME "disable_auto" \notin Manual, MaxDelayed = 0, StudentInv, DoorInv,
         [Next]_vars
  PROVE  (StudentInv /\ DoorInv)'
<1>1. [AutoNext]_vars
  BY CommandsRefused DEF DoorInv
<1>2. TypeOK' /\ WorkInv' /\ DoorInv'
  BY <1>1, TypedNext, WorkNext, DoorNext DEF StudentInv
<1>3. ServerInv'
  BY <1>1, ShutNext, QuietNext, LoadedNext, UnwrittenNext
     DEF StudentInv, ServerInv
<1>4. EndInv'
  BY <1>1, ReportNext, StoppingNext, StoppedNext, SendingNext, AnswersNext
     DEF EndInv
<1>. QED
  BY <1>2, <1>3, <1>4 DEF StudentInv

\* What the theorems below rest on
LEMMA StudentsAreServed ==
  ASSUME "disable_auto" \notin Manual, MaxDelayed = 0
  PROVE  Spec => [](StudentInv /\ DoorInv)
<1>1. Init => StudentInv /\ DoorInv
  BY InitStudents, InitDoor
<1>2. (StudentInv /\ DoorInv) /\ [Next]_vars => (StudentInv /\ DoorInv)'
  BY StudentsNext
<1>. QED
  BY <1>1, <1>2, PTL DEF Spec

(***************************************************************************)
(* Under auto control, when the stats messages are read as they are sent,  *)
(* a package is "stopped" only after every session on Abitti2 has ended,   *)
(* whatever calls fail and however often the agent is started over: the    *)
(* report that __stop_current_exam_package looks at was received after the *)
(* API was told "stopping", by when nobody could join any more.            *)
(***************************************************************************)
THEOREM SessionsEnd ==
  ASSUME "disable_auto" \notin Manual, MaxDelayed = 0
  PROVE  Spec => []StoppedMeansNoSession
<1>1. StudentInv => StoppedMeansNoSession
  BY DEF StudentInv, EndInv, StoppedServer, NoneIn, StoppedMeansNoSession
<1>. QED
  BY <1>1, StudentsAreServed, PTL

(***************************************************************************)
(* Under the same assumptions no answer is lost: Abitti2 is reset and      *)
(* loaded with another package only when Exam-O-Matic has every paper that *)
(* was saved, or when there was none, which is what the report says that   *)
(* __archive_current_exam_package decides by.                              *)
(***************************************************************************)
THEOREM AnswersArrive ==
  ASSUME "disable_auto" \notin Manual, MaxDelayed = 0
  PROVE  Spec => []NoAnswerIsLost
<1>1. StudentInv => NoAnswerIsLost
  BY DEF StudentInv, EndInv
<1>. QED
  BY <1>1, StudentsAreServed, PTL

(***************************************************************************)
(* Under the same assumptions the answers downloaded from Abitti2 are sent *)
(* to Exam-O-Matic as those of the package they were written in.           *)
(***************************************************************************)
THEOREM AnswersAreOwn ==
  ASSUME "disable_auto" \notin Manual, MaxDelayed = 0
  PROVE  Spec => []OnlyOwnAnswers
<1>1. StudentInv => OnlyOwnAnswers
  BY DEF StudentInv, EndInv, Sending, OnlyOwnAnswers
<1>. QED
  BY <1>1, StudentsAreServed, PTL

------------------------------------------------------------------------------
(***************************************************************************)
(* The request for the answers, with all commands of the operators.        *)
(***************************************************************************)

\* A report that was received after stopping began, and any report once all
\* has stopped, is about the package that is loaded.
ReportCounts(p) ==
  state[p] = "stopped" \/ (state[p] = "stopping" /\ fresh = TRUE)

CountedPapers ==
  \A p \in Packages :
    loaded = p /\ ReportCounts(p) /\ report # NoReport /\ report.papers = TRUE
      => papers # Server!NoPapers

\* That all has stopped is never decided without such a report.
CountedDecision ==
  pc \in {"stop", "set"} /\ target # NoPackage /\ state[target] = "stopping" =>
    /\ isStopped = TRUE => fresh = TRUE
    /\ pc = "set" => isStopped = TRUE

RequestInv == CountedPapers /\ CountedDecision /\ AnswersAreThere

RequestVars == <<state, loaded, papers, report, fresh>>
Deciding == {"stop", "set", "download"}

\* Work that is at another step has decided nothing.
LEMMA RequestElsewhere ==
  ASSUME RequestInv, UNCHANGED RequestVars,
         \/ pc' \notin Deciding
         \/ UNCHANGED <<pc, target, isStopped>>
  PROVE  RequestInv'
<1>. USE DEF RequestVars
<1>1. CountedPapers'
  BY DEF RequestInv, CountedPapers, ReportCounts
<1>2. CountedDecision' /\ AnswersAreThere'
  BY DEF RequestInv, CountedDecision, AnswersAreThere, Deciding
<1>. QED
  BY <1>1, <1>2 DEF RequestInv

\* Whoever is not at work, and no student, leaves packages and papers alone.
LEMMA OthersAside ==
  ASSUME WorkInv, [Next]_vars, ~WorkStep, ~People
  PROVE  /\ UNCHANGED <<state, loaded, papers>>
         /\ UNCHANGED <<pc, target, isStopped>> \/ pc' \notin Deciding
         /\ ReceiveStats \/ UNCHANGED reportVars
<1>. USE DEF storeVars, scheduleVars, reportVars, serverVars, memoryVars,
             workVars
<1>1. ASSUME NEW trigger, Work(trigger)
      PROVE  /\ UNCHANGED <<state, loaded, papers>> /\ UNCHANGED reportVars
             /\ UNCHANGED <<pc, target, isStopped>> \/ pc' \notin Deciding
  <2>1. ASSUME NEW q, Take(q, trigger)
        PROVE  UNCHANGED <<pc, target, isStopped>> \/ pc' \notin Deciding
    BY <2>1 DEF Take, FirstStep, Deciding
  <2>. QED
    BY <1>1, <2>1 DEF Work, Lifecycle!Elect, Go, Deciding
<1>2. CASE TimeWork \/ \E c \in Manual : Command(c)
  BY <1>1, <1>2 DEF TimeWork, Command
<1>3. CASE \E killed \in BOOLEAN : Restart(killed)
  BY <1>3 DEF Restart, Leave, Deciding
<1>4. CASE OtherClient
  BY <1>4 DEF OtherClient, Lifecycle!Elect
<1>5. CASE \/ DelayStats \/ ReceiveStats \/ ReceiveExamList \/ RefreshExams
           \/ TimePasses \/ UNCHANGED vars
  BY <1>5 DEF DelayStats, ReceiveStats, ReceiveExamList, RefreshExams,
              TimePasses, vars
<1>6. CASE ChangeKeycode
  BY <1>6 DEF ChangeKeycode, Server!ChangeSecurityCode
<1>. QED
  BY <1>2, <1>3, <1>4, <1>5, <1>6 DEF Next

\* A report that is read at once says what is on the server.
LEMMA RequestReads ==
  ASSUME MaxDelayed = 0, TypeOK, RequestInv, ReceiveStats
  PROVE  RequestInv'
<1>1. /\ UNCHANGED <<state, loaded, papers>> /\ pc' = "idle"
      /\ UNCHANGED reportVars \/ (report'.papers <=> papers # Server!NoPapers)
  BY Reads DEF ReceiveStats, storeVars, serverVars, workVars
<1>2. CountedPapers'
  <2>1. CASE UNCHANGED reportVars
    BY <1>1, <2>1 DEF RequestInv, CountedPapers, ReportCounts, reportVars
  <2>2. CASE report'.papers <=> papers # Server!NoPapers
    BY <1>1, <2>2 DEF CountedPapers
  <2>. QED
    BY <1>1, <2>1, <2>2
<1>3. CountedDecision' /\ AnswersAreThere'
  BY <1>1 DEF CountedDecision, AnswersAreThere
<1>. QED
  BY <1>2, <1>3 DEF RequestInv

\* Students only add to the papers.
LEMMA RequestPeople ==
  ASSUME TypeOK, RequestInv, People
  PROVE  RequestInv'
<1>1. UNCHANGED <<state, loaded, report, fresh, pc, target, isStopped>>
  BY DEF People, Server!Student, Server!Join, Server!SaveAnswers,
         Server!Finish, Server!AnnounceCode, storeVars, reportVars, workVars
<1>2. papers # Server!NoPapers => papers' # Server!NoPapers
  <2>1. CASE \E s \in Students : Server!SaveAnswers(s)
    <3>1. PICK s \in Students : Server!SaveAnswers(s)
      BY <2>1
    <3>2. papers' = [papers EXCEPT ![s] = @ + 1]
      BY <3>1 DEF Server!SaveAnswers
    <3>3. papers \in [Students -> 0..MaxEdits]
      BY DEF TypeOK, Server!ServerTypeOK
    <3>4. papers'[s] = papers[s] + 1 /\ papers[s] \in Nat
      BY <3>2, <3>3, BoundsAssumption
    <3>5. papers'[s] # 0
      BY <3>4
    <3>. QED
      BY <3>5 DEF Server!NoPapers
  <2>2. CASE UNCHANGED papers
    BY <2>2
  <2>. QED
    BY <2>1, <2>2 DEF People, Server!Student, Server!Join, Server!Finish,
                      Server!AnnounceCode
<1>3. CountedPapers'
  BY <1>1, <1>2 DEF RequestInv, CountedPapers, ReportCounts
<1>4. CountedDecision' /\ AnswersAreThere'
  BY <1>1, <1>2 DEF RequestInv, CountedDecision, AnswersAreThere
<1>. QED
  BY <1>3, <1>4 DEF RequestInv

\* What is loaded counts for no report: it has no state yet, or is no exam.
LEMMA RequestLoads ==
  ASSUME WorkInv, RequestInv, UploadPackage \/ ResetUpload
  PROVE  RequestInv'
<1>1. /\ UNCHANGED <<state, report, fresh>>
      /\ pc' \in {"idle", "decrypt", "resetDecrypt"}
      /\ \/ UNCHANGED <<loaded, papers>>
         \/ UploadPackage /\ loaded' = target
         \/ loaded' = Dummy
  BY DEF UploadPackage, ResetUpload, ServerCall, Call, Go, Leave, storeVars,
         reportVars, serverVars, Server!LoadExam
<1>2. UploadPackage => target # NoPackage /\ state[target] = "none"
  BY DEF UploadPackage, ServerCall, WorkInv, IdleWork, PackageWork, Resetting
<1>3. CountedPapers'
  <2>1. CASE UNCHANGED <<loaded, papers>>
    BY <1>1, <2>1 DEF RequestInv, CountedPapers, ReportCounts
  <2>2. CASE UploadPackage /\ loaded' = target
    BY <1>1, <1>2, <2>2 DEF CountedPapers, ReportCounts
  <2>3. CASE loaded' = Dummy
    BY <2>3, ValuesAssumption DEF CountedPapers
  <2>. QED
    BY <1>1, <2>1, <2>2, <2>3
<1>4. CountedDecision' /\ AnswersAreThere'
  BY <1>1 DEF CountedDecision, AnswersAreThere
<1>. QED
  BY <1>3, <1>4 DEF RequestInv

\* The decision is taken from the last report.
LEMMA RequestReport ==
  ASSUME TypeOK, WorkInv, RequestInv, GetReport
  PROVE  RequestInv'
<1>1. UNCHANGED RequestVars
  BY DEF GetReport, RequestVars, storeVars, serverVars, reportVars
<1>2. CASE Leave
  BY <1>1, <1>2, RequestElsewhere DEF Leave, Deciding
<1>3. CASE /\ report # NoReport /\ state[target] = "stopped"
           /\ Go(IF report.papers THEN "download" ELSE "resetLoad")
  <2>1. report.papers \in BOOLEAN
    BY <1>3 DEF TypeOK, Server!StatsType
  <2>2. CASE report.papers = FALSE
    BY <1>1, <1>3, <2>2, RequestElsewhere DEF Go, Deciding
  <2>3. CASE report.papers = TRUE
    <3>1. target \in Packages
      BY DEF GetReport, WorkInv, LifeType, IdleWork, Resetting
    <3>2. pc' = "download" /\ UNCHANGED target
      BY <1>3, <2>3 DEF Go
    <3>3. AnswersAreThere'
      <4>1. /\ ReportCounts(target) /\ CountedPapers
            /\ report # NoReport /\ report.papers = TRUE
        BY <1>3, <2>3 DEF RequestInv, ReportCounts
      <4>2. loaded = target => papers # Server!NoPapers
        BY <3>1, <4>1 DEF CountedPapers
      <4>. QED
        BY <1>1, <3>2, <4>2 DEF AnswersAreThere, RequestVars
    <3>4. CountedDecision' /\ CountedPapers'
      BY <1>1, <3>2 DEF RequestInv, CountedPapers, ReportCounts,
                        CountedDecision, RequestVars
    <3>. QED
      BY <3>3, <3>4 DEF RequestInv
  <2>. QED
    BY <2>1, <2>2, <2>3
<1>4. CASE pc' = "stop" /\ isStopped' = AllStopped /\ UNCHANGED target
  <2>1. fresh \in BOOLEAN
    BY DEF TypeOK
  <2>2. isStopped' = TRUE => fresh = TRUE
    BY <1>4, <2>1 DEF AllStopped
  <2>3. CountedDecision' /\ AnswersAreThere'
    BY <1>1, <1>4, <2>2 DEF CountedDecision, AnswersAreThere, RequestVars
  <2>4. CountedPapers'
    BY <1>1 DEF RequestInv, CountedPapers, ReportCounts, RequestVars
  <2>. QED
    BY <2>3, <2>4 DEF RequestInv
<1>. QED
  BY <1>2, <1>3, <1>4 DEF GetReport

\* "stopping" counts no report that was received before, and it is left with
\* one that was received after.
LEMMA RequestSetState ==
  ASSUME WorkInv, RequestInv, SetState
  PROVE  RequestInv'
<1>1. /\ pc = "set" /\ pc' = "idle" /\ UNCHANGED <<loaded, papers, report>>
      /\ \/ UNCHANGED <<state, fresh>>
         \/ Lifecycle!Advance(target) /\ fresh' = FALSE
  BY DEF SetState, Call, Leave, storeVars, serverVars
<1>2. CASE UNCHANGED <<state, fresh>>
  BY <1>1, <1>2, RequestElsewhere DEF RequestVars, Deciding
<1>3. CASE Lifecycle!Advance(target) /\ fresh' = FALSE
  <2>1. target \in Packages /\ target # NoPackage
    BY <1>3, ValuesAssumption DEF Lifecycle!Advance, WorkInv, LifeType
  <2>2. /\ \A p \in Packages \ {target} : state'[p] = state[p]
        /\ state'[target] = "stopped" => state[target] = "stopping"
    BY <1>3, <2>1
       DEF Lifecycle!Advance, Lifecycle!NextState, Lifecycle!NoState,
           Lifecycle!PackageStates, WorkInv, LifeType
  <2>3. state[target] = "stopping" => fresh = TRUE
    BY <1>1, <2>1 DEF RequestInv, CountedDecision
  <2>4. ASSUME NEW p \in Packages, ReportCounts(p)'
        PROVE  ReportCounts(p)
    BY <1>3, <2>2, <2>3, <2>4 DEF ReportCounts
  <2>5. CountedPapers'
    BY <1>1, <2>4 DEF RequestInv, CountedPapers
  <2>6. CountedDecision' /\ AnswersAreThere'
    BY <1>1 DEF CountedDecision, AnswersAreThere
  <2>. QED
    BY <2>5, <2>6 DEF RequestInv
<1>. QED
  BY <1>1, <1>2, <1>3

\* The other calls change neither papers nor reports.
LEMMA RequestCalls ==
  ASSUME TypeOK, WorkInv, RequestInv,
         \/ ChangeCode \/ DecryptPackage \/ StartExam \/ StopSession
         \/ SessionsStopped \/ ResetDecrypt \/ ResetStart
         \/ DownloadAnswers \/ UploadAnswers
  PROVE  RequestInv'
<1>1. CASE StopSession
  <2>1. UNCHANGED RequestVars
    BY <1>1, Ends DEF RequestVars
  <2>. QED
    BY <1>1, <2>1, Ends, RequestElsewhere DEF Leave, Deciding
<1>2. CASE DownloadAnswers \/ UploadAnswers
  <2>1. UNCHANGED RequestVars /\ pc' \in {"idle", "upload", "resetLoad"}
    BY <1>2 DEF DownloadAnswers, UploadAnswers, Call, Go, Leave, RequestVars,
                storeVars, reportVars, serverVars
  <2>. QED
    BY <2>1, RequestElsewhere DEF Deciding
<1>3. CASE \/ ChangeCode \/ DecryptPackage \/ StartExam \/ ResetDecrypt
           \/ ResetStart \/ SessionsStopped
  <2>1. UNCHANGED RequestVars
    BY <1>3, PlainCalls DEF Frame, RequestVars
  <2>2. CASE pc' \notin Deciding
    BY <2>1, <2>2, RequestElsewhere
  <2>3. CASE pc' \in Deciding
    <3>1. /\ pc' = "set" /\ UNCHANGED <<target, isStopped>>
          /\ target # NoPackage =>
               state[target] # "stopping" \/ isStopped = TRUE
      BY <1>3, <2>3, PlainCalls DEF Deciding, Leave, Rest
    <3>2. state[target] = "stopping" /\ target # NoPackage => pc = "stop"
      <4>1. state[target] = "stopping" /\ target # NoPackage =>
              pc \notin {"decrypt", "start"} \cup Resetting
        BY DEF WorkInv, PackageWork
      <4>2. pc \in {"decrypt", "start", "stop"} \cup Resetting
        BY <1>3, <3>1
           DEF ChangeCode, DecryptPackage, StartExam, ResetDecrypt, ResetStart,
               SessionsStopped, ServerCall, Call, Go, Leave, Resetting
      <4>. QED
        BY <4>1, <4>2
    <3>3. CountedDecision'
      BY <2>1, <3>1, <3>2 DEF RequestInv, CountedDecision, RequestVars
    <3>4. CountedPapers' /\ AnswersAreThere'
      BY <2>1, <3>1 DEF RequestInv, CountedPapers, ReportCounts,
                        AnswersAreThere, RequestVars
    <3>. QED
      BY <3>3, <3>4 DEF RequestInv
  <2>. QED
    BY <2>2, <2>3
<1>. QED
  BY <1>1, <1>2, <1>3

\* Every step keeps what a request for answers rests on.
LEMMA RequestNext ==
  ASSUME MaxDelayed = 0, TypeOK, WorkInv, RequestInv, [Next]_vars
  PROVE  RequestInv'
<1>1. CASE WorkStep
  BY <1>1, RequestCalls, RequestLoads, RequestReport, RequestSetState
     DEF WorkStep
<1>2. CASE ~WorkStep /\ ~People /\ UNCHANGED reportVars
  <2>1. UNCHANGED RequestVars
    BY <1>2, OthersAside DEF RequestVars, reportVars
  <2>. QED
    BY <1>2, <2>1, OthersAside, RequestElsewhere
<1>. QED
  BY <1>1, <1>2, OthersAside, RequestPeople, RequestReads

(***************************************************************************)
(* When the stats messages are read as they are sent, Abitti2 is asked for *)
(* the answers of a package it still holds only if it has some, whatever   *)
(* the operators command and whatever fails: the report that says so was   *)
(* received after stopping had begun, and papers do not go away.  What the *)
(* run agent_no_answers shows can only happen after the reset.             *)
(***************************************************************************)
THEOREM RequestsAreAnswered ==
  ASSUME MaxDelayed = 0
  PROVE  Spec => []AnswersAreThere
<1>. DEFINE IInv == TypeOK /\ WorkInv /\ RequestInv
<1>1. Init => IInv
  <2>1. Init => RequestInv
    BY DEF Init, RequestInv, CountedPapers, CountedDecision, AnswersAreThere
  <2>. QED
    BY <2>1, InitTyped, InitWork
<1>2. IInv /\ [Next]_vars => IInv'
  BY TypedNext, WorkNext, RequestNext
<1>3. IInv => AnswersAreThere
  BY DEF RequestInv
<1>. QED
  BY <1>1, <1>2, <1>3, PTL DEF Spec
==============================================================================
