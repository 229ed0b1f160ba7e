-------------------------------- MODULE Agent --------------------------------
(***************************************************************************)
(* The work of ktp_controller/agent/main.py on the current exam package.   *)
(* The agent is one asyncio task at a time: its calls to the API, Abitti2  *)
(* and Exam-O-Matic block, so a piece of work is a sequence of calls that  *)
(* no other work of the agent interrupts, while Abitti2, the students, the *)
(* clock and other clients of the API move between any two calls.  A call  *)
(* may fail before or after it has its effect, and the agent may be killed *)
(* at any point: the work is then started over from what the API stored.   *)
(*                                                                         *)
(* The exam packages of the API are those of ExamLifecycle, which          *)
(* ExamStore implements.  Packages are known and locked from the start;    *)
(* importing exam information again may change their times and unlock them.*)
(***************************************************************************)
EXTENDS Naturals, Sequences

CONSTANTS
  Packages, Students, Dummy, NoExam, NoPackage, NoReport,
  MaxEdits,    \* bound: how often a student saves an answer paper
  MaxDelayed,  \* bound: stats messages sent while the agent is blocked
  MaxFaults,   \* bound: failed calls and killed agents
  MaxImports,  \* bound: imports that change the times or the lock of a package
  Manual       \* the commands the operators give

ASSUME BoundsAssumption == MaxEdits \in Nat /\ MaxDelayed \in Nat
                           /\ MaxFaults \in Nat /\ MaxImports \in Nat
ASSUME ValuesAssumption == /\ Dummy \notin Packages /\ NoExam \notin Packages
                           /\ NoPackage \notin Packages /\ Dummy # NoExam

VARIABLES
  state, current,             \* the API's exam packages
  window,                     \* package -> "early", "open", "over"
  locked,                     \* the API's packages flagged as locked
  report,                     \* the last status report the API stored
  fresh,                      \* received_at > state_changed_at of it
  loaded, phase, session, papers, codeKnown, written,      \* Abitti2
  channel,                    \* stats messages on their way to the agent
  examList,                   \* __last_received_exam_list
  auto,                       \* is_auto_control_enabled
  savedAuto,                  \* the same in agent-state.json
  pc, target, toStop, isStopped, download,    \* the work in progress
  received,                   \* the papers Exam-O-Matic was sent
  faults, imports             \* failures and imports so far

Server == INSTANCE Abitti2
Lifecycle == INSTANCE ExamLifecycle

storeVars == <<state, current>>
scheduleVars == <<window, locked, imports>>
reportVars == <<report, fresh>>
serverVars == <<loaded, phase, session, papers, codeKnown, written>>
memoryVars == <<channel, examList, auto, savedAuto>>
workVars == <<pc, target, toStop, isStopped, download>>
vars == <<storeVars, scheduleVars, reportVars, serverVars, memoryVars, workVars,
          received, faults>>

Steps == {"idle", "code", "load", "decrypt", "start", "report", "stop",
          "download", "upload", "resetLoad", "resetDecrypt", "resetStart",
          "set"}

Commands == {"enable_auto", "disable_auto", "manual_prepare", "manual_start",
             "manual_stop", "manual_archive"}

ASSUME ManualAssumption == Manual \subseteq Commands

Windows == {"early", "open", "over"}

NoDownload == [exam |-> NoExam, papers |-> Server!NoPapers]

TypeOK ==
  /\ Lifecycle!TypeOK
  /\ window \in [Packages -> Windows]
  /\ locked \subseteq Packages /\ imports \in 0..MaxImports
  /\ report \in Server!StatsType \cup {NoReport}
  /\ fresh \in BOOLEAN
  /\ Server!ServerTypeOK
  /\ channel \in Seq(Server!StatsType) /\ Len(channel) <= MaxDelayed
  /\ examList \in {"none", "empty", "exams"}
  /\ auto \in BOOLEAN /\ savedAuto \in BOOLEAN
  /\ pc \in Steps
  /\ target \in Packages \cup {NoPackage}
  /\ toStop \subseteq Students /\ isStopped \in BOOLEAN
  /\ download \in [exam : Packages \cup {Dummy, NoExam},
                   papers : [Students -> 0..MaxEdits]]
  /\ received \in [Packages -> [Students -> 0..MaxEdits]]
  /\ faults \in 0..MaxFaults

\* The first start of the agent: there is no state file, so auto control is
\* enabled, and nothing is known of Abitti2.
Init ==
  /\ Lifecycle!Init
  /\ window = [p \in Packages |-> "early"]
  /\ locked = Packages /\ imports = 0
  /\ report = NoReport /\ fresh = FALSE
  /\ Server!ServerInit
  /\ channel = <<>> /\ examList = "none"
  /\ auto = TRUE /\ savedAuto = TRUE
  /\ pc = "idle" /\ target = NoPackage
  /\ toStop = {} /\ isStopped = FALSE /\ download = NoDownload
  /\ received = [p \in Packages |-> Server!NoPapers]
  /\ faults = 0

------------------------------------------------------------------------------
(***************************************************************************)
(* Calls.  An exception ends the work: it reaches the loop that got the    *)
(* pong or the command, which reconnects or reports an error.              *)
(***************************************************************************)

Go(step) == pc' = step /\ UNCHANGED <<target, toStop, isStopped, download>>

Leave == /\ pc' = "idle" /\ target' = NoPackage
         /\ toStop' = {} /\ isStopped' = FALSE /\ download' = NoDownload

Fault == faults < MaxFaults /\ faults' = faults + 1

\* The call is answered, or it raises, done or not done.
Call(effect, noEffect, onward) ==
  \/ effect /\ onward /\ UNCHANGED faults
  \/ (effect \/ noEffect) /\ Leave /\ Fault

\* A call to Abitti2 that does not change what is sent or stored elsewhere.
ServerCall(step, effect, onward) ==
  /\ pc = step
  /\ Call(effect, UNCHANGED serverVars, onward)
  /\ UNCHANGED <<storeVars, scheduleVars, reportVars, memoryVars, received>>

------------------------------------------------------------------------------
(***************************************************************************)
(* __work_on_current_exam_package: what a trigger starts.                  *)
(***************************************************************************)

\* Variation: an exam that is not started in time is not started at all.
TimeConditionInTime(p) ==
  CASE state[p] = "none"     -> auto
    [] state[p] = "ready"    -> auto /\ window[p] = "open"
    [] state[p] = "running"  -> auto /\ window[p] = "over"
    [] state[p] = "stopping" -> TRUE
    [] state[p] = "stopped"  -> auto

\* Variation: stopping, too, is left to the operator without auto control.
TimeConditionAutoOnly(p) ==
  CASE state[p] = "none"     -> auto
    [] state[p] = "ready"    -> auto /\ window[p] # "early"
    [] state[p] = "running"  -> auto /\ window[p] = "over"
    [] state[p] = "stopping" -> auto
    [] state[p] = "stopped"  -> auto

TimeCondition(p) ==
  CASE state[p] = "none"     -> auto
    [] state[p] = "ready"    -> auto /\ window[p] # "early"
    [] state[p] = "running"  -> auto /\ window[p] = "over"
    [] state[p] = "stopping" -> TRUE
    [] state[p] = "stopped"  -> auto

ManualTrigger(s) ==
  CASE s = "none"    -> "manual_prepare"
    [] s = "ready"   -> "manual_start"
    [] s = "stopped" -> "manual_archive"
    [] OTHER         -> "manual_stop"

Applies(trigger, p) ==
  IF trigger = "time" THEN TimeCondition(p)
                      ELSE trigger = ManualTrigger(state[p])

\* Variation: the code is left as it is when the exam is stopped.
FirstStepKeepingCode(s) ==
  CASE s = "none"    -> IF auto THEN "code" ELSE "load"
    [] s = "ready"   -> "start"
    [] OTHER         -> "report"

FirstStep(s) ==
  CASE s = "none"    -> IF auto THEN "code" ELSE "load"
    [] s = "ready"   -> "start"
    [] s = "stopped" -> "report"
    [] OTHER         -> IF auto THEN "code" ELSE "report"

\* A current package that is not locked is an error, and so is a command
\* that does not fit its state.
Take(p, trigger) ==
  IF p \in locked /\ Applies(trigger, p)
  THEN /\ pc' = FirstStep(state[p])
       /\ target' = p
       /\ UNCHANGED <<toStop, isStopped, download>>
  ELSE UNCHANGED workVars

\* The packages that the API may elect.
Electable ==
  {p \in Packages : p \in locked /\ state[p] = "none" /\ window[p] # "over"}

\* The call to get_current_exam_package and what is made of its answer.
Work(trigger) ==
  /\ pc = "idle"
  /\ trigger # "time" => ~auto
  /\ \/ \E p \in current : Take(p, trigger) /\ UNCHANGED storeVars
     \/ \E p \in Electable : Lifecycle!Elect(p) /\ Take(p, trigger)
     \/ /\ current = {} /\ Electable = {}
        /\ IF auto /\ examList = "empty" THEN Go("resetLoad")
                                         ELSE UNCHANGED workVars
        /\ UNCHANGED storeVars
  /\ UNCHANGED <<scheduleVars, reportVars, serverVars, memoryVars, received,
                 faults>>

\* A pong of the API
TimeWork == Work("time")

\* A command of an operator; one that changes the state is refused while
\* auto control is enabled.
Command(c) ==
  \/ /\ c \in {"enable_auto", "disable_auto"}
     /\ pc = "idle"
     /\ auto' = (c = "enable_auto")
     /\ UNCHANGED <<storeVars, scheduleVars, reportVars, serverVars, channel,
                    examList, savedAuto, workVars, received, faults>>
  \/ c \notin {"enable_auto", "disable_auto"} /\ Work(c)

------------------------------------------------------------------------------
(***************************************************************************)
(* The steps of the work.                                                  *)
(***************************************************************************)

\* abitti2.client.change_single_security_code
ChangeCode ==
  ServerCall("code", Server!ChangeSecurityCode,
             Go(IF state[target] = "none" THEN "load" ELSE "report"))

\* Variation: an uploaded package counts as prepared.
UploadPackageOnly == ServerCall("load", Server!LoadExam(target), Go("set"))

\* abitti2.client.prepare_exam_package; __prepare_current_exam_package
UploadPackage == ServerCall("load", Server!LoadExam(target), Go("decrypt"))
DecryptPackage == ServerCall("decrypt", Server!DecryptExams, Go("set"))

\* __start_current_exam_package
StartExam == ServerCall("start", Server!StartExams, Go("set"))

\* Variation: it does not matter when the report was received.
AllStoppedInAnyReport == report.open = {} /\ state[target] = "stopping"

\* What the stop function decides from the report, before it is known that
\* any of its calls worked.
AllStopped == report.open = {} /\ state[target] = "stopping" /\ fresh

\* api.client.get_last_abitti2_status_report, for stopping and archiving.
\* Without a report, None is subscripted: a TypeError.
GetReport ==
  /\ pc = "report"
  /\ \/ report = NoReport /\ Leave /\ UNCHANGED faults
     \/ Leave /\ Fault
     \/ /\ report # NoReport /\ state[target] = "stopped"
        /\ Go(IF report.papers THEN "download" ELSE "resetLoad")
        /\ UNCHANGED faults
     \/ /\ report # NoReport /\ state[target] # "stopped"
        /\ pc' = "stop"
        /\ toStop' = report.students
        /\ isStopped' = AllStopped
        /\ UNCHANGED <<target, download, faults>>
  /\ UNCHANGED <<storeVars, scheduleVars, reportVars, serverVars, memoryVars,
                 received>>

\* abitti2.client.stop_exam_session for the next student of the report.  It
\* is not known whether Abitti2 minds a session that is gone.
StopSession ==
  /\ toStop # {}
  /\ \E s \in toStop :
       \/ ServerCall("stop", Server!EndSession(s),
                     /\ toStop' = toStop \ {s}
                     /\ UNCHANGED <<pc, target, isStopped, download>>)
       \/ /\ session[s] = "out"
          /\ ServerCall("stop", UNCHANGED serverVars, Leave)

\* Every call was made: "running" becomes "stopping" whatever came of it,
\* "stopping" becomes "stopped" only when the report said so.
SessionsStopped ==
  /\ pc = "stop" /\ toStop = {}
  /\ IF state[target] = "running" \/ isStopped THEN Go("set") ELSE Leave
  /\ UNCHANGED <<storeVars, scheduleVars, reportVars, serverVars, memoryVars,
                 received, faults>>

\* abitti2.client.download_answers_file: without answers Abitti2 never
\* answers, and the read times out.
DownloadAnswers ==
  /\ pc = "download"
  /\ \/ papers # Server!NoPapers
        /\ pc' = "upload"
        /\ download' = [exam |-> loaded, papers |-> papers]
        /\ UNCHANGED <<target, toStop, isStopped, faults>>
     \/ papers = Server!NoPapers /\ Leave /\ UNCHANGED faults
     \/ Leave /\ Fault
  /\ UNCHANGED <<storeVars, scheduleVars, reportVars, serverVars, memoryVars,
                 received>>

LaterPapers(a, b) == [s \in Students |-> IF a[s] < b[s] THEN b[s] ELSE a[s]]

\* Variation: a file that is sent again is counted again.
UploadAnswersAdded ==
  /\ pc = "upload"
  /\ Call(received' = [received EXCEPT ![target] =
                        [s \in Students |-> @[s] + download.papers[s]]],
          UNCHANGED received,
          Go("resetLoad"))
  /\ UNCHANGED <<storeVars, scheduleVars, reportVars, serverVars, memoryVars>>

\* Variation: a failed upload is logged and forgotten.
UploadAnswersUnchecked ==
  /\ pc = "upload"
  /\ \/ received' =
          [received EXCEPT ![target] = LaterPapers(@, download.papers)]
        /\ UNCHANGED faults
     \/ UNCHANGED received /\ Fault
  /\ Go("resetLoad")
  /\ UNCHANGED <<storeVars, scheduleVars, reportVars, serverVars, memoryVars>>

\* examomatic.client.upload_answers_file: Exam-O-Matic keeps every file.
UploadAnswers ==
  /\ pc = "upload"
  /\ Call(received' = IF download.exam = target
                      THEN [received EXCEPT ![target] =
                              LaterPapers(@, download.papers)]
                      ELSE received,
          UNCHANGED received,
          Go("resetLoad"))
  /\ UNCHANGED <<storeVars, scheduleVars, reportVars, serverVars, memoryVars>>

\* abitti2.client.reset, at the end of archiving or with nothing to do
ResetUpload ==
  ServerCall("resetLoad", Server!LoadExam(Dummy), Go("resetDecrypt"))
ResetDecrypt ==
  ServerCall("resetDecrypt", Server!DecryptExams, Go("resetStart"))
ResetStart == ServerCall("resetStart", Server!StartExams,
                         IF target = NoPackage THEN Leave ELSE Go("set"))

\* api.client.set_current_exam_package_state: from now on only a report
\* received later counts.
SetState ==
  /\ pc = "set"
  /\ Call(Lifecycle!Advance(target) /\ fresh' = FALSE,
          UNCHANGED <<storeVars, fresh>>,
          Leave)
  /\ UNCHANGED <<scheduleVars, report, serverVars, memoryVars, received>>

WorkStep ==
  \/ ChangeCode \/ UploadPackage \/ DecryptPackage \/ StartExam
  \/ GetReport \/ StopSession \/ SessionsStopped
  \/ DownloadAnswers \/ UploadAnswers
  \/ ResetUpload \/ ResetDecrypt \/ ResetStart
  \/ SetState

------------------------------------------------------------------------------
(***************************************************************************)
(* Messages of Abitti2 and Exam-O-Matic, handled between two pieces of     *)
(* work, and restarts.                                                     *)
(***************************************************************************)

\* Abitti2 sends a stats message that the agent does not read yet.
DelayStats ==
  /\ Len(channel) < MaxDelayed
  /\ channel' = Append(channel, Server!Stats)
  /\ UNCHANGED <<storeVars, scheduleVars, reportVars, serverVars, examList,
                 auto, savedAuto, workVars, received, faults>>

\* __handle_abitti2_stats_message: received_at is the time the message is
\* read.  The API refuses a report without a list of exams (status 422).
ReceiveStats ==
  /\ pc = "idle"
  /\ channel' = IF channel = <<>> THEN <<>> ELSE Tail(channel)
  /\ LET stats == IF channel = <<>> THEN Server!Stats ELSE Head(channel)
     IN \/ /\ examList # "none"
           /\ report' = stats /\ fresh' = TRUE
           /\ UNCHANGED faults
        \/ examList = "none" /\ UNCHANGED <<reportVars, faults>>
        \/ UNCHANGED reportVars /\ Fault
  /\ UNCHANGED <<storeVars, scheduleVars, serverVars, examList, auto, savedAuto,
                 workVars, received>>

\* __handle_abitti2_exams_message
ReceiveExamList ==
  /\ pc = "idle"
  /\ examList' = IF loaded = NoExam THEN "empty" ELSE "exams"
  /\ UNCHANGED <<storeVars, scheduleVars, reportVars, serverVars, channel, auto,
                 savedAuto, workVars, received, faults>>

\* A change_keycode message of Exam-O-Matic
ChangeKeycode ==
  /\ pc = "idle" /\ auto
  /\ Server!ChangeSecurityCode
  /\ UNCHANGED <<storeVars, scheduleVars, reportVars, memoryVars, workVars,
                 received, faults>>

\* __refresh_exams: Exam-O-Matic has changed a package, and the API saves it
\* as ExamStore's SaveExamInfo does, the current package too.
RefreshExams ==
  /\ pc = "idle"
  /\ imports < MaxImports /\ imports' = imports + 1
  /\ \E p \in Packages :
       /\ \E w \in Windows : window' = [window EXCEPT ![p] = w]
       /\ locked' \in {locked \cup {p}, locked \ {p}}
  /\ UNCHANGED <<storeVars, reportVars, serverVars, memoryVars, workVars,
                 received, faults>>

\* The agent stops and starts again: save_agent_state is called on the way
\* out, unless the process is killed.
Restart(killed) ==
  /\ Fault
  /\ savedAuto' = IF killed THEN savedAuto ELSE auto
  /\ auto' = savedAuto'
  /\ channel' = <<>> /\ examList' = "none"
  /\ Leave
  /\ UNCHANGED <<storeVars, scheduleVars, reportVars, serverVars, received>>

\* Another client of the API, such as the command line's status, asks for
\* the current exam package.
OtherClient ==
  /\ \E p \in Electable : Lifecycle!Elect(p)
  /\ UNCHANGED <<scheduleVars, reportVars, serverVars, memoryVars, workVars,
                 received, faults>>

TimePasses ==
  /\ \E p \in Packages :
       /\ window[p] # "over"
       /\ window' = [window EXCEPT ![p] = IF @ = "early" THEN "open"
                                                         ELSE "over"]
  /\ UNCHANGED <<storeVars, locked, imports, reportVars, serverVars, memoryVars,
                 workVars, received, faults>>

\* Nobody tells the students a code once the exam is being stopped or over.
People ==
  /\ \/ Server!Student
     \/ /\ Server!AnnounceCode
        /\ \A p \in current : /\ window[p] # "over"
                               /\ state[p] \notin {"stopping", "stopped"}
  /\ UNCHANGED <<storeVars, scheduleVars, reportVars, memoryVars, workVars,
                 received, faults>>

Next ==
  \/ TimeWork
  \/ \E c \in Manual : Command(c)
  \/ WorkStep
  \/ DelayStats \/ ReceiveStats \/ ReceiveExamList \/ ChangeKeycode
  \/ RefreshExams
  \/ \E killed \in BOOLEAN : Restart(killed)
  \/ OtherClient \/ TimePasses \/ People

Spec == Init /\ [][Next]_vars

\* The agent's event loop runs every task that can go on: calls end, and
\* between two pieces of work each connection gets its turn again and again.
\* Abitti2 sends its state when connected, and time passes.
Fairness == /\ WF_vars(WorkStep)
            /\ SF_vars(TimeWork)
            /\ SF_vars(ReceiveStats)
            /\ SF_vars(ReceiveExamList)
            /\ WF_vars(TimePasses)

FairSpec == Spec /\ Fairness

------------------------------------------------------------------------------
(***************************************************************************)
(* Properties.                                                             *)
(***************************************************************************)

\* The API never says more than Abitti2 does: the calls come before the
\* state, and nothing undoes them before the package is archived.
ServerFollowsState ==
  \A p \in Packages :
    /\ state[p] = "ready" => loaded = p /\ phase # "encrypted"
    /\ state[p] \in {"running", "stopping"} => loaded = p /\ phase = "running"
    /\ state[p] = "stopped" => loaded \in {p, Dummy}

\* Every paper a student saved is with Exam-O-Matic or still on Abitti2.
NoAnswerIsLost ==
  \A p \in Packages : \A s \in Students :
    \/ written[p][s] <= received[p][s]
    \/ loaded = p /\ written[p][s] <= papers[s]

\* "stopping" goes on until every session has ended.
StoppedMeansNoSession ==
  \A p \in Packages :
    state[p] = "stopped" /\ loaded = p => \A s \in Students : session[s] # "in"

\* Under auto control nobody can enter once the package is being stopped.
DoorIsShut ==
  \A p \in Packages : state[p] \in {"stopping", "stopped"} /\ loaded = p =>
    ~codeKnown

\* The answers of one package are never sent as those of another.
OnlyOwnAnswers == pc = "upload" => download.exam = target

\* As long as archiving has not come to its reset, answers are only asked for
\* when there are some: Abitti2 never answers a request for none.
AnswersAreThere ==
  pc = "download" /\ loaded = target => papers # Server!NoPapers

\* Answers are only asked for when there are some.
DownloadIsAnswered == pc = "download" => papers # Server!NoPapers

\* Once stopping has begun it comes to its end, whatever the operators do
\* about the auto control meanwhile, unless the package loses its lock.
StoppingEnds ==
  \A p \in Packages : <>[](p \in locked) =>
    (state[p] = "stopping" ~> state[p] \in {"stopped", "archived"})

\* A package that became current is archived, whatever fails, restarts or is
\* commanded on the way, if auto control and the lock stay on in the end.
CurrentGetsArchived ==
  \A p \in Packages : <>[](auto /\ p \in locked) =>
    (p \in current ~> state[p] = "archived")
==============================================================================
