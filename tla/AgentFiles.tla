------------------------------ MODULE AgentFiles ------------------------------
(***************************************************************************)
(* The files the agent keeps: the exam files it downloads whenever it      *)
(* refreshes exams, and agent-state.json.  A refresh asks Exam-O-Matic     *)
(* what is scheduled, sees to it that every exam file of the answer is on  *)
(* the disk, and only then has the API save the answer; from then on the   *)
(* file may be packed for Abitti2.  The agent does all that in one thread, *)
(* so nothing else of it runs meanwhile, but it can be killed at any step, *)
(* every call can fail, and a disk may damage a file.                      *)
(*                                                                         *)
(* A version of an exam file stands for its contents, which its sha256 and *)
(* its size are derived from.  A scheduled exam goes with its file: a new  *)
(* file is a new exam, and stays in its package.                           *)
(***************************************************************************)
EXTENDS Naturals

CONSTANTS
  Files,       \* file_uuid
  Versions,    \* contents of an exam file
  NoVersion,   \* the file is not scheduled, or not announced
  Packages,    \* scheduled exam packages
  Package,     \* the package that each exam belongs to
  StateFile,   \* the path of agent-state.json
  MaxFaults,   \* bound: kills, stops, failed calls, wrong claims, damages
  MaxChanges   \* bound: changes of the schedule

Settings == {"auto", "manual"}
ExamPaths == Files \X Versions

ASSUME VersionsAssumption ==
  Versions \cap ({"absent", "empty", "partial", "damaged"} \cup Settings) = {}
ASSUME NoVersionAssumption == NoVersion \notin Versions
ASSUME StateFileAssumption == StateFile \notin ExamPaths
ASSUME PackageAssumption == Package \in [Files -> Packages]
ASSUME BoundsAssumption == MaxFaults \in Nat /\ MaxChanges \in Nat

VARIABLES
  files, tmp, write,  \* the disk, and the write that is going on
  agent,      \* what the agent is doing
  info,       \* the answer of Exam-O-Matic
  wrongSize,  \* the files for which the answer claims a wrong size
  todo,       \* the files of the answer not looked at yet
  setting,    \* is_auto_control_enabled
  announced,  \* exam_file_info of the API's database
  loaded,     \* the file loaded into Abitti2 last, and what was in it
  schedule,   \* what is scheduled at Exam-O-Matic
  spoiled,    \* history: paths damaged, or told to be of a wrong size
  faults, changes

Disk == INSTANCE AtomicFiles WITH Paths <- ExamPaths \cup {StateFile},
                                  Contents <- Versions \cup Settings

diskVars == <<files, tmp, write>>
workVars == <<agent, info, wrongSize, todo>>
restVars == <<setting, announced, loaded>>
worldVars == <<schedule, spoiled, faults, changes>>
vars == <<diskVars, workVars, restVars, worldVars>>

Listing == [Files -> Versions \cup {NoVersion}]
Nothing == [f \in Files |-> NoVersion]
NotLoaded == <<>>

Listed(listing) == {f \in Files : listing[f] # NoVersion}

TypeOK ==
  /\ Disk!DiskTypeOK
  /\ agent \in {"down", "idle", "refreshing", "leaving"}
  /\ info \in Listing /\ announced \in Listing /\ schedule \in Listing
  /\ todo \subseteq Listed(info) /\ wrongSize \subseteq Listed(info)
  /\ setting \in Settings
  /\ loaded = NotLoaded \/ loaded[1] \in ExamPaths
  /\ spoiled \subseteq ExamPaths
  /\ faults \in 0..MaxFaults /\ changes \in 0..MaxChanges
  /\ agent \in {"down", "idle"} => write = Disk!NotWriting
  /\ write # Disk!NotWriting =>
       (write.path = StateFile <=> agent = "leaving")

Init ==
  /\ Disk!DiskInit
  /\ agent = "down"
  /\ info = Nothing /\ wrongSize = {} /\ todo = {}
  /\ setting = "auto" /\ announced = Nothing /\ loaded = NotLoaded
  /\ schedule = Nothing /\ spoiled = {} /\ faults = 0 /\ changes = 0

Fault == faults < MaxFaults /\ faults' = faults + 1

\* The agent is done with the answer of Exam-O-Matic.
Finish(next) ==
  /\ agent' = next
  /\ info' = Nothing /\ wrongSize' = {} /\ todo' = {}

------------------------------------------------------------------------------
(***************************************************************************)
(* The life of the agent.                                                  *)
(***************************************************************************)

\* load_agent_state: a state that cannot be read is an empty one.
SavedState == IF files[StateFile] \in Settings THEN files[StateFile] ELSE "auto"

\* _run
Start ==
  /\ agent = "down" /\ agent' = "idle"
  /\ setting' = SavedState
  /\ UNCHANGED <<diskVars, info, wrongSize, todo, announced, loaded, worldVars>>

Kill ==
  /\ agent # "down" /\ Finish("down")
  /\ Disk!KillWriter
  /\ Fault
  /\ UNCHANGED <<restVars, schedule, spoiled, changes>>

\* __set_auto_control
SetAutoControl ==
  /\ agent = "idle"
  /\ setting' \in Settings
  /\ UNCHANGED <<diskVars, workVars, announced, loaded, worldVars>>

\* The agent is interrupted and saves its state on the way out.
Leave ==
  /\ agent = "idle" /\ agent' = "leaving"
  /\ Disk!OpenDest(StateFile, FALSE)
  /\ Fault
  /\ UNCHANGED <<info, wrongSize, todo, restVars, schedule, spoiled, changes>>

SaveAgentState ==
  /\ agent = "leaving"
  /\ \/ Disk!OpenTmp /\ UNCHANGED <<agent, faults>>
     \/ Disk!Replace(setting) /\ agent' = "down" /\ UNCHANGED faults
     \/ Disk!FailWrite /\ agent' = "down" /\ Fault
  /\ UNCHANGED <<info, wrongSize, todo, restVars, schedule, spoiled, changes>>

------------------------------------------------------------------------------
(***************************************************************************)
(* Refreshing exams.                                                       *)
(***************************************************************************)

\* get_local_filepath: a file is known by its uuid and its sha256.
PathOf(f, v) == <<f, v>>

\* get_exam_info; a call that fails changes nothing.
GetExamInfo ==
  /\ agent = "idle" /\ agent' = "refreshing"
  /\ Listed(schedule) # {}
  /\ info' = schedule /\ todo' = Listed(schedule)
  /\ wrongSize' = {} /\ UNCHANGED <<spoiled, faults>>
  /\ UNCHANGED <<diskVars, restVars, schedule, changes>>

\* The same, with a size that is not that of the file.
GetWrongSize ==
  /\ agent = "idle" /\ agent' = "refreshing"
  /\ info' = schedule /\ todo' = Listed(schedule)
  /\ \E f \in Listed(schedule) :
       /\ wrongSize' = {f}
       /\ spoiled' = spoiled \cup {PathOf(f, schedule[f])}
  /\ Fault
  /\ UNCHANGED <<diskVars, restVars, schedule, changes>>

\* Variation: a file that is there is good enough.
FileIsThere(f) == files[PathOf(f, info[f])] # "absent"

UpToDate(f) == files[PathOf(f, info[f])] = info[f] /\ f \notin wrongSize

\* __ensure_exam_file_exists: it has the size and the sha256 claimed,
KeepExamFile(f) ==
  /\ UpToDate(f) /\ todo' = todo \ {f}
  /\ UNCHANGED diskVars

\* or is renamed,
SetAside(f) ==
  /\ files[PathOf(f, info[f])] # "absent" /\ ~UpToDate(f)
  /\ files' = [files EXCEPT ![PathOf(f, info[f])] = "absent"]
  /\ UNCHANGED <<tmp, write, todo>>

\* or is not there.
BeginDownload(f) ==
  /\ Disk!OpenDest(PathOf(f, info[f]), TRUE)
  /\ todo' = todo \ {f}

EnsureExamFile(f) ==
  /\ agent = "refreshing" /\ write = Disk!NotWriting
  /\ KeepExamFile(f) \/ SetAside(f) \/ BeginDownload(f)
  /\ UNCHANGED <<agent, info, wrongSize, restVars, worldVars>>

\* Variation: the digest of what was received is not compared.
ReceivedUnchecked(v) == {v, "damaged"}

\* get_exam_file_stream raises at the end of a stream of another sha256.
Received(v) == {v}

Download ==
  /\ agent = "refreshing" /\ write # Disk!NotWriting
  /\ \/ /\ Disk!OpenTmp \/ \E d \in Received(write.path[2]) : Disk!Replace(d)
        /\ UNCHANGED <<workVars, faults>>
     \/ Disk!FailWrite /\ Finish("idle") /\ Fault
  /\ UNCHANGED <<restVars, schedule, spoiled, changes>>

\* Variation: the last download is not waited for.
AllBegun == todo = {}

AllEnsured == todo = {} /\ write = Disk!NotWriting

\* The exams of an answer that the database does not know yet.
New(listing) == {f \in Listed(listing) : announced[f] = NoVersion}

InKnownPackage(f) == \E g \in Listed(announced) : Package[g] = Package[f]

\* ExamStore's Importable, for the orders in which an answer may list exams
\* and packages.  In _save_scheduled_exam_package the query for a new exam
\* of a known package only finds it if another new exam, or a new package,
\* has made the session flush since it was added.  So an answer whose new
\* exams are all in known packages is refused, the last of them not being
\* found, and the order decides if only some are.
CanBeSaved(listing) ==
  New(listing) = {} \/ \E f \in New(listing) : ~InKnownPackage(f)

CanBeRefused(listing) == \E f \in New(listing) : InKnownPackage(f)

\* save_exam_info updates the files of the answer, or raises and changes
\* nothing: when the API refuses it with 500, as it will each time, and when
\* the call fails.  A call that fails may also have been done.  (The 409 is
\* for an answer that was saved before, with all that it says.)
SaveExamInfo ==
  /\ agent = "refreshing" /\ AllEnsured
  /\ \/ /\ CanBeSaved(info)
        /\ announced' = [f \in Files |->
                           IF f \in Listed(info) THEN info[f] ELSE announced[f]]
        /\ UNCHANGED faults \/ Fault
     \/ CanBeRefused(info) /\ UNCHANGED <<announced, faults>>
     \/ UNCHANGED announced /\ Fault
  /\ Finish("idle")
  /\ UNCHANGED <<diskVars, setting, loaded, schedule, spoiled, changes>>

\* Preparing an exam packs its file as it is found.  (A file that is not
\* there raises.)
LoadExamPackage ==
  /\ agent = "idle"
  /\ \E f \in Listed(announced) :
       LET p == PathOf(f, announced[f])
       IN files[p] # "absent" /\ loaded' = <<p, files[p]>>
  /\ UNCHANGED <<diskVars, workVars, setting, announced, worldVars>>

------------------------------------------------------------------------------

ChangeSchedule ==
  /\ changes < MaxChanges /\ changes' = changes + 1
  /\ \E f \in Files, v \in Versions : schedule' = [schedule EXCEPT ![f] = v]
  /\ UNCHANGED <<diskVars, workVars, restVars, spoiled, faults>>

DamageFile ==
  /\ \E p \in ExamPaths :
       /\ files[p] \in Versions
       /\ files' = [files EXCEPT ![p] = "damaged"]
       /\ spoiled' = spoiled \cup {p}
  /\ Fault
  /\ UNCHANGED <<tmp, write, workVars, restVars, schedule, changes>>

Refresh ==
  \/ GetExamInfo
  \/ \E f \in todo : EnsureExamFile(f)
  \/ Download
  \/ SaveExamInfo

Next ==
  \/ Start \/ Kill \/ SetAutoControl \/ Leave \/ SaveAgentState
  \/ Refresh \/ GetWrongSize \/ LoadExamPackage
  \/ ChangeSchedule \/ DamageFile

Spec == Init /\ [][Next]_vars

\* The supervisor starts the agent again (autorestart), every pong of
\* Exam-O-Matic starts a refresh, and the agent carries on with what it does.
Fairness == WF_vars(Start) /\ WF_vars(SaveAgentState) /\ WF_vars(Refresh)

FairSpec == Spec /\ Fairness

------------------------------------------------------------------------------
(***************************************************************************)
(* Properties.                                                             *)
(***************************************************************************)

\* A file the database announces is on the disk, whole and in the version
\* announced, and so is what gets loaded into Abitti2: whenever the agent is
\* killed, whatever fails, and while the schedule changes.  The exceptions
\* are files the disk has damaged and files of which Exam-O-Matic has
\* claimed a wrong size.
ExamsAreWhole ==
  /\ \A f \in Listed(announced) :
       LET p == PathOf(f, announced[f])
       IN p \notin spoiled => files[p] = announced[f]
  /\ loaded # NotLoaded /\ loaded[1] \notin spoiled => loaded[2] = loaded[1][2]

\* The state file keeps the setting saved last, whenever the agent is killed.
State == INSTANCE SavedSetting WITH
           saved <- SavedState,
           setting <- IF agent = "down" THEN SavedState ELSE setting

SettingIsSaved == State!Spec

\* What is scheduled is announced, and all of it is on the disk.
Arrived == \A f \in Listed(schedule) :
             /\ announced[f] = schedule[f]
             /\ files[PathOf(f, schedule[f])] = schedule[f]

\* In the end what is scheduled arrives, whatever was left behind or damaged
\* before, unless it has from then on a new exam in a known package, for
\* which the API may refuse all of it each time.  Nothing else can keep exams
\* from arriving for ever.
AllArrives == <>[]Arrived \/ <>[]CanBeRefused(schedule)
==============================================================================
