----------------------------- MODULE AgentProofs -----------------------------
(***************************************************************************)
(* Theorems about Agent for any number of packages and students, commands, *)
(* failures and delays, checked by the TLA+ proof system.                  *)
(***************************************************************************)
EXTENDS Agent, TLAPS

------------------------------------------------------------------------------
(***************************************************************************)
(* The life cycle as the agent sees it, and the work in progress: what the *)
(* package is like at each step, which nobody else can change.             *)
(***************************************************************************)

LifeType == /\ state \in [Packages -> Lifecycle!PackageStates]
            /\ current \subseteq Packages
            /\ target \in Packages \cup {NoPackage}
            /\ pc \in Steps

OneCurrent ==
  /\ \A p, q \in current : p = q
  /\ \A p \in current : state[p] # "archived"
  /\ \A p \in Packages : state[p] \in Lifecycle!Active => p \in current

Resetting == {"resetLoad", "resetDecrypt", "resetStart"}

\* Without a package there is no work but the reset of an idle Abitti2.
IdleWork ==
  target = NoPackage =>
    /\ pc \in {"idle"} \cup Resetting
    /\ pc # "idle" => \A p \in Packages : state[p] \notin Lifecycle!Active

PackageWork ==
  target # NoPackage =>
    /\ target \in current
    /\ pc # "idle"
    /\ pc = "code" => state[target] \in {"none", "running", "stopping"}
    /\ pc \in {"load", "decrypt"} => state[target] = "none"
    /\ pc = "decrypt" => loaded = target
    /\ pc = "start" => state[target] = "ready"
    /\ pc = "report" => state[target] \in {"running", "stopping", "stopped"}
    /\ pc = "stop" => state[target] \in {"running", "stopping"}
    /\ pc \in {"download", "upload"} \cup Resetting => state[target] = "stopped"
    /\ pc = "set" /\ state[target] = "none" =>
         loaded = target /\ phase # "encrypted"
    /\ pc = "set" /\ state[target] = "ready" =>
         loaded = target /\ phase = "running"

WorkInv == /\ LifeType /\ OneCurrent
           /\ IdleWork /\ PackageWork /\ ServerFollowsState

LifeVars == <<state, current, target, pc, loaded, phase>>

\* What the agreement is about changes in few actions only.
LEMMA WorkStutters ==
  ASSUME WorkInv, UNCHANGED LifeVars
  PROVE  WorkInv'
BY DEF WorkInv, LifeType, OneCurrent, IdleWork, PackageWork, ServerFollowsState,
       LifeVars, Resetting

\* Wherever the work stops, what the API and Abitti2 say still agrees.
LEMMA WorkLeaves ==
  ASSUME WorkInv, Leave, UNCHANGED <<state, current, loaded, phase>>
  PROVE  WorkInv'
BY ValuesAssumption
   DEF WorkInv, LifeType, OneCurrent, IdleWork, PackageWork, ServerFollowsState,
       Leave, Steps, Resetting, Lifecycle!Active, Lifecycle!PackageStates

\* At first nothing has a state and there is no work.
LEMMA InitWork == Init => WorkInv
BY DEF Init, WorkInv, LifeType, OneCurrent, IdleWork, PackageWork,
       ServerFollowsState, Steps, Resetting, Lifecycle!Init, Server!ServerInit,
       NoDownload, Lifecycle!NoState, Lifecycle!PackageStates, Lifecycle!Active

\* Electing a package disturbs no work: an elected package has no state yet.
LEMMA ElectKeeps ==
  ASSUME WorkInv, NEW p \in Packages, Lifecycle!Elect(p),
         UNCHANGED <<target, pc, loaded, phase>>
  PROVE  WorkInv'
BY DEF WorkInv, LifeType, OneCurrent, IdleWork, PackageWork, ServerFollowsState,
       Resetting, Lifecycle!Elect, Lifecycle!NoState, Lifecycle!Active,
       Lifecycle!PackageStates

\* Taking up the current package, elected before or just now, starts at the
\* step that its state calls for.
LEMMA TakeKeeps ==
  ASSUME WorkInv, pc = "idle",
         NEW p \in Packages, NEW trigger, Take(p, trigger),
         \/ p \in current /\ UNCHANGED <<state, current>>
         \/ Lifecycle!Elect(p),
         UNCHANGED <<loaded, phase>>
  PROVE  WorkInv'
<1>1. /\ p \in current' /\ UNCHANGED state
      /\ state[p] \in {"none", "ready", "running", "stopping", "stopped"}
      /\ current' \subseteq Packages
      /\ \A q \in current' : q = p
      /\ \A q \in Packages : state[q] \in Lifecycle!Active => q \in current'
  BY DEF WorkInv, LifeType, OneCurrent, Lifecycle!Elect, Lifecycle!NoState,
         Lifecycle!PackageStates, Lifecycle!Active
<1>2. CASE UNCHANGED workVars
  BY <1>1, <1>2
     DEF WorkInv, LifeType, OneCurrent, IdleWork, PackageWork,
         ServerFollowsState, workVars, Resetting
<1>3. CASE pc' = FirstStep(state[p]) /\ target' = p
  <2>1. /\ pc' = "code" => state[p] \in {"none", "running", "stopping"}
        /\ pc' = "load" => state[p] = "none"
        /\ pc' = "start" => state[p] = "ready"
        /\ pc' = "report" => state[p] \in {"running", "stopping", "stopped"}
        /\ pc' \in {"code", "load", "start", "report"}
    BY <1>1, <1>3 DEF FirstStep
  <2>. QED
    BY <1>1, <1>3, <2>1, ValuesAssumption
       DEF WorkInv, LifeType, OneCurrent, IdleWork, PackageWork,
           ServerFollowsState, Resetting, Steps
<1>. QED
  BY <1>2, <1>3 DEF Take

\* A reset without a package starts only when no package occupies Abitti2.
LEMMA WorkBegins ==
  ASSUME WorkInv, NEW trigger, Work(trigger)
  PROVE  WorkInv'
<1>1. pc = "idle" /\ UNCHANGED <<loaded, phase>>
  BY DEF Work, serverVars
<1>2. CASE \E p \in current : Take(p, trigger) /\ UNCHANGED storeVars
  BY <1>1, <1>2, TakeKeeps DEF WorkInv, LifeType, storeVars
<1>3. CASE \E p \in Electable : Lifecycle!Elect(p) /\ Take(p, trigger)
  BY <1>1, <1>3, TakeKeeps DEF Electable, WorkInv, LifeType, Lifecycle!Elect
<1>4. CASE current = {} /\ UNCHANGED storeVars
           /\ (Go("resetLoad") \/ UNCHANGED workVars)
  BY <1>1, <1>4
     DEF WorkInv, LifeType, OneCurrent, IdleWork, PackageWork,
         ServerFollowsState, Resetting, Steps, Go, storeVars, workVars,
         Lifecycle!Active
<1>. QED
  BY <1>2, <1>3, <1>4 DEF Work

\* The calls that prepare and start the exam
LEMMA PrepareKeeps ==
  ASSUME WorkInv, UploadPackage \/ DecryptPackage \/ StartExam
  PROVE  WorkInv'
<1>. USE ValuesAssumption
     DEF ServerCall, Call, Go, Leave, storeVars, serverVars, WorkInv, LifeType,
         OneCurrent, IdleWork, PackageWork, ServerFollowsState, Resetting,
         Steps, Lifecycle!Active
<1>1. CASE UploadPackage
  BY <1>1 DEF UploadPackage, Server!LoadExam
<1>2. CASE DecryptPackage
  BY <1>2 DEF DecryptPackage, Server!DecryptExams
<1>3. CASE StartExam
  BY <1>3 DEF StartExam, Server!StartExams
<1>. QED
  BY <1>1, <1>2, <1>3

\* The calls of the reset: only "stopped", which allows for it, is shown.
LEMMA ResetKeeps ==
  ASSUME WorkInv, ResetUpload \/ ResetDecrypt \/ ResetStart
  PROVE  WorkInv'
<1>. USE ValuesAssumption
     DEF ServerCall, Call, Go, Leave, storeVars, serverVars, WorkInv, LifeType,
         OneCurrent, IdleWork, PackageWork, ServerFollowsState, Resetting,
         Steps, Lifecycle!Active
<1>1. CASE ResetUpload
  BY <1>1 DEF ResetUpload, Server!LoadExam
<1>2. CASE ResetDecrypt
  BY <1>2 DEF ResetDecrypt, Server!DecryptExams
<1>3. CASE ResetStart
  BY <1>3 DEF ResetStart, Server!StartExams
<1>. QED
  BY <1>1, <1>2, <1>3

\* The steps of stopping and archiving that leave Abitti2's exam alone
LEMMA StopKeeps ==
  ASSUME WorkInv,
         \/ ChangeCode \/ GetReport \/ StopSession \/ SessionsStopped
         \/ DownloadAnswers \/ UploadAnswers
  PROVE  WorkInv'
<1>. USE ValuesAssumption
     DEF ServerCall, Call, Go, Leave, storeVars, serverVars, WorkInv, LifeType,
         OneCurrent, IdleWork, PackageWork, ServerFollowsState, Resetting,
         Steps, Lifecycle!Active
<1>1. CASE ChangeCode
  BY <1>1 DEF ChangeCode, Server!ChangeSecurityCode
<1>2. CASE GetReport
  BY <1>2 DEF GetReport
<1>3. CASE StopSession
  BY <1>3 DEF StopSession, Server!EndSession
<1>4. CASE SessionsStopped
  BY <1>4 DEF SessionsStopped
<1>5. CASE DownloadAnswers
  BY <1>5 DEF DownloadAnswers
<1>6. CASE UploadAnswers
  BY <1>6 DEF UploadAnswers
<1>. QED
  BY <1>1, <1>2, <1>3, <1>4, <1>5, <1>6

\* The state moves last: by then Abitti2 is where the next state says.
LEMMA SetStateKeeps ==
  ASSUME WorkInv, SetState
  PROVE  WorkInv'
<1>1. /\ pc = "set" /\ UNCHANGED <<loaded, phase>> /\ Leave
      /\ Lifecycle!Advance(target) \/ UNCHANGED <<state, current>>
  BY DEF SetState, Call, storeVars, serverVars
<1>2. CASE UNCHANGED <<state, current>>
  BY <1>1, <1>2, WorkLeaves
<1>3. CASE Lifecycle!Advance(target)
  <2>1. target \in current /\ target \in Packages /\ state[target] # "archived"
    BY <1>3 DEF Lifecycle!Advance, WorkInv, LifeType
  <2>2. /\ state' \in [Packages -> Lifecycle!PackageStates]
        /\ \A p \in Packages \ {target} : state'[p] = state[p]
        /\ state'[target] \in
             {"ready", "running", "stopping", "stopped", "archived"}
        /\ state'[target] = "ready" => state[target] = "none"
        /\ state'[target] = "running" => state[target] = "ready"
        /\ state'[target] = "stopping" => state[target] = "running"
        /\ state'[target] = "stopped" => state[target] = "stopping"
        /\ current' = IF state'[target] = "archived" THEN current \ {target}
                                                     ELSE current
    BY <1>3, <2>1
       DEF Lifecycle!Advance, Lifecycle!NextState, Lifecycle!NoState,
           Lifecycle!PackageStates, WorkInv, LifeType
  <2>3. \A p \in Packages \ {target} : state[p] \notin Lifecycle!Active
    BY <2>1 DEF WorkInv, LifeType, OneCurrent
  <2>. QED
    BY <1>1, <2>1, <2>2, <2>3, ValuesAssumption
       DEF WorkInv, LifeType, OneCurrent, IdleWork, PackageWork,
           ServerFollowsState, Resetting, Steps, Leave, Lifecycle!Active
<1>. QED
  BY <1>1, <1>2, <1>3

\* Every step of the agent and of everybody else keeps the agreement.
LEMMA WorkNext ==
  ASSUME WorkInv, [Next]_vars
  PROVE  WorkInv'
<1>1. CASE TimeWork \/ \E c \in Manual : Work(c)
  BY <1>1, WorkBegins DEF TimeWork
<1>2. CASE WorkStep
  BY <1>2, PrepareKeeps, ResetKeeps, StopKeeps, SetStateKeeps DEF WorkStep
<1>3. CASE \E killed \in BOOLEAN : Restart(killed)
  BY <1>3, WorkLeaves DEF Restart, storeVars, serverVars
<1>4. CASE OtherClient
  BY <1>4, ElectKeeps DEF OtherClient, Electable, serverVars, workVars
<1>5. CASE People
  BY <1>5, WorkStutters
     DEF People, Server!Student, Server!Join, Server!SaveAnswers, Server!Finish,
         Server!AnnounceCode, LifeVars, storeVars, workVars
<1>6. CASE \/ \E c \in {"enable_auto", "disable_auto"} : Command(c)
           \/ DelayStats \/ ReceiveStats \/ ReceiveExamList
           \/ RefreshExams \/ TimePasses \/ UNCHANGED vars
  BY <1>6, WorkStutters
     DEF Command, DelayStats, ReceiveStats, ReceiveExamList, RefreshExams,
         TimePasses, LifeVars, vars, storeVars, serverVars, workVars
<1>7. CASE ChangeKeycode
  BY <1>7, WorkStutters
     DEF ChangeKeycode, Server!ChangeSecurityCode, LifeVars, storeVars, workVars
<1>. QED
  BY <1>1, <1>2, <1>3, <1>4, <1>5, <1>6, <1>7 DEF Next, Command

(***************************************************************************)
(* What the API says of a package never runs ahead of Abitti2, for every   *)
(* number of packages, students, failures, restarts and late messages and  *)
(* for all commands of the operators.  The code is                         *)
(* __work_on_current_exam_package, whose functions return the next state   *)
(* only after their calls, and which sets it after all of them.            *)
(***************************************************************************)
THEOREM StateFollowsServer == Spec => []ServerFollowsState
<1>1. WorkInv => ServerFollowsState
  BY DEF WorkInv
<1>. QED
  BY <1>1, InitWork, WorkNext, PTL DEF Spec

------------------------------------------------------------------------------
(***************************************************************************)
(* The door.  Unless an operator disables it, auto control stays on: the   *)
(* other commands are refused, stopping starts with the change of the      *)
(* code, and that only once the time is over.                              *)
(***************************************************************************)

Closing == {"report", "stop", "set"}

AutoControl == auto = TRUE /\ savedAuto = TRUE

\* What can happen while auto control is on
AutoNext ==
  \/ TimeWork
  \/ WorkStep
  \/ DelayStats \/ ReceiveStats \/ ReceiveExamList \/ ChangeKeycode
  \/ RefreshExams
  \/ \E killed \in BOOLEAN : Restart(killed)
  \/ OtherClient \/ TimePasses \/ People

\* A command that is not to disable auto control has no effect: enabling
\* finds it enabled, and the others are refused.
LEMMA CommandsRefused ==
  ASSUME "disable_auto" \notin Manual, AutoControl, [Next]_vars
  PROVE  [AutoNext]_vars
<1>1. auto = TRUE
  BY DEF AutoControl
<1>2. ASSUME NEW c \in Manual, Command(c)
      PROVE  UNCHANGED vars
  <2>1. c = "enable_auto"
    BY <1>1, <1>2, ManualAssumption DEF Command, Work, Commands
  <2>. QED
    BY <1>1, <1>2, <2>1 DEF Command, memoryVars, vars
<1>. QED
  BY <1>2 DEF Next, AutoNext

\* In particular they are steps of the agent.
LEMMA AutoSteps == [AutoNext]_vars => [Next]_vars
BY DEF Next, AutoNext

\* From the change of the code until "stopping" is set, the time for the
\* exam is over, and that is what keeps the code from being announced.
ShutWhileStopping ==
  target # NoPackage /\ state[target] = "running" =>
    /\ pc \in {"code"} \cup Closing => window[target] = "over"
    /\ pc \in Closing => ~codeKnown

DoorInv == /\ window \in [Packages -> Windows]
           /\ AutoControl /\ ShutWhileStopping /\ DoorIsShut

DoorVars ==
  <<state, window, auto, savedAuto, target, pc, loaded, codeKnown>>

\* Nor does the door depend on anything but these.
LEMMA DoorStutters ==
  ASSUME DoorInv, UNCHANGED DoorVars
  PROVE  DoorInv'
BY DEF DoorInv, AutoControl, ShutWhileStopping, DoorIsShut, DoorVars, Windows,
       Closing

\* Work that ends keeps the door as it was.
LEMMA DoorLeaves ==
  ASSUME DoorInv, Leave, AutoControl',
         UNCHANGED <<state, window, loaded, codeKnown>>
  PROVE  DoorInv'
BY DEF DoorInv, AutoControl, ShutWhileStopping, DoorIsShut, Leave

\* A step that leaves the code, is no step of stopping and loads nothing that
\* is being stopped
LEMMA DoorCall ==
  ASSUME DoorInv, UNCHANGED <<state, window, auto, savedAuto, codeKnown>>,
         target' \in {target, NoPackage},
         target # NoPackage => state[target] # "running",
         \A p \in Packages : state[p] \in {"stopping", "stopped"} =>
            loaded' \in {loaded, Dummy}
  PROVE  DoorInv'
BY ValuesAssumption
   DEF DoorInv, AutoControl, ShutWhileStopping, DoorIsShut

\* With auto control on, a running exam is taken up only when its time is over,
\* and then the change of the code comes first.
LEMMA DoorBegins ==
  ASSUME WorkInv, DoorInv, TimeWork
  PROVE  DoorInv'
<1>1. /\ pc = "idle" /\ target = NoPackage
      /\ UNCHANGED <<state, window, auto, savedAuto, loaded, codeKnown>>
  BY DEF TimeWork, Work, scheduleVars, serverVars, memoryVars, storeVars,
         Lifecycle!Elect, WorkInv, PackageWork
<1>2. DoorIsShut' /\ AutoControl' /\ (window \in [Packages -> Windows])'
  BY <1>1 DEF DoorInv, DoorIsShut, AutoControl
<1>3. ASSUME NEW p \in Packages, Take(p, "time")
      PROVE  ShutWhileStopping'
  <2>1. CASE UNCHANGED workVars
    BY <1>1, <2>1 DEF ShutWhileStopping, workVars
  <2>2. CASE /\ pc' = FirstStep(state[p]) /\ target' = p
             /\ Applies("time", p)
    <3>1. state[p] = "running" => pc' = "code" /\ window[p] = "over"
      BY <2>2 DEF DoorInv, AutoControl, FirstStep, Applies, TimeCondition
    <3>. QED
      BY <1>1, <2>2, <3>1 DEF ShutWhileStopping, Closing
  <2>. QED
    BY <1>3, <2>1, <2>2 DEF Take
<1>4. ASSUME UNCHANGED target
      PROVE  ShutWhileStopping'
  BY <1>1, <1>4 DEF ShutWhileStopping
<1>5. \/ \E p \in Packages : Take(p, "time")
      \/ UNCHANGED target
  BY DEF TimeWork, Work, Electable, Go, workVars, WorkInv, LifeType
<1>. QED
  BY <1>2, <1>3, <1>4, <1>5 DEF DoorInv

\* Preparing, starting, archiving and the reset
LEMMA DoorAside ==
  ASSUME WorkInv, DoorInv,
         \/ UploadPackage \/ DecryptPackage \/ StartExam
         \/ DownloadAnswers \/ UploadAnswers
         \/ ResetUpload \/ ResetDecrypt \/ ResetStart
  PROVE  DoorInv'
<1>1. UNCHANGED <<state, window, auto, savedAuto, codeKnown>>
  BY DEF UploadPackage, DecryptPackage, StartExam, DownloadAnswers,
         UploadAnswers, ResetUpload, ResetDecrypt, ResetStart, ServerCall,
         Call, storeVars, scheduleVars, memoryVars, serverVars,
         Server!LoadExam, Server!DecryptExams, Server!StartExams
<1>2. target' \in {target, NoPackage}
  BY DEF UploadPackage, DecryptPackage, StartExam, DownloadAnswers,
         UploadAnswers, ResetUpload, ResetDecrypt, ResetStart, ServerCall,
         Call, Go, Leave
<1>3. target # NoPackage => state[target] # "running"
  BY DEF UploadPackage, DecryptPackage, StartExam, DownloadAnswers,
         UploadAnswers, ResetUpload, ResetDecrypt, ResetStart, ServerCall,
         WorkInv, PackageWork, Resetting
<1>4. CASE UploadPackage
  <2>1. \A p \in Packages : state[p] \notin Lifecycle!Active
    BY <1>4 DEF UploadPackage, ServerCall, WorkInv, LifeType, OneCurrent,
                IdleWork, PackageWork, Resetting, Lifecycle!Active
  <2>. QED
    BY <1>1, <1>2, <1>3, <2>1, DoorCall DEF Lifecycle!Active
<1>5. CASE ~UploadPackage
  <2>1. loaded' \in {loaded, Dummy}
    BY <1>5 DEF DecryptPackage, StartExam, DownloadAnswers, UploadAnswers,
                ResetUpload, ResetDecrypt, ResetStart, ServerCall, Call,
                serverVars, Server!LoadExam, Server!DecryptExams,
                Server!StartExams
  <2>. QED
    BY <1>1, <1>2, <1>3, <2>1, DoorCall
<1>. QED
  BY <1>4, <1>5

\* The steps of stopping: the code first, the report, the sessions
LEMMA DoorCloses ==
  ASSUME WorkInv, DoorInv,
         ChangeCode \/ GetReport \/ StopSession \/ SessionsStopped
  PROVE  DoorInv'
<1>1. UNCHANGED <<state, window, auto, savedAuto, loaded>>
  BY DEF ChangeCode, GetReport, StopSession, SessionsStopped, ServerCall, Call,
         storeVars, scheduleVars, memoryVars, serverVars,
         Server!ChangeSecurityCode, Server!EndSession
<1>2. codeKnown' = codeKnown \/ codeKnown' = FALSE
  BY DEF ChangeCode, GetReport, StopSession, SessionsStopped, ServerCall, Call,
         serverVars, Server!ChangeSecurityCode, Server!EndSession
<1>3. DoorIsShut' /\ AutoControl' /\ (window \in [Packages -> Windows])'
  BY <1>1, <1>2 DEF DoorInv, DoorIsShut, AutoControl
<1>. SUFFICES ShutWhileStopping'
  BY <1>3 DEF DoorInv
<1>4. CASE Leave
  BY <1>1, <1>4 DEF Leave, ShutWhileStopping
<1>5. CASE UNCHANGED target /\ pc \in Closing /\ codeKnown' = codeKnown
  BY <1>1, <1>5 DEF DoorInv, ShutWhileStopping, Closing
<1>6. CASE UNCHANGED target /\ pc = "code" /\ codeKnown' = FALSE
  BY <1>1, <1>6 DEF DoorInv, ShutWhileStopping
<1>7. \/ Leave
      \/ UNCHANGED target /\ pc \in Closing /\ codeKnown' = codeKnown
      \/ UNCHANGED target /\ pc = "code" /\ codeKnown' = FALSE
  BY DEF ChangeCode, GetReport, StopSession, SessionsStopped, ServerCall, Call,
         Go, serverVars, Server!ChangeSecurityCode, Server!EndSession, Closing
<1>. QED
  BY <1>4, <1>5, <1>6, <1>7

\* "stopping" is set when the code is already changed.
LEMMA DoorSetState ==
  ASSUME WorkInv, DoorInv, SetState
  PROVE  DoorInv'
<1>1. /\ pc = "set" /\ Leave
      /\ UNCHANGED <<window, auto, savedAuto, loaded, codeKnown>>
      /\ Lifecycle!Advance(target) \/ UNCHANGED <<state, current>>
  BY DEF SetState, Call, storeVars, scheduleVars, serverVars, memoryVars
<1>2. CASE UNCHANGED <<state, current>>
  BY <1>1, <1>2, DoorLeaves DEF DoorInv, AutoControl
<1>3. CASE Lifecycle!Advance(target)
  <2>1. /\ target \in Packages /\ target # NoPackage
        /\ state \in [Packages -> Lifecycle!PackageStates]
    BY <1>3, ValuesAssumption DEF Lifecycle!Advance, WorkInv, LifeType
  <2>2. /\ \A p \in Packages \ {target} : state'[p] = state[p]
        /\ state'[target] = "stopping" => state[target] = "running"
        /\ state'[target] = "stopped" => state[target] = "stopping"
    BY <1>3, <2>1
       DEF Lifecycle!Advance, Lifecycle!NextState, Lifecycle!NoState,
           Lifecycle!PackageStates
  <2>3. DoorIsShut'
    BY <1>1, <2>1, <2>2 DEF DoorInv, DoorIsShut, ShutWhileStopping, Closing
  <2>. QED
    BY <1>1, <2>3 DEF DoorInv, AutoControl, ShutWhileStopping, Leave
<1>. QED
  BY <1>1, <1>2, <1>3

\* At first auto control is on and nothing is being stopped.
LEMMA InitDoor == Init => DoorInv
BY DEF Init, DoorInv, AutoControl, ShutWhileStopping, DoorIsShut, Windows,
       Lifecycle!Init, Lifecycle!NoState

\* The code is announced only when nothing is being stopped, the time of the
\* exam is not changed during a piece of work, and what is over stays over.
LEMMA DoorNext ==
  ASSUME WorkInv, DoorInv, [AutoNext]_vars
  PROVE  DoorInv'
<1>1. CASE TimeWork
  BY <1>1, DoorBegins
<1>2. CASE WorkStep
  BY <1>2, DoorAside, DoorCloses, DoorSetState DEF WorkStep
<1>3. CASE \E killed \in BOOLEAN : Restart(killed)
  BY <1>3, DoorLeaves
     DEF Restart, DoorInv, AutoControl, storeVars, scheduleVars, serverVars
<1>4. CASE OtherClient \/ DelayStats \/ ReceiveStats \/ ReceiveExamList
           \/ UNCHANGED vars
  BY <1>4, DoorStutters
     DEF OtherClient, Lifecycle!Elect, DelayStats, ReceiveStats,
         ReceiveExamList, DoorVars, vars, storeVars, scheduleVars, serverVars,
         memoryVars, workVars
<1>5. CASE ChangeKeycode
  BY <1>5 DEF ChangeKeycode, Server!ChangeSecurityCode, storeVars, scheduleVars,
              memoryVars, workVars, DoorInv, AutoControl, ShutWhileStopping,
              DoorIsShut
<1>6. CASE RefreshExams
  <2>1. /\ target = NoPackage
        /\ UNCHANGED <<state, auto, savedAuto, target, pc, loaded, codeKnown>>
    BY <1>6 DEF RefreshExams, storeVars, serverVars, memoryVars, workVars,
                WorkInv, PackageWork
  <2>2. window' \in [Packages -> Windows]
    BY <1>6 DEF RefreshExams, DoorInv
  <2>. QED
    BY <2>1, <2>2 DEF DoorInv, AutoControl, ShutWhileStopping, DoorIsShut
<1>7. CASE TimePasses
  <2>1. UNCHANGED <<state, auto, savedAuto, target, pc, loaded, codeKnown>>
    BY <1>7 DEF TimePasses, storeVars, serverVars, memoryVars, workVars
  <2>2. /\ window' \in [Packages -> Windows]
        /\ \A p \in Packages : window[p] = "over" => window'[p] = "over"
    BY <1>7 DEF TimePasses, DoorInv, Windows
  <2>3. target # NoPackage => target \in Packages
    BY DEF WorkInv, LifeType
  <2>. QED
    BY <2>1, <2>2, <2>3 DEF DoorInv, AutoControl, ShutWhileStopping, DoorIsShut
<1>8. CASE People /\ Server!Student
  BY <1>8, DoorStutters
     DEF People, Server!Student, Server!Join, Server!SaveAnswers, Server!Finish,
         DoorVars, storeVars, scheduleVars, memoryVars, workVars
<1>9. CASE People /\ Server!AnnounceCode
  <2>1. UNCHANGED <<state, window, auto, savedAuto, target, pc, loaded>>
    BY <1>9 DEF People, Server!AnnounceCode, storeVars, scheduleVars,
                memoryVars, workVars
  <2>2. \A p \in Packages : state[p] \notin {"stopping", "stopped"}
    BY <1>9 DEF People, Server!Student, Server!Join, Server!SaveAnswers,
                Server!Finish, Server!AnnounceCode, WorkInv, OneCurrent,
                Lifecycle!Active
  <2>3. target # NoPackage => window[target] # "over"
    BY <1>9 DEF People, Server!Student, Server!Join, Server!SaveAnswers,
                Server!Finish, Server!AnnounceCode, WorkInv, PackageWork
  <2>. QED
    BY <2>1, <2>2, <2>3
       DEF DoorInv, AutoControl, ShutWhileStopping, DoorIsShut, Closing
<1>. QED
  BY <1>1, <1>2, <1>3, <1>4, <1>5, <1>6, <1>7, <1>8, <1>9
     DEF AutoNext, People

(***************************************************************************)
(* Unless an operator disables auto control, and as long as nobody         *)
(* announces a code during the stopping, no student can enter an exam that *)
(* is being stopped or is stopped, whatever fails and however often the    *)
(* agent is killed and started over: the change of the security code that  *)
(* __stop_current_exam_package makes first is always in force before the   *)
(* API is told "stopping".                                                 *)
(***************************************************************************)
THEOREM DoorStaysShut ==
  ASSUME "disable_auto" \notin Manual
  PROVE  Spec => []DoorIsShut
<1>. DEFINE IInv == WorkInv /\ DoorInv
<1>1. Init => IInv
  BY InitWork, InitDoor
<1>2. IInv /\ [Next]_vars => IInv'
  BY WorkNext, DoorNext, CommandsRefused DEF DoorInv
<1>3. IInv => DoorIsShut
  BY DEF DoorInv
<1>. HIDE DEF IInv
<1>. QED
  BY <1>1, <1>2, <1>3, PTL DEF Spec

==============================================================================
