--------------------------- MODULE AgentFilesProofs ---------------------------
(***************************************************************************)
(* Theorems about AgentFiles for any exam files in any versions and any    *)
(* number of faults and changes, checked by the TLA+ proof system.         *)
(***************************************************************************)
EXTENDS AgentFiles, TLAPS

USE VersionsAssumption, NoVersionAssumption, StateFileAssumption,
    BoundsAssumption

\* What is about to be announced is on the disk, except for what was not
\* looked at yet and what is being written.
EnsuredAreWhole ==
  \A f \in Listed(info) \ todo :
    LET p == PathOf(f, info[f])
    IN \/ p \in spoiled \/ files[p] = info[f]
       \/ write # Disk!NotWriting /\ write.path = p

\* A call that has created its file has left it empty so far, and exam files
\* are always created.
CreatedAreEmpty ==
  write # Disk!NotWriting =>
    /\ ~write.existed => files[write.path] = "empty"
    /\ write.path # StateFile => ~write.existed

WrongSizesSpoil == \A f \in wrongSize : PathOf(f, info[f]) \in spoiled

\* The inductive invariant.
Inv == /\ TypeOK /\ ExamsAreWhole
       /\ EnsuredAreWhole /\ CreatedAreEmpty /\ WrongSizesSpoil

------------------------------------------------------------------------------
(***************************************************************************)
(* The disk.                                                               *)
(***************************************************************************)

DiskPaths == ExamPaths \cup {StateFile}

\* Creating the final file leaves what was there.
LEMMA OpenDestDoes ==
  ASSUME Disk!DiskTypeOK, NEW p \in DiskPaths, NEW x, Disk!OpenDest(p, x)
  PROVE  /\ Disk!DiskTypeOK'
         /\ write' # Disk!NotWriting /\ write'.path = p
         /\ write'.existed = (files[p] # "absent")
         /\ files[p] = "absent" => files'[p] = "empty"
         /\ files[p] # "absent" => files'[p] = files[p]
         /\ \A q \in DiskPaths : q # p => files'[q] = files[q]
<1> QED  BY DEF Disk!DiskTypeOK, Disk!OpenDest, Disk!Touch, Disk!Calls,
                Disk!NotWriting, DiskPaths

\* Creating the temporary file changes nothing under the final name.
LEMMA OpenTmpDoes ==
  ASSUME Disk!DiskTypeOK, Disk!OpenTmp
  PROVE  /\ Disk!DiskTypeOK'
         /\ write # Disk!NotWriting /\ write' # Disk!NotWriting
         /\ write'.path = write.path /\ write'.existed = write.existed
         /\ files' = files
<1> QED  BY DEF Disk!DiskTypeOK, Disk!OpenTmp, Disk!Calls, Disk!NotWriting

\* The rename puts the new contents under the final name, and only there.
LEMMA ReplaceDoes ==
  ASSUME Disk!DiskTypeOK, NEW d \in Versions \cup Settings, Disk!Replace(d)
  PROVE  /\ Disk!DiskTypeOK'
         /\ write # Disk!NotWriting /\ write' = Disk!NotWriting
         /\ write.path \in DiskPaths /\ files'[write.path] = d
         /\ \A q \in DiskPaths : q # write.path => files'[q] = files[q]
<1> QED  BY DEF Disk!DiskTypeOK, Disk!Replace, Disk!Calls, Disk!NotWriting,
                DiskPaths

\* An exception removes a final file that the write has created.
LEMMA FailWriteDoes ==
  ASSUME Disk!DiskTypeOK, Disk!FailWrite
  PROVE  /\ Disk!DiskTypeOK'
         /\ write # Disk!NotWriting /\ write' = Disk!NotWriting
         /\ write.path \in DiskPaths
         /\ IF write.existed THEN files' = files
            ELSE files'[write.path] = "absent"
         /\ \A q \in DiskPaths : q # write.path => files'[q] = files[q]
<1> QED  BY DEF Disk!DiskTypeOK, Disk!FailWrite, Disk!Calls, Disk!NotWriting,
                DiskPaths

\* The path of a file in a version is that of an exam file.
LEMMA PathsOfExams ==
  \A f \in Files, v \in Versions :
    /\ PathOf(f, v) \in DiskPaths /\ PathOf(f, v) \in ExamPaths
    /\ PathOf(f, v) # StateFile
    /\ PathOf(f, v)[2] = v
<1> QED  BY DEF PathOf, ExamPaths, DiskPaths

\* What may be on the disk is told apart.
LEMMA Marks ==
  \A v \in Versions : v # "absent" /\ v # "empty" /\ v # "damaged"
<1> QED  BY DEF Settings

------------------------------------------------------------------------------
(***************************************************************************)
(* The invariant.                                                          *)
(***************************************************************************)

\* On a fresh machine there is no file.
LEMMA Initially == Init => Inv
<1> QED  BY DEF Init, Inv, TypeOK, ExamsAreWhole, EnsuredAreWhole,
                CreatedAreEmpty, WrongSizesSpoil, Disk!DiskInit,
                Disk!DiskTypeOK, Disk!NotWriting, Listing, Nothing, Listed,
                NotLoaded, Settings

\* The life of the agent.
LEMMA LifeKeepsInv ==
  ASSUME Inv, Start \/ Kill \/ SetAutoControl \/ Leave \/ SaveAgentState
  PROVE  Inv'
<1> USE DEF Inv
<1>1. CASE Start
  <2> USE <1>1 DEF Start, diskVars, worldVars
  <2>1. TypeOK'
    BY DEF TypeOK, SavedState, Disk!DiskTypeOK, Settings
  <2> QED  BY <2>1 DEF ExamsAreWhole, EnsuredAreWhole, CreatedAreEmpty,
                       WrongSizesSpoil
<1>2. CASE Kill
  <2> USE <1>2 DEF Kill, Finish, Fault, restVars, Disk!KillWriter
  <2>1. TypeOK'
    BY DEF TypeOK, Disk!DiskTypeOK, Nothing, Listing, Listed
  <2>2. Listed(info)' = {}
    BY DEF Nothing, Listed
  <2> QED  BY <2>1, <2>2 DEF ExamsAreWhole, EnsuredAreWhole, CreatedAreEmpty,
                             WrongSizesSpoil
<1>3. CASE SetAutoControl
  <2> USE <1>3 DEF SetAutoControl, diskVars, workVars, worldVars
  <2>1. TypeOK'
    BY DEF TypeOK, Disk!DiskTypeOK
  <2> QED  BY <2>1 DEF ExamsAreWhole, EnsuredAreWhole, CreatedAreEmpty,
                       WrongSizesSpoil
<1>4. CASE Leave
  <2> USE <1>4 DEF Leave, Fault, restVars
  <2>0. TypeOK /\ write = Disk!NotWriting
    BY DEF TypeOK
  <2>1. /\ Disk!DiskTypeOK'
        /\ write' # Disk!NotWriting /\ write'.path = StateFile
        /\ write'.existed = (files[StateFile] # "absent")
        /\ files[StateFile] = "absent" => files'[StateFile] = "empty"
        /\ \A q \in ExamPaths : files'[q] = files[q]
    BY OpenDestDoes DEF DiskPaths, TypeOK
  <2>2. TypeOK'
    BY <2>0, <2>1 DEF TypeOK
  <2>3. CreatedAreEmpty'
    BY <2>1 DEF CreatedAreEmpty
  <2>4. ExamsAreWhole'
    BY <2>0, <2>1, PathsOfExams DEF ExamsAreWhole, TypeOK, Listing, Listed
  <2>5. EnsuredAreWhole'
    BY <2>0, <2>1, PathsOfExams DEF EnsuredAreWhole, TypeOK, Listing, Listed
  <2>6. WrongSizesSpoil'
    BY DEF WrongSizesSpoil
  <2> QED  BY <2>2, <2>3, <2>4, <2>5, <2>6
<1>5. CASE SaveAgentState
  <2>0. TypeOK /\ Disk!DiskTypeOK /\ agent = "leaving"
    BY <1>5 DEF SaveAgentState, TypeOK
  <2>1. /\ UNCHANGED <<info, wrongSize, todo, setting, announced, loaded,
                       schedule, spoiled, changes>>
        /\ WrongSizesSpoil'
    BY <1>5 DEF SaveAgentState, restVars, WrongSizesSpoil
  \* Only the state file changes.
  <2>2. /\ TypeOK' /\ CreatedAreEmpty'
        /\ \A q \in ExamPaths : files'[q] = files[q]
        /\ write' = Disk!NotWriting \/ write'.path = StateFile
        /\ write # Disk!NotWriting /\ write.path = StateFile
    <3>1. CASE Disk!OpenTmp /\ UNCHANGED <<agent, faults>>
      BY <2>0, <2>1, <3>1, OpenTmpDoes DEF TypeOK, CreatedAreEmpty
    <3>2. CASE Disk!Replace(setting) /\ agent' = "down" /\ UNCHANGED faults
      <4>1. setting \in Versions \cup Settings
        BY <2>0 DEF TypeOK
      <4> QED  BY <2>0, <2>1, <3>2, <4>1, ReplaceDoes
               DEF TypeOK, CreatedAreEmpty, DiskPaths
    <3>3. CASE Disk!FailWrite /\ agent' = "down" /\ Fault
      BY <2>0, <2>1, <3>3, FailWriteDoes
      DEF TypeOK, CreatedAreEmpty, DiskPaths, Fault
    <3> QED  BY <1>5, <3>1, <3>2, <3>3 DEF SaveAgentState
  <2>3. ExamsAreWhole'
    BY <2>0, <2>1, <2>2, PathsOfExams DEF ExamsAreWhole, TypeOK, Listing, Listed
  <2>4. EnsuredAreWhole'
    BY <2>0, <2>1, <2>2, PathsOfExams
    DEF EnsuredAreWhole, TypeOK, Listing, Listed
  <2> QED  BY <2>1, <2>2, <2>3, <2>4
<1> QED  BY <1>1, <1>2, <1>3, <1>4, <1>5

\* Looking at a file of the answer.
LEMMA EnsureKeepsInv ==
  ASSUME Inv, NEW f \in todo, EnsureExamFile(f)
  PROVE  Inv'
<1> USE DEF Inv
<1> DEFINE p == PathOf(f, info[f])
<1>1. /\ TypeOK /\ Disk!DiskTypeOK /\ write = Disk!NotWriting
      /\ agent = "refreshing"
      /\ UNCHANGED <<agent, info, wrongSize, setting, announced, loaded,
                     schedule, spoiled, faults, changes>>
  BY DEF EnsureExamFile, TypeOK, restVars, worldVars
<1>2. /\ f \in Listed(info) /\ f \in Files /\ info[f] \in Versions
      /\ p \in ExamPaths /\ p \in DiskPaths /\ p # StateFile
      /\ \A g \in Listed(info) : g \in Files /\ info[g] \in Versions
      /\ \A g \in Listed(announced) : g \in Files /\ announced[g] \in Versions
  BY <1>1, PathsOfExams DEF TypeOK, Listing, Listed
<1>3. \A g \in Files, v \in Versions :
        PathOf(g, v) \in DiskPaths /\ (PathOf(g, v) = p => v = info[f])
  BY <1>2, PathsOfExams DEF PathOf
<1>4. WrongSizesSpoil'
  BY <1>1 DEF WrongSizesSpoil
<1>5. CASE KeepExamFile(f)
  <2> USE <1>5 DEF KeepExamFile, UpToDate, diskVars
  <2>1. TypeOK'
    BY <1>1 DEF TypeOK, Disk!DiskTypeOK
  <2>2. ExamsAreWhole' /\ CreatedAreEmpty'
    BY <1>1 DEF ExamsAreWhole, CreatedAreEmpty
  <2>3. EnsuredAreWhole'
    BY <1>1 DEF EnsuredAreWhole
  <2> QED  BY <1>4, <2>1, <2>2, <2>3
<1>6. CASE SetAside(f)
  <2> USE <1>6 DEF SetAside
  \* What is renamed was not whole, or was said not to be.
  <2>1. files[p] # info[f] \/ p \in spoiled
    BY DEF UpToDate, WrongSizesSpoil
  <2>2. /\ files' = [files EXCEPT ![p] = "absent"]
        /\ \A q \in DiskPaths : q # p => files'[q] = files[q]
    BY <1>1, <1>2 DEF Disk!DiskTypeOK, DiskPaths
  <2>3. TypeOK'
    BY <1>1, <1>2, <2>2 DEF TypeOK, Disk!DiskTypeOK
  <2>4. ExamsAreWhole'
    BY <1>1, <1>2, <1>3, <2>1, <2>2 DEF ExamsAreWhole
  <2>5. EnsuredAreWhole'
    BY <1>1, <1>2, <1>3, <2>1, <2>2 DEF EnsuredAreWhole
  <2> QED  BY <1>1, <1>4, <2>3, <2>4, <2>5 DEF CreatedAreEmpty
<1>7. CASE BeginDownload(f)
  <2> USE <1>7 DEF BeginDownload
  <2>1. /\ Disk!DiskTypeOK' /\ files[p] = "absent"
        /\ write' # Disk!NotWriting /\ write'.path = p /\ ~write'.existed
        /\ files'[p] = "empty"
        /\ \A q \in DiskPaths : q # p => files'[q] = files[q]
    <3>1. files[p] = "absent"
      BY DEF Disk!OpenDest
    <3> QED  BY <1>1, <1>2, <3>1, OpenDestDoes
  <2>2. TypeOK' /\ CreatedAreEmpty'
    BY <1>1, <1>2, <2>1 DEF TypeOK, CreatedAreEmpty
  <2>3. ExamsAreWhole'
    BY <1>1, <1>2, <1>3, <2>1, Marks DEF ExamsAreWhole
  <2>4. EnsuredAreWhole'
    BY <1>1, <1>2, <1>3, <2>1 DEF EnsuredAreWhole
  <2> QED  BY <1>4, <2>2, <2>3, <2>4
<1> QED  BY <1>5, <1>6, <1>7 DEF EnsureExamFile

\* A download goes on, or fails.
LEMMA DownloadKeepsInv ==
  ASSUME Inv, Download
  PROVE  Inv'
<1> USE DEF Inv
<1>1. /\ TypeOK /\ Disk!DiskTypeOK /\ agent = "refreshing"
      /\ write # Disk!NotWriting
      /\ UNCHANGED <<setting, announced, loaded, schedule, spoiled, changes>>
  BY DEF Download, TypeOK, restVars
<1>2. write.path \in ExamPaths /\ write.path \in DiskPaths /\ ~write.existed
  BY <1>1 DEF TypeOK, Disk!DiskTypeOK, Disk!Calls, DiskPaths, CreatedAreEmpty
<1>3. /\ \A g \in Listed(info) : g \in Files /\ info[g] \in Versions
      /\ \A g \in Listed(announced) : g \in Files /\ announced[g] \in Versions
  BY <1>1 DEF TypeOK, Listing, Listed
\* No file that is announced is being written, unless it is spoiled.
<1>4. \A g \in Listed(announced) :
        LET p == PathOf(g, announced[g])
        IN p \notin spoiled => p # write.path
  BY <1>1, <1>2, <1>3, Marks DEF ExamsAreWhole, CreatedAreEmpty
<1>5. CASE Disk!OpenTmp /\ UNCHANGED <<workVars, faults>>
  <2>1. /\ Disk!DiskTypeOK'
        /\ write' # Disk!NotWriting
        /\ write'.path = write.path /\ write'.existed = write.existed
        /\ files' = files
        /\ UNCHANGED <<agent, info, wrongSize, todo, faults>>
    BY <1>1, <1>5, OpenTmpDoes DEF workVars
  <2>2. TypeOK' /\ CreatedAreEmpty' /\ WrongSizesSpoil'
    BY <1>1, <2>1 DEF TypeOK, CreatedAreEmpty, WrongSizesSpoil
  <2>3. ExamsAreWhole' /\ EnsuredAreWhole'
    BY <1>1, <2>1 DEF ExamsAreWhole, EnsuredAreWhole
  <2> QED  BY <2>2, <2>3
<1>6. ASSUME NEW d \in Received(write.path[2]), Disk!Replace(d),
             UNCHANGED <<workVars, faults>>
      PROVE  Inv'
  <2>1. d = write.path[2] /\ d \in Versions
    BY <1>2, <1>6 DEF Received, ExamPaths
  <2>2. /\ Disk!DiskTypeOK' /\ write' = Disk!NotWriting
        /\ files'[write.path] = d
        /\ \A q \in DiskPaths : q # write.path => files'[q] = files[q]
        /\ UNCHANGED <<agent, info, wrongSize, todo, faults>>
    BY <1>1, <1>6, <2>1, ReplaceDoes DEF workVars
  <2>3. TypeOK' /\ CreatedAreEmpty' /\ WrongSizesSpoil'
    BY <1>1, <2>2 DEF TypeOK, CreatedAreEmpty, WrongSizesSpoil
  <2>4. ExamsAreWhole'
    BY <1>1, <1>3, <1>4, <2>2, PathsOfExams DEF ExamsAreWhole
  <2>5. EnsuredAreWhole'
    BY <1>1, <1>3, <2>1, <2>2, PathsOfExams DEF EnsuredAreWhole
  <2> QED  BY <2>3, <2>4, <2>5
<1>7. CASE Disk!FailWrite /\ Finish("idle") /\ Fault
  <2>1. /\ Disk!DiskTypeOK' /\ write' = Disk!NotWriting
        /\ \A q \in DiskPaths : q # write.path => files'[q] = files[q]
    BY <1>1, <1>7, FailWriteDoes
  <2>2. Listed(info)' = {} /\ info' \in Listing
    BY <1>7 DEF Finish, Nothing, Listed, Listing
  <2>3. TypeOK' /\ CreatedAreEmpty' /\ WrongSizesSpoil'
    BY <1>1, <1>7, <2>1, <2>2
    DEF TypeOK, CreatedAreEmpty, WrongSizesSpoil, Finish, Fault
  <2>4. ExamsAreWhole'
    BY <1>1, <1>3, <1>4, <2>1, PathsOfExams DEF ExamsAreWhole
  <2>5. EnsuredAreWhole'
    BY <2>2 DEF EnsuredAreWhole
  <2> QED  BY <2>3, <2>4, <2>5
<1> QED  BY <1>5, <1>6, <1>7 DEF Download

\* The answer of Exam-O-Matic comes and is saved.
LEMMA AnswerKeepsInv ==
  ASSUME Inv, GetExamInfo \/ GetWrongSize \/ SaveExamInfo
  PROVE  Inv'
<1> USE DEF Inv
<1>1. TypeOK /\ Disk!DiskTypeOK
  BY DEF TypeOK
<1>2. CASE GetExamInfo \/ GetWrongSize
  <2>1. /\ agent = "idle" /\ agent' = "refreshing"
        /\ info' = schedule /\ todo' = Listed(schedule)
        /\ wrongSize' \subseteq Listed(schedule)
        /\ spoiled \subseteq spoiled' /\ spoiled' \subseteq ExamPaths
        /\ \A f \in wrongSize' : PathOf(f, schedule[f]) \in spoiled'
        /\ faults' \in 0..MaxFaults
        /\ UNCHANGED <<files, tmp, write, setting, announced, loaded, schedule,
                       changes>>
    <3>1. CASE GetExamInfo
      BY <1>1, <3>1 DEF GetExamInfo, TypeOK, diskVars, restVars
    <3>2. CASE GetWrongSize
      <4>1. PICK f \in Listed(schedule) :
                   /\ wrongSize' = {f}
                   /\ spoiled' = spoiled \cup {PathOf(f, schedule[f])}
        BY <3>2 DEF GetWrongSize
      <4>2. f \in Files /\ schedule[f] \in Versions
        BY <1>1 DEF TypeOK, Listing, Listed
      <4>3. spoiled' \subseteq ExamPaths
        BY <1>1, <4>1, <4>2, PathsOfExams DEF TypeOK
      <4>4. faults' \in 0..MaxFaults
        BY <1>1, <3>2 DEF GetWrongSize, Fault, TypeOK
      <4> QED  BY <1>1, <3>2, <4>1, <4>3, <4>4
               DEF GetWrongSize, TypeOK, diskVars, restVars
    <3> QED  BY <1>2, <3>1, <3>2
  <2>2. TypeOK'
    BY <1>1, <2>1 DEF TypeOK, Disk!DiskTypeOK, Listed
  <2>3. ExamsAreWhole' /\ CreatedAreEmpty' /\ WrongSizesSpoil'
    BY <2>1 DEF ExamsAreWhole, CreatedAreEmpty, WrongSizesSpoil, Listed
  <2>4. EnsuredAreWhole'
    BY <2>1 DEF EnsuredAreWhole, Listed
  <2> QED  BY <2>2, <2>3, <2>4
<1>3. CASE SaveExamInfo
  <2> USE <1>3 DEF SaveExamInfo
  <2> DEFINE saved == [f \in Files |-> IF f \in Listed(info) THEN info[f]
                                                             ELSE announced[f]]
  <2>1. /\ write = Disk!NotWriting /\ todo = {}
        /\ agent' = "idle" /\ info' = Nothing /\ wrongSize' = {} /\ todo' = {}
        /\ UNCHANGED <<files, tmp, write, setting, loaded, schedule, spoiled,
                       changes>>
    BY DEF AllEnsured, Finish, diskVars
  <2>2. announced' = saved \/ announced' = announced
    OBVIOUS
  <2>3. faults' \in 0..MaxFaults
    BY <1>1 DEF TypeOK, Fault
  <2>4. saved \in Listing
    BY <1>1 DEF TypeOK, Listing
  <2>5. Listed(info)' = {} /\ info' \in Listing
    BY <2>1 DEF Nothing, Listed, Listing
  <2>6. TypeOK'
    BY <1>1, <2>1, <2>2, <2>3, <2>4, <2>5 DEF TypeOK, Disk!DiskTypeOK
  \* Every file of the answer has been ensured.
  <2>7. \A f \in Listed(saved) :
          LET p == PathOf(f, saved[f])
          IN p \notin spoiled => files[p] = saved[f]
    BY <2>1 DEF EnsuredAreWhole, ExamsAreWhole, Listed
  <2>8. ExamsAreWhole'
    BY <2>1, <2>2, <2>7 DEF ExamsAreWhole
  <2>9. EnsuredAreWhole' /\ CreatedAreEmpty' /\ WrongSizesSpoil'
    BY <2>1, <2>5 DEF EnsuredAreWhole, CreatedAreEmpty, WrongSizesSpoil
  <2> QED  BY <2>6, <2>8, <2>9
<1> QED  BY <1>2, <1>3

\* What happens besides.
LEMMA RestKeepsInv ==
  ASSUME Inv, LoadExamPackage \/ ChangeSchedule \/ DamageFile
  PROVE  Inv'
<1> USE DEF Inv
<1>1. TypeOK /\ Disk!DiskTypeOK
  BY DEF TypeOK
<1>2. \A g \in Listed(announced) : g \in Files /\ announced[g] \in Versions
  BY <1>1 DEF TypeOK, Listing, Listed
<1>3. CASE LoadExamPackage
  <2>1. PICK f \in Listed(announced) :
               loaded' = <<PathOf(f, announced[f]), files[PathOf(f, announced[f])]>>
    BY <1>3 DEF LoadExamPackage
  <2>2. /\ UNCHANGED <<files, tmp, write, agent, info, wrongSize, todo, setting,
                       announced, schedule, spoiled, faults, changes>>
    BY <1>3 DEF LoadExamPackage, diskVars, workVars, worldVars
  <2>3. loaded'[1] \in ExamPaths /\ loaded'[1][2] = announced[f]
    BY <1>2, <2>1, PathsOfExams
  <2>4. TypeOK'
    BY <1>1, <2>2, <2>3 DEF TypeOK, Disk!DiskTypeOK
  <2>5. ExamsAreWhole'
    BY <2>1, <2>2, <2>3 DEF ExamsAreWhole
  <2> QED  BY <2>2, <2>4, <2>5
           DEF EnsuredAreWhole, CreatedAreEmpty, WrongSizesSpoil
<1>4. CASE ChangeSchedule
  <2>1. /\ UNCHANGED <<files, tmp, write, agent, info, wrongSize, todo, setting,
                       announced, loaded, spoiled, faults>>
        /\ schedule' \in Listing /\ changes' \in 0..MaxChanges
    BY <1>1, <1>4 DEF ChangeSchedule, diskVars, workVars, restVars, TypeOK,
                      Listing
  <2>2. TypeOK'
    BY <1>1, <2>1 DEF TypeOK, Disk!DiskTypeOK
  <2> QED  BY <2>1, <2>2 DEF ExamsAreWhole, EnsuredAreWhole, CreatedAreEmpty,
                             WrongSizesSpoil
<1>5. CASE DamageFile
  <2>1. PICK p \in ExamPaths :
               /\ files[p] \in Versions
               /\ files' = [files EXCEPT ![p] = "damaged"]
               /\ spoiled' = spoiled \cup {p}
    BY <1>5 DEF DamageFile
  <2>2. /\ UNCHANGED <<tmp, write, agent, info, wrongSize, todo, setting,
                       announced, loaded, schedule, changes>>
        /\ faults' \in 0..MaxFaults
    BY <1>1, <1>5 DEF DamageFile, workVars, restVars, Fault, TypeOK
  <2>3. files[p] # "empty"
    BY <2>1, Marks
  <2>4. TypeOK'
    BY <1>1, <2>1, <2>2 DEF TypeOK, Disk!DiskTypeOK
  <2>5. \A q \in DiskPaths : q # p => files'[q] = files[q]
    BY <1>1, <2>1 DEF Disk!DiskTypeOK, DiskPaths
  <2>6. CreatedAreEmpty'
    BY <1>1, <2>2, <2>3, <2>5
    DEF CreatedAreEmpty, Disk!DiskTypeOK, Disk!Calls, DiskPaths
  <2>7. ExamsAreWhole'
    BY <1>2, <2>1, <2>2, <2>5, PathsOfExams DEF ExamsAreWhole
  <2>8. EnsuredAreWhole'
    <3>1. \A g \in Listed(info) : g \in Files /\ info[g] \in Versions
      BY <1>1 DEF TypeOK, Listing, Listed
    <3> QED  BY <2>1, <2>2, <2>5, <3>1, PathsOfExams DEF EnsuredAreWhole
  <2>9. WrongSizesSpoil'
    BY <2>1, <2>2 DEF WrongSizesSpoil
  <2> QED  BY <2>4, <2>6, <2>7, <2>8, <2>9
<1> QED  BY <1>3, <1>4, <1>5

\* What is on the disk is known at every step.
LEMMA Invariance == Spec => []Inv
<1>1. Inv /\ [Next]_vars => Inv'
  <2> SUFFICES ASSUME Inv, [Next]_vars PROVE Inv'
    OBVIOUS
  <2>1. CASE UNCHANGED vars
    BY <2>1 DEF vars, diskVars, workVars, restVars, worldVars, Inv, TypeOK,
                Disk!DiskTypeOK, ExamsAreWhole, EnsuredAreWhole,
                CreatedAreEmpty, WrongSizesSpoil
  <2> QED  BY <2>1, LifeKeepsInv, EnsureKeepsInv, DownloadKeepsInv,
              AnswerKeepsInv, RestKeepsInv DEF Next, Refresh
<1> QED  BY <1>1, Initially, PTL DEF Spec

\* The agent's files, its memory and the database have their types, and a
\* write goes on only while the agent refreshes exams or saves its state.
THEOREM FilesTyped == Spec => []TypeOK
<1>1. Inv => TypeOK
  BY DEF Inv
<1> QED  BY <1>1, Invariance, PTL

\* Whatever is announced is on the disk and whole, and so is what is loaded.
THEOREM AnnouncedExamsAreWhole == Spec => []ExamsAreWhole
<1>1. Inv => ExamsAreWhole
  BY DEF Inv
<1> QED  BY <1>1, Invariance, PTL

------------------------------------------------------------------------------
(***************************************************************************)
(* The state file.                                                         *)
(***************************************************************************)

\* No exam file is the state file.
LEMMA RefreshLeavesState ==
  ASSUME Inv,
         Refresh \/ GetWrongSize \/ LoadExamPackage \/ ChangeSchedule
           \/ DamageFile
  PROVE  /\ files'[StateFile] = files[StateFile] /\ setting' = setting
         /\ agent # "down" <=> agent' # "down"
<1> USE DEF Inv
<1>1. TypeOK /\ Disk!DiskTypeOK
  BY DEF TypeOK
<1>2. CASE GetExamInfo \/ GetWrongSize \/ SaveExamInfo \/ LoadExamPackage
             \/ ChangeSchedule
  BY <1>2 DEF GetExamInfo, GetWrongSize, SaveExamInfo, LoadExamPackage,
              ChangeSchedule, Finish, diskVars, workVars, restVars
<1>3. CASE DamageFile
  BY <1>1, <1>3 DEF DamageFile, workVars, restVars, Disk!DiskTypeOK
<1>4. CASE Download
  <2>1. write # Disk!NotWriting /\ agent = "refreshing" /\ setting' = setting
    BY <1>4 DEF Download, restVars
  <2>2. write.path # StateFile /\ StateFile \in DiskPaths
    BY <1>1, <2>1 DEF TypeOK, DiskPaths
  <2>3. CASE Disk!OpenTmp /\ UNCHANGED <<workVars, faults>>
    BY <1>1, <2>1, <2>3, OpenTmpDoes DEF workVars
  <2>4. ASSUME NEW d \in Received(write.path[2]), Disk!Replace(d),
               UNCHANGED <<workVars, faults>>
        PROVE  files'[StateFile] = files[StateFile] /\ agent' = agent
    BY <1>1, <2>2, <2>4 DEF Disk!Replace, Disk!DiskTypeOK, workVars
  <2>5. CASE Disk!FailWrite /\ Finish("idle") /\ Fault
    BY <1>1, <2>1, <2>2, <2>5, FailWriteDoes DEF Finish
  <2> QED  BY <1>4, <2>1, <2>3, <2>4, <2>5 DEF Download
<1>5. ASSUME NEW f \in todo, EnsureExamFile(f)
      PROVE  /\ files'[StateFile] = files[StateFile] /\ setting' = setting
             /\ agent' = agent
  <2>1. PathOf(f, info[f]) \in ExamPaths
    BY <1>1, PathsOfExams DEF TypeOK, Listing, Listed
  <2>2. setting' = setting /\ agent' = agent
    BY <1>5 DEF EnsureExamFile, restVars
  <2>3. CASE KeepExamFile(f)
    BY <2>2, <2>3 DEF KeepExamFile, diskVars
  <2>4. CASE SetAside(f)
    BY <1>1, <2>1, <2>2, <2>4 DEF SetAside, Disk!DiskTypeOK
  <2>5. CASE BeginDownload(f)
    BY <1>1, <2>1, <2>2, <2>5
    DEF BeginDownload, Disk!OpenDest, Disk!DiskTypeOK
  <2> QED  BY <1>5, <2>3, <2>4, <2>5 DEF EnsureExamFile
<1> QED  BY <1>2, <1>3, <1>4, <1>5 DEF Refresh

\* Each step is one of the saved setting, or leaves it alone.
LEMMA StepMaps ==
  Inv /\ [Next]_vars => [State!Next]_(State!settingVars)
<1> SUFFICES ASSUME Inv, [Next]_vars
             PROVE  [State!Next]_(State!settingVars)
  OBVIOUS
<1> USE DEF State!Next, State!settingVars, SavedState
<1>1. /\ TypeOK /\ Disk!DiskTypeOK /\ StateFile \in DiskPaths
      /\ "absent" \notin Settings /\ "empty" \notin Settings
  BY DEF Inv, TypeOK, DiskPaths, Settings
<1>2. CASE Start
  BY <1>2 DEF Start, diskVars
<1>3. CASE Kill
  BY <1>3 DEF Kill, Finish, Disk!KillWriter, State!Lose
<1>4. CASE SetAutoControl
  BY <1>4 DEF SetAutoControl, diskVars, workVars, State!Change, Settings,
              State!Settings
<1>5. CASE Leave
  <2>1. setting' = setting /\ agent = "idle" /\ agent' = "leaving"
    BY <1>5 DEF Leave, restVars
  <2>2. SavedState' = SavedState
    BY <1>1, <1>5, OpenDestDoes DEF Leave
  <2> QED  BY <2>1, <2>2
<1>6. CASE SaveAgentState
  <2>1. setting' = setting /\ setting \in Settings /\ agent = "leaving"
    BY <1>1, <1>6 DEF SaveAgentState, restVars, TypeOK
  <2>2. CASE Disk!OpenTmp /\ UNCHANGED <<agent, faults>>
    BY <1>1, <2>1, <2>2, OpenTmpDoes
  <2>3. CASE Disk!Replace(setting) /\ agent' = "down" /\ UNCHANGED faults
    <3>1. files'[StateFile] = setting
      BY <1>1, <2>1, <2>3, ReplaceDoes DEF TypeOK
    <3> QED  BY <2>1, <2>3, <3>1 DEF State!Save
  <2>4. CASE Disk!FailWrite /\ agent' = "down" /\ Fault
    <3>1. SavedState' = SavedState
      BY <1>1, <2>1, <2>4, FailWriteDoes DEF Inv, TypeOK, CreatedAreEmpty
    <3> QED  BY <2>4, <3>1 DEF State!Lose
  <2> QED  BY <1>6, <2>2, <2>3, <2>4 DEF SaveAgentState
<1>7. CASE Refresh \/ GetWrongSize \/ LoadExamPackage \/ ChangeSchedule
             \/ DamageFile
  BY <1>7, RefreshLeavesState
<1>8. CASE UNCHANGED vars
  BY <1>8 DEF vars, diskVars, workVars, restVars
<1> QED  BY <1>2, <1>3, <1>4, <1>5, <1>6, <1>7, <1>8 DEF Next

\* The agent starts with the setting saved last, whenever it was killed.
THEOREM SettingSurvives == Spec => SettingIsSaved
<1>1. Init => State!Init
  BY DEF Init, State!Init, SavedState, Disk!DiskInit, Settings
<1> QED  BY <1>1, Invariance, StepMaps, PTL DEF Spec, SettingIsSaved, State!Spec
==============================================================================
