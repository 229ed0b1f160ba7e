------------------------------- MODULE Abitti2 -------------------------------
(***************************************************************************)
(* The Abitti2 exam server with the students and the teacher around it, as *)
(* far as ktp_controller/abitti2/client.py and ktp_controller/agent/main.py*)
(* use it.  It is not part of the repository: everything here is an        *)
(* assumption about the environment.                                       *)
(***************************************************************************)
EXTENDS Naturals

CONSTANTS
  Packages,   \* exam packages
  Students,   \* students in the room
  Dummy,      \* the exam package of the waiting room (Odotusaulakoe)
  NoExam,     \* nothing is loaded
  MaxEdits    \* bound: how often a student saves the answer paper

VARIABLES
  loaded,     \* the package that was uploaded last
  phase,      \* "encrypted", "decrypted" or "running"
  session,    \* student -> "out", "in" or "ended"
  papers,     \* student -> number of saved edits, 0: no answer paper
  codeKnown,  \* the students know the current security code
  written     \* history: package -> the papers its students ever saved

serverVars == <<loaded, phase, session, papers, codeKnown, written>>

NoPapers == [s \in Students |-> 0]

ServerTypeOK ==
  /\ loaded \in Packages \cup {Dummy, NoExam}
  /\ phase \in {"encrypted", "decrypted", "running"}
  /\ session \in [Students -> {"out", "in", "ended"}]
  /\ papers \in [Students -> 0..MaxEdits]
  /\ codeKnown \in BOOLEAN
  /\ written \in [Packages -> [Students -> 0..MaxEdits]]

\* Freshly booted, or with an open waiting room.
ServerInit == /\ loaded \in {NoExam, Dummy}
              /\ phase = IF loaded = Dummy THEN "running" ELSE "encrypted"
              /\ session = [s \in Students |-> "out"]
              /\ papers = NoPapers
              /\ codeKnown = TRUE
              /\ written = [p \in Packages |-> NoPapers]

\* POST /api/load-exam: whatever was on the server is gone.
LoadExam(x) == /\ loaded' = x
               /\ phase' = "encrypted"
               /\ session' = [s \in Students |-> "out"]
               /\ papers' = NoPapers
               /\ UNCHANGED <<codeKnown, written>>

\* POST /api/decrypt-exam with the right code
DecryptExams == /\ phase' = IF phase = "encrypted" THEN "decrypted" ELSE phase
                /\ UNCHANGED <<loaded, session, papers, codeKnown, written>>

\* POST /api/start-exam
StartExams == /\ phase' = IF phase = "encrypted" THEN phase ELSE "running"
              /\ UNCHANGED <<loaded, session, papers, codeKnown, written>>

\* POST /api/single-security-code: who is in stays in.
ChangeSecurityCode ==
  /\ codeKnown' = FALSE
  /\ UNCHANGED <<loaded, phase, session, papers, written>>

\* POST /api/end-student-session
EndSession(s) ==
  /\ session' = [session EXCEPT ![s] = IF @ = "in" THEN "ended" ELSE @]
  /\ UNCHANGED <<loaded, phase, papers, codeKnown, written>>

\* What a stats message says: the sessions, those still open, and whether
\* there are answer papers (answerPaperCount > 0).
Stats == [students |-> {s \in Students : session[s] # "out"},
          open     |-> {s \in Students : session[s] = "in"},
          papers   |-> papers # NoPapers]

StatsType == [students : SUBSET Students, open : SUBSET Students,
              papers : BOOLEAN]

------------------------------------------------------------------------------
Join(s) == /\ phase = "running"
           /\ codeKnown
           /\ session[s] = "out"
           /\ session' = [session EXCEPT ![s] = "in"]
           /\ UNCHANGED <<loaded, phase, papers, codeKnown, written>>

SaveAnswers(s) ==
  /\ session[s] = "in"
  /\ papers[s] < MaxEdits
  /\ papers' = [papers EXCEPT ![s] = @ + 1]
  /\ written' = IF loaded \in Packages
                THEN [written EXCEPT ![loaded][s] = papers'[s]]
                ELSE written
  /\ UNCHANGED <<loaded, phase, session, codeKnown>>

Finish(s) == /\ session[s] = "in"
             /\ session' = [session EXCEPT ![s] = "ended"]
             /\ UNCHANGED <<loaded, phase, papers, codeKnown, written>>

Student == \E s \in Students : Join(s) \/ SaveAnswers(s) \/ Finish(s)

\* The teacher tells the students the code that Abitti2 shows.
AnnounceCode == /\ ~codeKnown
                /\ codeKnown' = TRUE
                /\ UNCHANGED <<loaded, phase, session, papers, written>>
==============================================================================
