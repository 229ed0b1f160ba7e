------------------------------ MODULE AtomicFiles ------------------------------
(***************************************************************************)
(* open_atomic_write of ktp_controller/utils.py, step by step: a process   *)
(* that can be killed between any two steps writes one file at a time.     *)
(* The file is created empty under its final name, the new contents go to  *)
(* a temporary file next to it, and a rename puts them into place.         *)
(***************************************************************************)
CONSTANTS
  Paths,
  Contents  \* what a file may be meant to hold

VARIABLES
  files,  \* what is found under each path
  tmp,    \* the same for the temporary file of each path
  write   \* the call that is going on

diskVars == <<files, tmp, write>>

NotWriting == [step |-> "none"]
Calls == [step : {"dest", "tmp"}, path : Paths, existed : BOOLEAN]

DiskTypeOK ==
  /\ files \in [Paths -> Contents \cup {"absent", "empty", "damaged"}]
  /\ tmp \in [Paths -> {"absent", "partial"}]
  /\ write \in Calls \cup {NotWriting}

DiskInit ==
  /\ files = [p \in Paths |-> "absent"]
  /\ tmp = [p \in Paths |-> "absent"]
  /\ write = NotWriting

\* Variation: the final name is opened with mode "w".
Truncate(old) == "empty"

\* Mode "x" or "a" creates a file that is not there and leaves alone one
\* that is.
Touch(old) == IF old = "absent" THEN "empty" ELSE old

\* Mode "x" raises when the file is there.
OpenDest(p, exclusive) ==
  /\ write = NotWriting
  /\ exclusive => files[p] = "absent"
  /\ files' = [files EXCEPT ![p] = Touch(@)]
  /\ write' = [step |-> "dest", path |-> p, existed |-> files[p] # "absent"]
  /\ UNCHANGED tmp

\* Mode "w": what an earlier process has left is truncated.
OpenTmp ==
  /\ write.step = "dest" /\ write' = [write EXCEPT !.step = "tmp"]
  /\ tmp' = [tmp EXCEPT ![write.path] = "partial"]
  /\ UNCHANGED files

\* The caller has written d, and os.rename replaces the file.
Replace(d) ==
  /\ write.step = "tmp" /\ write' = NotWriting
  /\ files' = [files EXCEPT ![write.path] = d]
  /\ tmp' = [tmp EXCEPT ![write.path] = "absent"]

\* A step, or the caller, raises: what the call has created is removed.
FailWrite ==
  /\ write # NotWriting /\ write' = NotWriting
  /\ files' = IF write.existed THEN files
              ELSE [files EXCEPT ![write.path] = "absent"]
  /\ tmp' = IF write.step = "tmp" THEN [tmp EXCEPT ![write.path] = "absent"]
            ELSE tmp

\* The process is killed: what it has created stays.
KillWriter == write' = NotWriting /\ UNCHANGED <<files, tmp>>
==============================================================================
