# KTP Controller in TLA+

KTP Controller runs the exams of a school's exam server (Abitti2) without
hands: it fetches exam packages from Exam-O-Matic, loads the next one onto
Abitti2, starts it on time, ends it on time, sends the answers back and resets
the server for the next exam. This directory holds TLA+ models of its core,
the TLC configurations that check them on small instances, and proofs that the
TLA+ proof system (TLAPS) checks for instances of any size.

Run from this directory:

    tlc -workers 2 -config AgentAuto.cfg MCAgent      # any cfg of the table below
    tlapm ExamStoreProofs.tla                         # and the other *Proofs modules

## 1. The system

| Component | Code | State | Operations |
|---|---|---|---|
| Exam database | `api/exam/routes.py`, `api/models.py`, `api/database.py`, `api/exam/schemas.py` | SQLite: `exam_info`, `exam_file_info`, `scheduled_exam`, `scheduled_exam_package` (lock, current flag, state, `state_changed_at`) | save exam information, get (and elect) the current package, set its state, two plain reads |
| Status report store | `api/system/routes.py` | the last N reports of Abitti2 | store (with retention), read the last one |
| Command bus | `api/system/routes.py`, `redis.py`, `ui.py`, `cli/main.py`, `agent/utils.py` | Redis pub/sub, websockets; nothing is stored | send a command, wait for its result, broadcast to the UI |
| Agent | `agent/main.py` | work in progress, last exam list of Abitti2, auto control, counters of its connections | one transition of the current package per pong; commands; messages of Abitti2 and Exam-O-Matic; refresh of exams |
| Agent's connections | `agent/main.py` | three websockets, each with a loop of its own, in the loop of `forever` | connect, run, fail, wait, connect again |
| Agent state file | `agent/state.py`, `utils.py` | `agent-state.json` | load on start, save on the way out |
| Exam files | `agent/main.py`, `examomatic/client.py`, `utils.py`, `files.py` | exam files on disk | download, verify, replace, build an exam package file |
| Abitti2 client | `abitti2/client.py` | none | load, decrypt, start, change the security code, end a session, download answers, reset |
| Abitti2, students, teacher | not in the repository | what is loaded, sessions, answer papers, the security code | see `Abitti2.tla` |
| The rest | settings, passwords, words, mock, migrations, supervision | - | see "Not modelled" |

How they interact:

- The **agent** calls the **API** over HTTP for everything that must survive
  it. The API's handlers are `async` functions that never suspend between
  reading and committing, so requests of different clients are serialised.
- The agent is one asyncio process whose calls to the API, Abitti2 and
  Exam-O-Matic *block*. A piece of work is therefore never interleaved with
  another piece of work or with the handling of a message, but Abitti2, the
  students, the clock and other clients of the API move between any two calls,
  and messages pile up in the sockets meanwhile.
- **Abitti2** pushes stats and exam lists over a websocket. The agent stores a
  stats message through the API as a status report, stamped with the time it
  *reads* it, and takes every decision about stopping from the last report.
- **Exam-O-Matic** pushes "refresh exams" and "change keycode".
- **Operators** send commands through the API, Redis and the agent's websocket.

What is hard here: everything that Abitti2 does is an effect outside any
transaction, done *before* the API is told about it; every call may fail with
its effect done; the agent may be killed between any two calls and starts over
from what the API stored; it decides from reports that may be old; a read of
the API elects a package; an import rewrites packages that are in use; and the
outcome of an import depends on which rows SQLAlchemy has flushed so far.
`PROJECT.json` lists these hazards at their lines.

What makes each part correct:

- *Exam database*: one package at a time is worked on, walks through its whole
  life cycle, and nothing but `set_current_exam_package_state` moves it; the
  tables agree with one another; an import is all or nothing and puts the exams
  into the packages that list them.
- *Agent*: the state in the API never runs ahead of Abitti2; no answer a student
  saved is lost; a stopped exam has no open session and no open door; answers
  are sent under their own package; stopping and archiving come to an end.
- *Command bus*: a command is executed at most once, what a command line reports
  is what came of its own command, and it waits for ever only when a message met
  nobody. *Connections*: whatever breaks, all three come back.
- *Status reports*: the last report is the newest, and making room for it takes
  none that a reader needs.
- *Exam files and state file*: what the database announces is on the disk, whole,
  and in the end everything scheduled is announced; the setting saved last is the
  one the agent starts with.

## 2. Modules

| Module | Models | Correspondence |
|---|---|---|
| `ExamLifecycle` | abstract: what the database promises | `Elect`, `Advance`; nothing else moves a package |
| `ExamStore` | the exam tables and handlers | one variable per column (`owner[e]` is `scheduled_exam.scheduled_exam_package_id`), a flag is a set of rows; `SaveExamInfo`, `GetCurrentExamPackage`, `SetCurrentExamPackageState` are the handlers, with their 200, 409, 422 and 500 outcomes in `response` |
| `ExamSession` | `_save_exam_info` line by line | the SQLAlchemy session: objects in `memory`, what is flushed in `transaction`, the committed tables of `ExamStore`; one action per round of either loop, commit, exception, killed process |
| `Abitti2` | the exam server and the people (external) | `LoadExam`, `DecryptExams`, `StartExams`, `ChangeSecurityCode`, `EndSession` are its HTTP calls; `Join`, `SaveAnswers`, `Finish`, `AnnounceCode` are what people do |
| `Agent` | the agent at work | INSTANCEs `ExamLifecycle` for the API's packages and `Abitti2` for the server; `pc` is the next call of the work in progress |
| `LastReport` | abstract: what the report store promises | a register; while the clock is behind, a report may be hidden behind one stored before |
| `StatusReports` | `abitti2_status_report` and its handlers | `rows` is the table, `createdAt` is `dbrow_created_at`; `SendStatusReport`, `GetLastStatusReport` are the handlers |
| `CommandCalls` | abstract: what the command bus promises | `Send`, `Do`, `Tell` |
| `Connections` | the agent's websockets | `conn[k]` is the loop `__maintain_websocket_connection` of component `k`, `forever` the loop around the three |
| `CommandBus` | a command and its result | EXTENDS `Connections`; `cli[c]` is `_dispatch_command` of a command line, `ui[c]` the handler of its websocket, `subscribed` the subscription of `_agent_websocket`, `doing` the result the agent is about to send |
| `SavedSetting` | abstract: what the state file promises | a setting that is saved and lost whole |
| `AtomicFiles` | `open_atomic_write` | one action per system call: create the file, create the temporary one, rename; raise; killed |
| `AgentFiles` | exam files and state file | INSTANCEs `AtomicFiles` for the disk; `info` and `todo` are the answer of Exam-O-Matic that a refresh goes through, `announced` is `exam_file_info` |
| `*Proofs` | theorems and proofs | |
| `MC*` | values for TLC | |

What implements what: `ExamSession` refines `ExamStore`, which refines
`ExamLifecycle`, which is the database of `Agent`. `StatusReports` refines
`LastReport`: `Agent`'s `report` is that register while the clock is not behind.
`CommandBus` refines `CommandCalls`: what a command does when it is executed is
`Agent`'s `Command`. `AgentFiles` refines `SavedSetting`, which is what `Agent`'s
`Restart` does with `auto` and `savedAuto`. Definitions headed *Variation* are
plausible mistakes in the code (a dropped guard, a missing step): put in place
of the definition that follows, each makes a property fail. They show that the
properties can fail.

### ExamStore and ExamSession

An import is one action of `ExamStore`, because handlers do not suspend, but its
result is not what the loops seem to say: the session has `autoflush=False`
(`api/database.py:43`), `_save_scheduled_exam` leaves new exams unflushed, and
`_save_scheduled_exam_package` queries them. `Visible`, `Releases` and
`OwnerAfter` state the result in closed form: which lookups find a row and where
an exam that moves ends up. `ExamSession` models the loops with their flushes;
that they come to this result is checked by the run `exam_session` for every
import of its bounds, and proved for all. `Consistent` is what a well-formed import looks like.

### Agent

A trigger (a pong under auto control, a pong while stopping, or a command) asks
the API for the current package (`Work`), decides whether a transition applies
(`TimeCondition`, `ManualTrigger`) and goes through its calls:

| state of the package | steps (`pc`) | next state |
|---|---|---|
| none | code (auto only), load, decrypt, set | ready |
| ready | start, set | running |
| running | code (auto only), report, stop, set | stopping |
| stopping | code (auto only), report, stop, set if all have stopped | stopped |
| stopped | report, download, upload (if there are answers), reset, set | archived |
| no package, exam list empty | reset (auto only) | - |

`Call` is the outcome of a call: answered, raised though done, raised and not
done. An exception ends the work (`Leave`), and the next trigger starts the
transition over. `Restart` kills the agent at any point, with or without the
state file saved. `fresh` is the comparison `received_at > state_changed_at`.

Abstractions to know of:

- The contents of answer papers are counters of saved edits; the `written`
  history is what ought to arrive. Exam-O-Matic keeps every file it is sent.
- A student is out, in, or ended, once per loaded exam. The permission to use
  browsers is left out: no decision of the agent depends on it.
- A package that is elected and whose package file cannot be built is elected
  and nothing else, which is `OtherClient`: building the file changes nothing.
- A package has one decrypt code. A wrong one raises like a failed call.
- The state file is written whole or not at all, and a message that was sent is
  the last report when it was stored: `AgentFiles` and `StatusReports` say why.
- Wall-clock steps are ignored, so a report is newer or older, never equal; what
  a step does to the last report is in `StatusReports`.
- The package file is written right before each use, and the package file of the
  waiting room at every start of the agent, before anything uses it (`Agent.run`),
  so what a kill leaves of them on the disk is never read.
- `Abitti2` is an assumption about a closed product. In particular: loading an
  exam wipes sessions and papers, a changed code keeps out whoever is not in
  yet, and nobody tells the students a code once the time of the exam is over or
  it is being stopped.

### StatusReports

A report is known by the number in which it was stored, and the table orders its
rows by the wall clock of the insertion (`dbrow_created_at`), both for "oldest"
and for "last". `Oldest(n)` is every choice that `ORDER BY ... LIMIT n` has when
instants are equal. `SetClockBack` is the only way to make them so: with a steady
clock two insertions never share an instant. `LastReport` says what a reader may
get then: while some report is stamped later than the clock (`behind`), a new
report may be hidden, but readers keep getting one of those they got before, or
the new one; deletions never take these, no report that readers are past comes
back, and the first report stored when the clock has caught up is the last one
again. The contents of a report decide
nothing here; one that the schema refuses is not stored.

### Connections and CommandBus

`Connections` models the two loops around the agent's websockets as Python's
task groups make them. An exception in a function of an open connection is an
`ExceptionGroup`, is caught inside the connection's own loop and only costs that
connection (`Raise`, `Notice`, then `Retry`). An exception of
`websockets.connect` is none, escapes, and cancels the other two loops
(`Refused`, then `StartAgain`). A connection may be closed long before the agent
finds out (`"dead"`): then it still reads, and executes, what had arrived.

`CommandBus` follows one command per command line. The steps are those at which
something can be lost: the UI websocket is accepted before it is subscribed
(`Connect`, `UiSubscribe`); the API publishes to whoever is subscribed
(`Publish`, `Forward`); the agent executes and then sends (`Execute`,
`SendResult`) on the websocket that the command came from. `lost` remembers the
commands for which one of these met nobody. Abstractions:

- A result is `"ok"` or `"error"`, chosen freely: what a command does is `Agent`.
- Messages on one websocket are sets, so they may overtake each other.
- While `doing` holds a result the agent neither executes nor pongs; connections
  may break in that time, as they do when a long command keeps the agent from
  answering the keepalive of the API's websocket server.
- A UI websocket ends when its command line ends, breaks, or the API stops. The
  API never closes one properly, so the command line never leaves its loop
  without its own result.
- The `status` command only reads, and status reports to the UI are acted upon by
  nobody: both are left out. So is the Redis listener of an agent's websocket
  that is gone, which lives until the next message and cannot pass it on.

### AgentFiles

A version of an exam file stands for its contents, size and digest, and the path
of a file is the pair of the two, because `get_local_filepath` puts the digest
into the name. `AtomicFiles` has the three system calls of `open_atomic_write`
and what an exception and a kill leave after each. A kill ends the agent at any
step of a refresh and of saving the state. The API refuses some answers, each
time they come (finding 1 of section 5): `CanBeSaved` and `CanBeRefused` are
`Importable` of `ExamStore` for answers whose order is left open. An answer with
new exams is saved for certain only if none of them is in a known package, and
refused for certain if all of them are. Nothing of a refused answer is announced,
the exams that have nothing to do with the refusal included. Abstractions:

- An exam goes with its file and stays in its package (`Package`): a new file is a
  new exam. `ExamStore` has the two apart, and exams that move.
- Exam-O-Matic never uses a request id twice for different answers (its mock makes
  a new one each time), so that a 409 means that the answer has been saved.
- Mode `"x"` raises if the final name exists; `__ensure_exam_file_exists` has
  renamed or not found it, so that the case cannot occur, and `OpenDest`
  requires it.
- A file that was set aside under another name is never read again, and is gone.
- `Start` comes with the saved setting. SIGTERM, with which the supervisor stops
  the agent, ends Python without its `finally`, and is a `Kill`; only an
  interrupt (or an exception that reaches `_run`) takes the way out (`Leave`).
- `spoiled` lists the files that the disk has damaged, or of which Exam-O-Matic
  has claimed a wrong size (the agent then sets a good file aside): no more is
  said of these than that they arrive in the end.

## 3. Runs

| Run | Question | Bounds |
|---|---|---|
| `exam_store` | do the tables stay consistent and implement the life cycle while imports, elections and state changes interleave? | 2 packages, 3 exams, 3 files, 6 imports, clock 0..3 |
| `exam_session` | do the loops of an import amount to the closed form, or to nothing? | 3 packages, 2 exams, 2 files; every list of up to 2 packages, then 3 packages in every order |
| `exam_store_new_exam` (violation) | can complete exam information always be saved? | as `exam_store` |
| `exam_store_moved_exam` (violation) | are only old connections removed? | as `exam_store` |
| `exam_store_unlocked` (violation) | is the current package locked? | as `exam_store` |
| `agent_auto` | safety under auto control | 2 packages, 2 students, 1 edit, 1 failure or kill, 1 import, messages read at once; all commands but `disable_auto` |
| `agent_commands` | all commands in any order: safety and liveness | 1 package, 1 student, 1 edit, 1 failure or kill, 1 message in the socket, no import |
| `status_reports` | does retention keep what readers need, and is the last report the last? | limit 5, 2 preserved, 10 reports, 2 steps of the clock |
| `command_bus` | is a command executed at most once, is what is reported true, where is what a command line waits for, who waits for ever, do connections recover? | 2 command lines, 2 faults |
| `agent_files` | is what is announced whole, does the setting survive, does everything arrive? | 3 files in 2 versions, two of them in one package, 2 kills, failures, damages or wrong claims, 3 changes of the schedule |
| `agent_stale_stats` (violation) | does a late stats message stop an exam too soon? | 1 package, 1 student, 1 message in the socket |
| `agent_no_answers` (violation) | are answers only asked for when there are some? | 1 package, 1 student, 1 failure |

Why the bounds are enough. Packages interact pairwise (election, an exam that
moves, answers of another package), so two suffice for the tables and the agent;
an import needs three for a release, a flush and a listing in three different
rounds of the loop. Two students let one join or save while the sessions of the
other are being ended. One failure at any call, in either variant, already
reaches every "done but not recorded" state; `OnlyOwnAnswers` was also tried with
three. One message in the socket is enough to be stale. The clock of
`exam_store` covers before, during and after both packages. Each of the six
imports there is a case of its own: announce, lock, move, add and unlock,
incomplete, malformed. Every package of the agent is locked at first (the state
after a usual import); imports then change times and locks. `agent_commands`
asks about the order of commands and messages; its student writes once, so that
archiving goes through the download and the upload in some behaviours and not in
others. It has no import, to keep it small: the same run with one import, and
messages read at once, passes as well (`MaxImports = 1`, `MaxDelayed = 0`). In
`agent_auto` operators give every command that leaves auto control on. The manual
ones are refused at once then; that nothing switches auto control off behind
their back, a kill with an older state file included, is part of what is checked.

Ten reports reach the limit of five twice, so that a deletion meets the rows an
earlier one has left; the clock can be set back before and after one, or twice in
a row. Two command lines are one that waits and one whose result it must not
take. Two faults stop a server and break what is left, or break a connection in
the backoff of another. Three files, two of them in one package, with three
changes of the schedule: a file comes, changes and comes back while another is
there; and an answer has new exams in a known package, in a new one, or in both,
so that it is refused, saved, or either; two faults are a kill and one more while
recovering from it. What no bound limits is proved (section 4).

`CHECK_DEADLOCK` is never switched off: the API answers and the agent's messages
arrive for ever. (`Pong` of `CommandBus` is such a message; what the agent does
upon it is `TimeWork` of `Agent`.)

Fairness of `Agent` (`FairSpec`), used by the liveness properties only:

- `WF(WorkStep)`: a call that was begun ends. Each has a timeout or a read
  timeout in the clients.
- `SF(TimeWork)`, `SF(ReceiveStats)`, `SF(ReceiveExamList)`: between two pieces
  of work the event loop gives each connection its turn. They are enabled only
  when `pc` is idle, hence strong fairness; pongs come from the API's
  websocket, and Abitti2 sends its stats again and again and its exam list when
  connected.
- `WF(TimePasses)`: time passes.
- Nothing is assumed of students, operators, other clients, failures, imports
  and restarts. Failures and restarts are finitely many, which
  "eventually works" needs anyway.

`StoppingEnds` and `CurrentGetsArchived` assume that the package stays locked in
the end, which only an import can change (in `agent_commands` it holds always):
the finding below shows that an import that unlocks it stops the agent.

Fairness of `CommandBus`: every task of the API and of the agent that can go on
does (the handlers of the websockets, the connection loops with their
`approx_restart_timeout_sec`, the loop of `forever`), each weakly, since nothing
but its own step or the end of its connection disables it. Nothing is assumed of
servers, operators and faults. `WaitingEnds` is therefore the exact statement
that the code allows: a waiting command line comes to an end, or its command or
result met nobody (`c \in lost`), and then it waits for ever, there being no
timeout. `ConnectionsRecover` assumes that all servers are up in the end.

Fairness of `AgentFiles`: the supervisor starts the agent again
(`autorestart`), saving goes on, and a refresh is started and carried on: every
pong of Exam-O-Matic starts one. `AllArrives` needs no more, since changes,
damages and faults are finitely many, and it says what it does not promise: if
from some time on the schedule has a new exam in a known package, the API may
refuse all of it for ever (`CanBeRefused`).

## 4. Proofs

For every value of the constants that satisfies the ASSUMEs of the modules:

`ExamStoreProofs` (assumptions: `Packages` is finite, NULLs are no values, and
an exam information lists an exam or a package once):

- `TypeCorrect`, `OneExam`, `ReferencesHold`, `LivesApart` from one inductive
  invariant `Inv`: the four properties and `CurrentNotArchived`. The last is
  needed because electing requires that no package is current, and "no package is
  current" only tells that none is active if the current one always leaves its
  flag behind in the step in which it is archived; `LivesDoNotOverlap` needs that
  `changedAt` never lies in the future, part of `TablesAgree`.
- `ImplementsLifecycle`: each handler is `Elect`, `Advance` or a stutter.
- `SecondSave`: whatever the tables hold, saving the same packages twice puts
  each exam into the package that lists it. It holds in every state, reachable
  or not, and rests on `OwnerAfterFirst`: after a first save an exam that a
  package of the list lists is that package's or nobody's, so that no other
  package releases it the second time.
- `UnlockedByImports`, `TakenBackByOldOwners`, `FailuresAreMixed` locate the
  three findings about the database (section 5): each can only happen in the way
  the run that shows it happens. They are statements about the code as it is,
  defined next to their proofs, and no run needs them.

`ExamSessionProofs` (the same assumptions; lists of any length): `ImplementsStore`,
the refinement of `ExamStore` by the request handler with its session, and
`SessionSafe`, what follows for the handler. That a step of the session is a step
of `ExamStore` is only interesting at the commit and at the exception, and there
it rests on what all rounds before have done. The loops are therefore not an
induction over the list but over steps: `SessionInv` says after each round what
the entries handled so far have made of the tables.

- In memory, files and exams have what the last entry says, packages what is
  announced (`FilesHeld`, `ExamsHeld`, `SchedulesHeld`), and keys are given in
  the order of the list (`RowsHeld`).
- In the transaction, an exam is found if it was saved before or something was
  flushed after it (`ExamsHeld`): this makes `.one()` fail exactly when
  `Importable` does not hold.
- The owner of an exam is that of `OwnerAfter` for the packages handled so far
  (`OwnersHeld`). What a package to come will release depends on the transaction,
  where it may still own an exam that another has taken over in memory;
  `OwnersToCome` says for how long: until the next flush.

Since the tables only change at the commit, `Inv` of `ExamStore` holds all the
time, and `SessionInvariance` proves the two together.

`AgentProofs` (assumptions: the values are distinct; any commands, failures,
delays, imports, packages and students):

- `StateFollowsServer`: the API's state never runs ahead of Abitti2. The
  inductive invariant is `WorkInv`. It adds what each step of the work knows of
  its package: the state it must be in, what is loaded at "decrypt" and "set",
  and that a reset without a package runs only when no package is active, though
  another client may elect one meanwhile.
- `DoorStaysShut`, for `"disable_auto" \notin Manual`: nobody can enter an exam
  that is being stopped. `DoorInv` adds that auto control is on, in memory and in
  the state file (else a kill would bring back another value), so that no
  command starts a piece of work, and that from the change of the code until
  "stopping" is set the time of the exam is over.

`AgentAnswersProofs` (it EXTENDS `AgentProofs`):

- `AgentTyped`: the type invariant of `Agent`, without further assumptions.
- `SessionsEnd`, `AnswersArrive`, `AnswersAreOwn`, for
  `"disable_auto" \notin Manual` and `MaxDelayed = 0`: a stopped package has no open session, no answer is lost, and
  answers are sent under their own package. Both assumptions are needed: the run
  `agent_stale_stats` violates the first with one delayed message, and section 5
  tells what commands do to the last. The three rest on one inductive invariant,
  `StudentInv` with `DoorInv`, which follows a package to its end. While it is
  "stopping" nobody learns a code (`ShutDoor`), so the open sessions only become
  fewer and a report received since then misses none (`StoppingReport`); the work
  that read from it that none is open stays right until "stopped" is set
  (`StoppingWork`), because with no session open nobody joins and nobody writes.
  From then on the server stands still, and what the last report says of answers
  is true (`StoppedServer`). So what archiving downloads is all there is, and it
  is with Exam-O-Matic when the reset begins (`Sending`). Last, a package that
  is loaded over another one destroys nothing: one that is loaded and has no
  state yet was never started (`LoadedWork`, `QuietServer`, `Unwritten`).
- `RequestsAreAnswered`, for `MaxDelayed = 0` and all commands, `disable_auto`
  included: `AnswersAreThere`, no request for answers that are not there, as long
  as the package is loaded. `RequestInv` follows the report: one that says there
  are papers is right about the loaded package if it was received since stopping
  began (`CountedPapers`), and all has stopped is never decided without such a
  report (`CountedDecision`). The run `agent_no_answers` violates the same without
  "as long as the package is loaded": the repetition after the reset is the only
  way to get there.

`StatusReportsProofs` (assumption: `0 < PreserveCount < MaxCount`, which
`routes.py` calls its logical invariant; any clock): `RowsBounded`,
`LatestSurvive`, and `ImplementsLastReport`, the refinement. The invariant adds
that with a steady clock the instants order the rows as their numbers do. The
retention rests on the cardinality of what a deletion leaves and on the fact
that the older rows are exactly those deleted. The refinement needs no steady
clock: of the newest rows one always stays (`NewestStays`), and a new row is
the only newest one unless some row lies in the future (`StoreAmongNewest`).

`CommandBusProofs` (any number of command lines and faults): `BusTyped`,
`OnlyTruths`, `WaitsAreAccountedFor`, and `ImplementsCalls`, the refinement.
`MessagesAreTrue` is inductive together with the types: a command that travels
has not been executed, so executing it is the first time; a result that travels
is that of the one execution, so whoever tells it tells the truth.
`NothingWaitsInVain` is the safety half of `WaitingEnds`: what a command line
waits for is on its way or lost, and never both. It needs `OneResult`: a result is
at one place at a time, else moving one copy would say nothing of the other.

`AgentFilesProofs` (assumptions: versions, settings and states of a file are
distinct; any kills, failures, damages and changes): `FilesTyped`,
`AnnouncedExamsAreWhole`, `SettingSurvives`. The invariant adds what a refresh
has made sure of so far (`EnsuredAreWhole`: each file that it has looked at is
whole, or is being written), that a call that has created its file has left it
empty until the rename (`CreatedAreEmpty`), and that a wrong size spoils.

Only model-checked: liveness (`StoppingEnds`, `CurrentGetsArchived`,
`WaitingEnds`, `ConnectionsRecover`, `AllArrives`), which is out of the prover's
reach with fairness and ENABLED. Every other property of a passing run is proved,
five of `agent_auto` under the assumptions named above, which its cfg meets.

## 5. What was found

- *A new exam in a known package is refused* (`routes.py:84`): the exam is not
  flushed, `.one()` does not find it, the import fails with 500, and so does
  every later refresh. Nothing else of the answer is announced meanwhile, which is
  the exception in `AllArrives`.
- *A moved exam can get lost* (`routes.py:122`): if a package, new or known, takes
  it over and its old package comes later in the list, the connection made a
  moment ago is removed. The second save
  repairs it (`SecondSaveConverges`).
- *The current package can be unlocked* (`agent/main.py:430`): the agent then
  raises at every pong, though its comment holds this for impossible.
- *Late stats messages count as new* (`agent/main.py:373`): with one message in
  the socket `StoppedMeansNoSession` fails, and with it `NoAnswerIsLost`: a
  student who is still at work when the answers are downloaded may lose edits.
- *Archiving may ask an empty server for answers* (`agent/main.py:397`), when
  the reset was done and setting the state failed.

Seen on the way, and no finding because nothing in the repository says otherwise,
or because it says too little to be refuted:

- With commands, `OnlyOwnAnswers` can fail. If the reset of archiving is done and
  setting the state fails, and students work in the waiting room before archiving
  is repeated, their papers are sent as the package's. Auto control is safe: it
  has changed the code before.
- `api/system/routes.py:44` says that a command "will be executed soon after the
  response is sent". Redis passes it to whoever is subscribed: while the agent
  reconnects nobody is, and the command is gone, though answered with 202. The
  command line then waits without a timeout (the `lost` of `WaitingEnds`).
- A command whose result is lost was executed: the operator who interrupts the
  waiting and repeats it may find it refused.
- One server that refuses connections ends the loops of all three connections
  again and again (`main.py:824`), so that nothing else is worked on for longer
  than it takes to try. They recover with it (`ConnectionsRecover`).
- After the clock was set back, the last status report stays an old one until the
  clock has caught up, and stopping waits. `LastReportSpec` bounds it: only then,
  never a report from further back, and over with the first report in time.
- A switch of auto control is lost at SIGTERM, the supervisor's way to stop.
- `refresh_exams_count` is never incremented, so that exams are refreshed at every
  pong. `AllArrives` relies on it.

## 6. Not modelled

The plan of this project (the exam database first, then the agent at work,
the bus, the reports, the files, and the proofs about each) is carried out.
Left out, with the reasons:

- settings, the password file and the word list: read, never changed;
- the mock of Exam-O-Matic: a stand-in for tests;
- the migrations: `Init` is the database they leave;
- the chainer of the integration test; of the supervisor only its effect is
  modelled (`Restart`, `Start`, `Kill`, `StopServer`, `StartServer`);
- wiring and formats of the API, the renaming of fields between Exam-O-Matic and
  the API, validation of messages: a message that is refused changes nothing;
- the statistics of connections, acknowledgements to Exam-O-Matic, status
  reports to the UI: nothing is decided by them;
- the agent's connections and its work are two models, not one: a piece of work
  blocks every connection, so that between the two only the pong, which starts
  work, and the restart, which ends it, would be shared, and `Agent` has both.
  Late messages, which come of the blocking, are `Agent`'s `channel`.
