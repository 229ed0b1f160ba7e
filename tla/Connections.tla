------------------------------ MODULE Connections ------------------------------
(***************************************************************************)
(* The websocket connections of the agent, ktp_controller/agent/main.py.   *)
(* Each connection has a loop of its own (__maintain_websocket_connection) *)
(* that connects, runs the connection's functions in a task group and,     *)
(* when one of them raises, waits and connects again.  The three loops run *)
(* in the task group of forever.  A function that raises ends its own      *)
(* connection only.  An attempt to connect that fails is no ExceptionGroup *)
(* and escapes from its loop: it cancels the other two, and forever waits  *)
(* and starts all three again.                                             *)
(***************************************************************************)
EXTENDS Naturals

CONSTANTS API, Abitti2, ExamOMatic,
          MaxFaults  \* bound: servers stopped, connections broken, exceptions

ASSUME MaxFaultsAssumption == MaxFaults \in Nat

VARIABLES
  forever,  \* the outer loop
  conn,     \* the loop of each connection
  serving,  \* the servers that accept connections
  faults

connVars == <<forever, conn, serving, faults>>

Components == {API, Abitti2, ExamOMatic}

\* "dead" is a connection that is closed and the agent does not know yet.
Phases == {"off", "connecting", "open", "dead", "backoff"}

ConnTypeOK ==
  /\ forever \in {"running", "restarting"}
  /\ conn \in [Components -> Phases]
  /\ serving \subseteq Components
  /\ faults \in 0..MaxFaults
  /\ forever = "restarting" => \A k \in Components : conn[k] = "off"

ConnInit ==
  /\ forever = "running"
  /\ conn = [k \in Components |-> "connecting"]
  /\ serving = Components
  /\ faults = 0

Fault == faults < MaxFaults /\ faults' = faults + 1

Go(k, from, to) ==
  conn[k] = from /\ conn' = [conn EXCEPT ![k] = to]

------------------------------------------------------------------------------

\* websockets.connect succeeds.
Open(k) ==
  /\ k \in serving
  /\ Go(k, "connecting", "open")
  /\ UNCHANGED <<forever, serving, faults>>

\* websockets.connect raises: all three loops end.
Refused(k) ==
  /\ k \notin serving
  /\ conn[k] = "connecting"
  /\ forever' = "restarting"
  /\ conn' = [j \in Components |-> "off"]
  /\ UNCHANGED <<serving, faults>>

\* Variation: an operational failure is logged and the loop is left.
StartAgainOnce == UNCHANGED connVars

\* forever, after approx_restart_timeout_sec
StartAgain ==
  /\ forever = "restarting" /\ forever' = "running"
  /\ conn' = [k \in Components |-> "connecting"]
  /\ UNCHANGED <<serving, faults>>

\* A function of an open connection raises.  Those of Abitti2 are the only
\* ones whose handlers catch everything.
Raise(k) ==
  /\ k # Abitti2
  /\ Go(k, "open", "backoff")
  /\ Fault
  /\ UNCHANGED <<forever, serving>>

\* The connection is closed, by the server or on the way.
Break(k) ==
  /\ Go(k, "open", "dead")
  /\ Fault
  /\ UNCHANGED <<forever, serving>>

\* A function that receives or sends finds out: it raises, or, when Abitti2
\* closes the connection properly, the only function simply ends.
Notice(k) ==
  /\ \/ Go(k, "dead", "backoff")
     \/ k = Abitti2 /\ Go(k, "dead", "connecting")
  /\ UNCHANGED <<forever, serving, faults>>

\* __maintain_websocket_connection, after approx_restart_timeout_sec
Retry(k) ==
  /\ Go(k, "backoff", "connecting")
  /\ UNCHANGED <<forever, serving, faults>>

\* A server stops, or starts again.
StopServer(k) ==
  /\ k \in serving /\ serving' = serving \ {k}
  /\ conn' = IF conn[k] = "open" THEN [conn EXCEPT ![k] = "dead"] ELSE conn
  /\ Fault
  /\ UNCHANGED forever

StartServer(k) ==
  /\ k \notin serving /\ serving' = serving \cup {k}
  /\ UNCHANGED <<forever, conn, faults>>
==============================================================================
