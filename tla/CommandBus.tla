------------------------------ MODULE CommandBus ------------------------------
(***************************************************************************)
(* How a command of an operator reaches the agent and its result comes     *)
(* back.  The command line opens the UI websocket of the API, posts its    *)
(* command and waits for the result.  The API publishes the command in     *)
(* Redis; the handler of the agent's websocket, if it is subscribed by     *)
(* then, passes it on.  The agent executes it and sends the result over    *)
(* the same websocket; the API publishes that too, and the handler of each *)
(* UI websocket that is subscribed by then passes it on to its command     *)
(* line, which ignores the results of others.  Nothing is stored and       *)
(* nothing is sent twice.                                                  *)
(*                                                                         *)
(* Messages on their way are sets, so they may overtake each other.  The   *)
(* agent's side of its websocket is a connection of Connections.           *)
(***************************************************************************)
EXTENDS Connections, Sequences

CONSTANT Clients   \* the command line, run once for each command

VARIABLES
  cli,         \* cli.main._dispatch_command
  ui,          \* the handler _ui_websocket of each command line
  inbox,       \* results on their way to each command line
  subscribed,  \* the handler _agent_websocket has subscribed
  toAgent,     \* commands on their way to the agent
  doing,       \* the result the agent is about to send
  toApi,       \* results on their way from the agent
  posted,      \* history: the commands that were published
  outcomes,    \* history: what came of each execution
  lost         \* history: commands that, or whose result, nobody got

cliVars == <<cli, ui, inbox>>
agentVars == <<subscribed, toAgent, doing, toApi>>
historyVars == <<posted, outcomes, lost>>
vars == <<connVars, cliVars, agentVars, historyVars>>

Statuses == {"ok", "error"}
Results == [client : Clients, status : Statuses]
Nothing == <<>>

TypeOK ==
  /\ ConnTypeOK
  /\ cli \in [Clients -> {"new", "connected", "waiting", "succeeded", "failed",
                          "raised"}]
  /\ ui \in [Clients -> {"none", "accepted", "subscribed"}]
  /\ inbox \in [Clients -> SUBSET Results]
  /\ subscribed \in BOOLEAN
  /\ toAgent \subseteq Clients
  /\ doing \in Results \cup {Nothing}
  /\ toApi \subseteq Results
  /\ posted \subseteq Clients /\ lost \subseteq posted
  /\ outcomes \in [Clients -> Seq(Statuses)]
  /\ subscribed => conn[API] = "open"

Init ==
  /\ ConnInit
  /\ cli = [c \in Clients |-> "new"] /\ ui = [c \in Clients |-> "none"]
  /\ inbox = [c \in Clients |-> {}]
  /\ subscribed = FALSE /\ toAgent = {} /\ doing = Nothing /\ toApi = {}
  /\ posted = {} /\ lost = {}
  /\ outcomes = [c \in Clients |-> <<>>]

------------------------------------------------------------------------------
(***************************************************************************)
(* The agent's connection.                                                 *)
(***************************************************************************)

ClientsOf(results) == {r.client : r \in results}
Pending == IF doing = Nothing THEN {} ELSE {doing}

\* Variation: what was read from the old websocket is done on the new one.
TearDownAndKeep ==
  /\ subscribed' = FALSE
  /\ toApi' = {} /\ lost' = lost \cup ClientsOf(toApi)
  /\ UNCHANGED <<cliVars, toAgent, doing, posted, outcomes>>

\* The websocket is gone for both sides, with everything on it.
TearDown ==
  /\ subscribed' = FALSE
  /\ toAgent' = {} /\ doing' = Nothing /\ toApi' = {}
  /\ lost' = lost \cup toAgent \cup ClientsOf(toApi \cup Pending)
  /\ UNCHANGED <<cliVars, posted, outcomes>>

\* Variation: commands are still passed on to the websocket that is gone.
CloseApiSideStillSubscribed ==
  /\ toApi' = {} /\ lost' = lost \cup ClientsOf(toApi)
  /\ UNCHANGED <<cliVars, subscribed, toAgent, doing, posted, outcomes>>

\* The API has lost the websocket; the agent may still read what has
\* arrived on its side.  (The handler's Redis listener lives on until its
\* next message, which it cannot pass on.)
CloseApiSide ==
  /\ subscribed' = FALSE
  /\ toApi' = {} /\ lost' = lost \cup ClientsOf(toApi)
  /\ UNCHANGED <<cliVars, toAgent, doing, posted, outcomes>>

Untouched == UNCHANGED <<cliVars, agentVars, historyVars>>

\* What becomes of the connection to the API decides over the commands.
ConnStep ==
  \/ \E k \in Components :
       \/ (Open(k) \/ Retry(k) \/ StartServer(k)) /\ Untouched
       \/ Refused(k) /\ TearDown
       \/ (Raise(k) \/ Notice(k)) /\ IF k = API THEN TearDown ELSE Untouched
       \/ Break(k) /\ IF k = API THEN CloseApiSide ELSE Untouched
       \/ StopServer(k) /\ k # API /\ Untouched
  \/ StartAgain /\ Untouched

\* The API stops: no command line keeps its websocket.
StopApi ==
  /\ StopServer(API)
  /\ subscribed' = FALSE /\ toApi' = {}
  /\ lost' = lost \cup ClientsOf(toApi)
  /\ ui' = [c \in Clients |-> "none"] /\ inbox' = [c \in Clients |-> {}]
  /\ cli' = [c \in Clients |-> IF cli[c] \in {"connected", "waiting"}
                               THEN "raised" ELSE cli[c]]
  /\ UNCHANGED <<toAgent, doing, posted, outcomes>>

\* _agent_websocket accepts, then subscribes.
AgentSubscribe ==
  /\ conn[API] = "open" /\ ~subscribed /\ subscribed' = TRUE
  /\ UNCHANGED <<connVars, cliVars, toAgent, doing, toApi, historyVars>>

------------------------------------------------------------------------------
(***************************************************************************)
(* The way of a command.                                                   *)
(***************************************************************************)

\* websockets.connect of the command line
Connect(c) ==
  /\ cli[c] = "new"
  /\ IF API \in serving
     THEN /\ cli' = [cli EXCEPT ![c] = "connected"]
          /\ ui' = [ui EXCEPT ![c] = "accepted"]
     ELSE cli' = [cli EXCEPT ![c] = "raised"] /\ UNCHANGED ui
  /\ UNCHANGED <<connVars, inbox, agentVars, historyVars>>

\* _ui_websocket has accepted and now subscribes.
UiSubscribe(c) ==
  /\ ui[c] = "accepted" /\ ui' = [ui EXCEPT ![c] = "subscribed"]
  /\ UNCHANGED <<connVars, cli, inbox, agentVars, historyVars>>

\* _async_command: Redis hands the message to whoever is subscribed.
Publish(c) ==
  /\ posted' = posted \cup {c}
  /\ IF subscribed THEN toAgent' = toAgent \cup {c} /\ UNCHANGED lost
                   ELSE lost' = lost \cup {c} /\ UNCHANGED toAgent

\* api.client.async_command: answered with status 202, or an exception,
\* published or not.
Post(c) ==
  /\ cli[c] = "connected"
  /\ \/ /\ Publish(c)
        /\ cli' = [cli EXCEPT ![c] = "waiting"]
        /\ UNCHANGED <<faults, ui, inbox>>
     \/ /\ Publish(c) \/ UNCHANGED <<posted, toAgent, lost>>
        /\ Fault
        /\ cli' = [cli EXCEPT ![c] = "raised"]
        /\ ui' = [ui EXCEPT ![c] = "none"]
        /\ inbox' = [inbox EXCEPT ![c] = {}]
  /\ UNCHANGED <<forever, conn, serving, subscribed, doing, toApi, outcomes>>

\* Variation: a command is not done with before its result was sent.
ExecuteAndKeep(c) ==
  /\ c \in toAgent /\ doing = Nothing
  /\ conn[API] \in {"open", "dead"}
  /\ \E s \in Statuses :
       /\ outcomes' = [outcomes EXCEPT ![c] = Append(@, s)]
       /\ doing' = [client |-> c, status |-> s]
  /\ UNCHANGED <<connVars, cliVars, subscribed, toAgent, toApi, posted, lost>>

\* Variation: a command that fails has no result.
ExecuteUncaught(c) ==
  /\ c \in toAgent /\ toAgent' = toAgent \ {c} /\ doing = Nothing
  /\ conn[API] \in {"open", "dead"}
  /\ \E s \in Statuses :
       /\ outcomes' = [outcomes EXCEPT ![c] = Append(@, s)]
       /\ doing' = IF s = "ok" THEN [client |-> c, status |-> s] ELSE Nothing
  /\ UNCHANGED <<connVars, cliVars, subscribed, toApi, posted, lost>>

\* __communicate_with_api: whatever the command does, there is a result.
Execute(c) ==
  /\ c \in toAgent /\ toAgent' = toAgent \ {c} /\ doing = Nothing
  /\ conn[API] \in {"open", "dead"}
  /\ \E s \in Statuses :
       /\ outcomes' = [outcomes EXCEPT ![c] = Append(@, s)]
       /\ doing' = [client |-> c, status |-> s]
  /\ UNCHANGED <<connVars, cliVars, subscribed, toApi, posted, lost>>

\* It is sent on the websocket the command came from.
SendResult ==
  /\ doing # Nothing /\ doing' = Nothing
  /\ IF conn[API] = "open"
     THEN toApi' = toApi \cup {doing} /\ UNCHANGED lost
     ELSE lost' = lost \cup {doing.client} /\ UNCHANGED toApi
  /\ UNCHANGED <<connVars, cliVars, subscribed, toAgent, posted, outcomes>>

\* _communicate_with_agent, ui.forward_command_result_message: all command
\* lines that have subscribed get all results.
Forward(r) ==
  /\ r \in toApi /\ toApi' = toApi \ {r}
  /\ inbox' = [c \in Clients |-> IF ui[c] = "subscribed"
                                 THEN inbox[c] \cup {r} ELSE inbox[c]]
  /\ lost' = IF ui[r.client] = "subscribed" THEN lost
                                            ELSE lost \cup {r.client}
  /\ UNCHANGED <<connVars, cli, ui, subscribed, toAgent, doing, posted,
                 outcomes>>

\* Variation: the first result that arrives is taken.
MineOrNot(c, r) == TRUE

Mine(c, r) == r.client = c

\* The command line reads until its own result arrives.
Receive(c) ==
  /\ cli[c] = "waiting"
  /\ \E r \in inbox[c] :
       IF Mine(c, r)
       THEN /\ cli' = [cli EXCEPT ![c] = IF r.status = "ok" THEN "succeeded"
                                                            ELSE "failed"]
            /\ ui' = [ui EXCEPT ![c] = "none"]
            /\ inbox' = [inbox EXCEPT ![c] = {}]
       ELSE /\ inbox' = [inbox EXCEPT ![c] = @ \ {r}]
            /\ UNCHANGED <<cli, ui>>
  /\ UNCHANGED <<connVars, agentVars, historyVars>>

\* The websocket of a command line breaks.
UiBreaks(c) ==
  /\ cli[c] \in {"connected", "waiting"}
  /\ Fault
  /\ cli' = [cli EXCEPT ![c] = "raised"]
  /\ ui' = [ui EXCEPT ![c] = "none"]
  /\ inbox' = [inbox EXCEPT ![c] = {}]
  /\ UNCHANGED <<forever, conn, serving, agentVars, historyVars>>

------------------------------------------------------------------------------

\* A ping of the agent and the pong of the API; what the agent does then is
\* TimeWork of Agent.
Pong == conn[API] = "open" /\ doing = Nothing /\ UNCHANGED vars

BusStep ==
  \/ AgentSubscribe
  \/ SendResult
  \/ \E r \in toApi : Forward(r)
  \/ \E c \in Clients : UiSubscribe(c) \/ Execute(c) \/ Receive(c)

Next ==
  \/ ConnStep \/ StopApi \/ BusStep \/ Pong
  \/ \E c \in Clients : Connect(c) \/ Post(c) \/ UiBreaks(c)

Spec == Init /\ [][Next]_vars

\* Every task of the API and the agent that can go on does: they wait in
\* loops that end only with their connection.  Nothing is assumed of the
\* servers and of the operators.
Fairness ==
  /\ WF_vars(AgentSubscribe) /\ WF_vars(SendResult)
  /\ WF_vars(\E r \in toApi : Forward(r))
  /\ \A c \in Clients : /\ WF_vars(UiSubscribe(c)) /\ WF_vars(Execute(c))
                        /\ WF_vars(Receive(c))
  /\ WF_vars(StartAgain /\ Untouched)
  /\ \A k \in Components :
       /\ WF_vars((Open(k) \/ Retry(k)) /\ Untouched)
       /\ WF_vars(Refused(k) /\ TearDown)
       /\ WF_vars(Notice(k) /\ IF k = API THEN TearDown ELSE Untouched)

FairSpec == Spec /\ Fairness

------------------------------------------------------------------------------
(***************************************************************************)
(* Properties.                                                             *)
(***************************************************************************)

\* Everything on its way is true: a command that travels was not executed
\* yet, and will be once only; a result that travels is that of the only
\* execution; and so is what a command line has reported.
MessagesAreTrue ==
  /\ \A c \in Clients : cli[c] \in {"new", "connected"} => c \notin posted
  /\ \A c \in toAgent : c \in posted /\ outcomes[c] = <<>>
  /\ \A r \in toApi \cup Pending : outcomes[r.client] = <<r.status>>
  /\ \A c \in Clients : \A r \in inbox[c] : outcomes[r.client] = <<r.status>>
  /\ \A c \in Clients :
       /\ Len(outcomes[c]) <= (IF c \in posted THEN 1 ELSE 0)
       /\ cli[c] = "succeeded" => outcomes[c] = <<"ok">>
       /\ cli[c] = "failed" => outcomes[c] = <<"error">>

OnTheWay(c) ==
  \/ c \in toAgent \cup ClientsOf(toApi \cup Pending)
  \/ \E r \in inbox[c] : r.client = c

\* A command line that waits can tell nothing apart, but there are two cases
\* only: its command or its result is on its way, carried by a websocket
\* that those who have to move it still hold, or it is lost, and then nothing
\* will ever arrive.  No message outlives the websocket it came by.
NothingWaitsInVain ==
  /\ \A c \in Clients : cli[c] = "waiting" => (OnTheWay(c) <=> c \notin lost)
  /\ toAgent # {} \/ doing # Nothing => conn[API] \in {"open", "dead"}
  /\ toApi # {} => conn[API] = "open"

\* A command is executed at most once, after it was sent, and the command
\* line reports what came of its own command, whatever breaks on the way.
Told == [c \in Clients |-> CASE cli[c] = "succeeded" -> "ok"
                             [] cli[c] = "failed"    -> "error"
                             [] OTHER                -> ""]

Calls == INSTANCE CommandCalls WITH sent <- posted, told <- Told

CallsSpec == Calls!Spec

\* The command line waits without a timeout: it comes to an end if its
\* command and the result meet nobody who is not there.
WaitingEnds ==
  \A c \in Clients : cli[c] = "waiting" ~> cli[c] # "waiting" \/ c \in lost

\* If all servers are there in the end, all three connections are, although
\* each failed attempt ends the loops of all three.
ConnectionsRecover ==
  <>[](serving = Components) => <>[](\A k \in Components : conn[k] = "open")
==============================================================================
