--------------------------- MODULE CommandBusProofs ---------------------------
(***************************************************************************)
(* Theorems about CommandBus for any number of command lines and any       *)
(* number of faults, checked by the TLA+ proof system.  The invariant is   *)
(* what CommandBus says of its messages: a message that is on its way      *)
(* carries all that is needed to show that the next step is right.         *)
(***************************************************************************)
EXTENDS CommandBus, TLAPS

USE MaxFaultsAssumption

Inv == TypeOK /\ MessagesAreTrue

\* A command has one outcome or none.
LEMMA Outcomes ==
  ASSUME Inv, NEW c \in Clients
  PROVE  /\ outcomes[c] \in Seq(Statuses)
         /\ Len(outcomes[c]) \in {0, 1}
         /\ c \notin posted => outcomes[c] = <<>>
         /\ outcomes[c] # <<>> => c \in posted
         /\ outcomes[c] = <<>> \/ \E s \in Statuses : outcomes[c] = <<s>>
<1>1. outcomes[c] \in Seq(Statuses)
  BY DEF Inv, TypeOK
<1>2. /\ Len(outcomes[c]) \in Nat
      /\ c \in posted => Len(outcomes[c]) <= 1
      /\ c \notin posted => Len(outcomes[c]) <= 0
  <2>1. Len(outcomes[c]) <= (IF c \in posted THEN 1 ELSE 0)
    BY DEF Inv, MessagesAreTrue
  <2>2. Len(outcomes[c]) \in Nat
    BY <1>1
  <2> QED  BY <2>1, <2>2
<1>3. CASE Len(outcomes[c]) = 0
  <2>1. outcomes[c] = <<>>
    BY <1>1, <1>3
  <2> QED  BY <1>1, <1>2, <2>1
<1>4. CASE Len(outcomes[c]) = 1
  <2>1. outcomes[c] = <<outcomes[c][1]>> /\ outcomes[c][1] \in Statuses
    BY <1>1, <1>4
  <2> QED  BY <1>1, <1>2, <1>4, <2>1
<1>5. Len(outcomes[c]) = 0 \/ Len(outcomes[c]) = 1
  <2>1. \A n \in Nat : n <= 1 => n = 0 \/ n = 1
    OBVIOUS
  <2>2. Len(outcomes[c]) <= 1
    BY <1>2
  <2> QED  BY <1>2, <2>1, <2>2
<1> QED  BY <1>3, <1>4, <1>5

\* What was on its way may be lost: it was posted.
LEMMA TravellersArePosted ==
  ASSUME Inv
  PROVE  toAgent \cup ClientsOf(toApi \cup Pending) \subseteq posted
<1>1. toAgent \subseteq posted
  BY DEF Inv, MessagesAreTrue, TypeOK
<1>2. ASSUME NEW r \in toApi \cup Pending PROVE r.client \in posted
  <2>1. r \in Results
    BY DEF Inv, TypeOK, Pending
  <2>2. r.client \in Clients /\ outcomes[r.client] = <<r.status>>
    BY <2>1 DEF Results, Inv, MessagesAreTrue
  <2>3. outcomes[r.client] # <<>>
    BY <2>2
  <2> QED  BY <2>2, <2>3, Outcomes
<1> QED  BY <1>1, <1>2 DEF ClientsOf

\* At first nothing is on its way.
LEMMA Initially == Init => Inv
<1> SUFFICES ASSUME Init PROVE Inv
  OBVIOUS
<1>1. ConnTypeOK
  BY DEF Init, ConnInit, ConnTypeOK, Components, Phases
<1>2. outcomes \in [Clients -> Seq(Statuses)]
  BY DEF Init
<1>3. TypeOK
  BY <1>1, <1>2 DEF Init, TypeOK
<1>4. MessagesAreTrue
  BY DEF Init, MessagesAreTrue, Pending
<1> QED  BY <1>3, <1>4 DEF Inv

------------------------------------------------------------------------------
(***************************************************************************)
(* The agent's connection.                                                 *)
(***************************************************************************)

\* Each action of a connection keeps the types of Connections, and what it
\* leaves of the connection to the API is plain.
LEMMA ConnectionsKeepTypes ==
  ASSUME ConnTypeOK, NEW k \in Components,
         \/ Open(k) \/ Refused(k) \/ StartAgain \/ Raise(k) \/ Break(k)
         \/ Notice(k) \/ Retry(k) \/ StopServer(k) \/ StartServer(k)
  PROVE  ConnTypeOK'
<1> USE DEF ConnTypeOK, Components, Phases, Go, Fault
<1>1. CASE Open(k) \/ Retry(k) \/ Notice(k)
  BY <1>1 DEF Open, Retry, Notice
<1>2. CASE Refused(k) \/ StartAgain
  BY <1>2 DEF Refused, StartAgain
<1>3. CASE Raise(k) \/ Break(k)
  BY <1>3 DEF Raise, Break
<1>4. CASE StopServer(k) \/ StartServer(k)
  BY <1>4 DEF StopServer, StartServer
<1> QED  BY <1>1, <1>2, <1>3, <1>4

\* An open connection to the API stays open, unless it is torn down.
LEMMA OthersKeepApi ==
  ASSUME ConnTypeOK, NEW k \in Components, conn[API] = "open",
         \/ Open(k) \/ Retry(k) \/ StartServer(k) \/ StartAgain
         \/ k # API /\ (Raise(k) \/ Notice(k) \/ Break(k) \/ StopServer(k))
  PROVE  conn'[API] = "open"
<1> USE DEF ConnTypeOK, Components, Go
<1>1. CASE Open(k) \/ Retry(k) \/ StartServer(k) \/ StartAgain
  BY <1>1 DEF Open, Retry, StartServer, StartAgain
<1>2. CASE k # API /\ (Raise(k) \/ Notice(k) \/ Break(k) \/ StopServer(k))
  BY <1>2 DEF Raise, Notice, Break, StopServer
<1> QED  BY <1>1, <1>2

\* What is torn down tells no lies.
LEMMA TearDownKeepsInv ==
  ASSUME Inv, ConnTypeOK', TearDown
  PROVE  Inv'
<1>1. lost' \subseteq posted /\ posted' = posted
  BY TravellersArePosted DEF TearDown, Inv, TypeOK
<1>2. TypeOK'
  BY <1>1 DEF TearDown, cliVars, Inv, TypeOK
<1>3. MessagesAreTrue'
  BY DEF TearDown, cliVars, Inv, MessagesAreTrue, Pending, Nothing
<1> QED  BY <1>2, <1>3 DEF Inv

\* What the API drops was posted.
LEMMA CloseKeepsInv ==
  ASSUME Inv, ConnTypeOK', CloseApiSide
  PROVE  Inv'
<1>1. lost' \subseteq posted /\ posted' = posted
  BY TravellersArePosted DEF CloseApiSide, Inv, TypeOK, ClientsOf
<1>2. TypeOK'
  BY <1>1 DEF CloseApiSide, cliVars, Inv, TypeOK
<1>3. MessagesAreTrue'
  BY DEF CloseApiSide, cliVars, Inv, MessagesAreTrue, Pending
<1> QED  BY <1>2, <1>3 DEF Inv

\* What becomes of other connections leaves the messages alone.
LEMMA UntouchedKeepsInv ==
  ASSUME Inv, ConnTypeOK', Untouched,
         conn[API] = "open" /\ subscribed => conn'[API] = "open"
  PROVE  Inv'
<1> USE DEF Untouched, cliVars, agentVars, historyVars
<1>1. TypeOK'
  BY DEF Inv, TypeOK
<1>2. MessagesAreTrue'
  BY DEF Inv, MessagesAreTrue, Pending
<1> QED  BY <1>1, <1>2 DEF Inv

\* Each step of the connections keeps the messages true.
LEMMA ConnStepKeepsInv ==
  ASSUME Inv, ConnStep \/ StopApi
  PROVE  Inv'
<1>1. ConnTypeOK /\ API \in Components
  BY DEF Inv, TypeOK, Components
<1>2. ASSUME NEW k \in Components,
             (Open(k) \/ Retry(k) \/ StartServer(k)) /\ Untouched
      PROVE  Inv'
  BY <1>1, <1>2, ConnectionsKeepTypes, OthersKeepApi, UntouchedKeepsInv
<1>3. ASSUME NEW k \in Components, Refused(k) /\ TearDown
      PROVE  Inv'
  BY <1>1, <1>3, ConnectionsKeepTypes, TearDownKeepsInv
<1>4. ASSUME NEW k \in Components,
             (Raise(k) \/ Notice(k))
               /\ IF k = API THEN TearDown ELSE Untouched
      PROVE  Inv'
  BY <1>1, <1>4, ConnectionsKeepTypes, OthersKeepApi, TearDownKeepsInv,
     UntouchedKeepsInv
<1>5. ASSUME NEW k \in Components,
             Break(k) /\ IF k = API THEN CloseApiSide ELSE Untouched
      PROVE  Inv'
  BY <1>1, <1>5, ConnectionsKeepTypes, OthersKeepApi, CloseKeepsInv,
     UntouchedKeepsInv
<1>6. ASSUME NEW k \in Components, StopServer(k) /\ k # API /\ Untouched
      PROVE  Inv'
  BY <1>1, <1>6, ConnectionsKeepTypes, OthersKeepApi, UntouchedKeepsInv
<1>7. CASE StartAgain /\ Untouched
  BY <1>1, <1>7, ConnectionsKeepTypes, OthersKeepApi, UntouchedKeepsInv
<1>8. CASE StopApi
  <2> USE <1>8 DEF StopApi
  <2>1. ConnTypeOK'
    BY <1>1, ConnectionsKeepTypes
  <2>2. lost' \subseteq posted /\ posted' = posted
    BY TravellersArePosted DEF Inv, TypeOK, ClientsOf
  <2>3. TypeOK'
    BY <2>1, <2>2 DEF Inv, TypeOK
  <2>4. MessagesAreTrue'
    BY DEF Inv, TypeOK, MessagesAreTrue, Pending
  <2> QED  BY <2>3, <2>4 DEF Inv
<1> QED  BY <1>2, <1>3, <1>4, <1>5, <1>6, <1>7, <1>8 DEF ConnStep

------------------------------------------------------------------------------
(***************************************************************************)
(* The way of a command.                                                   *)
(***************************************************************************)

\* The command line and its handler.
LEMMA ClientKeepsInv ==
  ASSUME Inv, NEW c \in Clients,
         Connect(c) \/ UiSubscribe(c) \/ Receive(c) \/ UiBreaks(c)
  PROVE  Inv'
<1>1. TypeOK /\ MessagesAreTrue
  BY DEF Inv
<1>2. /\ UNCHANGED <<agentVars, historyVars>>
      /\ UNCHANGED <<forever, conn, serving>> /\ ConnTypeOK'
  BY <1>1 DEF Connect, UiSubscribe, Receive, UiBreaks, Fault, connVars, TypeOK,
              ConnTypeOK
<1> USE <1>2 DEF agentVars, historyVars
<1>3. CASE Connect(c)
  <2>1. TypeOK'
    <3>1. /\ cli' \in [Clients -> {"new", "connected", "waiting", "succeeded",
                                   "failed", "raised"}]
          /\ ui' \in [Clients -> {"none", "accepted", "subscribed"}]
          /\ inbox' = inbox
      <4>1. /\ cli \in [Clients -> {"new", "connected", "waiting", "succeeded",
                                    "failed", "raised"}]
            /\ ui \in [Clients -> {"none", "accepted", "subscribed"}]
        BY <1>1 DEF TypeOK
      <4>2. CASE API \in serving
        BY <1>3, <4>1, <4>2 DEF Connect
      <4>3. CASE API \notin serving
        BY <1>3, <4>1, <4>3 DEF Connect
      <4> QED  BY <1>3, <4>2, <4>3 DEF Connect
    <3> QED  BY <1>1, <3>1 DEF TypeOK
  <2>2. MessagesAreTrue'
    BY <1>1, <1>3 DEF Connect, TypeOK, MessagesAreTrue, Pending
  <2> QED  BY <2>1, <2>2 DEF Inv
<1>4. CASE UiSubscribe(c)
  <2>1. TypeOK'
    BY <1>1, <1>4 DEF UiSubscribe, TypeOK
  <2>2. MessagesAreTrue'
    BY <1>1, <1>4 DEF UiSubscribe, MessagesAreTrue, Pending
  <2> QED  BY <2>1, <2>2 DEF Inv
<1>5. CASE Receive(c)
  <2>0. /\ cli \in [Clients -> {"new", "connected", "waiting", "succeeded",
                                "failed", "raised"}]
        /\ ui \in [Clients -> {"none", "accepted", "subscribed"}]
        /\ inbox \in [Clients -> SUBSET Results]
    BY <1>1 DEF TypeOK
  <2>1. PICK r \in inbox[c] :
          IF Mine(c, r)
          THEN /\ cli' = [cli EXCEPT ![c] = IF r.status = "ok"
                                            THEN "succeeded" ELSE "failed"]
               /\ ui' = [ui EXCEPT ![c] = "none"]
               /\ inbox' = [inbox EXCEPT ![c] = {}]
          ELSE /\ inbox' = [inbox EXCEPT ![c] = @ \ {r}]
               /\ UNCHANGED <<cli, ui>>
    BY <1>5 DEF Receive
  <2>2. cli[c] = "waiting"
    BY <1>5 DEF Receive
  <2>3. TypeOK'
    <3>1. /\ cli' \in [Clients -> {"new", "connected", "waiting", "succeeded",
                                   "failed", "raised"}]
          /\ ui' \in [Clients -> {"none", "accepted", "subscribed"}]
          /\ inbox' \in [Clients -> SUBSET Results]
      <4>1. CASE Mine(c, r)
        BY <2>0, <2>1, <4>1
      <4>2. CASE ~Mine(c, r)
        BY <2>0, <2>1, <4>2
      <4> QED  BY <4>1, <4>2
    <3> QED  BY <1>1, <3>1 DEF TypeOK
  <2>4. /\ r \in Results /\ outcomes[r.client] = <<r.status>>
        /\ r.status \in Statuses
    BY <1>1 DEF TypeOK, MessagesAreTrue, Results
  <2>5. CASE Mine(c, r)
    <3>1. outcomes[c] = <<r.status>>
      BY <2>4, <2>5 DEF Mine
    <3>2. /\ cli'[c] = "succeeded" => outcomes[c] = <<"ok">>
          /\ cli'[c] = "failed" => outcomes[c] = <<"error">>
          /\ cli'[c] \in {"succeeded", "failed"}
      BY <1>1, <2>1, <2>4, <2>5, <3>1 DEF TypeOK, Statuses
    <3>3. /\ \A d \in Clients : d # c => cli'[d] = cli[d]
          /\ \A d \in Clients : inbox'[d] \subseteq inbox[d]
      BY <1>1, <2>1, <2>5 DEF TypeOK
    <3>4. MessagesAreTrue'
      BY <1>1, <3>2, <3>3 DEF MessagesAreTrue, Pending
    <3> QED  BY <2>3, <3>4 DEF Inv
  <2>6. CASE ~Mine(c, r)
    <3>1. cli' = cli /\ \A d \in Clients : inbox'[d] \subseteq inbox[d]
      BY <1>1, <2>1, <2>6 DEF TypeOK
    <3>2. MessagesAreTrue'
      BY <1>1, <3>1 DEF MessagesAreTrue, Pending
    <3> QED  BY <2>3, <3>2 DEF Inv
  <2> QED  BY <2>5, <2>6
<1>6. CASE UiBreaks(c)
  <2>1. TypeOK'
    BY <1>1, <1>6 DEF UiBreaks, TypeOK
  <2>2. MessagesAreTrue'
    BY <1>1, <1>6 DEF UiBreaks, TypeOK, MessagesAreTrue, Pending
  <2> QED  BY <2>1, <2>2 DEF Inv
<1> QED  BY <1>3, <1>4, <1>5, <1>6

\* The command is published, and the call is answered or not.
LEMMA PostKeepsInv ==
  ASSUME Inv, NEW c \in Clients, Post(c)
  PROVE  Inv'
<1>1. TypeOK /\ MessagesAreTrue
  BY DEF Inv
<1>2. /\ UNCHANGED <<forever, conn, serving, subscribed, doing, toApi, outcomes>>
      /\ ConnTypeOK' /\ cli[c] = "connected"
  BY <1>1 DEF Post, Fault, TypeOK, ConnTypeOK
<1>3. c \notin posted /\ outcomes[c] = <<>>
  BY <1>1, <1>2, Outcomes DEF MessagesAreTrue
<1>4. /\ posted \subseteq posted' /\ posted' \subseteq posted \cup {c}
      /\ toAgent \subseteq toAgent' /\ toAgent' \subseteq toAgent \cup {c}
      /\ toAgent' \subseteq posted'
      /\ lost' \subseteq posted'
  <2>1. toAgent \subseteq posted /\ lost \subseteq posted
    BY <1>1 DEF TypeOK, MessagesAreTrue
  <2>2. CASE Publish(c)
    BY <2>1, <2>2 DEF Publish
  <2>3. CASE UNCHANGED <<posted, toAgent, lost>>
    BY <2>1, <2>3
  <2> QED  BY <2>2, <2>3 DEF Post
<1>5. /\ cli' \in [Clients -> {"new", "connected", "waiting", "succeeded",
                               "failed", "raised"}]
      /\ ui' \in [Clients -> {"none", "accepted", "subscribed"}]
      /\ inbox' \in [Clients -> SUBSET Results]
      /\ cli'[c] \in {"waiting", "raised"}
      /\ \A d \in Clients : d # c => cli'[d] = cli[d]
      /\ \A d \in Clients : inbox'[d] \subseteq inbox[d]
  <2>1. /\ cli \in [Clients -> {"new", "connected", "waiting", "succeeded",
                                "failed", "raised"}]
        /\ ui \in [Clients -> {"none", "accepted", "subscribed"}]
        /\ inbox \in [Clients -> SUBSET Results]
    BY <1>1 DEF TypeOK
  <2>2. CASE cli' = [cli EXCEPT ![c] = "waiting"] /\ UNCHANGED <<ui, inbox>>
    BY <2>1, <2>2
  <2>3. CASE /\ cli' = [cli EXCEPT ![c] = "raised"]
             /\ ui' = [ui EXCEPT ![c] = "none"]
             /\ inbox' = [inbox EXCEPT ![c] = {}]
    BY <2>1, <2>3
  <2> QED  BY <2>2, <2>3 DEF Post
<1>6. TypeOK'
  BY <1>1, <1>2, <1>4, <1>5 DEF TypeOK
<1>7. MessagesAreTrue'
  BY <1>1, <1>2, <1>3, <1>4, <1>5 DEF MessagesAreTrue, Pending
<1> QED  BY <1>6, <1>7 DEF Inv

\* The agent gets a command that has no outcome yet, so that no result of it
\* is on its way.
LEMMA ExecuteKeepsInv ==
  ASSUME Inv, NEW c \in Clients, Execute(c)
  PROVE  Inv'
<1>1. TypeOK /\ MessagesAreTrue
  BY DEF Inv
<1>2. /\ c \in toAgent /\ toAgent' = toAgent \ {c} /\ doing = Nothing
      /\ UNCHANGED <<connVars, cliVars, subscribed, toApi, posted, lost>>
  BY DEF Execute
<1>3. outcomes[c] = <<>> /\ c \in posted
  BY <1>1, <1>2 DEF MessagesAreTrue
<1>4. PICK s \in Statuses :
             /\ outcomes' = [outcomes EXCEPT ![c] = Append(@, s)]
             /\ doing' = [client |-> c, status |-> s]
  BY DEF Execute
<1>5. outcomes \in [Clients -> Seq(Statuses)]
  BY <1>1 DEF TypeOK
<1>6. outcomes' = [outcomes EXCEPT ![c] = <<s>>] /\ <<s>> \in Seq(Statuses)
  BY <1>3, <1>4, <1>5
<1>7. /\ outcomes' \in [Clients -> Seq(Statuses)]
      /\ outcomes'[c] = <<s>> /\ Len(outcomes'[c]) = 1
      /\ \A d \in Clients : d # c => outcomes'[d] = outcomes[d]
  BY <1>5, <1>6
<1>8. doing' \in Results
  BY <1>4 DEF Results
<1>9. TypeOK'
  BY <1>1, <1>2, <1>7, <1>8 DEF TypeOK, ConnTypeOK, connVars, cliVars
<1>10. ASSUME NEW r \in Results, outcomes[r.client] = <<r.status>>
       PROVE  outcomes'[r.client] = <<r.status>>
  <2>1. r.client # c
    BY <1>3, <1>10
  <2> QED  BY <1>7, <1>10, <2>1 DEF Results
<1>11. MessagesAreTrue'
  <2> USE <1>2 DEF cliVars
  <2>1. \A d \in Clients : cli'[d] \in {"new", "connected"} => d \notin posted'
    BY <1>1 DEF MessagesAreTrue
  <2>2. \A d \in toAgent' : d \in posted' /\ outcomes'[d] = <<>>
    BY <1>1, <1>7 DEF MessagesAreTrue, TypeOK
  <2>3. \A r \in (toApi \cup Pending)' : outcomes'[r.client] = <<r.status>>
    <3> TAKE r \in (toApi \cup Pending)'
    <3>1. CASE r \in toApi
      BY <1>1, <1>10, <3>1 DEF MessagesAreTrue, TypeOK
    <3>2. CASE r = doing'
      BY <1>4, <1>7, <3>2
    <3> QED  BY <3>1, <3>2 DEF Pending
  <2>4. \A d \in Clients :
          \A r \in inbox'[d] : outcomes'[r.client] = <<r.status>>
    BY <1>1, <1>10 DEF MessagesAreTrue, TypeOK
  <2>5. \A d \in Clients :
          /\ Len(outcomes'[d]) <= (IF d \in posted' THEN 1 ELSE 0)
          /\ cli'[d] = "succeeded" => outcomes'[d] = <<"ok">>
          /\ cli'[d] = "failed" => outcomes'[d] = <<"error">>
    <3> TAKE d \in Clients
    <3>1. CASE d = c
      <4>1. cli[c] # "succeeded" /\ cli[c] # "failed"
        BY <1>1, <1>3 DEF MessagesAreTrue
      <4>2. Len(outcomes'[c]) <= (IF c \in posted' THEN 1 ELSE 0)
        BY <1>3, <1>7
      <4> QED  BY <3>1, <4>1, <4>2
    <3>2. CASE d # c
      BY <1>1, <1>7, <3>2 DEF MessagesAreTrue
    <3> QED  BY <3>1, <3>2
  <2> QED  BY <2>1, <2>2, <2>3, <2>4, <2>5 DEF MessagesAreTrue
<1> QED  BY <1>9, <1>11 DEF Inv

\* The agent's handler subscribes, a result is sent and passed on.
LEMMA ResultKeepsInv ==
  ASSUME Inv,
         AgentSubscribe \/ SendResult \/ \E r \in toApi : Forward(r)
  PROVE  Inv'
<1>1. TypeOK /\ MessagesAreTrue /\ ConnTypeOK
  BY DEF Inv, TypeOK
<1>2. /\ UNCHANGED <<connVars, cli, ui, toAgent, posted, outcomes>>
      /\ ConnTypeOK'
  BY <1>1 DEF AgentSubscribe, SendResult, Forward, connVars, cliVars,
              historyVars, ConnTypeOK
<1>3. CASE AgentSubscribe
  <2>1. TypeOK'
    BY <1>1, <1>2, <1>3
    DEF AgentSubscribe, TypeOK, cliVars, connVars, historyVars
  <2>2. MessagesAreTrue'
    BY <1>1, <1>2, <1>3
    DEF AgentSubscribe, MessagesAreTrue, cliVars, Pending
  <2> QED  BY <2>1, <2>2 DEF Inv
<1>4. CASE SendResult
  <2>1. /\ doing # Nothing /\ doing' = Nothing
        /\ doing \in Results /\ doing \in Pending
        /\ inbox' = inbox /\ subscribed' = subscribed
        /\ toApi \subseteq toApi' /\ toApi' \subseteq toApi \cup {doing}
        /\ lost' \subseteq lost \cup {doing.client}
    BY <1>1, <1>4 DEF SendResult, cliVars, TypeOK, Pending
  <2>2. doing.client \in posted
    BY <2>1, TravellersArePosted DEF ClientsOf
  <2>3. TypeOK'
    BY <1>1, <1>2, <2>1, <2>2 DEF TypeOK, connVars
  <2>4. MessagesAreTrue'
    BY <1>1, <1>2, <2>1 DEF MessagesAreTrue, Pending
  <2> QED  BY <2>3, <2>4 DEF Inv
<1>5. ASSUME NEW r \in toApi, Forward(r)
      PROVE  Inv'
  <2>1. /\ toApi' \subseteq toApi /\ r \in Results
        /\ UNCHANGED <<subscribed, doing>>
        /\ outcomes[r.client] = <<r.status>>
    BY <1>1, <1>5 DEF Forward, TypeOK, MessagesAreTrue
  <2>2. r.client \in posted /\ lost' \subseteq lost \cup {r.client}
    BY <1>5, TravellersArePosted DEF Forward, ClientsOf
  <2>3. /\ inbox' \in [Clients -> SUBSET Results]
        /\ \A c \in Clients : inbox'[c] \subseteq inbox[c] \cup {r}
    BY <1>1, <1>5, <2>1 DEF Forward, TypeOK
  <2>4. TypeOK'
    BY <1>1, <1>2, <2>1, <2>2, <2>3 DEF TypeOK, connVars
  <2>5. MessagesAreTrue'
    BY <1>1, <1>2, <2>1, <2>3 DEF MessagesAreTrue, Pending
  <2> QED  BY <2>4, <2>5 DEF Inv
<1> QED  BY <1>3, <1>4, <1>5

\* Types and true messages together are inductive.
LEMMA Invariance == Spec => []Inv
<1>1. Inv /\ [Next]_vars => Inv'
  <2> SUFFICES ASSUME Inv, [Next]_vars PROVE Inv'
    OBVIOUS
  <2>1. CASE Pong \/ UNCHANGED vars
    <3>1. UNCHANGED <<connVars, cliVars, agentVars, historyVars>>
      BY <2>1 DEF Pong, vars
    <3>2. TypeOK' /\ MessagesAreTrue'
      BY <3>1 DEF Inv, TypeOK, ConnTypeOK, MessagesAreTrue, Pending, connVars,
                  cliVars, agentVars, historyVars
    <3> QED  BY <3>2 DEF Inv
  <2> QED  BY <2>1, ConnStepKeepsInv, ClientKeepsInv, PostKeepsInv,
              ExecuteKeepsInv, ResultKeepsInv DEF Next, BusStep
<1> QED  BY <1>1, Initially, PTL DEF Spec

\* The parts of the bus have their types; commands are passed on only to a
\* websocket that both sides believe open.
THEOREM BusTyped == Spec => []TypeOK
<1>1. Inv => TypeOK
  BY DEF Inv
<1> QED  BY <1>1, Invariance, PTL

\* Everything on its way is true, and so is what command lines report.
THEOREM OnlyTruths == Spec => []MessagesAreTrue
<1>1. Inv => MessagesAreTrue
  BY DEF Inv
<1> QED  BY <1>1, Invariance, PTL

------------------------------------------------------------------------------
(***************************************************************************)
(* Where a command is.  What NothingWaitsInVain says of a command line     *)
(* holds after a result moved only if that result was at one place.        *)
(***************************************************************************)

OneResult ==
  \A r \in toApi \cup Pending :
    ~(r \in toApi /\ r \in Pending) /\ r \notin inbox[r.client]

WayInv == NothingWaitsInVain /\ OneResult

\* The results that travel are results of clients.
LEMMA ResultsHaveClients ==
  ASSUME Inv
  PROVE  /\ toApi \cup Pending \subseteq Results
         /\ \A r \in Results : r.client \in Clients /\ r.status \in Statuses
         /\ \A c \in Clients : inbox[c] \subseteq Results
<1>1. toApi \cup Pending \subseteq Results
  BY DEF Inv, TypeOK, Pending
<1>2. \A r \in Results : r.client \in Clients /\ r.status \in Statuses
  BY DEF Results
<1>3. \A c \in Clients : inbox[c] \subseteq Results
  BY DEF Inv, TypeOK
<1> QED  BY <1>1, <1>2, <1>3

\* A command that was not executed has no result anywhere.
LEMMA NoResultYet ==
  ASSUME Inv, NEW c \in Clients, outcomes[c] = <<>>
  PROVE  /\ c \notin ClientsOf(toApi \cup Pending)
         /\ \A d \in Clients : \A r \in inbox[d] : r.client # c
<1>1. \A r \in toApi \cup Pending : r.client # c
  BY DEF Inv, MessagesAreTrue
<1>2. ASSUME NEW d \in Clients, NEW r \in inbox[d] PROVE r.client # c
  <2>1. outcomes[r.client] = <<r.status>>
    BY DEF Inv, MessagesAreTrue
  <2> QED  BY <2>1
<1> QED  BY <1>1, <1>2 DEF ClientsOf

\* All results of a command are the same result.
LEMMA SameResult ==
  ASSUME Inv, NEW r, NEW q, r.client = q.client,
         r \in toApi \cup Pending,
         q \in toApi \cup Pending \/ \E c \in Clients : q \in inbox[c]
  PROVE  q = r
<1>1. r \in Results /\ q \in Results
  BY ResultsHaveClients
<1>2. outcomes[r.client] = <<r.status>> /\ outcomes[q.client] = <<q.status>>
  BY DEF Inv, MessagesAreTrue
<1>3. r.status = q.status
  BY <1>2
<1>4. \A x \in Results : x = [client |-> x.client, status |-> x.status]
  BY DEF Results
<1> QED  BY <1>1, <1>3, <1>4

\* So a command is at one place: it travels, or the agent has its result, or
\* the result travels, or has arrived.
LEMMA OnePlace ==
  ASSUME Inv, OneResult, NEW c \in Clients
  PROVE  /\ c \in toAgent => c \notin ClientsOf(toApi \cup Pending)
         /\ c \in ClientsOf(toApi) => c \notin ClientsOf(Pending)
         /\ (\E r \in inbox[c] : r.client = c)
              => c \notin toAgent \cup ClientsOf(toApi \cup Pending)
<1>1. c \in toAgent => outcomes[c] = <<>>
  BY DEF Inv, MessagesAreTrue
<1>2. c \in ClientsOf(toApi) => c \notin ClientsOf(Pending)
  <2> SUFFICES ASSUME NEW r \in toApi, NEW q \in Pending,
                      r.client = c, q.client = c
               PROVE  FALSE
    BY DEF ClientsOf
  <2>1. q = r
    BY SameResult
  <2> QED  BY <2>1 DEF OneResult
<1>3. ASSUME NEW r \in inbox[c], r.client = c,
             c \in ClientsOf(toApi \cup Pending)
      PROVE  FALSE
  <2>1. PICK q \in toApi \cup Pending : q.client = c
    BY <1>3 DEF ClientsOf
  <2>2. r = q
    BY <1>3, <2>1, SameResult
  <2> QED  BY <2>1, <2>2 DEF OneResult
<1> QED  BY <1>1, <1>2, <1>3, NoResultYet

\* The websocket goes and takes everything on it.
LEMMA TearDownKeepsWay ==
  ASSUME Inv, WayInv, TearDown
  PROVE  WayInv'
<1>1. /\ UNCHANGED <<cli, inbox>> /\ toAgent' = {} /\ toApi' = {}
      /\ doing' = Nothing /\ Pending' = {}
      /\ lost' = lost \cup toAgent \cup ClientsOf(toApi \cup Pending)
  BY DEF TearDown, cliVars, Pending
<1>2. ASSUME NEW c \in Clients, cli'[c] = "waiting"
      PROVE  OnTheWay(c)' <=> c \notin lost'
  <2>1. OnTheWay(c)' <=> \E r \in inbox[c] : r.client = c
    BY <1>1 DEF OnTheWay, ClientsOf
  <2>2. OnTheWay(c) <=> c \notin lost
    BY <1>1, <1>2 DEF WayInv, NothingWaitsInVain
  <2> QED  BY <1>1, <2>1, <2>2, OnePlace DEF WayInv, OnTheWay
<1>3. NothingWaitsInVain'
  BY <1>1, <1>2 DEF NothingWaitsInVain
<1>4. OneResult'
  BY <1>1 DEF OneResult
<1> QED  BY <1>3, <1>4 DEF WayInv

\* The API's side goes; what the agent has got, it keeps.
LEMMA CloseKeepsWay ==
  ASSUME Inv, WayInv, CloseApiSide,
         conn[API] \in {"open", "dead"} => conn'[API] \in {"open", "dead"}
  PROVE  WayInv'
<1>1. /\ UNCHANGED <<cli, inbox, toAgent, doing>> /\ toApi' = {}
      /\ Pending' = Pending
      /\ lost' = lost \cup ClientsOf(toApi)
  BY DEF CloseApiSide, cliVars, Pending
<1>2. ASSUME NEW c \in Clients, cli'[c] = "waiting"
      PROVE  OnTheWay(c)' <=> c \notin lost'
  <2>1. OnTheWay(c)' <=> \/ c \in toAgent \cup ClientsOf(Pending)
                         \/ \E r \in inbox[c] : r.client = c
    BY <1>1 DEF OnTheWay, ClientsOf
  <2>2. OnTheWay(c) <=> c \notin lost
    BY <1>1, <1>2 DEF WayInv, NothingWaitsInVain
  <2>3. c \in ClientsOf(toApi \cup Pending)
          <=> c \in ClientsOf(toApi) \/ c \in ClientsOf(Pending)
    BY DEF ClientsOf
  <2> QED  BY <1>1, <2>1, <2>2, <2>3, OnePlace DEF WayInv, OnTheWay
<1>3. NothingWaitsInVain'
  BY <1>1, <1>2 DEF WayInv, NothingWaitsInVain
<1>4. OneResult'
  BY <1>1 DEF WayInv, OneResult
<1> QED  BY <1>3, <1>4 DEF WayInv

\* Nothing moves; the connection to the API does not close under it.
LEMMA UntouchedKeepsWay ==
  ASSUME Inv, WayInv, Untouched,
         conn[API] = "open" => conn'[API] = "open",
         conn[API] = "dead" => conn'[API] = "dead"
  PROVE  WayInv'
<1>1. /\ UNCHANGED <<cli, inbox, toAgent, doing, toApi, lost>>
      /\ Pending' = Pending
  BY DEF Untouched, cliVars, agentVars, historyVars, Pending
<1>2. NothingWaitsInVain'
  BY <1>1 DEF WayInv, NothingWaitsInVain, OnTheWay
<1>3. OneResult'
  BY <1>1 DEF WayInv, OneResult
<1> QED  BY <1>2, <1>3 DEF WayInv

\* What an action of the connections leaves of that to the API.
LEMMA ApiStays ==
  ASSUME ConnTypeOK, NEW k \in Components,
         \/ Open(k) \/ Retry(k) \/ StartServer(k) \/ StartAgain
         \/ k # API /\ (Raise(k) \/ Notice(k) \/ Break(k) \/ StopServer(k))
  PROVE  /\ conn[API] = "open" => conn'[API] = "open"
         /\ conn[API] = "dead" => conn'[API] = "dead"
<1> USE DEF ConnTypeOK, Components, Go
<1>1. CASE Open(k) \/ Retry(k) \/ StartServer(k) \/ StartAgain
  BY <1>1 DEF Open, Retry, StartServer, StartAgain
<1>2. CASE k # API /\ (Raise(k) \/ Notice(k) \/ Break(k) \/ StopServer(k))
  BY <1>2 DEF Raise, Notice, Break, StopServer
<1> QED  BY <1>1, <1>2

\* When the API stops, no command line waits.
LEMMA ConnStepKeepsWay ==
  ASSUME Inv, WayInv, ConnStep \/ StopApi
  PROVE  WayInv'
<1>1. ConnTypeOK /\ API \in Components
  BY DEF Inv, TypeOK, Components
<1>2. ASSUME NEW k \in Components,
             \/ Open(k) \/ Retry(k) \/ StartServer(k) \/ StartAgain
             \/ k # API /\ (Raise(k) \/ Notice(k) \/ Break(k) \/ StopServer(k)),
             Untouched
      PROVE  WayInv'
  BY <1>1, <1>2, ApiStays, UntouchedKeepsWay
<1>3. ASSUME Break(API) /\ CloseApiSide PROVE WayInv'
  <2>1. conn'[API] = "dead"
    BY <1>1, <1>3 DEF Break, Go, ConnTypeOK
  <2> QED  BY <1>3, <2>1, CloseKeepsWay
<1>4. CASE StopApi
  <2>1. /\ UNCHANGED <<toAgent, doing>> /\ toApi' = {} /\ Pending' = Pending
        /\ \A c \in Clients : cli'[c] # "waiting" /\ inbox'[c] = {}
    BY <1>4 DEF StopApi, Inv, TypeOK, Pending
  <2>2. conn[API] \in {"open", "dead"} => conn'[API] \in {"open", "dead"}
    BY <1>1, <1>4 DEF StopApi, StopServer, ConnTypeOK
  <2>3. NothingWaitsInVain'
    BY <2>1, <2>2 DEF WayInv, NothingWaitsInVain
  <2>4. OneResult'
    BY <2>1, ResultsHaveClients DEF WayInv, OneResult
  <2> QED  BY <2>3, <2>4 DEF WayInv
<1>5. CASE ConnStep
  <2>1. ASSUME NEW k \in Components,
               \/ (Open(k) \/ Retry(k) \/ StartServer(k)) /\ Untouched
               \/ Refused(k) /\ TearDown
               \/ (Raise(k) \/ Notice(k))
                    /\ IF k = API THEN TearDown ELSE Untouched
               \/ Break(k) /\ IF k = API THEN CloseApiSide ELSE Untouched
               \/ StopServer(k) /\ k # API /\ Untouched
        PROVE  WayInv'
    BY <2>1, <1>2, <1>3, TearDownKeepsWay
  <2> QED  BY <1>1, <1>2, <1>5, <2>1 DEF ConnStep
<1> QED  BY <1>4, <1>5

\* Connecting, subscribing, receiving and breaking move no result but the
\* one that is received.
LEMMA ClientKeepsWay ==
  ASSUME Inv, WayInv, NEW c \in Clients,
         Connect(c) \/ UiSubscribe(c) \/ Receive(c) \/ UiBreaks(c)
  PROVE  WayInv'
<1>1. /\ UNCHANGED <<conn, toAgent, doing, toApi, lost>> /\ Pending' = Pending
  BY DEF Connect, UiSubscribe, Receive, UiBreaks, connVars, agentVars,
         historyVars, Pending
<1>2. \A d \in Clients :
        /\ inbox'[d] \subseteq inbox[d]
        /\ cli'[d] = "waiting" =>
             /\ cli[d] = "waiting"
             /\ \A r \in inbox[d] : r.client = d => r \in inbox'[d]
  <2>1. cli \in [Clients -> {"new", "connected", "waiting", "succeeded",
                             "failed", "raised"}]
        /\ inbox \in [Clients -> SUBSET Results]
    BY DEF Inv, TypeOK
  <2>2. CASE Connect(c)
    <3>1. /\ inbox' = inbox
          /\ \/ cli' = [cli EXCEPT ![c] = "connected"]
             \/ cli' = [cli EXCEPT ![c] = "raised"]
      BY <2>2 DEF Connect
    <3> QED  BY <2>1, <3>1
  <2>3. CASE UiSubscribe(c)
    BY <2>3 DEF UiSubscribe
  <2>4. CASE Receive(c)
    <3>1. PICK r \in inbox[c] :
            IF Mine(c, r)
            THEN /\ cli' = [cli EXCEPT ![c] = IF r.status = "ok"
                                              THEN "succeeded" ELSE "failed"]
                 /\ inbox' = [inbox EXCEPT ![c] = {}]
            ELSE inbox' = [inbox EXCEPT ![c] = @ \ {r}] /\ cli' = cli
      BY <2>4 DEF Receive
    <3>2. CASE Mine(c, r)
      BY <2>1, <3>1, <3>2
    <3>3. CASE ~Mine(c, r)
      BY <2>1, <3>1, <3>3 DEF Mine
    <3> QED  BY <3>2, <3>3
  <2>5. CASE UiBreaks(c)
    BY <2>1, <2>5 DEF UiBreaks
  <2> QED  BY <2>2, <2>3, <2>4, <2>5
<1>3. NothingWaitsInVain'
  <2>1. ASSUME NEW d \in Clients, cli'[d] = "waiting"
        PROVE  OnTheWay(d)' <=> c \in Clients /\ OnTheWay(d)
    BY <1>1, <1>2, <2>1 DEF OnTheWay
  <2> QED  BY <1>1, <1>2, <2>1 DEF WayInv, NothingWaitsInVain
<1>4. OneResult'
  BY <1>1, <1>2, ResultsHaveClients DEF WayInv, OneResult
<1> QED  BY <1>3, <1>4 DEF WayInv

\* The command goes to the agent, or to nobody.
LEMMA PostKeepsWay ==
  ASSUME Inv, WayInv, NEW c \in Clients, Post(c)
  PROVE  WayInv'
<1>1. /\ UNCHANGED <<conn, subscribed, doing, toApi>> /\ Pending' = Pending
      /\ cli[c] = "connected"
  BY DEF Post, Pending
<1>2. c \notin posted /\ outcomes[c] = <<>>
  BY <1>1, Outcomes DEF Inv, MessagesAreTrue
<1>3. /\ c \notin toAgent /\ c \notin lost
      /\ c \notin ClientsOf(toApi \cup Pending)
      /\ \A d \in Clients : \A r \in inbox[d] : r.client # c
  BY <1>2, TravellersArePosted, NoResultYet DEF Inv, TypeOK
<1>4. \/ UNCHANGED <<toAgent, lost>> /\ cli'[c] = "raised"
      \/ toAgent' = toAgent \cup {c} /\ lost' = lost /\ subscribed = TRUE
      \/ toAgent' = toAgent /\ lost' = lost \cup {c}
  BY DEF Post, Publish, Inv, TypeOK
<1>5. \A d \in Clients :
        /\ inbox'[d] \subseteq inbox[d]
        /\ d # c => cli'[d] = cli[d] /\ inbox'[d] = inbox[d]
  <2>1. /\ cli \in [Clients -> {"new", "connected", "waiting", "succeeded",
                                "failed", "raised"}]
        /\ inbox \in [Clients -> SUBSET Results]
    BY DEF Inv, TypeOK
  <2>2. \/ cli' = [cli EXCEPT ![c] = "waiting"] /\ UNCHANGED inbox
        \/ /\ cli' = [cli EXCEPT ![c] = "raised"]
           /\ inbox' = [inbox EXCEPT ![c] = {}]
    BY DEF Post
  <2> QED  BY <2>1, <2>2
<1>6. ASSUME NEW d \in Clients, cli'[d] = "waiting"
      PROVE  OnTheWay(d)' <=> d \notin lost'
  <2>1. CASE d = c
    BY <1>1, <1>3, <1>4, <1>5, <1>6, <2>1 DEF OnTheWay
  <2>2. CASE d # c
    <3>1. cli[d] = "waiting" /\ inbox'[d] = inbox[d]
      BY <1>5, <1>6, <2>2
    <3>2. (d \in toAgent' <=> d \in toAgent) /\ (d \in lost' <=> d \in lost)
      BY <1>4, <2>2
    <3>3. OnTheWay(d)' <=> OnTheWay(d)
      BY <1>1, <3>1, <3>2 DEF OnTheWay
    <3> QED  BY <3>1, <3>2, <3>3 DEF WayInv, NothingWaitsInVain
  <2> QED  BY <2>1, <2>2
<1>7. toAgent' # {} => toAgent # {} \/ conn[API] = "open"
  BY <1>4 DEF Inv, TypeOK
<1>8. NothingWaitsInVain'
  BY <1>1, <1>6, <1>7 DEF WayInv, NothingWaitsInVain
<1>9. OneResult'
  BY <1>1, <1>5, ResultsHaveClients DEF WayInv, OneResult
<1> QED  BY <1>8, <1>9 DEF WayInv

\* The agent takes the command; the result is in its hands.
LEMMA ExecuteKeepsWay ==
  ASSUME Inv, WayInv, NEW c \in Clients, Execute(c)
  PROVE  WayInv'
<1>1. /\ c \in toAgent /\ toAgent' = toAgent \ {c} /\ doing = Nothing
      /\ UNCHANGED <<conn, cli, inbox, toApi, lost>>
      /\ conn[API] \in {"open", "dead"} /\ Pending = {}
  BY DEF Execute, connVars, cliVars, Pending
<1>2. PICK s \in Statuses : doing' = [client |-> c, status |-> s]
  BY DEF Execute
<1>3. outcomes[c] = <<>>
  BY <1>1 DEF Inv, MessagesAreTrue
<1>4. doing' # Nothing
  <2>1. doing' = [client |-> c, status |-> s] /\ s \in Statuses
    BY <1>2
  <2> QED  BY <2>1 DEF Nothing
<1>5. Pending' = {doing'} /\ doing'.client = c
  BY <1>2, <1>4 DEF Pending
<1>6. /\ \A r \in toApi : r.client # c
      /\ \A d \in Clients : \A r \in inbox[d] : r.client # c
  BY <1>3, NoResultYet DEF ClientsOf
<1>7. ASSUME NEW d \in Clients, cli'[d] = "waiting"
      PROVE  OnTheWay(d)' <=> d \notin lost'
  <2>1. OnTheWay(d)' <=> OnTheWay(d)
    <3>1. d \in toAgent <=> d \in toAgent' \/ d = c
      BY <1>1
    <3>2. d \in ClientsOf(toApi \cup Pending)' <=>
            d \in ClientsOf(toApi \cup Pending) \/ d = c
      BY <1>1, <1>5 DEF ClientsOf
    <3> QED  BY <1>1, <3>1, <3>2 DEF OnTheWay
  <2> QED  BY <1>1, <1>7, <2>1 DEF WayInv, NothingWaitsInVain
<1>8. NothingWaitsInVain'
  BY <1>1, <1>7 DEF WayInv, NothingWaitsInVain
<1>9. OneResult'
  BY <1>1, <1>5, <1>6 DEF WayInv, OneResult
<1> QED  BY <1>8, <1>9 DEF WayInv

\* The result is sent, or has met a websocket that is closed.
LEMMA SendKeepsWay ==
  ASSUME Inv, WayInv, SendResult
  PROVE  WayInv'
<1>1. /\ doing # Nothing /\ doing' = Nothing /\ Pending = {doing}
      /\ Pending' = {} /\ UNCHANGED <<conn, cli, inbox, toAgent>>
  BY DEF SendResult, connVars, cliVars, Pending
<1>2. \/ /\ conn[API] = "open" /\ toApi' = toApi \cup {doing} /\ lost' = lost
      \/ toApi' = toApi /\ lost' = lost \cup {doing.client}
  BY DEF SendResult
<1>3. CASE conn[API] = "open" /\ toApi' = toApi \cup {doing} /\ lost' = lost
  <2>1. (toApi \cup Pending)' = toApi \cup Pending
    BY <1>1, <1>3
  <2>2. \A d \in Clients : OnTheWay(d)' <=> OnTheWay(d)
    BY <1>1, <2>1 DEF OnTheWay
  <2>3. NothingWaitsInVain'
    BY <1>1, <1>3, <2>2 DEF WayInv, NothingWaitsInVain
  <2>4. OneResult'
    BY <1>1, <2>1 DEF WayInv, OneResult
  <2> QED  BY <2>3, <2>4 DEF WayInv
<1>4. CASE toApi' = toApi /\ lost' = lost \cup {doing.client}
  <2>1. ASSUME NEW d \in Clients, cli'[d] = "waiting"
        PROVE  OnTheWay(d)' <=> d \notin lost'
    <3>1. OnTheWay(d) <=> d \notin lost
      BY <1>1, <2>1 DEF WayInv, NothingWaitsInVain
    <3>2. OnTheWay(d)' <=> \/ d \in toAgent \cup ClientsOf(toApi)
                           \/ \E r \in inbox[d] : r.client = d
      BY <1>1, <1>4 DEF OnTheWay, ClientsOf
    <3>3. OnTheWay(d) <=> OnTheWay(d)' \/ d = doing.client
      BY <1>1, <3>2 DEF OnTheWay, ClientsOf
    <3>4. d = doing.client => d \in ClientsOf(Pending)
      BY <1>1 DEF ClientsOf
    <3>5. d = doing.client => ~OnTheWay(d)'
      BY <3>2, <3>4, OnePlace DEF WayInv, ClientsOf
    <3> QED  BY <1>4, <3>1, <3>3, <3>5
  <2>2. NothingWaitsInVain'
    BY <1>1, <1>4, <2>1 DEF WayInv, NothingWaitsInVain
  <2>3. OneResult'
    BY <1>1, <1>4 DEF WayInv, OneResult
  <2> QED  BY <2>2, <2>3 DEF WayInv
<1> QED  BY <1>2, <1>3, <1>4

\* The result reaches its command line if that has subscribed, and others.
LEMMA ForwardKeepsWay ==
  ASSUME Inv, WayInv, NEW r \in toApi, Forward(r)
  PROVE  WayInv'
<1>1. /\ toApi' = toApi \ {r} /\ Pending' = Pending
      /\ UNCHANGED <<conn, cli, toAgent, doing>>
  BY DEF Forward, connVars, Pending
<1>2. /\ r \in Results /\ r.client \in Clients
      /\ \A d \in Clients : inbox'[d] = IF ui[d] = "subscribed"
                                        THEN inbox[d] \cup {r} ELSE inbox[d]
      /\ lost' = IF ui[r.client] = "subscribed" THEN lost
                                                ELSE lost \cup {r.client}
  BY ResultsHaveClients DEF Forward
<1>3. \A q \in toApi \cup Pending : q.client = r.client => q = r
  BY SameResult
<1>4. \A q \in Pending : q.client # r.client
  BY <1>3 DEF WayInv, OneResult
<1>5. ASSUME NEW d \in Clients, cli'[d] = "waiting"
      PROVE  OnTheWay(d)' <=> d \notin lost'
  <2>1. OnTheWay(d) <=> d \notin lost
    BY <1>1, <1>5 DEF WayInv, NothingWaitsInVain
  <2>2. CASE d # r.client
    <3>1. d \in lost' <=> d \in lost
      BY <1>2, <2>2
    <3>2. d \in ClientsOf(toApi \cup Pending)'
            <=> d \in ClientsOf(toApi \cup Pending)
      BY <1>1, <2>2 DEF ClientsOf
    <3>3. (\E q \in inbox'[d] : q.client = d)
            <=> \E q \in inbox[d] : q.client = d
      BY <1>2, <2>2
    <3> QED  BY <1>1, <2>1, <3>1, <3>2, <3>3 DEF OnTheWay
  <2>3. CASE d = r.client
    <3>1. d \in ClientsOf(toApi) /\ d \in ClientsOf(toApi \cup Pending)
      BY <2>3 DEF ClientsOf
    <3>2. d \notin lost /\ d \notin toAgent
          /\ ~\E q \in inbox[d] : q.client = d
      BY <2>1, <3>1, OnePlace DEF WayInv, OnTheWay
    <3>3. d \notin toAgent' \cup ClientsOf(toApi \cup Pending)'
      BY <1>1, <1>3, <1>4, <2>3, <3>2 DEF ClientsOf
    <3>4. OnTheWay(d)' <=> r \in inbox'[d]
      BY <1>2, <2>3, <3>2, <3>3 DEF OnTheWay
    <3>5. r \notin inbox[d]
      BY <2>3, <3>2
    <3> QED  BY <1>2, <2>3, <3>2, <3>4, <3>5
  <2> QED  BY <2>2, <2>3
<1>6. NothingWaitsInVain'
  BY <1>1, <1>5 DEF WayInv, NothingWaitsInVain
<1>7. OneResult'
  <2>1. ASSUME NEW q \in (toApi \cup Pending)'
        PROVE  ~(q \in toApi' /\ q \in Pending') /\ q \notin inbox'[q.client]
    <3>1. q \in toApi \cup Pending /\ q # r
      BY <1>1, <1>4, <2>1
    <3>2. q.client \in Clients
      BY <3>1, ResultsHaveClients
    <3> QED  BY <1>1, <1>2, <3>1, <3>2 DEF WayInv, OneResult
  <2> QED  BY <2>1 DEF OneResult
<1> QED  BY <1>6, <1>7 DEF WayInv

\* Each step keeps commands and results where they can be accounted for.
LEMMA StepKeepsWay ==
  ASSUME Inv, WayInv, [Next]_vars
  PROVE  WayInv'
<1>1. CASE AgentSubscribe \/ Pong \/ UNCHANGED vars
  <2>1. /\ UNCHANGED <<conn, cli, inbox, toAgent, doing, toApi, lost>>
        /\ Pending' = Pending
    BY <1>1 DEF AgentSubscribe, Pong, vars, connVars, cliVars, agentVars,
                historyVars, Pending
  <2>2. NothingWaitsInVain'
    BY <2>1 DEF WayInv, NothingWaitsInVain, OnTheWay
  <2>3. OneResult'
    BY <2>1 DEF WayInv, OneResult
  <2> QED  BY <2>2, <2>3 DEF WayInv
<1> QED  BY <1>1, ConnStepKeepsWay, ClientKeepsWay, PostKeepsWay,
            ExecuteKeepsWay, SendKeepsWay, ForwardKeepsWay DEF Next, BusStep

\* A command line that waits has its command or its result on the way, at
\* one place and on a websocket that is still held, unless it is lost.
THEOREM WaitsAreAccountedFor == Spec => []NothingWaitsInVain
<1>1. Init => WayInv
  <2> SUFFICES ASSUME Init PROVE WayInv
    OBVIOUS
  <2>1. Pending = {}
    BY DEF Init, Pending
  <2> QED  BY <2>1 DEF Init, WayInv, NothingWaitsInVain, OneResult
<1>2. WayInv => NothingWaitsInVain
  BY DEF WayInv
<1> QED  BY <1>1, <1>2, Invariance, StepKeepsWay, PTL DEF Spec

------------------------------------------------------------------------------
(***************************************************************************)
(* The abstract specification.                                             *)
(***************************************************************************)

\* Nothing is reported unless a command line succeeds or fails.
LEMMA ToldStays ==
  ASSUME \A c \in Clients :
           \/ cli'[c] = cli[c]
           \/ /\ cli[c] \notin {"succeeded", "failed"}
              /\ cli'[c] \notin {"succeeded", "failed"}
  PROVE  Told' = Told
<1> QED  BY DEF Told

\* Each step sends, executes or reports a command, or none of these.
LEMMA StepMaps ==
  Inv /\ [Next]_vars => [Calls!Next]_(Calls!callVars)
<1> SUFFICES ASSUME Inv, [Next]_vars
             PROVE  [Calls!Next]_(Calls!callVars)
  OBVIOUS
<1> USE DEF Calls!callVars
<1>1. TypeOK /\ MessagesAreTrue
  BY DEF Inv
<1>2. CASE ConnStep \/ StopApi
  <2>1. posted' = posted /\ outcomes' = outcomes
    BY <1>2 DEF ConnStep, StopApi, Untouched, TearDown, CloseApiSide,
                historyVars
  <2>2. Told' = Told
    <3>1. CASE StopApi
      BY <1>1, <3>1, ToldStays DEF StopApi, TypeOK
    <3>2. CASE ConnStep
      BY <3>2, ToldStays
      DEF ConnStep, Untouched, TearDown, CloseApiSide, cliVars
    <3> QED  BY <1>2, <3>1, <3>2
  <2> QED  BY <2>1, <2>2
<1>3. ASSUME NEW c \in Clients, Connect(c) \/ UiSubscribe(c) \/ UiBreaks(c)
      PROVE  UNCHANGED Calls!callVars
  <2>1. posted' = posted /\ outcomes' = outcomes
    BY <1>3 DEF Connect, UiSubscribe, UiBreaks, historyVars
  <2>2. Told' = Told
    <3>1. CASE Connect(c)
      <4>1. \/ cli' = [cli EXCEPT ![c] = "connected"]
            \/ cli' = [cli EXCEPT ![c] = "raised"]
        BY <3>1 DEF Connect
      <4> QED  BY <1>1, <3>1, <4>1, ToldStays DEF Connect, TypeOK
    <3>2. CASE UiSubscribe(c)
      BY <3>2, ToldStays DEF UiSubscribe
    <3>3. CASE UiBreaks(c)
      BY <1>1, <3>3, ToldStays DEF UiBreaks, TypeOK
    <3> QED  BY <1>3, <3>1, <3>2, <3>3
  <2> QED  BY <2>1, <2>2
<1>4. ASSUME NEW c \in Clients, Post(c)
      PROVE  [Calls!Next]_(Calls!callVars)
  <2>1. outcomes' = outcomes /\ cli[c] = "connected" /\ c \notin posted
    BY <1>1, <1>4 DEF Post, MessagesAreTrue
  <2>2. \/ cli' = [cli EXCEPT ![c] = "waiting"]
        \/ cli' = [cli EXCEPT ![c] = "raised"]
    BY <1>4 DEF Post
  <2>3. Told' = Told
    BY <1>1, <2>1, <2>2, ToldStays DEF TypeOK
  <2>4. posted' = posted \cup {c} \/ posted' = posted
    BY <1>4 DEF Post, Publish
  <2> QED  BY <2>1, <2>3, <2>4 DEF Calls!Next, Calls!Send
<1>5. ASSUME NEW c \in Clients, Execute(c)
      PROVE  Calls!Next
  <2>1. /\ c \in posted /\ outcomes[c] = <<>> /\ posted' = posted
        /\ outcomes \in [Clients -> Seq(Statuses)]
    BY <1>1, <1>5 DEF Execute, MessagesAreTrue, TypeOK
  <2>2. Told' = Told
    BY <1>5, ToldStays DEF Execute, cliVars
  <2>3. PICK s \in Statuses :
               outcomes' = [outcomes EXCEPT ![c] = Append(@, s)]
    BY <1>5 DEF Execute
  <2>4. outcomes' = [outcomes EXCEPT ![c] = <<s>>] /\ s \in Calls!Statuses
    BY <2>1, <2>3 DEF Statuses, Calls!Statuses
  <2>5. Calls!Do(c)
    BY <2>1, <2>2, <2>4 DEF Calls!Do
  <2> QED  BY <2>5 DEF Calls!Next
<1>6. ASSUME NEW c \in Clients, Receive(c)
      PROVE  [Calls!Next]_(Calls!callVars)
  <2>1. PICK r \in inbox[c] :
          IF Mine(c, r)
          THEN cli' = [cli EXCEPT ![c] = IF r.status = "ok" THEN "succeeded"
                                                            ELSE "failed"]
          ELSE cli' = cli
    BY <1>6 DEF Receive
  <2>2. /\ posted' = posted /\ outcomes' = outcomes /\ cli[c] = "waiting"
        /\ outcomes[r.client] = <<r.status>> /\ r.status \in Statuses
    BY <1>1, <1>6, <2>1
    DEF Receive, historyVars, MessagesAreTrue, TypeOK, Results
  <2>3. CASE Mine(c, r)
    <3>1. outcomes[c] # <<>> /\ outcomes[c][1] = r.status
      BY <2>2, <2>3 DEF Mine
    <3>2. /\ cli'[c] = IF r.status = "ok" THEN "succeeded" ELSE "failed"
          /\ \A d \in Clients : d # c => cli'[d] = cli[d]
      BY <1>1, <2>1, <2>3 DEF TypeOK
    <3>3. Told[c] = "" /\ Told' = [Told EXCEPT ![c] = r.status]
      BY <2>2, <3>2 DEF Told, Statuses
    <3>4. Calls!Tell(c)
      BY <2>2, <3>1, <3>3 DEF Calls!Tell
    <3> QED  BY <3>4 DEF Calls!Next
  <2>4. CASE ~Mine(c, r)
    <3>1. Told' = Told
      BY <2>1, <2>4, ToldStays
    <3> QED  BY <2>2, <3>1
  <2> QED  BY <2>3, <2>4
<1>7. CASE AgentSubscribe \/ SendResult \/ \E r \in toApi : Forward(r)
  <2>1. UNCHANGED <<posted, outcomes, cli>>
    BY <1>7 DEF AgentSubscribe, SendResult, Forward, historyVars, cliVars
  <2> QED  BY <2>1, ToldStays
<1>8. CASE Pong \/ UNCHANGED vars
  <2>1. UNCHANGED <<posted, outcomes, cli>>
    BY <1>8 DEF Pong, vars, historyVars, cliVars
  <2> QED  BY <2>1, ToldStays
<1> QED  BY <1>2, <1>3, <1>4, <1>5, <1>6, <1>7, <1>8 DEF Next, BusStep

\* A command is executed at most once, and its sender hears of it alone.
THEOREM ImplementsCalls == Spec => CallsSpec
<1>1. Init => Calls!Init
  BY DEF Init, Calls!Init, Told
<1> QED  BY <1>1, Invariance, StepMaps, PTL DEF Spec, CallsSpec, Calls!Spec
==============================================================================
