----------------------------- MODULE CommandCalls -----------------------------
(***************************************************************************)
(* What the command bus promises an operator: a command is executed at     *)
(* most once, and only after it was sent; what the command line reports is *)
(* what came of that very command.  It does not promise that a command is  *)
(* executed, or that anything is reported.                                 *)
(***************************************************************************)
EXTENDS Sequences

CONSTANT Clients   \* the command line, run once for each command

VARIABLES
  sent,      \* the commands that were sent
  outcomes,  \* what came of each execution of a command
  told       \* what the command line reported, "" for nothing

callVars == <<sent, outcomes, told>>

Statuses == {"ok", "error"}

Init == /\ sent = {}
        /\ outcomes = [c \in Clients |-> <<>>]
        /\ told = [c \in Clients |-> ""]

Send(c) == /\ c \notin sent
           /\ sent' = sent \cup {c}
           /\ UNCHANGED <<outcomes, told>>

Do(c) == /\ c \in sent /\ outcomes[c] = <<>>
         /\ \E s \in Statuses : outcomes' = [outcomes EXCEPT ![c] = <<s>>]
         /\ UNCHANGED <<sent, told>>

Tell(c) == /\ told[c] = "" /\ outcomes[c] # <<>>
           /\ told' = [told EXCEPT ![c] = outcomes[c][1]]
           /\ UNCHANGED <<sent, outcomes>>

Next == \E c \in Clients : Send(c) \/ Do(c) \/ Tell(c)

Spec == Init /\ [][Next]_callVars
==============================================================================
