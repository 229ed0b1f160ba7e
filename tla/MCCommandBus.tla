----------------------------- MODULE MCCommandBus -----------------------------
(***************************************************************************)
(* CommandBus with two command lines at work at a time.                    *)
(***************************************************************************)
EXTENDS CommandBus
==============================================================================
