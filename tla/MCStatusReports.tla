---------------------------- MODULE MCStatusReports ----------------------------
(***************************************************************************)
(* StatusReports with a table of at most five rows, which reaches its      *)
(* limit twice, and a clock that is set back up to two times.              *)
(***************************************************************************)
EXTENDS StatusReports
==============================================================================
