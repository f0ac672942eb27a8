---------------------------- MODULE MCSchedQueue ----------------------------
(* Two executors on a ring of four slots that goes round more than once.     *)
EXTENDS SchedQueue
=============================================================================
