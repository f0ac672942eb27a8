-------------------------- MODULE MCTicketArrayLock --------------------------
(* Three threads on a two-slot array: slots are reused while threads wait. *)
EXTENDS TicketArrayLock
=============================================================================
