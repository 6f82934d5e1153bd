----------------------------- MODULE MCScheduler -----------------------------
(* TLC instances of Scheduler. *)
EXTENDS Scheduler, TLC

CONSTANTS d1, d2

TwoInOrder == <<d1, d2>>
=============================================================================
