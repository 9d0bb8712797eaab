---------------------------- MODULE MCScheduler ----------------------------
(* The scheduler for TLC; the constants come from the .cfg files. *)
EXTENDS Scheduler
=============================================================================
