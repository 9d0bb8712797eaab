----------------------------- MODULE MCSpinlock -----------------------------
(* Spinlock for TLC; the constants come from the .cfg file. *)
EXTENDS Spinlock
=============================================================================
