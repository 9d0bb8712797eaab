------------------------------- MODULE MCGuest -------------------------------
(* GuestMemory for TLC: two of 31 registers, windows of four words. *)
EXTENDS GuestMemory
=============================================================================
