----------------------------- MODULE MCSmpBoot -----------------------------
(* The boot of the cores for TLC; the constants come from the .cfg file. *)
EXTENDS SmpBoot
=============================================================================
