------------------------------ MODULE MCHyper ------------------------------
(* The hypervisor for TLC; the constants come from the .cfg files. *)
EXTENDS Hyper
=============================================================================
