------------------------------- MODULE MCModes -------------------------------
(* Modes for TLC: every set is small as it is. *)
EXTENDS Modes
=============================================================================
