----------------------------- MODULE MCLeFollow -----------------------------
(* Three data channels and two advertising channels, the host asking for   *)
(* the second one.  One interval fits the "byte", the longer one does not  *)
(* if MCByte is the smaller.                                               *)
EXTENDS LeFollow
MCRequested == {4}
MCIntervals == {4, 5}
=============================================================================
