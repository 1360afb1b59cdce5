----------------------------- MODULE MCRxStream -----------------------------
(* RxStream for TLC: two channels are enough to tell a block that spans a  *)
(* retuning from one that does not.                                        *)
EXTENDS RxStream

MCChannels == {1, 2}
=============================================================================
