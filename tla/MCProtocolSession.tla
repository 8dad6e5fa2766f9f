--------------------------- MODULE MCProtocolSession ---------------------------
(* A small instance of ProtocolSession: a message that is empty, one whose   *)
(* packet fits a receive, one whose packet does not.  Two, five seconds and *)
(* the delay they leave are the code's.                                     *)
EXTENDS ProtocolSession

SomeLengths == {0, 1, 3}
=============================================================================
