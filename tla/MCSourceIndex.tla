---------------------------- MODULE MCSourceIndex ----------------------------
(* SourceIndex for TLC: everything may go wrong, in any session.            *)
EXTENDS SourceIndex

EveryFault == {"write", "silent", "open", "thread", "death"}
=============================================================================
