---------------------------- MODULE MCProxyDedup ----------------------------
(* ProxyDedup for TLC: three calls, one of them risky, in a table of two. *)
EXTENDS ProxyDedup, TLC

CONSTANTS read1, read2, edit1

AllCalls == {read1, read2, edit1}
StrongCalls == {edit1}
Symmetry == Permutations({read1, read2})
=============================================================================
