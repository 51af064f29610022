------------------------ MODULE MCGameThreadDispatch ------------------------
(* GameThreadDispatch for TLC: one full run with every kind of pass.         *)
EXTENDS GameThreadDispatch

\* scan, a deep batch, its final collection, a post-pass indexer and its
\* collection, a bare indexer and its collection.
CodePlan ==
    <<"scan", "sentinel", "finalGc", "sentinel", "gc", "bare", "gc">>
=============================================================================
