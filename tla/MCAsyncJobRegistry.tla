------------------------- MODULE MCAsyncJobRegistry -------------------------
(* AsyncJobRegistry for TLC: three jobs, one that cannot be cancelled, in a  *)
(* registry of two rows.                                                     *)
EXTENDS AsyncJobRegistry

CONSTANTS j1, j2, j3

AllJobs == {j1, j2, j3}
CancellableJobs == {j1, j2}
=============================================================================
