---------------------------- MODULE MCUpdateSwap ----------------------------
(* UpdateSwap for TLC: three releases, one of each kind the updater knows.  *)
EXTENDS UpdateSwap

OneOfEachKind == <<"marked", "unmarked", "legacy">>
DeathAndDisk == {"death", "disk"}
=============================================================================
