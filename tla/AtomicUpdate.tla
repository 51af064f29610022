----------------------------- MODULE AtomicUpdate -----------------------------
(***************************************************************************)
(* What a self-update promises, however many sessions, downloads, deaths   *)
(* and copies it takes: the plugin in effect goes from one release to a    *)
(* newer one that was published, in one step, and what the user keeps in   *)
(* the plugin folder is always there.                                      *)
(***************************************************************************)
EXTENDS Integers

CONSTANT Bound      \* releases that are published at most

VARIABLES
    published,      \* the newest release published
    installed,      \* the release in effect
    kept            \* the user's directories are with it

updateVars == <<published, installed, kept>>

Start ==
    /\ published = 0 /\ installed = 0 /\ kept = TRUE

Release ==
    /\ published < Bound
    /\ published' = published + 1
    /\ UNCHANGED <<installed, kept>>

Install ==
    /\ installed' \in installed + 1 .. published
    /\ UNCHANGED <<published, kept>>

UpdateNext == Release \/ Install

UpdateSpec == Start /\ [][UpdateNext]_updateVars
=============================================================================
