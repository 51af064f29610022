-------------------------- MODULE MCFullIndexResume --------------------------
(* FullIndexResume for TLC: a killer with a hash and one without, a healthy    *)
(* asset and an animation, which only its pass indexes, and an asset whose     *)
(* indexer fails.  The pass over animations has no checkpoint, the GAS pass    *)
(* after it has one and loads the first killer, until that is saved again; the *)
(* animation kills its pass when it was saved again.                           *)
EXTENDS FullIndexResume

CONSTANTS killer, nameless, healthy, flawed, walk

FiveAssets == {killer, nameless, healthy, flawed, walk}
HealthyOnly == {healthy}
KillerOnly == {killer}
AnimationOnly == {walk}
AllKillers == {killer, nameless}
HashlessAssets == {nameless}
FlawedAssets == {flawed}
None == {}
TwoPasses == <<"animations", "gas">>
AnimationPass == {"animations"}
BothPasses == {"animations", "gas"}
Classes ==
    [p \in BothPasses |->
       Assets \cap (IF p = "animations" THEN {walk} ELSE {healthy, killer})]
FatalVersions ==
    [p \in BothPasses |->
       {av \in Assets \X {1, 2} :
          av = IF p = "animations" THEN <<walk, 2>> ELSE <<killer, 1>>}]
NothingFatal == [p \in BothPasses |-> {}]

\* Everywhere but inside ResetDatabase.
DeathsOutsideReset ==
    {"idle", "begin", "list", "scan", "record", "mark", "work", "post", "unmarked"}
=============================================================================
