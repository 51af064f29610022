---------------------------- MODULE JobLifecycle ----------------------------
(***************************************************************************)
(* What the asynchronous job registry promises a caller who polls it: a    *)
(* job only moves forward, from pending through running to one final       *)
(* status; it is cancelled only after a cancellation was asked for; and it *)
(* is forgotten only to make room in a full registry.                      *)
(***************************************************************************)
EXTENDS Integers, FiniteSets

CONSTANTS Jobs, Cancellable, Capacity

VARIABLES
    phase,    \* per job: "absent", a status, or "forgotten"
    asked     \* jobs whose cancellation was asked for

lifeVars == <<phase, asked>>

Live == {"pending", "running"}
Final == {"completed", "failed", "cancelled"}

Remembered == {j \in Jobs : phase[j] \in Live \cup Final}

Submit(j) ==
    /\ phase[j] = "absent"
    /\ Cardinality(Remembered) < Capacity
    /\ phase' = [phase EXCEPT ![j] = "pending"]
    /\ UNCHANGED asked

SubmitForgetting(j, old) ==
    /\ phase[j] = "absent"
    /\ old \in Remembered
    /\ Cardinality(Remembered) >= Capacity
    /\ phase' = [phase EXCEPT ![j] = "pending", ![old] = "forgotten"]
    /\ asked' = asked \ {old}

Report(j) ==
    /\ phase[j] \in Live
    /\ phase' = [phase EXCEPT ![j] = "running"]
    /\ UNCHANGED asked

Ask(j) ==
    /\ j \in Remembered \cap Cancellable
    /\ asked' = asked \cup {j}
    /\ UNCHANGED phase

Settle(j) ==
    /\ phase[j] \in Live
    /\ \E s \in {"completed", "failed"} : phase' = [phase EXCEPT ![j] = s]
    /\ UNCHANGED asked

Acknowledge(j) ==
    /\ phase[j] \in Live
    /\ j \in asked
    /\ phase' = [phase EXCEPT ![j] = "cancelled"]
    /\ UNCHANGED asked

LifeInit ==
    /\ phase = [j \in Jobs |-> "absent"]
    /\ asked = {}

LifeNext ==
    \E j \in Jobs :
        \/ Submit(j) \/ Report(j) \/ Ask(j) \/ Settle(j) \/ Acknowledge(j)
        \/ \E old \in Jobs : SubmitForgetting(j, old)

LifeSpec == LifeInit /\ [][LifeNext]_lifeVars
=============================================================================
