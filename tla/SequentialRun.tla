---------------------------- MODULE SequentialRun ----------------------------
(***************************************************************************)
(* What one run of the indexing task promises, however its passes are      *)
(* dispatched, waited for and abandoned: the passes that write are made in *)
(* their order, each in its turn and at most once; a run that leaves one   *)
(* out is broken; and only a run that came to its end unbroken is marked   *)
(* complete, without which no success is answered.                         *)
(***************************************************************************)
EXTENDS Naturals

CONSTANTS
    Last,       \* the number of passes
    Required    \* those that write

VARIABLES
    turn,       \* the pass whose turn it is
    made,       \* the passes that have been made
    broken,     \* stopped, or a transaction of it has failed
    over,       \* the run has ended
    complete,   \* it is marked complete
    answer      \* what its job was told

runVars == <<turn, made, broken, over, complete, answer>>

Start ==
    /\ turn = 1 /\ made = {} /\ broken = FALSE
    /\ over = FALSE /\ complete = FALSE /\ answer = "running"

\* A pass is made in its turn; it may break the run.
Make ==
    /\ ~over /\ turn \in Required \ made
    /\ made' = made \cup {turn}
    /\ broken' \in {broken, TRUE}
    /\ UNCHANGED <<turn, over, complete, answer>>

\* Nothing that has to be made is passed over in a run that is not broken.
MoveOn ==
    /\ ~over /\ turn <= Last
    /\ broken' \in {broken, TRUE}
    /\ turn \in Required \ made => broken'
    /\ turn' = turn + 1
    /\ UNCHANGED <<made, over, complete, answer>>

Break ==
    /\ broken' = TRUE
    /\ UNCHANGED <<turn, made, over, complete, answer>>

End ==
    /\ ~over
    /\ over' = TRUE
    /\ complete' \in {FALSE, turn > Last /\ ~broken}
    /\ UNCHANGED <<turn, made, broken, answer>>

Answer ==
    /\ over /\ answer = "running"
    /\ answer' \in {"success", "failure"}
    /\ answer' = "success" => complete
    /\ UNCHANGED <<turn, made, broken, over, complete>>

RunNext == Make \/ MoveOn \/ Break \/ End \/ Answer

RunSpec == Start /\ [][RunNext]_runVars
=============================================================================
