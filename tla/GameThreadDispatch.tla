-------------------------- MODULE GameThreadDispatch --------------------------
(***************************************************************************)
(* The indexing worker of MonolithIndex and the game thread it depends on. *)
(*                                                                         *)
(* One run of FIndexingTask is a sequence of passes, each dispatched to    *)
(* the game thread and waited for.  The game thread serves a dispatch from *)
(* its tick, reports the end of the run, and in Deinitialize stops ticking *)
(* and joins the worker.  Plan gives the kind of each pass:                *)
(*   scan      the Asset Registry enumeration (AsyncTask, sliced wait)     *)
(*   sentinel  DispatchToGameThreadAndWait: a deep batch or a post-pass    *)
(*             indexer (ticker, abort token, sliced wait)                  *)
(*   bare      the GAS, MetaSound and DomainAssets indexers (ticker,       *)
(*             nobody keeps the token, unbounded wait)                     *)
(*   gc        GCBetweenIndexers, after a pass that was served             *)
(*   finalGc   the collection that ends the deep pass, dispatched however  *)
(*             the batches ended (a run stopped before its first batch     *)
(*             skips it; here it dispatches and abandons it)               *)
(* Each dispatch takes an event from the engine's pool.  A returned event  *)
(* may be handed to anybody, so "pooled" means: no longer ours to trigger. *)
(***************************************************************************)
EXTENDS Naturals, Sequences

CONSTANT Plan

Kinds == {"scan", "sentinel", "bare", "gc", "finalGc"}

ASSUME PlanAssumption == Plan \in Seq(Kinds)

VARIABLES
    gtPc,           \* what the game thread is doing
    gtTask,         \* the pass whose closure it is serving
    torn,           \* Deinitialize has returned
    joining,        \* bGameThreadIsJoining
    stop,           \* bShouldStop
    exitRequested,  \* IsEngineExitRequested()
    cancel,         \* the job registry or the notification asks to cancel
    wpc,            \* where the worker is
    cur,            \* its pass
    served,         \* did the last dispatch return true
    token,          \* abort token of each pass
    pending,        \* passes whose closure the game thread still holds
    event,          \* who owns the event of each pass
    signalled,      \* passes whose event was triggered
    ran,            \* passes whose payload was invoked
    txFailed,       \* bTransactionFailure
    marker,         \* last_full_index written, in-progress marker cleared
    finish,         \* the scheduled OnIndexingFinished
    outcome         \* what FinishActiveAsyncJob was told

gtVars     == <<gtPc, gtTask, torn>>
flagVars   == <<joining, stop, exitRequested, cancel>>
workerVars == <<wpc, cur, served>>
taskVars   == <<token, pending, event, signalled, ran>>
endVars    == <<txFailed, marker, finish, outcome>>
vars       == <<gtVars, flagVars, workerVars, taskVars, endVars>>

Passes   == DOMAIN Plan
Tickered == {p \in Passes : Plan[p] \in {"sentinel", "bare"}}
Waits    == {"wait", "slice", "withdraw", "mustWait"}

Init ==
    /\ gtPc = "idle" /\ gtTask = 0 /\ torn = FALSE
    /\ joining = FALSE /\ stop = FALSE /\ exitRequested = FALSE /\ cancel = FALSE
    /\ wpc = "next" /\ cur = 1 /\ served = FALSE
    /\ token = [p \in Passes |-> "unclaimed"]
    /\ event = [p \in Passes |-> "none"]
    /\ pending = {} /\ signalled = {} /\ ran = {}
    /\ txFailed = FALSE /\ marker = FALSE
    /\ finish = "none" /\ outcome = "running"

-----------------------------------------------------------------------------
(* The worker: FIndexingTask::Run *)

CheckCancellation == stop \/ txFailed \/ cancel

\* Does the worker dispatch pass p when it gets to it?
Gate(p) ==
    \/ Plan[p] \in {"scan", "finalGc"}
    \/ Plan[p] = "gc" /\ served
    \/ p \in Tickered /\ ~CheckCancellation

\* Take an event from the pool and hand the closure to the game thread.
Dispatch ==
    /\ wpc = "next" /\ cur \in Passes /\ Gate(cur)
    /\ event' = [event EXCEPT ![cur] = "held"]
    /\ pending' = pending \cup {cur}
    /\ wpc' = "wait"
    /\ UNCHANGED <<cur, served, token, signalled, ran, gtVars, flagVars, endVars>>

\* Mutant of Skip: the worker steps over two passes.
SkipTwice ==
    /\ wpc = "next" /\ cur \in Passes /\ ~Gate(cur)
    /\ stop' = (stop \/ (cur \in Tickered /\ ~txFailed /\ cancel))
    /\ cur' = cur + 2
    /\ served' = FALSE
    /\ UNCHANGED <<wpc, joining, exitRequested, cancel, gtVars, taskVars, endVars>>

\* A cancellation that CheckCancellation learns of becomes the stop flag.
Skip ==
    /\ wpc = "next" /\ cur \in Passes /\ ~Gate(cur)
    /\ stop' = (stop \/ (cur \in Tickered /\ ~txFailed /\ cancel))
    /\ cur' = cur + 1
    /\ served' = FALSE
    /\ UNCHANGED <<wpc, joining, exitRequested, cancel, gtVars, taskVars, endVars>>

\* Mutant of Leave: every event goes back to the pool.
LeaveToPool(owner, wasServed) ==
    /\ event' = [event EXCEPT ![cur] = "pooled"]
    /\ served' = wasServed
    /\ cur' = cur + 1
    /\ wpc' = "next"

\* The wait is over: on to the next pass, and nothing else to remember.
Leave(owner, wasServed) ==
    /\ event' = [event EXCEPT ![cur] = owner]
    /\ served' = wasServed
    /\ cur' = cur + 1
    /\ wpc' = "next"

WaitServed ==
    /\ wpc = "wait" /\ cur \in signalled
    /\ Leave("pooled", TRUE)
    /\ UNCHANGED <<token, pending, signalled, ran, gtVars, flagVars, endVars>>

\* One 100 ms slice of WaitForGameThreadEvent passes with nothing triggered.
SliceExpires ==
    /\ wpc = "wait" /\ Plan[cur] # "bare" /\ cur \notin signalled
    /\ wpc' = "slice"
    /\ UNCHANGED <<cur, served, gtVars, flagVars, taskVars, endVars>>

\* Mutant of MayAbandon: the joining half is forgotten.
AbandonOnExitOnly == stop /\ exitRequested

\* Mutant of MayAbandon: the stop flag is not asked for.
AbandonWithoutStop == joining \/ exitRequested

MayAbandon == stop /\ (joining \/ exitRequested)

SliceAgain ==
    /\ wpc = "slice" /\ ~MayAbandon
    /\ wpc' = "wait"
    /\ UNCHANGED <<cur, served, gtVars, flagVars, taskVars, endVars>>

\* An abandoned scan ends Run without scheduling OnIndexingFinished.
AbandonScan ==
    /\ wpc = "slice" /\ MayAbandon /\ Plan[cur] = "scan"
    /\ event' = [event EXCEPT ![cur] = "leaked"]
    /\ wpc' = "done"
    /\ UNCHANGED <<cur, served, token, pending, signalled, ran, gtVars, flagVars, endVars>>

AbandonCollection ==
    /\ wpc = "slice" /\ MayAbandon /\ Plan[cur] \in {"gc", "finalGc"}
    /\ Leave("leaked", FALSE)
    /\ UNCHANGED <<token, pending, signalled, ran, gtVars, flagVars, endVars>>

AbandonDispatch ==
    /\ wpc = "slice" /\ MayAbandon /\ Plan[cur] = "sentinel"
    /\ wpc' = "withdraw"
    /\ UNCHANGED <<cur, served, gtVars, flagVars, taskVars, endVars>>

\* AbortIfUnclaimed won: the event stays out of the pool.
AbortIfUnclaimed ==
    /\ wpc = "withdraw" /\ token[cur] = "unclaimed"
    /\ token' = [token EXCEPT ![cur] = "aborted"]
    /\ Leave("leaked", FALSE)
    /\ UNCHANGED <<pending, signalled, ran, gtVars, flagVars, endVars>>

\* AbortIfUnclaimed lost: the payload is running or has run.
AbortLost ==
    /\ wpc = "withdraw" /\ token[cur] = "claimed"
    /\ wpc' = "mustWait"
    /\ UNCHANGED <<cur, served, gtVars, flagVars, taskVars, endVars>>

MandatoryWait ==
    /\ wpc = "mustWait" /\ cur \in signalled
    /\ Leave("pooled", FALSE)
    /\ UNCHANGED <<token, pending, signalled, ran, gtVars, flagVars, endVars>>

\* After the scan the database may be closed or refuse its first transaction.
DatabaseUnusable ==
    /\ wpc = "next" /\ cur - 1 \in Passes /\ Plan[cur - 1] = "scan"
    /\ finish' = "failure"
    /\ wpc' = "done"
    /\ UNCHANGED <<cur, served, gtVars, flagVars, taskVars, txFailed, marker, outcome>>

\* CompleteFullIndex writes the marker of a run that nothing stopped, unless
\* the database refuses it; the end of the run is then scheduled.
CompleteFullIndex ==
    /\ wpc = "next" /\ cur = Len(Plan) + 1
    /\ \E written \in BOOLEAN :
          /\ marker' = (~stop /\ ~txFailed /\ written)
          /\ finish' = IF marker' THEN "success" ELSE "failure"
    /\ wpc' = "done"
    /\ UNCHANGED <<cur, served, gtVars, flagVars, taskVars, txFailed, outcome>>

Worker ==
    \/ Dispatch \/ Skip \/ WaitServed
    \/ SliceExpires \/ SliceAgain
    \/ AbandonScan \/ AbandonCollection \/ AbandonDispatch
    \/ AbortIfUnclaimed \/ AbortLost \/ MandatoryWait
    \/ DatabaseUnusable \/ CompleteFullIndex

-----------------------------------------------------------------------------
(* The game thread: its tick, OnIndexingFinished and Deinitialize *)

\* Mutant of TakeTask: the ticker never looks at the token.
TakeTaskBlindly(p) ==
    /\ gtPc = "idle" /\ p \in pending
    /\ pending' = pending \ {p}
    /\ gtTask' = p
    /\ gtPc' = "payload"
    /\ UNCHANGED <<torn, token, event, signalled, ran, flagVars, workerVars, endVars>>

\* A ticker that finds assets still compiling reschedules itself: no step.
TakeTask(p) ==
    /\ gtPc = "idle" /\ p \in pending
    /\ pending' = pending \ {p}
    /\ gtTask' = p
    /\ gtPc' = IF p \notin Tickered THEN "payload"
               ELSE IF token[p] = "aborted" THEN "trigger" ELSE "claim"
    /\ UNCHANGED <<torn, token, event, signalled, ran, flagVars, workerVars, endVars>>

ClaimForExecution ==
    /\ gtPc = "claim"
    /\ gtPc' = IF token[gtTask] = "unclaimed" THEN "payload" ELSE "trigger"
    /\ token' = [token EXCEPT ![gtTask] = IF @ = "unclaimed" THEN "claimed" ELSE @]
    /\ UNCHANGED <<gtTask, torn, pending, event, signalled, ran,
                   flagVars, workerVars, endVars>>

\* A sentinel's own transaction may fail.
RunPayload ==
    /\ gtPc = "payload"
    /\ ran' = ran \cup {gtTask}
    /\ txFailed' \in {txFailed, txFailed \/ gtTask \in Tickered}
    /\ gtPc' = "trigger"
    /\ UNCHANGED <<gtTask, torn, token, pending, event, signalled,
                   flagVars, workerVars, marker, finish, outcome>>

Trigger ==
    /\ gtPc = "trigger"
    /\ signalled' = signalled \cup {gtTask}
    /\ gtPc' = "idle"
    /\ UNCHANGED <<gtTask, torn, token, pending, event, ran,
                   flagVars, workerVars, endVars>>

\* Mutant of Report: a run that did not succeed is not answered.
ReportOnlySuccess(result) ==
    outcome' = IF outcome = "running" /\ result = "success" THEN result ELSE outcome

\* FinishActiveAsyncJob does nothing once the job has been answered.
Report(result) == outcome' = IF outcome = "running" THEN result ELSE outcome

\* The worker schedules this as its last act, so joining it is immediate.
OnIndexingFinished ==
    /\ gtPc = "idle" /\ finish \in {"success", "failure"} /\ wpc = "done"
    /\ finish' = "handled"
    /\ Report(finish)
    /\ UNCHANGED <<gtVars, flagVars, workerVars, taskVars, txFailed, marker>>

\* Deinitialize with no run left to stop.
DeinitializeIdle ==
    /\ gtPc = "idle" /\ ~torn /\ finish = "handled"
    /\ torn' = TRUE
    /\ UNCHANGED <<gtPc, gtTask, flagVars, workerVars, taskVars, endVars>>

AnnounceJoin ==
    /\ gtPc = "idle" /\ ~torn /\ finish # "handled"
    /\ joining' = TRUE
    /\ gtPc' = "stop"
    /\ UNCHANGED <<gtTask, torn, stop, exitRequested, cancel, workerVars, taskVars, endVars>>

RequestStop ==
    /\ gtPc = "stop"
    /\ stop' = TRUE
    /\ gtPc' = "join"
    /\ UNCHANGED <<gtTask, torn, joining, exitRequested, cancel, workerVars, taskVars, endVars>>

\* The thread that returns from WaitForCompletion may tick again: a module
\* unload leaves the engine running.
WaitForCompletion ==
    /\ gtPc = "join" /\ wpc = "done"
    /\ torn' = TRUE
    /\ gtPc' = "idle"
    /\ Report("failure")
    /\ UNCHANGED <<gtTask, flagVars, workerVars, taskVars, txFailed, marker, finish>>

GameThread ==
    \/ \E p \in Passes : TakeTask(p)
    \/ ClaimForExecution \/ RunPayload \/ Trigger \/ OnIndexingFinished
    \/ DeinitializeIdle \/ AnnounceJoin \/ RequestStop \/ WaitForCompletion

-----------------------------------------------------------------------------
(* The user and the engine *)

UserCancels ==
    /\ ~cancel /\ outcome = "running"
    /\ cancel' = TRUE
    /\ UNCHANGED <<joining, stop, exitRequested, gtVars, workerVars, taskVars, endVars>>

RequestExit ==
    /\ ~exitRequested
    /\ exitRequested' = TRUE
    /\ UNCHANGED <<joining, stop, cancel, gtVars, workerVars, taskVars, endVars>>

Next == Worker \/ GameThread \/ UserCancels \/ RequestExit

Spec == Init /\ [][Next]_vars

\* A tick serves every registered ticker and queued task, but nobody promises
\* another tick once exit is requested: then the subsystems are deinitialized.
Fairness ==
    /\ WF_vars(Worker)
    /\ \A p \in Passes : SF_vars(TakeTask(p) /\ ~exitRequested)
    /\ WF_vars(ClaimForExecution \/ RunPayload \/ Trigger)
    /\ SF_vars(OnIndexingFinished /\ ~exitRequested)
    /\ SF_vars(exitRequested /\ (DeinitializeIdle \/ AnnounceJoin))
    /\ WF_vars(RequestStop \/ WaitForCompletion)

FairSpec == Spec /\ Fairness

-----------------------------------------------------------------------------
(* Correctness *)

GtTypes ==
    /\ gtPc \in {"idle", "claim", "payload", "trigger", "stop", "join"}
    /\ gtTask \in Passes \cup {0}
    /\ torn \in BOOLEAN

FlagTypes ==
    /\ joining \in BOOLEAN /\ stop \in BOOLEAN
    /\ exitRequested \in BOOLEAN /\ cancel \in BOOLEAN

WorkerTypes ==
    /\ wpc \in Waits \cup {"next", "done"}
    /\ cur \in 1 .. Len(Plan) + 1
    /\ served \in BOOLEAN

TaskTypes ==
    /\ token \in [Passes -> {"unclaimed", "claimed", "aborted"}]
    /\ event \in [Passes -> {"none", "held", "pooled", "leaked"}]
    /\ pending \subseteq Passes /\ signalled \subseteq Passes /\ ran \subseteq Passes

EndTypes ==
    /\ txFailed \in BOOLEAN /\ marker \in BOOLEAN
    /\ finish \in {"none", "success", "failure", "handled"}
    /\ outcome \in {"running", "success", "failure"}

\* Every variable has its type; the worker stays within its plan.
TypeOK == GtTypes /\ FlagTypes /\ WorkerTypes /\ TaskTypes /\ EndTypes

\* The payload of a ticker writes through references into the frame of the
\* worker that dispatched it.  While the game thread runs that payload the
\* worker is still inside the wait of the same pass, whatever shutdown and the
\* abandon protocol do meanwhile (FMonolithDispatchAbortToken).
PayloadNeedsFrame ==
    gtPc = "payload" /\ gtTask \in Tickered => cur = gtTask /\ wpc \in Waits

\* An event the game thread can still trigger is never back in the pool, where
\* the trigger would release an unrelated waiter (the reason
\* WaitForGameThreadEvent's callers leak it).
NoTriggerOnPooledEvent ==
    \A p \in Passes :
        p \in pending \/ (gtTask = p /\ gtPc \in {"claim", "payload", "trigger"})
            => event[p] \in {"held", "leaked"}

\* The completion marker, and a success reported for the job, mean that the
\* payload of every ticker pass was run: cancelling, quitting or abandoning a
\* wait at any point leaves the run incomplete (CompleteFullIndex, the gate on
\* bStructurallyComplete).  It follows from the sequential run below.
CompleteMeansEveryPassRan ==
    marker \/ outcome = "success" => Tickered \subseteq ran

\* Deinitialize returns: joining the worker does not hang on a wait that only
\* the joining thread could end (MonolithIndexSubsystem.h, comment of
\* WaitForGameThreadEvent).
DeinitializeCompletes == joining ~> torn

\* The one wait that nothing ends: the worker is in the bare wait of a pass
\* nobody will serve, since the game thread is joining the worker.
HungOnBareWait ==
    gtPc = "join" /\ wpc = "wait" /\ Plan[cur] = "bare" /\ cur \notin signalled

\* Every other wait gives way to a shutdown: Deinitialize returns, wherever the
\* worker was, unless it was in a bare wait (WaitForGameThreadEvent).
OnlyABareWaitHangs == joining ~> (torn \/ HungOnBareWait)

\* Every run is answered: but for that hang, the active job does not stay
\* running for ever, whether the run ends, is cancelled or is overtaken by the
\* editor's exit.
EveryRunIsReported == <>(outcome # "running" \/ HungOnBareWait)

-----------------------------------------------------------------------------
(* The run as its caller sees it. *)

Run == INSTANCE SequentialRun
       WITH Last <- Len(Plan), Required <- Tickered,
            turn <- cur, made <- ran \cap Tickered, broken <- (stop \/ txFailed),
            over <- (wpc = "done"), complete <- marker, answer <- outcome

\* The worker and the game thread implement the sequential run: whatever is
\* abandoned, withdrawn or served late, no pass is made out of its turn, twice or
\* after the end, and none is missing from a run that is marked complete.
ImplementsSequentialRun == Run!RunSpec
=============================================================================
