---------------------- MODULE GameThreadDispatchProofs ----------------------
(***************************************************************************)
(* Safety of the dispatch protocol for every plan of passes.               *)
(*                                                                         *)
(* The argument follows an event.  It is held exactly while the worker     *)
(* waits for it; it is pooled only after it was triggered, and it is       *)
(* triggered once, when the closure is done; a ticker's event is leaked    *)
(* only together with an aborted token, and an aborted payload never runs. *)
(* Then: the dispatch implements the sequential run, and what the end of a *)
(* join rests on.                                                          *)
(***************************************************************************)
EXTENDS GameThreadDispatch, Integers, TLAPS

Serving == gtPc \in {"claim", "payload", "trigger"}

InFlight(p) == p \in pending \/ (gtTask = p /\ Serving)

\* A pass the worker has not dispatched has left no trace.
Fresh(p) ==
    /\ event[p] = "none" /\ token[p] = "unclaimed"
    /\ ~InFlight(p) /\ p \notin signalled

\* The worker's own position.
WorkerInv ==
    /\ wpc \in Waits => cur \in Passes /\ event[cur] = "held"
    /\ wpc \in {"withdraw", "mustWait"} => Plan[cur] = "sentinel" /\ stop
    /\ wpc = "slice" => Plan[cur] # "bare"
    /\ \A p \in Passes : p > cur \/ (p = cur /\ wpc = "next") => Fresh(p)

\* The game thread serves one closure at a time, and claims before it runs.
ServingInv ==
    /\ Serving => gtTask \in Passes /\ gtTask \notin pending
    /\ gtPc = "claim" => gtTask \in Tickered /\ token[gtTask] # "claimed"
    /\ gtPc = "payload" /\ gtTask \in Tickered => token[gtTask] = "claimed"
    /\ gtPc = "trigger" => gtTask \in ran \/ token[gtTask] = "aborted"

\* Who may still use the event of pass p.
EventInv(p) ==
    /\ InFlight(p) => event[p] \in {"held", "leaked"} /\ p \notin signalled
    /\ event[p] = "held" => p = cur /\ wpc \in Waits /\ token[p] # "aborted"
    /\ event[p] = "leaked" /\ p \in Tickered => token[p] = "aborted"
    /\ p \in signalled => p \in ran \/ token[p] = "aborted"
    /\ p \in pending => token[p] # "claimed"

\* A pass left behind without having run has stopped the run.
ProgressInv ==
    /\ \A p \in Tickered : p < cur => p \in ran \/ stop \/ txFailed
    /\ marker => Tickered \subseteq ran
    /\ finish = "success" \/ outcome = "success" => marker
    /\ finish # "none" \/ outcome # "running" => wpc = "done"

IInv ==
    /\ TypeOK
    /\ WorkerInv
    /\ ServingInv
    /\ \A p \in Passes : EventInv(p)
    /\ ProgressInv

-----------------------------------------------------------------------------

\* What a plan is, in the form the steps use.
LEMMA PlanFacts ==
    /\ Passes = 1 .. Len(Plan) /\ Len(Plan) \in Nat
    /\ \A p \in Passes : Plan[p] \in Kinds
  BY PlanAssumption DEF Passes

\* The types of variables that do not change.
LEMMA FrameTypes ==
    /\ GtTypes /\ UNCHANGED gtVars => GtTypes'
    /\ FlagTypes /\ UNCHANGED flagVars => FlagTypes'
    /\ WorkerTypes /\ UNCHANGED workerVars => WorkerTypes'
    /\ TaskTypes /\ UNCHANGED taskVars => TaskTypes'
    /\ EndTypes /\ UNCHANGED endVars => EndTypes'
<1>1. GtTypes /\ UNCHANGED gtVars => GtTypes'
  BY DEF GtTypes, gtVars
<1>2. FlagTypes /\ UNCHANGED flagVars => FlagTypes'
  BY DEF FlagTypes, flagVars
<1>3. WorkerTypes /\ UNCHANGED workerVars => WorkerTypes'
  BY DEF WorkerTypes, workerVars
<1>4. TaskTypes /\ UNCHANGED taskVars => TaskTypes'
  BY DEF TaskTypes, taskVars
<1>5. EndTypes /\ UNCHANGED endVars => EndTypes'
  BY DEF EndTypes, endVars
<1> QED
  BY <1>1, <1>2, <1>3, <1>4, <1>5

\* The initial state satisfies the invariant.
LEMMA InitInv == Init => IInv
<1> SUFFICES ASSUME Init PROVE IInv
  OBVIOUS
<1>1. TypeOK
  <2>1. GtTypes /\ FlagTypes
    BY DEF Init, GtTypes, FlagTypes
  <2>2. EndTypes
    BY DEF Init, EndTypes
  <2>3. 1 \in 1 .. Len(Plan) + 1
    BY PlanFacts
  <2>4. WorkerTypes
    BY <2>3 DEF Init, WorkerTypes, Waits
  <2>5. TaskTypes
    BY DEF Init, TaskTypes
  <2> QED
    BY <2>1, <2>2, <2>4, <2>5 DEF TypeOK
<1>2. WorkerInv /\ ServingInv
  BY DEF Init, WorkerInv, ServingInv, Fresh, InFlight, Serving, Waits
<1>3. \A p \in Passes : EventInv(p)
  BY DEF Init, EventInv, InFlight, Serving, Waits
<1>4. ProgressInv
  BY PlanFacts DEF Init, ProgressInv, Tickered
<1> QED
  BY <1>1, <1>2, <1>3, <1>4 DEF IInv

\* Stepping past a pass keeps the worker within the plan.
LEMMA NextPass == cur \in Passes => cur + 1 \in 1 .. Len(Plan) + 1
  BY PlanFacts

\* The steps of the worker keep the types.
LEMMA WorkerType == IInv /\ Worker => TypeOK'
<1> SUFFICES ASSUME IInv, Worker PROVE TypeOK'
  OBVIOUS
<1>t. /\ GtTypes /\ FlagTypes /\ WorkerTypes /\ TaskTypes /\ EndTypes
      /\ wpc \in Waits => cur \in Passes
  BY DEF IInv, TypeOK, WorkerInv
<1>1. CASE Dispatch
  <2>1. WorkerTypes' /\ TaskTypes'
    BY <1>1, <1>t DEF Dispatch, WorkerTypes, TaskTypes, Waits
  <2> QED
    BY <1>1, <1>t, <2>1, FrameTypes DEF Dispatch, TypeOK
<1>2. CASE Skip
  <2>1. WorkerTypes'
    BY <1>2, <1>t, NextPass DEF Skip, WorkerTypes, Waits
  <2>2. FlagTypes'
    BY <1>2, <1>t DEF Skip, FlagTypes
  <2> QED
    BY <1>2, <1>t, <2>1, <2>2, FrameTypes DEF Skip, TypeOK
<1>3. ASSUME NEW owner \in {"pooled", "leaked"}, NEW wasServed \in BOOLEAN,
             Leave(owner, wasServed), wpc \in Waits,
             token' \in [Passes -> {"unclaimed", "claimed", "aborted"}],
             UNCHANGED <<pending, signalled, ran, gtVars, flagVars, endVars>>
      PROVE TypeOK'
  <2>1. WorkerTypes'
    BY <1>3, <1>t, NextPass DEF Leave, WorkerTypes, Waits
  <2>2. TaskTypes'
    BY <1>3, <1>t DEF Leave, TaskTypes
  <2> QED
    BY <1>3, <1>t, <2>1, <2>2, FrameTypes DEF TypeOK
<1>4. CASE WaitServed \/ MandatoryWait
  <2>1. wpc \in Waits /\ UNCHANGED token
    BY <1>4 DEF WaitServed, MandatoryWait, Waits
  <2>2. token' \in [Passes -> {"unclaimed", "claimed", "aborted"}]
    BY <2>1, <1>t DEF TaskTypes
  <2> QED
    BY <1>3, <1>4, <2>1, <2>2 DEF WaitServed, MandatoryWait
<1>5. CASE AbandonCollection
  <2>1. wpc \in Waits /\ UNCHANGED token
    BY <1>5 DEF AbandonCollection, Waits
  <2>2. token' \in [Passes -> {"unclaimed", "claimed", "aborted"}]
    BY <2>1, <1>t DEF TaskTypes
  <2> QED
    BY <1>3, <1>5, <2>1, <2>2 DEF AbandonCollection
<1>6. CASE AbortIfUnclaimed
  <2>1. wpc \in Waits
    BY <1>6 DEF AbortIfUnclaimed, Waits
  <2>2. token' \in [Passes -> {"unclaimed", "claimed", "aborted"}]
    BY <1>6, <1>t DEF TaskTypes, AbortIfUnclaimed
  <2> QED
    BY <1>3, <1>6, <2>1, <2>2 DEF AbortIfUnclaimed
<1>7. CASE SliceExpires \/ SliceAgain \/ AbandonDispatch \/ AbortLost
  <2>1. WorkerTypes'
    BY <1>7, <1>t DEF SliceExpires, SliceAgain, AbandonDispatch, AbortLost,
                      WorkerTypes, Waits
  <2> QED
    BY <1>7, <1>t, <2>1, FrameTypes
    DEF SliceExpires, SliceAgain, AbandonDispatch, AbortLost, TypeOK
<1>8. CASE AbandonScan
  <2>1. WorkerTypes' /\ TaskTypes'
    BY <1>8, <1>t DEF AbandonScan, WorkerTypes, TaskTypes, Waits
  <2> QED
    BY <1>8, <1>t, <2>1, FrameTypes DEF AbandonScan, TypeOK
<1>9. CASE DatabaseUnusable \/ CompleteFullIndex
  <2>1. WorkerTypes'
    BY <1>9, <1>t DEF DatabaseUnusable, CompleteFullIndex, WorkerTypes
  <2>2. ASSUME DatabaseUnusable PROVE EndTypes'
    BY <2>2, <1>t DEF DatabaseUnusable, EndTypes
  <2>3. ASSUME CompleteFullIndex PROVE EndTypes'
    <3>1. PICK written \in BOOLEAN : marker' = (~stop /\ ~txFailed /\ written)
      BY <2>3 DEF CompleteFullIndex
    <3>2. marker' \in BOOLEAN
      BY <3>1, Zenon
    <3>3. finish' \in {"success", "failure"} /\ UNCHANGED <<txFailed, outcome>>
      BY <2>3, Zenon DEF CompleteFullIndex
    <3> QED
      BY <1>t, <3>2, <3>3 DEF EndTypes
  <2> QED
    BY <1>9, <1>t, <2>1, <2>2, <2>3, FrameTypes
    DEF DatabaseUnusable, CompleteFullIndex, TypeOK
<1> QED
  BY <1>1, <1>2, <1>4, <1>5, <1>6, <1>7, <1>8, <1>9 DEF Worker

\* The steps of the game thread, the user and the engine keep the types.
LEMMA GameThreadType ==
    IInv /\ (GameThread \/ UserCancels \/ RequestExit) => TypeOK'
<1> SUFFICES ASSUME IInv, GameThread \/ UserCancels \/ RequestExit PROVE TypeOK'
  OBVIOUS
<1>t. /\ GtTypes /\ FlagTypes /\ WorkerTypes /\ TaskTypes /\ EndTypes
      /\ Serving => gtTask \in Passes
  BY DEF IInv, TypeOK, ServingInv
<1>1. ASSUME NEW p \in Passes, TakeTask(p) PROVE TypeOK'
  <2>1. GtTypes'
    BY <1>1, <1>t DEF TakeTask, GtTypes
  <2>2. TaskTypes'
    BY <1>1, <1>t DEF TakeTask, TaskTypes
  <2> QED
    BY <1>1, <1>t, <2>1, <2>2, FrameTypes DEF TakeTask, TypeOK
<1>2. CASE ClaimForExecution
  <2>1. GtTypes'
    BY <1>2, <1>t DEF ClaimForExecution, GtTypes
  <2>2. TaskTypes'
    BY <1>2, <1>t DEF ClaimForExecution, TaskTypes, Serving
  <2> QED
    BY <1>2, <1>t, <2>1, <2>2, FrameTypes DEF ClaimForExecution, TypeOK
<1>3. CASE RunPayload
  <2>1. GtTypes'
    BY <1>3, <1>t DEF RunPayload, GtTypes
  <2>2. TaskTypes'
    BY <1>3, <1>t DEF RunPayload, TaskTypes, Serving
  <2>3. EndTypes'
    <3>1. txFailed' \in BOOLEAN
      BY <1>3, <1>t, Zenon DEF RunPayload, EndTypes
    <3>2. UNCHANGED <<marker, finish, outcome>>
      BY <1>3 DEF RunPayload
    <3> QED
      BY <1>t, <3>1, <3>2 DEF EndTypes
  <2> QED
    BY <1>3, <1>t, <2>1, <2>2, <2>3, FrameTypes DEF RunPayload, TypeOK
<1>4. CASE Trigger
  <2>1. GtTypes'
    BY <1>4, <1>t DEF Trigger, GtTypes
  <2>2. TaskTypes'
    BY <1>4, <1>t DEF Trigger, TaskTypes, Serving
  <2> QED
    BY <1>4, <1>t, <2>1, <2>2, FrameTypes DEF Trigger, TypeOK
<1>5. CASE OnIndexingFinished
  <2>1. EndTypes'
    BY <1>5, <1>t DEF OnIndexingFinished, Report, EndTypes
  <2> QED
    BY <1>5, <1>t, <2>1, FrameTypes DEF OnIndexingFinished, TypeOK
<1>6. CASE DeinitializeIdle
  <2>1. GtTypes'
    BY <1>6, <1>t DEF DeinitializeIdle, GtTypes
  <2> QED
    BY <1>6, <1>t, <2>1, FrameTypes DEF DeinitializeIdle, TypeOK
<1>7. CASE AnnounceJoin \/ RequestStop
  <2>1. GtTypes' /\ FlagTypes'
    BY <1>7, <1>t DEF AnnounceJoin, RequestStop, GtTypes, FlagTypes
  <2> QED
    BY <1>7, <1>t, <2>1, FrameTypes DEF AnnounceJoin, RequestStop, TypeOK
<1>8. CASE WaitForCompletion
  <2>1. GtTypes' /\ EndTypes'
    BY <1>8, <1>t DEF WaitForCompletion, Report, GtTypes, EndTypes
  <2> QED
    BY <1>8, <1>t, <2>1, FrameTypes DEF WaitForCompletion, TypeOK
<1>9. CASE UserCancels \/ RequestExit
  <2>1. FlagTypes'
    BY <1>9, <1>t DEF UserCancels, RequestExit, FlagTypes
  <2> QED
    BY <1>9, <1>t, <2>1, FrameTypes DEF UserCancels, RequestExit, TypeOK
<1> QED
  BY <1>1, <1>2, <1>3, <1>4, <1>5, <1>6, <1>7, <1>8, <1>9 DEF GameThread

\* The invariant without its types.
Parts == WorkerInv /\ ServingInv /\ (\A p \in Passes : EventInv(p)) /\ ProgressInv

\* The steps of the worker keep the invariant.
LEMMA WorkerStep == IInv /\ TypeOK' /\ Worker => Parts'
<1> SUFFICES ASSUME IInv, TypeOK', Worker PROVE Parts'
  OBVIOUS
<1> USE PlanFacts DEF IInv, TypeOK, GtTypes, FlagTypes, WorkerTypes, TaskTypes, EndTypes,
                      gtVars, flagVars, workerVars, taskVars, endVars
<1>1. CASE Dispatch
  <2> USE <1>1 DEF Dispatch, Gate
  <2>1. WorkerInv'
    BY DEF WorkerInv, ServingInv, EventInv, InFlight, Serving, Tickered, Waits, Fresh, Kinds
  <2>2. ServingInv'
    BY DEF WorkerInv, ServingInv, EventInv, InFlight, Serving, Tickered, Waits, Fresh
  <2>3. \A p \in Passes : EventInv(p)'
    BY DEF WorkerInv, ServingInv, EventInv, InFlight, Serving, Tickered, Waits, Fresh
  <2>4. ProgressInv'
    BY DEF WorkerInv, EventInv, ProgressInv, Tickered, Waits, Fresh
  <2> QED
    BY <2>1, <2>2, <2>3, <2>4 DEF Parts
<1>2. CASE Skip
  <2> USE <1>2 DEF Skip, Gate, CheckCancellation
  <2>1. WorkerInv'
    BY DEF WorkerInv, ServingInv, EventInv, InFlight, Serving, Tickered, Waits, Fresh, Kinds
  <2>2. ServingInv'
    BY DEF WorkerInv, ServingInv, EventInv, InFlight, Serving, Tickered, Waits
  <2>3. \A p \in Passes : EventInv(p)'
    BY DEF WorkerInv, ServingInv, EventInv, InFlight, Serving, Tickered, Waits
  <2>4. ProgressInv'
    BY DEF WorkerInv, EventInv, ProgressInv, Tickered, Waits
  <2> QED
    BY <2>1, <2>2, <2>3, <2>4 DEF Parts
<1>3. CASE WaitServed
  <2> USE <1>3 DEF WaitServed, Leave
  <2>1. WorkerInv'
    BY DEF WorkerInv, ServingInv, EventInv, InFlight, Serving, Tickered, Waits, Fresh, Kinds
  <2>2. ServingInv'
    BY DEF WorkerInv, ServingInv, EventInv, InFlight, Serving, Tickered, Waits
  <2>3. \A p \in Passes : EventInv(p)'
    BY DEF WorkerInv, ServingInv, EventInv, InFlight, Serving, Tickered, Waits
  <2>4. ProgressInv'
    BY DEF WorkerInv, EventInv, ProgressInv, Tickered, Waits
  <2> QED
    BY <2>1, <2>2, <2>3, <2>4 DEF Parts
<1>4. CASE SliceExpires
  <2> USE <1>4 DEF SliceExpires
  <2>1. WorkerInv'
    BY DEF WorkerInv, ServingInv, EventInv, InFlight, Serving, Tickered, Waits, Fresh, Kinds
  <2>2. ServingInv'
    BY DEF WorkerInv, ServingInv, EventInv, InFlight, Serving, Tickered, Waits
  <2>3. \A p \in Passes : EventInv(p)'
    BY DEF WorkerInv, ServingInv, EventInv, InFlight, Serving, Tickered, Waits
  <2>4. ProgressInv'
    BY DEF WorkerInv, EventInv, ProgressInv, Tickered, Waits
  <2> QED
    BY <2>1, <2>2, <2>3, <2>4 DEF Parts
<1>5. CASE SliceAgain
  <2> USE <1>5 DEF SliceAgain
  <2>1. WorkerInv'
    BY DEF WorkerInv, ServingInv, EventInv, InFlight, Serving, Tickered, Waits, Fresh, Kinds
  <2>2. ServingInv'
    BY DEF WorkerInv, ServingInv, EventInv, InFlight, Serving, Tickered, Waits
  <2>3. \A p \in Passes : EventInv(p)'
    BY DEF WorkerInv, ServingInv, EventInv, InFlight, Serving, Tickered, Waits
  <2>4. ProgressInv'
    BY DEF WorkerInv, EventInv, ProgressInv, Tickered, Waits
  <2> QED
    BY <2>1, <2>2, <2>3, <2>4 DEF Parts
<1>6. CASE AbandonScan
  <2> USE <1>6 DEF AbandonScan
  <2>1. WorkerInv'
    BY DEF WorkerInv, ServingInv, EventInv, InFlight, Serving, Tickered, Waits, Fresh, Kinds
  <2>2. ServingInv'
    BY DEF WorkerInv, ServingInv, EventInv, InFlight, Serving, Tickered, Waits
  <2>3. \A p \in Passes : EventInv(p)'
    BY DEF WorkerInv, ServingInv, EventInv, InFlight, Serving, Tickered, Waits
  <2>4. ProgressInv'
    BY DEF WorkerInv, EventInv, ProgressInv, Tickered, Waits
  <2> QED
    BY <2>1, <2>2, <2>3, <2>4 DEF Parts
<1>7. CASE AbandonCollection
  <2> USE <1>7 DEF AbandonCollection, Leave
  <2>1. WorkerInv'
    BY DEF WorkerInv, ServingInv, EventInv, InFlight, Serving, Tickered, Waits, Fresh, Kinds
  <2>2. ServingInv'
    BY DEF WorkerInv, ServingInv, EventInv, InFlight, Serving, Tickered, Waits
  <2>3. \A p \in Passes : EventInv(p)'
    BY DEF WorkerInv, ServingInv, EventInv, InFlight, Serving, Tickered, Waits
  <2>4. ProgressInv'
    BY DEF WorkerInv, EventInv, ProgressInv, Tickered, Waits
  <2> QED
    BY <2>1, <2>2, <2>3, <2>4 DEF Parts
<1>8. CASE AbandonDispatch
  <2> USE <1>8 DEF AbandonDispatch, MayAbandon
  <2>1. WorkerInv'
    BY DEF WorkerInv, ServingInv, EventInv, InFlight, Serving, Tickered, Waits, Fresh, Kinds
  <2>2. ServingInv'
    BY DEF WorkerInv, ServingInv, EventInv, InFlight, Serving, Tickered, Waits
  <2>3. \A p \in Passes : EventInv(p)'
    BY DEF WorkerInv, ServingInv, EventInv, InFlight, Serving, Tickered, Waits
  <2>4. ProgressInv'
    BY DEF WorkerInv, EventInv, ProgressInv, Tickered, Waits
  <2> QED
    BY <2>1, <2>2, <2>3, <2>4 DEF Parts
<1>9. CASE AbortIfUnclaimed
  <2> USE <1>9 DEF AbortIfUnclaimed, Leave
  <2>1. WorkerInv'
    BY DEF WorkerInv, ServingInv, EventInv, InFlight, Serving, Tickered, Waits, Fresh, Kinds
  <2>2. ServingInv'
    BY DEF WorkerInv, ServingInv, EventInv, InFlight, Serving, Tickered, Waits
  <2>3. \A p \in Passes : EventInv(p)'
    BY DEF WorkerInv, ServingInv, EventInv, InFlight, Serving, Tickered, Waits
  <2>4. ProgressInv'
    BY DEF WorkerInv, EventInv, ProgressInv, Tickered, Waits
  <2> QED
    BY <2>1, <2>2, <2>3, <2>4 DEF Parts
<1>10. CASE AbortLost
  <2> USE <1>10 DEF AbortLost
  <2>1. WorkerInv'
    BY DEF WorkerInv, ServingInv, EventInv, InFlight, Serving, Tickered, Waits, Fresh, Kinds
  <2>2. ServingInv'
    BY DEF WorkerInv, ServingInv, EventInv, InFlight, Serving, Tickered, Waits
  <2>3. \A p \in Passes : EventInv(p)'
    BY DEF WorkerInv, ServingInv, EventInv, InFlight, Serving, Tickered, Waits
  <2>4. ProgressInv'
    BY DEF WorkerInv, EventInv, ProgressInv, Tickered, Waits
  <2> QED
    BY <2>1, <2>2, <2>3, <2>4 DEF Parts
<1>11. CASE MandatoryWait
  <2> USE <1>11 DEF MandatoryWait, Leave
  <2>1. WorkerInv'
    BY DEF WorkerInv, ServingInv, EventInv, InFlight, Serving, Tickered, Waits, Fresh, Kinds
  <2>2. ServingInv'
    BY DEF WorkerInv, ServingInv, EventInv, InFlight, Serving, Tickered, Waits
  <2>3. \A p \in Passes : EventInv(p)'
    BY DEF WorkerInv, ServingInv, EventInv, InFlight, Serving, Tickered, Waits
  <2>4. ProgressInv'
    BY DEF WorkerInv, EventInv, ProgressInv, Tickered, Waits
  <2> QED
    BY <2>1, <2>2, <2>3, <2>4 DEF Parts
<1>12. CASE DatabaseUnusable
  <2> USE <1>12 DEF DatabaseUnusable
  <2>1. WorkerInv'
    BY DEF WorkerInv, ServingInv, EventInv, InFlight, Serving, Tickered, Waits, Fresh, Kinds
  <2>2. ServingInv'
    BY DEF WorkerInv, ServingInv, EventInv, InFlight, Serving, Tickered, Waits
  <2>3. \A p \in Passes : EventInv(p)'
    BY DEF WorkerInv, ServingInv, EventInv, InFlight, Serving, Tickered, Waits
  <2>4. ProgressInv'
    BY DEF WorkerInv, EventInv, ProgressInv, Tickered, Waits
  <2> QED
    BY <2>1, <2>2, <2>3, <2>4 DEF Parts
<1>13. CASE CompleteFullIndex
  <2> USE <1>13 DEF CompleteFullIndex
  <2>1. WorkerInv'
    BY DEF WorkerInv, ServingInv, EventInv, InFlight, Serving, Tickered, Waits, Fresh, Kinds
  <2>2. ServingInv'
    BY DEF WorkerInv, ServingInv, EventInv, InFlight, Serving, Tickered, Waits
  <2>3. \A p \in Passes : EventInv(p)'
    BY DEF WorkerInv, ServingInv, EventInv, InFlight, Serving, Tickered, Waits
  <2>4. ProgressInv'
    <3>1. PICK written \in BOOLEAN : marker' = (~stop /\ ~txFailed /\ written)
      OBVIOUS
    <3>2. marker' => ~stop /\ ~txFailed
      BY <3>1, Zenon
    <3>3. \A p \in Tickered : p < cur /\ (p \in ran \/ stop \/ txFailed)
      BY DEF ProgressInv, Tickered
    <3>4. (marker' => Tickered \subseteq ran) /\ UNCHANGED <<cur, ran, stop, txFailed, outcome>>
      BY <3>2, <3>3
    <3>5. finish' = "success" => marker'
      OBVIOUS
    <3>6. outcome = "running"
      BY DEF ProgressInv
    <3> QED
      BY <3>3, <3>4, <3>5, <3>6 DEF ProgressInv, Tickered
  <2> QED
    BY <2>1, <2>2, <2>3, <2>4 DEF Parts
<1> QED
  BY <1>1, <1>2, <1>3, <1>4, <1>5, <1>6, <1>7, <1>8, <1>9, <1>10, <1>11, <1>12, <1>13 DEF Worker

\* The steps of the game thread, the user and the engine keep the invariant.
LEMMA GameThreadStep == IInv /\ TypeOK' /\ (GameThread \/ UserCancels \/ RequestExit) => Parts'
<1> SUFFICES ASSUME IInv, TypeOK', (GameThread \/ UserCancels \/ RequestExit) PROVE Parts'
  OBVIOUS
<1> USE PlanFacts DEF IInv, TypeOK, GtTypes, FlagTypes, WorkerTypes, TaskTypes, EndTypes,
                      gtVars, flagVars, workerVars, taskVars, endVars
<1>1. CASE ClaimForExecution
  <2> USE <1>1 DEF ClaimForExecution
  <2>1. WorkerInv'
    BY DEF WorkerInv, ServingInv, EventInv, InFlight, Serving, Tickered, Waits, Fresh, Kinds
  <2>2. ServingInv'
    BY DEF WorkerInv, ServingInv, EventInv, InFlight, Serving, Tickered, Waits
  <2>3. \A p \in Passes : EventInv(p)'
    BY DEF WorkerInv, ServingInv, EventInv, InFlight, Serving, Tickered, Waits
  <2>4. ProgressInv'
    BY DEF WorkerInv, EventInv, ProgressInv, Tickered, Waits
  <2> QED
    BY <2>1, <2>2, <2>3, <2>4 DEF Parts
<1>2. CASE RunPayload
  <2> USE <1>2 DEF RunPayload
  <2>1. WorkerInv'
    BY DEF WorkerInv, ServingInv, EventInv, InFlight, Serving, Tickered, Waits, Fresh, Kinds
  <2>2. ServingInv'
    BY DEF WorkerInv, ServingInv, EventInv, InFlight, Serving, Tickered, Waits
  <2>3. \A p \in Passes : EventInv(p)'
    BY DEF WorkerInv, ServingInv, EventInv, InFlight, Serving, Tickered, Waits
  <2>4. ProgressInv'
    BY DEF WorkerInv, EventInv, ProgressInv, Tickered, Waits
  <2> QED
    BY <2>1, <2>2, <2>3, <2>4 DEF Parts
<1>3. CASE Trigger
  <2> USE <1>3 DEF Trigger
  <2>1. WorkerInv'
    BY DEF WorkerInv, ServingInv, EventInv, InFlight, Serving, Tickered, Waits, Fresh, Kinds
  <2>2. ServingInv'
    BY DEF WorkerInv, ServingInv, EventInv, InFlight, Serving, Tickered, Waits
  <2>3. \A p \in Passes : EventInv(p)'
    BY DEF WorkerInv, ServingInv, EventInv, InFlight, Serving, Tickered, Waits
  <2>4. ProgressInv'
    BY DEF WorkerInv, EventInv, ProgressInv, Tickered, Waits
  <2> QED
    BY <2>1, <2>2, <2>3, <2>4 DEF Parts
<1>4. CASE OnIndexingFinished
  <2> USE <1>4 DEF OnIndexingFinished, Report
  <2>1. WorkerInv'
    BY DEF WorkerInv, ServingInv, EventInv, InFlight, Serving, Tickered, Waits, Fresh, Kinds
  <2>2. ServingInv'
    BY DEF WorkerInv, ServingInv, EventInv, InFlight, Serving, Tickered, Waits
  <2>3. \A p \in Passes : EventInv(p)'
    BY DEF WorkerInv, ServingInv, EventInv, InFlight, Serving, Tickered, Waits
  <2>4. ProgressInv'
    BY DEF WorkerInv, EventInv, ProgressInv, Tickered, Waits
  <2> QED
    BY <2>1, <2>2, <2>3, <2>4 DEF Parts
<1>5. CASE DeinitializeIdle
  <2> USE <1>5 DEF DeinitializeIdle
  <2>1. WorkerInv'
    BY DEF WorkerInv, ServingInv, EventInv, InFlight, Serving, Tickered, Waits, Fresh, Kinds
  <2>2. ServingInv'
    BY DEF WorkerInv, ServingInv, EventInv, InFlight, Serving, Tickered, Waits
  <2>3. \A p \in Passes : EventInv(p)'
    BY DEF WorkerInv, ServingInv, EventInv, InFlight, Serving, Tickered, Waits
  <2>4. ProgressInv'
    BY DEF WorkerInv, EventInv, ProgressInv, Tickered, Waits
  <2> QED
    BY <2>1, <2>2, <2>3, <2>4 DEF Parts
<1>6. CASE AnnounceJoin
  <2> USE <1>6 DEF AnnounceJoin
  <2>1. WorkerInv'
    BY DEF WorkerInv, ServingInv, EventInv, InFlight, Serving, Tickered, Waits, Fresh, Kinds
  <2>2. ServingInv'
    BY DEF WorkerInv, ServingInv, EventInv, InFlight, Serving, Tickered, Waits
  <2>3. \A p \in Passes : EventInv(p)'
    BY DEF WorkerInv, ServingInv, EventInv, InFlight, Serving, Tickered, Waits
  <2>4. ProgressInv'
    BY DEF WorkerInv, EventInv, ProgressInv, Tickered, Waits
  <2> QED
    BY <2>1, <2>2, <2>3, <2>4 DEF Parts
<1>7. CASE RequestStop
  <2> USE <1>7 DEF RequestStop
  <2>1. WorkerInv'
    BY DEF WorkerInv, ServingInv, EventInv, InFlight, Serving, Tickered, Waits, Fresh, Kinds
  <2>2. ServingInv'
    BY DEF WorkerInv, ServingInv, EventInv, InFlight, Serving, Tickered, Waits
  <2>3. \A p \in Passes : EventInv(p)'
    BY DEF WorkerInv, ServingInv, EventInv, InFlight, Serving, Tickered, Waits
  <2>4. ProgressInv'
    BY DEF WorkerInv, EventInv, ProgressInv, Tickered, Waits
  <2> QED
    BY <2>1, <2>2, <2>3, <2>4 DEF Parts
<1>8. CASE WaitForCompletion
  <2> USE <1>8 DEF WaitForCompletion, Report
  <2>1. WorkerInv'
    BY DEF WorkerInv, ServingInv, EventInv, InFlight, Serving, Tickered, Waits, Fresh, Kinds
  <2>2. ServingInv'
    BY DEF WorkerInv, ServingInv, EventInv, InFlight, Serving, Tickered, Waits
  <2>3. \A p \in Passes : EventInv(p)'
    BY DEF WorkerInv, ServingInv, EventInv, InFlight, Serving, Tickered, Waits
  <2>4. ProgressInv'
    BY DEF WorkerInv, EventInv, ProgressInv, Tickered, Waits
  <2> QED
    BY <2>1, <2>2, <2>3, <2>4 DEF Parts
<1>9. ASSUME NEW q \in Passes, TakeTask(q) PROVE Parts'
  <2> USE <1>9 DEF TakeTask
  <2>1. WorkerInv'
    BY DEF WorkerInv, ServingInv, EventInv, InFlight, Serving, Tickered, Waits, Fresh, Kinds
  <2>2. ServingInv'
    BY DEF WorkerInv, ServingInv, EventInv, InFlight, Serving, Tickered, Waits
  <2>3. \A p \in Passes : EventInv(p)'
    BY DEF WorkerInv, ServingInv, EventInv, InFlight, Serving, Tickered, Waits
  <2>4. ProgressInv'
    BY DEF WorkerInv, EventInv, ProgressInv, Tickered, Waits
  <2> QED
    BY <2>1, <2>2, <2>3, <2>4 DEF Parts
<1>10. CASE UserCancels
  <2> USE <1>10 DEF UserCancels
  <2>1. WorkerInv'
    BY DEF WorkerInv, ServingInv, EventInv, InFlight, Serving, Tickered, Waits, Fresh, Kinds
  <2>2. ServingInv'
    BY DEF WorkerInv, ServingInv, EventInv, InFlight, Serving, Tickered, Waits
  <2>3. \A p \in Passes : EventInv(p)'
    BY DEF WorkerInv, ServingInv, EventInv, InFlight, Serving, Tickered, Waits
  <2>4. ProgressInv'
    BY DEF WorkerInv, EventInv, ProgressInv, Tickered, Waits
  <2> QED
    BY <2>1, <2>2, <2>3, <2>4 DEF Parts
<1>11. CASE RequestExit
  <2> USE <1>11 DEF RequestExit
  <2>1. WorkerInv'
    BY DEF WorkerInv, ServingInv, EventInv, InFlight, Serving, Tickered, Waits, Fresh, Kinds
  <2>2. ServingInv'
    BY DEF WorkerInv, ServingInv, EventInv, InFlight, Serving, Tickered, Waits
  <2>3. \A p \in Passes : EventInv(p)'
    BY DEF WorkerInv, ServingInv, EventInv, InFlight, Serving, Tickered, Waits
  <2>4. ProgressInv'
    BY DEF WorkerInv, EventInv, ProgressInv, Tickered, Waits
  <2> QED
    BY <2>1, <2>2, <2>3, <2>4 DEF Parts
<1> QED
  BY <1>1, <1>2, <1>3, <1>4, <1>5, <1>6, <1>7, <1>8, <1>9, <1>10, <1>11 DEF GameThread

\* A step that changes nothing keeps the invariant.
LEMMA StutterStep == IInv /\ UNCHANGED vars => IInv'
<1> SUFFICES ASSUME IInv, UNCHANGED vars PROVE IInv'
  OBVIOUS
<1> USE DEF vars, gtVars, flagVars, workerVars, taskVars, endVars
<1>1. TypeOK'
  BY FrameTypes DEF IInv, TypeOK
<1>2. WorkerInv' /\ ServingInv'
  BY DEF IInv, WorkerInv, ServingInv, Fresh, InFlight, Serving
<1>3. \A p \in Passes : EventInv(p)'
  BY DEF IInv, EventInv, InFlight, Serving
<1>4. ProgressInv'
  BY DEF IInv, ProgressInv
<1> QED
  BY <1>1, <1>2, <1>3, <1>4 DEF IInv

-----------------------------------------------------------------------------

\* Every reachable state satisfies the inductive invariant.
THEOREM Invariance == Spec => []IInv
<1>1. IInv /\ [Next]_vars => IInv'
  <2>1. IInv /\ Next => TypeOK'
    BY WorkerType, GameThreadType DEF Next
  <2>2. IInv /\ Next => Parts'
    BY <2>1, WorkerStep, GameThreadStep DEF Next
  <2> QED
    BY <2>1, <2>2, StutterStep DEF IInv, Parts
<1> QED
  BY <1>1, InitInv, PTL DEF Spec

\* Every variable has its type, for every plan.
THEOREM TypeCorrect == Spec => []TypeOK
<1>1. IInv => TypeOK
  BY DEF IInv
<1> QED
  BY <1>1, Invariance, PTL

\* No payload runs against a frame the worker has left, for every plan.
THEOREM FrameTheorem == Spec => []PayloadNeedsFrame
<1>1. IInv => PayloadNeedsFrame
  <2> SUFFICES ASSUME IInv, gtPc = "payload", gtTask \in Tickered
               PROVE  cur = gtTask /\ wpc \in Waits
    BY DEF PayloadNeedsFrame
  <2>1. gtTask \in Passes /\ token[gtTask] = "claimed"
    BY DEF IInv, ServingInv, Serving
  <2>2. event[gtTask] \in {"held", "leaked"}
    BY <2>1 DEF IInv, EventInv, InFlight, Serving
  <2>3. event[gtTask] # "leaked"
    BY <2>1 DEF IInv, EventInv
  <2> QED
    BY <2>1, <2>2, <2>3 DEF IInv, EventInv
<1> QED
  BY <1>1, Invariance, PTL

\* No event the game thread may trigger is back in the pool, for every plan.
THEOREM PoolTheorem == Spec => []NoTriggerOnPooledEvent
<1>1. IInv => NoTriggerOnPooledEvent
  BY DEF IInv, EventInv, InFlight, Serving, NoTriggerOnPooledEvent
<1> QED
  BY <1>1, Invariance, PTL

\* A completed run has run every payload, for every plan.
THEOREM CompletionTheorem == Spec => []CompleteMeansEveryPassRan
<1>1. IInv => CompleteMeansEveryPassRan
  BY DEF IInv, ProgressInv, CompleteMeansEveryPassRan
<1> QED
  BY <1>1, Invariance, PTL

-----------------------------------------------------------------------------
(* The sequential run.  What the invariant above leaves open is that no      *)
(* payload runs twice, and that the mark is the last thing a run writes.     *)

OnceInv ==
    /\ \A p \in ran : p \notin pending /\ ~(gtTask = p /\ gtPc \in {"claim", "payload"})
                        /\ event[p] # "none"
    /\ marker => wpc = "done"

\* No payload is run twice, and a marked run has ended.
THEOREM OnceTheorem == Spec => []OnceInv
<1>1. Init => OnceInv
  BY DEF Init, OnceInv
<1>2. ASSUME IInv, OnceInv, [Next]_vars PROVE OnceInv'
  <2> USE <1>2 DEF OnceInv, IInv, TypeOK, GtTypes, WorkerTypes, TaskTypes, gtVars, flagVars,
                   workerVars, taskVars, endVars
  <2>1. ASSUME Worker PROVE OnceInv'
    <3>1. CASE Dispatch
      <4>1. cur \notin ran
        BY <3>1 DEF Dispatch, WorkerInv, Fresh
      <4> QED
        BY <3>1, <4>1 DEF Dispatch
    <3>2. CASE Skip \/ SliceExpires \/ SliceAgain \/ AbandonDispatch \/ AbortLost
      BY <3>2 DEF Skip, SliceExpires, SliceAgain, AbandonDispatch, AbortLost
    <3>3. CASE WaitServed \/ MandatoryWait \/ AbandonCollection \/ AbortIfUnclaimed
      BY <3>3 DEF WaitServed, MandatoryWait, AbandonCollection, AbortIfUnclaimed, Leave
    <3>4. CASE AbandonScan \/ DatabaseUnusable \/ CompleteFullIndex
      BY <3>4 DEF AbandonScan, DatabaseUnusable, CompleteFullIndex
    <3> QED
      BY <2>1, <3>1, <3>2, <3>3, <3>4 DEF Worker
  <2>2. ASSUME GameThread PROVE OnceInv'
    <3>1. ASSUME NEW p \in Passes, TakeTask(p) PROVE OnceInv'
      BY <3>1 DEF TakeTask
    <3>2. CASE ClaimForExecution
      BY <3>2 DEF ClaimForExecution
    <3>3. CASE RunPayload
      <4>1. gtTask \in Passes /\ gtTask \notin pending /\ event[gtTask] \in {"held", "leaked"}
        BY <3>3 DEF RunPayload, ServingInv, Serving, EventInv, InFlight
      <4> QED
        BY <3>3, <4>1 DEF RunPayload
    <3>4. CASE Trigger \/ OnIndexingFinished \/ DeinitializeIdle \/ AnnounceJoin
               \/ RequestStop \/ WaitForCompletion
      BY <3>4 DEF Trigger, OnIndexingFinished, DeinitializeIdle, AnnounceJoin,
                  RequestStop, WaitForCompletion, Serving
    <3> QED
      BY <2>2, <3>1, <3>2, <3>3, <3>4 DEF GameThread
  <2>3. ASSUME UserCancels \/ RequestExit \/ UNCHANGED vars PROVE OnceInv'
    BY <2>3 DEF UserCancels, RequestExit, vars
  <2> QED
    BY <2>1, <2>2, <2>3 DEF Next
<1> QED
  BY <1>1, <1>2, Invariance, PTL DEF Spec

\* Nothing has been made, nothing has been said.
LEMMA InitRefines == Init => Run!Start
  BY DEF Init, Run!Start

\* The worker leaves a pass that it has not run only in a run that is broken.
LEMMA LeftBehind ==
    ASSUME IInv, WaitServed \/ MandatoryWait \/ AbandonCollection \/ AbortIfUnclaimed \/ Skip
    PROVE  /\ wpc # "done" /\ cur \in Passes
           /\ cur \in Tickered \ ran => stop' \/ txFailed'
           /\ cur' = cur + 1
           /\ stop' \in {stop, TRUE}
           /\ UNCHANGED <<wpc = "done", ran, txFailed, marker, outcome>>
<1>p. cur \in Passes => EventInv(cur)
  BY DEF IInv
<1>b. stop \in BOOLEAN /\ cancel \in BOOLEAN
  BY DEF IInv, TypeOK, FlagTypes
<1>1. CASE WaitServed
  <2>1. cur \in Passes /\ event[cur] = "held"
    BY <1>1 DEF WaitServed, Waits, IInv, WorkerInv
  <2>2. cur \in ran
    BY <1>1, <1>p, <2>1 DEF WaitServed, EventInv
  <2> QED
    BY <1>1, <2>1, <2>2 DEF WaitServed, Leave, flagVars, endVars
<1>2. CASE MandatoryWait \/ AbortIfUnclaimed
  <2>1. cur \in Passes /\ stop
    BY <1>2 DEF MandatoryWait, AbortIfUnclaimed, Waits, IInv, WorkerInv
  <2> QED
    BY <1>2, <2>1 DEF MandatoryWait, AbortIfUnclaimed, Leave, flagVars, endVars
<1>3. CASE AbandonCollection
  <2>1. cur \in Passes /\ cur \notin Tickered
    BY <1>3 DEF AbandonCollection, Waits, IInv, WorkerInv, Tickered
  <2> QED
    BY <1>3, <2>1 DEF AbandonCollection, Leave, flagVars, endVars
<1>4. CASE Skip
  <2>1. cur \in Tickered => stop' \/ txFailed
    BY <1>4 DEF Skip, Gate, CheckCancellation
  <2>2. stop' \in {stop, TRUE}
    BY <1>4, <1>b DEF Skip
  <2> QED
    BY <1>4, <2>1, <2>2 DEF Skip, taskVars, endVars
<1> QED
  BY <1>1, <1>2, <1>3, <1>4

\* Every step is a step of the sequential run, or one its caller does not see.
LEMMA StepRefines ==
    IInv /\ OnceInv /\ [Next]_vars =>
        [Run!RunNext]_<<cur, ran \cap Tickered, stop \/ txFailed, wpc = "done", marker, outcome>>
<1> DEFINE seen == <<cur, ran \cap Tickered, stop \/ txFailed, wpc = "done", marker, outcome>>
<1> SUFFICES ASSUME IInv, OnceInv, [Next]_vars PROVE Run!RunNext \/ UNCHANGED seen
  OBVIOUS
<1>t. /\ stop \in BOOLEAN /\ txFailed \in BOOLEAN /\ marker \in BOOLEAN
      /\ stop' \in BOOLEAN /\ txFailed' \in BOOLEAN
  <2>1. TypeOK'
    BY WorkerType, GameThreadType, StutterStep DEF Next, IInv
  <2> QED
    BY <2>1 DEF IInv, TypeOK, FlagTypes, EndTypes
<1>1. CASE WaitServed \/ MandatoryWait \/ AbandonCollection \/ AbortIfUnclaimed \/ Skip
  <2>0. cur \in Passes
    BY <1>1, LeftBehind
  <2>1. cur <= Len(Plan)
    BY <2>0, PlanFacts
  <2>2. cur \in Tickered \ (ran \cap Tickered) => stop' \/ txFailed'
    BY <1>1, LeftBehind
  <2>3. (stop' \/ txFailed') \in {stop \/ txFailed, TRUE}
    BY <1>1, <1>t, LeftBehind
  <2>4. ~(wpc = "done") /\ cur' = cur + 1
        /\ UNCHANGED <<ran \cap Tickered, wpc = "done", marker, outcome>>
    BY <1>1, LeftBehind
  <2>5. Run!MoveOn
    BY <2>1, <2>2, <2>3, <2>4 DEF Run!MoveOn
  <2> QED
    BY <2>5 DEF Run!RunNext
<1>2. CASE Dispatch \/ SliceExpires \/ SliceAgain \/ AbandonDispatch \/ AbortLost
  <2>1. UNCHANGED seen
    BY <1>2 DEF Dispatch, SliceExpires, SliceAgain, AbandonDispatch, AbortLost,
                flagVars, taskVars, endVars
  <2> QED
    BY <2>1
<1>3. CASE AbandonScan \/ DatabaseUnusable
  <2>1. wpc # "done" /\ wpc' = "done" /\ UNCHANGED <<cur, ran, stop, txFailed, marker, outcome>>
    BY <1>3 DEF AbandonScan, DatabaseUnusable, flagVars, taskVars, endVars
  <2>2. marker' = FALSE
    BY <1>t, <2>1 DEF OnceInv
  <2>3. Run!End
    BY <2>1, <2>2 DEF Run!End
  <2> QED
    BY <2>3 DEF Run!RunNext
<1>4. CASE CompleteFullIndex
  <2>1. wpc # "done" /\ wpc' = "done" /\ cur > Len(Plan)
        /\ UNCHANGED <<cur, ran, stop, txFailed, outcome>>
    BY <1>4, PlanFacts DEF CompleteFullIndex, flagVars, taskVars
  <2>2. PICK written \in BOOLEAN : marker' = (~stop /\ ~txFailed /\ written)
    BY <1>4 DEF CompleteFullIndex
  <2>3. marker' \in {FALSE, cur > Len(Plan) /\ ~(stop \/ txFailed)}
    BY <2>1, <2>2, <1>t
  <2>4. Run!End
    BY <2>1, <2>3 DEF Run!End
  <2> QED
    BY <2>4 DEF Run!RunNext
<1>5. CASE RunPayload
  <2>1. UNCHANGED <<cur, wpc, stop, marker, outcome>> /\ ran' = ran \cup {gtTask}
        /\ txFailed' \in {txFailed, txFailed \/ gtTask \in Tickered}
    BY <1>5 DEF RunPayload, workerVars, flagVars
  <2>2. CASE gtTask \in Tickered
    <3>1. gtTask \notin ran
      BY <1>5 DEF OnceInv, RunPayload
    <3>2. cur = gtTask /\ wpc # "done"
      <4>1. gtTask \in Passes /\ token[gtTask] = "claimed"
        BY <1>5, <2>2 DEF RunPayload, IInv, ServingInv, Tickered
      <4>2. event[gtTask] \in {"held", "leaked"} /\ event[gtTask] # "leaked"
        BY <1>5, <2>2, <4>1 DEF RunPayload, IInv, EventInv, InFlight, Serving
      <4> QED
        BY <4>1, <4>2 DEF IInv, EventInv, Waits
    <3>3. (stop' \/ txFailed') \in {stop \/ txFailed, TRUE}
      BY <1>t, <2>1
    <3>4. ran' \cap Tickered = (ran \cap Tickered) \cup {cur}
      BY <2>1, <2>2, <3>2
    <3>5. Run!Make
      BY <2>1, <2>2, <3>1, <3>2, <3>3, <3>4 DEF Run!Make
    <3> QED
      BY <3>5 DEF Run!RunNext
  <2>3. CASE gtTask \notin Tickered
    <3>1. txFailed' = txFailed
      BY <1>t, <2>1, <2>3
    <3>2. ran' \cap Tickered = ran \cap Tickered
      BY <2>1, <2>3
    <3> QED
      BY <2>1, <3>1, <3>2
  <2> QED
    BY <2>2, <2>3
<1>6. CASE RequestStop
  <2>1. Run!Break
    BY <1>6 DEF RequestStop, Run!Break, workerVars, taskVars, endVars
  <2> QED
    BY <2>1 DEF Run!RunNext
<1>7. ASSUME NEW result \in {"success", "failure"}, Report(result), wpc = "done",
             result = "success" => marker,
             UNCHANGED <<flagVars, workerVars, taskVars, txFailed, marker>>
      PROVE  Run!RunNext \/ UNCHANGED seen
  <2>1. UNCHANGED <<cur, ran, stop, txFailed, wpc, marker>>
    BY <1>7 DEF flagVars, workerVars, taskVars
  <2>2. CASE outcome = "running"
    <3>1. outcome' = result
      BY <1>7, <2>2 DEF Report
    <3>2. Run!Answer
      BY <1>7, <2>1, <2>2, <3>1 DEF Run!Answer
    <3> QED
      BY <3>2 DEF Run!RunNext
  <2>3. CASE outcome # "running"
    BY <1>7, <2>1, <2>3 DEF Report
  <2> QED
    BY <2>2, <2>3
<1>8. CASE OnIndexingFinished
  <2>1. finish = "success" => marker
    BY DEF IInv, ProgressInv
  <2> QED
    BY <1>7, <1>8, <2>1 DEF OnIndexingFinished
<1>9. CASE WaitForCompletion
  BY <1>7, <1>9 DEF WaitForCompletion
<1>10. ASSUME \/ \E p \in Passes : TakeTask(p)
              \/ ClaimForExecution \/ Trigger \/ DeinitializeIdle \/ AnnounceJoin
              \/ UserCancels \/ RequestExit \/ UNCHANGED vars
       PROVE  UNCHANGED seen
  BY <1>10 DEF TakeTask, ClaimForExecution, Trigger, DeinitializeIdle, AnnounceJoin, UserCancels,
               RequestExit, vars, gtVars, flagVars, workerVars, taskVars, endVars
<1> QED
  BY <1>1, <1>2, <1>3, <1>4, <1>5, <1>6, <1>8, <1>9, <1>10 DEF Next, Worker, GameThread

\* However its passes are dispatched, abandoned, withdrawn and served, a run is a
\* sequential run: each pass that writes is made in its turn, at most once and
\* never after the end, and none is missing from a run marked complete.
THEOREM Refinement == Spec => ImplementsSequentialRun
<1> QED
  BY InitRefines, StepRefines, Invariance, OnceTheorem, PTL
     DEF Spec, ImplementsSequentialRun, Run!RunSpec, Run!runVars

-----------------------------------------------------------------------------
(* The join.  That Deinitialize returns is a liveness property, checked by   *)
(* TLC; what it rests on is safety: a worker that is joined can always take  *)
(* a step, but for the bare wait, and every step brings it nearer the end.   *)

\* The joining thread has announced itself, and has left no payload half-way.
JoinInv ==
    /\ gtPc \in {"stop", "join"} => joining
    /\ gtPc = "join" => stop
    /\ wpc = "mustWait" => token[cur] = "claimed"
    /\ \A p \in Passes : token[p] = "claimed" =>
          p \in signalled \/ (gtTask = p /\ gtPc \in {"payload", "trigger"})

\* The guards of the worker, by the place where it is.
WorkerCanStep ==
    \/ wpc = "next" /\ (cur \in Passes \/ cur = Len(Plan) + 1)
    \/ wpc = "wait" /\ (cur \in signalled \/ Plan[cur] # "bare")
    \/ wpc = "slice" /\ MayAbandon /\ Plan[cur] \in {"scan", "gc", "finalGc", "sentinel"}
    \/ wpc = "withdraw" /\ token[cur] \in {"unclaimed", "claimed"}
    \/ wpc = "mustWait" /\ cur \in signalled

JoinIsNotStuck == gtPc = "join" => wpc = "done" \/ HungOnBareWait \/ WorkerCanStep

\* How many steps the worker may still take while it is joined.
Left(place) ==
    CASE place = "next"     -> 5
      [] place = "wait"     -> 4
      [] place = "slice"    -> 3
      [] place = "withdraw" -> 2
      [] place = "mustWait" -> 1
      [] place = "done"     -> 0

StepsLeft == 5 * (Len(Plan) + 1 - cur) + Left(wpc)

JoinDescends ==
    /\ StepsLeft \in Nat
    /\ gtPc = "join" /\ (wpc' # wpc \/ cur' # cur) => StepsLeft' < StepsLeft

\* What Left says, place by place.
LEMMA LeftFacts ==
    /\ Left("next") = 5 /\ Left("wait") = 4 /\ Left("slice") = 3
    /\ Left("withdraw") = 2 /\ Left("mustWait") = 1 /\ Left("done") = 0
  BY DEF Left

\* What a joined worker waits for was served before the join began.
THEOREM JoinInvTheorem == Spec => []JoinInv
<1>1. Init => JoinInv
  BY DEF Init, JoinInv
<1>2. ASSUME IInv, JoinInv, [Next]_vars PROVE JoinInv'
  <2> USE <1>2 DEF JoinInv, IInv, TypeOK, GtTypes, WorkerTypes, TaskTypes, gtVars, flagVars,
                   workerVars, taskVars, endVars
  <2>1. ASSUME Worker PROVE JoinInv'
    <3>1. CASE Dispatch \/ SliceExpires \/ SliceAgain \/ AbandonDispatch
      BY <3>1 DEF Dispatch, SliceExpires, SliceAgain, AbandonDispatch
    <3>2. CASE Skip
      BY <3>2 DEF Skip
    <3>3. CASE WaitServed \/ MandatoryWait \/ AbandonCollection
      BY <3>3 DEF WaitServed, MandatoryWait, AbandonCollection, Leave
    <3>4. CASE AbortIfUnclaimed
      BY <3>4 DEF AbortIfUnclaimed, Leave
    <3>5. CASE AbortLost
      BY <3>5 DEF AbortLost
    <3>6. CASE AbandonScan \/ DatabaseUnusable \/ CompleteFullIndex
      BY <3>6 DEF AbandonScan, DatabaseUnusable, CompleteFullIndex
    <3> QED
      BY <2>1, <3>1, <3>2, <3>3, <3>4, <3>5, <3>6 DEF Worker
  <2>2. ASSUME GameThread PROVE JoinInv'
    <3>1. ASSUME NEW p \in Passes, TakeTask(p) PROVE JoinInv'
      BY <3>1 DEF TakeTask
    <3>2. CASE ClaimForExecution
      <4>1. gtTask \in Passes
        BY <3>2 DEF ClaimForExecution, ServingInv, Serving
      <4> QED
        BY <3>2, <4>1 DEF ClaimForExecution
    <3>3. CASE RunPayload \/ Trigger
      BY <3>3 DEF RunPayload, Trigger
    <3>4. CASE OnIndexingFinished \/ DeinitializeIdle \/ AnnounceJoin
               \/ RequestStop \/ WaitForCompletion
      BY <3>4 DEF OnIndexingFinished, DeinitializeIdle, AnnounceJoin, RequestStop,
                  WaitForCompletion
    <3> QED
      BY <2>2, <3>1, <3>2, <3>3, <3>4 DEF GameThread
  <2>3. ASSUME UserCancels \/ RequestExit \/ UNCHANGED vars PROVE JoinInv'
    BY <2>3 DEF UserCancels, RequestExit, vars
  <2> QED
    BY <2>1, <2>2, <2>3 DEF Next
<1> QED
  BY <1>1, <1>2, Invariance, PTL DEF Spec

\* While Deinitialize joins the worker, the bare wait of a pass nobody will serve
\* is the only place where the worker cannot go on, for every plan.
THEOREM JoinTheorem == Spec => []JoinIsNotStuck
<1>1. IInv /\ JoinInv => JoinIsNotStuck
  <2> SUFFICES ASSUME IInv, JoinInv, gtPc = "join", wpc # "done", ~HungOnBareWait
               PROVE  WorkerCanStep
    BY DEF JoinIsNotStuck
  <2>1. wpc \in {"next", "wait", "slice", "withdraw", "mustWait"}
    BY DEF IInv, TypeOK, WorkerTypes, Waits
  <2>2. CASE wpc = "next"
    BY <2>2, PlanFacts DEF IInv, TypeOK, WorkerTypes, WorkerCanStep
  <2>3. CASE wpc = "wait"
    BY <2>3 DEF HungOnBareWait, WorkerCanStep
  <2>4. CASE wpc = "slice"
    <3>1. MayAbandon
      BY DEF JoinInv, MayAbandon
    <3>2. cur \in Passes /\ Plan[cur] # "bare"
      BY <2>4 DEF IInv, WorkerInv, Waits
    <3> QED
      BY <2>4, <3>1, <3>2, PlanFacts DEF Kinds, WorkerCanStep
  <2>5. CASE wpc = "withdraw"
    <3>1. cur \in Passes /\ event[cur] = "held"
      BY <2>5 DEF IInv, WorkerInv, Waits
    <3>2. token[cur] # "aborted"
      BY <3>1 DEF IInv, EventInv
    <3> QED
      BY <2>5, <3>1, <3>2 DEF IInv, TypeOK, TaskTypes, WorkerCanStep
  <2>6. CASE wpc = "mustWait"
    BY <2>6 DEF IInv, WorkerInv, Waits, JoinInv, WorkerCanStep
  <2> QED
    BY <2>1, <2>2, <2>3, <2>4, <2>5, <2>6
<1> QED
  BY <1>1, Invariance, JoinInvTheorem, PTL

\* A joined worker takes at most five steps for each pass it has left: no slice of
\* a wait is tried again once the joining thread has asked it to stop.
THEOREM DescentTheorem == Spec => [][JoinDescends]_vars
<1>1. ASSUME IInv, IInv', JoinInv, [Next]_vars PROVE JoinDescends
  <2>1. /\ cur \in 1 .. Len(Plan) + 1 /\ cur' \in 1 .. Len(Plan) + 1
        /\ Len(Plan) \in Nat
        /\ wpc \in {"next", "wait", "slice", "withdraw", "mustWait", "done"}
        /\ wpc' \in {"next", "wait", "slice", "withdraw", "mustWait", "done"}
    BY <1>1, PlanFacts DEF IInv, TypeOK, WorkerTypes, Waits
  <2>2. \A place \in {"next", "wait", "slice", "withdraw", "mustWait", "done"} :
           Left(place) \in 0 .. 5 /\ (place # "done" => Left(place) > 0)
    BY LeftFacts
  <2>3. StepsLeft \in Nat
    BY <2>1, <2>2 DEF StepsLeft
  <2>4. ASSUME gtPc = "join", wpc' # wpc \/ cur' # cur
        PROVE  \/ cur' = cur + 1 /\ wpc' = "next" /\ wpc # "done"
               \/ cur' = cur /\ Left(wpc') < Left(wpc)
    <3>1. MayAbandon
      BY <1>1, <2>4 DEF JoinInv, MayAbandon
    <3>2. Worker
      BY <1>1, <2>4 DEF Next, GameThread, TakeTask, ClaimForExecution, RunPayload, Trigger,
         OnIndexingFinished, DeinitializeIdle, AnnounceJoin, RequestStop, WaitForCompletion,
         UserCancels, RequestExit, vars, workerVars
    <3>3. CASE WaitServed \/ MandatoryWait \/ AbandonCollection \/ AbortIfUnclaimed
      BY <3>3 DEF WaitServed, MandatoryWait, AbandonCollection, AbortIfUnclaimed, Leave
    <3>4. CASE Skip
      BY <3>4 DEF Skip
    <3>5. CASE Dispatch \/ SliceExpires \/ AbandonDispatch \/ AbortLost
      BY <3>5, LeftFacts DEF Dispatch, SliceExpires, AbandonDispatch, AbortLost
    <3>6. CASE SliceAgain
      BY <3>1, <3>6 DEF SliceAgain
    <3>7. CASE AbandonScan \/ DatabaseUnusable \/ CompleteFullIndex
      BY <1>1, <3>7, LeftFacts DEF AbandonScan, DatabaseUnusable, CompleteFullIndex
    <3> QED
      BY <3>2, <3>3, <3>4, <3>5, <3>6, <3>7 DEF Worker
  <2>5. ASSUME cur' = cur + 1, wpc' = "next", wpc # "done" PROVE StepsLeft' < StepsLeft
    <3>1. Left(wpc) \in Int /\ Left(wpc) > 0
      BY <2>1, <2>2, <2>5
    <3>2. Left(wpc') = 5
      BY <2>5, LeftFacts
    <3>3. /\ StepsLeft = 5 * (Len(Plan) + 1 - cur) + Left(wpc)
          /\ StepsLeft' = 5 * (Len(Plan) + 1 - (cur + 1)) + 5
      BY <2>5, <3>2 DEF StepsLeft
    <3> QED
      BY <2>1, <3>1, <3>3
  <2>6. ASSUME cur' = cur, Left(wpc') < Left(wpc) PROVE StepsLeft' < StepsLeft
    <3>1. Left(wpc) \in Int /\ Left(wpc') \in Int
      BY <2>1, <2>2
    <3>2. /\ StepsLeft = 5 * (Len(Plan) + 1 - cur) + Left(wpc)
          /\ StepsLeft' = 5 * (Len(Plan) + 1 - cur) + Left(wpc')
      BY <2>6 DEF StepsLeft
    <3> DEFINE ahead == 5 * (Len(Plan) + 1 - cur)
    <3>3. ahead \in Int
      BY <2>1
    <3> HIDE DEF ahead
    <3>4. StepsLeft = ahead + Left(wpc) /\ StepsLeft' = ahead + Left(wpc')
      BY <3>2 DEF ahead
    <3> QED
      BY <2>6, <3>1, <3>3, <3>4
  <2> QED
    BY <2>3, <2>4, <2>5, <2>6 DEF JoinDescends
<1>2. IInv /\ IInv' /\ JoinInv /\ [Next]_vars => [JoinDescends]_vars
  BY <1>1
<1> QED
  BY <1>2, Invariance, JoinInvTheorem, PTL DEF Spec
=============================================================================
