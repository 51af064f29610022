-------------------------- MODULE AsyncJobRegistry --------------------------
(***************************************************************************)
(* FMonolithAsyncJobRegistry                                               *)
(* (Source/MonolithCore/Private/MonolithAsyncJobRegistry.cpp), its         *)
(* producers and its callers.  Every method of the registry takes          *)
(* RegistryLock once, so it is one step; what a producer does between two  *)
(* calls is not protected, so each call is a step of its own.  The         *)
(* producer is the protocol of the project index                           *)
(* (MonolithIndexSubsystem.cpp, FinishActiveAsyncJob), which the ZoneGraph *)
(* rebuild (MonolithAIMassZoneGraphActions.cpp) and the localization       *)
(* pipeline (MonolithLocalizationActions.cpp) follow as well: report       *)
(* progress, poll for cancellation, ask once more before settling, and     *)
(* fail outright when a step cannot be done.  Stamps are taken to differ;  *)
(* ids are GUIDs and never repeat.                                         *)
(***************************************************************************)
EXTENDS Integers, FiniteSets

CONSTANTS
    Jobs,           \* the job ids that will be minted, each once
    Cancellable,    \* those submitted with bCancellable
    Capacity        \* JobCapacity

ASSUME CancellableAssumption == Cancellable \subseteq Jobs
ASSUME JobsAssumption == IsFiniteSet(Jobs)
ASSUME CapacityAssumption == Capacity \in Nat \ {0}

VARIABLES
    rows,        \* RowsById: a function on the ids the registry holds
    older,       \* <<a, b>>: UpdatedUtc of a is before that of b
    producer,    \* per job: where its producer is
    returned     \* jobs whose work has returned successfully (history)

vars == <<rows, older, producer, returned>>

Terminal == {"completed", "failed", "cancelled"}

Held == DOMAIN rows

IsLive(j) == j \in Held /\ rows[j].status \notin Terminal

CancelSeen(j) == j \in Held /\ rows[j].cancelRequested      \* IsCancelRequested

\* UpdatedUtc = UtcNow(): j is now younger than every other id.
Touch(j) ==
    {p \in older : p[1] # j} \cup {<<k, j>> : k \in Jobs \ {j}}

-----------------------------------------------------------------------------
(* The registry's methods.                                                 *)

\* Mutant: a new row is seeded with a status that has no token.
NewRowUnnamed(j) ==
    [status |-> "submitted", cancelRequested |-> FALSE,
     cancellable |-> j \in Cancellable]

NewRow(j) ==
    [status |-> "pending", cancelRequested |-> FALSE,
     cancellable |-> j \in Cancellable]

\* EvictOldestIfNeeded drops the row with the oldest stamp, whatever its status.
Victims ==
    IF Cardinality(Held) < Capacity THEN {{}}
    ELSE {{v} : v \in {k \in Held : \A l \in Held : <<l, k>> \notin older}}

\* SubmitJob mints the id and reads the clock before it takes the lock ...
MintJobId(j) ==
    /\ producer[j] = "idle"
    /\ producer' = [producer EXCEPT ![j] = "minted"]
    /\ older' = Touch(j)
    /\ UNCHANGED <<rows, returned>>

\* ... and stores that stamp when it has it.
SubmitJob(j) ==
    /\ producer[j] = "minted"
    /\ producer' = [producer EXCEPT ![j] = "queued"]
    /\ \E victims \in Victims :
         rows' = [k \in (Held \ victims) \cup {j} |->
                    IF k = j THEN NewRow(j) ELSE rows[k]]
    /\ UNCHANGED <<older, returned>>

\* Mutant: FindOrAdd for Find, so a late call brings an evicted row back.
SetStatusFindOrAdd(j, s) ==
    IF j \in Held /\ ~IsLive(j) THEN UNCHANGED <<rows, older>>
    ELSE /\ rows' = [k \in Held \cup {j} |->
                       IF k = j
                       THEN [NewRow(j) EXCEPT !.status = s,
                                              !.cancelRequested = CancelSeen(j)]
                       ELSE rows[k]]
         /\ older' = Touch(j)

\* UpdateProgress, CompleteJob and FailJob: nothing happens to a row that is
\* gone or terminal.
SetStatus(j, s) ==
    IF IsLive(j)
    THEN /\ rows' = [rows EXCEPT ![j].status = s]
         /\ older' = Touch(j)
    ELSE UNCHANGED <<rows, older>>

\* Mutant: only a job that has not started is acknowledged.
SetCancelledIfPending(j) ==
    IF IsLive(j) /\ rows[j].cancellable /\ rows[j].status = "pending"
    THEN /\ rows' = [rows EXCEPT ![j].status = "cancelled",
                                 ![j].cancelRequested = TRUE]
         /\ older' = Touch(j)
    ELSE UNCHANGED <<rows, older>>

\* CancelJob: also needs a cancellable row.
SetCancelled(j) ==
    IF IsLive(j) /\ rows[j].cancellable
    THEN /\ rows' = [rows EXCEPT ![j].status = "cancelled",
                                 ![j].cancelRequested = TRUE]
         /\ older' = Touch(j)
    ELSE UNCHANGED <<rows, older>>

\* Mutant: the flag is set whether or not the job can be cancelled.
CancelFlagAlways(j) == TRUE

CancelFlag(j) == rows[j].cancellable \/ rows[j].cancelRequested

\* RequestCancel, from HandleCancelJob: it stamps every row it finds, a terminal
\* one too, and flags the cancellable ones.
RequestCancel(j) ==
    /\ j \in Held
    /\ rows' = [rows EXCEPT ![j].cancelRequested = CancelFlag(j)]
    /\ older' = Touch(j)
    /\ UNCHANGED <<producer, returned>>

-----------------------------------------------------------------------------
(* The producers.                                                          *)

GoesTo(j, from, to) ==
    /\ producer[j] \in from
    /\ producer' = [producer EXCEPT ![j] = to]

\* FailSubmittedAsyncJob when the job cannot start; a step of the ZoneGraph or
\* localization job that fails settles it without asking for a cancellation.
FailOutright(j) ==
    /\ \/ GoesTo(j, {"queued"}, "refused")
       \/ GoesTo(j, {"queued", "working"}, "ended")
    /\ SetStatus(j, "failed")
    /\ UNCHANGED returned

\* The reindex action fails the job of a start that returned false once more,
\* though the subsystem has settled it already.
FailNotStarted(j) ==
    /\ GoesTo(j, {"refused"}, "ended")
    /\ SetStatus(j, "failed")
    /\ UNCHANGED returned

\* BeginActiveAsyncJob, UpdateActiveAsyncJobProgress.
ReportProgress(j) ==
    /\ GoesTo(j, {"queued", "working"}, "working")
    /\ SetStatus(j, "running")
    /\ UNCHANGED returned

\* IsActiveAsyncJobCancellationRequested: the work is abandoned.
AbandonWork(j) ==
    /\ CancelSeen(j)
    /\ GoesTo(j, {"working"}, "unsuccessful")
    /\ UNCHANGED <<rows, older, returned>>

WorkReturns(j) ==
    /\ \E success \in BOOLEAN :
         /\ GoesTo(j, {"working"}, IF success THEN "successful" ELSE "unsuccessful")
         /\ returned' = IF success THEN returned \cup {j} ELSE returned
    /\ UNCHANGED <<rows, older>>

\* Mutant: work that stops early is reported as complete.
ChooseCompletion(j) ==
    /\ \/ CancelSeen(j) /\ GoesTo(j, {"successful", "unsuccessful"}, "cancelling")
       \/ ~CancelSeen(j) /\ GoesTo(j, {"successful", "unsuccessful"}, "completing")
    /\ UNCHANGED <<rows, older, returned>>

\* Mutant: work that stops early is taken to have been cancelled.
ChooseCancellation(j) ==
    /\ \/ CancelSeen(j) /\ GoesTo(j, {"successful"}, "cancelling")
       \/ ~CancelSeen(j) /\ GoesTo(j, {"successful"}, "completing")
       \/ GoesTo(j, {"unsuccessful"}, "cancelling")
    /\ UNCHANGED <<rows, older, returned>>

\* FinishActiveAsyncJob asks whether to acknowledge a cancellation ...
ChooseOutcome(j) ==
    /\ \/ CancelSeen(j) /\ GoesTo(j, {"successful", "unsuccessful"}, "cancelling")
       \/ ~CancelSeen(j) /\ GoesTo(j, {"successful"}, "completing")
       \/ ~CancelSeen(j) /\ GoesTo(j, {"unsuccessful"}, "failing")
    /\ UNCHANGED <<rows, older, returned>>

\* ... and acts on the answer, which may be out of date by then.  A job that
\* never got to work, or was cancelled within the call that started it
\* (an incremental index), makes that call return false.
SettleJob(j) ==
    /\ \/ GoesTo(j, {"completing"}, "ended") /\ SetStatus(j, "completed")
       \/ \E next \in {"refused", "ended"} :
            \/ GoesTo(j, {"cancelling"}, next) /\ SetCancelled(j)
            \/ GoesTo(j, {"failing"}, next) /\ SetStatus(j, "failed")
    /\ UNCHANGED returned

-----------------------------------------------------------------------------

Init ==
    /\ rows = <<>>
    /\ older = {}
    /\ producer = [j \in Jobs |-> "idle"]
    /\ returned = {}

ProducerStep(j) ==
    \/ MintJobId(j) \/ SubmitJob(j) \/ FailOutright(j)
    \/ ReportProgress(j) \/ AbandonWork(j) \/ WorkReturns(j)
    \/ ChooseOutcome(j) \/ SettleJob(j) \/ FailNotStarted(j)

Next == \E j \in Jobs : ProducerStep(j) \/ RequestCancel(j)

\* A submitted job is started or failed in the same call, a producer that works
\* polls for cancellation again and again, and one that is done goes on to
\* settle; nothing makes work return by itself.
Fairness ==
    \A j \in Jobs :
        /\ WF_vars(AbandonWork(j))
        /\ WF_vars(ChooseOutcome(j))
        /\ WF_vars(SettleJob(j))
        /\ WF_vars(ReportProgress(j) /\ producer[j] = "queued")

Spec == Init /\ [][Next]_vars
FairSpec == Spec /\ Fairness

-----------------------------------------------------------------------------
(* Properties.                                                             *)

Row == [status : {"pending", "running"} \cup Terminal,
        cancelRequested : BOOLEAN, cancellable : BOOLEAN]

Stages == {"idle", "minted", "queued", "working", "successful", "unsuccessful",
           "cancelling", "completing", "failing", "refused", "ended"}

\* Type invariant: every variable stays in its domain.
TypeOK ==
    /\ Held \subseteq Jobs
    /\ rows \in [Held -> Row]
    /\ older \subseteq Jobs \X Jobs
    /\ producer \in [Jobs -> Stages]
    /\ returned \subseteq Jobs

\* The registry is bounded: "Bounded in-memory registry".
WithinCapacity == Cardinality(Held) <= Capacity

\* A job that has reached a final status never leaves it, though it is settled
\* more than once: a cancellation that was acknowledged is not turned into a
\* failure by the caller of the start that was cancelled.  It follows from the
\* lifecycle below.
TerminalIsFinal ==
    [][\A j \in Held \cap DOMAIN rows' :
         rows[j].status \in Terminal => rows'[j].status = rows[j].status]_vars

\* A producer that has ended leaves no row that polls as unfinished, whichever
\* cancellation request slipped in between its last check and its last call.
NoAbandonedRow ==
    \A j \in Held : producer[j] \in {"refused", "ended"} => rows[j].status \in Terminal

\* "polling never sees a false complete": a job polls as completed only after
\* its work has returned.
NoFalseComplete ==
    \A j \in Held : rows[j].status = "completed" => j \in returned

\* Cooperative cancellation gets through: a job that has started and whose
\* cancellation is flagged settles, or is evicted, even if its work never
\* returns by itself.
CancellationIsAnswered ==
    \A j \in Jobs : CancelSeen(j) ~> ~IsLive(j)

\* What a caller who polls knows of a job.
Phase ==
    [j \in Jobs |->
       IF j \in Held THEN rows[j].status
       ELSE IF producer[j] \in {"idle", "minted"} THEN "absent"
       ELSE "forgotten"]

Asked == {j \in Held : rows[j].cancelRequested}

Lifecycle == INSTANCE JobLifecycle WITH phase <- Phase, asked <- Asked

\* The registry and its producers implement the job lifecycle a caller sees.
ImplementsLifecycle == Lifecycle!LifeSpec
=============================================================================
