-------------------------- MODULE SourceIndexProofs --------------------------
(***************************************************************************)
(* The safety of SourceIndex for any number of edits and any faults.       *)
(* At the end, the safety half of its liveness: who owes a run its next    *)
(* step, and that each step brings its answer nearer.                      *)
(***************************************************************************)
EXTENDS SourceIndex, TLAPS

\* A worker at work belongs to a run that has not been answered, in an editor
\* that is there.
WorkerIsAccounted ==
    worker # "idle" => indexing /\ posted = "none" /\ editor # "off"

\* A completion on its way comes from the run that is on, and its worker is gone.
CompletionIsOwed == posted # "none" => indexing /\ worker = "idle"

\* A process that is gone leaves nothing in memory.
OffIsClean == editor = "off" => ~indexing /\ ~latched /\ ~reader /\ asked = 0

\* What the last run owes the session is in the file, or that run lost it.
Delivered ==
    /\ rows >= asked \/ "project" \in lost
    /\ asked # 0 /\ kind = "full" => file = "whole" \/ "engine" \in lost

\* What the run has read is as new as its start; once it has written that, and
\* when it has reported it, and as long as no run is on and none has failed, what
\* is not in the file was lost by that run.
ProgressIsFresh ==
    /\ asked <= code
    /\ worker = "finalize" => read >= asked
    /\ worker = "check" \/ posted = "success" \/ (~indexing /\ ~latched) => Delivered

IInv ==
    /\ TypeOK
    /\ WorkerIsAccounted
    /\ CompletionIsOwed
    /\ OffIsClean
    /\ ProgressIsFresh

-----------------------------------------------------------------------------

THEOREM Initially == Init => IInv
<1>1. SUFFICES ASSUME Init PROVE IInv
  OBVIOUS
<1>2. code \in 1 .. MaxCode /\ 0 \in 0 .. MaxCode
  BY <1>1, CodeAssumption DEF CodeAssumption, Init
<1>3. TypeOK
  BY <1>1, <1>2 DEF Init, TypeOK, Places
<1> QED
  BY <1>1, <1>2, <1>3 DEF Init, IInv, WorkerIsAccounted, CompletionIsOwed, OffIsClean,
     ProgressIsFresh, Delivered

\* An attempt to open the file sets both flags.
LEMMA OpensEffect ==
    ASSUME Opens
    PROVE  reader' \in BOOLEAN /\ cooling' \in BOOLEAN
BY DEF Opens, Handle, Outcomes

\* A run that is asked for while none is on, whether its thread starts or not.
LEMMA StartRunKeeps ==
    ASSUME IInv, ~indexing, NEW k \in {"full", "project"}, NEW cool \in BOOLEAN,
           StartRun(k, cool),
           code' = code, editor' = "on",
           activated' \in {"off", "inherited", "user"},
           auto' \in BOOLEAN, recent' \in BOOLEAN
    PROVE  IInv'
<1>1. CASE Spawn(k) /\ cooling' = cool
  <2>1. /\ reader' = FALSE /\ indexing' = TRUE /\ worker' = "open" /\ kind' = k
        /\ stop' = FALSE /\ read' = 0 /\ lost' = {} /\ posted' = "none" /\ asked' = code
        /\ cooling' = cool /\ UNCHANGED <<latched, file, rows>>
    BY <1>1 DEF StartRun, Spawn, diskVars
  <2>2. code \in 1 .. MaxCode /\ rows \in 0 .. MaxCode /\ 0 \in 0 .. MaxCode
    BY CodeAssumption DEF CodeAssumption, IInv, TypeOK
  <2>3. code \in 0 .. MaxCode /\ code <= code
    BY <2>2
  <2>4. TypeOK'
    BY <2>1, <2>2, <2>3 DEF IInv, TypeOK, Places
  <2> QED
    BY <2>1, <2>3, <2>4 DEF IInv, WorkerIsAccounted, CompletionIsOwed, OffIsClean,
       ProgressIsFresh, Delivered
<1>2. CASE ~(Spawn(k) /\ cooling' = cool)
  <2>1. /\ UNCHANGED <<indexing, workerVars, latched, diskVars>>
        /\ IF StaysClosed(latched) THEN reader' = FALSE /\ cooling' = cool ELSE Opens
    BY <1>2 DEF StartRun
  <2>2. reader' \in BOOLEAN /\ cooling' \in BOOLEAN
    BY <2>1, OpensEffect
  <2>3. reader' => ~latched
    BY <2>1 DEF StaysClosed
  <2> QED
    BY <2>1, <2>2, <2>3 DEF IInv, TypeOK, WorkerIsAccounted, CompletionIsOwed,
              OffIsClean, ProgressIsFresh, Delivered, Places, workerVars, diskVars
<1> QED
  BY <1>1, <1>2

LEMMA OpeningKeeps ==
    ASSUME IInv, Initialize \/ StartIndexing \/ EnsureDatabaseOpen PROVE IInv'
<1>1. CASE Initialize
  <2>1. PICK o \in Outcomes :
          LET k == IF activated = "off" THEN "none" ELSE Preferred(o, activated = "user")
          IN  IF k = "none"
                THEN Handle(o) /\ UNCHANGED <<indexing, latched, workerVars, diskVars>>
                ELSE StartRun(k, ~o)
    BY <1>1 DEF Initialize
  <2> DEFINE k == IF activated = "off" THEN "none" ELSE Preferred(o, activated = "user")
  <2>2. k \in {"none", "full", "project"}
    BY DEF Preferred
  <2>3. /\ editor = "off" /\ editor' = "on" /\ auto' = (activated # "off")
        /\ UNCHANGED <<code, activated, recent>>
    BY <1>1 DEF Initialize
  <2>4. auto' \in BOOLEAN /\ ~indexing /\ ~latched /\ asked = 0
    BY <2>3 DEF IInv, OffIsClean
  <2>5. CASE k = "none"
    <3>1. Handle(o) /\ UNCHANGED <<indexing, latched, workerVars, diskVars>>
      BY <2>1, <2>5
    <3>2. reader' \in BOOLEAN /\ cooling' \in BOOLEAN
      BY <3>1 DEF Handle, Outcomes
    <3> QED
      BY <2>3, <2>4, <3>1, <3>2 DEF IInv, TypeOK, WorkerIsAccounted,
         CompletionIsOwed, OffIsClean, ProgressIsFresh, Delivered, Places, workerVars, diskVars
  <2>6. CASE k # "none"
    <3>1. StartRun(k, ~o) /\ k \in {"full", "project"} /\ (~o) \in BOOLEAN
      BY <2>1, <2>2, <2>6 DEF Outcomes
    <3>2. /\ activated' \in {"off", "inherited", "user"}
          /\ recent' \in BOOLEAN /\ code' = code /\ editor' = "on"
      BY <2>3 DEF IInv, TypeOK
    <3> HIDE DEF k
    <3> QED
      BY <2>4, <3>1, <3>2, StartRunKeeps
  <2> QED
    BY <2>5, <2>6
<1>2. CASE StartIndexing
  <2> DEFINE k == IF indexing THEN "none" ELSE Preferred(reader, TRUE)
  <2>1. /\ editor = "on" /\ activated' = "user" /\ auto' = TRUE
        /\ UNCHANGED <<code, editor, recent>>
        /\ IF k = "none" THEN UNCHANGED <<readerVars, workerVars, diskVars>>
           ELSE StartRun(k, cooling)
    BY <1>2 DEF StartIndexing
  <2>2. k \in {"none", "full", "project"} /\ (k # "none" => ~indexing)
    BY DEF Preferred
  <2>3. CASE k = "none"
    BY <2>1, <2>3 DEF IInv, TypeOK, WorkerIsAccounted, CompletionIsOwed, OffIsClean,
       ProgressIsFresh, Delivered, Places, readerVars, workerVars, diskVars
  <2>4. CASE k # "none"
    <3>1. StartRun(k, cooling) /\ k \in {"full", "project"} /\ ~indexing
      BY <2>1, <2>2, <2>4
    <3>2. /\ activated' \in {"off", "inherited", "user"} /\ auto' \in BOOLEAN
          /\ recent' \in BOOLEAN /\ cooling \in BOOLEAN /\ code' = code /\ editor' = "on"
      BY <2>1 DEF IInv, TypeOK
    <3> HIDE DEF k
    <3> QED
      BY <3>1, <3>2, StartRunKeeps
  <2> QED
    BY <2>3, <2>4
<1>3. CASE EnsureDatabaseOpen
  <2>1. reader' \in BOOLEAN /\ cooling' \in BOOLEAN
    BY <1>3, OpensEffect DEF EnsureDatabaseOpen
  <2> QED
    BY <1>3, <2>1 DEF EnsureDatabaseOpen, MayReopen, gateVars, IInv, TypeOK,
       WorkerIsAccounted, CompletionIsOwed, OffIsClean, ProgressIsFresh, Delivered, Places,
       workerVars, diskVars
<1> QED
  BY <1>1, <1>2, <1>3

LEMMA TriggersKeep ==
    ASSUME IInv, TriggerReindex \/ TriggerProjectReindex \/ OnReloadComplete
    PROVE  IInv'
<1>1. PICK k \in {"full", "project"} : StartRun(k, cooling)
  BY DEF TriggerReindex, TriggerProjectReindex, OnReloadComplete
<1>2. /\ ~indexing /\ editor' = "on" /\ UNCHANGED <<code, activated, auto>>
      /\ recent' \in {recent, TRUE}
  BY DEF TriggerReindex, TriggerProjectReindex, OnReloadComplete, gateVars
<1>3. /\ activated' \in {"off", "inherited", "user"} /\ auto' \in BOOLEAN
      /\ recent' \in BOOLEAN /\ cooling \in BOOLEAN
  BY <1>2 DEF IInv, TypeOK
<1> QED
  BY <1>1, <1>2, <1>3, StartRunKeeps

LEMMA FinishKeeps == ASSUME IInv, FinishIndexing PROVE IInv'
<1>1. /\ indexing' = FALSE /\ posted' = "none" /\ editor = "on"
      /\ UNCHANGED <<code, editor, gateVars, worker, kind, stop, read, lost, asked, diskVars>>
  BY DEF FinishIndexing, Settled
<1>2. CASE FinishFailed
  BY <1>1, <1>2 DEF FinishIndexing, FinishFailed, gateVars, diskVars, IInv, TypeOK,
     WorkerIsAccounted, CompletionIsOwed, OffIsClean, ProgressIsFresh, Delivered, Places
<1>3. CASE FinishSucceeded
  <2>1. posted = "success" /\ reader' \in BOOLEAN /\ cooling' \in BOOLEAN /\ latched' = ~reader'
    BY <1>3, OpensEffect DEF FinishSucceeded
  <2> QED
    BY <1>1, <2>1 DEF gateVars, diskVars, IInv, TypeOK,
       WorkerIsAccounted, CompletionIsOwed, OffIsClean, ProgressIsFresh, Delivered, Places
<1> QED
  BY <1>2, <1>3 DEF FinishIndexing

\* What was lost stays lost, and a step loses only what it writes.
LEMMA LossesGrow ==
    ASSUME NEW halves \in SUBSET {"engine", "project"},
           lost \subseteq {"engine", "project"},
           lost' \in Losses(halves)
    PROVE  lost \subseteq lost' /\ lost' \subseteq {"engine", "project"}
BY DEF Losses

LEMMA IndexerKeeps == ASSUME IInv, Indexer PROVE IInv'
<1>0. UNCHANGED <<code, editor, gateVars, readerVars>>
  BY DEF Indexer
<1> USE <1>0 DEF IInv, TypeOK, WorkerIsAccounted, CompletionIsOwed, OffIsClean,
    ProgressIsFresh, Delivered, Places, gateVars, readerVars, diskVars, Return, Proceed
<1>1. CASE ResetDatabase
  BY <1>1, CodeAssumption DEF CodeAssumption, ResetDatabase, HalfReset
<1>2. CASE OpenForWriting
  BY <1>2 DEF OpenForWriting
<1>3. CASE IndexEngineModules
  <2>1. CASE Fails
    BY <1>3, <2>1 DEF IndexEngineModules, Fails
  <2>2. CASE ~Fails
    BY <1>3, <2>2, LossesGrow DEF IndexEngineModules
  <2> QED
    BY <2>1, <2>2
<1>4. CASE PruneProjectRows
  <2>1. CASE Fails
    BY <1>4, <2>1 DEF PruneProjectRows, Fails
  <2>2. CASE ~Fails
    BY <1>4, <2>2, LossesGrow, CodeAssumption DEF CodeAssumption, PruneProjectRows
  <2> QED
    BY <2>1, <2>2
<1>5. CASE IndexProjectModules
  <2>1. CASE Fails
    BY <1>5, <2>1 DEF IndexProjectModules, Fails
  <2>2. CASE ~Fails
    BY <1>5, <2>2, LossesGrow DEF IndexProjectModules
  <2> QED
    BY <2>1, <2>2
<1>6. CASE Finalize
  <2>1. CASE Fails
    BY <1>6, <2>1 DEF Finalize, Fails
  <2>2. CASE ~Fails
    <3>1. /\ worker = "finalize" /\ Proceed("check") /\ UNCHANGED read
          /\ lost' \in Losses(Written)
          /\ rows' = IF "project" \in lost' THEN 0 ELSE read
          /\ file' = IF kind # "full" THEN file
                     ELSE IF "engine" \in lost' THEN "holed" ELSE "whole"
      BY <1>6, <2>2 DEF Finalize
    <3>2. lost' \subseteq {"engine", "project"}
      BY <3>1, LossesGrow DEF Written
    <3>3. rows' \in 0 .. MaxCode /\ file' \in {"absent", "part", "holed", "whole"}
      BY <3>1, CodeAssumption DEF CodeAssumption
    <3>4. TypeOK'
      BY <3>1, <3>2, <3>3
    <3>5. Delivered'
      BY <3>1
    <3> QED
      BY <3>1, <3>4, <3>5
  <2> QED
    BY <2>1, <2>2
<1>7. CASE CheckStop
  <2>1. worker = "check" /\ worker' = "idle" /\ UNCHANGED <<read, diskVars, kind, stop, asked>>
    BY <1>7 DEF CheckStop
  <2>2. posted' \in {"success", "failure"}
    BY <1>7 DEF CheckStop
  <2>3. lost' = lost
    BY <1>7 DEF CheckStop
  <2>4. Delivered'
    BY <2>1, <2>3
  <2> QED
    BY <2>1, <2>2, <2>3, <2>4
<1> QED
  BY <1>1, <1>2, <1>3, <1>4, <1>5, <1>6, <1>7 DEF Indexer

LEMMA LeavingKeeps == ASSUME IInv, JoinWorker \/ EditorDies PROVE IInv'
<1>1. Leave
  BY DEF JoinWorker, EditorDies
<1>2. file' \in {"absent", "part", "holed", "whole"} /\ rows' \in 0 .. MaxCode
  BY CodeAssumption
     DEF CodeAssumption, JoinWorker, EditorDies, HalfReset, diskVars, IInv, TypeOK
<1>3. 0 \in 0 .. MaxCode
  BY CodeAssumption DEF CodeAssumption
<1>4. TypeOK'
  BY <1>1, <1>2, <1>3 DEF Leave, IInv, TypeOK, Places
<1>5. asked' = 0 /\ code' \in 1 .. MaxCode /\ rows' >= 0
  BY <1>1, <1>2 DEF Leave, IInv, TypeOK
<1> QED
  BY <1>1, <1>4, <1>5 DEF Leave, IInv, WorkerIsAccounted, CompletionIsOwed,
     OffIsClean, ProgressIsFresh, Delivered

LEMMA RestKeeps ==
    ASSUME IInv, StopIndexing \/ CloseEditor \/ Edit \/ TimePasses \/ UNCHANGED vars
    PROVE  IInv'
<1>0. ASSUME UNCHANGED <<code, editor, activated, auto, indexing, latched, reader,
                        workerVars, diskVars>>,
             recent' \in BOOLEAN, cooling' \in BOOLEAN
      PROVE  IInv'
  <2>1. TypeOK'
    BY <1>0 DEF IInv, TypeOK, Places, workerVars, diskVars
  <2>2. WorkerIsAccounted' /\ CompletionIsOwed' /\ OffIsClean' /\ ProgressIsFresh'
    BY <1>0 DEF IInv, WorkerIsAccounted, CompletionIsOwed, OffIsClean,
       ProgressIsFresh, Delivered, workerVars, diskVars
  <2> QED
    BY <2>1, <2>2 DEF IInv
<1>1. CASE TimePasses
  BY <1>0, <1>1 DEF TimePasses
<1> USE DEF IInv, TypeOK, WorkerIsAccounted, CompletionIsOwed, OffIsClean,
    ProgressIsFresh, Delivered, Places, gateVars, readerVars, workerVars, diskVars
<1>2. CASE StopIndexing
  BY <1>2 DEF StopIndexing
<1>3. CASE CloseEditor
  BY <1>3 DEF CloseEditor
<1>4. CASE Edit
  BY <1>4, CodeAssumption DEF CodeAssumption, Edit
<1>5. CASE UNCHANGED vars
  BY <1>5 DEF vars
<1> QED
  BY <1>1, <1>2, <1>3, <1>4, <1>5

-----------------------------------------------------------------------------

\* The invariant holds in every reachable state.
THEOREM Invariance == Spec => []IInv
<1>1. Init => IInv
  BY Initially
<1>2. IInv /\ [Next]_vars => IInv'
  BY OpeningKeeps, TriggersKeep, FinishKeeps, IndexerKeeps, LeavingKeeps, RestKeeps
     DEF Next
<1> QED
  BY <1>1, <1>2, PTL DEF Spec

\* Every variable keeps its type, and the handle is closed during a run and
\* after a failed one.
THEOREM TypeCorrect == Spec => []TypeOK
<1>1. IInv => TypeOK
  BY DEF IInv
<1> QED
  BY <1>1, Invariance, PTL

\* UMonolithSourceSubsystem never reads the file while its indexer writes it.
THEOREM WriterIsAloneTheorem == Spec => []WriterIsAlone
<1>1. IInv => WriterIsAlone
  BY DEF IInv, TypeOK, WorkerIsAccounted, WriterIsAlone
<1> QED
  BY <1>1, Invariance, PTL

\* What a session serves after a run is as new as the start of that run; what is
\* missing of it that run lost in writes that report no failure.
THEOREM ServedIsFreshTheorem == Spec => []ServedIsFresh
<1>1. IInv => ServedIsFresh
  BY DEF IInv, TypeOK, ProgressIsFresh, Delivered, ServedIsFresh
<1> QED
  BY <1>1, Invariance, PTL

-----------------------------------------------------------------------------
(* The end of a run.  That a run is answered is a liveness property, checked *)
(* by TLC; it rests on two facts that are safety: somebody always owes the   *)
(* run its next step, and each such step brings it nearer its answer.        *)

\* Of a run that is not over: the indexer is at work, or its completion waits for
\* the game thread, or Deinitialize has only the join left.
RunIsOwed ==
    indexing => \/ worker # "idle"
                \/ editor = "on" /\ posted # "none"
                \/ editor = "closing" /\ worker = "idle"

\* How many steps of the indexer are left at most, and the answer.
Left(place) ==
    CASE place = "open"               -> 6
      [] place \in {"engine", "prune"} -> 5
      [] place = "project"            -> 4
      [] place = "finalize"           -> 3
      [] place = "check"              -> 2
      [] place = "idle"               -> 1

StepsLeft == IF indexing THEN Left(worker) ELSE 0

\* No step of anybody takes a run back, and those of its indexer take it on.
RunDescends ==
    indexing => /\ StepsLeft' <= StepsLeft
                /\ worker' # worker => StepsLeft' < StepsLeft

LEMMA LeftFacts ==
    /\ Left("open") = 6 /\ Left("engine") = 5 /\ Left("prune") = 5 /\ Left("project") = 4
    /\ Left("finalize") = 3 /\ Left("check") = 2 /\ Left("idle") = 1
BY DEF Left

\* While a run is on, its thread moves forward by its own steps alone: every
\* trigger is refused.
LEMMA RunMoves ==
    ASSUME IInv, indexing, [Next]_vars
    PROVE  \/ Indexer
           \/ ~indexing' /\ editor' = "off"
           \/ ~indexing' /\ FinishIndexing
           \/ /\ UNCHANGED <<indexing, worker, posted>>
              /\ editor' = editor \/ (editor = "on" /\ editor' = "closing")
<1>1. editor # "off"
  BY DEF IInv, OffIsClean
<1>2. CASE StartIndexing \/ StopIndexing
  BY <1>2 DEF StartIndexing, StopIndexing, readerVars, workerVars
<1>3. CASE Initialize \/ TriggerReindex \/ TriggerProjectReindex \/ OnReloadComplete
           \/ EnsureDatabaseOpen
  BY <1>1, <1>3 DEF Initialize, TriggerReindex, TriggerProjectReindex, OnReloadComplete,
     EnsureDatabaseOpen, MayReopen
<1>4. CASE FinishIndexing
  BY <1>4 DEF FinishIndexing, Settled
<1>5. CASE CloseEditor
  BY <1>5 DEF CloseEditor, readerVars
<1>6. CASE JoinWorker \/ EditorDies
  BY <1>6 DEF JoinWorker, EditorDies, Leave
<1>7. CASE Edit \/ TimePasses
  BY <1>7 DEF Edit, TimePasses, readerVars, workerVars
<1>8. CASE UNCHANGED vars
  BY <1>8 DEF vars, readerVars, workerVars
<1> QED
  BY <1>2, <1>3, <1>4, <1>5, <1>6, <1>7, <1>8 DEF Next

\* Each step of the indexer is a phase on, or the end with a completion.
LEMMA IndexerMoves ==
    ASSUME IInv, Indexer
    PROVE  /\ indexing /\ indexing' /\ UNCHANGED editor
           /\ worker # "idle"
           /\ \/ worker' = "idle" /\ posted' \in {"success", "failure"}
              \/ worker' # "idle" /\ Left(worker') < Left(worker)
           /\ Left(worker') < Left(worker)
<1>1. UNCHANGED <<editor, indexing>>
  BY DEF Indexer, readerVars
<1>2. CASE ResetDatabase \/ OpenForWriting
  <2>1. worker = "open"
    BY <1>2 DEF ResetDatabase, OpenForWriting
  <2>2. \/ worker' = "idle" /\ posted' = "failure"
        \/ worker' \in {"engine", "prune"}
    BY <1>2 DEF ResetDatabase, OpenForWriting, Proceed, Return
  <2> QED
    BY <1>1, <2>1, <2>2, LeftFacts DEF IInv, WorkerIsAccounted
<1>3. CASE IndexEngineModules \/ PruneProjectRows
  <2>1. worker \in {"engine", "prune"}
    BY <1>3 DEF IndexEngineModules, PruneProjectRows
  <2>2. \/ worker' = "idle" /\ posted' = "failure"
        \/ worker' = "project"
    BY <1>3 DEF IndexEngineModules, PruneProjectRows, Proceed, Fails, Return
  <2> QED
    BY <1>1, <2>1, <2>2, LeftFacts DEF IInv, WorkerIsAccounted
<1>4. CASE IndexProjectModules
  <2>1. /\ worker = "project"
        /\ \/ worker' = "idle" /\ posted' = "failure"
           \/ worker' = "finalize"
    BY <1>4 DEF IndexProjectModules, Proceed, Fails, Return
  <2> QED
    BY <1>1, <2>1, LeftFacts DEF IInv, WorkerIsAccounted
<1>5. CASE Finalize
  <2>1. /\ worker = "finalize"
        /\ \/ worker' = "idle" /\ posted' = "failure"
           \/ worker' = "check"
    BY <1>5 DEF Finalize, Proceed, Fails, Return
  <2> QED
    BY <1>1, <2>1, LeftFacts DEF IInv, WorkerIsAccounted
<1>6. CASE CheckStop
  <2>1. /\ worker = "check" /\ worker' = "idle"
        /\ posted' \in {"success", "failure"}
    BY <1>6 DEF CheckStop, Return
  <2> QED
    BY <1>1, <2>1, LeftFacts DEF IInv, WorkerIsAccounted
<1> QED
  BY <1>2, <1>3, <1>4, <1>5, <1>6 DEF Indexer

\* A run that is not over is owed its next step by its thread, by a completion
\* the game thread has still to serve, or by the join of Deinitialize.
THEOREM RunIsOwedTheorem == Spec => []RunIsOwed
<1>1. Init => RunIsOwed
  BY DEF Init, RunIsOwed
<1>2. ASSUME IInv, IInv', RunIsOwed, [Next]_vars PROVE RunIsOwed'
  <2>1. CASE indexing
    <3>1. CASE Indexer
      <4>1. worker' = "idle" => posted' # "none"
        BY <1>2, <3>1, IndexerMoves
      <4>2. editor' \in {"on", "closing"}
        BY <1>2, <2>1, <3>1, IndexerMoves DEF IInv, TypeOK, OffIsClean
      <4> QED
        BY <4>1, <4>2 DEF RunIsOwed
    <3>2. CASE ~indexing'
      BY <3>2 DEF RunIsOwed
    <3>3. CASE /\ UNCHANGED <<indexing, worker, posted>>
               /\ editor' = editor \/ (editor = "on" /\ editor' = "closing")
      BY <1>2, <2>1, <3>3 DEF RunIsOwed
    <3> QED
      BY <1>2, <2>1, <3>1, <3>2, <3>3, RunMoves
  <2>2. CASE ~indexing /\ indexing'
    <3>1. ASSUME NEW k, NEW cool, StartRun(k, cool) PROVE worker' # "idle"
      BY <2>2, <3>1 DEF StartRun, Spawn
    <3>2. worker' # "idle"
      BY <1>2, <2>2, <3>1 DEF Next, Initialize, StartIndexing, StopIndexing, TriggerReindex,
         TriggerProjectReindex, OnReloadComplete, EnsureDatabaseOpen, FinishIndexing,
         Settled, CloseEditor, JoinWorker, EditorDies, Leave, Indexer, Edit, TimePasses,
         vars, readerVars
    <3> QED
      BY <3>2 DEF RunIsOwed
  <2>3. CASE ~indexing'
    BY <2>3 DEF RunIsOwed
  <2> QED
    BY <2>1, <2>2, <2>3
<1> QED
  BY <1>1, <1>2, Invariance, PTL DEF Spec

\* A run is answered after at most six of its own steps: none of them is taken
\* twice, and no request, reload or edit sends it back.
THEOREM DescentTheorem == Spec => [][RunDescends]_vars
<1>1. ASSUME IInv, [Next]_vars PROVE RunDescends
  <2> SUFFICES ASSUME indexing
               PROVE  StepsLeft' <= StepsLeft /\ (worker' # worker => StepsLeft' < StepsLeft)
    BY DEF RunDescends
  <2>1. worker \in Places
    BY <1>1 DEF IInv, TypeOK
  <2>2. Left(worker) \in 1 .. 6
    BY <2>1, LeftFacts DEF Places
  <2>3. CASE Indexer
    <3>1. StepsLeft = Left(worker) /\ StepsLeft' = Left(worker')
      BY <1>1, <2>3, IndexerMoves DEF StepsLeft
    <3>2. Left(worker') < Left(worker)
      BY <1>1, <2>3, IndexerMoves
    <3>3. worker' \in {"idle", "engine", "prune", "project", "finalize", "check"}
      BY <2>3 DEF Indexer, ResetDatabase, OpenForWriting, IndexEngineModules, PruneProjectRows,
         IndexProjectModules, Finalize, CheckStop, Proceed, Fails, Return
    <3>4. Left(worker') \in 1 .. 6
      BY <3>3, LeftFacts
    <3> QED
      BY <2>2, <3>1, <3>2, <3>4
  <2>4. CASE ~indexing'
    BY <2>2, <2>4 DEF StepsLeft
  <2>5. CASE UNCHANGED <<indexing, worker>>
    BY <2>2, <2>5 DEF StepsLeft
  <2> QED
    BY <1>1, <2>3, <2>4, <2>5, RunMoves
<1>2. IInv /\ [Next]_vars => [RunDescends]_vars
  BY <1>1
<1> QED
  BY <1>2, Invariance, PTL DEF Spec
=============================================================================
