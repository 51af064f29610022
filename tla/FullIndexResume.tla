--------------------------- MODULE FullIndexResume ---------------------------
(***************************************************************************)
(* The full project index and its resume: FIndexingTask::Run               *)
(* (Source/MonolithIndex/Private/MonolithIndexSubsystem.cpp) over the      *)
(* schema v3 of ProjectIndex.db (MonolithIndexDatabase.cpp).  A run lists  *)
(* the assets and decides for each whether to deep-index it, deep-indexes  *)
(* the queue in batches and then makes its post-passes.  The editor may    *)
(* die at any time, and one that is launched again resumes the run from    *)
(* what was committed.                                                     *)
(*                                                                         *)
(* Two kinds of deaths come from the assets themselves.  One that is being *)
(* deep-indexed has been marked as attempted, and is given up in the end.  *)
(* A post-pass loads assets of its own with no mark and no look at what    *)
(* was given up; what dies there dies at each launch.                      *)
(*                                                                         *)
(* An asset that cannot be loaded, or whose indexer fails, leaves no rows; *)
(* one run at a time writes the database; a transaction that fails is      *)
(* rolled back.  What the incremental index does to a finished index is    *)
(* not modelled.                                                           *)
(***************************************************************************)
EXTENDS Integers, Sequences, FiniteSets

CONSTANTS
    Assets,
    Killers,        \* assets that kill the editor when they are deep-indexed
    Flawed,         \* assets whose deep indexer fails
    Hashless,       \* assets for which the Asset Registry reports no hash
    Shallow,        \* assets of a class without a deep indexer
    Passes,         \* the post-passes, a sequence of names
    Covered,        \* per post-pass: the assets of the classes it enumerates
    Fatal,          \* per post-pass: <<asset, version>> that kill the editor in it
    Unmarked,       \* those dispatched without RunSentinelInTransaction
    NodePasses,     \* those whose rows DeleteChildDataForAsset deletes as well
    FreshBatch,     \* GetResolvedDeepIndexBatchSize
    MaxVersion,     \* bound: the versions an asset goes through
    MaxMishaps,     \* bound: deaths, stops, failed transactions, edits, rebuilds
    Deaths,         \* the places where the editor may die of something else
    Reverts         \* whether an edit may bring an earlier version back

PassNames == {Passes[i] : i \in DOMAIN Passes}

ASSUME AssetsAssumption ==
    /\ IsFiniteSet(Assets)
    /\ Killers \subseteq Assets /\ Flawed \subseteq Assets
    /\ Hashless \subseteq Assets /\ Shallow \subseteq Assets
ASSUME PassesAssumption ==
    /\ Passes \in Seq(PassNames)
    /\ \A i, j \in DOMAIN Passes : Passes[i] = Passes[j] => i = j
    /\ Covered \in [PassNames -> SUBSET Assets]
    /\ Fatal \in [PassNames -> SUBSET (Assets \X (1 .. MaxVersion))]
    /\ Unmarked \subseteq PassNames /\ NodePasses \subseteq PassNames
ASSUME BoundsAssumption ==
    FreshBatch \in Nat \ {0} /\ MaxVersion \in Nat \ {0} /\ MaxMishaps \in Nat
ASSUME RevertsAssumption == Reverts \in BOOLEAN

MaxAttempts == 2        \* MonolithMaxDeepIndexAttempts

VARIABLES
    content,     \* per asset: its version on disk, 0 when the package is gone
    disk,        \* the database as committed
    view,        \* the database as the connection sees it
    pc,          \* where the run is
    resume,      \* bIsResume
    todo,        \* assets the present pass has still to visit
    queue,       \* DeepIndexQueue
    captured,    \* FDeepIndexEntry::SavedHash of what is queued or in the batch
    batch,       \* BatchSlice
    poisoned,    \* PoisonedPaths
    stopped,     \* bShouldStop or bTransactionFailure
    next,        \* the post-pass that comes next
    kills,       \* per asset: deaths of the editor that deep-indexed it (history)
    mishaps      \* how many mishaps there have been (bound)

dbVars == <<disk, view>>
queueVars == <<queue, captured, batch>>
runVars == <<resume, todo, queueVars, poisoned, stopped, next>>
vars == <<content, dbVars, pc, runVars, kills, mishaps>>

-----------------------------------------------------------------------------
(* The database.                                                           *)

NoRows == [a \in Assets |-> <<>>]
NoPostRows == [p \in PassNames |-> [a \in Assets |-> 0]]
Zero == [a \in Assets |-> 0]

\* What ResetDatabase leaves: progress is full_index_state and last_full_index,
\* rows the versions deep-indexed per asset, post the rows of the post-passes.
EmptyDb ==
    [progress |-> "none", known |-> {}, deep |-> Zero, attempts |-> Zero,
     rows |-> NoRows, post |-> NoPostRows, done |-> {}, skipped |-> {}]

\* The saved hash the Asset Registry reports; 0 is the empty string.
Hash(a) == IF a \in Hashless THEN 0 ELSE content[a]

Present == {a \in Assets : content[a] # 0}

\* DeleteAssetByPath.
Without(db, gone) ==
    [db EXCEPT
       !.known = @ \ gone,
       !.deep = [a \in Assets |-> IF a \in gone THEN 0 ELSE @[a]],
       !.attempts = [a \in Assets |-> IF a \in gone THEN 0 ELSE @[a]],
       !.rows = [a \in Assets |-> IF a \in gone THEN <<>> ELSE @[a]],
       !.post = [p \in PassNames |-> [a \in Assets |-> IF a \in gone THEN 0 ELSE @[p][a]]]]

\* DeleteChildDataForAsset.
WithoutChildren(db, a) ==
    [db EXCEPT
       !.rows[a] = <<>>,
       !.post = [p \in PassNames |->
                   IF p \in NodePasses THEN [@[p] EXCEPT ![a] = 0] ELSE @[p]]]

\* The assets a post-pass finds, in the registry and in the database.
Found(db, p) == db.known \cap Present \cap Covered[p]

\* The rows of a post-pass are counted as none, one or several.
MoreRows(db, p, found) ==
    [db EXCEPT !.post[p] = [a \in Assets |->
        IF a \in found /\ @[a] < 2 THEN @[a] + 1 ELSE @[a]]]

\* A write of its own, committed at once.
Commit(db) == disk' = db /\ view' = db

-----------------------------------------------------------------------------
(* Starting a run.                                                         *)

Mishap == mishaps < MaxMishaps /\ mishaps' = mishaps + 1

Launch ==
    /\ pc = "down"
    /\ pc' = "idle"
    /\ UNCHANGED <<content, dbVars, runVars, kills, mishaps>>

\* Mutant: an interrupted index is not recognised.
InterruptedNever == FALSE

\* The index was begun and is not complete: full_index_state is in progress.
Interrupted == disk.progress = "running"

\* StartPreferredIndex: an interrupted index is resumed, none starts afresh.
Start ==
    /\ pc = "idle"
    /\ disk.progress # "done"
    /\ resume' = Interrupted
    /\ pc' = IF resume' THEN "list" ELSE "drop"
    /\ UNCHANGED <<content, dbVars, todo, queueVars, poisoned, stopped, next, kills, mishaps>>

\* An explicit rebuild, whatever the index is like.
StartFullIndex ==
    /\ pc = "idle"
    /\ Mishap
    /\ pc' = "drop"
    /\ UNCHANGED <<content, dbVars, runVars, kills>>

\* ResetDatabase drops table by table, outside a transaction: the rows first ...
DropRows ==
    /\ pc = "drop"
    /\ Commit([disk EXCEPT !.rows = NoRows, !.post = NoPostRows])
    /\ pc' = "dropping"
    /\ UNCHANGED <<content, runVars, kills, mishaps>>

\* ... and then the meta and assets tables, with the attempts they record.
DropAssets ==
    /\ pc = "dropping"
    /\ Commit(EmptyDb)
    /\ kills' = Zero
    /\ pc' = "begin"
    /\ UNCHANGED <<content, runVars, mishaps>>

BeginFullIndex ==
    /\ pc = "begin"
    /\ Commit([disk EXCEPT !.progress = "running"])
    /\ pc' = "list"
    /\ UNCHANGED <<content, runVars, kills, mishaps>>

-----------------------------------------------------------------------------
(* The metadata pass, one transaction committed every hundred assets.      *)

\* The Asset Registry is listed; a resume removes the rows of packages that are
\* gone.
ListAssets ==
    /\ pc = "list"
    /\ todo' = Present
    /\ view' = IF resume THEN Without(view, view.known \ Present) ELSE view
    /\ pc' = "scan"
    /\ UNCHANGED <<content, disk, resume, queueVars, poisoned, stopped, next, kills, mishaps>>

\* Mutant: the checkpoint is not looked at.
AlreadyIndexedNever(a) == FALSE

AlreadyIndexed(a) == view.deep[a] # 0 /\ view.deep[a] = Hash(a)

\* Mutant: the counter is not looked at.
IsPoisonNever(a) == FALSE

IsPoison(a) == ~AlreadyIndexed(a) /\ view.attempts[a] >= MaxAttempts

Visit(a) ==
    /\ pc = "scan"
    /\ ~stopped
    /\ a \in todo
    /\ todo' = todo \ {a}
    /\ disk' \in {disk, view'}
    /\ UNCHANGED <<content, pc, resume, batch, stopped, next, kills, mishaps>>

\* What the queue decision is not taken for gets its row only.
ListOnly(a) ==
    /\ a \in Shallow
    /\ view' = [view EXCEPT !.known = @ \cup {a}]
    /\ Visit(a)
    /\ UNCHANGED <<queue, captured, poisoned>>

SkipIndexed(a) ==
    /\ a \notin Shallow /\ AlreadyIndexed(a)
    /\ view' = view
    /\ Visit(a)
    /\ UNCHANGED <<queue, captured, poisoned>>

\* A poisonous asset is stamped and keeps its count.
SkipPoison(a) ==
    /\ a \notin Shallow /\ IsPoison(a)
    /\ view' = [view EXCEPT !.deep[a] = Hash(a)]
    /\ poisoned' = poisoned \cup {a}
    /\ Visit(a)
    /\ UNCHANGED <<queue, captured>>

\* Mutant: what was indexed before is left where it is.
ClearedKeepingChildren(db, a) == [db EXCEPT !.known = @ \cup {a}]

\* A row that was there before loses what an earlier pass produced.
Cleared(db, a) ==
    [WithoutChildren(db, a) EXCEPT !.known = @ \cup {a}]

QueueAsset(a) ==
    /\ a \notin Shallow /\ ~AlreadyIndexed(a) /\ ~IsPoison(a)
    /\ view' = Cleared(view, a)
    /\ queue' = queue \cup {a}
    /\ captured' = [captured EXCEPT ![a] = Hash(a)]
    /\ Visit(a)
    /\ UNCHANGED poisoned

LeaveScan ==
    /\ pc = "scan"
    /\ stopped \/ todo = {}
    /\ disk' = view
    /\ todo' = {}
    /\ pc' = "record"
    /\ UNCHANGED <<content, view, resume, queueVars, poisoned, stopped, next, kills, mishaps>>

RecordSkippedAssetPaths ==
    /\ pc = "record"
    /\ Commit([disk EXCEPT !.skipped = @ \cup poisoned])
    /\ poisoned' = {}
    /\ pc' = "mark"
    /\ UNCHANGED <<content, resume, todo, queueVars, stopped, next, kills, mishaps>>

-----------------------------------------------------------------------------
(* The deep pass.                                                          *)

\* Mutant: a resume takes the batches of a fresh run.
BatchSizeFresh == FreshBatch

BatchSize == IF resume THEN 1 ELSE FreshBatch

Batches ==
    {b \in SUBSET queue :
       Cardinality(b) = IF Cardinality(queue) < BatchSize THEN Cardinality(queue)
                        ELSE BatchSize}

Bumped(db, b) ==
    [db EXCEPT !.attempts = [a \in Assets |-> IF a \in b THEN @[a] + 1 ELSE @[a]]]

\* Mutant: the attempts are counted in the transaction of the work.
BumpInWork(b) == view' = Bumped(view, b) /\ UNCHANGED disk

\* BumpDeepIndexAttempts, committed before the work begins.
BumpDeepIndexAttempts(b) == Commit(Bumped(disk, b))

MarkBatch ==
    /\ pc = "mark"
    /\ ~stopped
    /\ queue # {}
    /\ \E b \in Batches :
         /\ BumpDeepIndexAttempts(b)
         /\ batch' = b
         /\ queue' = queue \ b
    /\ pc' = "work"
    /\ UNCHANGED <<content, resume, todo, captured, poisoned, stopped, next, kills, mishaps>>

\* GetAsset, IndexAsset and, if they succeed, the checkpoint.
Indexed(db, a) ==
    IF a \in Flawed \/ content[a] = 0 THEN db
    ELSE [db EXCEPT !.rows[a] = Append(@, content[a]),
                    !.deep[a] = captured[a],
                    !.attempts[a] = 0]

Kills(a) == a \in Killers /\ content[a] # 0

\* One asset of the batch; the frame budget may commit after any of them, and
\* the batch commits at its end.
IndexAsset(a) ==
    /\ pc = "work"
    /\ a \in batch
    /\ ~Kills(a)
    /\ view' = Indexed(view, a)
    /\ batch' = batch \ {a}
    /\ captured' = [captured EXCEPT ![a] = 0]
    /\ \/ batch' # {} /\ pc' = pc /\ disk' \in {disk, view'}
       \/ batch' = {} /\ pc' = "mark" /\ disk' = view'
    /\ UNCHANGED <<content, resume, todo, queue, poisoned, stopped, next, kills, mishaps>>

LeaveDeepPass ==
    /\ pc = "mark"
    /\ stopped \/ queue = {}
    /\ queue' = {}
    /\ captured' = Zero
    /\ next' = 1
    /\ pc' = "post"
    /\ UNCHANGED <<content, dbVars, resume, todo, batch, poisoned, stopped, kills, mishaps>>

-----------------------------------------------------------------------------
(* The post-passes and the end.                                            *)

AtPass == pc = "post" /\ ~stopped /\ next <= Len(Passes)

Pass == Passes[next]

SkipSentinel ==
    /\ AtPass
    /\ Pass \notin Unmarked
    /\ resume /\ Pass \in disk.done
    /\ next' = next + 1
    /\ UNCHANGED <<content, dbVars, pc, resume, todo, queueVars, poisoned, stopped, kills, mishaps>>

\* Mutant: the rows are committed and the checkpoint is lost.
SentinelDoneUnmarked(db, p) == MoreRows(db, p, Found(db, p))

\* The rows of a sentinel and its checkpoint.
SentinelDone(db, p) ==
    [MoreRows(db, p, Found(db, p)) EXCEPT !.done = @ \cup {p}]

SentinelDue ==
    /\ AtPass
    /\ Pass \notin Unmarked
    /\ ~(resume /\ Pass \in disk.done)

\* What is loaded by a pass and does not survive it.  On Windows the animation
\* pass has a guard, and nothing is fatal there.
Harms(p) == {a \in Present : <<a, content[a]>> \in Fatal[p]}

RunSentinelInTransaction ==
    /\ SentinelDue
    /\ Harms(Pass) = {}
    /\ Commit(SentinelDone(disk, Pass))
    /\ next' = next + 1
    /\ UNCHANGED <<content, pc, resume, todo, queueVars, poisoned, stopped, kills, mishaps>>

\* The animation pass is dispatched outside a transaction: every row it writes
\* is committed at once.
BeginUnmarkedPass ==
    /\ AtPass
    /\ Pass \in Unmarked
    /\ todo' = Found(disk, Pass)
    /\ pc' = "unmarked"
    /\ UNCHANGED <<content, dbVars, resume, queueVars, poisoned, stopped, next, kills, mishaps>>

IndexUnmarked(a) ==
    /\ pc = "unmarked"
    /\ a \in todo \ Harms(Pass)
    /\ Commit(MoreRows(disk, Pass, {a} \cap Present))
    /\ todo' = todo \ {a}
    /\ UNCHANGED <<content, pc, resume, queueVars, poisoned, stopped, next, kills, mishaps>>

LeaveUnmarkedPass ==
    /\ pc = "unmarked"
    /\ todo = {}
    /\ next' = next + 1
    /\ pc' = "post"
    /\ UNCHANGED <<content, dbVars, resume, todo, queueVars, poisoned, stopped, kills, mishaps>>

\* Mutant: a run that was stopped is marked complete.
OutcomeAlways == "done"

Outcome == IF stopped THEN disk.progress ELSE "done"

\* CompleteFullIndex unless the run was stopped, and OnIndexingFinished.
Finish ==
    /\ pc = "post"
    /\ stopped \/ next > Len(Passes)
    /\ Commit([disk EXCEPT !.progress = Outcome])
    /\ resume' = FALSE
    /\ stopped' = FALSE
    /\ next' = 0
    /\ pc' = "idle"
    /\ UNCHANGED <<content, todo, queueVars, poisoned, kills, mishaps>>

-----------------------------------------------------------------------------
(* Mishaps.                                                                *)

\* The process ends: what was not committed is rolled back on the next open.
Crash ==
    /\ view' = disk
    /\ resume' = FALSE
    /\ todo' = {}
    /\ queue' = {} /\ captured' = Zero /\ batch' = {}
    /\ poisoned' = {}
    /\ stopped' = FALSE
    /\ next' = 0
    /\ pc' = "down"
    /\ UNCHANGED <<content, disk>>

KillEditor(a) ==
    /\ pc = "work"
    /\ a \in batch
    /\ Kills(a)
    /\ kills' = [kills EXCEPT ![a] = @ + 1]
    /\ Crash
    /\ UNCHANGED mishaps

\* A post-pass loads what kills the editor: no attempt was marked, and the rows
\* of a sentinel are rolled back with its checkpoint.
KilledInPass ==
    /\ \/ SentinelDue /\ Harms(Pass) # {}
       \/ pc = "unmarked" /\ todo \cap Harms(Pass) # {}
    /\ Crash
    /\ UNCHANGED <<kills, mishaps>>

Die ==
    /\ pc \in Deaths
    /\ Mishap
    /\ Crash
    /\ UNCHANGED kills

\* A cancellation or a shutdown that the worker sees at its next check.
UserStops ==
    /\ pc \in {"list", "scan", "record", "mark", "work", "post", "unmarked"}
    /\ ~stopped
    /\ Mishap
    /\ stopped' = TRUE
    /\ UNCHANGED <<content, dbVars, pc, resume, todo, queueVars, poisoned, next, kills>>

\* A transaction that cannot be begun or committed ends the run.
TransactionFails ==
    /\ pc \in {"scan", "mark", "work", "post"}
    /\ Mishap
    /\ view' = disk
    /\ stopped' = TRUE
    /\ todo' = {} /\ batch' = {}
    /\ pc' = CASE pc = "scan" -> "record" [] pc = "work" -> "mark" [] OTHER -> pc
    /\ UNCHANGED <<content, disk, resume, queue, captured, poisoned, next, kills>>

\* The start of a run fails.
BeginFails ==
    /\ pc = "begin"
    /\ Mishap
    /\ pc' = "idle"
    /\ UNCHANGED <<content, dbVars, runVars, kills>>

\* A package is saved or removed, at any time.
EditAsset(a) ==
    /\ content[a] # 0
    /\ Mishap
    /\ \E v \in 0 .. MaxVersion :
         /\ v = 0 \/ v = content[a] + 1 \/ (Reverts /\ v < content[a])
         /\ content' = [content EXCEPT ![a] = v]
    /\ UNCHANGED <<dbVars, pc, runVars, kills>>

-----------------------------------------------------------------------------

\* Any of the assets may be there.
Init ==
    /\ content \in [Assets -> {0, 1}]
    /\ disk = EmptyDb /\ view = EmptyDb
    /\ pc = "idle"
    /\ resume = FALSE
    /\ todo = {}
    /\ queue = {} /\ captured = Zero /\ batch = {}
    /\ poisoned = {}
    /\ stopped = FALSE
    /\ next = 0
    /\ kills = Zero
    /\ mishaps = 0

AssetStep(a) ==
    \/ ListOnly(a) \/ SkipIndexed(a) \/ SkipPoison(a) \/ QueueAsset(a)
    \/ IndexAsset(a) \/ KillEditor(a) \/ IndexUnmarked(a)

Progress ==
    \/ Launch \/ Start \/ DropRows \/ DropAssets \/ BeginFullIndex
    \/ ListAssets \/ LeaveScan \/ RecordSkippedAssetPaths
    \/ MarkBatch \/ LeaveDeepPass
    \/ SkipSentinel \/ RunSentinelInTransaction
    \/ BeginUnmarkedPass \/ LeaveUnmarkedPass \/ KilledInPass \/ Finish
    \/ \E a \in Assets : AssetStep(a)

Disturbance ==
    \/ StartFullIndex \/ Die \/ UserStops \/ TransactionFails \/ BeginFails
    \/ \E a \in Assets : EditAsset(a)

Next == Progress \/ Disturbance

Spec == Init /\ [][Next]_vars

\* The worker is scheduled, and an editor that went down is launched again.
FairSpec == Spec /\ WF_vars(Progress)

-----------------------------------------------------------------------------
(* Properties.                                                             *)

Db == [progress : {"none", "running", "done"},
       known : SUBSET Assets,
       deep : [Assets -> 0 .. MaxVersion],
       attempts : [Assets -> 0 .. MaxAttempts],
       rows : [Assets -> Seq(1 .. MaxVersion)],
       post : [PassNames -> [Assets -> 0 .. 2]],
       done : SUBSET PassNames,
       skipped : SUBSET Assets]

DbTypes == disk \in Db /\ view \in Db

QueueTypes ==
    /\ queue \subseteq Assets /\ batch \subseteq Assets
    /\ captured \in [Assets -> 0 .. MaxVersion]

RunTypes ==
    /\ resume \in BOOLEAN /\ stopped \in BOOLEAN
    /\ todo \subseteq Assets /\ poisoned \subseteq Assets
    /\ next \in 0 .. Len(Passes) + 1

WorldTypes ==
    /\ content \in [Assets -> 0 .. MaxVersion]
    /\ kills \in [Assets -> Nat]
    /\ mishaps \in 0 .. MaxMishaps
    /\ pc \in {"down", "idle", "drop", "dropping", "begin", "list", "scan", "record",
               "mark", "work", "post", "unmarked"}

\* Type invariant: every variable stays in its domain.
TypeOK == DbTypes /\ QueueTypes /\ RunTypes /\ WorldTypes

\* An asset that kills the editor while it is deep-indexed does so at most twice
\* before an explicit rebuild, whatever else interrupts the runs, deaths in
\* post-passes included, and whether it has a hash or not.
GivenUpAfterTwo == \A a \in Assets : kills[a] <= MaxAttempts

\* The database says of a that it is indexed as it is now.
Vouched(a) ==
    /\ disk.deep[a] # 0 /\ disk.deep[a] = Hash(a)
    /\ disk.attempts[a] < MaxAttempts

\* "never a checkpoint pointing at data that is not there": what a resume would
\* skip as indexed has the rows of its present version, and has them once.
CheckpointMeansRows ==
    pc # "dropping" => \A a \in Assets : Vouched(a) => disk.rows[a] = <<content[a]>>

\* An index that is marked complete has rows for every asset it knows and has an
\* indexer for, but for those that cannot be indexed and those that were given up
\* after two attempts.
CompleteAccountsForAll ==
    disk.progress = "done" /\ pc \notin {"drop", "dropping"} =>
        \A a \in (disk.known \cap Present) \ (Flawed \cup Shallow) :
            disk.rows[a] # <<>> \/ disk.attempts[a] = MaxAttempts

\* "cannot duplicate across resumes": a sentinel that is checkpointed has one
\* row per asset, however often the run was interrupted.
SentinelRowsOnce ==
    \A p \in PassNames \ Unmarked, a \in Assets : disk.post[p][a] <= 1

\* As long as nothing but its own crashes interrupts the index, an asset that
\* kills the editor drags no healthy neighbour out of the index.
HealthyIsNeverSkipped ==
    mishaps = 0 => disk.skipped \cup poisoned \subseteq Killers \cup Flawed

\* "already-indexed assets keep their data and are not re-deep-indexed": no step
\* but a reset touches the rows of an asset that is indexed as it is now.
IndexedRowsAreKept ==
    [][\A a \in Assets :
         Vouched(a) /\ content'[a] = content[a] /\ pc # "drop"
           => disk'.rows[a] = disk.rows[a]]_vars

\* No post-pass loads anything that kills the editor.
Harmless == \A p \in PassNames : Harms(p) = {}

\* An index completes, and stays complete, once the mishaps end, although some
\* assets kill the editor whenever they are deep-indexed, if from some time on no
\* post-pass kills it: what it died of there before leaves nothing behind.
IndexCompletes == <>[]Harmless => <>[](disk.progress = "done")

\* "Repeatedly crashing assets are skipped ... rather than trapping every editor
\* launch in a crash loop" (CHANGELOG.md:92): without mishaps, the launches that
\* end in a death come to an end.
CrashLoopEnds == <>[](pc # "down")

\* "never a checkpoint pointing at data that is not there", in an index marked
\* complete, although a package may be brought back to an earlier version.
CheckpointHasRows ==
    disk.progress = "done" /\ pc = "idle" =>
        \A a \in Assets : Vouched(a) => disk.rows[a] # <<>>
=============================================================================
