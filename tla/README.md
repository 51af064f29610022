# Verification of Monolith: TLA+ models, TLC runs and TLAPS proofs

Monolith is an Unreal Engine plugin that lets MCP clients drive the editor. A
native stdio proxy stands between a client and the editor's HTTP endpoint; in
the editor, tool calls are executed on the game thread, long work is handed to
workers and polled through a job registry, and two SQLite indexes describe the
project and the engine source. Most of the repository is a large catalogue of
synchronous editor actions. What is hard to test is the small control core
around them: two proxy threads that share a verdict on the endpoint, a repeat
guard at its limit, jobs that are cancelled while they settle, a worker that
waits for a game thread that may be about to join it, an index that resumes
after the assets it reads have crashed the editor, a second index whose file is
deleted and rewritten under the subsystem that serves it, and an updater that
replaces the plugin from a script while editors start and stop. These modules
model that core.

Paths below are relative to the repository. `monolith_proxy.cpp` stands for
`Tools/MonolithProxy/monolith_proxy.cpp`, and C++ files without a directory are
the ones named in `PROJECT.json`.

## 1. Inventory

### 1.1 Native proxy, routing (`monolith_proxy.cpp`) -- modelled: ProxyRouting

- **State.** The verdict `g_monolith_was_up` (unknown, up, down), the transport
  circuit (`g_transport_failure_count`, `g_transport_retry_after`), both under
  `g_monolith_state_lock`; `g_stop_health_poll`; stdout under `g_stdout_lock`.
- **Operations.** `main` reads a line, answers it and writes the answer.
  `handle_tools_list` is live only when the verdict is up and the circuit closed.
  `handle_tools_call` sends an edit whenever the circuit is closed and an
  offline-capable read only if the verdict is up as well. Success and failure of
  a POST move verdict and circuit. `health_poll_thread` sleeps, probes without a
  lock, and then applies its result. Each flip of the verdict sends
  `tools/list_changed`. At end of file main raises the flag and joins the poller.
- **Hard.** A probe result that is stale when applied; notifications sent after
  the lock is released, from two threads; a backoff both threads must honour; a
  join that must not hang.
- **Correct when** a client that holds the live tools learns that they are gone,
  nobody talks to the endpoint inside the backoff, the verdict converges to an
  endpoint that stays as it is, and the proxy exits.

### 1.2 Native proxy, repeat guard -- modelled: ProxyDedup

- **State.** `g_recent_tool_calls`: per call signature, whether it is in flight,
  when it completed, and its window; at most 1024 entries.
- **Operations.** `begin_tool_call` prunes (expiry, then the oldest completed),
  refuses a repeat, or admits; `ToolCallCompletionGuard` completes on every way
  out of the handler.
- **Hard.** The table at its limit; the many ways out of the handler; a call
  that timed out may still be executing.
- **Correct when** a call is executed again inside its window only if the table
  had to drop it, the right entry is dropped, and nothing stays in flight.

### 1.3 Async job registry and its producers -- modelled: AsyncJobRegistry, JobLifecycle

- **State.** `RowsById` under `RegistryLock`: status, cancellation flag,
  cancellable, stamps; 128 rows.
- **Operations.** `SubmitJob` (with eviction), `UpdateProgress`, `CompleteJob`,
  `FailJob`, `RequestCancel`, `CancelJob`, `IsCancelRequested`, `GetJobJson`. The
  producers (project index, ZoneGraph rebuild, localization) report, poll for
  cancellation, and settle.
- **Hard.** The answer of `IsCancelRequested` is out of date when a producer acts
  on it; a start that fails settles its job, and so does the handler that asked
  for it; updates arrive for an evicted row.
- **Correct when** what a polling caller sees is the lifecycle of `JobLifecycle`.

### 1.4 Indexing worker, dispatch, shutdown -- modelled in part: GameThreadDispatch, SequentialRun

- **State.** `FIndexingTask` (`bShouldStop`, `bGameThreadIsJoining`, counters),
  an `FMonolithDispatchAbortToken` and a pooled event per dispatch, the active
  job, the meta rows of the index.
- **Operations.** `Run` goes through the asset scan, the deep batches and the
  post-pass indexers; each is dispatched to the game thread
  (`RunOnGameThreadWhenCompilerIdle`, `DispatchToGameThreadAndWait`, or a bare
  `Event->Wait()`) and waited for. `OnIndexingFinished` and `Deinitialize` run on
  the game thread; `Deinitialize` joins the worker.
- **Hard.** The payload of a dispatch borrows the worker's stack; an abandoned
  dispatch may still be picked up; the joining thread is the one that would
  serve the wait; only a whole run may be marked complete.
- **Correct when** no payload outlives the frame it borrows, no event is
  triggered after it went back to the pool, the marker means that every pass
  ran, `Deinitialize` returns, and the job of every run is answered: together,
  when what its caller sees is the run of `SequentialRun`.

### 1.5 Full project index and its resume -- modelled in part: FullIndexResume

- **State.** In the database: the meta rows of the run (`full_index_state`,
  `last_full_index`, `full_index_sentinel.*`, `full_index_skipped_assets`), and
  per asset `deep_indexed_hash`, `deep_index_attempts` and the rows its indexers
  wrote. In memory: the open transaction, the deep queue with the hash each asset
  had when it was listed, the batch.
- **Operations.** A start resets the database or resumes. The metadata pass
  decides for each asset whether to skip it as indexed, skip it as poisonous, or
  clear and queue it. The deep pass marks a batch as attempted, in a transaction
  of its own, and then loads and indexes it; success stamps the asset and clears
  its attempts with the rows. The post-passes follow, with a checkpoint each, and
  the completion mark.
- **Hard.** The editor dies at any point, and some assets kill it whenever they
  are loaded, by the deep pass, which marks them first, or by a post-pass, which
  does not; packages change while the run works on what it listed.
- **Correct when** an asset that kills the editor while it is deep-indexed is
  given up, nothing else is, what is stamped as indexed has its rows, no
  post-pass is made twice, and the index completes. That an asset that was given
  up kills no further launch is not so: see `resume_trap` in 3.

### 1.6 Self-update -- modelled in part: UpdateSwap, AtomicUpdate

- **State.** On disk: the plugin, `<plugin>_Backup`, `Saved/Monolith/Staging` and
  `version.json`. In the editor: `VersionInfo`, `PendingStagingDir`,
  `PendingExpectedSha256`, `bUpdateInProgress`, the update dialog. Outside: one
  `monolith_swap.bat` per exit.
- **Operations.** `CheckForUpdate` asks for the latest release and, if it is
  newer, keeps its hash and shows a dialog; `DownloadUpdate` and
  `OnDownloadComplete` verify, extract and record; `Deinitialize` calls
  `OnPreExit`, which writes and launches the script; the script waits for the
  editor, asks, renames the plugin to the backup, copies the staging directory,
  carries the user's directories over and removes backup and staging, or moves
  the backup back.
- **Hard.** The editor dies between any two of these; answers come late and in
  any order; the script runs beside editors that are started again; every copy
  may fail.
- **Correct when** what the user keeps in the plugin folder is never lost, a swap
  can be undone until it is done, and what is recorded is newer than what is
  installed: together, when it is the update of `AtomicUpdate`.

### 1.7 Engine source index -- modelled in part: SourceIndex

- **State.** `EngineSource.db`; `bIsIndexing`, the latch
  `bDatabaseRequiresSuccessfulReindex`, the subsystem's handle, two cooldowns,
  the durable activation; the indexer thread with `bShouldStop`.
- **Operations.** A full run deletes the file and indexes engine and project; a
  project run takes the project's rows out and indexes the project again.
  `Initialize`, `Monolith.StartIndexing`, two actions and the reload hook start
  one. The indexer commits module by module; its completion crosses to the game
  thread, where the file is opened again or latched. `GetDatabase` opens a file
  that is closed for no reason; `Deinitialize` stops and joins the indexer.
- **Hard.** Requests in the middle of a run; a run that fails, or does not even
  get its thread, after an earlier one that failed; writes that fail unnoticed;
  a completion that finds the subsystem shutting down.
- **Correct when** the file is never read while it is written, what is served
  after a run holds the code the run was asked for, but for what that run lost
  unnoticed, and every run is answered.

### 1.8 Not modelled

| part | why |
|---|---|
| Incremental project index, Asset Registry callbacks | on the game thread, one list of changes at a time, after a finished index; it calls the indexers of 1.5 |
| HTTP server, cancellation and progress registries | requests are served one at a time on the game thread, and no action polls the cancellation of its request: an entry is never shared and never late |
| Session tracker | a table under a lock, the least recent row dropped at its limit; with session mode on, the requests of a session it does not hold are refused |
| Localization pipeline | its jobs are modelled (1.3); its child processes with their time limits, and the shutdown that cancels and waits, are not |
| Progress closures of the project index (`MonolithIndexSubsystem.cpp` 1753) | they show progress and change nothing the models have; that a queued closure still finds its task would take the lifetimes of objects in a module unload |
| A swap script that is itself ended half-way (its window closed) | nothing in the code answers for it: what it leaves is in the backup until the next update removes that |
| The shell script of Mac and Linux, the reindex commandlet | the same steps as the Windows script; a second process on a file whose locking is SQLite's |
| Domain modules (Blueprint, Animation, Material, Niagara, Mesh, GAS, UI and so on) | synchronous editor actions without control state of their own; nine tenths of the hand-written code |
| Script proxies, offline bundle, query executable | request loops without a circuit, and one-shot commands over read-only databases |
| HTTP and TLS, the tool log, crash breadcrumbs, release and watchdog scripts | I/O |
| SQLite, the JSON library | vendored |

`PROJECT.json` lists each part with its reason, and every hazard with the
properties that cover it or the reason why none does.

## 2. Modules

| module | models | EXTENDS / INSTANCE |
|---|---|---|
| `ProxyRouting` | 1.1 | |
| `ProxyRoutingProofs` | theorems on it | ProxyRouting |
| `ProxyDedup` | 1.2 | |
| `ProxyDedupProofs` | theorems on it | ProxyDedup |
| `JobLifecycle` | what the registry promises (abstract) | |
| `AsyncJobRegistry` | 1.3 | INSTANCE JobLifecycle |
| `AsyncJobRegistryProofs` | theorems on it, the refinement among them | AsyncJobRegistry |
| `SequentialRun` | what a run of the index promises (abstract) | |
| `GameThreadDispatch` | 1.4 | INSTANCE SequentialRun |
| `GameThreadDispatchProofs` | theorems on it, the refinement among them | GameThreadDispatch |
| `FullIndexResume` | 1.5 | |
| `FullIndexResumeProofs` | theorems on it | FullIndexResume |
| `FullIndexCheckpointProofs` | theorems on what a checkpoint is worth | FullIndexResumeProofs |
| `AtomicUpdate` | what the updater promises (abstract) | |
| `UpdateSwap` | 1.6 | INSTANCE AtomicUpdate |
| `UpdateSwapProofs` | theorems on it, the refinement among them | UpdateSwap |
| `SourceIndex` | 1.7 | |
| `SourceIndexProofs` | theorems on it | SourceIndex |
| `MC...` | the instances TLC checks | their module |

Definitions keep the names of the functions they model. A definition introduced
as a mutant is a plausible mistake in the one after it: with the mutant in its
place the property it is kept for fails.

### 2.1 ProxyRouting

Two program counters, `mainPc` and `pollPc`. Whatever happens under one hold of
the state lock is one step (`MarkTransportSuccess`,
`MarkDownAfterTransportFailure`, `PollApply`); what happens outside it is a step
of its own: probe, POST, notification, writing the answer. The endpoint is
*ready*, *slow* (misses the 0.75 s of a list, may miss the 3 s of a read, meets
the 30 s of the rest), *wedged* (answers probes, no POST) or *down*. The client
lists again after a notification and calls as it likes. Time moves in steps of
ten seconds, the unit of every cooldown.

- The route of a request reads the verdict and the circuit under two holds of
  the lock; here it is one step. In between only the poller (which writes the
  verdict alone) and the clock (which moves the circuit alone) can move, so each
  outcome of two reads is an outcome of one read after some other order of
  those moves. The one place where it matters, a read that looks at the circuit
  *twice*, has a step of its own (`RecheckCircuit`).
- A call the repeat guard refuses changes nothing here: it is a stutter.
- A round of the poller with the circuit open changes nothing, so `PollStarts`
  just waits for it.

### 2.2 ProxyDedup

One main thread, so a call is admitted (`Admit`) or refused (`Refuse`) and, later,
finished (`Finish`); the clock moves in between. Signatures are model values;
expiry and eviction follow `prune_recent_tool_calls` with its ties
nondeterministic (the map's order is that of the signatures' text). The history
`evicted` records the calls that were dropped as the oldest of a full table of
unexpired ones, by a rule stated apart from the code's (`NextToDrop`).

### 2.3 AsyncJobRegistry and JobLifecycle

A method of the registry is one step, for it holds `RegistryLock` throughout;
`SubmitJob` reads the clock before it takes the lock and is two. What a producer
does between two methods is not protected: `ChooseOutcome` (asks
`IsCancelRequested`) and `SettleJob` (acts on the answer) are two steps. A start that fails settles its job
(`FailOutright`, or `SettleJob` when the worker could not be created) and returns
false, upon which `HandleReindex` fails the job a second time (`FailNotStarted`):
until then the producer is *refused*. Stamps
are kept as the order they induce (`older`) and are taken to differ. Ids are
GUIDs and never used twice.

`JobLifecycle` is what a polling caller may rely on, one phase per job and
whether a cancellation was asked for. Refinement mapping: `phase` is the row's
status, or *absent* before and *forgotten* after the row exists; `asked` is the
set of flagged rows.

### 2.4 GameThreadDispatch

`Plan`, a constant, is the sequence of passes of one run by kind of dispatch and
wait. The game thread serves any pending closure from its tick, unless it is in
`Deinitialize`, where it serves nothing until the join returns.

- Asking for cancellation and dispatching are one step: nothing another thread
  does in between can tell the two orders apart.
- `finalGc` is dispatched however the batches ended. The code skips it when a
  run is stopped before its first batch; the model has that run too, with one
  dispatch more.
- A ticker that finds assets still compiling reschedules itself: a stutter.
- The worker may learn after its last slice that the game thread is gone while
  the game thread, before it began to tear down, had taken the dispatch:
  `AbortLost` is reached, and the mandatory wait behind it is checked. The claim
  cannot happen *during* the worker's decision, for only the game thread or the
  worker itself raises `bShouldStop`.
- The completion write may fail (`CompleteFullIndex`), and the first
  transaction after the scan may be refused (`DatabaseUnusable`).

`SequentialRun` is a run without threads: the passes that write are made in their
order, each in its turn and at most once; a run that leaves one out is broken;
only one that came to its end unbroken is marked complete, and only a marked one
is answered with success. Refinement mapping: `turn` is the worker's pass, `made`
the ticker passes whose payload the *game thread* has run, `broken` the stop flag
or a failed transaction, `over` that the worker has ended, `complete` the marker,
`answer` what the job was told. Dispatches, slices, claims and triggers are
stutters.

### 2.5 FullIndexResume

The database is a record, kept twice: `disk` as committed and `view` as the
connection sees it. Outside a transaction the two agree; a commit copies `view`
to `disk`, and the end of the process copies `disk` back. Content is a version
number per asset, 0 when the package is gone; the saved hash is that number, or
0 for an asset the Asset Registry has no hash of.

- A batch commits at its end and, when the frame budget is spent, after any
  asset; the metadata pass commits every hundred assets. Both are taken to
  commit or not after any asset.
- The queue is taken in any order. The code takes it in the order the registry
  lists the assets, of which nothing is promised.
- Cancellations, shutdowns and the stop of a run are one flag, `stopped`; the
  difference matters to `GameThreadDispatch` alone.
- A transaction that cannot be begun or committed is rolled back and stops the
  run.
- A deep indexer that fails (`Flawed`) leaves no rows; it still keeps its attempt.
- A post-pass is counted per asset as none, one or several rows. `Unmarked` are
  the passes dispatched without `RunSentinelInTransaction`: in the code, the one
  over animations.
- A post-pass loads the assets of its classes by itself: GAS every Blueprint
  (`GASIndexer.cpp` 85), the mesh catalog every StaticMesh
  (`MeshCatalogIndexer.cpp` 129), Niagara every system (`NiagaraIndexer.cpp` 74).
  No attempt is marked there and nothing asks whether the asset was given up.
  `Fatal` says which versions of which assets kill the editor in which pass;
  while one of them is there (`Harms`) the pass is not made, the editor dies
  (`KilledInPass`): a sentinel is rolled back with its checkpoint, the animation
  pass keeps the rows of the assets it came to before. On Windows the animation
  pass has a guard of its own (`AnimationIndexer.cpp` 163), which is `Fatal` empty
  for it; elsewhere it has none.
- Any of the assets may be there when the first index starts.
- `ResetDatabase` is two steps, rows and then the assets and meta tables, for it
  runs outside a transaction. A reset that fails half-way while the editor lives
  on is not modelled.
- The worker's thread failing to start is a run stopped before its first step.

### 2.6 UpdateSwap

A directory is a tree: the release it was made from, whether it is complete,
whether it holds the user's data. The editor's handlers run on its game thread;
`OnDownloadComplete` is four steps (verify, save, extract, record), separate only
for a death and for the script. A release offers this engine a *marked* asset
(with a hash), a *legacy* one without, or an *unmarked* one, which is refused.

- The answer to a check may name an older release than another answer did. It
  replaces the expected hash even while a download is on.
- Hashes are compared as the releases they belong to; damaged data match none.
- Each script has a program counter. A directory is copied in two steps, so that
  a partial copy can be seen; a rename is one. An editor that has loaded the
  plugin, or anything else, may make the ten tries to rename it fail.
- Clearing `version.json` and launching the script are one step with three
  outcomes (nothing written, cleared but not launched, launched).
- A removal that fails half-way is not modelled.

`AtomicUpdate` knows the newest release published, the release in effect and
whether the user's directories are with it. Refinement mapping: from the rename
to the end of the copy the release in effect is the backup's, for that is what a
failure brings back, and otherwise the plugin's; the user's directories are
looked for in the backup until they have been carried over. Of a release in effect
it does not say that it is complete: a torn staging directory may be installed
(see the hazard at `MonolithUpdateSubsystem.cpp` 709).

### 2.7 SourceIndex

The file is its engine half (absent, part, holed, whole) and the version of the
project's code its other half holds in full. The game thread's handlers are one
step each; the indexer is a step per phase, for the stop flag, a failure or a
death of the editor in between. `asked` and `lost` are history variables: the
code as it was when the session's last run was started, and what that run lost
without noticing.

A failure is of one of two kinds. One that is *reported* ends the run: a
transaction that cannot be begun or committed, a module, file or symbol row that
cannot be inserted, the pruning, the reset, the refresh of the scoped projection.
A *silent* one does not, the run goes on and reports success:

- inserts of includes, source chunks, inheritance, references and deprecations,
  which return nothing (`MonolithSourceDatabase.cpp` 7471-7640;
  `SPEC_MonolithSource.md` 47 says so);
- a source file that cannot be read, a warning and a row without symbols
  (`MonolithCppParser.cpp` 19, `MonolithReferenceBuilder.cpp` 24);
- the symbols of the engine that do not load before a project run, without which
  references to them are not resolved (`MonolithSourceIndexer.cpp` 289).

Each phase that goes on may add the half it writes to `lost` (`Losses`). A half a
run lost rows of is *holed* at its end, or holds no version of the code in full;
later runs do not know.

- Activation is durable; `auto` is what this session heeds.
- `TryOpenDatabaseWithRetry` may fail although the file is there.
- A module is committed or rolled back as a whole; a phase that ends early has
  left the half it works on as it was after the reset or the pruning, a part.
- The projections (crg_*, FTS) are left out. The refresh of the scoped one may
  fail and end a project run; that its commit may fail unnoticed
  (`MonolithSourceDatabase.cpp` 4316) concerns the projection alone and is not
  modelled, nor is their rebuild in a full run.

## 3. Runs

| run | bounds | shows |
|---|---|---|
| `proxy_safety` | all four conditions, 2 unread lines; 3.4 million states | `LiveSurfaceIsWithdrawn`, `LiveAttemptsRespectBackoff`, `PollerHonorsBackoff` |
| `proxy_live` | two conditions, 1 unread line | `DeadEndpointBecomesKnown`, `ReadyEndpointBecomesKnown`, `CloseLeadsToExit` |
| `proxy_cold` | violation | a list that misses its budget leaves the cold tools for good |
| `dedup` | 3 calls, 2 entries, windows 1 and 3, time to 6; 7 thousand states | `ReplayOnlyAfterEviction`, `WindowCountsFromCompletion`, `OnlyCurrentInFlight` |
| `jobs` | 3 jobs, one not cancellable, 2 rows | capacity, `NoAbandonedRow`, `NoFalseComplete`, the refinement `ImplementsLifecycle`, and `CancellationIsAnswered` |
| `shutdown_safety` | 7 passes of all kinds; 2 thousand states | `PayloadNeedsFrame`, `NoTriggerOnPooledEvent`, `OnlyABareWaitHangs`, `EveryRunIsReported`, the refinement `ImplementsSequentialRun` |
| `shutdown_bare` | violation, the same passes | with a bare wait `Deinitialize` never returns |
| `resume` | 5 assets, 2 of them killers (one without a hash), one that fails, one only its pass indexes; any of them present; the GAS pass dies of the first killer and the animation pass of the animation, each in one of its 2 versions; 1 mishap; 470 thousand states | `GivenUpAfterTwo`, `CheckpointMeansRows`, `CompleteAccountsForAll`, `SentinelRowsOnce`, `HealthyIsNeverSkipped`, `IndexedRowsAreKept`, `IndexCompletes` |
| `resume_trap` | violation, one killer that the GAS pass loads too, no mishap | given up by the deep pass, it kills the editor in the GAS pass at every launch |
| `resume_revert` | violation, one asset that may be brought back to an earlier version | a complete index has no rows for it |
| `update` | 3 releases, one of each kind, 1 script, deaths and failing writes; 5 thousand states | `UserDataSurvives`, `RollbackIsPossible`, `RecordIsNewer`, the refinement `ImplementsAtomicUpdate` |
| `source` | 3 versions of the code, every fault in any number; 68 thousand states | `WriterIsAlone`, `ServedIsFresh`, `RunEnds` |

`TerminalIsFinal` and `CompleteMeansEveryPassRan` are proved and not checked by a
run of their own: they follow from the refinements `ImplementsLifecycle` and
`ImplementsSequentialRun`, which are.

Why the bounds are enough. *Proxy*: failures saturate where the exponent does
(4), and the clock where the longest cooldown ends (60 s), so neither cuts a
behaviour; two unread lines let a list be queued behind a call that fails.
*Repeat guard*: three signatures overflow two entries, and time 6 lets each
window pass twice. *Jobs*: three jobs overflow two rows; a job's producer never
looks at another job. *Dispatch*: every kind of pass is present, and a sentinel
both before and after a collection; a pass never looks at one but the last.
*Resume*: two killers meet each other, a failing and a healthy asset in a batch
of two. The crashes of killers are not counted as mishaps, so the mishap is one
more interruption on top of the four they cause, and of the deaths in post-passes,
which are not counted at all: the GAS pass dies at every launch as long as the
first killer is as it was, and the mishap may be the edit that ends it. `Deaths` excludes a death
inside the reset and `Reverts` an edit that restores an earlier version: with
either, `CheckpointMeansRows` fails (`resume_revert` shows the second).
*Update*: three releases let one be installed, one staged and one answered late,
and the kinds come in an order in which each meets the hash of another; sessions
and faults are not bounded. One script, because the code starts one per exit: with two at a
time `UserDataSurvives` fails (one removes the backup of the other), as it does
when the copies that carry the user's directories over may fail. *Source*: three
versions are one before a run, one during it and one after; sessions, runs and
faults are not bounded.

Deadlock is checked except where the system ends: a job's producers and an
indexing run are finite, a finished full index waits for nothing, and a plugin
that was installed from a torn staging directory is not loaded any more.

### Fairness

- *ProxyRouting.* Both threads run (weak fairness), time passes, and the client
  reacts to a notification (strong, for its inbox may be full again and again).
  Nothing is assumed of the endpoint or of further calls.
- *AsyncJobRegistry.* A producer that works polls for cancellation, and one that
  is done settles; both are straight-line code. Work need not return.
- *GameThreadDispatch.* The worker runs. Every tick serves every registered
  ticker and task, hence strong fairness per dispatch, but only while no exit is
  requested: then nobody promises another tick, and the subsystems are
  deinitialized. Inside a served dispatch and inside `Deinitialize` the game
  thread goes on. The wait for the compiler is capped at 120 s by the code.
- *SourceIndex.* The indexer's thread runs, the game thread serves the completion
  while the editor is on, and its join in `Deinitialize` returns once the thread
  is gone. Nothing else is promised: no request, and no open that succeeds.
- *FullIndexResume.* The worker goes on, and an editor that went down is launched
  again or the index asked for again: `StartPreferredIndex` then resumes it.
  Nothing is assumed of the mishaps but that they end, which their bound says;
  the killers keep killing the deep pass. What dies in a post-pass dies there at
  every launch, so `IndexCompletes` carries the condition that from some time on
  no present asset does.

### What the violations say

Each is a disagreement between the code and what a comment, an answer or the
changelog says of it; `PROJECT.json` quotes the lines.

1. A slow list is answered with the cold tools while the verdict stays up, and
   the notification that would bring the live ones back is sent only on a flip
   (`proxy_cold`).
2. Three post-passes wait without a way out; unloading the plugin or quitting
   during one of them hangs in the join (`shutdown_bare`).
3. Queueing a changed asset deletes its rows and keeps its stamp; a package
   brought back to the stamped version is then skipped (`resume_revert`).
   `resume` shows that the stamp is right as long as versions are new.
4. An asset that was given up is loaded again by the post-pass of its class: it
   kills the editor there at every launch, although the changelog says that
   repeatedly crashing assets are skipped "rather than trapping every editor
   launch in a crash loop" (`resume_trap`). `resume` shows what does hold: the
   deep pass gives it up after two deaths, deaths in post-passes leave nothing
   behind, and the index completes once they end.

More are listed as hazards with a note, for no property states what the
documents say of them:

- an asset whose indexer fails keeps the attempts of crashes it did not cause;
- the animation pass writes its rows again on a resume;
- the copies that preserve the user's directories in an update are not checked;
- a failed full run of the source index closes the file "until a full reindex
  succeeds", says the answer to the caller, but a project run is accepted and,
  when it succeeds, opens the part that is left of the engine index (the header
  and the log say only that a reindex has to succeed);
- a project run of the source index reports success although the commit of its
  scoped projection failed, which the specification counts among the failures
  that "all produce an unsuccessful run".

## 4. Proofs

All theorems hold for every value of the constants that meets the named
assumptions of the modules: any set of endpoint conditions and any inbox; any
set of calls, any windows and any size of the table; any
finite set of jobs and any positive capacity; any plan of passes; any finite set
of assets of any kinds, any post-passes and any number of mishaps; any number of
releases of any kinds; any number of versions of the code and any faults.

**ProxyRoutingProofs.** `IInv` strengthens the run's invariants.
`LiveSurfaceIsWithdrawn` is not inductive: an answer main is about to write may
be live while the verdict has fallen. `LiveAnswerIsWithdrawn` covers that answer
as the surface is covered, and `ColdUntilMarked` says that only a marked success
makes an answer live. `LiveAttemptsRespectBackoff` and the action property
`PollerHonorsBackoff` need `CooldownCoversBackoff`: what is left of the cooldown
is at least the backoff minus the time since the last failure, which the poller
cannot change. `StopProtocol` orders the flag, the poller's end and main's exit.

**ProxyDedupProofs.** `GuardInv` says of every entry that it has its call's window
and, when it is not in flight, the time of its last completion, and of every call
that has left the table inside its window that it was evicted. Pruning happens
only between two calls, when nothing is in flight: then an entry is unexpired
exactly when its call is inside its window (`UnexpiredIsWithin`), so what pruning
drops besides the expired is the oldest of a table at its limit (`PrunedTable`).

**AsyncJobRegistryProofs.** `WithinCapacity` rests on a victim existing when the
registry is full. `NoAbandonedRow` needs that only a cancellable row is ever
flagged and that a flag once seen stays (`OnlyCancellableIsFlagged`,
`CancellableIsFixed`, `SeenFlagStays`): otherwise the acknowledgement a producer
has decided on could be refused. `NoFalseComplete` needs `SuccessIsReal`.
`Refinement` maps each step to a step of `JobLifecycle` or a stutter, under the
invariant; that a final status is final (`TerminalTheorem`) follows from it.

**GameThreadDispatchProofs.** The argument follows an event. `EventInv(p)` says
who may still use the event of pass `p`: held exactly while the worker waits for
it, pooled only after its trigger, leaked by a ticker only with an aborted token.
`ServingInv` says that the game thread claims a token before it runs the payload,
`WorkerInv` where the worker may be, and `ProgressInv` that a pass left behind
without having run has stopped the run. With an invariant per pass,
`PayloadNeedsFrame`, `NoTriggerOnPooledEvent` and `CompleteMeansEveryPassRan`
follow for every plan.

`Refinement` needs besides that no payload runs twice and that the mark is the
last thing a run writes (`OnceInv`). Its step of substance is the payload's: the
game thread runs it, and it is the abstract `Make` only because the worker is
still in that very pass. When the worker moves on, `LeftBehind` says that what it
leaves out has broken the run.

Liveness is beyond the prover, but what the end of a join rests on is safety.
`JoinTheorem`: while `Deinitialize` joins the worker, the guard of some step of
the worker holds, unless it has ended or is in a bare wait nobody will end. That a
mandatory wait does not hang is in `JoinInv`: a claimed token was triggered, or is
still served, and a game thread that joins serves nothing. `DescentTheorem`: each
step of a joined worker lowers `StepsLeft`, at most five for each pass left, for
no slice is tried again once the stop flag is up and the join announced. With the
fairness of 3 that is `OnlyABareWaitHangs`, of which TLC checks the whole.

**FullIndexResumeProofs.** `GivenUpAfterTwo` says of `kills`, a history variable that
counts the deaths in the deep pass, what the code counts in
`deep_index_attempts`. It is not the promise that no asset traps the editor, which
the code does not keep (`resume_trap`): deaths in post-passes are steps like any
other here, for any `Fatal`, and what is proved is that they do not disturb the
count. `KillInv` relates the two: of an asset
that would kill the editor, the committed attempts are at least its deaths, and
one more while it is in the batch, for `BumpDeepIndexAttempts` commits before the
work begins and only an asset that survives its indexer has its attempts cleared.
An asset is attempted again only below the limit: `QueueInv` holds that for the
committed and the uncommitted copy of every queued asset, so that a rollback
changes nothing. `SentinelRowsOnce` needs `RowsOnce` of both copies (no checkpoint,
no rows) and `FreshInv`: a run that is not a resume does not look at the
checkpoints, and finds none ahead of it. `TransactionInv` says where the copies
may differ. The proof groups the actions by what they do to the database:
`Shrunk` covers all but the three that write rows of post-passes or reset. It
does not depend on `Deaths` or `Reverts`: both theorems hold with a death inside
the reset.

`HealthyIsNeverSkipped` is about a run that nothing but killers interrupts: an
asset that neither kills nor fails is not given up. `HealthInv` says more of such
an asset. A run that is not a resume finds it untried, so a death beside a killer
in a batch of the first run costs it one attempt; a resume takes its assets one
by one (`ResumeBatch`, on the cardinality of a batch), so the asset can be in the
batch of another death only if it is the killer. It stays at one attempt, below
the limit, until it is indexed and its attempts are cleared. A death in a
post-pass finds no batch, so it adds nothing (`PassDeathSpares`); the argument is
about assets that are there, and what is queued or in the batch stays among them
(`PresentKept`).

**FullIndexCheckpointProofs.** Hypothesis `OnwardOnly`: no edit restores an earlier
version and the editor does not die inside the reset; without either
`CheckpointMeansRows` is false, see 3. `CheckpointMeansRows` is not inductive: whether new rows are the
only ones depends on what was there when the asset was queued, and whether the
checkpoint matches them on when its hash was read. `EmptyInv` says that what is
queued or in the batch has no rows (after a rollback it may, but then the queue
is dropped), `StampInv` that no checkpoint and no captured hash is ahead of the
package, so that an edit never makes an old one match, and `AgreeInv` that a
transaction under way leaves alone what the committed copy vouches for. The last
gives `IndexedRowsAreKept`. `AccountInv` follows an asset through a run that has
not been stopped: it is still to be visited, queued or in the batch until it has
rows or two attempts. With `CheckpointMeansRows` for those a resume skips, that
gives `CompleteAccountsForAll` when the run is marked complete.

**UpdateSwapProofs.** Hypotheses: `OneScript` (at most one script at a time) and,
for all but the types, `CopiesSucceed` ("preserve" is not among the
faults); without either the theorems are false, see 3. Deaths of the editor and
failing writes may be among the faults. `SwapInv` says where the complete trees
are at each place of the script: until it is renamed the plugin holds the user's
data, from then until they are carried over the backup does and is complete, and
the backup is removed only after. `NewerInv` gives `RecordIsNewer`: what is staged
is newer than what the plugin folder holds, or than the backup while the folder is
being replaced, for versions are compared when an update is offered, and the
folder of an editor that is loaded stays what it was loaded from. What it needs of the editor is that no editor is
loaded from a plugin that is not whole and that no handler touches plugin or
backup. `Refinement` adds `PublishedInv` (nothing is offered, fetched or staged
that was not published): no handler changes what is in effect
(`EditorInvisible`), and of the script's steps only the end of a copy does, to
the release that was staged, which is newer (`ScriptInstalls`).

**SourceIndexProofs.** No hypotheses; failures of both kinds are among the steps.
`ServedIsFresh` is not inductive: a run that finished leaves a completion under
way, and the handle is opened only when it is served. `IInv` says what the file
holds at each place of the indexer, relates `read` and `asked` (what a run reads
is at least as new as its request), and says of a file that may be opened, by
whatever way, that it is `Delivered`: not latched and not indexing means that rows
at least as new as `asked`, and after a full run the whole engine, are there, or
that the run lost some of them. A run that loses rows only ever adds to `lost`
(`LossesGrow`), and the next one starts with nothing lost, so it has to deliver
again what it writes.

The safety half of `RunEnds` is proved too. `RunIsOwedTheorem`: a run that is not
over is owed its next step by the indexer, by a completion that waits for the game
thread, or by the join of `Deinitialize`. `DescentTheorem`: a run has a place that
only its own steps change, each of them to one nearer the end, since every trigger
is refused while a run is on, unless the editor's end cuts it off; no more than six of them separate it from its answer.
What is left to TLC is that these steps are taken, which is the fairness of the run.

Only model-checked: the liveness properties (`DeadEndpointBecomesKnown`,
`ReadyEndpointBecomesKnown`, `CloseLeadsToExit`, `CancellationIsAnswered`,
`OnlyABareWaitHangs`, `EveryRunIsReported`, `IndexCompletes`, `RunEnds`), for
liveness under fairness and ENABLED are out of the prover's reach, and the
violations, which are counterexamples. Every invariant and action property a
passing run checks, and each of the three refinements, is a theorem.

## 5. Plan

The modules above are done. What would come next, in this order:

1. The localization pipeline: one worker, child processes with time limits, and
   a shutdown that cancels a job the registry may have forgotten.
2. `GameThreadDispatch` extended by the lifetimes of tasks and a second run after
   a forced reindex.
3. The safety half of the other liveness properties, as `DescentTheorem` is for
   the join in GameThreadDispatchProofs and for a run in SourceIndexProofs: a
   measure that the steps lower.

## 6. Running

    tlc -workers 2 -config MCProxyRouting.cfg MCProxyRouting
    tlapm ProxyRoutingProofs.tla

and likewise for the other modules; `PROJECT.json` names each run's module and
configuration.
