----------------------------- MODULE SourceIndex -----------------------------
(***************************************************************************)
(* The index of the engine's and the project's C++: EngineSource.db,       *)
(* UMonolithSourceSubsystem on the game thread, and the indexer thread.    *)
(*                                                                         *)
(* A full run deletes the file and indexes engine and project; a project   *)
(* run takes the project's rows out and indexes the project again.  Each   *)
(* module is committed by itself, and nothing in the file says whether a   *)
(* run came to its end.  The subsystem closes its own handle while a run   *)
(* is on, and remembers a failed one in memory (the latch).                *)
(*                                                                         *)
(* A run ends at a failure that is reported to it.  Many are not: an       *)
(* include, a chunk, an inheritance, a reference, a deprecation that is    *)
(* not written, a source file that cannot be read, the symbols of the      *)
(* engine that do not load.  The run goes on and reports success.          *)
(*                                                                         *)
(* The file is abstracted to its engine half (absent; part; holed: a full  *)
(* run came to its end over it and lost rows; whole) and the version of    *)
(* the project's code that its other half holds in full, 0 for none, a     *)
(* part, or one with holes.  The projections derived from both (crg_*,     *)
(* FTS) are left out.                                                      *)
(***************************************************************************)
EXTENDS Integers

CONSTANTS
    MaxCode,    \* versions of the project's code
    Faults      \* what may go wrong

\* write: a step of the indexer fails and reports it; silent: one fails and does
\* not; open: the file cannot be opened for reading; thread: no indexer thread;
\* death: the editor dies.
FaultKinds == {"write", "silent", "open", "thread", "death"}

ASSUME CodeAssumption  == MaxCode \in Nat \ {0}
ASSUME FaultAssumption == Faults \subseteq FaultKinds

VARIABLES
    code,       \* the version of the project's code on disk
    activated,  \* durable activation: off, inherited from the project, user
    editor,     \* on, closing (inside Deinitialize) or off
    auto,       \* bAutomaticIndexingEnabled
    indexing,   \* bIsIndexing
    latched,    \* bDatabaseRequiresSuccessfulReindex
    reader,     \* is the subsystem's handle open
    recent,     \* a reload was answered less than 5 s ago
    cooling,    \* opening the file failed less than 2 s ago
    worker,     \* where the indexer is
    kind,       \* full or project
    stop,       \* bShouldStop
    read,       \* the version of the code its project phase read
    lost,       \* what the last run lost without noticing (history)
    posted,     \* its completion, on its way to the game thread
    asked,      \* the code when this session's last run was started
    file, rows  \* the two halves of EngineSource.db

gateVars   == <<activated, auto, recent>>
readerVars == <<indexing, latched, reader, cooling>>
workerVars == <<worker, kind, stop, read, lost, posted, asked>>
diskVars   == <<file, rows>>
vars       == <<code, editor, gateVars, readerVars, workerVars, diskVars>>

Places == {"idle", "open", "engine", "prune", "project", "finalize", "check"}

Init ==
    /\ code = 1 /\ activated \in {"off", "inherited", "user"}
    /\ editor = "off" /\ auto = FALSE /\ recent = FALSE
    /\ indexing = FALSE /\ latched = FALSE /\ reader = FALSE /\ cooling = FALSE
    /\ worker = "idle" /\ kind = "full" /\ stop = FALSE /\ read = 0
    /\ lost = {} /\ posted = "none" /\ asked = 0
    /\ file = "absent" /\ rows = 0

-----------------------------------------------------------------------------
(* The subsystem, on the game thread *)

\* TryOpenDatabaseWithRetry, for a handle that is closed.
Outcomes == {o \in BOOLEAN : IF o THEN file # "absent"
                                  ELSE file = "absent" \/ "open" \in Faults}

Handle(o) == reader' = o /\ cooling' = ~o

Opens == \E o \in Outcomes : Handle(o)

Spawn(k) ==
    /\ reader' = FALSE /\ indexing' = TRUE
    /\ worker' = "open" /\ kind' = k
    /\ stop' = FALSE /\ read' = 0 /\ lost' = {} /\ posted' = "none" /\ asked' = code

\* Mutant of StaysClosed: the file is opened again as if nothing had failed.
NeverClosed(isLatched) == FALSE

\* Without a thread the file is opened again, unless an earlier run failed.
StaysClosed(isLatched) == isLatched

\* The two triggers, their requests once accepted.
StartRun(k, cool) ==
    /\ \/ Spawn(k) /\ cooling' = cool
       \/ /\ "thread" \in Faults
          /\ IF StaysClosed(latched) THEN reader' = FALSE /\ cooling' = cool ELSE Opens
          /\ UNCHANGED <<indexing, workerVars>>
    /\ UNCHANGED <<latched, diskVars>>

\* StartPreferredIndex: the project's code over a file that is open; a full run
\* only without a file and when asked for; a file that does not open is kept.
Preferred(isOpen, allowFull) ==
    IF file # "absent" THEN IF isOpen THEN "project" ELSE "none"
    ELSE IF allowFull THEN "full" ELSE "none"

IndexingWorkEnabled == auto /\ activated # "off"

\* The file is opened for reading whatever the activation says.
Initialize ==
    /\ editor = "off"
    /\ editor' = "on" /\ auto' = (activated # "off")
    /\ \E o \in Outcomes :
          LET k == IF activated = "off" THEN "none" ELSE Preferred(o, activated = "user")
          IN  IF k = "none"
                THEN Handle(o) /\ UNCHANGED <<indexing, latched, workerVars, diskVars>>
                ELSE StartRun(k, ~o)
    /\ UNCHANGED <<code, activated, recent>>

StartIndexing ==
    /\ editor = "on"
    /\ activated' = "user" /\ auto' = TRUE
    /\ LET k == IF indexing THEN "none" ELSE Preferred(reader, TRUE)
       IN  IF k = "none" THEN UNCHANGED <<readerVars, workerVars, diskVars>>
           ELSE StartRun(k, cooling)
    /\ UNCHANGED <<code, editor, recent>>

\* A run that is on drains.  Persisting the choice may fail.
StopIndexing ==
    /\ editor = "on"
    /\ activated' \in {"off", activated} /\ auto' = FALSE
    /\ UNCHANGED <<code, editor, recent, readerVars, workerVars, diskVars>>

TriggerReindex ==
    /\ editor = "on" /\ IndexingWorkEnabled /\ ~indexing
    /\ StartRun("full", cooling)
    /\ UNCHANGED <<code, editor, gateVars>>

TriggerProjectReindex ==
    /\ editor = "on" /\ IndexingWorkEnabled /\ ~indexing
    /\ file # "absent"
    /\ StartRun("project", cooling)
    /\ UNCHANGED <<code, editor, gateVars>>

\* The reload hook: dropped while a run is on and for 5 s after it was heeded.
OnReloadComplete ==
    /\ editor = "on" /\ IndexingWorkEnabled /\ ~indexing /\ ~recent
    /\ file # "absent"
    /\ recent' = TRUE
    /\ StartRun("project", cooling)
    /\ UNCHANGED <<code, editor, activated, auto>>

\* Mutant of MayReopen: a request for the database does not ask for a run.
MayReopenAnyTime == ~latched

MayReopen == ~indexing /\ ~latched

\* GetDatabase, which opens the file when it is closed for no reason.
EnsureDatabaseOpen ==
    /\ editor = "on" /\ MayReopen /\ ~reader /\ ~cooling
    /\ Opens
    /\ UNCHANGED <<code, editor, gateVars, indexing, latched, workerVars, diskVars>>

FinishFailed ==
    /\ posted = "failure"
    /\ latched' = TRUE
    /\ UNCHANGED <<reader, cooling>>

\* Mutant of FinishSucceeded: the latch of an earlier failure stays.
FinishLatched ==
    /\ posted = "success"
    /\ Opens
    /\ UNCHANGED latched

FinishSucceeded ==
    /\ posted = "success"
    /\ Opens
    /\ latched' = ~reader'

\* Mutant of Settled: a failed run is not over.
SettledOnSuccess == indexing' = (posted = "failure")

Settled == indexing' = FALSE

FinishIndexing ==
    /\ editor = "on" /\ posted # "none"
    /\ FinishFailed \/ FinishSucceeded
    /\ Settled
    /\ posted' = "none"
    /\ UNCHANGED <<code, editor, gateVars, worker, kind, stop, read, lost, asked, diskVars>>

\* Deinitialize up to the join; a completion that is still queued is dropped.
CloseEditor ==
    /\ editor = "on"
    /\ editor' = "closing" /\ auto' = FALSE
    /\ stop' = TRUE
    /\ UNCHANGED <<code, activated, recent, readerVars, worker, kind, read, lost, posted, asked, diskVars>>

-----------------------------------------------------------------------------
(* The indexer thread *)

\* The writer is closed, the completion posted and the thread gone.
Return(verdict) ==
    /\ worker' = "idle"
    /\ posted' = verdict
    /\ UNCHANGED <<kind, stop, asked>>

Proceed(place) == worker' = place /\ UNCHANGED <<kind, stop, posted, asked>>

\* A failure that is reported, or the stop flag, ends the run.
Fails ==
    /\ stop \/ "write" \in Faults
    /\ Return("failure") /\ UNCHANGED <<read, lost, diskVars>>

\* A step that goes on may have lost rows of these halves of the file.
Losses(halves) ==
    {lost \cup l : l \in IF "silent" \in Faults THEN SUBSET halves ELSE {{}}}

\* What a reset that does not come to its end leaves of the file.
HalfReset ==
    \/ UNCHANGED diskVars
    \/ file' \in {"absent", "part"} /\ rows' = 0

ResetDatabase ==
    /\ worker = "open" /\ kind = "full"
    /\ \/ Proceed("engine") /\ file' = "part" /\ rows' = 0
       \/ "write" \in Faults /\ Return("failure") /\ HalfReset
    /\ UNCHANGED <<read, lost>>

OpenForWriting ==
    /\ worker = "open" /\ kind = "project"
    /\ \/ Proceed("prune")
       \/ "write" \in Faults /\ Return("failure")
    /\ UNCHANGED <<read, lost, diskVars>>

IndexEngineModules ==
    /\ worker = "engine"
    /\ \/ ~stop /\ Proceed("project") /\ lost' \in Losses({"engine"})
          /\ UNCHANGED <<read, diskVars>>
       \/ Fails

\* The project's rows go, and the symbols of the engine are loaded, or are not:
\* then what refers to them is not resolved.
PruneProjectRows ==
    /\ worker = "prune"
    /\ \/ ~stop /\ Proceed("project") /\ lost' \in Losses({"project"})
          /\ rows' = 0 /\ UNCHANGED <<read, file>>
       \/ Fails

\* A file that cannot be read leaves a row without symbols.
IndexProjectModules ==
    /\ worker = "project"
    /\ \/ ~stop /\ Proceed("finalize") /\ lost' \in Losses({"project"})
          /\ read' = code /\ UNCHANGED diskVars
       \/ Fails

\* The halves a run writes.
Written == IF kind = "full" THEN {"engine", "project"} ELSE {"project"}

\* Inheritance and references of the files of this run.
Finalize ==
    /\ worker = "finalize"
    /\ \/ /\ ~stop /\ Proceed("check")
          /\ lost' \in Losses(Written)
          /\ rows' = IF "project" \in lost' THEN 0 ELSE read
          /\ file' = IF kind # "full" THEN file
                     ELSE IF "engine" \in lost' THEN "holed" ELSE "whole"
          /\ UNCHANGED read
       \/ Fails

\* The last look at the flag.  A project run refreshes its projection before it:
\* that may fail.
CheckStop ==
    /\ worker = "check"
    /\ \/ Return(IF stop THEN "failure" ELSE "success")
       \/ kind = "project" /\ "write" \in Faults /\ Return("failure")
    /\ UNCHANGED <<read, lost, diskVars>>

Indexer ==
    /\ \/ ResetDatabase \/ OpenForWriting \/ IndexEngineModules \/ PruneProjectRows
       \/ IndexProjectModules \/ Finalize \/ CheckStop
    /\ UNCHANGED <<code, editor, gateVars, readerVars>>

-----------------------------------------------------------------------------
(* The rest *)

Leave ==
    /\ editor' = "off" /\ auto' = FALSE /\ recent' = FALSE
    /\ indexing' = FALSE /\ latched' = FALSE /\ reader' = FALSE /\ cooling' = FALSE
    /\ worker' = "idle" /\ stop' = FALSE /\ lost' = {} /\ posted' = "none" /\ asked' = 0
    /\ UNCHANGED <<code, activated, kind, read>>

\* The rest of Deinitialize, once the worker is gone.
JoinWorker ==
    /\ editor = "closing" /\ worker = "idle"
    /\ Leave /\ UNCHANGED diskVars

EditorDies ==
    /\ "death" \in Faults /\ editor # "off"
    /\ IF worker = "open" /\ kind = "full" THEN HalfReset ELSE UNCHANGED diskVars
    /\ Leave

Edit ==
    /\ code < MaxCode
    /\ code' = code + 1
    /\ UNCHANGED <<editor, gateVars, readerVars, workerVars, diskVars>>

TimePasses ==
    /\ recent \/ cooling
    /\ recent' = FALSE /\ cooling' = FALSE
    /\ UNCHANGED <<code, editor, activated, auto, indexing, latched, reader, workerVars, diskVars>>

Next ==
    \/ Initialize \/ StartIndexing \/ StopIndexing
    \/ TriggerReindex \/ TriggerProjectReindex \/ OnReloadComplete
    \/ EnsureDatabaseOpen \/ FinishIndexing \/ CloseEditor
    \/ JoinWorker \/ EditorDies
    \/ Indexer \/ Edit \/ TimePasses

Spec == Init /\ [][Next]_vars

\* The indexer's thread runs, and the game thread serves its queue and joins.
FairSpec ==
    /\ Spec
    /\ WF_vars(Indexer) /\ WF_vars(FinishIndexing) /\ WF_vars(JoinWorker)

-----------------------------------------------------------------------------
\* Types; the file is closed for reading while a run is on and while it is
\* latched.
TypeOK ==
    /\ code \in 1 .. MaxCode /\ {read, asked, rows} \subseteq 0 .. MaxCode
    /\ activated \in {"off", "inherited", "user"}
    /\ editor \in {"on", "closing", "off"}
    /\ {auto, indexing, latched, reader, recent, cooling, stop} \subseteq BOOLEAN
    /\ worker \in Places /\ kind \in {"full", "project"}
    /\ posted \in {"none", "success", "failure"}
    /\ file \in {"absent", "part", "holed", "whole"}
    /\ lost \subseteq {"engine", "project"}
    /\ reader => ~indexing /\ ~latched

\* The subsystem never holds the file open while its indexer writes it, or
\* deletes it: not through a request that comes in the middle of a run, not
\* through a completion that is late, not through Deinitialize.
WriterIsAlone == reader => worker = "idle"

\* What this session serves after a run holds the project's code as of that
\* run's start or later, and after a full run the engine's: a run that failed at
\* any point, and whatever happens to later ones, keeps the file closed until one
\* succeeds.  What is missing nevertheless was lost by the very run that was
\* answered last, in a write that reports no failure; no run serves the holes of
\* an earlier one in what it wrote.
ServedIsFresh ==
    reader => /\ rows >= asked \/ "project" \in lost
              /\ asked # 0 /\ kind = "full" => file = "whole" \/ "engine" \in lost

\* A run is answered: bIsIndexing, which refuses every request, is not held for
\* ever, however the run ends and whether the editor is closed under it.
RunEnds == indexing ~> ~indexing
=============================================================================
