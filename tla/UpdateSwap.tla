------------------------------ MODULE UpdateSwap ------------------------------
(***************************************************************************)
(* The self-update of the plugin: UMonolithUpdateSubsystem in the editor   *)
(* and the Windows script it leaves behind, monolith_swap.bat.             *)
(*                                                                         *)
(* Three directories and one file are shared between editor sessions and   *)
(* scripts: the plugin, its backup, Saved/Monolith/Staging, version.json.  *)
(* A directory is a tree: the release it was made from, whether it is      *)
(* complete, and whether it holds what the user keeps in the plugin folder *)
(* (Saved, .git and the other directories the script carries over).        *)
(*                                                                         *)
(* The handlers of the editor run on its game thread, one at a time; the   *)
(* three stages of OnDownloadComplete are separate only for a death of the *)
(* editor and for the scripts, which run beside it.  An editor counts here *)
(* while the plugin is loaded in it, which needs a complete plugin, and    *)
(* which keeps the folder from being renamed.                              *)
(***************************************************************************)
EXTENDS Integers

CONSTANTS
    MaxRelease,   \* releases that are published at most
    Kind,         \* what a release offers this engine
    Scripts,      \* swap scripts that may be open at a time
    Faults        \* what may go wrong, besides what the code answers for

Releases == 1 .. MaxRelease

\* marked: a hash for the asset; legacy: an engine-agnostic asset without one;
\* unmarked: an asset for the engine without one, which is refused.
Kinds == {"marked", "legacy", "unmarked"}

\* death: the editor dies; disk: saving or extracting fails; preserve: carrying
\* the user's directories over fails.
FaultKinds == {"death", "disk", "preserve"}

ASSUME ReleaseAssumption == MaxRelease \in Nat \ {0} /\ Kind \in [Releases -> Kinds]
ASSUME FaultAssumption   == Faults \subseteq FaultKinds

VARIABLES
    latest,     \* the newest release published
    editor,     \* on, closing or off
    current,    \* MONOLITH_VERSION, compiled into the plugin that was loaded
    dialog,     \* the release captured by the update dialog, 0 without one
    expected,   \* the release PendingExpectedSha256 belongs to, 0 when empty
    stage,      \* where the download is; bUpdateInProgress is stage # "none"
    fetching,   \* the release being downloaded
    armed,      \* PendingStagingDir is set
    record,     \* version.json: the pending release, 0 when nothing is staged
    plugin, backup, staging,
    pc          \* where each script is

editorVars == <<current, dialog, expected, stage, fetching, armed>>
diskVars   == <<record, plugin, backup, staging>>
vars       == <<latest, editor, editorVars, diskVars, pc>>

Absent  == [v |-> -1, whole |-> FALSE, saved |-> FALSE]
Trees   == [v : 0 .. MaxRelease, whole : BOOLEAN, saved : BOOLEAN] \cup {Absent}
Swapping == {"copy", "copying", "restore", "preserve"}
Places   == Swapping \cup {"none", "waiting", "prompt", "backup", "move", "cleanup"}

Init ==
    /\ latest = 0
    /\ editor = "off" /\ current = 0 /\ dialog = 0 /\ expected = 0
    /\ stage = "none" /\ fetching = 0 /\ armed = FALSE
    /\ record = 0
    /\ plugin = [v |-> 0, whole |-> TRUE, saved |-> TRUE]
    /\ backup = Absent /\ staging = Absent
    /\ pc = [s \in Scripts |-> "none"]

-----------------------------------------------------------------------------
(* The editor *)

\* The game thread is not inside OnDownloadComplete.
Responsive == editor = "on" /\ stage \in {"none", "fetch"}

Publish ==
    /\ latest < MaxRelease
    /\ latest' = latest + 1
    /\ UNCHANGED <<editor, editorVars, diskVars, pc>>

\* Initialize: an update recorded by an earlier session is armed again, or
\* forgotten when its staging directory is gone (ApplyStagedUpdate).
StartEditor ==
    /\ editor = "off" /\ plugin.whole
    /\ editor' = "on" /\ current' = plugin.v
    /\ dialog' = 0 /\ expected' = 0 /\ stage' = "none" /\ fetching' = 0
    /\ armed' = (record # 0 /\ staging # Absent)
    /\ record' = IF staging = Absent THEN 0 ELSE record
    /\ UNCHANGED <<latest, plugin, backup, staging, pc>>

\* CompareVersions.
\* Mutants: the running release is offered again; any other release is.
IsAsNew(r) == r >= current
IsOther(r) == r # current
IsNewer(r) == r > current

\* The answer to a CheckForUpdate.  It may come late and name an older release
\* than another answer did.  It replaces the expected hash, also when it is
\* refused or when the dialog of an earlier answer stays open.
CheckAnswered(r) ==
    /\ Responsive /\ r <= latest /\ IsNewer(r)
    /\ expected' = IF Kind[r] = "marked" THEN r ELSE 0
    /\ dialog' = IF Kind[r] = "unmarked" \/ dialog # 0 THEN dialog ELSE r
    /\ UNCHANGED <<latest, editor, current, stage, fetching, armed, diskVars, pc>>

\* Either button closes the dialog; Install starts a download unless one runs.
CloseDialog ==
    /\ Responsive /\ dialog # 0
    /\ dialog' = 0
    /\ \/ UNCHANGED <<stage, fetching>>
       \/ stage = "none" /\ stage' = "fetch" /\ fetching' = dialog
    /\ UNCHANGED <<latest, editor, current, expected, armed, diskVars, pc>>

\* The download has no answer or another code than 200.
\* Mutant: the flag is released and the download kept.
DownloadFailsHeld ==
    /\ Responsive /\ stage = "fetch"
    /\ stage' = "none"
    /\ UNCHANGED <<latest, editor, current, dialog, fetching, expected, armed, diskVars, pc>>
DownloadFails ==
    /\ Responsive /\ stage = "fetch"
    /\ stage' = "none" /\ fetching' = 0
    /\ UNCHANGED <<latest, editor, current, dialog, expected, armed, diskVars, pc>>

\* OnDownloadComplete up to the first write.  The data are compared with the
\* hash at hand, if any; damaged or of another release, they are refused.
\* (Damaged data nothing was compared with fail later, as a fault of the disk.)
DownloadArrives(intact) ==
    /\ Responsive /\ stage = "fetch"
    /\ intact \/ expected # 0
    /\ expected' = 0
    /\ IF expected # 0 /\ ~(intact /\ expected = fetching)
         THEN stage' = "none" /\ fetching' = 0
         ELSE stage' = "save" /\ fetching' = fetching
    /\ UNCHANGED <<latest, editor, current, dialog, armed, diskVars, pc>>

\* The archive is saved and what was staged before is deleted.
SaveZip ==
    /\ editor = "on" /\ stage = "save"
    /\ \/ stage' = "extract" /\ staging' = Absent /\ UNCHANGED fetching
       \/ "disk" \in Faults /\ stage' = "none" /\ fetching' = 0 /\ UNCHANGED staging
    /\ UNCHANGED <<latest, editor, current, dialog, expected, armed, record, plugin, backup, pc>>

\* What an extraction leaves that does not come to its end.
Remains == {Absent, [v |-> fetching, whole |-> FALSE, saved |-> FALSE]}

ExtractZip ==
    /\ editor = "on" /\ stage = "extract"
    /\ \/ /\ staging' = [v |-> fetching, whole |-> TRUE, saved |-> FALSE]
          /\ stage' = "record" /\ UNCHANGED fetching
       \/ /\ "disk" \in Faults /\ staging' \in Remains
          /\ stage' = "none" /\ fetching' = 0
    /\ UNCHANGED <<latest, editor, current, dialog, expected, armed, record, plugin, backup, pc>>

\* version.json is written and the swap registered.
RecordStaged ==
    /\ editor = "on" /\ stage = "record"
    /\ record' = fetching /\ armed' = TRUE
    /\ stage' = "none" /\ fetching' = 0
    /\ UNCHANGED <<latest, editor, current, dialog, expected, plugin, backup, staging, pc>>

\* Deinitialize and the OnPreExit it calls: the script is written, version.json
\* cleared, and then the script launched; writing and launching may both fail.
CloseEditor ==
    /\ Responsive
    /\ editor' = "closing"
    /\ dialog' = 0 /\ stage' = "none" /\ fetching' = 0
    /\ \/ UNCHANGED <<record, pc>>
       \/ armed /\ record' = 0 /\ UNCHANGED pc
       \/ /\ armed /\ record' = 0
          /\ \E s \in Scripts : pc[s] = "none" /\ pc' = [pc EXCEPT ![s] = "waiting"]
    /\ UNCHANGED <<latest, current, expected, armed, plugin, backup, staging>>

\* The process is gone, at the end of its shutdown or in the middle of anything.
EditorGone ==
    /\ \/ editor = "closing"
       \/ editor = "on" /\ "death" \in Faults
    /\ editor' = "off"
    /\ stage' = "none" /\ fetching' = 0
    /\ IF stage = "extract" THEN staging' \in Remains ELSE UNCHANGED staging
    /\ UNCHANGED <<latest, current, dialog, expected, armed, record, plugin, backup, pc>>

-----------------------------------------------------------------------------
(* The script *)

Goto(s, from, to) == pc[s] = from /\ pc' = [pc EXCEPT ![s] = to]

Untouched == UNCHANGED <<latest, editor, editorVars, record>>

\* The loop that waits for the editor to be gone gives up after 120 seconds.
Wait(s) ==
    /\ \/ editor = "off" /\ Goto(s, "waiting", "prompt")
       \/ editor # "off" /\ Goto(s, "waiting", "none")
    /\ Untouched /\ UNCHANGED <<plugin, backup, staging>>

Confirm(s) ==
    /\ Goto(s, "prompt", "backup") \/ Goto(s, "prompt", "none")
    /\ Untouched /\ UNCHANGED <<plugin, backup, staging>>

RemoveStaleBackup(s) ==
    /\ Goto(s, "backup", "move")
    /\ backup' = Absent
    /\ Untouched /\ UNCHANGED <<plugin, staging>>

\* Ten tries to rename the plugin folder; an editor that was started meanwhile,
\* or anything else that holds a file, makes all of them fail.  A backup that is
\* there again takes the folder in, where nothing looks for it.
Moved(s) ==
    /\ Goto(s, "move", "copy") /\ editor = "off" /\ plugin # Absent
    /\ backup' = IF backup = Absent THEN plugin ELSE backup
    /\ plugin' = Absent
\* Mutant: the check after the tries is not reached.
NotMovedGoesOn(s) == Goto(s, "move", "copy") /\ UNCHANGED <<plugin, backup>>
NotMoved(s) == Goto(s, "move", "none") /\ UNCHANGED <<plugin, backup>>

MoveToBackup(s) ==
    /\ Moved(s) \/ NotMoved(s)
    /\ Untouched /\ UNCHANGED staging

StartCopy(s) ==
    /\ \/ /\ staging # Absent /\ Goto(s, "copy", "copying")
          /\ plugin' = [staging EXCEPT !.whole = FALSE]
       \/ staging = Absent /\ Goto(s, "copy", "restore") /\ UNCHANGED plugin
    /\ Untouched /\ UNCHANGED <<backup, staging>>

EndCopy(s) ==
    /\ \/ /\ staging # Absent /\ Goto(s, "copying", "preserve")
          /\ plugin' = staging
       \/ Goto(s, "copying", "restore") /\ UNCHANGED plugin
    /\ Untouched /\ UNCHANGED <<backup, staging>>

\* The partial copy is removed and the backup moved back.
RestoreBackup(s) ==
    /\ Goto(s, "restore", "none")
    /\ plugin' = backup /\ backup' = Absent
    /\ Untouched /\ UNCHANGED staging

\* The copies of the user's directories, none of which is checked.
\* Mutant: Saved is left in the backup.
PreserveNothing(s) ==
    /\ Goto(s, "preserve", "cleanup")
    /\ Untouched /\ UNCHANGED <<plugin, backup, staging>>
Preserve(s) ==
    /\ Goto(s, "preserve", "cleanup")
    /\ \/ plugin' = [plugin EXCEPT !.saved = @ \/ backup.saved]
       \/ "preserve" \in Faults /\ UNCHANGED plugin
    /\ Untouched /\ UNCHANGED <<backup, staging>>

Cleanup(s) ==
    /\ Goto(s, "cleanup", "none")
    /\ backup' = Absent /\ staging' = Absent
    /\ Untouched /\ UNCHANGED plugin

Editor ==
    \/ Publish \/ StartEditor \/ CloseDialog
    \/ \E r \in Releases : CheckAnswered(r)
    \/ DownloadFails \/ (\E intact \in BOOLEAN : DownloadArrives(intact))
    \/ SaveZip \/ ExtractZip \/ RecordStaged
    \/ CloseEditor \/ EditorGone

Script(s) ==
    \/ Wait(s) \/ Confirm(s) \/ RemoveStaleBackup(s) \/ MoveToBackup(s)
    \/ StartCopy(s) \/ EndCopy(s) \/ RestoreBackup(s)
    \/ Preserve(s) \/ Cleanup(s)

Next == Editor \/ \E s \in Scripts : Script(s)

Spec == Init /\ [][Next]_vars

-----------------------------------------------------------------------------
\* Types, and a download on its way exactly while the flag is held.
TypeOK ==
    /\ latest \in 0 .. MaxRelease
    /\ editor \in {"on", "closing", "off"}
    /\ {current, dialog, expected, fetching, record} \subseteq 0 .. MaxRelease
    /\ stage \in {"none", "fetch", "save", "extract", "record"}
    /\ (stage = "none") = (fetching = 0)
    /\ armed \in BOOLEAN
    /\ {plugin, backup, staging} \subseteq Trees
    /\ pc \in [Scripts -> Places]

\* What the user keeps in the plugin folder (the source and project indexes in
\* Saved, a git checkout) is never lost: while no script is half-way it is in
\* the plugin, and at any time in the plugin or in the backup.
UserDataSurvives ==
    /\ plugin.saved \/ backup.saved
    /\ (\A s \in Scripts : pc[s] \notin Swapping) => plugin.saved

\* From the moment the plugin folder is renamed until the new one is in place,
\* the backup is the complete plugin that was running: a copy that fails, at
\* any point, is undone by moving it back.
RollbackIsPossible ==
    \A s \in Scripts :
        pc[s] \in {"copy", "copying", "restore"} => backup.whole /\ backup.saved

\* An update that is recorded is newer than the plugin it is going to replace,
\* once the script that may be installing it has ended: no session offers to
\* install over a release what it has already, or an older one.
RecordIsNewer ==
    (record # 0 /\ staging # Absent /\ \A s \in Scripts : pc[s] = "none")
        => staging.v > plugin.v

-----------------------------------------------------------------------------
(* The update as the user sees it: until the copy has ended, the plugin in   *)
(* effect is the backup a failure brings back; until the user's directories  *)
(* are carried over, they are there.                                         *)

InBackup(places) == \E s \in Scripts : pc[s] \in places

Update == INSTANCE AtomicUpdate
          WITH Bound <- MaxRelease, published <- latest,
               installed <- IF InBackup({"copy", "copying", "restore"})
                              THEN backup.v ELSE plugin.v,
               kept <- IF InBackup(Swapping) THEN backup.saved ELSE plugin.saved

\* Sessions, downloads, deaths and the script together implement the atomic
\* update: the end of a copy is the only step that changes the release in effect,
\* always to a newer one, and no step parts it from the user's directories.
ImplementsAtomicUpdate == Update!UpdateSpec
=============================================================================
