--------------------------- MODULE UpdateSwapProofs ---------------------------
(***************************************************************************)
(* The safety of UpdateSwap for any number of releases of any kinds: the   *)
(* types while at most one script is open; what is said of the user's      *)
(* directories and of the rollback when, besides, the script's copies of   *)
(* those directories succeed; and that all of it is an atomic update.      *)
(***************************************************************************)
EXTENDS UpdateSwap, TLAPS

OneScript      == \A s, t \in Scripts : s = t
CopiesSucceed  == "preserve" \notin Faults

\* A script that has not touched anything finds the plugin complete, and one
\* that is about to rename it finds no backup in the way.
BeforeTheMove(s) ==
    /\ pc[s] \in {"waiting", "prompt", "backup", "move"} => plugin.whole
    /\ pc[s] = "move" => backup = Absent

\* From the move to the end of the copies of the user's directories the backup
\* is the complete plugin; until the copy has ended no editor can start.
DuringTheSwap(s) ==
    /\ pc[s] \in Swapping => backup.whole /\ backup.saved
    /\ pc[s] \in {"copy", "copying", "restore"} => ~plugin.whole

\* There is a plugin to carry the user's directories over to.
TypeInv ==
    /\ TypeOK
    /\ \A s \in Scripts : pc[s] = "preserve" => plugin # Absent

SwapInv ==
    /\ TypeInv
    /\ \A s \in Scripts : BeforeTheMove(s) /\ DuringTheSwap(s)
    /\ editor # "off" => plugin.whole
    /\ (\A s \in Scripts : pc[s] \notin Swapping) => plugin.saved

\* The handlers of the editor work on releases newer than the one it was loaded
\* from, and so does what they stage.  A swap half-way has the replaced plugin in
\* the backup; one that has copied is about to delete what was staged.
NewerInv ==
    /\ editor # "off" => current = plugin.v
    /\ editor # "on" => stage = "none"
    /\ editor = "on" => /\ dialog # 0 => dialog > current
                        /\ fetching # 0 => fetching > current
    /\ (staging # Absent /\ \A s \in Scripts : pc[s] \notin Swapping \cup {"cleanup"})
         => staging.v > plugin.v
    /\ \A s \in Scripts :
         (staging # Absent /\ pc[s] \in {"copy", "copying", "restore"})
           => staging.v > backup.v

-----------------------------------------------------------------------------
(* Types *)

LEMMA AbsentIsTree == Absent \in Trees
BY DEF Trees

\* A tree made of a release is a tree.
LEMMA MadeTree ==
    ASSUME NEW r \in 0 .. MaxRelease, NEW w \in BOOLEAN, NEW d \in BOOLEAN
    PROVE  [v |-> r, whole |-> w, saved |-> d] \in Trees
BY DEF Trees

\* Incomplete, or with the user's directories, a tree is still one.
LEMMA ChangedTree ==
    ASSUME NEW tree \in Trees, NEW d \in BOOLEAN
    PROVE  /\ tree.saved \in BOOLEAN /\ tree.whole \in BOOLEAN
           /\ tree # Absent => /\ [tree EXCEPT !.whole = FALSE] \in Trees \ {Absent}
                               /\ [tree EXCEPT !.saved = d] \in Trees \ {Absent}
<1>1. CASE tree = Absent
  BY <1>1 DEF Absent
<1>2. CASE tree \in [v : 0 .. MaxRelease, whole : BOOLEAN, saved : BOOLEAN]
  <2>1. [tree EXCEPT !.whole = FALSE] \in Trees /\ [tree EXCEPT !.saved = d] \in Trees
    BY <1>2 DEF Trees
  <2>2. [tree EXCEPT !.whole = FALSE].v >= 0 /\ [tree EXCEPT !.saved = d].v >= 0
    BY <1>2, ReleaseAssumption
  <2>3. ~ (Absent.v >= 0)
    BY DEF Absent
  <2>4. [tree EXCEPT !.whole = FALSE] # Absent /\ [tree EXCEPT !.saved = d] # Absent
    BY <2>2, <2>3
  <2> QED
    BY <1>2, <2>1, <2>4
<1> QED
  BY <1>1, <1>2 DEF Trees

LEMMA TypesInitially == Init => TypeInv
<1>1. SUFFICES ASSUME Init PROVE TypeInv
  OBVIOUS
<1>2. 0 \in 0 .. MaxRelease
  BY ReleaseAssumption
<1>3. plugin \in Trees
  BY <1>1, <1>2, MadeTree DEF Init
<1>4. backup \in Trees /\ staging \in Trees
  BY <1>1, AbsentIsTree DEF Init
<1> QED
  BY <1>1, <1>2, <1>3, <1>4 DEF Init, TypeInv, TypeOK, Places

\* The editor's handlers leave the plugin and, but for a launch, the scripts.
LEMMA EditorTypes == ASSUME TypeInv, Editor PROVE TypeInv'
<1> USE DEF TypeInv, TypeOK
<1>0. 0 \in 0 .. MaxRelease
  BY ReleaseAssumption
<1>1. Remains \subseteq Trees
  BY AbsentIsTree, MadeTree DEF Remains
<1>2. CASE Publish
  BY <1>2, ReleaseAssumption DEF Publish, editorVars, diskVars
<1>3. CASE StartEditor
  <2>1. plugin.v \in 0 .. MaxRelease
    BY <1>3 DEF StartEditor, Trees, Absent
  <2> QED
    BY <1>0, <1>3, <2>1 DEF StartEditor
<1>4. CASE CloseDialog
  <2>1. CASE stage' = stage /\ fetching' = fetching
    BY <1>0, <1>4, <2>1 DEF CloseDialog, diskVars
  <2>2. CASE stage = "none" /\ stage' = "fetch" /\ fetching' = dialog
    BY <1>0, <1>4, <2>2 DEF CloseDialog, diskVars
  <2> QED
    BY <1>4, <2>1, <2>2 DEF CloseDialog
<1>5. ASSUME NEW r \in Releases, CheckAnswered(r) PROVE TypeInv'
  BY <1>0, <1>5 DEF CheckAnswered, Releases, diskVars
<1>6. CASE DownloadFails
  BY <1>0, <1>6 DEF DownloadFails, diskVars
<1>7. ASSUME NEW intact \in BOOLEAN, DownloadArrives(intact) PROVE TypeInv'
  BY <1>0, <1>7 DEF DownloadArrives, diskVars
<1>8. CASE SaveZip
  BY <1>0, <1>8, AbsentIsTree DEF SaveZip
<1>9. CASE ExtractZip
  <2>1. [v |-> fetching, whole |-> TRUE, saved |-> FALSE] \in Trees
    BY MadeTree
  <2>2. staging' \in Trees
    BY <1>1, <1>9, <2>1 DEF ExtractZip
  <2> QED
    BY <1>0, <1>9, <2>2 DEF ExtractZip
<1>10. CASE RecordStaged
  BY <1>0, <1>10 DEF RecordStaged
<1>11. CASE CloseEditor
  <2>1. pc' = pc \/ \E s \in Scripts : pc' = [pc EXCEPT ![s] = "waiting"]
    BY <1>11 DEF CloseEditor
  <2>2. pc' \in [Scripts -> Places]
    BY <2>1 DEF Places
  <2>3. \A s \in Scripts : pc'[s] = "preserve" => pc[s] = "preserve"
    BY <2>1
  <2>4. /\ record' \in {record, 0} /\ editor' = "closing"
        /\ dialog' = 0 /\ stage' = "none" /\ fetching' = 0
        /\ UNCHANGED <<latest, current, expected, armed, plugin, backup, staging>>
    BY <1>11 DEF CloseEditor
  <2> QED
    BY <1>0, <2>2, <2>3, <2>4
<1>12. CASE EditorGone
  <2>1. staging' \in Trees
    BY <1>1, <1>12 DEF EditorGone
  <2> QED
    BY <1>0, <1>12, <2>1 DEF EditorGone
<1> QED
  BY <1>2, <1>3, <1>4, <1>5, <1>6, <1>7, <1>8, <1>9, <1>10, <1>11, <1>12 DEF Editor

\* What a step of the only script does to the places of all of them.
LEMMA ScriptMoves ==
    ASSUME TypeInv, OneScript, NEW s \in Scripts,
           NEW from \in Places, NEW to \in Places, Goto(s, from, to)
    PROVE  /\ pc[s] = from /\ pc' \in [Scripts -> Places]
           /\ \A t \in Scripts : t = s /\ pc'[t] = to
BY DEF Goto, OneScript, TypeInv, TypeOK

LEMMA ScriptTypes ==
    ASSUME TypeInv, OneScript, NEW s \in Scripts, Script(s) PROVE TypeInv'
<1> USE DEF TypeInv, TypeOK
<1>1. SUFFICES /\ {plugin, backup, staging}' \subseteq Trees
               /\ pc' \in [Scripts -> Places]
               /\ pc'[s] = "preserve" => plugin' # Absent
               /\ Untouched
  BY DEF OneScript, Untouched, editorVars
<1>2. Untouched
  BY DEF Script, Wait, Confirm, RemoveStaleBackup, MoveToBackup, StartCopy, EndCopy,
     RestoreBackup, Preserve, Cleanup
<1>3. CASE Wait(s) \/ Confirm(s)
  <2>1. PICK from \in Places : \E to \in Places \ {"preserve"} : Goto(s, from, to)
    BY <1>3 DEF Wait, Confirm, Places, Swapping
  <2>2. PICK to \in Places \ {"preserve"} : Goto(s, from, to)
    BY <2>1
  <2>3. UNCHANGED <<plugin, backup, staging>>
    BY <1>3 DEF Wait, Confirm
  <2> QED
    BY <1>2, <2>2, <2>3, ScriptMoves
<1>4. CASE RemoveStaleBackup(s)
  BY <1>2, <1>4, ScriptMoves, AbsentIsTree DEF RemoveStaleBackup, Places, Swapping
<1>5. CASE MoveToBackup(s)
  <2>1. Goto(s, "move", "copy") \/ Goto(s, "move", "none")
    BY <1>5 DEF MoveToBackup, Moved, NotMoved
  <2>2. /\ plugin' \in {plugin, Absent} /\ backup' \in {plugin, backup}
        /\ staging' = staging
    BY <1>5 DEF MoveToBackup, Moved, NotMoved
  <2>3. pc' \in [Scripts -> Places] /\ pc'[s] # "preserve"
    BY <2>1, ScriptMoves DEF Places, Swapping
  <2> QED
    BY <1>2, <2>2, <2>3, AbsentIsTree
<1>6. CASE StartCopy(s)
  <2>1. Goto(s, "copy", "copying") \/ Goto(s, "copy", "restore")
    BY <1>6 DEF StartCopy
  <2>2. plugin' \in Trees /\ UNCHANGED <<backup, staging>>
    BY <1>6, ChangedTree DEF StartCopy
  <2>3. pc' \in [Scripts -> Places] /\ pc'[s] # "preserve"
    BY <2>1, ScriptMoves DEF Places, Swapping
  <2> QED
    BY <1>2, <2>2, <2>3
<1>7. CASE EndCopy(s)
  <2>1. CASE Goto(s, "copying", "preserve") /\ staging # Absent /\ plugin' = staging
    BY <1>2, <1>7, <2>1, ScriptMoves DEF EndCopy, Places, Swapping
  <2>2. CASE Goto(s, "copying", "restore") /\ UNCHANGED plugin
    BY <1>2, <1>7, <2>2, ScriptMoves DEF EndCopy, Places, Swapping
  <2> QED
    BY <1>7, <2>1, <2>2 DEF EndCopy
<1>8. CASE RestoreBackup(s)
  BY <1>2, <1>8, ScriptMoves, AbsentIsTree DEF RestoreBackup, Places, Swapping
<1>9. CASE Preserve(s)
  <2>1. plugin # Absent
    BY <1>9 DEF Preserve, Goto
  <2>2. plugin' \in Trees
    BY <1>9, <2>1, ChangedTree DEF Preserve
  <2>3. pc' \in [Scripts -> Places] /\ pc'[s] # "preserve"
    BY <1>9, ScriptMoves DEF Preserve, Places, Swapping
  <2> QED
    BY <1>2, <1>9, <2>2, <2>3 DEF Preserve
<1>10. CASE Cleanup(s)
  BY <1>2, <1>10, ScriptMoves, AbsentIsTree DEF Cleanup, Places, Swapping
<1> QED
  BY <1>3, <1>4, <1>5, <1>6, <1>7, <1>8, <1>9, <1>10 DEF Script

LEMMA UnchangedTypes == ASSUME TypeInv, UNCHANGED vars PROVE TypeInv'
BY DEF TypeInv, TypeOK, vars, editorVars, diskVars

LEMMA TypesKept == ASSUME TypeInv, OneScript, [Next]_vars PROVE TypeInv'
BY EditorTypes, ScriptTypes, UnchangedTypes DEF Next

-----------------------------------------------------------------------------
(* The user's directories and the backup *)

\* An editor only starts on a complete plugin, and launches its script on it.
LEMMA EditorKeeps == ASSUME SwapInv, OneScript, Editor PROVE SwapInv'
<1>1. TypeInv'
  BY EditorTypes DEF SwapInv
<1>2. plugin' = plugin /\ backup' = backup
  BY DEF Editor, Publish, StartEditor, CheckAnswered, CloseDialog, DownloadFails,
     DownloadArrives, SaveZip, ExtractZip, RecordStaged, CloseEditor, EditorGone, diskVars
<1>3. editor' # "off" => plugin.whole
  BY DEF Editor, Publish, StartEditor, CheckAnswered, CloseDialog, DownloadFails,
     DownloadArrives, SaveZip, ExtractZip, RecordStaged, CloseEditor, EditorGone,
     SwapInv, Responsive
<1>4. CASE pc' = pc
  BY <1>1, <1>2, <1>3, <1>4 DEF SwapInv, BeforeTheMove, DuringTheSwap
<1>5. CASE pc' # pc
  <2>1. /\ editor = "on"
        /\ \E s \in Scripts : pc[s] = "none" /\ pc' = [pc EXCEPT ![s] = "waiting"]
    BY <1>5 DEF Editor, Publish, StartEditor, CheckAnswered, CloseDialog, DownloadFails,
       DownloadArrives, SaveZip, ExtractZip, RecordStaged, CloseEditor, EditorGone, Responsive
  <2>2. PICK s \in Scripts : pc[s] = "none" /\ pc' = [pc EXCEPT ![s] = "waiting"]
    BY <2>1
  <2>3. \A t \in Scripts : pc[t] = "none" /\ pc'[t] = "waiting"
    BY <2>2 DEF OneScript, SwapInv, TypeInv, TypeOK
  <2>4. plugin.whole /\ plugin.saved
    BY <2>1, <2>3 DEF SwapInv, Swapping
  <2> QED
    BY <1>1, <1>2, <1>3, <2>3, <2>4 DEF SwapInv, BeforeTheMove, DuringTheSwap, Swapping
<1> QED
  BY <1>4, <1>5

LEMMA ScriptKeeps ==
    ASSUME SwapInv, OneScript, CopiesSucceed, NEW s \in Scripts, Script(s)
    PROVE  SwapInv'
<1>1. TypeInv' /\ TypeInv
  BY ScriptTypes DEF SwapInv
<1>2. Untouched
  BY DEF Script, Wait, Confirm, RemoveStaleBackup, MoveToBackup, StartCopy, EndCopy,
     RestoreBackup, Preserve, Cleanup
<1>3. SUFFICES /\ BeforeTheMove(s)' /\ DuringTheSwap(s)'
               /\ editor # "off" => plugin'.whole
               /\ pc'[s] \notin Swapping => plugin'.saved
  BY <1>1, <1>2 DEF SwapInv, OneScript, Untouched
<1>4. /\ BeforeTheMove(s) /\ DuringTheSwap(s)
      /\ editor # "off" => plugin.whole
      /\ pc[s] \notin Swapping => plugin.saved
  BY DEF SwapInv, OneScript
<1> USE <1>4, ScriptMoves DEF BeforeTheMove, DuringTheSwap, Places, Swapping
<1>5. CASE Wait(s) \/ Confirm(s)
  BY <1>1, <1>5 DEF Wait, Confirm
<1>6. CASE RemoveStaleBackup(s)
  BY <1>1, <1>6 DEF RemoveStaleBackup
<1>7. CASE MoveToBackup(s)
  <2>1. CASE Moved(s)
    BY <1>1, <2>1 DEF Moved, Absent
  <2>2. CASE NotMoved(s)
    BY <1>1, <2>2 DEF NotMoved
  <2> QED
    BY <1>7, <2>1, <2>2 DEF MoveToBackup
<1>8. CASE StartCopy(s)
  <2>1. CASE staging = Absent
    BY <1>1, <1>8, <2>1 DEF StartCopy
  <2>2. CASE staging # Absent
    <3>1. plugin' = [staging EXCEPT !.whole = FALSE] /\ staging \in Trees \ {Absent}
      BY <1>1, <1>8, <2>2 DEF StartCopy, TypeInv, TypeOK
    <3>2. ~plugin'.whole
      BY <3>1 DEF Trees
    <3> QED
      BY <1>1, <1>8, <2>2, <3>2 DEF StartCopy
  <2> QED
    BY <2>1, <2>2
<1>9. CASE EndCopy(s)
  BY <1>1, <1>9 DEF EndCopy
<1>10. CASE RestoreBackup(s)
  BY <1>1, <1>10 DEF RestoreBackup
<1>11. CASE Preserve(s)
  <2>1. Goto(s, "preserve", "cleanup") /\ backup' = backup
    BY <1>11 DEF Preserve
  <2>2. plugin' = [plugin EXCEPT !.saved = @ \/ backup.saved]
    BY <1>11 DEF Preserve, CopiesSucceed
  <2>3. plugin \in Trees \ {Absent} /\ backup.saved
    BY <1>1, <2>1 DEF TypeInv, TypeOK, Goto
  <2>4. plugin'.saved /\ plugin'.whole = plugin.whole
    BY <2>2, <2>3 DEF Trees
  <2> QED
    BY <1>1, <2>1, <2>4
<1>12. CASE Cleanup(s)
  BY <1>1, <1>12 DEF Cleanup
<1> QED
  BY <1>5, <1>6, <1>7, <1>8, <1>9, <1>10, <1>11, <1>12 DEF Script

-----------------------------------------------------------------------------
(* The release that is staged *)

\* Whatever the handlers leave in the staging directory is newer.
LEMMA EditorStagesNewer ==
    ASSUME SwapInv, NewerInv, Editor
    PROVE  /\ editor' # "off" => current' = plugin.v
           /\ editor' # "on" => stage' = "none"
           /\ editor' = "on" => /\ dialog' # 0 => dialog' > current'
                                /\ fetching' # 0 => fetching' > current'
           /\ staging' = staging \/ staging' = Absent
              \/ (editor = "on" /\ staging'.v > plugin.v)
<1> USE DEF SwapInv, TypeInv, TypeOK, NewerInv
<1>1. CASE Publish \/ StartEditor
  BY <1>1 DEF Publish, StartEditor, editorVars, diskVars
<1>2. CASE CloseDialog \/ DownloadFails
  BY <1>2 DEF CloseDialog, DownloadFails, Responsive, diskVars
<1>3. ASSUME NEW r \in Releases, CheckAnswered(r)
      PROVE  /\ editor' # "off" => current' = plugin.v
             /\ editor' # "on" => stage' = "none"
             /\ editor' = "on" => /\ dialog' # 0 => dialog' > current'
                                  /\ fetching' # 0 => fetching' > current'
             /\ staging' = staging
  BY <1>3 DEF CheckAnswered, IsNewer, Responsive, diskVars
<1>4. ASSUME NEW intact \in BOOLEAN, DownloadArrives(intact)
      PROVE  /\ editor' # "off" => current' = plugin.v
             /\ editor' # "on" => stage' = "none"
             /\ editor' = "on" => /\ dialog' # 0 => dialog' > current'
                                  /\ fetching' # 0 => fetching' > current'
             /\ staging' = staging
  BY <1>4 DEF DownloadArrives, Responsive, diskVars
<1>5. CASE SaveZip \/ RecordStaged
  BY <1>5 DEF SaveZip, RecordStaged
<1>6. CASE ExtractZip
  <2>1. editor = "on" /\ fetching > plugin.v
    BY <1>6 DEF ExtractZip
  <2>2. staging' = Absent \/ staging'.v = fetching
    BY <1>6 DEF ExtractZip, Remains
  <2>3. /\ editor' = "on" /\ current' = current /\ dialog' = dialog
        /\ fetching' \in {fetching, 0}
    BY <1>6, <2>1 DEF ExtractZip
  <2> QED
    BY <2>1, <2>2, <2>3
<1>7. CASE CloseEditor
  BY <1>7 DEF CloseEditor, Responsive
<1>8. CASE EditorGone
  <2>1. CASE stage = "extract"
    <3>1. staging' \in Remains /\ editor' = "off"
      BY <1>8, <2>1 DEF EditorGone
    <3>2. staging' = Absent \/ staging'.v = fetching
      BY <3>1 DEF Remains
    <3> QED
      BY <1>8, <2>1, <3>1, <3>2 DEF EditorGone
  <2>2. CASE stage # "extract"
    BY <1>8, <2>2 DEF EditorGone
  <2> QED
    BY <2>1, <2>2
<1> QED
  BY <1>1, <1>2, <1>3, <1>4, <1>5, <1>6, <1>7, <1>8 DEF Editor

LEMMA EditorNewer ==
    ASSUME SwapInv, NewerInv, OneScript, Editor PROVE NewerInv'
<1>1. plugin' = plugin /\ backup' = backup
  BY DEF Editor, Publish, StartEditor, CheckAnswered, CloseDialog, DownloadFails,
     DownloadArrives, SaveZip, ExtractZip, RecordStaged, CloseEditor, EditorGone, diskVars
<1>2. pc' = pc \/ \E s \in Scripts : pc[s] = "none" /\ pc' = [pc EXCEPT ![s] = "waiting"]
  BY DEF Editor, Publish, StartEditor, CheckAnswered, CloseDialog, DownloadFails,
     DownloadArrives, SaveZip, ExtractZip, RecordStaged, CloseEditor, EditorGone
<1>3. \A s \in Scripts : pc'[s] = pc[s] \/ (pc[s] = "none" /\ pc'[s] = "waiting")
  BY <1>2 DEF OneScript, SwapInv, TypeInv, TypeOK
<1>4. /\ editor' # "off" => current' = plugin.v
      /\ editor' # "on" => stage' = "none"
      /\ editor' = "on" => /\ dialog' # 0 => dialog' > current'
                           /\ fetching' # 0 => fetching' > current'
  BY EditorStagesNewer
<1>5. \/ staging' = staging \/ staging' = Absent
      \/ editor = "on" /\ staging'.v > plugin.v
  BY EditorStagesNewer
<1>6. (staging' # Absent /\ \A s \in Scripts : pc'[s] \notin Swapping \cup {"cleanup"})
         => staging'.v > plugin.v
  BY <1>3, <1>5 DEF NewerInv, Swapping
<1>7. ASSUME NEW s \in Scripts, staging' # Absent, pc'[s] \in {"copy", "copying", "restore"}
      PROVE  staging'.v > backup.v
  <2>1. pc[s] \in {"copy", "copying", "restore"}
    BY <1>3, <1>7
  <2>2. editor = "off"
    BY <2>1 DEF SwapInv, DuringTheSwap
  <2> QED
    BY <1>5, <1>7, <2>1, <2>2 DEF NewerInv
<1> QED
  BY <1>1, <1>4, <1>6, <1>7 DEF NewerInv

LEMMA ScriptNewer ==
    ASSUME SwapInv, NewerInv, OneScript, NEW s \in Scripts, Script(s)
    PROVE  NewerInv'
<1>1. TypeInv
  BY DEF SwapInv
<1>2. Untouched
  BY DEF Script, Wait, Confirm, RemoveStaleBackup, MoveToBackup, StartCopy, EndCopy,
     RestoreBackup, Preserve, Cleanup
<1>3. SUFFICES
        /\ editor # "off" => plugin'.v = plugin.v
        /\ (staging' # Absent /\ pc'[s] \notin Swapping \cup {"cleanup"})
             => staging'.v > plugin'.v
        /\ (staging' # Absent /\ pc'[s] \in {"copy", "copying", "restore"})
             => staging'.v > backup'.v
  BY <1>2 DEF NewerInv, OneScript, Untouched, editorVars
<1>4. /\ (staging # Absent /\ pc[s] \notin Swapping \cup {"cleanup"})
           => staging.v > plugin.v
      /\ (staging # Absent /\ pc[s] \in {"copy", "copying", "restore"})
           => staging.v > backup.v
      /\ BeforeTheMove(s) /\ DuringTheSwap(s)
      /\ editor # "off" => plugin.whole
  BY DEF NewerInv, OneScript, SwapInv
<1> USE <1>1, <1>4, ScriptMoves DEF BeforeTheMove, DuringTheSwap, Places, Swapping
<1>5. CASE Wait(s) \/ Confirm(s) \/ RemoveStaleBackup(s)
  BY <1>5 DEF Wait, Confirm, RemoveStaleBackup
<1>6. CASE MoveToBackup(s)
  BY <1>6 DEF MoveToBackup, Moved, NotMoved
<1>7. CASE StartCopy(s) \/ EndCopy(s)
  BY <1>7 DEF StartCopy, EndCopy
<1>8. CASE RestoreBackup(s)
  BY <1>8 DEF RestoreBackup
<1>9. CASE Preserve(s)
  <2>1. Goto(s, "preserve", "cleanup") /\ plugin \in Trees \ {Absent}
    BY <1>9 DEF Preserve, TypeInv, TypeOK, Goto
  <2>2. plugin'.v = plugin.v
    BY <1>9, <2>1 DEF Preserve, Trees
  <2> QED
    BY <2>1, <2>2
<1>10. CASE Cleanup(s)
  BY <1>10 DEF Cleanup
<1> QED
  BY <1>5, <1>6, <1>7, <1>8, <1>9, <1>10 DEF Script

-----------------------------------------------------------------------------

\* The invariant holds in every reachable state.
THEOREM Invariance == ASSUME OneScript, CopiesSucceed PROVE Spec => []SwapInv
<1>1. Init => SwapInv
  BY TypesInitially DEF Init, SwapInv, BeforeTheMove, DuringTheSwap, Swapping
<1>2. SwapInv /\ [Next]_vars => SwapInv'
  <2>1. SUFFICES ASSUME SwapInv, [Next]_vars PROVE SwapInv'
    OBVIOUS
  <2>2. CASE UNCHANGED vars
    BY <2>1, <2>2, UnchangedTypes
       DEF SwapInv, BeforeTheMove, DuringTheSwap, vars, diskVars
  <2> QED
    BY <2>1, <2>2, EditorKeeps, ScriptKeeps DEF Next
<1> QED
  BY <1>1, <1>2, PTL DEF Spec

\* Every variable keeps its type, and the flag that refuses a second download
\* (bUpdateInProgress) is held exactly while one is on its way.
THEOREM TypeCorrect == ASSUME OneScript PROVE Spec => []TypeOK
<1>1. Init => TypeInv
  BY TypesInitially
<1>2. TypeInv /\ [Next]_vars => TypeInv'
  BY TypesKept
<1>3. TypeInv => TypeOK
  BY DEF TypeInv
<1> QED
  BY <1>1, <1>2, <1>3, PTL DEF Spec

\* The swap script never loses what the user keeps in the plugin folder.
THEOREM UserDataTheorem ==
    ASSUME OneScript, CopiesSucceed PROVE Spec => []UserDataSurvives
<1>1. SwapInv => UserDataSurvives
  <2>1. SUFFICES ASSUME SwapInv PROVE UserDataSurvives
    OBVIOUS
  <2>2. CASE \A s \in Scripts : pc[s] \notin Swapping
    BY <2>1, <2>2 DEF SwapInv, UserDataSurvives
  <2>3. CASE \E s \in Scripts : pc[s] \in Swapping
    BY <2>1, <2>3 DEF SwapInv, DuringTheSwap, UserDataSurvives
  <2> QED
    BY <2>2, <2>3
<1> QED
  BY <1>1, Invariance, PTL

\* A copy that fails can be undone: the backup is the complete plugin.
THEOREM RollbackTheorem ==
    ASSUME OneScript, CopiesSucceed PROVE Spec => []RollbackIsPossible
<1>1. SwapInv => RollbackIsPossible
  BY DEF SwapInv, DuringTheSwap, RollbackIsPossible, Swapping
<1> QED
  BY <1>1, Invariance, PTL

\* What is staged is newer than the plugin it will replace, wherever that is.
THEOREM NewerTheorem == ASSUME OneScript, CopiesSucceed PROVE Spec => []NewerInv
<1>1. Init => NewerInv
  BY DEF Init, NewerInv
<1>2. SwapInv /\ NewerInv /\ [Next]_vars => NewerInv'
  <2>1. SUFFICES ASSUME SwapInv, NewerInv, [Next]_vars PROVE NewerInv'
    OBVIOUS
  <2>2. CASE UNCHANGED vars
    BY <2>1, <2>2 DEF NewerInv, vars, editorVars, diskVars
  <2> QED
    BY <2>1, <2>2, EditorNewer, ScriptNewer DEF Next
<1> QED
  BY <1>1, <1>2, Invariance, PTL DEF Spec

\* What is recorded and staged is newer than the plugin it will replace: the
\* versions are compared when an update is offered, and until it is installed the
\* plugin folder holds what they were compared with.
THEOREM RecordIsNewerTheorem ==
    ASSUME OneScript, CopiesSucceed PROVE Spec => []RecordIsNewer
<1>1. NewerInv => RecordIsNewer
  BY DEF NewerInv, RecordIsNewer, Swapping
<1> QED
  BY <1>1, NewerTheorem, PTL

-----------------------------------------------------------------------------
(* The atomic update *)

\* Nothing that is on its way, or staged, is a release nobody published.
PublishedInv ==
    /\ latest \in Nat
    /\ dialog <= latest /\ fetching <= latest
    /\ staging # Absent => staging.v <= latest

\* Also of a directory that is not there.
LEMMA VersionIsInt == \A tree \in Trees : tree.v \in Int
BY ReleaseAssumption DEF Trees, Absent

LEMMA PublishedKept ==
    ASSUME SwapInv, PublishedInv, [Next]_vars PROVE PublishedInv'
<1> USE DEF SwapInv, TypeInv, TypeOK, PublishedInv
<1>1. CASE Publish
  <2>1. /\ latest' = latest + 1 /\ dialog' = dialog /\ fetching' = fetching
        /\ staging' = staging
    BY <1>1 DEF Publish, editorVars, diskVars
  <2>2. dialog \in Int /\ fetching \in Int
    BY ReleaseAssumption
  <2>3. staging.v \in Int
    BY VersionIsInt
  <2> QED
    BY <2>1, <2>2, <2>3
<1>2. CASE StartEditor \/ CloseDialog \/ DownloadFails \/ RecordStaged
  BY <1>2 DEF StartEditor, CloseDialog, DownloadFails, RecordStaged, diskVars
<1>3. ASSUME NEW r \in Releases, CheckAnswered(r) PROVE PublishedInv'
  BY <1>3 DEF CheckAnswered, diskVars
<1>4. ASSUME NEW intact \in BOOLEAN, DownloadArrives(intact) PROVE PublishedInv'
  BY <1>4 DEF DownloadArrives, diskVars
<1>5. CASE SaveZip
  BY <1>5 DEF SaveZip
<1>6. \A tree \in Remains : tree = Absent \/ tree.v = fetching
  BY DEF Remains
<1>7. CASE ExtractZip
  <2>1. staging' = Absent \/ staging'.v = fetching
    BY <1>6, <1>7 DEF ExtractZip
  <2> QED
    BY <1>7, <2>1 DEF ExtractZip
<1>8. CASE CloseEditor
  BY <1>8 DEF CloseEditor
<1>9. CASE EditorGone
  <2>1. staging' = staging \/ staging' = Absent \/ staging'.v = fetching
    BY <1>6, <1>9 DEF EditorGone
  <2> QED
    BY <1>9, <2>1 DEF EditorGone
<1>10. ASSUME NEW s \in Scripts, Script(s) PROVE PublishedInv'
  <2>1. Untouched
    BY <1>10 DEF Script, Wait, Confirm, RemoveStaleBackup, MoveToBackup, StartCopy, EndCopy,
       RestoreBackup, Preserve, Cleanup
  <2>2. staging' = staging \/ staging' = Absent
    BY <1>10 DEF Script, Wait, Confirm, RemoveStaleBackup, MoveToBackup, StartCopy, EndCopy,
       RestoreBackup, Preserve, Cleanup
  <2> QED
    BY <2>1, <2>2 DEF Untouched, editorVars
<1>11. CASE UNCHANGED vars
  BY <1>11 DEF vars, editorVars, diskVars
<1> QED
  BY <1>1, <1>2, <1>3, <1>4, <1>5, <1>7, <1>8, <1>9, <1>10, <1>11 DEF Next, Editor

\* Nothing is staged or under way that was not published.
THEOREM PublishedTheorem == ASSUME OneScript, CopiesSucceed PROVE Spec => []PublishedInv
<1>1. Init => PublishedInv
  BY DEF Init, PublishedInv
<1>2. SwapInv /\ PublishedInv /\ [Next]_vars => PublishedInv'
  BY PublishedKept
<1> QED
  BY <1>1, <1>2, Invariance, PTL DEF Spec

InEffect == IF InBackup({"copy", "copying", "restore"}) THEN backup.v ELSE plugin.v
UserData == IF InBackup(Swapping) THEN backup.saved ELSE plugin.saved

\* With the only script s in its place, what is in effect is read from it.
LEMMA ReadFrom ==
    ASSUME OneScript, NEW s \in Scripts
    PROVE  /\ InEffect = IF pc[s] \in {"copy", "copying", "restore"}
                           THEN backup.v ELSE plugin.v
           /\ UserData = IF pc[s] \in Swapping THEN backup.saved ELSE plugin.saved
BY DEF OneScript, InEffect, UserData, InBackup

\* No handler of the editor changes what is in effect.
LEMMA EditorInvisible ==
    ASSUME SwapInv, Editor PROVE UNCHANGED <<InEffect, UserData>>
<1>1. plugin' = plugin /\ backup' = backup
  BY DEF Editor, Publish, StartEditor, CheckAnswered, CloseDialog, DownloadFails,
     DownloadArrives, SaveZip, ExtractZip, RecordStaged, CloseEditor, EditorGone, diskVars
<1>2. pc' = pc \/ \E s \in Scripts : pc[s] = "none" /\ pc' = [pc EXCEPT ![s] = "waiting"]
  BY DEF Editor, Publish, StartEditor, CheckAnswered, CloseDialog, DownloadFails,
     DownloadArrives, SaveZip, ExtractZip, RecordStaged, CloseEditor, EditorGone
<1>3. \A t \in Scripts : pc'[t] = pc[t] \/ (pc[t] = "none" /\ pc'[t] = "waiting")
  BY <1>2 DEF SwapInv, TypeInv, TypeOK
<1>4. ASSUME NEW places \in {{"copy", "copying", "restore"}, Swapping}
      PROVE  InBackup(places)' = InBackup(places)
  BY <1>3 DEF InBackup, Swapping
<1>5. InBackup({"copy", "copying", "restore"})' = InBackup({"copy", "copying", "restore"})
  BY <1>4
<1>6. InBackup(Swapping)' = InBackup(Swapping)
  BY <1>4
<1> QED
  BY <1>1, <1>5, <1>6 DEF InEffect, UserData

\* A step of the script installs a newer release or is not seen.
LEMMA ScriptInstalls ==
    ASSUME SwapInv, SwapInv', NewerInv, PublishedInv, OneScript, CopiesSucceed,
           NEW s \in Scripts, Script(s)
    PROVE  /\ InEffect' = InEffect \/ InEffect' \in InEffect + 1 .. latest
           /\ UserData' = UserData
<1>1. TypeInv /\ TypeInv'
  BY DEF SwapInv
<1>2. /\ InEffect = IF pc[s] \in {"copy", "copying", "restore"} THEN backup.v ELSE plugin.v
      /\ UserData = IF pc[s] \in Swapping THEN backup.saved ELSE plugin.saved
  BY ReadFrom
<1>3. /\ InEffect' = IF pc'[s] \in {"copy", "copying", "restore"} THEN backup'.v ELSE plugin'.v
      /\ UserData' = IF pc'[s] \in Swapping THEN backup'.saved ELSE plugin'.saved
  BY DEF OneScript, InEffect, UserData, InBackup
<1>4. /\ BeforeTheMove(s) /\ DuringTheSwap(s)
      /\ pc[s] \notin Swapping => plugin.saved
      /\ pc'[s] \notin Swapping => plugin'.saved
      /\ DuringTheSwap(s)'
      /\ plugin.saved \in BOOLEAN /\ backup.saved \in BOOLEAN
      /\ plugin'.saved \in BOOLEAN /\ backup'.saved \in BOOLEAN
  <2>1. \A tree \in Trees : tree.saved \in BOOLEAN
    BY ChangedTree
  <2>2. {plugin, backup} \subseteq Trees /\ {plugin', backup'} \subseteq Trees
    BY <1>1 DEF TypeInv, TypeOK
  <2> QED
    BY <2>1, <2>2 DEF SwapInv, OneScript
<1>5. UserData' = UserData
  BY <1>2, <1>3, <1>4 DEF DuringTheSwap
<1> USE <1>1, <1>2, <1>3, <1>4, ScriptMoves DEF BeforeTheMove, DuringTheSwap, Places, Swapping
<1>6. CASE Wait(s) \/ Confirm(s) \/ RemoveStaleBackup(s)
  <2>1. plugin' = plugin
    BY <1>6 DEF Wait, Confirm, RemoveStaleBackup
  <2>2. /\ pc[s] \notin {"copy", "copying", "restore"}
        /\ pc'[s] \notin {"copy", "copying", "restore"}
    BY <1>6 DEF Wait, Confirm, RemoveStaleBackup
  <2> QED
    BY <1>5, <2>1, <2>2
<1>7. CASE MoveToBackup(s)
  <2>1. CASE Moved(s)
    BY <1>5, <2>1 DEF Moved
  <2>2. CASE NotMoved(s)
    BY <1>5, <2>2 DEF NotMoved
  <2> QED
    BY <1>7, <2>1, <2>2 DEF MoveToBackup
<1>8. CASE StartCopy(s)
  BY <1>5, <1>8 DEF StartCopy
<1>9. CASE EndCopy(s)
  <2>1. CASE Goto(s, "copying", "preserve") /\ staging # Absent /\ plugin' = staging
    <3>1. InEffect = backup.v /\ InEffect' = staging.v
      BY <2>1
    <3>2. staging.v > backup.v
      BY <2>1 DEF NewerInv, Goto
    <3>3. staging.v <= latest /\ latest \in Nat
      BY <2>1 DEF PublishedInv
    <3>4. backup.v \in Int /\ staging.v \in Int
      BY VersionIsInt DEF TypeInv, TypeOK
    <3> QED
      BY <1>5, <3>1, <3>2, <3>3, <3>4
  <2>2. CASE Goto(s, "copying", "restore") /\ UNCHANGED <<plugin, backup>>
    BY <1>5, <2>2
  <2> QED
    BY <1>9, <2>1, <2>2 DEF EndCopy
<1>10. CASE RestoreBackup(s)
  BY <1>5, <1>10 DEF RestoreBackup
<1>11. CASE Preserve(s)
  <2>1. Goto(s, "preserve", "cleanup") /\ plugin \in Trees \ {Absent}
    BY <1>11 DEF Preserve, TypeInv, TypeOK, Goto
  <2>2. plugin'.v = plugin.v
    BY <1>11, <2>1 DEF Preserve, Trees
  <2> QED
    BY <1>5, <2>1, <2>2
<1>12. CASE Cleanup(s)
  BY <1>5, <1>12 DEF Cleanup
<1> QED
  BY <1>6, <1>7, <1>8, <1>9, <1>10, <1>11, <1>12 DEF Script

\* The plugin that ships with the first session is in effect, with all its data.
LEMMA InitRefines == Init => Update!Start
BY DEF Init, Update!Start, InBackup, Swapping

\* Every step is a release, the end of a copy, or one the user does not see.
LEMMA StepRefines ==
    ASSUME SwapInv, SwapInv', NewerInv, PublishedInv, OneScript, CopiesSucceed, [Next]_vars
    PROVE  [Update!UpdateNext]_<<latest, InEffect, UserData>>
<1> USE DEF Update!UpdateNext
<1>1. CASE Editor
  <2>1. UNCHANGED <<InEffect, UserData>>
    BY <1>1, EditorInvisible
  <2>2. latest' = latest \/ Publish
    BY <1>1 DEF Editor, StartEditor, CheckAnswered, CloseDialog, DownloadFails,
       DownloadArrives, SaveZip, ExtractZip, RecordStaged, CloseEditor, EditorGone
  <2>3. ASSUME Publish PROVE Update!Release
    BY <2>1, <2>3 DEF Publish, Update!Release, InEffect, UserData
  <2> QED
    BY <2>1, <2>2, <2>3
<1>2. ASSUME NEW s \in Scripts, Script(s)
      PROVE  [Update!UpdateNext]_<<latest, InEffect, UserData>>
  <2>1. latest' = latest
    BY <1>2 DEF Script, Wait, Confirm, RemoveStaleBackup, MoveToBackup, StartCopy, EndCopy,
       RestoreBackup, Preserve, Cleanup, Untouched
  <2>2. /\ InEffect' = InEffect \/ InEffect' \in InEffect + 1 .. latest
        /\ UserData' = UserData
    BY <1>2, ScriptInstalls
  <2>3. ASSUME InEffect' \in InEffect + 1 .. latest PROVE Update!Install
    BY <2>1, <2>2, <2>3 DEF Update!Install, InEffect, UserData
  <2> QED
    BY <2>1, <2>2, <2>3
<1>3. CASE UNCHANGED vars
  BY <1>3 DEF vars, diskVars, InEffect, UserData, InBackup
<1> QED
  BY <1>1, <1>2, <1>3 DEF Next

\* Whatever dies, fails or answers late, an update is atomic: the release in
\* effect changes in one step, to a newer one, with the user's directories.
THEOREM Refinement ==
    ASSUME OneScript, CopiesSucceed PROVE Spec => ImplementsAtomicUpdate
<1>1. SwapInv /\ SwapInv' /\ NewerInv /\ PublishedInv /\ [Next]_vars
        => [Update!UpdateNext]_<<latest, InEffect, UserData>>
  BY StepRefines
<1> QED
  BY <1>1, InitRefines, Invariance, PublishedTheorem, NewerTheorem, PTL
     DEF Spec, ImplementsAtomicUpdate, Update!UpdateSpec, Update!updateVars,
         InEffect, UserData
=============================================================================
