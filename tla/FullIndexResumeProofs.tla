------------------------ MODULE FullIndexResumeProofs ------------------------
(***************************************************************************)
(* The full index and its resume, for every set of assets and passes.      *)
(*                                                                         *)
(* The deep pass marks a killer before it touches it, and nothing but a    *)
(* rebuild or the end of its package takes the mark back: its attempts,    *)
(* committed, count the deaths it has caused there.  A death in a          *)
(* post-pass is counted nowhere and changes nothing in the database.  A    *)
(* pass that has no checkpoint has no rows, for the two are committed      *)
(* together.  An asset that neither kills nor fails is at worst one        *)
(* attempt short of being given up, and then it is indexed alone.          *)
(***************************************************************************)
EXTENDS FullIndexResume, FiniteSetTheorems, TLAPS

\* An asset that would kill the editor.
Deadly(a) == a \in Killers /\ content[a] # 0

\* Outside a transaction the connection sees what is committed.
TransactionInv ==
    /\ pc \notin {"scan", "work"} => view = disk
    /\ view.done = disk.done
    /\ batch # {} => pc = "work"

\* What is queued may be attempted once more, now or after a rollback.
QueueInv ==
    /\ pc = "scan" => \A a \in todo : view.attempts[a] = disk.attempts[a]
    /\ \A a \in queue : disk.attempts[a] < MaxAttempts /\ view.attempts[a] < MaxAttempts

\* The committed attempts count the deaths in the deep pass, and those of a batch
\* one more.
KillInv ==
    \A a \in Assets :
        /\ kills[a] <= MaxAttempts
        /\ Deadly(a) =>
             /\ view.attempts[a] = disk.attempts[a]
             /\ kills[a] <= disk.attempts[a]
             /\ a \in batch => kills[a] < disk.attempts[a]

\* The rows of a pass and its checkpoint go together.
RowsOnce(db) ==
    \A p \in PassNames \ Unmarked, a \in Assets :
        /\ db.post[p][a] <= 1
        /\ p \notin db.done => db.post[p][a] = 0

\* A run that is not a resume finds no checkpoint ahead of it.
FreshInv ==
    /\ pc \in {"post", "unmarked"} => next >= 1
    /\ pc = "unmarked" => next <= Len(Passes) /\ Pass \in Unmarked
    /\ pc \in {"down", "idle", "drop", "dropping", "begin"} => ~resume
    /\ ~resume /\ pc \in {"begin", "list", "scan", "record", "mark", "work"} =>
         disk.done = {}
    /\ ~resume /\ pc \in {"post", "unmarked"} =>
         \A i \in DOMAIN Passes : i >= next => Passes[i] \notin disk.done

IInv ==
    /\ TypeOK
    /\ TransactionInv
    /\ QueueInv
    /\ KillInv
    /\ RowsOnce(disk) /\ RowsOnce(view)
    /\ FreshInv

-----------------------------------------------------------------------------
(* What the operators on the database return.                              *)

\* Rows of post-passes are only taken away.
Shrunk(db, e) ==
    /\ e.done = db.done
    /\ \A p \in PassNames, a \in Assets : e.post[p][a] \in {0, db.post[p][a]}

LEMMA BoundFacts ==
    /\ MaxVersion \in Nat /\ MaxVersion > 0 /\ MaxMishaps \in Nat
    /\ FreshBatch \in Nat
    /\ MaxAttempts = 2
  BY BoundsAssumption DEF MaxAttempts

LEMMA PassFacts ==
    /\ Len(Passes) \in Nat /\ DOMAIN Passes = 1 .. Len(Passes)
    /\ \A i \in DOMAIN Passes : Passes[i] \in PassNames
    /\ \A i, j \in DOMAIN Passes : Passes[i] = Passes[j] => i = j
  BY PassesAssumption DEF PassNames

\* A record of the database, field by field.
LEMMA DbFields ==
    ASSUME NEW db \in Db
    PROVE  /\ db.progress \in {"none", "running", "done"}
           /\ db.known \subseteq Assets
           /\ db.deep \in [Assets -> 0 .. MaxVersion]
           /\ db.attempts \in [Assets -> 0 .. MaxAttempts]
           /\ db.rows \in [Assets -> Seq(1 .. MaxVersion)]
           /\ db.post \in [PassNames -> [Assets -> 0 .. 2]]
           /\ db.done \subseteq PassNames
           /\ db.skipped \subseteq Assets
  BY DEF Db

LEMMA EmptyDbFacts ==
    /\ EmptyDb \in Db
    /\ EmptyDb.attempts = Zero /\ EmptyDb.done = {} /\ EmptyDb.post = NoPostRows
  BY BoundFacts DEF EmptyDb, Db, Zero, NoRows, NoPostRows

LEMMA WithoutFacts ==
    ASSUME NEW db \in Db, NEW gone \in SUBSET Assets
    PROVE  /\ Without(db, gone) \in Db
           /\ Shrunk(db, Without(db, gone))
           /\ \A a \in Assets : Without(db, gone).attempts[a] =
                                IF a \in gone THEN 0 ELSE db.attempts[a]
<1> DEFINE D == [a \in Assets |-> IF a \in gone THEN 0 ELSE db.deep[a]]
           A == [a \in Assets |-> IF a \in gone THEN 0 ELSE db.attempts[a]]
           R == [a \in Assets |-> IF a \in gone THEN <<>> ELSE db.rows[a]]
           P == [p \in PassNames |->
                   [a \in Assets |-> IF a \in gone THEN 0 ELSE db.post[p][a]]]
<1>1. D \in [Assets -> 0 .. MaxVersion] /\ A \in [Assets -> 0 .. MaxAttempts]
  BY DbFields, BoundFacts
<1>2. R \in [Assets -> Seq(1 .. MaxVersion)]
  <2>1. <<>> \in Seq(1 .. MaxVersion)
    OBVIOUS
  <2>2. \A a \in Assets : db.rows[a] \in Seq(1 .. MaxVersion)
    BY DbFields
  <2> QED BY <2>1, <2>2, Zenon
<1>3. P \in [PassNames -> [Assets -> 0 .. 2]]
  BY DbFields
<1>4. db.known \ gone \in SUBSET Assets
  BY DbFields
<1>5. Without(db, gone) =
        [db EXCEPT !.known = db.known \ gone, !.deep = D, !.attempts = A,
                   !.rows = R, !.post = P]
  BY DEF Without
<1>6. Without(db, gone) \in Db
  <2> DEFINE K == db.known \ gone
  <2>1. K \in SUBSET Assets
    BY <1>4
  <2>2. Without(db, gone) = [db EXCEPT !.known = K, !.deep = D, !.attempts = A,
                                       !.rows = R, !.post = P]
    BY <1>5
  <2> HIDE DEF D, A, R, P, K
  <2>3. [db EXCEPT !.known = K, !.deep = D, !.attempts = A, !.rows = R, !.post = P]
          \in Db
    BY <1>1, <1>2, <1>3, <2>1 DEF Db
  <2> QED BY <2>2, <2>3
<1>7. /\ Without(db, gone).done = db.done
      /\ Without(db, gone).attempts = A
      /\ Without(db, gone).post = P
  BY DEF Without, Db
<1> QED BY <1>6, <1>7 DEF Shrunk

LEMMA ClearedFacts ==
    ASSUME NEW db \in Db, NEW a \in Assets
    PROVE  /\ Cleared(db, a) \in Db
           /\ Shrunk(db, Cleared(db, a))
           /\ Cleared(db, a).attempts = db.attempts
<1> DEFINE R == [db.rows EXCEPT ![a] = <<>>]
           P == [p \in PassNames |->
                   IF p \in NodePasses THEN [db.post[p] EXCEPT ![a] = 0] ELSE db.post[p]]
           e == WithoutChildren(db, a)
<1>1. R \in [Assets -> Seq(1 .. MaxVersion)]
  BY DbFields
<1>2. P \in [PassNames -> [Assets -> 0 .. 2]]
  BY DbFields
<1>3. e = [db EXCEPT !.rows = R, !.post = P]
  BY DEF WithoutChildren, Db
<1>4. [db EXCEPT !.rows = R, !.post = P] \in Db
  <2> HIDE DEF R, P
  <2> QED BY <1>1, <1>2 DEF Db
<1>5. e.done = db.done /\ e.attempts = db.attempts /\ e.post = P
  BY <1>3 DEF Db
<1>6. Cleared(db, a) = [e EXCEPT !.known = e.known \cup {a}]
  BY DEF Cleared
<1>7. e \in Db
  BY <1>3, <1>4
<1>8. /\ Cleared(db, a) \in Db
      /\ Cleared(db, a).done = e.done
      /\ Cleared(db, a).attempts = e.attempts
      /\ Cleared(db, a).post = e.post
  <2> DEFINE K == e.known \cup {a}
  <2>1. K \in SUBSET Assets
    BY <1>7, DbFields
  <2>2. Cleared(db, a) = [e EXCEPT !.known = K]
    BY <1>6
  <2> HIDE DEF e, K
  <2> QED BY <1>7, <2>1, <2>2 DEF Db
<1>9. \A p \in PassNames, x \in Assets : P[p][x] \in {0, db.post[p][x]}
  BY DbFields
<1> QED BY <1>5, <1>8, <1>9 DEF Shrunk

LEMMA BumpedFacts ==
    ASSUME NEW db \in Db, NEW b \in SUBSET Assets,
           \A a \in b : db.attempts[a] < MaxAttempts
    PROVE  /\ Bumped(db, b) \in Db
           /\ Shrunk(db, Bumped(db, b))
           /\ \A a \in Assets : Bumped(db, b).attempts[a] =
                                IF a \in b THEN db.attempts[a] + 1 ELSE db.attempts[a]
<1> DEFINE A == [a \in Assets |-> IF a \in b THEN db.attempts[a] + 1 ELSE db.attempts[a]]
<1>1. A \in [Assets -> 0 .. MaxAttempts]
  BY DbFields, BoundFacts
<1>2. Bumped(db, b) = [db EXCEPT !.attempts = A]
  BY DEF Bumped
<1>3. [db EXCEPT !.attempts = A] \in Db
  <2> HIDE DEF A
  <2> QED BY <1>1 DEF Db
<1>4. /\ Bumped(db, b).attempts = A
      /\ Bumped(db, b).done = db.done
      /\ Bumped(db, b).post = db.post
  BY <1>2 DEF Db
<1> QED BY <1>2, <1>3, <1>4 DEF Shrunk

LEMMA IndexedFacts ==
    ASSUME NEW db \in Db, NEW a \in Assets,
           captured \in [Assets -> 0 .. MaxVersion],
           content \in [Assets -> 0 .. MaxVersion]
    PROVE  /\ Indexed(db, a) \in Db
           /\ Shrunk(db, Indexed(db, a))
           /\ \A x \in Assets \ {a} : Indexed(db, a).attempts[x] = db.attempts[x]
           /\ Indexed(db, a).attempts[a] \in {0, db.attempts[a]}
<1>1. CASE a \in Flawed \/ content[a] = 0
  BY <1>1 DEF Indexed, Shrunk
<1>2. CASE ~(a \in Flawed \/ content[a] = 0)
  <2> DEFINE R == [db.rows EXCEPT ![a] = Append(db.rows[a], content[a])]
             D == [db.deep EXCEPT ![a] = captured[a]]
             A == [db.attempts EXCEPT ![a] = 0]
  <2>1. R \in [Assets -> Seq(1 .. MaxVersion)]
    BY <1>2, DbFields, BoundFacts
  <2>2. D \in [Assets -> 0 .. MaxVersion] /\ A \in [Assets -> 0 .. MaxAttempts]
    BY DbFields, BoundFacts
  <2>3. Indexed(db, a) = [db EXCEPT !.rows = R, !.deep = D, !.attempts = A]
    BY <1>2 DEF Indexed, Db
  <2>4. [db EXCEPT !.rows = R, !.deep = D, !.attempts = A] \in Db
    <3> HIDE DEF R, D, A
    <3> QED BY <2>1, <2>2 DEF Db
  <2>5. /\ Indexed(db, a).attempts = A
        /\ Indexed(db, a).done = db.done
        /\ Indexed(db, a).post = db.post
    BY <2>3 DEF Db
  <2> QED BY <2>3, <2>4, <2>5, DbFields DEF Shrunk
<1> QED BY <1>1, <1>2

LEMMA MoreRowsFacts ==
    ASSUME NEW db \in Db, NEW p \in PassNames, NEW found
    PROVE  /\ MoreRows(db, p, found) \in Db
           /\ MoreRows(db, p, found).attempts = db.attempts
           /\ MoreRows(db, p, found).done = db.done
           /\ \A q \in PassNames \ {p} : MoreRows(db, p, found).post[q] = db.post[q]
           /\ \A a \in Assets : MoreRows(db, p, found).post[p][a]
                                \in {db.post[p][a], db.post[p][a] + 1}
<1> DEFINE F == [a \in Assets |-> IF a \in found /\ db.post[p][a] < 2
                                 THEN db.post[p][a] + 1 ELSE db.post[p][a]]
           P == [db.post EXCEPT ![p] = F]
<1>1. F \in [Assets -> 0 .. 2]
  BY DbFields
<1>2. P \in [PassNames -> [Assets -> 0 .. 2]]
  BY <1>1, DbFields
<1>3. MoreRows(db, p, found) = [db EXCEPT !.post = P]
  BY DEF MoreRows, Db
<1>4. [db EXCEPT !.post = P] \in Db
  <2> HIDE DEF P
  <2> QED BY <1>2 DEF Db
<1>5. /\ MoreRows(db, p, found).attempts = db.attempts
      /\ MoreRows(db, p, found).done = db.done
      /\ MoreRows(db, p, found).post = P
  BY <1>3 DEF Db
<1>6. P[p] = F /\ \A q \in PassNames \ {p} : P[q] = db.post[q]
  BY DbFields
<1> QED BY <1>3, <1>4, <1>5, <1>6

LEMMA SentinelFacts ==
    ASSUME NEW db \in Db, NEW p \in PassNames
    PROVE  /\ SentinelDone(db, p) \in Db
           /\ SentinelDone(db, p).attempts = db.attempts
           /\ SentinelDone(db, p).done = db.done \cup {p}
           /\ \A q \in PassNames \ {p} : SentinelDone(db, p).post[q] = db.post[q]
           /\ \A a \in Assets : SentinelDone(db, p).post[p][a]
                                \in {db.post[p][a], db.post[p][a] + 1}
<1> DEFINE e == MoreRows(db, p, Found(db, p))
           D == e.done \cup {p}
<1>1. /\ e \in Db /\ e.attempts = db.attempts /\ e.done = db.done
      /\ \A q \in PassNames \ {p} : e.post[q] = db.post[q]
      /\ \A a \in Assets : e.post[p][a] \in {db.post[p][a], db.post[p][a] + 1}
  BY MoreRowsFacts
<1>2. SentinelDone(db, p) = [e EXCEPT !.done = D]
  BY DEF SentinelDone
<1>3. D \in SUBSET PassNames /\ D = db.done \cup {p}
  BY <1>1, DbFields
<1> HIDE DEF e, D
<1>4. /\ SentinelDone(db, p) \in Db
      /\ SentinelDone(db, p).attempts = e.attempts
      /\ SentinelDone(db, p).done = D
      /\ SentinelDone(db, p).post = e.post
  BY <1>1, <1>2, <1>3 DEF Db
<1> QED BY <1>1, <1>3, <1>4

\* Rows taken away are no rows repeated.
LEMMA ShrunkRows ==
    ASSUME NEW db, NEW e, RowsOnce(db), Shrunk(db, e)
    PROVE  RowsOnce(e)
<1> SUFFICES ASSUME NEW p \in PassNames \ Unmarked, NEW a \in Assets
             PROVE  /\ e.post[p][a] <= 1
                    /\ p \notin e.done => e.post[p][a] = 0
  BY DEF RowsOnce
<1>1. e.post[p][a] \in {0, db.post[p][a]} /\ e.done = db.done
  BY DEF Shrunk
<1>2. db.post[p][a] <= 1 /\ (p \notin db.done => db.post[p][a] = 0)
  BY DEF RowsOnce
<1> QED BY <1>1, <1>2

-----------------------------------------------------------------------------
(* The steps, by what they do to the database.                             *)

\* It is left as it is.
Quiet ==
    \/ Launch \/ Start \/ StartFullIndex \/ BeginFails \/ UserStops
    \/ LeaveDeepPass \/ SkipSentinel \/ BeginUnmarkedPass \/ LeaveUnmarkedPass
    \/ \E a \in Assets : EditAsset(a)

\* What was not committed is lost.
Falling == Die \/ KilledInPass \/ TransactionFails \/ \E a \in Assets : KillEditor(a)

Visits(a) == ListOnly(a) \/ SkipIndexed(a) \/ SkipPoison(a) \/ QueueAsset(a)

LEMMA NextCases ==
    ASSUME Next
    PROVE  \/ Quiet \/ Falling
           \/ \E a \in Assets : Visits(a) \/ IndexAsset(a) \/ IndexUnmarked(a)
           \/ DropRows \/ DropAssets \/ BeginFullIndex \/ ListAssets \/ LeaveScan
           \/ RecordSkippedAssetPaths \/ MarkBatch
           \/ RunSentinelInTransaction \/ Finish
  BY DEF Next, Progress, Disturbance, AssetStep, Quiet, Falling, Visits

LEMMA QuietFacts ==
    ASSUME Quiet
    PROVE  disk' = disk /\ view' = view
<1>1. CASE \E a \in Assets : EditAsset(a)
  BY <1>1 DEF EditAsset, dbVars
<1>2. CASE Launch
  BY <1>2 DEF Launch, dbVars
<1>3. CASE Start
  BY <1>3 DEF Start, dbVars
<1>4. CASE StartFullIndex
  BY <1>4 DEF StartFullIndex, dbVars
<1>5. CASE BeginFails
  BY <1>5 DEF BeginFails, dbVars
<1>6. CASE UserStops
  BY <1>6 DEF UserStops, dbVars
<1>7. CASE LeaveDeepPass
  BY <1>7 DEF LeaveDeepPass, dbVars
<1>8. CASE SkipSentinel
  BY <1>8 DEF SkipSentinel, dbVars
<1>9. CASE BeginUnmarkedPass
  BY <1>9 DEF BeginUnmarkedPass, dbVars
<1>10. CASE LeaveUnmarkedPass
  BY <1>10 DEF LeaveUnmarkedPass, dbVars
<1> QED BY <1>1, <1>2, <1>3, <1>4, <1>5, <1>6, <1>7, <1>8, <1>9, <1>10 DEF Quiet

LEMMA FallingFacts ==
    ASSUME Falling
    PROVE  disk' = disk /\ view' = disk
  BY DEF Falling, Die, TransactionFails, KillEditor, KilledInPass, Crash

LEMMA HashFacts ==
    ASSUME WorldTypes
    PROVE  \A a \in Assets : Hash(a) \in 0 .. MaxVersion
  BY BoundFacts DEF WorldTypes, Hash

\* A visit takes rows away and leaves every attempt.
LEMMA VisitFacts ==
    ASSUME TypeOK, NEW a \in Assets, Visits(a)
    PROVE  /\ pc = "scan" /\ pc' = "scan" /\ a \in todo
           /\ disk' \in {disk, view'}
           /\ view' \in Db
           /\ Shrunk(view, view')
           /\ view'.attempts = view.attempts
<1>1. view \in Db
  BY DEF TypeOK, DbTypes
<1>2. pc = "scan" /\ pc' = "scan" /\ a \in todo /\ disk' \in {disk, view'}
  BY DEF Visits, ListOnly, SkipIndexed, SkipPoison, QueueAsset, Visit
<1>3. CASE ListOnly(a)
  <2> DEFINE K == view.known \cup {a}
  <2>1. view' = [view EXCEPT !.known = K]
    BY <1>3 DEF ListOnly
  <2>2. K \in SUBSET Assets
    BY <1>1, DbFields
  <2> HIDE DEF K
  <2>3. view' \in Db /\ view'.attempts = view.attempts
    BY <1>1, <2>1, <2>2 DEF Db
  <2>4. view'.done = view.done /\ view'.post = view.post
    BY <1>1, <2>1 DEF Db
  <2> QED BY <1>2, <2>3, <2>4 DEF Shrunk
<1>4. CASE SkipIndexed(a)
  BY <1>1, <1>2, <1>4 DEF SkipIndexed, Shrunk
<1>5. CASE SkipPoison(a)
  <2> DEFINE D == [view.deep EXCEPT ![a] = Hash(a)]
  <2>1. view' = [view EXCEPT !.deep = D]
    BY <1>5, <1>1 DEF SkipPoison, Db
  <2>2. D \in [Assets -> 0 .. MaxVersion]
    BY <1>1, DbFields, HashFacts DEF TypeOK
  <2> HIDE DEF D
  <2>3. view' \in Db /\ view'.attempts = view.attempts
    BY <1>1, <2>1, <2>2 DEF Db
  <2>4. view'.done = view.done /\ view'.post = view.post
    BY <1>1, <2>1 DEF Db
  <2> QED BY <1>2, <2>3, <2>4 DEF Shrunk
<1>6. CASE QueueAsset(a)
  BY <1>1, <1>2, <1>6, ClearedFacts DEF QueueAsset
<1> QED BY <1>3, <1>4, <1>5, <1>6 DEF Visits

\* The writes of the meta table, and the reset.
LEMMA CommitFacts ==
    ASSUME TypeOK
    PROVE  /\ DropRows => /\ disk' \in Db /\ view' = disk'
                          /\ disk'.attempts = disk.attempts /\ Shrunk(disk, disk')
           /\ DropAssets => disk' = EmptyDb /\ view' = disk'
           /\ BeginFullIndex \/ RecordSkippedAssetPaths \/ Finish =>
                /\ disk' \in Db /\ view' = disk'
                /\ disk'.attempts = disk.attempts /\ Shrunk(disk, disk')
<1>1. disk \in Db
  BY DEF TypeOK, DbTypes
<1>2. ASSUME DropRows
      PROVE  /\ disk' \in Db /\ view' = disk'
             /\ disk'.attempts = disk.attempts /\ Shrunk(disk, disk')
  <2>1. NoRows \in [Assets -> Seq(1 .. MaxVersion)]
    BY DEF NoRows
  <2>2. NoPostRows \in [PassNames -> [Assets -> 0 .. 2]]
    BY DEF NoPostRows
  <2>3. disk' = [disk EXCEPT !.rows = NoRows, !.post = NoPostRows] /\ view' = disk'
    BY <1>2 DEF DropRows, Commit
  <2>4. disk' \in Db
    BY <1>1, <2>1, <2>2, <2>3 DEF Db
  <2>5. /\ disk'.attempts = disk.attempts
        /\ disk'.done = disk.done
        /\ disk'.post = NoPostRows
    BY <1>1, <2>3 DEF Db
  <2> QED BY <2>3, <2>4, <2>5 DEF Shrunk, NoPostRows
<1>3. DropAssets => disk' = EmptyDb /\ view' = disk'
  BY DEF DropAssets, Commit
<1>4. ASSUME NEW s \in {"none", "running", "done"},
             Commit([disk EXCEPT !.progress = s])
      PROVE  /\ disk' \in Db /\ view' = disk'
             /\ disk'.attempts = disk.attempts /\ Shrunk(disk, disk')
  <2>1. disk' = [disk EXCEPT !.progress = s] /\ view' = disk'
    BY <1>4 DEF Commit
  <2>2. disk' \in Db /\ disk'.attempts = disk.attempts
    BY <1>1, <2>1 DEF Db
  <2>3. disk'.done = disk.done /\ disk'.post = disk.post
    BY <1>1, <2>1 DEF Db
  <2> QED BY <2>1, <2>2, <2>3 DEF Shrunk
<1>5. BeginFullIndex => Commit([disk EXCEPT !.progress = "running"])
  BY DEF BeginFullIndex
<1>6. Finish => /\ Outcome \in {"none", "running", "done"}
               /\ Commit([disk EXCEPT !.progress = Outcome])
  BY <1>1, DbFields DEF Finish, Outcome
<1>7. ASSUME RecordSkippedAssetPaths
      PROVE  /\ disk' \in Db /\ view' = disk'
             /\ disk'.attempts = disk.attempts /\ Shrunk(disk, disk')
  <2> DEFINE S == disk.skipped \cup poisoned
  <2>1. disk' = [disk EXCEPT !.skipped = S] /\ view' = disk'
    BY <1>7 DEF RecordSkippedAssetPaths, Commit
  <2>2. S \in SUBSET Assets
    BY <1>1, DbFields DEF TypeOK, RunTypes
  <2> HIDE DEF S
  <2>3. disk' \in Db /\ disk'.attempts = disk.attempts
    BY <1>1, <2>1, <2>2 DEF Db
  <2>4. disk'.done = disk.done /\ disk'.post = disk.post
    BY <1>1, <2>1 DEF Db
  <2> QED BY <2>1, <2>3, <2>4 DEF Shrunk
<1> QED BY <1>2, <1>3, <1>4, <1>5, <1>6, <1>7

-----------------------------------------------------------------------------
(* Types.                                                                  *)

LEMMA DbTypesStep ==
    ASSUME TypeOK, QueueInv, FreshInv, Next
    PROVE  DbTypes'
<1>1. disk \in Db /\ view \in Db
  BY DEF TypeOK, DbTypes
<1> SUFFICES disk' \in Db /\ view' \in Db
  BY DEF DbTypes
<1>2. CASE Quiet
  BY <1>1, <1>2, QuietFacts
<1>3. CASE Falling
  BY <1>1, <1>3, FallingFacts
<1>4. ASSUME NEW a \in Assets, Visits(a)
      PROVE  disk' \in Db /\ view' \in Db
  BY <1>1, <1>4, VisitFacts
<1>5. ASSUME NEW a \in Assets, IndexAsset(a)
      PROVE  disk' \in Db /\ view' \in Db
  <2>1. view' = Indexed(view, a) /\ disk' \in {disk, view'}
    BY <1>5 DEF IndexAsset
  <2>2. Indexed(view, a) \in Db
    BY <1>1, IndexedFacts DEF TypeOK, QueueTypes, WorldTypes
  <2> QED BY <1>1, <2>1, <2>2
<1>6. ASSUME NEW a \in Assets, IndexUnmarked(a)
      PROVE  disk' \in Db /\ view' \in Db
  <2>1. Pass \in PassNames
    BY <1>6, PassFacts DEF IndexUnmarked, Pass, FreshInv, TypeOK, RunTypes
  <2> QED BY <1>1, <1>6, <2>1, MoreRowsFacts DEF IndexUnmarked, Commit
<1>7. CASE DropRows \/ DropAssets \/ BeginFullIndex \/ RecordSkippedAssetPaths \/ Finish
  BY <1>7, CommitFacts, EmptyDbFacts
<1>8. CASE ListAssets
  <2>1. disk' = disk /\ view' \in {view, Without(view, view.known \ Present)}
    BY <1>8 DEF ListAssets
  <2>2. view.known \ Present \in SUBSET Assets
    BY <1>1, DbFields
  <2> QED BY <1>1, <2>1, <2>2, WithoutFacts
<1>9. CASE LeaveScan
  BY <1>1, <1>9 DEF LeaveScan
<1>10. CASE MarkBatch
  <2>1. PICK b \in Batches : BumpDeepIndexAttempts(b)
    BY <1>10 DEF MarkBatch
  <2>2. b \in SUBSET Assets /\ \A a \in b : disk.attempts[a] < MaxAttempts
    BY DEF Batches, QueueInv, TypeOK, QueueTypes
  <2> QED BY <1>1, <2>1, <2>2, BumpedFacts DEF BumpDeepIndexAttempts, Commit
<1>11. CASE RunSentinelInTransaction
  <2>1. Pass \in PassNames
    BY <1>11, PassFacts DEF RunSentinelInTransaction, SentinelDue, AtPass, Pass,
       FreshInv, TypeOK, RunTypes
  <2>2. disk' = SentinelDone(disk, Pass) /\ view' = disk'
    BY <1>11 DEF RunSentinelInTransaction, Commit
  <2> QED BY <1>1, <2>1, <2>2, SentinelFacts
<1> QED BY <1>2, <1>3, <1>4, <1>5, <1>6, <1>7, <1>8, <1>9, <1>10, <1>11, NextCases

LEMMA QueueTypesStep ==
    ASSUME TypeOK, Next
    PROVE  QueueTypes'
<1> USE DEF QueueTypes
<1>1. QueueTypes /\ WorldTypes /\ Zero \in [Assets -> 0 .. MaxVersion]
  BY BoundFacts DEF TypeOK, Zero
<1> SUFFICES ASSUME ~UNCHANGED queueVars PROVE QueueTypes'
  BY <1>1 DEF queueVars
<1>2. CASE \E a \in Assets : QueueAsset(a)
  BY <1>1, <1>2, HashFacts DEF QueueAsset, Visit
<1>3. CASE \E a \in Assets : IndexAsset(a)
  BY <1>1, <1>3, BoundFacts DEF IndexAsset
<1>4. CASE MarkBatch
  BY <1>1, <1>4 DEF MarkBatch, Batches
<1>5. CASE LeaveDeepPass
  BY <1>1, <1>5 DEF LeaveDeepPass
<1>6. CASE Falling
  BY <1>1, <1>6 DEF Falling, Die, KillEditor, KilledInPass, Crash, TransactionFails
<1>7. ASSUME NEW a \in Assets, ListOnly(a) \/ SkipIndexed(a) \/ SkipPoison(a)
      PROVE  UNCHANGED queueVars
  BY <1>7 DEF ListOnly, SkipIndexed, SkipPoison, Visit, queueVars
<1>8. ASSUME \/ Launch \/ Start \/ StartFullIndex \/ BeginFails \/ UserStops
             \/ SkipSentinel \/ BeginUnmarkedPass \/ LeaveUnmarkedPass
             \/ \E a \in Assets : EditAsset(a) \/ IndexUnmarked(a)
      PROVE  UNCHANGED queueVars
  BY <1>8 DEF Launch, Start, StartFullIndex, BeginFails, UserStops, SkipSentinel,
              BeginUnmarkedPass, LeaveUnmarkedPass, EditAsset, IndexUnmarked,
              queueVars, runVars
<1>9. ASSUME \/ DropRows \/ DropAssets \/ BeginFullIndex \/ ListAssets \/ LeaveScan
             \/ RecordSkippedAssetPaths \/ RunSentinelInTransaction \/ Finish
      PROVE  UNCHANGED queueVars
  BY <1>9 DEF DropRows, DropAssets, BeginFullIndex, ListAssets, LeaveScan,
              RecordSkippedAssetPaths, RunSentinelInTransaction, Finish, queueVars, runVars
<1> QED BY <1>2, <1>3, <1>4, <1>5, <1>6, <1>7, <1>8, <1>9, NextCases DEF Quiet, Visits

LEMMA RunTypesStep ==
    ASSUME TypeOK, FreshInv, Next
    PROVE  RunTypes'
<1> USE DEF RunTypes
<1>1. RunTypes /\ DbTypes /\ WorldTypes
  BY DEF TypeOK
<1> SUFFICES ASSUME ~UNCHANGED runVars PROVE RunTypes'
  BY <1>1 DEF runVars
<1>2. ASSUME NEW a \in Assets, Visits(a)
      PROVE  RunTypes'
  BY <1>1, <1>2 DEF Visits, ListOnly, SkipIndexed, SkipPoison, QueueAsset, Visit
<1>3. ASSUME NEW a \in Assets, IndexAsset(a) \/ IndexUnmarked(a)
      PROVE  RunTypes'
  BY <1>1, <1>3 DEF IndexAsset, IndexUnmarked
<1>4. CASE SkipSentinel \/ RunSentinelInTransaction \/ LeaveUnmarkedPass
  BY <1>1, <1>4, PassFacts
     DEF SkipSentinel, RunSentinelInTransaction, SentinelDue, LeaveUnmarkedPass, AtPass,
        FreshInv
<1>5. CASE BeginUnmarkedPass
  BY <1>1, <1>5 DEF BeginUnmarkedPass, Found, Present
<1>6. CASE LeaveDeepPass
  BY <1>1, <1>6, PassFacts DEF LeaveDeepPass
<1>12. CASE Finish
  <2>1. next' = 0 /\ resume' = FALSE /\ stopped' = FALSE /\ todo' = todo /\ poisoned' = poisoned
    BY <1>12 DEF Finish
  <2>2. resume' \in BOOLEAN /\ stopped' \in BOOLEAN
    BY <2>1
  <2>3. 0 \in 0 .. Len(Passes) + 1
    BY PassFacts
  <2> QED BY <1>1, <2>1, <2>2, <2>3
<1>13. CASE MarkBatch
  BY <1>1, <1>13 DEF MarkBatch
<1>7. CASE ListAssets \/ LeaveScan \/ RecordSkippedAssetPaths
  BY <1>1, <1>7 DEF ListAssets, LeaveScan, RecordSkippedAssetPaths, Present
<1>8. CASE Die \/ KilledInPass \/ \E a \in Assets : KillEditor(a)
  <2>1. next' = 0 /\ resume' = FALSE /\ stopped' = FALSE /\ todo' = {} /\ poisoned' = {}
    BY <1>8 DEF Die, KillEditor, KilledInPass, Crash
  <2>2. resume' \in BOOLEAN /\ stopped' \in BOOLEAN
    BY <2>1
  <2>3. 0 \in 0 .. Len(Passes) + 1
    BY PassFacts
  <2> QED BY <2>1, <2>2, <2>3
<1>14. CASE TransactionFails
  BY <1>1, <1>14 DEF TransactionFails
<1>9. CASE Start
  BY <1>1, <1>9 DEF Start, Interrupted
<1>10. CASE UserStops
  BY <1>1, <1>10 DEF UserStops
<1>11. ASSUME \/ Launch \/ StartFullIndex \/ BeginFails
              \/ DropRows \/ DropAssets \/ BeginFullIndex
              \/ \E a \in Assets : EditAsset(a)
       PROVE  UNCHANGED runVars
  BY <1>11 DEF Launch, StartFullIndex, BeginFails, DropRows, DropAssets,
               BeginFullIndex, EditAsset
<1> QED BY <1>2, <1>3, <1>4, <1>5, <1>6, <1>7, <1>8, <1>9, <1>10, <1>11,
          <1>12, <1>13, <1>14, NextCases
        DEF Quiet, Falling

LEMMA WorldTypesStep ==
    ASSUME TypeOK, Next
    PROVE  WorldTypes'
<1> USE DEF WorldTypes
<1>1. WorldTypes /\ Zero \in [Assets -> Nat]
  BY DEF TypeOK, Zero
<1>2. ASSUME NEW a \in Assets, Visits(a) \/ IndexAsset(a) \/ IndexUnmarked(a)
      PROVE  WorldTypes'
  BY <1>1, <1>2 DEF Visits, ListOnly, SkipIndexed, SkipPoison, QueueAsset, Visit,
                    IndexAsset, IndexUnmarked
<1>3. CASE Die \/ KilledInPass \/ TransactionFails
  BY <1>1, <1>3, BoundFacts DEF Die, KilledInPass, Crash, TransactionFails, Mishap
<1>4. ASSUME NEW a \in Assets, KillEditor(a)
      PROVE  WorldTypes'
  BY <1>1, <1>4 DEF KillEditor, Crash
<1>5. ASSUME NEW a \in Assets, EditAsset(a)
      PROVE  WorldTypes'
  BY <1>1, <1>5, BoundFacts DEF EditAsset, Mishap
<1>6. CASE StartFullIndex \/ UserStops \/ BeginFails
  BY <1>1, <1>6, BoundFacts DEF StartFullIndex, UserStops, BeginFails, Mishap
<1>7. CASE Launch \/ Start \/ LeaveDeepPass \/ SkipSentinel \/ BeginUnmarkedPass
           \/ LeaveUnmarkedPass
  BY <1>1, <1>7 DEF Launch, Start, LeaveDeepPass, SkipSentinel, BeginUnmarkedPass,
                    LeaveUnmarkedPass
<1>8. CASE DropRows \/ DropAssets \/ BeginFullIndex \/ ListAssets \/ LeaveScan
  BY <1>1, <1>8 DEF DropRows, DropAssets, BeginFullIndex, ListAssets, LeaveScan
<1>9. CASE RecordSkippedAssetPaths \/ MarkBatch \/ RunSentinelInTransaction \/ Finish
  BY <1>1, <1>9 DEF RecordSkippedAssetPaths, MarkBatch, RunSentinelInTransaction,
                    SentinelDue, Finish, AtPass
<1> QED BY <1>2, <1>3, <1>4, <1>5, <1>6, <1>7, <1>8, <1>9, NextCases DEF Quiet, Falling

LEMMA TypeStep ==
    ASSUME TypeOK, QueueInv, FreshInv, Next
    PROVE  TypeOK'
  BY DbTypesStep, QueueTypesStep, RunTypesStep, WorldTypesStep DEF TypeOK

-----------------------------------------------------------------------------
(* Post-passes: their rows and their checkpoints.                          *)

\* Each copy of the database comes from one of the two, with fewer rows.
Shrinks ==
    /\ Shrunk(disk, disk') \/ Shrunk(view, disk')
    /\ Shrunk(disk, view') \/ Shrunk(view, view')

LEMMA ShrunkSelf == \A db : Shrunk(db, db)
  BY DEF Shrunk

LEMMA ShrinkStep ==
    ASSUME TypeOK, QueueInv, Next
    PROVE  \/ Shrinks \/ DropAssets \/ RunSentinelInTransaction
           \/ \E a \in Assets : IndexUnmarked(a)
<1> USE ShrunkSelf
<1>1. disk \in Db /\ view \in Db
  BY DEF TypeOK, DbTypes
<1>2. CASE Quiet
  BY <1>2, QuietFacts DEF Shrinks
<1>3. CASE Falling
  BY <1>3, FallingFacts DEF Shrinks
<1>4. ASSUME NEW a \in Assets, Visits(a)
      PROVE  Shrinks
  BY <1>4, VisitFacts DEF Shrinks
<1>5. ASSUME NEW a \in Assets, IndexAsset(a)
      PROVE  Shrinks
  <2>1. view' = Indexed(view, a) /\ disk' \in {disk, view'}
    BY <1>5 DEF IndexAsset
  <2>2. Shrunk(view, Indexed(view, a))
    BY <1>1, IndexedFacts DEF TypeOK, QueueTypes, WorldTypes
  <2> QED BY <2>1, <2>2 DEF Shrinks
<1>6. CASE DropRows \/ BeginFullIndex \/ RecordSkippedAssetPaths \/ Finish
  BY <1>6, CommitFacts DEF Shrinks
<1>7. CASE ListAssets
  <2>1. disk' = disk /\ view' \in {view, Without(view, view.known \ Present)}
    BY <1>7 DEF ListAssets
  <2>2. view.known \ Present \in SUBSET Assets
    BY <1>1, DbFields
  <2> QED BY <1>1, <2>1, <2>2, WithoutFacts DEF Shrinks
<1>8. CASE LeaveScan
  BY <1>8 DEF LeaveScan, Shrinks
<1>9. CASE MarkBatch
  <2>1. PICK b \in Batches : BumpDeepIndexAttempts(b)
    BY <1>9 DEF MarkBatch
  <2>2. b \in SUBSET Assets /\ \A a \in b : disk.attempts[a] < MaxAttempts
    BY DEF Batches, QueueInv, TypeOK, QueueTypes
  <2> QED BY <1>1, <2>1, <2>2, BumpedFacts DEF BumpDeepIndexAttempts, Commit, Shrinks
<1> QED BY <1>2, <1>3, <1>4, <1>5, <1>6, <1>7, <1>8, <1>9, NextCases

\* A sentinel that runs has no rows yet.
LEMMA SentinelIsNew ==
    ASSUME TypeOK, FreshInv, RunSentinelInTransaction
    PROVE  /\ Pass \in PassNames \ Unmarked
           /\ next \in DOMAIN Passes
           /\ Pass \notin disk.done
<1>1. next \in DOMAIN Passes
  BY PassFacts DEF RunSentinelInTransaction, SentinelDue, AtPass, FreshInv, TypeOK, RunTypes
<1>2. Pass \in PassNames \ Unmarked
  BY <1>1, PassFacts DEF RunSentinelInTransaction, SentinelDue, Pass
<1>3. Pass \notin disk.done
  BY <1>1, PassFacts DEF RunSentinelInTransaction, SentinelDue, AtPass, Pass, FreshInv,
     TypeOK, RunTypes
<1> QED BY <1>1, <1>2, <1>3

LEMMA RowsStep ==
    ASSUME TypeOK, QueueInv, FreshInv, RowsOnce(disk), RowsOnce(view), Next
    PROVE  RowsOnce(disk)' /\ RowsOnce(view)'
<1>1. disk \in Db
  BY DEF TypeOK, DbTypes
<1> SUFFICES RowsOnce(disk') /\ RowsOnce(view')
  BY DEF RowsOnce
<1>2. CASE Shrinks
  BY <1>2, ShrunkRows DEF Shrinks
<1>3. CASE DropAssets
  <2>1. RowsOnce(EmptyDb)
    BY EmptyDbFacts DEF RowsOnce, NoPostRows
  <2> QED BY <1>3, <2>1 DEF DropAssets, Commit
<1>4. CASE RunSentinelInTransaction
  <2> DEFINE e == SentinelDone(disk, Pass)
  <2>1. disk' = e /\ view' = e
    BY <1>4 DEF RunSentinelInTransaction, Commit
  <2>2. Pass \in PassNames \ Unmarked /\ Pass \notin disk.done
    BY <1>4, SentinelIsNew
  <2>3. /\ e.done = disk.done \cup {Pass}
        /\ \A q \in PassNames \ {Pass} : e.post[q] = disk.post[q]
        /\ \A a \in Assets : e.post[Pass][a] \in {disk.post[Pass][a], disk.post[Pass][a] + 1}
    BY <1>1, <2>2, SentinelFacts
  <2>4. \A a \in Assets : disk.post[Pass][a] = 0
    BY <2>2 DEF RowsOnce
  <2>5. RowsOnce(e)
    <3> HIDE DEF e
    <3> QED BY <2>2, <2>3, <2>4 DEF RowsOnce
  <2> QED BY <2>1, <2>5
<1>5. ASSUME NEW a \in Assets, IndexUnmarked(a)
      PROVE  RowsOnce(disk') /\ RowsOnce(view')
  <2> DEFINE e == MoreRows(disk, Pass, {a} \cap Present)
  <2>1. disk' = e /\ view' = e
    BY <1>5 DEF IndexUnmarked, Commit
  <2>2. Pass \in PassNames
    BY <1>5, PassFacts DEF IndexUnmarked, Pass, FreshInv, TypeOK, RunTypes
  <2> QED BY <1>1, <1>5, <2>1, <2>2, MoreRowsFacts
         DEF RowsOnce, IndexUnmarked, FreshInv
<1> QED BY <1>2, <1>3, <1>4, <1>5, ShrinkStep

\* Only a sentinel and a reset change what is checkpointed.
LEMMA DoneStep ==
    ASSUME TypeOK, TransactionInv, QueueInv, FreshInv, Next
    PROVE  /\ view'.done = disk'.done
           /\ \/ disk'.done = disk.done
              \/ DropAssets /\ disk'.done = {}
              \/ RunSentinelInTransaction /\ disk'.done = disk.done \cup {Pass}
<1>1. disk \in Db /\ view.done = disk.done
  BY DEF TypeOK, DbTypes, TransactionInv
<1>2. CASE Shrinks
  BY <1>1, <1>2 DEF Shrinks, Shrunk
<1>3. CASE DropAssets
  BY <1>3, EmptyDbFacts DEF DropAssets, Commit
<1>4. CASE RunSentinelInTransaction
  <2>1. Pass \in PassNames
    BY <1>4, SentinelIsNew
  <2> QED BY <1>1, <1>4, <2>1, SentinelFacts DEF RunSentinelInTransaction, Commit
<1>5. ASSUME NEW a \in Assets, IndexUnmarked(a)
      PROVE  view'.done = disk'.done /\ disk'.done = disk.done
  <2>1. Pass \in PassNames
    BY <1>5, PassFacts DEF IndexUnmarked, Pass, FreshInv, TypeOK, RunTypes
  <2> QED BY <1>1, <1>5, <2>1, MoreRowsFacts DEF IndexUnmarked, Commit
<1> QED BY <1>2, <1>3, <1>4, <1>5, ShrinkStep

\* The part of FreshInv that is about where the run is.
PlaceInv ==
    /\ pc \in {"post", "unmarked"} => next >= 1
    /\ pc = "unmarked" => next <= Len(Passes) /\ Pass \in Unmarked
    /\ pc \in {"down", "idle", "drop", "dropping", "begin"} => ~resume

LEMMA PlaceStep ==
    ASSUME TypeOK, FreshInv, Next
    PROVE  PlaceInv'
<1> USE DEF PlaceInv, Pass
<1>1. PlaceInv /\ next \in Int
  BY DEF FreshInv, TypeOK, RunTypes
<1>2. ASSUME NEW a \in Assets, Visits(a) \/ IndexAsset(a) \/ IndexUnmarked(a)
      PROVE  PlaceInv'
  BY <1>1, <1>2 DEF Visits, ListOnly, SkipIndexed, SkipPoison, QueueAsset, Visit,
                    IndexAsset, IndexUnmarked
<1>3. CASE Die \/ KilledInPass \/ \E a \in Assets : KillEditor(a)
  BY <1>3 DEF Die, KillEditor, KilledInPass, Crash
<1>4. CASE TransactionFails
  BY <1>1, <1>4 DEF TransactionFails
<1>5. CASE \E a \in Assets : EditAsset(a)
  BY <1>1, <1>5 DEF EditAsset, runVars
<1>6. CASE StartFullIndex \/ BeginFails \/ Launch
  BY <1>1, <1>6 DEF StartFullIndex, BeginFails, Launch, runVars
<1>7. CASE UserStops
  BY <1>1, <1>7 DEF UserStops
<1>8. CASE Start
  BY <1>1, <1>8 DEF Start
<1>9. CASE LeaveDeepPass \/ SkipSentinel \/ LeaveUnmarkedPass
  BY <1>1, <1>9 DEF LeaveDeepPass, SkipSentinel, LeaveUnmarkedPass, AtPass
<1>10. CASE BeginUnmarkedPass
  BY <1>1, <1>10 DEF BeginUnmarkedPass, AtPass
<1>11. CASE DropRows \/ DropAssets \/ BeginFullIndex
  BY <1>1, <1>11 DEF DropRows, DropAssets, BeginFullIndex, runVars
<1>12. CASE ListAssets \/ LeaveScan \/ RecordSkippedAssetPaths \/ MarkBatch
  BY <1>1, <1>12 DEF ListAssets, LeaveScan, RecordSkippedAssetPaths, MarkBatch
<1>13. CASE RunSentinelInTransaction
  BY <1>1, <1>13 DEF RunSentinelInTransaction, SentinelDue, AtPass
<1>14. CASE Finish
  BY <1>14 DEF Finish
<1> QED BY <1>2, <1>3, <1>4, <1>5, <1>6, <1>7, <1>8, <1>9, <1>10, <1>11, <1>12, <1>13,
           <1>14, NextCases DEF Quiet, Falling

\* A run that is not a resume reaches a later place only from an earlier one.
Early == {"begin", "list", "scan", "record", "mark", "work"}

LEMMA FreshMoves ==
    ASSUME TypeOK, FreshInv, Next, ~resume'
    PROVE  /\ pc' \in Early => ~resume /\ (pc \in Early \/ DropAssets)
           /\ pc' \in {"post", "unmarked"} =>
                /\ ~resume
                /\ \/ pc \in Early
                   \/ /\ pc \in {"post", "unmarked"} /\ next' >= next
                      /\ RunSentinelInTransaction => next' = next + 1
<1> USE DEF Early
<1>1. next \in Int
  BY DEF TypeOK, RunTypes
<1> DEFINE Moves ==
      /\ pc' \in Early => ~resume /\ (pc \in Early \/ DropAssets)
      /\ pc' \in {"post", "unmarked"} =>
           /\ ~resume
           /\ \/ pc \in Early
              \/ /\ pc \in {"post", "unmarked"} /\ next' >= next
                 /\ RunSentinelInTransaction => next' = next + 1
<1>2. CASE RunSentinelInTransaction
  BY <1>1, <1>2 DEF RunSentinelInTransaction, SentinelDue, AtPass
<1> SUFFICES ASSUME ~RunSentinelInTransaction PROVE Moves
  BY <1>2
<1>3. ASSUME NEW a \in Assets, Visits(a) \/ IndexAsset(a) \/ IndexUnmarked(a)
      PROVE  Moves
  BY <1>1, <1>3 DEF Visits, ListOnly, SkipIndexed, SkipPoison, QueueAsset, Visit,
                    IndexAsset, IndexUnmarked
<1>4. CASE Die \/ KilledInPass \/ \E a \in Assets : KillEditor(a)
  BY <1>4 DEF Die, KillEditor, KilledInPass, Crash
<1>5. CASE TransactionFails
  BY <1>1, <1>5 DEF TransactionFails
<1>6. CASE \E a \in Assets : EditAsset(a)
  BY <1>1, <1>6 DEF EditAsset, runVars
<1>7. CASE StartFullIndex \/ BeginFails \/ Launch
  BY <1>1, <1>7 DEF StartFullIndex, BeginFails, Launch, runVars
<1>8. CASE UserStops
  BY <1>1, <1>8 DEF UserStops
<1>9. CASE Start
  BY <1>9 DEF Start
<1>10. CASE LeaveDeepPass \/ SkipSentinel
  BY <1>1, <1>10 DEF LeaveDeepPass, SkipSentinel, AtPass
<1>11. CASE BeginUnmarkedPass \/ LeaveUnmarkedPass
  BY <1>1, <1>11 DEF BeginUnmarkedPass, LeaveUnmarkedPass, AtPass
<1>12. CASE DropRows \/ DropAssets \/ BeginFullIndex
  BY <1>12 DEF DropRows, DropAssets, BeginFullIndex, runVars, FreshInv
<1>13. CASE ListAssets \/ LeaveScan \/ RecordSkippedAssetPaths \/ MarkBatch
  BY <1>13 DEF ListAssets, LeaveScan, RecordSkippedAssetPaths, MarkBatch
<1>14. CASE Finish
  BY <1>14 DEF Finish
<1> QED BY <1>3, <1>4, <1>5, <1>6, <1>7, <1>8, <1>9, <1>10, <1>11, <1>12, <1>13, <1>14,
           NextCases DEF Quiet, Falling

LEMMA FreshStep ==
    ASSUME TypeOK, TransactionInv, QueueInv, FreshInv, Next
    PROVE  FreshInv'
<1>1. PlaceInv'
  BY PlaceStep
<1>2. ASSUME ~resume', pc' \in Early
      PROVE  disk'.done = {}
  <2>1. CASE DropAssets
    BY <2>1, EmptyDbFacts DEF DropAssets, Commit
  <2>2. CASE pc \in Early /\ ~DropAssets
    <3>1. ~resume /\ disk.done = {}
      BY <1>2, <2>2, FreshMoves DEF FreshInv, Early
    <3>2. ~RunSentinelInTransaction
      BY <2>2 DEF RunSentinelInTransaction, SentinelDue, AtPass, Early
    <3> QED BY <2>2, <3>1, <3>2, DoneStep
  <2> QED BY <1>2, <2>1, <2>2, FreshMoves
<1>3. ASSUME ~resume', pc' \in {"post", "unmarked"},
             NEW i \in DOMAIN Passes, i >= next'
      PROVE  Passes[i] \notin disk'.done
  <2>1. next \in Int /\ next' \in Int /\ i \in Int
    BY RunTypesStep, PassFacts DEF TypeOK, RunTypes
  <2>2. /\ ~resume
        /\ \/ pc \in Early
           \/ /\ pc \in {"post", "unmarked"} /\ next' >= next
              /\ RunSentinelInTransaction => next' = next + 1
    BY <1>3, FreshMoves
  <2>3. Passes[i] \notin disk.done
    BY <1>3, <2>1, <2>2 DEF FreshInv, Early
  <2>4. CASE RunSentinelInTransaction
    <3>1. next \in DOMAIN Passes /\ i # next
      BY <1>3, <2>1, <2>2, <2>4, SentinelIsNew DEF Early, RunSentinelInTransaction,
         SentinelDue, AtPass
    <3>2. Passes[i] # Pass
      BY <3>1, PassFacts DEF Pass
    <3>3. ~DropAssets
      BY <2>4 DEF DropAssets, RunSentinelInTransaction, SentinelDue, AtPass
    <3> QED BY <2>3, <3>2, <3>3, DoneStep
  <2>5. CASE ~RunSentinelInTransaction
    BY <2>3, <2>5, DoneStep
  <2> QED BY <2>4, <2>5
<1> QED BY <1>1, <1>2, <1>3 DEF FreshInv, PlaceInv, Early

-----------------------------------------------------------------------------
(* Transactions and what is queued.                                        *)

LEMMA TransactionStep ==
    ASSUME TypeOK, TransactionInv, QueueInv, FreshInv, Next
    PROVE  TransactionInv'
<1> DEFINE Here == /\ pc \notin {"scan", "work"} => view = disk
                   /\ batch # {} => pc = "work"
<1>1. view'.done = disk'.done
  BY DoneStep
<1>2. Here
  BY DEF TransactionInv
<1> SUFFICES Here'
  BY <1>1 DEF TransactionInv
<1>3. CASE Falling
  <2>1. view' = disk' /\ batch' = {}
    BY <1>3 DEF Falling, Die, KillEditor, KilledInPass, Crash, TransactionFails
  <2> QED BY <2>1
<1>4. ASSUME NEW a \in Assets, Visits(a)
      PROVE  Here'
  <2>1. batch' = batch /\ pc = "scan" /\ pc' = "scan"
    BY <1>4 DEF Visits, ListOnly, SkipIndexed, SkipPoison, QueueAsset, Visit
  <2> QED BY <1>2, <2>1
<1>5. ASSUME NEW a \in Assets, IndexAsset(a)
      PROVE  Here'
  BY <1>5 DEF IndexAsset
<1>6. ASSUME NEW a \in Assets, IndexUnmarked(a)
      PROVE  Here'
  BY <1>2, <1>6 DEF IndexUnmarked, Commit, queueVars
<1>7. CASE DropRows \/ DropAssets \/ BeginFullIndex
  BY <1>2, <1>7 DEF DropRows, DropAssets, BeginFullIndex, Commit, runVars, queueVars
<1>8. CASE RecordSkippedAssetPaths \/ RunSentinelInTransaction \/ Finish
  BY <1>2, <1>8 DEF RecordSkippedAssetPaths, RunSentinelInTransaction, SentinelDue,
     Finish, AtPass,
                    Commit, queueVars
<1>9. CASE ListAssets \/ LeaveScan
  BY <1>2, <1>9 DEF ListAssets, LeaveScan, queueVars
<1>10. CASE MarkBatch
  BY <1>10 DEF MarkBatch, BumpDeepIndexAttempts, Commit
<1>11. ASSUME \E a \in Assets : EditAsset(a)
       PROVE  batch' = batch /\ pc' = pc
  BY <1>11 DEF EditAsset, runVars, queueVars
<1>12. ASSUME StartFullIndex \/ BeginFails \/ Launch \/ Start \/ UserStops
       PROVE  batch' = batch /\ (pc' = pc \/ pc \notin {"scan", "work"})
  BY <1>12 DEF StartFullIndex, BeginFails, Launch, Start, UserStops, runVars, queueVars
<1>13. ASSUME LeaveDeepPass \/ SkipSentinel \/ BeginUnmarkedPass \/ LeaveUnmarkedPass
       PROVE  batch' = batch /\ pc \notin {"scan", "work"}
  BY <1>13 DEF LeaveDeepPass, SkipSentinel, BeginUnmarkedPass, LeaveUnmarkedPass, AtPass,
               queueVars
<1>14. CASE Quiet
  BY <1>2, <1>11, <1>12, <1>13, <1>14, QuietFacts DEF Quiet
<1> QED BY <1>3, <1>4, <1>5, <1>6, <1>7, <1>8, <1>9, <1>10, <1>14, NextCases

\* What is left to visit, while the assets are scanned.
TodoInv == pc = "scan" => \A a \in todo : view.attempts[a] = disk.attempts[a]

LEMMA TodoStep ==
    ASSUME TypeOK, TransactionInv, QueueInv, FreshInv, Next
    PROVE  TodoInv'
<1>1. TodoInv /\ disk \in Db /\ view \in Db
  BY DEF QueueInv, TodoInv, TypeOK, DbTypes
<1> SUFFICES ASSUME pc' = "scan", NEW a \in todo'
             PROVE  view'.attempts[a] = disk'.attempts[a]
  BY DEF TodoInv
<1>2. CASE ListAssets
  <2>1. view = disk /\ disk' = disk
    BY <1>2 DEF ListAssets, TransactionInv
  <2>2. a \in Present /\ a \in Assets
    BY <1>2 DEF ListAssets, Present
  <2>3. view' \in {view, Without(view, view.known \ Present)}
    BY <1>2 DEF ListAssets
  <2>4. Without(view, view.known \ Present).attempts[a] = view.attempts[a]
    BY <1>1, <2>2, DbFields, WithoutFacts
  <2> QED BY <2>1, <2>3, <2>4
<1>3. ASSUME NEW x \in Assets, Visits(x)
      PROVE  view'.attempts[a] = disk'.attempts[a]
  <2>1. a \in todo
    BY <1>3 DEF Visits, ListOnly, SkipIndexed, SkipPoison, QueueAsset, Visit
  <2>2. view'.attempts = view.attempts /\ disk' \in {disk, view'} /\ pc = "scan"
    BY <1>3, VisitFacts
  <2> QED BY <1>1, <2>1, <2>2 DEF TodoInv
<1>4. CASE UserStops \/ \E x \in Assets : EditAsset(x)
  BY <1>1, <1>4 DEF UserStops, EditAsset, TodoInv, runVars, dbVars
<1>5. ASSUME Falling
      PROVE  FALSE
  BY <1>5 DEF Falling, Die, KillEditor, KilledInPass, Crash, TransactionFails
<1>6. ASSUME \/ StartFullIndex \/ BeginFails \/ Launch \/ Start
             \/ LeaveDeepPass \/ SkipSentinel \/ BeginUnmarkedPass \/ LeaveUnmarkedPass
      PROVE  FALSE
  BY <1>6 DEF StartFullIndex, BeginFails, Launch, Start, LeaveDeepPass, SkipSentinel,
              BeginUnmarkedPass, LeaveUnmarkedPass, AtPass
<1>7. ASSUME \/ DropRows \/ DropAssets \/ BeginFullIndex \/ LeaveScan
             \/ RecordSkippedAssetPaths \/ MarkBatch \/ RunSentinelInTransaction \/ Finish
      PROVE  FALSE
  BY <1>7 DEF DropRows, DropAssets, BeginFullIndex, LeaveScan, RecordSkippedAssetPaths,
              MarkBatch, RunSentinelInTransaction, SentinelDue, Finish, AtPass
<1>8. ASSUME NEW x \in Assets, IndexAsset(x) \/ IndexUnmarked(x)
      PROVE  FALSE
  BY <1>8 DEF IndexAsset, IndexUnmarked
<1> QED BY <1>2, <1>3, <1>4, <1>5, <1>6, <1>7, <1>8, NextCases DEF Quiet

\* What is queued has not used up its attempts.
Fresh(db, q) == \A a \in q : db.attempts[a] < MaxAttempts

LEMMA QueueStep ==
    ASSUME TypeOK, TransactionInv, QueueInv, FreshInv, Next
    PROVE  QueueInv'
<1>1. disk \in Db /\ view \in Db /\ queue \subseteq Assets
  BY DEF TypeOK, DbTypes, QueueTypes
<1>2. Fresh(disk, queue) /\ Fresh(view, queue)
  BY DEF Fresh, QueueInv
<1> DEFINE Goal == Fresh(disk', queue') /\ Fresh(view', queue')
<1> SUFFICES Goal
  BY TodoStep DEF QueueInv, TodoInv, Fresh
<1>3. ASSUME Quiet
      PROVE  queue' \subseteq queue
  <2>1. ASSUME \E a \in Assets : EditAsset(a)
        PROVE  queue' = queue
    BY <2>1 DEF EditAsset, runVars, queueVars
  <2>2. ASSUME StartFullIndex \/ BeginFails \/ Launch \/ Start \/ UserStops
        PROVE  queue' = queue
    BY <2>2 DEF StartFullIndex, BeginFails, Launch, Start, UserStops, runVars, queueVars
  <2>3. ASSUME LeaveDeepPass \/ SkipSentinel \/ BeginUnmarkedPass \/ LeaveUnmarkedPass
        PROVE  queue' \subseteq queue
    BY <2>3 DEF LeaveDeepPass, SkipSentinel, BeginUnmarkedPass, LeaveUnmarkedPass, queueVars
  <2> QED BY <1>3, <2>1, <2>2, <2>3 DEF Quiet
<1>4. CASE Quiet
  BY <1>2, <1>3, <1>4, QuietFacts DEF Fresh
<1>5. CASE Falling
  <2>1. queue' \subseteq queue
    BY <1>5 DEF Falling, Die, KillEditor, KilledInPass, Crash, TransactionFails
  <2> QED BY <1>2, <1>5, <2>1, FallingFacts DEF Fresh
<1>6. ASSUME NEW a \in Assets, Visits(a)
      PROVE  Goal
  <2>1. ASSUME QueueAsset(a)
        PROVE  disk.attempts[a] < MaxAttempts /\ view.attempts[a] < MaxAttempts
    <3>1. view.attempts[a] = disk.attempts[a]
      BY <1>6, VisitFacts DEF QueueInv
    <3>2. view.attempts[a] \in 0 .. MaxAttempts /\ ~(view.attempts[a] >= MaxAttempts)
      BY <1>1, <2>1, DbFields DEF QueueAsset, IsPoison
    <3> QED BY <3>1, <3>2, BoundFacts
  <2>2. \/ queue' = queue
        \/ QueueAsset(a) /\ queue' = queue \cup {a}
    BY <1>6 DEF Visits, ListOnly, SkipIndexed, SkipPoison, QueueAsset, Visit
  <2>3. view'.attempts = view.attempts /\ disk' \in {disk, view'}
    BY <1>6, VisitFacts
  <2> QED BY <1>2, <2>1, <2>2, <2>3 DEF Fresh
<1>7. ASSUME NEW a \in Assets, IndexAsset(a)
      PROVE  Goal
  <2>1. view' = Indexed(view, a) /\ disk' \in {disk, view'} /\ queue' = queue
    BY <1>7 DEF IndexAsset
  <2>2. /\ \A x \in Assets \ {a} : view'.attempts[x] = view.attempts[x]
        /\ view'.attempts[a] \in {0, view.attempts[a]}
    BY <1>1, <2>1, IndexedFacts DEF TypeOK, QueueTypes, WorldTypes
  <2>3. Fresh(view', queue)
    BY <1>1, <1>2, <2>2, BoundFacts DEF Fresh
  <2> QED BY <1>2, <2>1, <2>3
<1>8. ASSUME NEW a \in Assets, IndexUnmarked(a)
      PROVE  Goal
  <2>1. Pass \in PassNames
    BY <1>8, PassFacts DEF IndexUnmarked, Pass, FreshInv, TypeOK, RunTypes
  <2>2. disk' = MoreRows(disk, Pass, {a} \cap Present) /\ view' = disk' /\ queue' = queue
    BY <1>8 DEF IndexUnmarked, Commit, queueVars
  <2> QED BY <1>1, <1>2, <2>1, <2>2, MoreRowsFacts DEF Fresh
<1>9. CASE DropRows \/ BeginFullIndex \/ RecordSkippedAssetPaths \/ Finish
  <2>1. queue' = queue
    BY <1>9 DEF DropRows, BeginFullIndex, RecordSkippedAssetPaths, Finish, runVars, queueVars
  <2> QED BY <1>2, <1>9, <2>1, CommitFacts DEF Fresh
<1>10. CASE DropAssets
  <2>1. queue' = queue /\ disk' = EmptyDb /\ view' = EmptyDb
    BY <1>10 DEF DropAssets, Commit, runVars, queueVars
  <2> QED BY <1>1, <2>1, EmptyDbFacts, BoundFacts DEF Fresh, Zero
<1>11. CASE ListAssets
  <2>1. disk' = disk /\ view' \in {view, Without(view, view.known \ Present)} /\ queue' = queue
    BY <1>11 DEF ListAssets, queueVars
  <2>2. view.known \ Present \in SUBSET Assets
    BY <1>1, DbFields
  <2> QED BY <1>1, <1>2, <2>1, <2>2, WithoutFacts, BoundFacts DEF Fresh
<1>12. CASE LeaveScan
  BY <1>2, <1>12 DEF LeaveScan, Fresh, queueVars
<1>13. CASE MarkBatch
  <2>1. PICK b \in Batches : BumpDeepIndexAttempts(b) /\ queue' = queue \ b
    BY <1>13 DEF MarkBatch
  <2>2. b \in SUBSET Assets /\ \A a \in b : disk.attempts[a] < MaxAttempts
    BY <1>1, <1>2 DEF Batches, Fresh
  <2>3. disk' = Bumped(disk, b) /\ view' = disk'
    BY <2>1 DEF BumpDeepIndexAttempts, Commit
  <2>4. \A a \in Assets \ b : Bumped(disk, b).attempts[a] = disk.attempts[a]
    BY <1>1, <2>2, BumpedFacts
  <2> QED BY <1>1, <1>2, <2>1, <2>3, <2>4 DEF Fresh
<1>14. CASE RunSentinelInTransaction
  <2>1. Pass \in PassNames
    BY <1>14, SentinelIsNew
  <2>2. disk' = SentinelDone(disk, Pass) /\ view' = disk' /\ queue' = queue
    BY <1>14 DEF RunSentinelInTransaction, Commit, queueVars
  <2> QED BY <1>1, <1>2, <2>1, <2>2, SentinelFacts DEF Fresh
<1> QED BY <1>4, <1>5, <1>6, <1>7, <1>8, <1>9, <1>10, <1>11, <1>12, <1>13, <1>14, NextCases

-----------------------------------------------------------------------------
(* Deaths and attempts.                                                    *)

\* KillInv survives what keeps the deaths and the attempts of deadly assets.
KeepsCount ==
    /\ kills' = kills
    /\ batch' \subseteq batch
    /\ \A a \in Assets : Deadly(a)' =>
         /\ Deadly(a)
         /\ disk'.attempts[a] \in {disk.attempts[a], view.attempts[a]}
         /\ view'.attempts[a] \in {disk.attempts[a], view.attempts[a]}

LEMMA CountKept ==
    ASSUME KillInv, KeepsCount
    PROVE  KillInv'
  BY DEF KillInv, KeepsCount

LEMMA QuietKeepsCount ==
    ASSUME TypeOK, Quiet
    PROVE  KeepsCount
<1>1. kills' = kills /\ batch' = batch /\ \A a \in Assets : content'[a] # 0 => content[a] # 0
  <2>1. CASE StartFullIndex \/ BeginFails \/ Launch \/ Start \/ UserStops
    BY <2>1 DEF StartFullIndex, BeginFails, Launch, Start, UserStops, runVars, queueVars
  <2>2. CASE LeaveDeepPass \/ SkipSentinel \/ BeginUnmarkedPass \/ LeaveUnmarkedPass
    BY <2>2 DEF LeaveDeepPass, SkipSentinel, BeginUnmarkedPass, LeaveUnmarkedPass, queueVars
  <2>3. CASE \E a \in Assets : EditAsset(a)
    BY <2>3 DEF EditAsset, runVars, queueVars, TypeOK, WorldTypes
  <2> QED BY <2>1, <2>2, <2>3 DEF Quiet
<1> QED BY <1>1, QuietFacts DEF KeepsCount, Deadly

LEMMA KillStep ==
    ASSUME TypeOK, TransactionInv, QueueInv, KillInv, FreshInv, Next
    PROVE  KillInv'
<1>1. /\ disk \in Db /\ view \in Db /\ kills \in [Assets -> Nat]
      /\ batch \subseteq Assets /\ queue \subseteq Assets
  BY DEF TypeOK, DbTypes, WorldTypes, QueueTypes
<1>2. CASE Quiet
  BY <1>2, QuietKeepsCount, CountKept
<1>3. CASE Die \/ KilledInPass \/ TransactionFails
  <2>1. disk' = disk /\ view' = disk
    BY <1>3, FallingFacts DEF Falling
  <2>2. kills' = kills /\ batch' = {} /\ content' = content
    BY <1>3 DEF Die, KilledInPass, Crash, TransactionFails
  <2> QED BY <2>1, <2>2, CountKept DEF KeepsCount, Deadly
<1>4. ASSUME NEW x \in Assets, KillEditor(x)
      PROVE  KillInv'
  <2>1. disk' = disk /\ view' = disk
    BY <1>4, FallingFacts DEF Falling
  <2>2. batch' = {} /\ content' = content
    BY <1>4 DEF KillEditor, Crash
  <2>3. /\ kills'[x] = kills[x] + 1
        /\ \A a \in Assets \ {x} : kills'[a] = kills[a]
    BY <1>1, <1>4 DEF KillEditor
  <2>4. Deadly(x) /\ x \in batch
    BY <1>4 DEF KillEditor, Kills, Deadly
  <2>5. disk.attempts[x] \in 0 .. MaxAttempts /\ kills[x] < disk.attempts[x]
    BY <1>1, <2>4, DbFields DEF KillInv
  <2>6. kills'[x] <= disk.attempts[x] /\ kills'[x] <= MaxAttempts
    BY <1>1, <2>3, <2>5, BoundFacts
  <2>7. \A a \in Assets : Deadly(a)' <=> Deadly(a)
    BY <2>2 DEF Deadly
  <2>8. \A a \in Assets :
          kills'[a] <= MaxAttempts /\ (Deadly(a) => kills'[a] <= disk.attempts[a])
    BY <2>3, <2>6 DEF KillInv
  <2> QED BY <2>1, <2>2, <2>7, <2>8 DEF KillInv
<1>5. ASSUME NEW x \in Assets, Visits(x)
      PROVE  KillInv'
  <2>1. kills' = kills /\ batch' = batch /\ content' = content
    BY <1>5 DEF Visits, ListOnly, SkipIndexed, SkipPoison, QueueAsset, Visit
  <2>2. view'.attempts = view.attempts /\ disk' \in {disk, view'}
    BY <1>5, VisitFacts
  <2> QED BY <2>1, <2>2, CountKept DEF KeepsCount, Deadly
<1>6. ASSUME NEW x \in Assets, IndexAsset(x)
      PROVE  KillInv'
  <2>1. /\ view' = Indexed(view, x) /\ disk' \in {disk, view'}
        /\ kills' = kills /\ batch' \subseteq batch /\ content' = content
        /\ ~Deadly(x)
    BY <1>6 DEF IndexAsset, Kills, Deadly
  <2>2. \A a \in Assets \ {x} : view'.attempts[a] = view.attempts[a]
    BY <1>1, <2>1, IndexedFacts DEF TypeOK, QueueTypes, WorldTypes
  <2> QED BY <2>1, <2>2, CountKept DEF KeepsCount, Deadly
<1>7. ASSUME NEW x \in Assets, IndexUnmarked(x)
      PROVE  KillInv'
  <2>1. Pass \in PassNames
    BY <1>7, PassFacts DEF IndexUnmarked, Pass, FreshInv, TypeOK, RunTypes
  <2>2. /\ disk' = MoreRows(disk, Pass, {x} \cap Present) /\ view' = disk'
        /\ kills' = kills /\ batch' = batch /\ content' = content
    BY <1>7 DEF IndexUnmarked, Commit, queueVars
  <2>3. disk'.attempts = disk.attempts
    BY <1>1, <2>1, <2>2, MoreRowsFacts
  <2> QED BY <2>2, <2>3, CountKept DEF KeepsCount, Deadly
<1>8. CASE DropRows \/ BeginFullIndex \/ RecordSkippedAssetPaths \/ Finish
  <2>1. kills' = kills /\ batch' = batch /\ content' = content
    BY <1>8 DEF DropRows, BeginFullIndex, RecordSkippedAssetPaths, Finish, runVars, queueVars
  <2> QED BY <1>8, <2>1, CommitFacts, CountKept DEF KeepsCount, Deadly
<1>9. CASE DropAssets
  <2>1. kills' = Zero /\ disk' = EmptyDb /\ view' = EmptyDb
    BY <1>9 DEF DropAssets, Commit
  <2>2. batch' = {}
    BY <1>9 DEF DropAssets, TransactionInv, runVars, queueVars
  <2> QED BY <2>1, <2>2, EmptyDbFacts, BoundFacts DEF KillInv, Zero
<1>10. CASE ListAssets
  <2>1. /\ disk' = disk /\ view' \in {view, Without(view, view.known \ Present)}
        /\ kills' = kills /\ batch' = batch /\ content' = content
    BY <1>10 DEF ListAssets, queueVars
  <2>2. view.known \ Present \in SUBSET Assets
    BY <1>1, DbFields
  <2>3. \A a \in Assets : Deadly(a) => view'.attempts[a] = view.attempts[a]
    BY <1>1, <2>1, <2>2, WithoutFacts DEF Deadly, Present
  <2> QED BY <2>1, <2>3, CountKept DEF KeepsCount, Deadly
<1>11. CASE LeaveScan
  <2>1. /\ disk' = view /\ view' = view
        /\ kills' = kills /\ batch' = batch /\ content' = content
    BY <1>11 DEF LeaveScan, queueVars
  <2> QED BY <2>1, CountKept DEF KeepsCount, Deadly
<1>12. CASE MarkBatch
  <2>1. PICK b \in Batches : BumpDeepIndexAttempts(b) /\ batch' = b
    BY <1>12 DEF MarkBatch
  <2>2. b \in SUBSET Assets /\ \A a \in b : disk.attempts[a] < MaxAttempts
    BY <1>1 DEF Batches, QueueInv
  <2>3. disk' = Bumped(disk, b) /\ view' = disk' /\ kills' = kills /\ content' = content
    BY <1>12, <2>1 DEF MarkBatch, BumpDeepIndexAttempts, Commit
  <2>4. \A a \in Assets : disk'.attempts[a] =
                          IF a \in b THEN disk.attempts[a] + 1 ELSE disk.attempts[a]
    BY <1>1, <2>2, <2>3, BumpedFacts
  <2> SUFFICES ASSUME NEW a \in Assets
               PROVE  /\ kills'[a] <= MaxAttempts
                      /\ Deadly(a)' =>
                           /\ view'.attempts[a] = disk'.attempts[a]
                           /\ kills'[a] <= disk'.attempts[a]
                           /\ a \in batch' => kills'[a] < disk'.attempts[a]
    BY DEF KillInv
  <2>5. disk.attempts[a] \in Int /\ kills[a] \in Int
    <3>1. disk.attempts[a] \in 0 .. MaxAttempts
      BY <1>1, DbFields
    <3>2. kills[a] \in Nat
      BY <1>1
    <3> QED BY <3>1, <3>2
  <2>6. Deadly(a)' <=> Deadly(a)
    BY <2>3 DEF Deadly
  <2>7. kills[a] <= MaxAttempts /\ (Deadly(a) => kills[a] <= disk.attempts[a])
    BY DEF KillInv
  <2> QED BY <2>1, <2>3, <2>4, <2>5, <2>6, <2>7
<1>13. CASE RunSentinelInTransaction
  <2>1. Pass \in PassNames
    BY <1>13, SentinelIsNew
  <2>2. /\ disk' = SentinelDone(disk, Pass) /\ view' = disk'
        /\ kills' = kills /\ batch' = batch /\ content' = content
    BY <1>13 DEF RunSentinelInTransaction, Commit, queueVars
  <2>3. disk'.attempts = disk.attempts
    BY <1>1, <2>1, <2>2, SentinelFacts
  <2> QED BY <2>2, <2>3, CountKept DEF KeepsCount, Deadly
<1> QED BY <1>2, <1>3, <1>4, <1>5, <1>6, <1>7, <1>8, <1>9, <1>10, <1>11, <1>12, <1>13,
           NextCases DEF Falling

-----------------------------------------------------------------------------
(* The theorems.                                                           *)

LEMMA Initial == Init => IInv
<1> SUFFICES ASSUME Init PROVE IInv
  OBVIOUS
<1>1. disk = EmptyDb /\ view = EmptyDb /\ EmptyDb \in Db
  BY EmptyDbFacts DEF Init
<1>2. TypeOK
  <2>1. QueueTypes
    BY BoundFacts DEF Init, QueueTypes, Zero
  <2>2. RunTypes
    <3>1. 0 \in 0 .. Len(Passes) + 1
      BY PassFacts
    <3> QED BY <3>1 DEF Init, RunTypes
  <2>3. WorldTypes
    BY BoundFacts DEF Init, WorldTypes, Zero
  <2> QED BY <1>1, <2>1, <2>2, <2>3 DEF TypeOK, DbTypes
<1>3. TransactionInv /\ QueueInv /\ FreshInv
  BY <1>1 DEF Init, TransactionInv, QueueInv, FreshInv
<1>4. KillInv
  BY <1>1, EmptyDbFacts, BoundFacts DEF Init, KillInv, Zero
<1>5. RowsOnce(disk) /\ RowsOnce(view)
  BY <1>1, EmptyDbFacts DEF RowsOnce, NoPostRows
<1> QED BY <1>2, <1>3, <1>4, <1>5 DEF IInv

LEMMA Inductive == IInv /\ [Next]_vars => IInv'
<1> SUFFICES ASSUME IInv, [Next]_vars PROVE IInv'
  OBVIOUS
<1> USE DEF IInv
<1>1. CASE Next
  BY <1>1, TypeStep, TransactionStep, QueueStep, KillStep, RowsStep, FreshStep
<1>2. CASE UNCHANGED vars
  <2>1. UNCHANGED <<content, disk, view, pc, resume, todo, queue, captured, batch,
                    poisoned, stopped, next, kills, mishaps>>
    BY <1>2 DEF vars, dbVars, runVars, queueVars
  <2>2. TypeOK' /\ TransactionInv' /\ QueueInv'
    BY <2>1 DEF TypeOK, DbTypes, QueueTypes, RunTypes, WorldTypes, TransactionInv, QueueInv
  <2>3. KillInv' /\ RowsOnce(disk)' /\ RowsOnce(view)' /\ FreshInv'
    BY <2>1 DEF KillInv, Deadly, RowsOnce, FreshInv, Pass
  <2> QED BY <2>2, <2>3
<1> QED BY <1>1, <1>2

\* Attempts, queue, transactions and checkpoints agree in every reachable state.
THEOREM Invariance == Spec => []IInv
  BY Initial, Inductive, PTL DEF Spec

\* Every variable stays in its domain; in particular no asset is attempted more
\* than twice (MonolithMaxDeepIndexAttempts).
THEOREM TypeCorrect == Spec => []TypeOK
<1>1. IInv => TypeOK
  BY DEF IInv
<1> QED BY <1>1, Invariance, PTL

\* An asset crashes the editor that deep-indexes it at most twice before a
\* rebuild, whatever else interrupts the runs, a post-pass that dies of the same
\* asset included: BumpDeepIndexAttempts is committed first.
THEOREM GivenUpAfterTwoTheorem == Spec => []GivenUpAfterTwo
<1>1. IInv => GivenUpAfterTwo
  BY DEF IInv, KillInv, GivenUpAfterTwo
<1> QED BY <1>1, Invariance, PTL

\* A sentinel has one row per asset, for RunSentinelInTransaction commits the
\* rows and the checkpoint together.
THEOREM SentinelTheorem == Spec => []SentinelRowsOnce
<1>1. IInv => SentinelRowsOnce
  BY DEF IInv, RowsOnce, SentinelRowsOnce
<1> QED BY <1>1, Invariance, PTL

-----------------------------------------------------------------------------
(* Healthy assets.  A fresh run may attempt one beside a killer, and leave   *)
(* it with one attempt.  The resume takes it alone, so that its attempt is   *)
(* cleared before anything else can happen.                                  *)

Healthy == Assets \ (Killers \cup Flawed)

Untried(a) == disk.attempts[a] = 0 /\ view.attempts[a] = 0

\* Never given up, and attempted once at most but for a resume that has it in
\* its batch; a run that is not a resume finds it untried.
Spared(a) ==
    /\ a \notin disk.skipped \cup view.skipped \cup poisoned
    /\ (resume /\ a \in batch) \/ (disk.attempts[a] <= 1 /\ view.attempts[a] <= 1)
    /\ (~resume /\ (a \in queue \/ pc \in {"begin", "list", "scan", "record"}))
         => Untried(a)

HealthInv ==
    mishaps = 0 =>
        /\ todo \cup queue \cup batch \subseteq Present
        /\ pc \in {"post", "unmarked"} => queue = {}
        /\ resume => \A x, y \in batch : x = y
        /\ \A a \in Healthy : Spared(a)

\* Only RecordSkippedAssetPaths adds to the list of skipped assets.
LEMMA SkippedFacts ==
    ASSUME NEW db \in Db
    PROVE  /\ \A gone : Without(db, gone).skipped = db.skipped
           /\ \A a : Cleared(db, a).skipped = db.skipped
           /\ \A b : Bumped(db, b).skipped = db.skipped
           /\ \A a : Indexed(db, a).skipped = db.skipped
           /\ \A p, found : MoreRows(db, p, found).skipped = db.skipped
           /\ \A p : SentinelDone(db, p).skipped = db.skipped
<1>1. \A gone : Without(db, gone).skipped = db.skipped
  BY DEF Without, Db
<1>2. \A a : Cleared(db, a).skipped = db.skipped
  BY DEF Cleared, WithoutChildren, Db
<1>3. \A b : Bumped(db, b).skipped = db.skipped
  BY DEF Bumped, Db
<1>4. \A a : Indexed(db, a).skipped = db.skipped
  BY DEF Indexed, Db
<1>5. \A p, found : MoreRows(db, p, found).skipped = db.skipped
  BY DEF MoreRows, Db
<1>6. \A p : SentinelDone(db, p).skipped = db.skipped
  BY DEF SentinelDone, MoreRows, Db
<1> QED BY <1>1, <1>2, <1>3, <1>4, <1>5, <1>6

\* A resume takes its assets one by one.
LEMMA ResumeBatch ==
    ASSUME TypeOK, resume, NEW b \in Batches
    PROVE  \A x, y \in b : x = y
<1>1. queue \in SUBSET Assets /\ b \in SUBSET queue
  BY DEF TypeOK, QueueTypes, Batches
<1>2. IsFiniteSet(queue)
  BY <1>1, AssetsAssumption, FS_Subset
<1>3. IsFiniteSet(b)
  BY <1>1, <1>2, FS_Subset
<1>4. Cardinality(queue) \in Nat /\ Cardinality(b) \in Nat
  BY <1>2, <1>3, FS_CardinalityType
<1>5. Cardinality(b) = IF Cardinality(queue) < 1 THEN Cardinality(queue) ELSE 1
  BY DEF Batches, BatchSize
<1>6. CASE Cardinality(b) = 0
  BY <1>3, <1>6, FS_EmptySet
<1>7. CASE Cardinality(b) = 1
  <2>1. PICK x : b = {x}
    BY <1>3, <1>7, FS_Singleton
  <2> QED BY <2>1
<1> QED BY <1>4, <1>5, <1>6, <1>7

\* Without a mishap the run only makes progress, and no package changes.
LEMMA Undisturbed ==
    ASSUME TypeOK, Next, mishaps' = 0
    PROVE  mishaps = 0 /\ Progress /\ ~Disturbance /\ content' = content
<1>1. mishaps \in Nat
  BY BoundFacts DEF TypeOK, WorldTypes
<1>2. Disturbance => mishaps' = mishaps + 1
  BY DEF Disturbance, StartFullIndex, Die, UserStops, TransactionFails, BeginFails,
     EditAsset, Mishap
<1>3. Progress /\ ~Disturbance
  BY <1>1, <1>2 DEF Next
<1>4. mishaps' = mishaps /\ content' = content
  <2>1. CASE Launch \/ Start \/ DropRows \/ DropAssets \/ BeginFullIndex \/ ListAssets
    BY <2>1 DEF Launch, Start, DropRows, DropAssets, BeginFullIndex, ListAssets
  <2>2. CASE LeaveScan \/ RecordSkippedAssetPaths \/ MarkBatch \/ LeaveDeepPass \/ Finish
    BY <2>2 DEF LeaveScan, RecordSkippedAssetPaths, MarkBatch, LeaveDeepPass, Finish
  <2>3. CASE \/ SkipSentinel \/ RunSentinelInTransaction
             \/ BeginUnmarkedPass \/ LeaveUnmarkedPass \/ KilledInPass
    BY <2>3 DEF SkipSentinel, RunSentinelInTransaction, BeginUnmarkedPass,
       LeaveUnmarkedPass, KilledInPass, Crash
  <2>4. ASSUME NEW a \in Assets, AssetStep(a)
        PROVE  mishaps' = mishaps /\ content' = content
    BY <2>4 DEF AssetStep, ListOnly, SkipIndexed, SkipPoison, QueueAsset, Visit, IndexAsset,
       KillEditor, Crash, IndexUnmarked
  <2> QED BY <1>3, <2>1, <2>2, <2>3, <2>4 DEF Progress
<1> QED BY <1>3, <1>4

Scanning == {"begin", "list", "scan", "record"}

\* What a step makes of one asset in a copy of the database: its attempts are
\* left or cleared.
Alike(e, db, a) == e.skipped = db.skipped /\ e.attempts[a] \in {db.attempts[a], 0}

LEMMA SparedKept ==
    ASSUME TypeOK, NEW a \in Assets, Spared(a),
           Alike(disk', disk, a) \/ Alike(disk', view, a),
           Alike(view', disk, a) \/ Alike(view', view, a),
           a \notin poisoned',
           (resume /\ a \in batch) => (resume' /\ a \in batch'),
           (~resume' /\ (a \in queue' \/ pc' \in Scanning))
             => (~resume /\ (a \in queue \/ pc \in Scanning))
    PROVE  Spared(a)'
<1>1. a \notin disk'.skipped \cup view'.skipped \cup poisoned'
  BY DEF Spared, Alike
<1>2. /\ disk'.attempts[a] \in {disk.attempts[a], view.attempts[a], 0}
      /\ view'.attempts[a] \in {disk.attempts[a], view.attempts[a], 0}
  BY DEF Alike
<1>3. (resume' /\ a \in batch') \/ (disk'.attempts[a] <= 1 /\ view'.attempts[a] <= 1)
  BY <1>2 DEF Spared
<1>4. Untried(a) => Untried(a)'
  BY <1>2 DEF Untried
<1> QED BY <1>1, <1>3, <1>4 DEF Spared, Scanning

\* The steps that write nothing.
LEMMA QuietSpares ==
    ASSUME IInv, Quiet, Progress, ~Disturbance, NEW a \in Healthy, Spared(a)
    PROVE  Spared(a)'
<1>1. disk' = disk /\ view' = view
  BY QuietFacts
<1>2. \A db : Alike(db, db, a)
  BY DEF Alike
<1>3. a \in Assets /\ TypeOK /\ a \notin poisoned
  BY DEF Healthy, IInv, Spared
<1>4. CASE Launch
  BY <1>1, <1>2, <1>3, <1>4, SparedKept DEF Launch, runVars, queueVars, Scanning
<1>5. CASE Start
  <2>1. ~resume /\ UNCHANGED <<queue, batch, poisoned>>
    BY <1>5 DEF Start, IInv, FreshInv, queueVars
  <2>2. ~resume' => pc' = "drop"
    BY <1>5 DEF Start
  <2> QED BY <1>1, <1>2, <1>3, <2>1, <2>2, SparedKept DEF Scanning
<1>6. CASE LeaveDeepPass
  BY <1>1, <1>2, <1>3, <1>6, SparedKept DEF LeaveDeepPass, Scanning
<1>7. CASE SkipSentinel \/ BeginUnmarkedPass \/ LeaveUnmarkedPass
  BY <1>1, <1>2, <1>3, <1>7, SparedKept
     DEF SkipSentinel, BeginUnmarkedPass, LeaveUnmarkedPass, queueVars, AtPass, Scanning
<1> QED BY <1>4, <1>5, <1>6, <1>7 DEF Quiet, Disturbance

\* The reset, the marks of the run and the post-passes.
LEMMA WriteSpares ==
    ASSUME IInv, HealthInv, mishaps = 0, NEW a \in Healthy, Spared(a),
           \/ DropRows \/ DropAssets \/ BeginFullIndex \/ ListAssets \/ LeaveScan
           \/ RecordSkippedAssetPaths \/ RunSentinelInTransaction \/ Finish
           \/ \E x \in Assets : IndexUnmarked(x)
    PROVE  Spared(a)'
<1>1. a \in Assets /\ TypeOK /\ a \notin poisoned /\ disk \in Db /\ view \in Db
  BY DEF Healthy, IInv, Spared, TypeOK, DbTypes
<1>2. \A e, db : e.skipped = db.skipped /\ e.attempts = db.attempts => Alike(e, db, a)
  BY DEF Alike
<1>3. pc # "work" => batch = {}
  BY DEF IInv, TransactionInv
<1>4. CASE DropRows
  <2>1. Alike(disk', disk, a) /\ view' = disk'
    BY <1>1, <1>2, <1>4, CommitFacts DEF DropRows, Commit, Db
  <2> QED BY <1>1, <1>4, <2>1, SparedKept DEF DropRows, runVars, queueVars, Scanning
<1>5. CASE DropAssets
  <2>1. disk' = EmptyDb /\ view' = EmptyDb /\ UNCHANGED runVars
    BY <1>5, CommitFacts, <1>1 DEF DropAssets
  <2>2. EmptyDb.attempts[a] = 0 /\ EmptyDb.skipped = {}
    BY <1>1 DEF EmptyDb, Zero
  <2> QED BY <1>1, <2>1, <2>2 DEF Spared, Untried, runVars
<1>6. CASE BeginFullIndex
  <2>1. Alike(disk', disk, a) /\ view' = disk'
    BY <1>1, <1>2, <1>6, CommitFacts DEF BeginFullIndex, Commit, Db
  <2> QED BY <1>1, <1>6, <2>1, SparedKept DEF BeginFullIndex, runVars, queueVars, Scanning
<1>7. CASE ListAssets
  <2>1. view.known \ Present \in SUBSET Assets
    BY <1>1, DbFields
  <2>2. Alike(Without(view, view.known \ Present), view, a)
    BY <1>1, <2>1, WithoutFacts, SkippedFacts DEF Alike
  <2>3. view' \in {view, Without(view, view.known \ Present)}
    BY <1>7 DEF ListAssets
  <2>4. Alike(view', view, a)
    BY <1>2, <2>2, <2>3
  <2> QED BY <1>1, <1>2, <1>7, <2>4, SparedKept DEF ListAssets, queueVars, Scanning
<1>8. CASE LeaveScan
  BY <1>1, <1>2, <1>8, SparedKept DEF LeaveScan, queueVars, Scanning
<1>9. CASE RecordSkippedAssetPaths
  <2>1. /\ disk'.skipped = disk.skipped \cup poisoned /\ view' = disk'
        /\ disk'.attempts = disk.attempts /\ poisoned' = {}
        /\ pc = "record" /\ pc' = "mark" /\ UNCHANGED <<resume, queueVars>>
    BY <1>1, <1>9, CommitFacts DEF RecordSkippedAssetPaths, Commit, Db
  <2>2. a \notin disk'.skipped \cup view'.skipped \cup poisoned'
    BY <2>1 DEF Spared
  <2> QED BY <1>3, <2>1, <2>2 DEF Spared, Untried, queueVars
<1>10. CASE RunSentinelInTransaction
  <2>1. Pass \in PassNames
    BY <1>10, SentinelIsNew DEF IInv
  <2>2. disk' = SentinelDone(disk, Pass) /\ view' = disk'
    BY <1>10 DEF RunSentinelInTransaction, Commit
  <2>3. Alike(disk', disk, a)
    BY <1>1, <1>2, <2>1, <2>2, SentinelFacts, SkippedFacts
  <2> QED BY <1>1, <1>10, <2>2, <2>3, SparedKept
          DEF RunSentinelInTransaction, queueVars, Scanning
<1>11. CASE Finish
  <2>1. Alike(disk', disk, a) /\ view' = disk'
    BY <1>1, <1>2, <1>11, CommitFacts DEF Finish, Commit, Db
  <2>2. queue' = {} /\ batch = {} /\ pc' = "idle" /\ poisoned' = poisoned
    BY <1>3, <1>11 DEF Finish, queueVars, HealthInv
  <2> QED BY <1>1, <2>1, <2>2, SparedKept DEF Scanning
<1>12. ASSUME NEW x \in Assets, IndexUnmarked(x) PROVE Spared(a)'
  <2>1. Pass \in PassNames
    BY <1>12, PassFacts DEF IndexUnmarked, Pass, IInv, FreshInv, TypeOK, RunTypes
  <2>2. disk' = MoreRows(disk, Pass, {x} \cap Present) /\ view' = disk'
    BY <1>12 DEF IndexUnmarked, Commit
  <2>3. Alike(disk', disk, a)
    BY <1>1, <1>2, <2>1, <2>2, MoreRowsFacts, SkippedFacts
  <2> QED BY <1>1, <1>12, <2>2, <2>3, SparedKept DEF IndexUnmarked, queueVars, Scanning
<1> QED BY <1>4, <1>5, <1>6, <1>7, <1>8, <1>9, <1>10, <1>11, <1>12

\* A healthy asset has too few attempts to be taken for poisonous.
LEMMA VisitSpares ==
    ASSUME IInv, NEW a \in Healthy, Spared(a), NEW x \in Assets, Visits(x)
    PROVE  Spared(a)'
<1>1. a \in Assets /\ TypeOK /\ view \in Db /\ a \notin poisoned
  BY DEF Healthy, IInv, Spared, TypeOK, DbTypes
<1>2. /\ pc = "scan" /\ pc' = "scan" /\ disk' \in {disk, view'}
      /\ view'.attempts = view.attempts
  BY <1>1, VisitFacts
<1>3. view'.skipped = view.skipped
  <2>1. CASE ListOnly(x) \/ SkipIndexed(x) \/ SkipPoison(x)
    BY <1>1, <2>1 DEF ListOnly, SkipIndexed, SkipPoison, Db
  <2>2. CASE QueueAsset(x)
    BY <1>1, <2>2, SkippedFacts DEF QueueAsset
  <2> QED BY <2>1, <2>2 DEF Visits
<1>4. view.attempts[a] <= 1 /\ view.attempts[a] \in 0 .. MaxAttempts
  BY <1>1, <1>2, DbFields DEF Spared, IInv, TransactionInv
<1>5. a \notin poisoned'
  <2>1. CASE SkipPoison(x)
    <3>1. view.attempts[x] >= MaxAttempts /\ poisoned' = poisoned \cup {x}
      BY <2>1 DEF SkipPoison, IsPoison
    <3> QED BY <1>1, <1>4, <3>1 DEF MaxAttempts
  <2>2. CASE ListOnly(x) \/ SkipIndexed(x) \/ QueueAsset(x)
    BY <1>1, <2>2 DEF ListOnly, SkipIndexed, QueueAsset
  <2> QED BY <2>1, <2>2 DEF Visits
<1>6. UNCHANGED <<resume, batch>>
  BY DEF Visits, ListOnly, SkipIndexed, SkipPoison, QueueAsset, Visit
<1>7. /\ Alike(view', view, a) /\ Alike(disk, disk, a)
      /\ Alike(disk', disk, a) \/ Alike(disk', view, a)
  BY <1>2, <1>3 DEF Alike
<1> QED BY <1>1, <1>2, <1>5, <1>6, <1>7, SparedKept DEF Scanning

\* The attempt of a fresh run is the first, and that of a resume is alone.
LEMMA MarkSpares ==
    ASSUME IInv, NEW a \in Healthy, Spared(a), MarkBatch
    PROVE  Spared(a)'
<1>1. a \in Assets /\ TypeOK /\ disk \in Db /\ a \notin poisoned
  BY DEF Healthy, IInv, Spared, TypeOK, DbTypes
<1>2. view = disk /\ batch = {} /\ pc = "mark" /\ pc' = "work"
      /\ resume' = resume /\ poisoned' = poisoned
  BY DEF MarkBatch, IInv, TransactionInv
<1>3. PICK b \in Batches : BumpDeepIndexAttempts(b) /\ batch' = b /\ queue' = queue \ b
  BY DEF MarkBatch
<1>4. disk' = Bumped(disk, b) /\ view' = disk'
  BY <1>3 DEF BumpDeepIndexAttempts, Commit
<1>5. b \in SUBSET Assets /\ b \subseteq queue /\ \A y \in b : disk.attempts[y] < MaxAttempts
  BY <1>1 DEF Batches, IInv, QueueInv, TypeOK, QueueTypes
<1>6. /\ disk'.skipped = disk.skipped
      /\ disk'.attempts[a] = IF a \in b THEN disk.attempts[a] + 1 ELSE disk.attempts[a]
  BY <1>1, <1>4, <1>5, BumpedFacts, SkippedFacts
<1>7. disk.attempts[a] \in Nat
  <2>1. disk.attempts[a] \in 0 .. MaxAttempts
    BY <1>1, DbFields
  <2> QED BY <2>1
<1>8. a \notin disk'.skipped \cup view'.skipped \cup poisoned'
  BY <1>2, <1>4, <1>6 DEF Spared
<1>9. CASE a \in b
  <2>1. ~resume => disk.attempts[a] = 0
    BY <1>5, <1>9 DEF Spared, Untried
  <2> QED BY <1>2, <1>3, <1>4, <1>6, <1>8, <1>9, <2>1 DEF Spared
<1>10. CASE a \notin b
  BY <1>2, <1>3, <1>4, <1>6, <1>8, <1>10 DEF Spared, Untried
<1> QED BY <1>9, <1>10

\* What is indexed is committed with its attempts cleared: at once by a resume.
LEMMA IndexSpares ==
    ASSUME IInv, HealthInv, mishaps = 0,
           NEW a \in Healthy, Spared(a), NEW x \in Assets, IndexAsset(x)
    PROVE  Spared(a)'
<1>1. /\ a \in Assets /\ TypeOK /\ view \in Db /\ a \notin poisoned
      /\ a \notin Flawed
  BY DEF Healthy, IInv, Spared, TypeOK, DbTypes
<1>2. /\ pc = "work" /\ x \in batch /\ batch' = batch \ {x} /\ view' = Indexed(view, x)
      /\ UNCHANGED <<resume, queue, poisoned>> /\ pc' \in {"work", "mark"}
      /\ disk' \in {disk, view'} /\ (batch' = {} => disk' = view')
  BY DEF IndexAsset
<1>3. /\ view'.skipped = view.skipped
      /\ x # a => view'.attempts[a] = view.attempts[a]
      /\ view'.attempts[a] \in {view.attempts[a], 0}
  <2>1. captured \in [Assets -> 0 .. MaxVersion] /\ content \in [Assets -> 0 .. MaxVersion]
    BY <1>1 DEF TypeOK, QueueTypes, WorldTypes
  <2>2. /\ \A y \in Assets \ {x} : Indexed(view, x).attempts[y] = view.attempts[y]
        /\ Indexed(view, x).attempts[x] \in {0, view.attempts[x]}
    BY <1>1, <2>1, IndexedFacts
  <2>3. Indexed(view, x).skipped = view.skipped
    BY <1>1, SkippedFacts
  <2> QED BY <1>1, <1>2, <2>2, <2>3
<1>4. CASE x # a
  <2>1. /\ Alike(view', view, a) /\ Alike(disk, disk, a)
        /\ Alike(disk', disk, a) \/ Alike(disk', view, a)
    BY <1>2, <1>3 DEF Alike
  <2> QED BY <1>1, <1>2, <1>4, <2>1, SparedKept DEF Scanning
<1>5. CASE x = a
  <2> content[a] # 0
    BY <1>2, <1>5 DEF HealthInv, Present
  <2>1. view'.attempts[a] = 0
    BY <1>1, <1>2, <1>5, DbFields DEF Indexed, Db
  <2>2. resume => disk' = view'
    BY <1>2, <1>5 DEF HealthInv
  <2>3. a \notin disk'.skipped \cup view'.skipped \cup poisoned'
    BY <1>2, <1>3 DEF Spared
  <2>4. disk'.attempts[a] <= 1
    BY <1>2, <2>1, <2>2 DEF Spared
  <2>5. Untried(a) => Untried(a)'
    BY <1>2, <2>1 DEF Untried
  <2> QED BY <1>2, <2>1, <2>3, <2>4, <2>5 DEF Spared
<1> QED BY <1>4, <1>5

\* A resume that dies had the killer alone in its batch.
LEMMA KillSpares ==
    ASSUME IInv, HealthInv, mishaps = 0,
           NEW a \in Healthy, Spared(a), NEW x \in Assets, KillEditor(x)
    PROVE  Spared(a)'
<1>1. x \in batch /\ x # a
  BY DEF KillEditor, Kills, Healthy
<1>2. ~(resume /\ a \in batch)
  BY <1>1 DEF HealthInv
<1>3. /\ disk' = disk /\ view' = disk /\ poisoned' = {} /\ queue' = {}
      /\ pc' = "down"
  BY DEF KillEditor, Crash
<1> QED BY <1>2, <1>3 DEF Spared

\* A death in a post-pass touches no attempt.
LEMMA PassDeathSpares ==
    ASSUME IInv, NEW a \in Healthy, Spared(a), KilledInPass
    PROVE  Spared(a)'
<1>1. /\ disk' = disk /\ view' = disk /\ poisoned' = {} /\ queue' = {} /\ pc' = "down"
      /\ pc # "work" /\ batch = {}
  BY DEF KilledInPass, SentinelDue, AtPass, Crash, IInv, TransactionInv
<1> QED BY <1>1 DEF Spared

\* Without a mishap what a run has still to do is there.
LEMMA PresentKept ==
    ASSUME TypeOK, Progress, content' = content, todo \cup queue \cup batch \subseteq Present
    PROVE  (todo \cup queue \cup batch \subseteq Present)'
<1>1. Present' = Present
  BY DEF Present
<1>2. ASSUME NEW a \in Assets, AssetStep(a)
      PROVE  (todo \cup queue \cup batch \subseteq Present)'
  BY <1>1, <1>2 DEF AssetStep, ListOnly, SkipIndexed, SkipPoison, QueueAsset, Visit,
     IndexAsset, KillEditor, Crash, IndexUnmarked, queueVars
<1>3. CASE ListAssets \/ LeaveScan \/ MarkBatch
  BY <1>1, <1>3 DEF ListAssets, LeaveScan, MarkBatch, Batches, queueVars
<1>4. CASE BeginUnmarkedPass \/ KilledInPass
  BY <1>1, <1>4 DEF BeginUnmarkedPass, Found, KilledInPass, Crash, queueVars
<1>5. CASE \/ Launch \/ Start \/ DropRows \/ DropAssets \/ BeginFullIndex
           \/ RecordSkippedAssetPaths \/ LeaveDeepPass \/ SkipSentinel
           \/ RunSentinelInTransaction \/ LeaveUnmarkedPass \/ Finish
  BY <1>1, <1>5 DEF Launch, Start, DropRows, DropAssets, BeginFullIndex,
     RecordSkippedAssetPaths, LeaveDeepPass, SkipSentinel, RunSentinelInTransaction,
     LeaveUnmarkedPass, Finish, runVars, queueVars
<1> QED BY <1>2, <1>3, <1>4, <1>5 DEF Progress

\* One step without a mishap.
LEMMA HealthStep == ASSUME IInv, HealthInv, Next PROVE HealthInv'
<1>1. SUFFICES ASSUME mishaps' = 0 PROVE HealthInv'
  BY DEF HealthInv
<1>2. mishaps = 0 /\ Progress /\ content' = content /\ TypeOK
  BY <1>1, Undisturbed DEF IInv
<1>3. ~Disturbance
  BY <1>1, Undisturbed DEF IInv
<1>4. (todo \cup queue \cup batch \subseteq Present)'
  BY <1>2, PresentKept DEF HealthInv
<1>5. pc' \in {"post", "unmarked"} => queue' = {}
  <2>1. CASE Quiet
    BY <1>2, <1>3, <2>1 DEF Quiet, Disturbance, Launch, Start, LeaveDeepPass, SkipSentinel,
       BeginUnmarkedPass, LeaveUnmarkedPass, AtPass, runVars, queueVars, HealthInv
  <2>2. CASE \/ DropRows \/ DropAssets \/ BeginFullIndex \/ ListAssets \/ LeaveScan
             \/ RecordSkippedAssetPaths \/ MarkBatch \/ Finish
    BY <2>2 DEF DropRows, DropAssets, BeginFullIndex, ListAssets, LeaveScan,
       RecordSkippedAssetPaths, MarkBatch, Finish
  <2>3. CASE RunSentinelInTransaction \/ \E a \in Assets : IndexUnmarked(a)
    BY <1>2, <2>3 DEF RunSentinelInTransaction, SentinelDue, AtPass, IndexUnmarked,
       queueVars, HealthInv
  <2>4. ASSUME NEW a \in Assets, Visits(a) PROVE pc' = "scan"
    BY <1>2, <2>4, VisitFacts
  <2>5. ASSUME NEW a \in Assets, IndexAsset(a) PROVE pc' \in {"work", "mark"}
    BY <2>5 DEF IndexAsset
  <2>6. CASE KilledInPass \/ \E a \in Assets : KillEditor(a)
    BY <2>6 DEF KillEditor, KilledInPass, Crash
  <2> QED BY <1>3, <2>1, <2>2, <2>3, <2>4, <2>5, <2>6, NextCases DEF Falling, Disturbance
<1>6. resume' => \A y, z \in batch' : y = z
  <2>1. CASE MarkBatch
    BY <1>2, <2>1, ResumeBatch DEF MarkBatch
  <2>2. CASE \E a \in Assets : IndexAsset(a)
    BY <1>2, <2>2 DEF IndexAsset, HealthInv
  <2>3. CASE KilledInPass \/ \E a \in Assets : KillEditor(a)
    BY <2>3 DEF KillEditor, KilledInPass, Crash
  <2>4. CASE Start
    BY <2>4 DEF Start, queueVars, IInv, TransactionInv
  <2>5. CASE Quiet /\ ~Start
    BY <1>2, <1>3, <2>5 DEF Quiet, Disturbance, Launch, LeaveDeepPass, SkipSentinel,
       BeginUnmarkedPass, LeaveUnmarkedPass, runVars, queueVars, HealthInv
  <2>6. CASE \/ DropRows \/ DropAssets \/ BeginFullIndex \/ ListAssets \/ LeaveScan
             \/ RecordSkippedAssetPaths \/ RunSentinelInTransaction \/ Finish
             \/ \E a \in Assets : IndexUnmarked(a)
    BY <1>2, <2>6 DEF DropRows, DropAssets, BeginFullIndex, ListAssets, LeaveScan,
       RecordSkippedAssetPaths, RunSentinelInTransaction, Finish, IndexUnmarked,
       runVars, queueVars, HealthInv
  <2>7. ASSUME NEW a \in Assets, Visits(a) PROVE UNCHANGED <<resume, batch>>
    BY <2>7 DEF Visits, ListOnly, SkipIndexed, SkipPoison, QueueAsset, Visit
  <2> QED BY <1>2, <1>3, <2>1, <2>2, <2>3, <2>4, <2>5, <2>6, <2>7, NextCases
          DEF Falling, Disturbance, HealthInv
<1>7. ASSUME NEW a \in Healthy PROVE Spared(a)'
  <2>1. Spared(a)
    BY <1>2 DEF HealthInv
  <2> QED BY <1>2, <1>3, <2>1, QuietSpares, WriteSpares, VisitSpares, MarkSpares,
             IndexSpares, KillSpares, PassDeathSpares, NextCases DEF Falling, Disturbance
<1> QED BY <1>4, <1>5, <1>6, <1>7 DEF HealthInv

\* As long as only its own crashes interrupt the index, an asset that can be
\* indexed is never given up, whatever dies beside it: resumes take their batches
\* one asset at a time (GetResolvedDeepIndexBatchSize, bIsResume).
THEOREM HealthyTheorem == Spec => []HealthyIsNeverSkipped
<1>1. Init => HealthInv
  BY DEF Init, HealthInv, Present, Spared, Untried, Healthy, EmptyDb, Zero
<1>2. IInv /\ HealthInv /\ [Next]_vars => HealthInv'
  <2>1. SUFFICES ASSUME IInv, HealthInv, [Next]_vars PROVE HealthInv'
    OBVIOUS
  <2>2. CASE UNCHANGED vars
    BY <2>1, <2>2 DEF HealthInv, Present, Spared, Untried, vars, dbVars, runVars, queueVars
  <2> QED BY <2>1, <2>2, HealthStep
<1>3. IInv /\ HealthInv => HealthyIsNeverSkipped
  BY DEF IInv, TypeOK, DbTypes, RunTypes, Db, HealthInv, Spared, Healthy,
     HealthyIsNeverSkipped
<1> QED BY <1>1, <1>2, <1>3, Invariance, PTL DEF Spec
=============================================================================
