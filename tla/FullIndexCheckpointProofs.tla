---------------------- MODULE FullIndexCheckpointProofs ----------------------
(***************************************************************************)
(* What the checkpoint of an asset is worth, for every set of assets and   *)
(* passes: the rows it stands for are there, once, and are left alone; and *)
(* a complete index accounts for every asset.                              *)
(*                                                                         *)
(* Hypotheses: a version of a package never comes back, and the editor     *)
(* does not die inside ResetDatabase.  Without either a checkpoint may     *)
(* stand for rows that are not there.                                      *)
(***************************************************************************)
EXTENDS FullIndexResumeProofs

OnwardOnly == ~Reverts /\ "dropping" \notin Deaths

\* A resume that reads db skips a as indexed.
Vouches(db, a) ==
    db.deep[a] # 0 /\ db.deep[a] = Hash(a) /\ db.attempts[a] < MaxAttempts

\* No checkpoint and no captured hash is ahead of the package: what an edit
\* makes of it has not been vouched for.
StampInv(a) ==
    content[a] # 0 =>
        /\ disk.deep[a] <= content[a] /\ view.deep[a] <= content[a]
        /\ captured[a] <= content[a]

\* Half-way through the reset the rows are gone and the checkpoints are not.
VouchInv(a) ==
    IF pc = "dropping" THEN disk.rows[a] = <<>>
    ELSE /\ Vouches(disk, a) => disk.rows[a] = <<content[a]>>
         /\ Vouches(view, a) => view.rows[a] = <<content[a]>>

\* A transaction that is under way leaves what is vouched for alone.
AgreeInv(a) ==
    Vouches(disk, a) => view.rows[a] = disk.rows[a] /\ view.deep[a] = disk.deep[a]

\* What is going to be indexed has no rows, so that the new ones are the only
\* ones; after a rollback it might, but then the queue is dropped.
EmptyInv(a) ==
    /\ a \in batch => (a \notin queue /\ view.rows[a] = <<>>)
    /\ (a \in queue /\ ~stopped) => view.rows[a] = <<>>
    /\ pc \in {"post", "unmarked"} => a \notin queue

Honest(a) == StampInv(a) /\ VouchInv(a) /\ AgreeInv(a) /\ EmptyInv(a)

CheckpointInv == \A a \in Assets : Honest(a)

-----------------------------------------------------------------------------
(* What the operators on the database do to one asset.                     *)

Keeps(e, db, a) ==
    e.rows[a] = db.rows[a] /\ e.deep[a] = db.deep[a] /\ e.attempts[a] = db.attempts[a]

Emptied(e, a) == e.rows[a] = <<>> /\ e.deep[a] = 0

LEMMA EmptyDbAsset == \A a \in Assets : Emptied(EmptyDb, a)
BY DEF EmptyDb, Emptied, NoRows, Zero

LEMMA WithoutAsset ==
    ASSUME NEW db \in Db, NEW gone \in SUBSET Assets, NEW a \in Assets
    PROVE  IF a \in gone THEN Emptied(Without(db, gone), a)
                         ELSE Keeps(Without(db, gone), db, a)
<1>1. /\ Without(db, gone).rows[a] = IF a \in gone THEN <<>> ELSE db.rows[a]
      /\ Without(db, gone).deep[a] = IF a \in gone THEN 0 ELSE db.deep[a]
  BY DEF Without, Db
<1> QED
  BY <1>1, WithoutFacts DEF Emptied, Keeps

LEMMA ClearedAsset ==
    ASSUME NEW db \in Db, NEW x \in Assets, NEW a \in Assets
    PROVE  /\ Cleared(db, x).deep[a] = db.deep[a]
           /\ Cleared(db, x).attempts[a] = db.attempts[a]
           /\ Cleared(db, x).rows[a] = IF a = x THEN <<>> ELSE db.rows[a]
<1>1. WithoutChildren(db, x).rows = [db.rows EXCEPT ![x] = <<>>]
      /\ WithoutChildren(db, x).deep = db.deep
  BY DEF WithoutChildren, Db
<1>2. Cleared(db, x).rows = WithoutChildren(db, x).rows
      /\ Cleared(db, x).deep = WithoutChildren(db, x).deep
  BY DEF Cleared, WithoutChildren, Db
<1> QED
  BY <1>1, <1>2, ClearedFacts, DbFields

LEMMA BumpedAsset ==
    ASSUME NEW db \in Db, NEW b \in SUBSET Assets, NEW a \in Assets,
           \A x \in b : db.attempts[x] < MaxAttempts
    PROVE  /\ Bumped(db, b).rows[a] = db.rows[a]
           /\ Bumped(db, b).deep[a] = db.deep[a]
           /\ Bumped(db, b).attempts[a] \in {db.attempts[a], db.attempts[a] + 1}
<1>1. Bumped(db, b).rows = db.rows /\ Bumped(db, b).deep = db.deep
  BY DEF Bumped, Db
<1> QED
  BY <1>1, BumpedFacts

LEMMA IndexedAsset ==
    ASSUME NEW db \in Db, NEW x \in Assets, NEW a \in Assets
    PROVE  \/ Keeps(Indexed(db, x), db, a)
           \/ /\ a = x /\ content[x] # 0
              /\ Indexed(db, x).rows[a] = Append(db.rows[a], content[a])
              /\ Indexed(db, x).deep[a] = captured[a]
<1>1. CASE x \in Flawed \/ content[x] = 0
  BY <1>1 DEF Indexed, Keeps
<1>2. CASE ~(x \in Flawed \/ content[x] = 0)
  <2>1. /\ Indexed(db, x).rows = [db.rows EXCEPT ![x] = Append(db.rows[x], content[x])]
        /\ Indexed(db, x).deep = [db.deep EXCEPT ![x] = captured[x]]
        /\ Indexed(db, x).attempts = [db.attempts EXCEPT ![x] = 0]
    BY <1>2 DEF Indexed, Db
  <2> QED
    BY <1>2, <2>1, DbFields DEF Keeps
<1> QED
  BY <1>1, <1>2

\* Post-passes, marks and the list of skipped assets.
LEMMA PostAsset ==
    ASSUME NEW db \in Db, NEW p \in PassNames, NEW found, NEW a \in Assets
    PROVE  Keeps(MoreRows(db, p, found), db, a) /\ Keeps(SentinelDone(db, p), db, a)
<1>1. \A f : /\ MoreRows(db, p, f).rows = db.rows /\ MoreRows(db, p, f).deep = db.deep
             /\ MoreRows(db, p, f).attempts = db.attempts
  BY DEF MoreRows, Db
<1>2. /\ SentinelDone(db, p).rows = MoreRows(db, p, Found(db, p)).rows
      /\ SentinelDone(db, p).deep = MoreRows(db, p, Found(db, p)).deep
      /\ SentinelDone(db, p).attempts = MoreRows(db, p, Found(db, p)).attempts
  BY DEF SentinelDone, MoreRows, Db
<1> QED
  BY <1>1, <1>2 DEF Keeps

LEMMA MarkAsset ==
    ASSUME NEW db \in Db, NEW s, NEW a \in Assets
    PROVE  Keeps([db EXCEPT !.progress = s], db, a) /\ Keeps([db EXCEPT !.skipped = s], db, a)
           /\ Keeps([db EXCEPT !.known = s], db, a)
BY DEF Keeps, Db

-----------------------------------------------------------------------------
(* The steps.                                                              *)

LEMMA AssetValues ==
    ASSUME TypeOK, NEW a \in Assets
    PROVE  /\ content[a] \in Nat /\ captured[a] \in Nat
           /\ disk.deep[a] \in Nat /\ view.deep[a] \in Nat
           /\ disk.attempts[a] \in Nat /\ view.attempts[a] \in Nat
           /\ disk \in Db /\ view \in Db
<1>1. disk \in Db /\ view \in Db
  BY DEF TypeOK, DbTypes
<1>2. \A i, n : n \in Nat /\ i \in 0 .. n => i \in Nat
  OBVIOUS
<1>3. content[a] \in 0 .. MaxVersion /\ captured[a] \in 0 .. MaxVersion
  BY DEF TypeOK, WorldTypes, QueueTypes
<1>4. /\ disk.deep[a] \in 0 .. MaxVersion /\ view.deep[a] \in 0 .. MaxVersion
      /\ disk.attempts[a] \in 0 .. MaxAttempts /\ view.attempts[a] \in 0 .. MaxAttempts
  BY <1>1, DbFields
<1> QED
  BY <1>1, <1>2, <1>3, <1>4, BoundFacts

\* A step that leaves the asset as it is in one of the two copies or both.
LEMMA Carried ==
    ASSUME TypeOK, NEW a \in Assets, Honest(a),
           pc # "dropping", pc' # "dropping",
           content'[a] = content[a], captured'[a] \in {captured[a], 0},
           \/ Keeps(disk', disk, a) /\ Keeps(view', view, a)
           \/ Keeps(disk', view, a) /\ Keeps(view', view, a)
           \/ Keeps(disk', disk, a) /\ Keeps(view', disk, a),
           EmptyInv(a)'
    PROVE  Honest(a)'
<1>1. StampInv(a)'
  BY AssetValues DEF Honest, StampInv, Keeps
<1>2. VouchInv(a)' /\ AgreeInv(a)'
  BY DEF Honest, VouchInv, AgreeInv, Vouches, Hash, Keeps
<1> QED
  BY <1>1, <1>2 DEF Honest

LEMMA ZeroIsZero == \A a \in Assets : Zero[a] = 0
BY DEF Zero

LEMMA KeepsSelf == \A db, a : Keeps(db, db, a)
BY DEF Keeps

\* Nothing is edited, committed or lost.
LEMMA QuietMoves ==
    ASSUME Quiet, ~(\E x \in Assets : EditAsset(x))
    PROVE  /\ pc # "dropping" /\ pc' # "dropping"
           /\ content' = content /\ captured' \in {captured, Zero} /\ batch' = batch
           /\ queue' \in {queue, {}} /\ (stopped => stopped')
           /\ pc' \in {"post", "unmarked"} => pc \in {"post", "unmarked"} \/ queue' = {}
<1> USE DEF runVars, queueVars, dbVars
<1>1. CASE Launch \/ Start
  BY <1>1 DEF Launch, Start
<1>2. CASE StartFullIndex \/ BeginFails
  BY <1>2 DEF StartFullIndex, BeginFails
<1>3. CASE UserStops
  BY <1>3 DEF UserStops
<1>4. CASE LeaveDeepPass
  BY <1>4 DEF LeaveDeepPass
<1>5. CASE SkipSentinel \/ BeginUnmarkedPass \/ LeaveUnmarkedPass
  BY <1>5 DEF SkipSentinel, BeginUnmarkedPass, LeaveUnmarkedPass, AtPass
<1> QED
  BY <1>1, <1>2, <1>3, <1>4, <1>5 DEF Quiet

LEMMA QuietHonest ==
    ASSUME TypeOK, OnwardOnly, Quiet, NEW a \in Assets, Honest(a)
    PROVE  Honest(a)'
<1>1. disk' = disk /\ view' = view
  BY QuietFacts
<1>2. CASE \E x \in Assets : EditAsset(x)
  <2>1. PICK x \in Assets : EditAsset(x)
    BY <1>2
  <2>2. UNCHANGED <<pc, queue, captured, batch, stopped>>
    BY <2>1 DEF EditAsset, runVars, queueVars
  <2>3. content'[a] \in {content[a], 0} \/ (content'[a] = content[a] + 1 /\ content[a] # 0)
    <3>1. PICK v \in 0 .. MaxVersion :
             /\ v = 0 \/ v = content[x] + 1 \/ (Reverts /\ v < content[x])
             /\ content' = [content EXCEPT ![x] = v]
      BY <2>1 DEF EditAsset
    <3>2. content[x] # 0
      BY <2>1 DEF EditAsset
    <3>3. content'[a] = IF a = x THEN v ELSE content[a]
      BY <3>1 DEF TypeOK, WorldTypes
    <3>4. ~Reverts
      BY DEF OnwardOnly
    <3>5. v = 0 \/ v = content[x] + 1
      BY <3>1, <3>4, Zenon
    <3>6. CASE a = x
      BY <3>2, <3>3, <3>5, <3>6
    <3>7. CASE a # x
      BY <3>3, <3>7
    <3> QED
      BY <3>6, <3>7
  <2>4. EmptyInv(a)'
    BY <1>1, <2>2 DEF Honest, EmptyInv
  <2>5. StampInv(a)'
    BY <1>1, <2>2, <2>3, AssetValues DEF Honest, StampInv
  <2>6. Vouches(disk, a)' => Vouches(disk, a) /\ content'[a] = content[a]
    BY <1>1, <2>3, AssetValues DEF Honest, StampInv, Vouches, Hash
  <2>7. Vouches(view, a)' => Vouches(view, a) /\ content'[a] = content[a]
    BY <1>1, <2>3, AssetValues DEF Honest, StampInv, Vouches, Hash
  <2>8. VouchInv(a)' /\ AgreeInv(a)'
    BY <1>1, <2>2, <2>6, <2>7 DEF Honest, VouchInv, AgreeInv
  <2> QED
    BY <2>4, <2>5, <2>8 DEF Honest
<1>3. CASE ~(\E x \in Assets : EditAsset(x))
  <2>1. EmptyInv(a)'
    BY <1>1, <1>3, QuietMoves DEF Honest, EmptyInv
  <2>2. captured'[a] \in {captured[a], 0}
    BY <1>3, QuietMoves, ZeroIsZero
  <2>3. pc # "dropping" /\ pc' # "dropping" /\ content' = content
    BY <1>3, QuietMoves
  <2>4. Keeps(disk', disk, a) /\ Keeps(view', view, a)
    BY <1>1, KeepsSelf
  <2> QED
    BY <2>1, <2>2, <2>3, <2>4, Carried
<1> QED
  BY <1>2, <1>3

LEMMA FallingHonest ==
    ASSUME TypeOK, OnwardOnly, Falling, NEW a \in Assets, Honest(a)
    PROVE  Honest(a)'
<1>1. disk' = disk /\ view' = disk
  BY FallingFacts
<1>2. /\ pc # "dropping" /\ pc' # "dropping" /\ content' = content /\ batch' = {}
      /\ captured' \in {captured, Zero}
      /\ queue' = {} \/ (queue' = queue /\ stopped')
      /\ pc' \in {"post", "unmarked"} => queue' = queue /\ pc \in {"post", "unmarked"}
  <2>1. CASE TransactionFails
    BY <2>1 DEF TransactionFails
  <2>2. CASE Die
    BY <2>2 DEF Die, Crash, OnwardOnly
  <2>3. CASE KilledInPass \/ \E x \in Assets : KillEditor(x)
    BY <2>3 DEF KillEditor, KilledInPass, SentinelDue, AtPass, Crash
  <2> QED
    BY <2>1, <2>2, <2>3 DEF Falling
<1>3. EmptyInv(a)'
  BY <1>2 DEF Honest, EmptyInv
<1>4. captured'[a] \in {captured[a], 0}
  BY <1>2, ZeroIsZero
<1>5. Keeps(disk', disk, a) /\ Keeps(view', disk, a)
  BY <1>1, KeepsSelf
<1> QED
  BY <1>2, <1>3, <1>4, <1>5, Carried

\* A visit leaves an asset as it is, unless it is the one visited and is found
\* poisonous or queued.
LEMMA VisitAsset ==
    ASSUME TypeOK, NEW x \in Assets, Visits(x), NEW a \in Assets
    PROVE  \/ /\ Keeps(view', view, a)
              /\ queue' \cap {a} = queue \cap {a} /\ captured'[a] = captured[a]
           \/ /\ view'.rows[a] = view.rows[a] /\ view'.deep[a] = Hash(a)
              /\ view'.attempts[a] = view.attempts[a] /\ view.attempts[a] >= MaxAttempts
              /\ queue' = queue /\ captured' = captured /\ ~AlreadyIndexed(a)
           \/ /\ view'.rows[a] = <<>> /\ view'.deep[a] = view.deep[a]
              /\ view'.attempts[a] = view.attempts[a]
              /\ captured'[a] = Hash(a) /\ ~AlreadyIndexed(a)
<1>1. view \in Db /\ captured \in [Assets -> 0 .. MaxVersion]
  BY DEF TypeOK, DbTypes, QueueTypes
<1>2. CASE ListOnly(x)
  BY <1>1, <1>2, MarkAsset DEF ListOnly
<1>3. CASE SkipIndexed(x)
  BY <1>3, KeepsSelf DEF SkipIndexed
<1>4. CASE SkipPoison(x)
  <2>1. /\ view'.rows = view.rows /\ view'.attempts = view.attempts
        /\ view'.deep = [view.deep EXCEPT ![x] = Hash(x)]
    BY <1>1, <1>4 DEF SkipPoison, Db
  <2>2. queue' = queue /\ captured' = captured
    BY <1>4 DEF SkipPoison
  <2>3. view.deep \in [Assets -> 0 .. MaxVersion]
    BY <1>1, DbFields
  <2>4. CASE a = x
    BY <1>4, <2>1, <2>2, <2>3, <2>4 DEF SkipPoison, IsPoison
  <2>5. CASE a # x
    BY <2>1, <2>2, <2>3, <2>5 DEF Keeps
  <2> QED
    BY <2>4, <2>5
<1>5. CASE QueueAsset(x)
  <2>1. /\ view' = Cleared(view, x) /\ queue' = queue \cup {x}
        /\ captured' = [captured EXCEPT ![x] = Hash(x)] /\ ~AlreadyIndexed(x)
    BY <1>5 DEF QueueAsset
  <2>2. CASE a = x
    BY <1>1, <2>1, <2>2, ClearedAsset
  <2>3. CASE a # x
    BY <1>1, <2>1, <2>3, ClearedAsset DEF Keeps
  <2> QED
    BY <2>2, <2>3
<1> QED
  BY <1>2, <1>3, <1>4, <1>5 DEF Visits

LEMMA VisitHonest ==
    ASSUME TypeOK, TransactionInv, NEW x \in Assets, Visits(x), NEW a \in Assets, Honest(a)
    PROVE  Honest(a)'
<1>1. /\ pc = "scan" /\ pc' = "scan" /\ disk' \in {disk, view'}
      /\ content' = content /\ batch' = batch /\ stopped' = stopped
  BY DEF Visits, ListOnly, SkipIndexed, SkipPoison, QueueAsset, Visit
<1>2. batch = {}
  BY <1>1 DEF TransactionInv
<1>3. CASE /\ Keeps(view', view, a)
           /\ queue' \cap {a} = queue \cap {a} /\ captured'[a] = captured[a]
  <2>1. EmptyInv(a)'
    BY <1>1, <1>2, <1>3 DEF Honest, EmptyInv, Keeps
  <2>2. Keeps(disk', disk, a) \/ Keeps(disk', view, a)
    BY <1>1, <1>3, KeepsSelf DEF Keeps
  <2> QED
    BY <1>1, <1>3, <2>1, <2>2, Carried
<1>4. CASE /\ view'.rows[a] = view.rows[a] /\ view'.deep[a] = Hash(a)
           /\ view'.attempts[a] = view.attempts[a] /\ view.attempts[a] >= MaxAttempts
           /\ queue' = queue /\ captured' = captured /\ ~AlreadyIndexed(a)
  <2>1. EmptyInv(a)'
    BY <1>1, <1>2, <1>4 DEF Honest, EmptyInv
  <2>2. ~Vouches(disk, a)
    BY <1>4 DEF Honest, AgreeInv, Vouches, AlreadyIndexed
  <2>3. ~Vouches(view, a)'
    BY <1>4, AssetValues DEF Vouches, MaxAttempts
  <2>4. ~Vouches(disk, a)'
    BY <1>1, <2>2, <2>3 DEF Vouches, Hash
  <2>5. StampInv(a)'
    BY <1>1, <1>4, AssetValues DEF Honest, StampInv, Hash
  <2> QED
    BY <1>1, <2>1, <2>3, <2>4, <2>5 DEF Honest, VouchInv, AgreeInv
<1>5. CASE /\ view'.rows[a] = <<>> /\ view'.deep[a] = view.deep[a]
           /\ view'.attempts[a] = view.attempts[a]
           /\ captured'[a] = Hash(a) /\ ~AlreadyIndexed(a)
  <2>1. EmptyInv(a)'
    BY <1>1, <1>2, <1>5 DEF EmptyInv
  <2>2. ~Vouches(disk, a)
    BY <1>5 DEF Honest, AgreeInv, Vouches, AlreadyIndexed
  <2>3. ~Vouches(view, a)'
    BY <1>1, <1>5 DEF Vouches, AlreadyIndexed, Hash
  <2>4. ~Vouches(disk, a)'
    BY <1>1, <2>2, <2>3 DEF Vouches, Hash
  <2>5. StampInv(a)'
    BY <1>1, <1>5, AssetValues DEF Honest, StampInv, Hash
  <2> QED
    BY <1>1, <2>1, <2>3, <2>4, <2>5 DEF Honest, VouchInv, AgreeInv
<1> QED
  BY <1>3, <1>4, <1>5, VisitAsset

\* What is indexed had no rows, and its checkpoint is the hash that was captured.
LEMMA IndexHonest ==
    ASSUME TypeOK, NEW x \in Assets, IndexAsset(x), NEW a \in Assets, Honest(a)
    PROVE  Honest(a)'
<1>1. /\ pc = "work" /\ pc' \in {"work", "mark"} /\ x \in batch
      /\ view' = Indexed(view, x) /\ disk' \in {disk, view'}
      /\ content' = content /\ batch' = batch \ {x} /\ queue' = queue /\ stopped' = stopped
      /\ captured' = [captured EXCEPT ![x] = 0]
  BY DEF IndexAsset
<1>2. captured'[a] \in {captured[a], 0}
  BY <1>1 DEF TypeOK, QueueTypes
<1>3. view \in Db
  BY DEF TypeOK, DbTypes
<1>4. CASE Keeps(view', view, a)
  <2>1. EmptyInv(a)'
    BY <1>1, <1>4 DEF Honest, EmptyInv, Keeps
  <2>2. Keeps(disk', disk, a) \/ Keeps(disk', view, a)
    BY <1>1, <1>4, KeepsSelf DEF Keeps
  <2> QED
    BY <1>1, <1>2, <1>4, <2>1, <2>2, Carried
<1>5. CASE /\ a = x /\ content[x] # 0
           /\ view'.rows[a] = Append(view.rows[a], content[a])
           /\ view'.deep[a] = captured[a]
  <2>1. view.rows[a] = <<>> /\ a \notin queue
    BY <1>1, <1>5 DEF Honest, EmptyInv
  <2>2. view'.rows[a] = <<content[a]>>
    BY <1>5, <2>1
  <2>3. EmptyInv(a)'
    BY <1>1, <1>5, <2>1 DEF EmptyInv
  <2>4. ~Vouches(disk, a)
    <3>1. SUFFICES ASSUME Vouches(disk, a) PROVE FALSE
      OBVIOUS
    <3>2. <<content[a]>> = <<>>
      BY <1>1, <2>1, <3>1 DEF Honest, VouchInv, AgreeInv
    <3> QED
      BY <3>2
  <2>5. Vouches(disk, a)' => disk' = view'
    BY <1>1, <2>4 DEF Vouches, Hash
  <2>6. StampInv(a)'
    BY <1>1, <1>2, <1>5, AssetValues DEF Honest, StampInv
  <2>7. VouchInv(a)'
    BY <1>1, <2>2, <2>5 DEF VouchInv
  <2>8. AgreeInv(a)'
    BY <2>5 DEF AgreeInv
  <2> QED
    BY <2>3, <2>6, <2>7, <2>8 DEF Honest
<1> QED
  BY <1>1, <1>3, <1>4, <1>5, IndexedAsset

\* The reset and the writes of their own.
LEMMA CommitHonest ==
    ASSUME IInv, NEW a \in Assets, Honest(a), Next,
           \/ DropRows \/ DropAssets \/ BeginFullIndex \/ RecordSkippedAssetPaths
           \/ MarkBatch \/ RunSentinelInTransaction \/ Finish
           \/ \E x \in Assets : IndexUnmarked(x)
    PROVE  Honest(a)'
<1> USE DEF IInv
<1>1. disk \in Db /\ view \in Db /\ TypeOK
  BY DEF TypeOK, DbTypes
<1>2. ASSUME DropRows PROVE Honest(a)'
  <2>1. /\ pc' = "dropping" /\ view' = disk' /\ pc = "drop"
        /\ disk' = [disk EXCEPT !.rows = NoRows, !.post = NoPostRows]
        /\ UNCHANGED <<content, queue, captured, batch, stopped>>
    BY <1>2 DEF DropRows, Commit, runVars, queueVars
  <2>2. disk'.rows[a] = <<>> /\ disk'.deep = disk.deep
    BY <1>1, <2>1 DEF Db, NoRows
  <2>3. StampInv(a)'
    BY <2>1, <2>2 DEF Honest, StampInv
  <2>4. VouchInv(a)' /\ AgreeInv(a)'
    BY <2>1, <2>2 DEF VouchInv, AgreeInv
  <2>5. EmptyInv(a)'
    BY <2>1, <2>2 DEF Honest, EmptyInv
  <2> QED
    BY <2>3, <2>4, <2>5 DEF Honest
<1>3. ASSUME DropAssets PROVE Honest(a)'
  <2>1. /\ pc' = "begin" /\ view' = EmptyDb /\ disk' = EmptyDb
        /\ UNCHANGED <<content, queue, captured, batch, stopped>>
    BY <1>3 DEF DropAssets, Commit, runVars, queueVars
  <2>2. disk'.rows[a] = <<>> /\ disk'.deep[a] = 0
    BY <2>1, EmptyDbAsset DEF Emptied
  <2>3. StampInv(a)'
    BY <1>1, <2>1, <2>2, AssetValues DEF Honest, StampInv
  <2>4. VouchInv(a)' /\ AgreeInv(a)'
    BY <2>1, <2>2 DEF VouchInv, AgreeInv, Vouches
  <2>5. EmptyInv(a)'
    BY <2>1, <2>2 DEF Honest, EmptyInv
  <2> QED
    BY <2>3, <2>4, <2>5 DEF Honest
<1>4. ASSUME BeginFullIndex \/ RecordSkippedAssetPaths \/ Finish PROVE Honest(a)'
  <2>1. /\ view' = disk' /\ pc \notin {"scan", "work", "dropping"}
        /\ pc' \notin {"dropping", "post", "unmarked"}
        /\ UNCHANGED <<content, queue, captured, batch>>
        /\ stopped' = stopped \/ pc = "post"
    BY <1>4 DEF BeginFullIndex, RecordSkippedAssetPaths, Finish, Commit, runVars, queueVars
  <2>2. Keeps(disk', disk, a)
    <3>1. CASE BeginFullIndex \/ Finish
      <4>1. PICK s : disk' = [disk EXCEPT !.progress = s]
        BY <3>1 DEF BeginFullIndex, Finish, Commit
      <4> QED
        BY <1>1, <4>1, MarkAsset
    <3>2. CASE RecordSkippedAssetPaths
      <4>1. PICK s : disk' = [disk EXCEPT !.skipped = s]
        BY <3>2 DEF RecordSkippedAssetPaths, Commit
      <4> QED
        BY <1>1, <4>1, MarkAsset
    <3> QED
      BY <1>4, <3>1, <3>2
  <2>3. view = disk
    BY <2>1 DEF TransactionInv
  <2>4. EmptyInv(a)'
    BY <2>1, <2>2, <2>3 DEF Honest, EmptyInv, Keeps
  <2> QED
    BY <1>1, <2>1, <2>2, <2>4, Carried
<1>5. ASSUME MarkBatch PROVE Honest(a)'
  <2>1. PICK b \in Batches :
           BumpDeepIndexAttempts(b) /\ batch' = b /\ queue' = queue \ b
    BY <1>5 DEF MarkBatch
  <2>2. /\ pc = "mark" /\ pc' = "work" /\ ~stopped
        /\ UNCHANGED <<content, captured, stopped>>
        /\ disk' = Bumped(disk, b) /\ view' = disk' /\ view = disk
    BY <1>5, <2>1 DEF MarkBatch, BumpDeepIndexAttempts, Commit, TransactionInv
  <2>3. b \in SUBSET Assets /\ b \subseteq queue
    BY DEF Batches, TypeOK, QueueTypes
  <2>4. /\ disk'.rows[a] = disk.rows[a] /\ disk'.deep[a] = disk.deep[a]
        /\ disk'.attempts[a] \in {disk.attempts[a], disk.attempts[a] + 1}
    BY <1>1, <2>2, <2>3, BumpedAsset DEF QueueInv
  <2>5. EmptyInv(a)'
    BY <2>1, <2>2, <2>3, <2>4 DEF Honest, EmptyInv
  <2>6. StampInv(a)'
    BY <2>2, <2>4 DEF Honest, StampInv
  <2>7. Vouches(disk, a)' => Vouches(disk, a)
    BY <1>1, <2>2, <2>4, AssetValues DEF Vouches, Hash, MaxAttempts
  <2>8. VouchInv(a)' /\ AgreeInv(a)'
    BY <2>2, <2>4, <2>7 DEF Honest, VouchInv, AgreeInv
  <2> QED
    BY <2>5, <2>6, <2>8 DEF Honest
<1>6. ASSUME RunSentinelInTransaction \/ \E x \in Assets : IndexUnmarked(x)
      PROVE  Honest(a)'
  <2>1. /\ view' = disk' /\ pc \in {"post", "unmarked"} /\ pc' = pc
        /\ UNCHANGED <<content, queue, captured, batch, stopped>>
    BY <1>6 DEF RunSentinelInTransaction, SentinelDue, IndexUnmarked, AtPass, Commit,
       queueVars
  <2>2. Keeps(disk', disk, a)
    <3>1. CASE RunSentinelInTransaction
      <4>1. Pass \in PassNames
        BY <1>1, <3>1, SentinelIsNew
      <4>2. disk' = SentinelDone(disk, Pass)
        BY <3>1 DEF RunSentinelInTransaction, Commit
      <4> QED
        BY <1>1, <4>1, <4>2, PostAsset
    <3>2. ASSUME NEW x \in Assets, IndexUnmarked(x) PROVE Keeps(disk', disk, a)
      <4>1. Pass \in PassNames
        BY <3>2, PassFacts DEF IndexUnmarked, Pass, FreshInv, TypeOK, RunTypes
      <4>2. disk' = MoreRows(disk, Pass, {x} \cap Present)
        BY <3>2 DEF IndexUnmarked, Commit
      <4> QED
        BY <1>1, <4>1, <4>2, PostAsset
    <3> QED
      BY <1>6, <3>1, <3>2
  <2>3. view = disk
    BY <2>1 DEF TransactionInv
  <2>4. EmptyInv(a)'
    BY <2>1, <2>2, <2>3 DEF Honest, EmptyInv, Keeps
  <2> QED
    BY <1>1, <2>1, <2>2, <2>4, Carried
<1> QED
  BY <1>2, <1>3, <1>4, <1>5, <1>6

\* The start and the end of the metadata pass.
LEMMA ScanHonest ==
    ASSUME IInv, NEW a \in Assets, Honest(a), ListAssets \/ LeaveScan
    PROVE  Honest(a)'
<1> USE DEF IInv
<1>1. disk \in Db /\ view \in Db /\ TypeOK
  BY DEF TypeOK, DbTypes
<1>2. CASE LeaveScan
  <2>1. /\ pc = "scan" /\ pc' = "record" /\ disk' = view /\ view' = view
        /\ UNCHANGED <<content, queue, captured, batch, stopped>>
    BY <1>2 DEF LeaveScan, queueVars
  <2>2. EmptyInv(a)'
    BY <2>1 DEF Honest, EmptyInv
  <2>3. Keeps(disk', view, a) /\ Keeps(view', view, a)
    BY <2>1, KeepsSelf
  <2> QED
    BY <1>1, <2>1, <2>2, <2>3, Carried
<1>3. CASE ListAssets
  <2>1. /\ pc = "list" /\ pc' = "scan" /\ disk' = disk
        /\ view' \in {view, Without(view, view.known \ Present)}
        /\ UNCHANGED <<content, queue, captured, batch, stopped>>
    BY <1>3 DEF ListAssets, queueVars
  <2>2. Keeps(view', view, a) \/ (Emptied(view', a) /\ content[a] = 0)
    <3>1. view.known \ Present \in SUBSET Assets
      BY <1>1, DbFields
    <3> QED
      BY <1>1, <2>1, <3>1, WithoutAsset, KeepsSelf DEF Present
  <2>3. CASE Keeps(view', view, a)
    <3>1. EmptyInv(a)'
      BY <2>1, <2>3 DEF Honest, EmptyInv, Keeps
    <3> QED
      BY <1>1, <2>1, <2>3, <3>1, KeepsSelf, Carried
  <2>4. CASE Emptied(view', a) /\ content[a] = 0
    <3>1. EmptyInv(a)'
      BY <2>1, <2>4 DEF Honest, EmptyInv, Emptied
    <3>2. ~Vouches(disk, a)' /\ ~Vouches(view, a)'
      BY <2>1, <2>4 DEF Vouches, Hash, Emptied
    <3> QED
      BY <2>1, <2>4, <3>1, <3>2 DEF Honest, StampInv, VouchInv, AgreeInv
  <2> QED
    BY <2>2, <2>3, <2>4
<1> QED
  BY <1>2, <1>3

LEMMA CheckpointStep ==
    ASSUME IInv, OnwardOnly, CheckpointInv, [Next]_vars
    PROVE  CheckpointInv'
<1> SUFFICES ASSUME NEW a \in Assets PROVE Honest(a)'
  BY DEF CheckpointInv
<1>1. TypeOK /\ TransactionInv /\ Honest(a)
  BY DEF IInv, CheckpointInv
<1>2. CASE UNCHANGED vars
  BY <1>1, <1>2 DEF vars, dbVars, runVars, queueVars, Honest, StampInv, VouchInv,
     AgreeInv, EmptyInv, Vouches, Hash
<1>3. CASE Next
  BY <1>1, <1>3, NextCases, QuietHonest, FallingHonest, VisitHonest, IndexHonest,
     CommitHonest, ScanHonest
<1> QED
  BY <1>2, <1>3

LEMMA CheckpointInitially == Init => CheckpointInv
<1> SUFFICES ASSUME Init, NEW a \in Assets PROVE Honest(a)
  BY DEF CheckpointInv
<1>1. /\ disk.rows[a] = <<>> /\ disk.deep[a] = 0 /\ view = disk
      /\ content[a] \in {0, 1} /\ captured[a] = 0
  BY EmptyDbAsset, ZeroIsZero DEF Init, Emptied
<1> QED
  BY <1>1 DEF Init, Honest, StampInv, VouchInv, AgreeInv, EmptyInv, Vouches

\* Whoever commits a transaction commits the rows that were vouched for.
LEMMA RowsAreKept ==
    ASSUME IInv, CheckpointInv, [Next]_vars, NEW a \in Assets,
           Vouched(a), pc # "drop"
    PROVE  disk'.rows[a] = disk.rows[a]
<1> USE DEF IInv
<1>1. disk \in Db /\ view \in Db /\ TypeOK /\ TransactionInv
  BY DEF TypeOK, DbTypes
<1>2. Vouches(disk, a) /\ Honest(a)
  BY DEF Vouched, Vouches, CheckpointInv
<1>3. view.rows[a] = disk.rows[a] /\ view.deep[a] = disk.deep[a]
  BY <1>2 DEF Honest, AgreeInv
<1>4. CASE Quiet \/ Falling \/ LeaveScan \/ ListAssets \/ UNCHANGED vars
  BY <1>3, <1>4, QuietFacts, FallingFacts DEF LeaveScan, ListAssets, vars, dbVars
<1>5. ASSUME NEW x \in Assets, Visits(x) PROVE disk'.rows[a] = disk.rows[a]
  <2>1. disk' \in {disk, view'}
    BY <1>1, <1>5, VisitFacts
  <2>2. AlreadyIndexed(a)
    BY <1>2, <1>3 DEF Vouches, AlreadyIndexed
  <2>3. view'.rows[a] = view.rows[a]
    BY <1>1, <1>5, <2>2, VisitAsset DEF Keeps
  <2> QED
    BY <1>3, <2>1, <2>3
<1>6. ASSUME NEW x \in Assets, IndexAsset(x) PROVE disk'.rows[a] = disk.rows[a]
  <2>1. /\ pc = "work" /\ x \in batch
        /\ view' = Indexed(view, x) /\ disk' \in {disk, view'}
    BY <1>6 DEF IndexAsset
  <2>2. a # x
    <3>1. disk.rows[a] = <<content[a]>>
      BY <1>2, <2>1 DEF Honest, VouchInv
    <3>2. view.rows[a] # <<>>
      BY <1>3, <3>1
    <3> QED
      BY <1>2, <2>1, <3>2 DEF Honest, EmptyInv
  <2>3. Keeps(view', view, a)
    BY <1>1, <2>1, <2>2, IndexedAsset
  <2> QED
    BY <1>3, <2>1, <2>3 DEF Keeps
<1>7. ASSUME NEW x \in Assets, IndexUnmarked(x) PROVE disk'.rows[a] = disk.rows[a]
  <2>1. Pass \in PassNames /\ disk' = MoreRows(disk, Pass, {x} \cap Present)
    BY <1>7, PassFacts DEF IndexUnmarked, Commit, Pass, FreshInv, TypeOK, RunTypes
  <2> QED
    BY <1>1, <2>1, PostAsset DEF Keeps
<1>8. CASE DropAssets
  <2>1. disk'.rows[a] = <<>>
    BY <1>8, EmptyDbAsset DEF DropAssets, Commit, Emptied
  <2> QED
    BY <1>2, <1>8, <2>1 DEF DropAssets, Honest, VouchInv
<1>9. CASE BeginFullIndex \/ RecordSkippedAssetPaths \/ Finish
  <2>1. disk'.rows = disk.rows
    BY <1>1, <1>9 DEF BeginFullIndex, RecordSkippedAssetPaths, Finish, Commit, Db
  <2> QED
    BY <2>1
<1>10. CASE MarkBatch
  <2>1. PICK b \in Batches : disk' = Bumped(disk, b)
    BY <1>10 DEF MarkBatch, BumpDeepIndexAttempts, Commit
  <2>2. disk'.rows = disk.rows
    BY <1>1, <2>1 DEF Bumped, Db
  <2> QED
    BY <2>2
<1>11. CASE RunSentinelInTransaction
  <2>1. Pass \in PassNames /\ disk' = SentinelDone(disk, Pass)
    BY <1>1, <1>11, SentinelIsNew DEF RunSentinelInTransaction, Commit
  <2> QED
    BY <1>1, <2>1, PostAsset DEF Keeps
<1>12. ~DropRows
  BY DEF DropRows
<1> QED
  BY <1>4, <1>5, <1>6, <1>7, <1>8, <1>9, <1>10, <1>11, <1>12, NextCases

-----------------------------------------------------------------------------
(* A complete index accounts for all.                                      *)

InRun == {"begin", "list", "scan", "record", "mark", "work", "post", "unmarked"}

Accounted(db, a) ==
    (a \in db.known \cap Present /\ a \notin Flawed \cup Shallow)
      => db.rows[a] # <<>> \/ db.attempts[a] = MaxAttempts

\* A run that has not been stopped has every asset on one of its lists until it
\* has rows or has been given up.
AccountInv ==
    /\ pc \in InRun => disk.progress # "done" /\ view.progress # "done"
    /\ (disk.progress = "done" /\ pc # "dropping") => \A a \in Assets : Accounted(disk, a)
    /\ (pc \in InRun \ {"begin", "list"} /\ ~stopped) =>
         \A a \in Assets :
           Accounted(view, a) \/ a \in queue \cup batch \/ (pc = "scan" /\ a \in todo)

LEMMA OtherFields ==
    ASSUME NEW db \in Db
    PROVE  /\ \A gone : /\ Without(db, gone).progress = db.progress
                        /\ Without(db, gone).known = db.known \ gone
           /\ \A x : /\ Cleared(db, x).progress = db.progress
                     /\ Cleared(db, x).known = db.known \cup {x}
                     /\ Indexed(db, x).progress = db.progress
                     /\ Indexed(db, x).known = db.known
           /\ \A b : /\ Bumped(db, b).progress = db.progress
                     /\ Bumped(db, b).known = db.known
           /\ \A p, found : /\ MoreRows(db, p, found).progress = db.progress
                            /\ MoreRows(db, p, found).known = db.known
           /\ \A p : /\ SentinelDone(db, p).progress = db.progress
                     /\ SentinelDone(db, p).known = db.known
<1>1. \A gone : /\ Without(db, gone).progress = db.progress
                /\ Without(db, gone).known = db.known \ gone
  BY DEF Without, Db
<1>2. \A x : /\ Cleared(db, x).progress = db.progress
             /\ Cleared(db, x).known = db.known \cup {x}
  BY DEF Cleared, WithoutChildren, Db
<1>3. \A x : Indexed(db, x).progress = db.progress /\ Indexed(db, x).known = db.known
  BY DEF Indexed, Db
<1>4. \A b : Bumped(db, b).progress = db.progress /\ Bumped(db, b).known = db.known
  BY DEF Bumped, Db
<1>5. \A p, found : /\ MoreRows(db, p, found).progress = db.progress
                    /\ MoreRows(db, p, found).known = db.known
  BY DEF MoreRows, Db
<1>6. \A p : /\ SentinelDone(db, p).progress = db.progress
             /\ SentinelDone(db, p).known = db.known
  BY DEF SentinelDone, MoreRows, Db
<1> QED
  BY <1>1, <1>2, <1>3, <1>4, <1>5, <1>6

\* Nothing comes back: an asset that is present now was so before.
LEMMA PresentShrinks == ASSUME Next PROVE Present' \subseteq Present
<1>1. CASE \E x \in Assets : EditAsset(x)
  BY <1>1 DEF EditAsset, Present
<1>2. CASE ~(\E x \in Assets : EditAsset(x))
  <2>1. CASE Quiet
    BY <1>2, <2>1, QuietMoves DEF Present
  <2>2. CASE Falling
    BY <2>2 DEF Falling, Die, TransactionFails, KillEditor, KilledInPass, Crash, Present
  <2>3. CASE ~Quiet /\ ~Falling
    <3>1. content' = content
      BY <2>3, NextCases
         DEF Visits, ListOnly, SkipIndexed, SkipPoison, QueueAsset, Visit, IndexAsset,
         IndexUnmarked, DropRows, DropAssets, BeginFullIndex, ListAssets, LeaveScan,
         RecordSkippedAssetPaths, MarkBatch, RunSentinelInTransaction, Finish
    <3> QED
      BY <3>1 DEF Present
  <2> QED
    BY <2>1, <2>2, <2>3
<1> QED
  BY <1>1, <1>2

\* The visit of an asset gives it rows to keep, a place in the queue or up.
LEMMA VisitAccounts ==
    ASSUME TypeOK, CheckpointInv, NEW x \in Assets, Visits(x), NEW a \in Assets
    PROVE  IF a = x THEN Accounted(view, a)' \/ a \in queue'
           ELSE /\ Keeps(view', view, a) /\ (a \in view'.known <=> a \in view.known)
                /\ a \in queue => a \in queue'
<1>1. view \in Db /\ content' = content /\ pc = "scan"
  BY DEF TypeOK, DbTypes, Visits, ListOnly, SkipIndexed, SkipPoison, QueueAsset, Visit
<1>2. CASE ListOnly(x)
  <2>1. a # x => a \in view'.known <=> a \in view.known
    BY <1>1, <1>2 DEF ListOnly, Db
  <2>2. Keeps(view', view, a) /\ queue' = queue /\ x \in Shallow
    BY <1>1, <1>2, MarkAsset DEF ListOnly
  <2> QED
    BY <2>1, <2>2 DEF Accounted
<1>3. CASE SkipIndexed(x)
  <2>1. view' = view /\ queue' = queue /\ AlreadyIndexed(x)
    BY <1>3 DEF SkipIndexed
  <2>2. view.attempts[x] = MaxAttempts \/ view.rows[x] # <<>>
    <3>1. view.attempts[x] \in 0 .. MaxAttempts
      BY <1>1, DbFields
    <3>2. CASE view.attempts[x] < MaxAttempts
      <4>1. view.rows[x] = <<content[x]>>
        BY <1>1, <2>1, <3>2 DEF CheckpointInv, Honest, VouchInv, Vouches, AlreadyIndexed
      <4> QED
        BY <4>1
    <3> QED
      BY <3>1, <3>2, BoundFacts
  <2> QED
    BY <2>1, <2>2, KeepsSelf DEF Accounted
<1>4. CASE SkipPoison(x)
  <2>1. /\ view'.rows = view.rows /\ view'.attempts = view.attempts
        /\ view'.known = view.known
        /\ view'.deep = [view.deep EXCEPT ![x] = Hash(x)]
    BY <1>1, <1>4 DEF SkipPoison, Db
  <2>2. queue' = queue /\ view.attempts[x] >= MaxAttempts
    BY <1>4 DEF SkipPoison, IsPoison
  <2>3. view.attempts[x] \in 0 .. MaxAttempts /\ view.deep \in [Assets -> 0 .. MaxVersion]
    BY <1>1, DbFields
  <2>4. view'.attempts[x] = MaxAttempts
    BY <2>1, <2>2, <2>3, BoundFacts
  <2> QED
    BY <2>1, <2>2, <2>3, <2>4 DEF Accounted, Keeps
<1>5. CASE QueueAsset(x)
  <2>1. view' = Cleared(view, x) /\ queue' = queue \cup {x}
    BY <1>5 DEF QueueAsset
  <2> QED
    BY <1>1, <2>1, ClearedAsset, OtherFields DEF Keeps
<1> QED
  BY <1>2, <1>3, <1>4, <1>5 DEF Visits

LEMMA AccountStep ==
    ASSUME IInv, CheckpointInv, OnwardOnly, AccountInv, Next
    PROVE  AccountInv'
<1> USE DEF IInv
<1>1. /\ disk \in Db /\ view \in Db /\ TypeOK /\ TransactionInv /\ FreshInv
      /\ Present' \subseteq Present
  BY PresentShrinks DEF TypeOK, DbTypes
<1>2. CASE Quiet
  <2>1. disk' = disk /\ view' = view
    BY <1>2, QuietFacts
  <2>2. CASE \E x \in Assets : EditAsset(x)
    <3>1. UNCHANGED <<pc, queue, batch, todo, stopped>>
      BY <2>2 DEF EditAsset, runVars, queueVars
    <3> QED
      BY <1>1, <2>1, <3>1 DEF AccountInv, Accounted
  <2>3. CASE ~(\E x \in Assets : EditAsset(x))
    <3>1. pc # "dropping" /\ batch' = batch
      BY <1>2, <2>3, QuietMoves
    <3>2. pc' \in InRun => disk.progress # "done" /\ view.progress # "done"
      <4>1. pc' \in InRun => pc \in InRun \/ (pc = "idle" /\ disk.progress # "done")
        BY <1>2, <2>3 DEF Quiet, Launch, Start, StartFullIndex, BeginFails, UserStops,
           LeaveDeepPass, SkipSentinel, BeginUnmarkedPass, LeaveUnmarkedPass, AtPass, InRun
      <4> QED
        BY <1>1, <4>1 DEF AccountInv, TransactionInv
    <3>3. (pc' \in InRun \ {"begin", "list"} /\ ~stopped') =>
            /\ pc \in InRun \ {"begin", "list", "scan"} /\ ~stopped
            /\ queue \subseteq queue'
      BY <1>2, <2>3 DEF Quiet, Launch, Start, StartFullIndex, BeginFails, UserStops,
         LeaveDeepPass, SkipSentinel, BeginUnmarkedPass, LeaveUnmarkedPass, AtPass, InRun,
         runVars, queueVars
    <3> QED
      BY <1>1, <2>1, <3>1, <3>2, <3>3 DEF AccountInv, Accounted
  <2> QED
    BY <2>2, <2>3
<1>3. CASE Falling
  <2>1. disk' = disk /\ view' = disk
    BY <1>3, FallingFacts
  <2>2. /\ pc # "dropping" /\ content' = content
        /\ pc' \in InRun => pc \in InRun
        /\ pc' \in InRun => stopped'
    <3>1. CASE TransactionFails
      BY <3>1 DEF TransactionFails, InRun
    <3>2. CASE Die \/ KilledInPass \/ \E x \in Assets : KillEditor(x)
      BY <3>2 DEF Die, KillEditor, KilledInPass, SentinelDue, AtPass, Crash, OnwardOnly, InRun
    <3> QED
      BY <1>3, <3>1, <3>2 DEF Falling
  <2> QED
    BY <1>1, <2>1, <2>2 DEF AccountInv, Accounted
<1>4. ASSUME NEW x \in Assets, Visits(x) PROVE AccountInv'
  <2>1. /\ pc = "scan" /\ pc' = "scan" /\ disk' \in {disk, view'}
        /\ content' = content /\ batch' = batch /\ ~stopped /\ todo' = todo \ {x}
    BY <1>4 DEF Visits, ListOnly, SkipIndexed, SkipPoison, QueueAsset, Visit
  <2>2. view'.progress = view.progress
    <3>1. CASE ListOnly(x) \/ SkipIndexed(x) \/ SkipPoison(x)
      BY <1>1, <3>1 DEF ListOnly, SkipIndexed, SkipPoison, Db
    <3>2. CASE QueueAsset(x)
      BY <1>1, <3>2, OtherFields DEF QueueAsset
    <3> QED
      BY <1>4, <3>1, <3>2 DEF Visits
  <2>3. disk'.progress # "done" /\ view'.progress # "done"
    BY <2>1, <2>2 DEF AccountInv, InRun
  <2>4. ASSUME NEW a \in Assets
        PROVE  Accounted(view, a)' \/ a \in queue' \cup batch' \/ a \in todo'
    <3>1. CASE a = x
      BY <1>1, <1>4, <3>1, VisitAccounts
    <3>2. CASE a # x
      <4>1. /\ Keeps(view', view, a) /\ (a \in view'.known <=> a \in view.known)
            /\ a \in queue => a \in queue'
        BY <1>1, <1>4, <3>2, VisitAccounts
      <4>2. Accounted(view, a) \/ a \in queue \cup batch \/ a \in todo
        BY <2>1 DEF AccountInv, InRun
      <4> QED
        BY <1>1, <2>1, <3>2, <4>1, <4>2 DEF Accounted, Keeps
    <3> QED
      BY <3>1, <3>2
  <2> QED
    BY <2>1, <2>3, <2>4 DEF AccountInv
<1>5. ASSUME NEW x \in Assets, IndexAsset(x) PROVE AccountInv'
  <2>1. /\ pc = "work" /\ pc' \in {"work", "mark"} /\ x \in batch
        /\ view' = Indexed(view, x) /\ disk' \in {disk, view'}
        /\ content' = content /\ batch' = batch \ {x} /\ queue' = queue /\ stopped' = stopped
    BY <1>5 DEF IndexAsset
  <2>2. view'.progress = view.progress /\ view'.known = view.known
    BY <1>1, <2>1, OtherFields
  <2>3. disk'.progress # "done" /\ view'.progress # "done"
    BY <2>1, <2>2 DEF AccountInv, InRun
  <2>4. Accounted(view, x)'
    <3>1. CASE x \in Flawed \/ content[x] = 0
      BY <2>1, <3>1 DEF Accounted, Present
    <3>2. CASE ~(x \in Flawed \/ content[x] = 0)
      <4>1. view'.rows = [view.rows EXCEPT ![x] = Append(view.rows[x], content[x])]
        BY <1>1, <2>1, <3>2 DEF Indexed, Db
      <4>2. view.rows[x] = <<>> /\ view.rows \in [Assets -> Seq(1 .. MaxVersion)]
        BY <1>1, <2>1, DbFields DEF CheckpointInv, Honest, EmptyInv
      <4>3. view'.rows[x] = <<content[x]>>
        BY <4>1, <4>2
      <4>4. view'.rows[x] # <<>>
        BY <4>3
      <4> QED
        BY <4>4 DEF Accounted
    <3> QED
      BY <3>1, <3>2
  <2>5. ASSUME NEW a \in Assets \ {x}, ~stopped PROVE Accounted(view, a)' \/ a \in queue' \cup batch'
    <3>1. Keeps(view', view, a)
      BY <1>1, <2>1, IndexedAsset
    <3>2. Accounted(view, a) \/ a \in queue \cup batch
      BY <2>1, <2>5 DEF AccountInv, InRun
    <3> QED
      BY <1>1, <2>1, <2>2, <3>1, <3>2 DEF Accounted, Keeps
  <2> QED
    BY <2>1, <2>3, <2>4, <2>5 DEF AccountInv
<1>6. CASE DropRows \/ DropAssets
  <2>1. CASE DropRows
    BY <2>1 DEF DropRows, AccountInv, InRun
  <2>2. CASE DropAssets
    BY <2>2 DEF DropAssets, Commit, EmptyDb, AccountInv, InRun
  <2> QED
    BY <1>6, <2>1, <2>2
<1>7. CASE BeginFullIndex
  <2>1. disk'.progress = "running" /\ view' = disk' /\ pc' = "list"
    BY <1>1, <1>7 DEF BeginFullIndex, Commit, Db
  <2> QED
    BY <2>1 DEF AccountInv
<1>8. CASE ListAssets
  <2>1. /\ pc = "list" /\ pc' = "scan" /\ disk' = disk /\ content' = content
        /\ view' \in {view, Without(view, view.known \ Present)} /\ todo' = Present
    BY <1>8 DEF ListAssets
  <2>2. view'.progress = view.progress
    BY <1>1, <2>1, OtherFields
  <2>3. \A a \in Assets : Accounted(view, a)' \/ a \in todo'
    BY <1>1, <2>1 DEF Accounted
  <2> QED
    BY <2>1, <2>2, <2>3 DEF AccountInv, InRun
<1>9. CASE LeaveScan
  <2>1. /\ pc = "scan" /\ pc' = "record" /\ disk' = view /\ view' = view /\ content' = content
        /\ UNCHANGED <<queue, batch, stopped>> /\ (stopped \/ todo = {})
    BY <1>9 DEF LeaveScan, queueVars
  <2> QED
    BY <1>1, <2>1 DEF AccountInv, Accounted, InRun
<1>10. CASE RecordSkippedAssetPaths \/ RunSentinelInTransaction
               \/ \E x \in Assets : IndexUnmarked(x)
  <2>1. /\ view' = disk' /\ view = disk /\ content' = content
        /\ pc \in {"record", "post", "unmarked"} /\ pc' \in {"mark", "post", "unmarked"}
        /\ UNCHANGED <<queue, batch, stopped>>
    BY <1>1, <1>10 DEF RecordSkippedAssetPaths, RunSentinelInTransaction, SentinelDue,
       IndexUnmarked,
       AtPass, Commit, queueVars, TransactionInv
  <2>2. disk'.progress = disk.progress /\ disk'.known = disk.known
    <3>1. CASE RecordSkippedAssetPaths
      BY <1>1, <3>1 DEF RecordSkippedAssetPaths, Commit, Db
    <3>2. CASE RunSentinelInTransaction \/ \E x \in Assets : IndexUnmarked(x)
      <4>1. \/ disk' = SentinelDone(disk, Pass)
            \/ \E x \in Assets : disk' = MoreRows(disk, Pass, {x} \cap Present)
        BY <3>2 DEF RunSentinelInTransaction, IndexUnmarked, Commit
      <4>2. CASE disk' = SentinelDone(disk, Pass)
        BY <1>1, <4>2, OtherFields
      <4>3. ASSUME NEW x \in Assets, disk' = MoreRows(disk, Pass, {x} \cap Present)
            PROVE  disk'.progress = disk.progress /\ disk'.known = disk.known
        <5> DEFINE found == {x} \cap Present
        <5>1. disk' = MoreRows(disk, Pass, found)
          BY <4>3
        <5> HIDE DEF found
        <5> QED
          BY <1>1, <5>1, OtherFields
      <4> QED
        BY <4>1, <4>2, <4>3
    <3> QED
      BY <1>10, <3>1, <3>2
  <2>3. ASSUME NEW a \in Assets PROVE Keeps(disk', disk, a)
    <3>1. CASE RecordSkippedAssetPaths
      <4>1. PICK s : disk' = [disk EXCEPT !.skipped = s]
        BY <3>1 DEF RecordSkippedAssetPaths, Commit
      <4> QED
        BY <1>1, <4>1, MarkAsset
    <3>2. CASE RunSentinelInTransaction
      <4>1. Pass \in PassNames /\ disk' = SentinelDone(disk, Pass)
        BY <1>1, <3>2, SentinelIsNew DEF RunSentinelInTransaction, Commit
      <4> QED
        BY <1>1, <4>1, PostAsset
    <3>3. ASSUME NEW x \in Assets, IndexUnmarked(x) PROVE Keeps(disk', disk, a)
      <4>1. Pass \in PassNames /\ disk' = MoreRows(disk, Pass, {x} \cap Present)
        BY <3>3, PassFacts DEF IndexUnmarked, Commit, Pass, FreshInv, TypeOK, RunTypes
      <4> QED
        BY <1>1, <4>1, PostAsset
    <3> QED
      BY <1>10, <3>1, <3>2, <3>3
  <2> QED
    BY <1>1, <2>1, <2>2, <2>3 DEF AccountInv, Accounted, Keeps, InRun
<1>11. CASE MarkBatch
  <2>1. PICK b \in Batches :
           BumpDeepIndexAttempts(b) /\ batch' = b /\ queue' = queue \ b
    BY <1>11 DEF MarkBatch
  <2>2. /\ pc = "mark" /\ pc' = "work" /\ stopped' = stopped /\ content' = content
        /\ disk' = Bumped(disk, b) /\ view' = disk' /\ view = disk /\ batch = {}
    BY <1>1, <1>11, <2>1 DEF MarkBatch, BumpDeepIndexAttempts, Commit, TransactionInv
  <2>3. b \in SUBSET Assets /\ b \subseteq queue
    BY DEF Batches, TypeOK, QueueTypes
  <2>4. disk'.progress = disk.progress /\ disk'.known = disk.known
    BY <1>1, <2>2, OtherFields
  <2>5. \A a \in Assets :
           /\ disk'.rows[a] = disk.rows[a]
           /\ a \notin b => disk'.attempts[a] = disk.attempts[a]
    BY <1>1, <2>2, <2>3, BumpedAsset, BumpedFacts DEF QueueInv
  <2> QED
    BY <1>1, <2>1, <2>2, <2>4, <2>5 DEF AccountInv, Accounted, InRun
<1>12. CASE Finish
  <2>1. /\ pc = "post" /\ pc' = "idle" /\ view = disk /\ batch = {} /\ content' = content
        /\ disk' = [disk EXCEPT !.progress = Outcome]
    BY <1>1, <1>12 DEF Finish, Commit, TransactionInv
  <2>2. CASE stopped
    BY <1>1, <2>1, <2>2 DEF Outcome, AccountInv, InRun, Db
  <2>3. CASE ~stopped
    <3>1. \A a \in Assets : a \notin queue
      BY <2>1 DEF CheckpointInv, Honest, EmptyInv
    <3>2. \A a \in Assets : Accounted(disk, a)
      BY <2>1, <2>3, <3>1 DEF AccountInv, InRun
    <3>3. disk'.known = disk.known /\ disk'.rows = disk.rows /\ disk'.attempts = disk.attempts
      BY <1>1, <2>1 DEF Db
    <3> QED
      BY <1>1, <2>1, <3>2, <3>3 DEF AccountInv, Accounted, InRun
  <2> QED
    BY <2>2, <2>3
<1> QED
  BY <1>2, <1>3, <1>4, <1>5, <1>6, <1>7, <1>8, <1>9, <1>10, <1>11, <1>12, NextCases

-----------------------------------------------------------------------------
(* The theorems.                                                           *)

\* Checkpoints, rows and captured hashes agree in every reachable state.
THEOREM Checkpoints == ASSUME OnwardOnly PROVE Spec => []CheckpointInv
<1>1. IInv /\ CheckpointInv /\ [Next]_vars => CheckpointInv'
  BY CheckpointStep
<1> QED
  BY <1>1, CheckpointInitially, Invariance, PTL DEF Spec

\* "never a checkpoint pointing at data that is not there": an asset a resume
\* would skip as indexed has the rows of its present version, once.
THEOREM CheckpointTheorem == ASSUME OnwardOnly PROVE Spec => []CheckpointMeansRows
<1>1. CheckpointInv => CheckpointMeansRows
  BY DEF CheckpointInv, Honest, VouchInv, CheckpointMeansRows, Vouched, Vouches
<1> QED
  BY <1>1, Checkpoints, PTL

\* "already-indexed assets keep their data": no step but a reset touches it.
THEOREM IndexedRowsTheorem == ASSUME OnwardOnly PROVE Spec => IndexedRowsAreKept
<1>1. IInv /\ CheckpointInv /\ [Next]_vars =>
        [\A a \in Assets :
           Vouched(a) /\ content'[a] = content[a] /\ pc # "drop"
             => disk'.rows[a] = disk.rows[a]]_vars
  BY RowsAreKept
<1> QED
  BY <1>1, Checkpoints, Invariance, PTL DEF Spec, IndexedRowsAreKept

\* An index marked complete has rows of every asset it can have rows of, but for
\* those it has given up.
THEOREM CompleteTheorem == ASSUME OnwardOnly PROVE Spec => []CompleteAccountsForAll
<1>1. Init => AccountInv
  BY DEF Init, AccountInv, EmptyDb, InRun
<1>2. IInv /\ CheckpointInv /\ AccountInv /\ [Next]_vars => AccountInv'
  <2>1. CASE UNCHANGED vars
    BY <2>1 DEF vars, dbVars, runVars, queueVars, AccountInv, Accounted, Present
  <2> QED
    BY <2>1, AccountStep
<1>3. IInv /\ AccountInv => CompleteAccountsForAll
  BY DEF AccountInv, Accounted, CompleteAccountsForAll, IInv, TypeOK, DbTypes, Db
<1> QED
  BY <1>1, <1>2, <1>3, Checkpoints, Invariance, PTL DEF Spec
=============================================================================
