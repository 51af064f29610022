----------------------- MODULE AsyncJobRegistryProofs -----------------------
(***************************************************************************)
(* The safety of AsyncJobRegistry for every set of jobs and every          *)
(* capacity, and that it implements JobLifecycle.                          *)
(***************************************************************************)
EXTENDS AsyncJobRegistry, FiniteSetTheorems, TLAPS

\* A job that has not been submitted has no row.
UnsubmittedHasNoRow ==
    \A j \in Jobs : producer[j] \in {"idle", "minted"} => j \notin Held

\* The row's cancellable bit is the one the job was submitted with.
CancellableIsFixed ==
    \A j \in Held : rows[j].cancellable <=> j \in Cancellable

\* Only a cancellable row is ever flagged.
OnlyCancellableIsFlagged ==
    \A j \in Held : rows[j].cancelRequested => j \in Cancellable

\* The flag a producer saw is still there when it acknowledges it.
SeenFlagStays ==
    \A j \in Held : producer[j] = "cancelling" => rows[j].cancelRequested

\* A producer that is about to report success has returned its work.
SuccessIsReal ==
    \A j \in Jobs : producer[j] \in {"successful", "completing"} => j \in returned

IInv ==
    /\ TypeOK
    /\ WithinCapacity
    /\ UnsubmittedHasNoRow
    /\ CancellableIsFixed
    /\ OnlyCancellableIsFlagged
    /\ SeenFlagStays
    /\ SuccessIsReal
    /\ NoAbandonedRow
    /\ NoFalseComplete

-----------------------------------------------------------------------------
(* What the registry's methods do to the rows.                             *)

\* Touching a row keeps the order of stamps well typed.
LEMMA TouchType ==
    ASSUME older \subseteq Jobs \X Jobs, NEW j \in Jobs
    PROVE  Touch(j) \subseteq Jobs \X Jobs
BY DEF Touch

\* UpdateProgress, CompleteJob and FailJob keep the ids that are held, and
\* change only the status of a row that is live.
LEMMA SetStatusEffect ==
    ASSUME TypeOK, NEW j \in Jobs, NEW s \in {"running"} \cup Terminal,
           SetStatus(j, s)
    PROVE  /\ DOMAIN rows' = Held
           /\ rows' \in [Held -> Row]
           /\ older' \subseteq Jobs \X Jobs
           /\ \A k \in Held :
                /\ rows'[k].cancelRequested = rows[k].cancelRequested
                /\ rows'[k].cancellable = rows[k].cancellable
                /\ rows'[k].status = IF k = j /\ IsLive(j) THEN s ELSE rows[k].status
<1>1. CASE IsLive(j)
  <2>1. rows' = [rows EXCEPT ![j].status = s]
    BY <1>1 DEF SetStatus
  <2>2. older' \subseteq Jobs \X Jobs
    BY <1>1, TouchType DEF SetStatus, TypeOK
  <2>3. rows \in [Held -> Row] /\ j \in Held
    BY <1>1 DEF TypeOK, IsLive
  <2>4. rows' = [k \in Held |-> IF k = j THEN [rows[j] EXCEPT !.status = s] ELSE rows[k]]
    BY <2>1, <2>3
  <2>5. [rows[j] EXCEPT !.status = s] \in Row
    BY <2>3 DEF Row, Terminal
  <2>6. /\ [rows[j] EXCEPT !.status = s].status = s
        /\ [rows[j] EXCEPT !.status = s].cancelRequested = rows[j].cancelRequested
        /\ [rows[j] EXCEPT !.status = s].cancellable = rows[j].cancellable
    BY <2>3 DEF Row
  <2> HIDE DEF Held, Row
  <2>7. rows' \in [Held -> Row]
    BY <2>3, <2>4, <2>5
  <2> QED
    BY <1>1, <2>2, <2>3, <2>4, <2>6, <2>7
<1>2. CASE ~IsLive(j)
  BY <1>2 DEF SetStatus, TypeOK, Held
<1> QED
  BY <1>1, <1>2

\* CancelJob keeps the ids that are held, and changes only a row that is live
\* and cancellable.
LEMMA SetCancelledEffect ==
    ASSUME TypeOK, NEW j \in Jobs, SetCancelled(j)
    PROVE  /\ DOMAIN rows' = Held
           /\ rows' \in [Held -> Row]
           /\ older' \subseteq Jobs \X Jobs
           /\ \A k \in Held :
                /\ rows'[k].cancellable = rows[k].cancellable
                /\ IF k = j /\ IsLive(j) /\ rows[j].cancellable
                   THEN rows'[k].status = "cancelled" /\ rows'[k].cancelRequested
                   ELSE rows'[k] = rows[k]
<1>1. CASE IsLive(j) /\ rows[j].cancellable
  <2>1. rows' = [rows EXCEPT ![j].status = "cancelled", ![j].cancelRequested = TRUE]
    BY <1>1 DEF SetCancelled
  <2>2. older' \subseteq Jobs \X Jobs
    BY <1>1, TouchType DEF SetCancelled, TypeOK
  <2>3. rows \in [Held -> Row] /\ j \in Held
    BY <1>1 DEF TypeOK, IsLive
  <2> DEFINE acked == [rows[j] EXCEPT !.status = "cancelled", !.cancelRequested = TRUE]
  <2>4. rows' = [k \in Held |-> IF k = j THEN acked ELSE rows[k]]
    BY <2>1, <2>3
  <2>5. acked \in Row
    BY <2>3 DEF Row, Terminal
  <2>6. /\ acked.status = "cancelled"
        /\ acked.cancelRequested
        /\ acked.cancellable = rows[j].cancellable
    BY <2>3 DEF Row
  <2> HIDE DEF acked, Held, Row
  <2>7. rows' \in [Held -> Row]
    BY <2>3, <2>4, <2>5
  <2> QED
    BY <1>1, <2>2, <2>3, <2>4, <2>6, <2>7
<1>2. CASE ~(IsLive(j) /\ rows[j].cancellable)
  BY <1>2 DEF SetCancelled, TypeOK, Held
<1> QED
  BY <1>1, <1>2

\* RequestCancel keeps the ids and the statuses.
LEMMA RequestCancelEffect ==
    ASSUME TypeOK, NEW j \in Jobs, RequestCancel(j)
    PROVE  /\ j \in Held
           /\ DOMAIN rows' = Held
           /\ rows' \in [Held -> Row]
           /\ older' \subseteq Jobs \X Jobs
           /\ \A k \in Held :
                /\ rows'[k].status = rows[k].status
                /\ rows'[k].cancellable = rows[k].cancellable
                /\ rows'[k].cancelRequested =
                     IF k = j THEN CancelFlag(j) ELSE rows[k].cancelRequested
<1>1. rows' = [rows EXCEPT ![j].cancelRequested = CancelFlag(j)] /\ j \in Held
  BY DEF RequestCancel
<1>2. older' \subseteq Jobs \X Jobs
  BY TouchType DEF RequestCancel, TypeOK
<1>3. rows \in [Held -> Row]
  BY DEF TypeOK
<1> DEFINE flagged == [rows[j] EXCEPT !.cancelRequested = CancelFlag(j)]
<1>4. rows' = [k \in Held |-> IF k = j THEN flagged ELSE rows[k]]
  BY <1>1, <1>3
<1>5. CancelFlag(j) \in BOOLEAN
  BY <1>1, <1>3 DEF CancelFlag, Row
<1>6. flagged \in Row
  BY <1>1, <1>3, <1>5 DEF Row
<1>7. /\ flagged.status = rows[j].status
      /\ flagged.cancelRequested = CancelFlag(j)
      /\ flagged.cancellable = rows[j].cancellable
  BY <1>1, <1>3 DEF Row
<1> HIDE DEF flagged, Held, Row
<1>8. rows' \in [Held -> Row]
  BY <1>3, <1>4, <1>6
<1> QED
  BY <1>1, <1>2, <1>4, <1>7, <1>8

\* SubmitJob adds a fresh row; it evicts at most one, and only from a full
\* registry.
LEMMA SubmitEffect ==
    ASSUME IInv, NEW j \in Jobs, SubmitJob(j)
    PROVE  /\ j \notin Held
           /\ \E victims \in SUBSET Held :
                /\ \/ victims = {} /\ Cardinality(Held) < Capacity
                   \/ \E v \in Held : victims = {v} /\ Cardinality(Held) >= Capacity
                /\ DOMAIN rows' = (Held \ victims) \cup {j}
                /\ rows' \in [(Held \ victims) \cup {j} -> Row]
                /\ rows'[j] = NewRow(j)
                /\ \A k \in Held \ victims : rows'[k] = rows[k]
<1>1. j \notin Held
  BY DEF SubmitJob, IInv, UnsubmittedHasNoRow
<1>2. PICK victims \in Victims :
        rows' = [k \in (Held \ victims) \cup {j} |-> IF k = j THEN NewRow(j) ELSE rows[k]]
  BY DEF SubmitJob
<1>3. victims \subseteq Held
  BY DEF Victims
<1>4. IsFiniteSet(Held)
  BY JobsAssumption, FS_Subset DEF IInv, TypeOK
<1>5. Cardinality(Held) \in Nat
  BY <1>4, FS_CardinalityType
<1>6. \/ victims = {} /\ Cardinality(Held) < Capacity
      \/ \E v \in Held : victims = {v} /\ Cardinality(Held) >= Capacity
  BY <1>5, CapacityAssumption DEF Victims
<1>7. NewRow(j) \in Row
  BY DEF NewRow, Row
<1>8. rows \in [Held -> Row]
  BY DEF IInv, TypeOK
<1> HIDE DEF Held, Row, NewRow, Victims
<1>9. /\ rows' \in [(Held \ victims) \cup {j} -> Row]
      /\ rows'[j] = NewRow(j)
      /\ \A k \in Held \ victims : rows'[k] = rows[k]
  BY <1>1, <1>2, <1>7, <1>8
<1>10. DOMAIN rows' = (Held \ victims) \cup {j}
  BY <1>2
<1> QED
  BY <1>1, <1>3, <1>6, <1>9, <1>10
-----------------------------------------------------------------------------
(* The inductive invariant.                                                *)

\* The program starts in it.
LEMMA InitInv == Init => IInv
<1> SUFFICES ASSUME Init PROVE IInv
  OBVIOUS
<1>1. Held = {}
  BY DEF Init, Held
<1>2. TypeOK
  BY <1>1 DEF Init, TypeOK, Stages
<1>3. WithinCapacity
  BY <1>1, FS_EmptySet, CapacityAssumption DEF WithinCapacity
<1>4. SuccessIsReal
  BY DEF Init, SuccessIsReal
<1> QED
  BY <1>1, <1>2, <1>3, <1>4 DEF IInv, UnsubmittedHasNoRow, CancellableIsFixed,
     OnlyCancellableIsFlagged, SeenFlagStays, NoAbandonedRow, NoFalseComplete

\* A producer's move touches its own stage only.
LEMMA GoesToEffect ==
    ASSUME TypeOK, NEW j \in Jobs, NEW from, NEW to \in Stages, GoesTo(j, from, to)
    PROVE  /\ producer[j] \in from
           /\ producer' \in [Jobs -> Stages]
           /\ producer'[j] = to
           /\ \A k \in Jobs : k # j => producer'[k] = producer[k]
BY DEF GoesTo, TypeOK

\* SubmitJob preserves the invariant: the row it adds is fresh, and the one it
\* evicts makes room for it.
LEMMA SubmitStep ==
    ASSUME IInv, NEW j \in Jobs, SubmitJob(j)
    PROVE  IInv'
<1> USE DEF IInv
<1>1. j \notin Held
  BY SubmitEffect
<1>2. PICK victims \in SUBSET Held :
        /\ \/ victims = {} /\ Cardinality(Held) < Capacity
           \/ \E v \in Held : victims = {v} /\ Cardinality(Held) >= Capacity
        /\ DOMAIN rows' = (Held \ victims) \cup {j}
        /\ rows' \in [(Held \ victims) \cup {j} -> Row]
        /\ rows'[j] = NewRow(j)
        /\ \A k \in Held \ victims : rows'[k] = rows[k]
  BY SubmitEffect
<1>3. Held' = (Held \ victims) \cup {j}
  BY <1>2 DEF Held
<1>4. /\ producer[j] = "minted"
      /\ producer' = [producer EXCEPT ![j] = "queued"]
      /\ older' = older /\ returned' = returned
  BY DEF SubmitJob
<1>5. producer' \in [Jobs -> Stages]
  BY <1>4 DEF TypeOK, Stages
<1>6. TypeOK'
  <2>1. rows' \in [Held' -> Row]
    BY <1>2, <1>3
  <2> QED
    BY <2>1, <1>3, <1>4, <1>5 DEF TypeOK
<1>7. WithinCapacity'
  <2>1. IsFiniteSet(Held) /\ Cardinality(Held) \in Nat
    BY JobsAssumption, FS_Subset, FS_CardinalityType DEF TypeOK
  <2>2. CASE victims = {} /\ Cardinality(Held) < Capacity
    <3>1. Cardinality(Held') = Cardinality(Held) + 1
      BY <1>1, <1>3, <2>1, <2>2, FS_AddElement
    <3> QED
      BY <3>1, <2>1, <2>2, CapacityAssumption DEF WithinCapacity
  <2>3. CASE \E v \in Held : victims = {v}
    <3>1. PICK v \in Held : victims = {v}
      BY <2>3
    <3>2. IsFiniteSet(Held \ {v}) /\ Cardinality(Held \ {v}) = Cardinality(Held) - 1
      BY <2>1, FS_RemoveElement
    <3>3. j \notin Held \ {v} /\ Held' = (Held \ {v}) \cup {j}
      BY <1>1, <1>3, <3>1
    <3>4. Cardinality(Held') = Cardinality(Held \ {v}) + 1
      BY <3>2, <3>3, FS_AddElement
    <3> QED
      BY <3>2, <3>4, <2>1 DEF WithinCapacity
  <2> QED
    BY <1>2, <2>2, <2>3
<1>8. \A k \in Held' : k = j \/ (k # j /\ k \in Held /\ rows'[k] = rows[k])
  BY <1>2, <1>3
<1>9. /\ rows'[j].status = "pending"
      /\ rows'[j].cancelRequested = FALSE
      /\ rows'[j].cancellable = (j \in Cancellable)
  <2>1. /\ NewRow(j).status = "pending"
        /\ NewRow(j).cancelRequested = FALSE
        /\ NewRow(j).cancellable = (j \in Cancellable)
    BY Zenon DEF NewRow
  <2>2. rows'[j] = NewRow(j)
    BY <1>2
  <2> QED
    BY <2>1, <2>2, Zenon
<1>10. /\ \A k \in Jobs : k # j => producer'[k] = producer[k]
       /\ producer'[j] = "queued"
  BY <1>4 DEF TypeOK
<1>11. UnsubmittedHasNoRow'
  BY <1>8, <1>10 DEF UnsubmittedHasNoRow
<1>12. CancellableIsFixed' /\ OnlyCancellableIsFlagged'
  BY <1>8, <1>9 DEF CancellableIsFixed, OnlyCancellableIsFlagged
<1>13. Held \subseteq Jobs
  BY DEF TypeOK
<1>14. SeenFlagStays' /\ NoAbandonedRow'
  BY <1>8, <1>10, <1>13 DEF SeenFlagStays, NoAbandonedRow
<1>15. SuccessIsReal'
  BY <1>4, <1>10 DEF SuccessIsReal
<1>16. NoFalseComplete'
  BY <1>4, <1>8, <1>9 DEF NoFalseComplete
<1> QED
  BY <1>6, <1>7, <1>11, <1>12, <1>14, <1>15, <1>16

\* A move that leaves the rows alone preserves the invariant when the stage it
\* reaches is one the invariant allows.
LEMMA MoveStep ==
    ASSUME IInv, NEW j \in Jobs, NEW from, NEW to \in Stages, GoesTo(j, from, to),
           rows' = rows, older' \subseteq Jobs \X Jobs,
           returned' \subseteq Jobs, returned \subseteq returned',
           to \notin {"idle", "refused", "ended"},
           to = "minted" => producer[j] = "idle",
           to = "cancelling" => CancelSeen(j),
           to \in {"successful", "completing"} => j \in returned'
    PROVE  IInv'
<1> USE DEF IInv
<1>1. /\ producer[j] \in from
      /\ producer' \in [Jobs -> Stages]
      /\ producer'[j] = to
      /\ \A k \in Jobs : k # j => producer'[k] = producer[k]
  BY GoesToEffect
<1>2. Held' = Held
  BY DEF Held
<1>3. TypeOK'
  BY <1>1, <1>2 DEF TypeOK
<1>4. Held \subseteq Jobs
  BY DEF TypeOK
<1>5. WithinCapacity' /\ CancellableIsFixed' /\ OnlyCancellableIsFlagged'
  BY <1>2 DEF WithinCapacity, CancellableIsFixed, OnlyCancellableIsFlagged
<1>6. UnsubmittedHasNoRow'
  BY <1>1, <1>2 DEF UnsubmittedHasNoRow
<1>7. SeenFlagStays'
  BY <1>1, <1>2, <1>4 DEF SeenFlagStays, CancelSeen
<1>8. SuccessIsReal'
  BY <1>1 DEF SuccessIsReal
<1>9. NoAbandonedRow' /\ NoFalseComplete'
  BY <1>1, <1>2, <1>4 DEF NoAbandonedRow, NoFalseComplete
<1> QED
  BY <1>3, <1>5, <1>6, <1>7, <1>8, <1>9

\* A status call from a producer that goes on to "working" or "ended"
\* preserves the invariant.
LEMMA StatusStep ==
    ASSUME IInv, NEW j \in Jobs, NEW from, NEW to \in {"working", "refused", "ended"},
           NEW s \in {"running", "completed", "failed"},
           GoesTo(j, from, to), SetStatus(j, s), returned' = returned,
           to \in {"refused", "ended"} => s \in Terminal,
           s = "completed" => j \in returned
    PROVE  IInv'
<1> USE DEF IInv
<1>1. to \in Stages
  BY DEF Stages
<1>2. /\ producer' \in [Jobs -> Stages]
      /\ producer'[j] = to
      /\ \A k \in Jobs : k # j => producer'[k] = producer[k]
  BY <1>1, GoesToEffect
<1>3. s \in {"running"} \cup Terminal
  BY DEF Terminal
<1>4. /\ DOMAIN rows' = Held
      /\ rows' \in [Held -> Row]
      /\ older' \subseteq Jobs \X Jobs
      /\ \A k \in Held :
           /\ rows'[k].cancelRequested = rows[k].cancelRequested
           /\ rows'[k].cancellable = rows[k].cancellable
           /\ rows'[k].status = IF k = j /\ IsLive(j) THEN s ELSE rows[k].status
  BY <1>3, SetStatusEffect
<1>5. Held' = Held
  BY <1>4 DEF Held
<1>6. TypeOK'
  BY <1>2, <1>4, <1>5 DEF TypeOK
<1>7. Held \subseteq Jobs
  BY DEF TypeOK
<1>8. WithinCapacity' /\ CancellableIsFixed' /\ OnlyCancellableIsFlagged'
  BY <1>4, <1>5 DEF WithinCapacity, CancellableIsFixed, OnlyCancellableIsFlagged
<1>9. UnsubmittedHasNoRow'
  BY <1>2, <1>5 DEF UnsubmittedHasNoRow
<1>10. SeenFlagStays'
  BY <1>2, <1>4, <1>5, <1>7 DEF SeenFlagStays
<1>11. SuccessIsReal'
  BY <1>2 DEF SuccessIsReal
<1>12. NoAbandonedRow'
  BY <1>2, <1>4, <1>5, <1>7 DEF NoAbandonedRow, IsLive
<1>13. NoFalseComplete'
  BY <1>4, <1>5 DEF NoFalseComplete
<1> QED
  BY <1>6, <1>8, <1>9, <1>10, <1>11, <1>12, <1>13

\* Acknowledging a cancellation preserves the invariant: the flag the producer
\* saw is still set, so the row can be cancelled and becomes terminal.
LEMMA AcknowledgeStep ==
    ASSUME IInv, NEW j \in Jobs, NEW to \in {"refused", "ended"},
           GoesTo(j, {"cancelling"}, to), SetCancelled(j), returned' = returned
    PROVE  IInv'
<1> USE DEF IInv
<1>1. to \in Stages
  BY DEF Stages
<1>2. /\ producer[j] = "cancelling"
      /\ producer' \in [Jobs -> Stages]
      /\ producer'[j] = to
      /\ \A k \in Jobs : k # j => producer'[k] = producer[k]
  BY <1>1, GoesToEffect
<1>3. /\ DOMAIN rows' = Held
      /\ rows' \in [Held -> Row]
      /\ older' \subseteq Jobs \X Jobs
      /\ \A k \in Held :
           /\ rows'[k].cancellable = rows[k].cancellable
           /\ IF k = j /\ IsLive(j) /\ rows[j].cancellable
              THEN rows'[k].status = "cancelled" /\ rows'[k].cancelRequested
              ELSE rows'[k] = rows[k]
  BY SetCancelledEffect
<1>4. Held' = Held
  BY <1>3 DEF Held
<1>5. TypeOK'
  BY <1>2, <1>3, <1>4 DEF TypeOK
<1>6. Held \subseteq Jobs
  BY DEF TypeOK
<1>7. j \in Held => j \in Cancellable /\ rows[j].cancellable
  BY <1>2 DEF SeenFlagStays, OnlyCancellableIsFlagged, CancellableIsFixed
<1>8. WithinCapacity' /\ CancellableIsFixed'
  BY <1>3, <1>4 DEF WithinCapacity, CancellableIsFixed
<1>9. OnlyCancellableIsFlagged'
  BY <1>3, <1>4, <1>7 DEF OnlyCancellableIsFlagged
<1>10. UnsubmittedHasNoRow'
  BY <1>2, <1>4 DEF UnsubmittedHasNoRow
<1>11. SeenFlagStays'
  BY <1>2, <1>3, <1>4, <1>6 DEF SeenFlagStays
<1>12. SuccessIsReal'
  BY <1>2 DEF SuccessIsReal
<1>13. NoAbandonedRow'
  BY <1>2, <1>3, <1>4, <1>6, <1>7 DEF NoAbandonedRow, IsLive, Terminal
<1>14. NoFalseComplete'
  BY <1>3, <1>4 DEF NoFalseComplete
<1> QED
  BY <1>5, <1>8, <1>9, <1>10, <1>11, <1>12, <1>13, <1>14

\* A caller's cancellation request preserves the invariant.
LEMMA RequestCancelStep ==
    ASSUME IInv, NEW j \in Jobs, RequestCancel(j)
    PROVE  IInv'
<1> USE DEF IInv
<1>1. /\ j \in Held
      /\ DOMAIN rows' = Held
      /\ rows' \in [Held -> Row]
      /\ older' \subseteq Jobs \X Jobs
      /\ \A k \in Held :
           /\ rows'[k].status = rows[k].status
           /\ rows'[k].cancellable = rows[k].cancellable
           /\ rows'[k].cancelRequested =
                IF k = j THEN CancelFlag(j) ELSE rows[k].cancelRequested
  BY RequestCancelEffect
<1>2. producer' = producer /\ returned' = returned
  BY DEF RequestCancel
<1>3. Held' = Held
  BY <1>1 DEF Held
<1>4. TypeOK'
  BY <1>1, <1>2, <1>3 DEF TypeOK
<1>5. WithinCapacity' /\ CancellableIsFixed'
  BY <1>1, <1>3 DEF WithinCapacity, CancellableIsFixed
<1>6. OnlyCancellableIsFlagged'
  BY <1>1, <1>3 DEF OnlyCancellableIsFlagged, CancelFlag, CancellableIsFixed
<1>7. SeenFlagStays'
  BY <1>1, <1>2, <1>3 DEF SeenFlagStays, CancelFlag
<1>8. UnsubmittedHasNoRow' /\ SuccessIsReal'
  BY <1>2, <1>3 DEF UnsubmittedHasNoRow, SuccessIsReal
<1>9. NoAbandonedRow' /\ NoFalseComplete'
  BY <1>1, <1>2, <1>3 DEF NoAbandonedRow, NoFalseComplete
<1> QED
  BY <1>4, <1>5, <1>6, <1>7, <1>8, <1>9

\* Every step preserves the invariant.
LEMMA NextInv == IInv /\ [Next]_vars => IInv'
<1> SUFFICES ASSUME IInv, [Next]_vars PROVE IInv'
  OBVIOUS
<1>1. TypeOK
  BY DEF IInv
<1>2. ASSUME NEW j \in Jobs, MintJobId(j) PROVE IInv'
  <2>1. GoesTo(j, {"idle"}, "minted")
    BY <1>2 DEF MintJobId, GoesTo
  <2>2. /\ rows' = rows /\ returned' = returned
        /\ producer[j] = "idle"
        /\ older' = Touch(j)
    BY <1>2 DEF MintJobId
  <2>3. older' \subseteq Jobs \X Jobs /\ returned \subseteq Jobs
    BY <1>1, <2>2, TouchType DEF TypeOK
  <2>4. "minted" \in Stages
    BY DEF Stages
  <2> QED
    BY <2>1, <2>2, <2>3, <2>4, MoveStep
<1>3. ASSUME NEW j \in Jobs, SubmitJob(j) PROVE IInv'
  BY <1>3, SubmitStep
<1>4. ASSUME NEW j \in Jobs, FailOutright(j) PROVE IInv'
  BY <1>4, StatusStep DEF FailOutright, Terminal
<1>5. ASSUME NEW j \in Jobs, ReportProgress(j) PROVE IInv'
  BY <1>5, StatusStep DEF ReportProgress
<1>6. ASSUME NEW j \in Jobs, AbandonWork(j) PROVE IInv'
  <2>1. /\ GoesTo(j, {"working"}, "unsuccessful")
        /\ rows' = rows /\ older' = older /\ returned' = returned
    BY <1>6 DEF AbandonWork
  <2>2. "unsuccessful" \in Stages
    BY DEF Stages
  <2> QED
    BY <1>1, <2>1, <2>2, MoveStep DEF TypeOK
<1>7. ASSUME NEW j \in Jobs, WorkReturns(j) PROVE IInv'
  <2>1. PICK success \in BOOLEAN :
          /\ GoesTo(j, {"working"}, IF success THEN "successful" ELSE "unsuccessful")
          /\ returned' = IF success THEN returned \cup {j} ELSE returned
    BY <1>7 DEF WorkReturns
  <2>2. rows' = rows /\ older' = older
    BY <1>7 DEF WorkReturns
  <2>3. "successful" \in Stages /\ "unsuccessful" \in Stages
    BY DEF Stages
  <2>4. older' \subseteq Jobs \X Jobs /\ returned \subseteq Jobs
    BY <1>1, <2>2 DEF TypeOK
  <2>5. CASE success
    <3>1. GoesTo(j, {"working"}, "successful") /\ returned' = returned \cup {j}
      BY <2>1, <2>5
    <3> QED
      BY <2>2, <2>3, <2>4, <3>1, MoveStep
  <2>6. CASE ~success
    <3>1. GoesTo(j, {"working"}, "unsuccessful") /\ returned' = returned
      BY <2>1, <2>6
    <3> QED
      BY <2>2, <2>3, <2>4, <3>1, MoveStep
  <2> QED
    BY <2>5, <2>6
<1>8. ASSUME NEW j \in Jobs, ChooseOutcome(j) PROVE IInv'
  <2>1. rows' = rows /\ older' = older /\ returned' = returned
    BY <1>8 DEF ChooseOutcome
  <2>2. older' \subseteq Jobs \X Jobs /\ returned \subseteq Jobs
    BY <1>1, <2>1 DEF TypeOK
  <2>3. {"cancelling", "completing", "failing"} \subseteq Stages
    BY DEF Stages
  <2>4. CASE CancelSeen(j) /\ GoesTo(j, {"successful", "unsuccessful"}, "cancelling")
    BY <2>1, <2>2, <2>3, <2>4, MoveStep
  <2>5. CASE GoesTo(j, {"successful"}, "completing")
    <3>1. j \in returned'
      BY <2>1, <2>5 DEF GoesTo, IInv, SuccessIsReal
    <3> QED
      BY <2>1, <2>2, <2>3, <2>5, <3>1, MoveStep
  <2>6. CASE GoesTo(j, {"unsuccessful"}, "failing")
    BY <2>1, <2>2, <2>3, <2>6, MoveStep
  <2> QED
    BY <1>8, <2>4, <2>5, <2>6 DEF ChooseOutcome
<1>9. ASSUME NEW j \in Jobs, SettleJob(j) PROVE IInv'
  <2>1. returned' = returned
    BY <1>9 DEF SettleJob
  <2>2. CASE \E to \in {"refused", "ended"} :
               GoesTo(j, {"cancelling"}, to) /\ SetCancelled(j)
    BY <2>1, <2>2, AcknowledgeStep
  <2>3. CASE GoesTo(j, {"completing"}, "ended") /\ SetStatus(j, "completed")
    <3>1. j \in returned
      BY <2>3 DEF GoesTo, IInv, SuccessIsReal
    <3> QED
      BY <2>1, <2>3, <3>1, StatusStep DEF Terminal
  <2>4. CASE \E to \in {"refused", "ended"} :
               GoesTo(j, {"failing"}, to) /\ SetStatus(j, "failed")
    BY <2>1, <2>4, StatusStep DEF Terminal
  <2> QED
    BY <1>9, <2>2, <2>3, <2>4 DEF SettleJob
<1>10. ASSUME NEW j \in Jobs, RequestCancel(j) PROVE IInv'
  BY <1>10, RequestCancelStep
<1>11. ASSUME NEW j \in Jobs, FailNotStarted(j) PROVE IInv'
  BY <1>11, StatusStep DEF FailNotStarted, Terminal
<1>12. CASE UNCHANGED vars
  <2>1. rows' = rows /\ older' = older /\ producer' = producer /\ returned' = returned
    BY <1>12 DEF vars
  <2>2. Held' = Held
    BY <2>1 DEF Held
  <2> QED
    BY <2>1, <2>2 DEF IInv, TypeOK, WithinCapacity, UnsubmittedHasNoRow,
       CancellableIsFixed, OnlyCancellableIsFlagged, SeenFlagStays, SuccessIsReal,
       NoAbandonedRow, NoFalseComplete
<1>13. CASE Next
  BY <1>2, <1>3, <1>4, <1>5, <1>6, <1>7, <1>8, <1>9, <1>10, <1>13, <1>11
     DEF Next, ProducerStep
<1> QED
  BY <1>12, <1>13

\* The inductive invariant holds throughout.
THEOREM Invariance == Spec => []IInv
<1> QED
  BY InitInv, NextInv, PTL DEF Spec

\* Every variable stays in its domain.
THEOREM TypeCorrect == Spec => []TypeOK
<1>1. IInv => TypeOK
  BY DEF IInv
<1> QED
  BY <1>1, Invariance, PTL

\* The registry never holds more than its capacity.
THEOREM CapacityTheorem == Spec => []WithinCapacity
<1>1. IInv => WithinCapacity
  BY DEF IInv
<1> QED
  BY <1>1, Invariance, PTL

\* A producer that has ended leaves no row that polls as unfinished, whatever
\* cancellation requests raced with it.
THEOREM NoAbandonedRowTheorem == Spec => []NoAbandonedRow
<1>1. IInv => NoAbandonedRow
  BY DEF IInv
<1> QED
  BY <1>1, Invariance, PTL

\* A job polls as completed only after its work has returned successfully.
THEOREM NoFalseCompleteTheorem == Spec => []NoFalseComplete
<1>1. IInv => NoFalseComplete
  BY DEF IInv
<1> QED
  BY <1>1, Invariance, PTL
-----------------------------------------------------------------------------
(* The implementation of JobLifecycle.                                     *)

\* A step that keeps the ids, the statuses and the flags is invisible to a
\* caller, as long as it does not submit.
LEMMA InvisibleStep ==
    ASSUME Held' = Held,
           \A k \in Held : /\ rows'[k].status = rows[k].status
                           /\ rows'[k].cancelRequested = rows[k].cancelRequested,
           \A k \in Jobs : (producer'[k] \in {"idle", "minted"})
                             <=> (producer[k] \in {"idle", "minted"})
    PROVE  Phase' = Phase /\ Asked' = Asked
<1>1. \A k \in Jobs :
        (IF k \in Held' THEN rows'[k].status
         ELSE IF producer'[k] \in {"idle", "minted"} THEN "absent" ELSE "forgotten")
        = (IF k \in Held THEN rows[k].status
           ELSE IF producer[k] \in {"idle", "minted"} THEN "absent" ELSE "forgotten")
  OBVIOUS
<1>2. Phase' = Phase
  BY <1>1 DEF Phase
<1>3. Asked' = Asked
  BY DEF Asked
<1> QED
  BY <1>2, <1>3

\* What a caller sees of an id is its row's status.
LEMMA PhaseOfHeld ==
    ASSUME TypeOK, NEW j \in Held
    PROVE  Phase[j] = rows[j].status /\ j \in Jobs
BY DEF Phase, TypeOK

\* The ids a caller can still see are the ids held.
LEMMA RememberedIsHeld ==
    ASSUME TypeOK
    PROVE  Lifecycle!Remembered = Held
<1>1. Held \subseteq Jobs
  BY DEF TypeOK
<1>2. \A k \in Held : rows[k].status \in {"pending", "running"} \cup Terminal
  BY DEF TypeOK, Row
<1> QED
  BY <1>1, <1>2 DEF Lifecycle!Remembered, Lifecycle!Live, Lifecycle!Final, Phase,
     Terminal

\* A status call moves a live job to its new status and is otherwise invisible.
LEMMA StatusRefines ==
    ASSUME TypeOK, NEW j \in Jobs, NEW s \in {"running"} \cup Terminal, SetStatus(j, s),
           \A k \in Jobs : (producer'[k] \in {"idle", "minted"})
                             <=> (producer[k] \in {"idle", "minted"})
    PROVE  \/ UNCHANGED <<Phase, Asked>>
           \/ /\ Phase[j] \in Lifecycle!Live
              /\ Phase' = [Phase EXCEPT ![j] = s]
              /\ Asked' = Asked
<1>1. /\ DOMAIN rows' = Held
      /\ \A k \in Held :
           /\ rows'[k].cancelRequested = rows[k].cancelRequested
           /\ rows'[k].status = IF k = j /\ IsLive(j) THEN s ELSE rows[k].status
  BY SetStatusEffect
<1>2. Held' = Held
  BY <1>1 DEF Held
<1>3. CASE ~IsLive(j)
  <2>1. \A k \in Held : /\ rows'[k].status = rows[k].status
                        /\ rows'[k].cancelRequested = rows[k].cancelRequested
    BY <1>1, <1>3
  <2> QED
    BY <1>2, <2>1, InvisibleStep
<1>4. CASE IsLive(j)
  <2>1. j \in Held /\ rows[j].status \notin Terminal /\ Phase[j] = rows[j].status
    BY <1>4, PhaseOfHeld DEF IsLive
  <2>2. rows[j].status \in {"pending", "running"}
    BY <2>1 DEF TypeOK, Row
  <2>3. Asked' = Asked
    BY <1>1, <1>2 DEF Asked
  <2>4. Phase' = [Phase EXCEPT ![j] = s]
    <3>1. Phase' = [k \in Jobs |-> IF k = j THEN s ELSE Phase[k]]
      BY <1>1, <1>2, <1>4, <2>1 DEF Phase
    <3>2. Phase = [k \in Jobs |-> Phase[k]]
      BY DEF Phase
    <3> HIDE DEF Phase
    <3> QED
      BY <3>1, <3>2
  <2> QED
    BY <2>1, <2>2, <2>3, <2>4 DEF Lifecycle!Live
<1> QED
  BY <1>3, <1>4

\* The instance counts as this module does.
LEMMA SameCardinality ==
    ASSUME NEW S
    PROVE  Lifecycle!Cardinality(S) = Cardinality(S)
BY DEF Lifecycle!Cardinality, Cardinality, Lifecycle!IsFiniteSet, IsFiniteSet

\* SubmitJob is a submission, and a forgetting one in a full registry.
LEMMA SubmitRefines ==
    ASSUME IInv, NEW j \in Jobs, SubmitJob(j)
    PROVE  Lifecycle!LifeNext
<1> USE DEF IInv
<1>1. j \notin Held
  BY SubmitEffect
<1>2. PICK victims \in SUBSET Held :
        /\ \/ victims = {} /\ Cardinality(Held) < Capacity
           \/ \E v \in Held : victims = {v} /\ Cardinality(Held) >= Capacity
        /\ DOMAIN rows' = (Held \ victims) \cup {j}
        /\ rows'[j] = NewRow(j)
        /\ \A k \in Held \ victims : rows'[k] = rows[k]
  BY SubmitEffect
<1>3. Held' = (Held \ victims) \cup {j}
  BY <1>2 DEF Held
<1>4. /\ producer[j] = "minted" /\ producer'[j] = "queued"
      /\ \A k \in Jobs : k # j => producer'[k] = producer[k]
  BY DEF SubmitJob, TypeOK
<1>5. Phase[j] = "absent"
  BY <1>1, <1>4 DEF Phase
<1>6. rows'[j].status = "pending" /\ rows'[j].cancelRequested = FALSE
  <2>1. NewRow(j).status = "pending" /\ NewRow(j).cancelRequested = FALSE
    BY Zenon DEF NewRow
  <2>2. rows'[j] = NewRow(j)
    BY <1>2
  <2> QED
    BY <2>1, <2>2, Zenon
<1>7. \A k \in Held : producer[k] \notin {"idle", "minted"} /\ k \in Jobs
  BY DEF UnsubmittedHasNoRow, TypeOK
<1>8. Phase' = [k \in Jobs |-> IF k = j THEN "pending"
                               ELSE IF k \in victims THEN "forgotten" ELSE Phase[k]]
  BY <1>1, <1>2, <1>3, <1>4, <1>6, <1>7 DEF Phase
<1>9. Asked' = Asked \ victims
  BY <1>1, <1>2, <1>3, <1>6 DEF Asked
<1>10. Phase = [k \in Jobs |-> Phase[k]]
  BY DEF Phase
<1>11. Lifecycle!Remembered = Held
  BY RememberedIsHeld
<1>12. CASE victims = {} /\ Cardinality(Held) < Capacity
  <2>1. Phase' = [k \in Jobs |-> IF k = j THEN "pending" ELSE Phase[k]]
    BY <1>8, <1>12
  <2>2. Phase' = [Phase EXCEPT ![j] = "pending"]
    BY <1>10, <2>1
  <2>3. Asked' = Asked
    BY <1>9, <1>12
  <2>4. Cardinality(Lifecycle!Remembered) < Capacity
    BY <1>11, <1>12
  <2>5. Lifecycle!Submit(j)
    BY <1>5, <2>2, <2>3, <2>4, SameCardinality DEF Lifecycle!Submit
  <2> QED
    BY <2>5 DEF Lifecycle!LifeNext
<1>13. CASE \E v \in Held : victims = {v} /\ Cardinality(Held) >= Capacity
  <2>1. PICK v \in Held : victims = {v} /\ Cardinality(Held) >= Capacity
    BY <1>13
  <2>2. v \in Jobs /\ v # j
    BY <1>1, <1>7
  <2>3. Phase' = [k \in Jobs |-> IF k = j THEN "pending"
                                 ELSE IF k = v THEN "forgotten" ELSE Phase[k]]
    BY <1>8, <2>1
  <2>4. Phase' = [Phase EXCEPT ![j] = "pending", ![v] = "forgotten"]
    BY <1>10, <2>2, <2>3
  <2>5. Asked' = Asked \ {v}
    BY <1>9, <2>1
  <2>6. Cardinality(Lifecycle!Remembered) >= Capacity /\ v \in Lifecycle!Remembered
    BY <1>11, <2>1
  <2>7. Lifecycle!SubmitForgetting(j, v)
    BY <1>5, <2>4, <2>5, <2>6, SameCardinality DEF Lifecycle!SubmitForgetting
  <2> QED
    BY <2>2, <2>7 DEF Lifecycle!LifeNext
<1> QED
  BY <1>2, <1>12, <1>13

\* RequestCancel asks for the cancellation of a cancellable job, and is
\* invisible for any other.
LEMMA RequestRefines ==
    ASSUME IInv, NEW j \in Jobs, RequestCancel(j)
    PROVE  Lifecycle!LifeNext \/ UNCHANGED <<Phase, Asked>>
<1> USE DEF IInv
<1>1. /\ j \in Held
      /\ DOMAIN rows' = Held
      /\ \A k \in Held :
           /\ rows'[k].status = rows[k].status
           /\ rows'[k].cancelRequested =
                IF k = j THEN CancelFlag(j) ELSE rows[k].cancelRequested
  BY RequestCancelEffect
<1>2. Held' = Held
  BY <1>1 DEF Held
<1>3. producer' = producer
  BY DEF RequestCancel
<1>4. Phase' = Phase
  BY <1>1, <1>2, <1>3 DEF Phase
<1>5. CASE j \in Cancellable
  <2>1. CancelFlag(j)
    BY <1>1, <1>5 DEF CancelFlag, CancellableIsFixed
  <2>2. Asked' = Asked \cup {j}
    BY <1>1, <1>2, <2>1 DEF Asked
  <2>3. j \in Lifecycle!Remembered
    BY <1>1, RememberedIsHeld
  <2>4. Lifecycle!Ask(j)
    BY <1>4, <1>5, <2>2, <2>3 DEF Lifecycle!Ask
  <2> QED
    BY <2>4 DEF Lifecycle!LifeNext
<1>6. CASE j \notin Cancellable
  <2>1. ~CancelFlag(j) /\ ~rows[j].cancelRequested
    BY <1>1, <1>6 DEF CancelFlag, CancellableIsFixed, OnlyCancellableIsFlagged
  <2>2. Asked' = Asked
    BY <1>1, <1>2, <2>1 DEF Asked
  <2> QED
    BY <1>4, <2>2
<1> QED
  BY <1>5, <1>6

\* CancelJob is an acknowledgement: the producer saw the flag, and it stays.
LEMMA AcknowledgeRefines ==
    ASSUME IInv, NEW j \in Jobs, NEW to \in {"refused", "ended"},
           GoesTo(j, {"cancelling"}, to), SetCancelled(j)
    PROVE  Lifecycle!LifeNext \/ UNCHANGED <<Phase, Asked>>
<1> USE DEF IInv
<1>1. /\ DOMAIN rows' = Held
      /\ \A k \in Held :
           IF k = j /\ IsLive(j) /\ rows[j].cancellable
           THEN rows'[k].status = "cancelled" /\ rows'[k].cancelRequested
           ELSE rows'[k] = rows[k]
  BY SetCancelledEffect
<1>2. Held' = Held
  BY <1>1 DEF Held
<1>3. \A k \in Jobs : (producer'[k] \in {"idle", "minted"})
                        <=> (producer[k] \in {"idle", "minted"})
  BY DEF GoesTo, TypeOK
<1>4. CASE ~(IsLive(j) /\ rows[j].cancellable)
  BY <1>1, <1>2, <1>3, <1>4, InvisibleStep
<1>5. CASE IsLive(j) /\ rows[j].cancellable
  <2>1. j \in Held /\ rows[j].status \notin Terminal /\ Phase[j] = rows[j].status
    BY <1>5, PhaseOfHeld DEF IsLive
  <2>2. Phase[j] \in Lifecycle!Live
    BY <2>1 DEF Lifecycle!Live, TypeOK, Row
  <2>3. rows[j].cancelRequested
    BY <2>1 DEF GoesTo, SeenFlagStays
  <2>4. Asked' = Asked /\ j \in Asked
    BY <1>1, <1>2, <1>5, <2>1, <2>3 DEF Asked
  <2>5. Phase' = [k \in Jobs |-> IF k = j THEN "cancelled" ELSE Phase[k]]
    BY <1>1, <1>2, <1>3, <1>5, <2>1 DEF Phase
  <2>6. Phase = [k \in Jobs |-> Phase[k]]
    BY DEF Phase
  <2>7. Phase' = [Phase EXCEPT ![j] = "cancelled"]
    BY <2>5, <2>6
  <2>8. Lifecycle!Acknowledge(j)
    BY <2>2, <2>4, <2>7 DEF Lifecycle!Acknowledge
  <2> QED
    BY <2>8 DEF Lifecycle!LifeNext
<1> QED
  BY <1>4, <1>5

\* Every step is a step of the lifecycle, or one a caller cannot see.
LEMMA StepRefines ==
    IInv /\ [Next]_vars => [Lifecycle!LifeNext]_<<Phase, Asked>>
<1> SUFFICES ASSUME IInv, [Next]_vars
             PROVE  Lifecycle!LifeNext \/ UNCHANGED <<Phase, Asked>>
  OBVIOUS
<1>1. TypeOK
  BY DEF IInv
<1>2. ASSUME NEW j \in Jobs, NEW from, NEW to \in Stages, GoesTo(j, from, to),
             \A t \in from \cup {to} : t \notin {"idle", "minted"}
      PROVE  \A k \in Jobs : (producer'[k] \in {"idle", "minted"})
                               <=> (producer[k] \in {"idle", "minted"})
  BY <1>1, <1>2, GoesToEffect
<1>3. ASSUME NEW j \in Jobs, NEW from, NEW to \in Stages, GoesTo(j, from, to),
             \A t \in from \cup {to} : t \notin {"idle", "minted"},
             NEW s \in {"running", "completed", "failed"}, SetStatus(j, s)
      PROVE  Lifecycle!LifeNext \/ UNCHANGED <<Phase, Asked>>
  <2>1. s \in {"running"} \cup Terminal
    BY DEF Terminal
  <2>2. \A k \in Jobs : (producer'[k] \in {"idle", "minted"})
                          <=> (producer[k] \in {"idle", "minted"})
    BY <1>2, <1>3
  <2>3. CASE UNCHANGED <<Phase, Asked>>
    BY <2>3
  <2>4. CASE /\ Phase[j] \in Lifecycle!Live
             /\ Phase' = [Phase EXCEPT ![j] = s]
             /\ Asked' = Asked
    <3>1. CASE s = "running"
      <4>1. Lifecycle!Report(j)
        BY <2>4, <3>1 DEF Lifecycle!Report
      <4> QED
        BY <4>1 DEF Lifecycle!LifeNext
    <3>2. CASE s \in {"completed", "failed"}
      <4>1. Lifecycle!Settle(j)
        BY <2>4, <3>2 DEF Lifecycle!Settle
      <4> QED
        BY <4>1 DEF Lifecycle!LifeNext
    <3> QED
      BY <3>1, <3>2
  <2> QED
    BY <1>1, <1>3, <2>1, <2>2, <2>3, <2>4, StatusRefines
<1>4. ASSUME NEW j \in Jobs, NEW from, NEW to \in Stages, GoesTo(j, from, to),
             \A t \in from \cup {to} : t \notin {"idle", "minted"}, rows' = rows
      PROVE  UNCHANGED <<Phase, Asked>>
  BY <1>2, <1>4, InvisibleStep DEF Held
<1>5. {"working", "successful", "unsuccessful", "cancelling", "completing",
       "failing", "refused", "ended"} \subseteq Stages
  BY DEF Stages
<1>6. ASSUME NEW j \in Jobs, MintJobId(j)
      PROVE  UNCHANGED <<Phase, Asked>>
  <2>1. rows' = rows /\ Held' = Held
    BY <1>6 DEF MintJobId, Held
  <2>2. \A k \in Jobs : (producer'[k] \in {"idle", "minted"})
                          <=> (producer[k] \in {"idle", "minted"})
    BY <1>1, <1>6 DEF MintJobId, TypeOK
  <2> QED
    BY <2>1, <2>2, InvisibleStep
<1>7. ASSUME NEW j \in Jobs, SubmitJob(j) PROVE Lifecycle!LifeNext
  BY <1>7, SubmitRefines
<1>8. ASSUME NEW j \in Jobs, FailOutright(j)
      PROVE  Lifecycle!LifeNext \/ UNCHANGED <<Phase, Asked>>
  BY <1>3, <1>5, <1>8 DEF FailOutright
<1>9. ASSUME NEW j \in Jobs, ReportProgress(j)
      PROVE  Lifecycle!LifeNext \/ UNCHANGED <<Phase, Asked>>
  BY <1>3, <1>5, <1>9 DEF ReportProgress
<1>10. ASSUME NEW j \in Jobs, AbandonWork(j)
       PROVE  UNCHANGED <<Phase, Asked>>
  <2>1. GoesTo(j, {"working"}, "unsuccessful") /\ rows' = rows
    BY <1>10 DEF AbandonWork
  <2> QED
    BY <1>4, <1>5, <2>1
<1>11. ASSUME NEW j \in Jobs, WorkReturns(j)
       PROVE  UNCHANGED <<Phase, Asked>>
  <2>1. rows' = rows
    BY <1>11 DEF WorkReturns
  <2>2. \/ GoesTo(j, {"working"}, "successful")
        \/ GoesTo(j, {"working"}, "unsuccessful")
    BY <1>11 DEF WorkReturns
  <2> QED
    BY <1>4, <1>5, <2>1, <2>2
<1>12. ASSUME NEW j \in Jobs, ChooseOutcome(j)
       PROVE  UNCHANGED <<Phase, Asked>>
  <2>1. rows' = rows
    BY <1>12 DEF ChooseOutcome
  <2>2. \/ GoesTo(j, {"successful", "unsuccessful"}, "cancelling")
        \/ GoesTo(j, {"successful"}, "completing")
        \/ GoesTo(j, {"unsuccessful"}, "failing")
    BY <1>12 DEF ChooseOutcome
  <2> QED
    BY <1>4, <1>5, <2>1, <2>2
<1>13. ASSUME NEW j \in Jobs, SettleJob(j)
       PROVE  Lifecycle!LifeNext \/ UNCHANGED <<Phase, Asked>>
  <2>1. CASE \E to \in {"refused", "ended"} :
               GoesTo(j, {"cancelling"}, to) /\ SetCancelled(j)
    BY <2>1, AcknowledgeRefines
  <2>2. CASE GoesTo(j, {"completing"}, "ended") /\ SetStatus(j, "completed")
    BY <1>3, <1>5, <2>2
  <2>3. CASE \E to \in {"refused", "ended"} :
               GoesTo(j, {"failing"}, to) /\ SetStatus(j, "failed")
    BY <1>3, <1>5, <2>3
  <2> QED
    BY <1>13, <2>1, <2>2, <2>3 DEF SettleJob
<1>14. ASSUME NEW j \in Jobs, RequestCancel(j)
       PROVE  Lifecycle!LifeNext \/ UNCHANGED <<Phase, Asked>>
  BY <1>14, RequestRefines
<1>15. ASSUME NEW j \in Jobs, FailNotStarted(j)
       PROVE  Lifecycle!LifeNext \/ UNCHANGED <<Phase, Asked>>
  BY <1>3, <1>5, <1>15 DEF FailNotStarted
<1>16. CASE UNCHANGED vars
  BY <1>16, InvisibleStep DEF vars, Held
<1>17. CASE Next
  BY <1>6, <1>7, <1>8, <1>9, <1>10, <1>11, <1>12, <1>13, <1>14, <1>17,
     <1>15 DEF Next, ProducerStep
<1> QED
  BY <1>16, <1>17

\* The initial state of the registry is that of the lifecycle.
LEMMA InitRefines == Init => Lifecycle!LifeInit
<1> SUFFICES ASSUME Init PROVE Lifecycle!LifeInit
  OBVIOUS
<1>1. Held = {}
  BY DEF Init, Held
<1>2. Phase = [j \in Jobs |-> "absent"]
  BY <1>1 DEF Init, Phase
<1>3. Asked = {}
  BY <1>1 DEF Asked
<1> QED
  BY <1>2, <1>3 DEF Lifecycle!LifeInit

\* The registry and its producers implement the lifecycle a caller sees: jobs
\* only move forward, are cancelled only when somebody asked, and are forgotten
\* only to make room.
THEOREM Refinement == Spec => ImplementsLifecycle
<1> QED
  BY InitRefines, StepRefines, Invariance, PTL
     DEF Spec, ImplementsLifecycle, Lifecycle!LifeSpec, Lifecycle!lifeVars

\* No step of the lifecycle takes a job from one final status to another.
LEMMA FinalStays ==
    ASSUME NEW k \in Jobs, Phase[k] \in Lifecycle!Final,
           [Lifecycle!LifeNext]_<<Phase, Asked>>,
           Phase'[k] # "forgotten"
    PROVE  Phase'[k] = Phase[k]
<1> USE DEF Lifecycle!Final, Lifecycle!Live
<1>1. Phase = [j \in Jobs |-> Phase[j]]
  BY DEF Phase
<1> HIDE DEF Phase
<1>2. ASSUME NEW j \in Jobs, Lifecycle!Submit(j) PROVE Phase'[k] = Phase[k]
  BY <1>1, <1>2 DEF Lifecycle!Submit
<1>3. ASSUME NEW j \in Jobs, Lifecycle!Report(j) PROVE Phase'[k] = Phase[k]
  BY <1>1, <1>3 DEF Lifecycle!Report
<1>4. ASSUME NEW j \in Jobs, Lifecycle!Ask(j) PROVE Phase'[k] = Phase[k]
  BY <1>4 DEF Lifecycle!Ask
<1>5. ASSUME NEW j \in Jobs, Lifecycle!Settle(j) PROVE Phase'[k] = Phase[k]
  BY <1>1, <1>5 DEF Lifecycle!Settle
<1>6. ASSUME NEW j \in Jobs, Lifecycle!Acknowledge(j) PROVE Phase'[k] = Phase[k]
  BY <1>1, <1>6 DEF Lifecycle!Acknowledge
<1>7. ASSUME NEW j \in Jobs, NEW old \in Jobs, Lifecycle!SubmitForgetting(j, old)
      PROVE  Phase'[k] = Phase[k]
  <2>1. Phase' = [Phase EXCEPT ![j] = "pending", ![old] = "forgotten"]
    BY <1>7 DEF Lifecycle!SubmitForgetting
  <2>2. Phase[j] = "absent"
    BY <1>7 DEF Lifecycle!SubmitForgetting
  <2>3. k # j /\ k # old
    BY <1>1, <2>1, <2>2
  <2> QED
    BY <1>1, <2>1, <2>3
<1> QED
  BY <1>2, <1>3, <1>4, <1>5, <1>6, <1>7 DEF Lifecycle!LifeNext

\* A job that polls as finished never polls as anything else until its row is
\* evicted: it follows from the lifecycle.
THEOREM TerminalTheorem == Spec => TerminalIsFinal
<1> DEFINE Stays == \A j \in Held \cap DOMAIN rows' :
                      rows[j].status \in Terminal => rows'[j].status = rows[j].status
<1>1. ASSUME IInv, IInv', [Next]_vars PROVE Stays
  <2> SUFFICES ASSUME NEW j \in Held \cap DOMAIN rows', rows[j].status \in Terminal
               PROVE  rows'[j].status = rows[j].status
    OBVIOUS
  <2>1. TypeOK /\ TypeOK'
    BY <1>1 DEF IInv
  <2>2. j \in Jobs /\ Phase[j] = rows[j].status
    BY <2>1, PhaseOfHeld
  <2>3. j \in Held' /\ Phase'[j] = rows'[j].status
    BY <2>2 DEF Phase, Held
  <2>4. rows'[j].status # "forgotten"
    BY <2>1, <2>3 DEF TypeOK, Row, Terminal
  <2>5. Phase[j] \in Lifecycle!Final
    BY <2>2 DEF Terminal, Lifecycle!Final
  <2> QED
    BY <1>1, <2>2, <2>3, <2>4, <2>5, StepRefines, FinalStays
<1>2. IInv /\ IInv' /\ [Next]_vars => [Stays]_vars
  BY <1>1
<1> QED
  BY <1>2, Invariance, PTL DEF Spec, TerminalIsFinal
=============================================================================
