-------------------------- MODULE ProxyDedupProofs --------------------------
(***************************************************************************)
(* The safety of the repeat guard for any set of calls, any of them        *)
(* strong, any windows, any size of the table and any length of time.      *)
(***************************************************************************)
EXTENDS ProxyDedup, FiniteSetTheorems, TLAPS

\* An entry has its call's window; in flight it is the call in hand, and
\* otherwise it holds the time of its last completion.
EntryOf(c) ==
    /\ recent[c].window = Window(c)
    /\ recent[c].inFlight => current = {c}
    /\ ~recent[c].inFlight => recent[c].completedAt = finishedAt[c]

\* Only the eviction forgets a call inside its window.
ForgottenIsEvicted == \A c \in Calls \ Held : WithinWindow(c) => c \in evicted

GuardInv ==
    /\ TypeOK /\ IsFiniteSet(Held)
    /\ \A c \in Held : EntryOf(c)
    /\ \A c \in current : current = {c} /\ c \in Held /\ recent[c].inFlight
    /\ \A c \in Calls : finishedAt[c] <= now
    /\ ForgottenIsEvicted

-----------------------------------------------------------------------------
(* Pruning *)

LEMMA WindowType == \A c \in Calls : Window(c) \in {ShortWindow, StrongWindow}
BY DEF Window

\* Between two calls nothing is in flight: an entry that has not expired is
\* inside the window of its call, and an expired one outside.
LEMMA UnexpiredIsWithin ==
    ASSUME GuardInv, current = {}, NEW c \in Held
    PROVE  c \in Unexpired(recent) <=> WithinWindow(c)
<1>1. /\ c \in Calls /\ ~recent[c].inFlight /\ recent[c].completedAt = finishedAt[c]
      /\ recent[c].window = Window(c) /\ recent[c] \in Entries
  BY DEF GuardInv, EntryOf, TypeOK
<1>2. finishedAt[c] # Never
  BY <1>1, MaxTimeAssumption DEF Entries, Never
<1> QED
  BY <1>1, <1>2 DEF Unexpired, WithinWindow, Held

LEMMA PrunedTable ==
    ASSUME GuardInv, current = {}, NEW table \in Pruned
    PROVE  /\ DOMAIN table \subseteq Held /\ IsFiniteSet(DOMAIN table)
           /\ Cardinality(DOMAIN table) <= MaxRecent
           /\ \A d \in DOMAIN table : table[d] = recent[d]
           /\ \A d \in Held \ DOMAIN table : WithinWindow(d) => NextToDrop(d)
<1> DEFINE kept == Restricted(recent, Unexpired(recent))
<1>1. /\ DOMAIN kept = Unexpired(recent) /\ Unexpired(recent) \subseteq Held
      /\ \A d \in DOMAIN kept : kept[d] = recent[d]
  BY DEF Restricted, Unexpired, Held
<1>2. IsFiniteSet(Held) /\ Cardinality(Held) <= MaxRecent
  BY DEF GuardInv, TypeOK
<1>3. PICK S : /\ S \subseteq DOMAIN kept /\ table = Restricted(kept, S)
               /\ \/ S = DOMAIN kept
                  \/ \E c \in OldestCompleted(kept) :
                       /\ ~(Cardinality(DOMAIN kept) < MaxRecent)
                       /\ S = DOMAIN kept \ {c}
  <2>1. kept = Restricted(kept, DOMAIN kept)
    BY DEF Restricted
  <2> HIDE DEF kept
  <2>2. table = kept
        \/ \E c \in OldestCompleted(kept) :
             /\ ~(Cardinality(DOMAIN kept) < MaxRecent)
             /\ table = Restricted(kept, DOMAIN kept \ {c})
    BY DEF Pruned, AfterEviction, kept
  <2> QED
    BY <2>1, <2>2
<1> HIDE DEF kept
<1>4. /\ DOMAIN table = S /\ S \subseteq Held
      /\ \A d \in DOMAIN table : table[d] = recent[d]
  BY <1>1, <1>3 DEF Restricted
<1>5. IsFiniteSet(S) /\ Cardinality(S) <= MaxRecent
  <2>1. IsFiniteSet(S) /\ Cardinality(S) <= Cardinality(Held)
    BY <1>2, <1>4, FS_Subset
  <2> QED
    BY <1>2, <2>1, FS_CardinalityType, CapacityAssumption
<1>6. ASSUME NEW d \in Held \ DOMAIN table, WithinWindow(d) PROVE NextToDrop(d)
  <2>1. d \in DOMAIN kept /\ d \notin S
    BY <1>1, <1>4, <1>6, UnexpiredIsWithin
  <2>2. d \in OldestCompleted(kept) /\ ~(Cardinality(DOMAIN kept) < MaxRecent)
    BY <1>3, <2>1
  <2>3. DOMAIN kept = Held /\ Cardinality(Held) = MaxRecent
    <3>1. /\ IsFiniteSet(DOMAIN kept) /\ Cardinality(DOMAIN kept) <= Cardinality(Held)
          /\ Cardinality(DOMAIN kept) = Cardinality(Held) => DOMAIN kept = Held
      BY <1>1, <1>2, FS_Subset
    <3>2. Cardinality(DOMAIN kept) \in Nat /\ Cardinality(Held) \in Nat
      BY <1>2, <3>1, FS_CardinalityType
    <3> QED
      BY <1>2, <2>2, <3>1, <3>2, CapacityAssumption
  <2>4. ASSUME NEW e \in Held PROVE WithinWindow(e) /\ finishedAt[d] <= finishedAt[e]
    <3>1. WithinWindow(e)
      BY <1>1, <2>3, UnexpiredIsWithin
    <3>2. /\ ~recent[e].inFlight /\ recent[e].completedAt = finishedAt[e]
          /\ recent[d].completedAt = finishedAt[d]
      BY DEF GuardInv, EntryOf
    <3>3. kept[e] = recent[e] /\ kept[d] = recent[d]
      BY <1>1, <2>3
    <3> QED
      BY <2>2, <2>3, <3>1, <3>2, <3>3 DEF OldestCompleted
  <2> QED
    BY <2>3, <2>4 DEF NextToDrop
<1> QED
  BY <1>4, <1>5, <1>6

-----------------------------------------------------------------------------
(* The steps *)

LEMMA InitGuard == Init => GuardInv
<1>1. SUFFICES ASSUME Init PROVE GuardInv
  OBVIOUS
<1>2. Held = {}
  BY <1>1 DEF Init, Held
<1>3. finishedAt \in [Calls -> {Never}]
  BY <1>1 DEF Init
<1> QED
  BY <1>1, <1>2, <1>3, FS_EmptySet, CapacityAssumption, MaxTimeAssumption
     DEF Init, GuardInv, TypeOK, EntryOf, ForgottenIsEvicted, WithinWindow, Never

\* What a pruning forgets inside its window is noted as evicted.
LEMMA DroppedIsEvicted ==
    ASSUME GuardInv, current = {}, NEW table \in Pruned,
           NEW c \in Calls \ DOMAIN table, WithinWindow(c)
    PROVE  c \in evicted \cup DroppedBy(table)
BY PrunedTable DEF GuardInv, ForgottenIsEvicted, DroppedBy

LEMMA AdmitKeeps == ASSUME GuardInv, Admit PROVE GuardInv'
<1>1. PICK c \in Calls, table \in Pruned :
         /\ HasRoom(table, c)
         /\ recent' = Admitted(table, c) /\ current' = {c}
         /\ evicted' = (evicted \cup DroppedBy(table)) \ {c}
  BY DEF Admit
<1>2. current = {} /\ UNCHANGED <<now, finishedAt>>
  BY DEF Admit
<1>3. /\ DOMAIN table \subseteq Held /\ IsFiniteSet(DOMAIN table)
      /\ \A d \in DOMAIN table : table[d] = recent[d]
  BY <1>2, PrunedTable
<1>4. /\ Held' = DOMAIN table \cup {c}
      /\ recent'[c] = Entry(c)
      /\ \A d \in DOMAIN table \ {c} : recent'[d] = recent[d]
  BY <1>1, <1>3 DEF Held, Admitted
<1>5. IsFiniteSet(Held') /\ Cardinality(Held') <= MaxRecent
  <2> DEFINE rest == DOMAIN table \ {c}
  <2>1. IsFiniteSet(rest) /\ Cardinality(rest) < MaxRecent /\ c \notin rest
    BY <1>1, <1>3, FS_RemoveElement DEF HasRoom
  <2>2. Held' = rest \cup {c}
    BY <1>4
  <2> HIDE DEF rest
  <2>3. Cardinality(rest) \in Nat
    BY <2>1, FS_CardinalityType
  <2>4. IsFiniteSet(rest \cup {c}) /\ Cardinality(rest \cup {c}) = Cardinality(rest) + 1
    BY <2>1, FS_AddElement
  <2>5. Cardinality(rest \cup {c}) <= MaxRecent
    BY <2>1, <2>3, <2>4, CapacityAssumption
  <2> QED
    BY <2>2, <2>4, <2>5
<1>6. recent'[c] \in Entries /\ EntryOf(c)'
  BY <1>1, <1>4, WindowType, MaxTimeAssumption DEF Entry, Entries, EntryOf, Window
<1>7. ASSUME NEW d \in DOMAIN table \ {c} PROVE recent'[d] \in Entries /\ EntryOf(d)'
  <2>1. recent'[d] = recent[d] /\ d \in Held /\ ~recent[d].inFlight
    BY <1>2, <1>3, <1>4 DEF GuardInv, EntryOf
  <2> QED
    BY <1>2, <2>1 DEF GuardInv, TypeOK, EntryOf, Window
<1>8. evicted' \subseteq Calls
  BY <1>1 DEF GuardInv, TypeOK, DroppedBy
<1>9. ForgottenIsEvicted'
  <2>1. ASSUME NEW d \in Calls \ Held', WithinWindow(d)' PROVE d \in evicted'
    <3>1. d \notin DOMAIN table /\ d # c /\ WithinWindow(d)
      BY <1>2, <1>4, <2>1 DEF WithinWindow, Window
    <3> QED
      BY <1>1, <1>2, <3>1, DroppedIsEvicted
  <2> QED
    BY <2>1 DEF ForgottenIsEvicted
<1>10. \A d \in current' : current' = {d} /\ d \in Held' /\ recent'[d].inFlight
  BY <1>1, <1>4 DEF Entry
<1> QED
  BY <1>1, <1>2, <1>3, <1>4, <1>5, <1>6, <1>7, <1>8, <1>9, <1>10 DEF GuardInv, TypeOK

LEMMA RefuseKeeps == ASSUME GuardInv, Refuse PROVE GuardInv'
<1>1. PICK table \in Pruned :
         recent' = table /\ evicted' = evicted \cup DroppedBy(table)
  BY DEF Refuse, AfterRefusal
<1>2. current = {} /\ UNCHANGED <<now, current, finishedAt>>
  BY DEF Refuse
<1>3. /\ Held' \subseteq Held /\ IsFiniteSet(Held') /\ Cardinality(Held') <= MaxRecent
      /\ \A d \in Held' : recent'[d] = recent[d]
  BY <1>1, <1>2, PrunedTable DEF Held
<1>4. \A d \in Held' : recent'[d] \in Entries /\ EntryOf(d)'
  BY <1>2, <1>3 DEF GuardInv, TypeOK, EntryOf, Window
<1>5. evicted' \subseteq Calls
  BY <1>1 DEF GuardInv, TypeOK, DroppedBy
<1>6. ForgottenIsEvicted'
  <2>1. ASSUME NEW d \in Calls \ Held', WithinWindow(d)' PROVE d \in evicted'
    <3>1. d \notin DOMAIN table /\ WithinWindow(d)
      BY <1>1, <1>2, <2>1 DEF Held, WithinWindow, Window
    <3> QED
      BY <1>1, <1>2, <3>1, DroppedIsEvicted
  <2> QED
    BY <2>1 DEF ForgottenIsEvicted
<1> QED
  BY <1>2, <1>3, <1>4, <1>5, <1>6 DEF GuardInv, TypeOK

LEMMA FinishKeeps == ASSUME GuardInv, Finish PROVE GuardInv'
<1>1. PICK c \in current, a \in {"done", "unavailable"} :
         /\ recent' = CompleteToolCall(recent, c, a)
         /\ finishedAt' = [finishedAt EXCEPT ![c] = now]
  BY DEF Finish
<1>2. current' = {} /\ UNCHANGED <<now, evicted>>
  BY DEF Finish
<1>3. c \in Held /\ c \in Calls /\ current = {c} /\ recent[c] \in Entries /\ EntryOf(c)
  BY DEF GuardInv, TypeOK
<1>4. /\ Held' = Held
      /\ \A d \in Held \ {c} : recent'[d] = recent[d]
      /\ recent'[c] = [recent[c] EXCEPT !.inFlight = FALSE, !.completedAt = now]
  BY <1>1, <1>3 DEF CompleteToolCall, Held
<1>5. finishedAt'[c] = now /\ \A d \in Calls \ {c} : finishedAt'[d] = finishedAt[d]
  BY <1>1, <1>3 DEF GuardInv, TypeOK
<1>6. recent'[c] \in Entries /\ EntryOf(c)'
  <2>1. recent'[c] \in Entries
    BY <1>3, <1>4 DEF Entries, GuardInv, TypeOK
  <2>2. ~recent'[c].inFlight /\ recent'[c].completedAt = now
        /\ recent'[c].window = recent[c].window
    BY <1>3, <1>4 DEF Entries
  <2> QED
    BY <1>3, <1>5, <2>1, <2>2 DEF EntryOf, Window
<1>7. ASSUME NEW d \in Held \ {c} PROVE recent'[d] \in Entries /\ EntryOf(d)'
  <2>1. recent'[d] = recent[d] /\ ~recent[d].inFlight /\ d \in Calls
    BY <1>3, <1>4 DEF GuardInv, EntryOf, TypeOK
  <2> QED
    BY <1>5, <2>1 DEF GuardInv, TypeOK, EntryOf, Window
<1>8. finishedAt' \in [Calls -> {Never} \cup 0 .. MaxTime]
  BY <1>1, <1>3 DEF GuardInv, TypeOK
<1>9. \A d \in Calls : finishedAt'[d] <= now'
  BY <1>2, <1>5 DEF GuardInv, TypeOK
<1>10. ForgottenIsEvicted'
  BY <1>2, <1>3, <1>4, <1>5 DEF GuardInv, ForgottenIsEvicted, WithinWindow, Window
<1> QED
  BY <1>2, <1>4, <1>6, <1>7, <1>8, <1>9, <1>10 DEF GuardInv, TypeOK

\* Windows only close as time goes on.
LEMMA TickKeeps == ASSUME GuardInv, Tick PROVE GuardInv'
<1>1. now' = now + 1 /\ now < MaxTime /\ UNCHANGED <<recent, current, finishedAt, evicted>>
  BY DEF Tick
<1>2. now \in 0 .. MaxTime /\ finishedAt \in [Calls -> {Never} \cup 0 .. MaxTime]
  BY DEF GuardInv, TypeOK
<1>3. TypeOK' /\ Held' = Held
  BY <1>1, <1>2, MaxTimeAssumption DEF GuardInv, TypeOK, Held
<1>4. \A c \in Held : EntryOf(c)'
  BY <1>1 DEF GuardInv, EntryOf, Window
<1>5. \A c \in Calls : finishedAt'[c] <= now'
  BY <1>1, <1>2, MaxTimeAssumption DEF GuardInv, Never
<1>6. ASSUME NEW c \in Calls, WithinWindow(c)' PROVE WithinWindow(c)
  <2>1. Window(c) \in Nat /\ finishedAt[c] \in Int
    BY <1>2, WindowType, WindowsAssumption DEF Never
  <2> QED
    BY <1>1, <1>2, <1>6, <2>1 DEF WithinWindow, Window
<1>7. ForgottenIsEvicted'
  BY <1>1, <1>3, <1>6 DEF GuardInv, ForgottenIsEvicted
<1> QED
  BY <1>1, <1>3, <1>4, <1>5, <1>7 DEF GuardInv

LEMMA GuardKept == GuardInv /\ [Next]_vars => GuardInv'
<1>1. SUFFICES ASSUME GuardInv, [Next]_vars PROVE GuardInv'
  OBVIOUS
<1>2. CASE TimeIsUp \/ UNCHANGED vars
  BY <1>1, <1>2 DEF TimeIsUp, vars, GuardInv, TypeOK, Held, EntryOf, Window,
     ForgottenIsEvicted, WithinWindow
<1> QED
  BY <1>1, <1>2, AdmitKeeps, RefuseKeeps, FinishKeeps, TickKeeps DEF Next

\* The call that is admitted has left the table, if it was there, by expiry or
\* as the oldest.
LEMMA AdmittedIsNew ==
    ASSUME GuardInv, [Next]_vars, NEW c \in Calls, Admits(c), WithinWindow(c)
    PROVE  c \in evicted \/ NextToDrop(c)
<1>1. Admit
  BY DEF Admits, Next, Refuse, Finish, Tick, TimeIsUp, vars
<1>2. PICK table \in Pruned : ~IsRepeat(table, c)
  BY <1>1 DEF Admit, Admits
<1>3. current = {}
  BY DEF Admits
<1>4. CASE c \notin Held
  BY <1>4 DEF GuardInv, ForgottenIsEvicted
<1>5. CASE c \in Held
  <2>1. c \notin DOMAIN table
    <3>1. SUFFICES ASSUME c \in DOMAIN table PROVE IsRepeat(table, c)
      BY <1>2
    <3>2. c \in Unexpired(recent) /\ table[c] = recent[c]
      BY <1>3, <1>5, <3>1, UnexpiredIsWithin, PrunedTable
    <3> QED
      BY <3>1, <3>2 DEF IsRepeat, Unexpired
  <2> QED
    BY <1>3, <1>5, <2>1, PrunedTable
<1> QED
  BY <1>4, <1>5

-----------------------------------------------------------------------------

\* The invariant holds in every reachable state.
THEOREM Invariance == Spec => []GuardInv
BY InitGuard, GuardKept, PTL DEF Spec

\* Every variable keeps its type, and g_recent_tool_calls its limit.
THEOREM TypeCorrect == Spec => []TypeOK
<1>1. GuardInv => TypeOK
  BY DEF GuardInv
<1> QED
  BY <1>1, Invariance, PTL

\* No way out of the handler leaves an entry in flight.
THEOREM InFlightTheorem == Spec => []OnlyCurrentInFlight
<1>1. GuardInv => OnlyCurrentInFlight
  BY DEF GuardInv, EntryOf, OnlyCurrentInFlight
<1> QED
  BY <1>1, Invariance, PTL

\* The window counts from the completion of the call, not from a refusal.
THEOREM WindowTheorem == Spec => []WindowCountsFromCompletion
<1>1. GuardInv => WindowCountsFromCompletion
  BY DEF GuardInv, EntryOf, WindowCountsFromCompletion
<1> QED
  BY <1>1, Invariance, PTL

\* A call is not admitted inside its window but after a full table dropped it.
THEOREM ReplayTheorem == Spec => ReplayOnlyAfterEviction
<1>1. GuardInv /\ [Next]_vars =>
        [\A c \in Calls :
           Admits(c) /\ WithinWindow(c) => c \in evicted \/ NextToDrop(c)]_vars
  BY AdmittedIsNew
<1> QED
  BY <1>1, Invariance, PTL DEF Spec, ReplayOnlyAfterEviction
=============================================================================
