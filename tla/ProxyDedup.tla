----------------------------- MODULE ProxyDedup -----------------------------
(***************************************************************************)
(* The replay guard of the native proxy: g_recent_tool_calls and the       *)
(* functions around it in Tools/MonolithProxy/monolith_proxy.cpp.  A call  *)
(* is admitted by begin_tool_call, answered, and completed by              *)
(* complete_tool_call or the ToolCallCompletionGuard; an identical call    *)
(* inside its repeat window is refused.  Calls are handled one at a time   *)
(* by the main thread.  A call stands for its signature.                   *)
(***************************************************************************)
EXTENDS Integers, FiniteSets

CONSTANTS
    Calls,             \* the signatures clients use
    Strong,            \* those that need strong repeat protection
    ShortWindow,       \* REPEAT_TOOL_CALL_WINDOW
    StrongWindow,      \* RISKY_REPEAT_TOOL_CALL_WINDOW
    MaxRecent,         \* MAX_RECENT_TOOL_CALLS
    MaxTime            \* bound: the clock stops here

ASSUME CallsAssumption == Strong \subseteq Calls
ASSUME WindowsAssumption ==
    /\ ShortWindow \in Nat /\ StrongWindow \in Nat
    /\ 0 < ShortWindow /\ ShortWindow < StrongWindow
ASSUME CapacityAssumption == MaxRecent \in Nat \ {0}
ASSUME MaxTimeAssumption == MaxTime \in Nat

Never == -1

VARIABLES
    now,          \* now_seconds()
    recent,       \* g_recent_tool_calls: a function on the signatures it holds
    current,      \* the call main is handling, if any: a set of at most one
    finishedAt,   \* per call: when it was last completed (history)
    evicted       \* calls that were dropped as the oldest of a full table since
                  \* they last completed (history)

vars == <<now, recent, current, finishedAt, evicted>>

Window(c) == IF c \in Strong THEN StrongWindow ELSE ShortWindow

Held == DOMAIN recent

Restricted(table, S) == [c \in S |-> table[c]]

-----------------------------------------------------------------------------
(* prune_recent_tool_calls                                                 *)

Unexpired(table) ==
    {c \in DOMAIN table :
        table[c].inFlight \/ now - table[c].completedAt < table[c].window}

\* Mutant: the newest completed call is dropped first.
NewestCompleted(table) ==
    {c \in DOMAIN table :
        /\ ~table[c].inFlight
        /\ \A d \in DOMAIN table :
             ~table[d].inFlight => table[d].completedAt <= table[c].completedAt}

\* The calls the eviction loop may drop first; the table is unordered, so a tie
\* is broken either way.
OldestCompleted(table) ==
    {c \in DOMAIN table :
        /\ ~table[c].inFlight
        /\ \A d \in DOMAIN table :
             ~table[d].inFlight => table[c].completedAt <= table[d].completedAt}

\* The loop drops completed calls while the table is at its limit.  The table
\* never exceeds the limit, so one round is enough.
AfterEviction(table) ==
    IF Cardinality(DOMAIN table) < MaxRecent \/ OldestCompleted(table) = {}
    THEN {table}
    ELSE {Restricted(table, DOMAIN table \ {c}) : c \in OldestCompleted(table)}

Pruned == AfterEviction(Restricted(recent, Unexpired(recent)))

-----------------------------------------------------------------------------
(* begin_tool_call and complete_tool_call                                  *)

IsRepeat(table, c) ==
    /\ c \in DOMAIN table
    /\ table[c].inFlight \/ now - table[c].completedAt < table[c].window

HasRoom(table, c) == Cardinality(DOMAIN table \ {c}) < MaxRecent

Entry(c) == [inFlight |-> TRUE, completedAt |-> 0, window |-> Window(c)]

Admitted(table, c) ==
    [d \in DOMAIN table \cup {c} |-> IF d = c THEN Entry(c) ELSE table[d]]

WithinWindow(c) == finishedAt[c] # Never /\ now - finishedAt[c] < Window(c)

\* The table is at its limit and no unexpired call completed before c.
NextToDrop(c) ==
    /\ Cardinality(Held) = MaxRecent
    /\ \A d \in Held : WithinWindow(d) /\ finishedAt[c] <= finishedAt[d]

\* The calls pruning drops, as far as it may drop them before their time.
DroppedBy(table) == {d \in Held \ DOMAIN table : NextToDrop(d)}

Admit ==
    /\ current = {}
    /\ \E c \in Calls, table \in Pruned :
         /\ ~IsRepeat(table, c) /\ HasRoom(table, c)
         /\ recent' = Admitted(table, c)
         /\ current' = {c}
         /\ evicted' = (evicted \cup DroppedBy(table)) \ {c}
    /\ UNCHANGED <<now, finishedAt>>

\* Mutant: the refused call completes the entry of the earlier one.
AfterRefusalTouched(table, c) ==
    IF c \in DOMAIN table THEN [table EXCEPT ![c].completedAt = now] ELSE table

AfterRefusal(table, c) == table

\* A repeat is answered at once; the entry of the earlier call stays as it is.
Refuse ==
    /\ current = {}
    /\ \E c \in Calls, table \in Pruned :
         /\ IsRepeat(table, c) \/ ~HasRoom(table, c)
         /\ recent' = AfterRefusal(table, c)
         /\ evicted' = evicted \cup DroppedBy(table)
    /\ UNCHANGED <<now, current, finishedAt>>

\* Mutant: the time the entry expires is stored instead.
CompletedAtExpiry(table, c, a) ==
    [table EXCEPT ![c].inFlight = FALSE,
                  ![c].completedAt = now + table[c].window]

\* Mutant: a call that found no route is not completed.
CompletedUnlessUnavailable(table, c, a) ==
    IF a = "unavailable" THEN table
    ELSE [table EXCEPT ![c].inFlight = FALSE, ![c].completedAt = now]

CompleteToolCall(table, c, a) ==
    [table EXCEPT ![c].inFlight = FALSE, ![c].completedAt = now]

\* Every way out of handle_tools_call after the admission, an exception
\* included, completes the call: answered (blocked by a preset, live, offline) or
\* without a route.
Finish ==
    /\ \E c \in current, a \in {"done", "unavailable"} :
         /\ recent' = CompleteToolCall(recent, c, a)
         /\ finishedAt' = [finishedAt EXCEPT ![c] = now]
    /\ current' = {}
    /\ UNCHANGED <<now, evicted>>

Tick ==
    /\ now < MaxTime
    /\ now' = now + 1
    /\ UNCHANGED <<recent, current, finishedAt, evicted>>

TimeIsUp == now = MaxTime /\ UNCHANGED vars

Init ==
    /\ now = 0
    /\ recent = <<>>
    /\ current = {}
    /\ finishedAt = [c \in Calls |-> Never]
    /\ evicted = {}

Next == Admit \/ Refuse \/ Finish \/ Tick \/ TimeIsUp

Spec == Init /\ [][Next]_vars

-----------------------------------------------------------------------------
(* Properties.                                                             *)

Entries ==
    [inFlight : BOOLEAN, completedAt : 0 .. MaxTime,
     window : {ShortWindow, StrongWindow}]

\* Type invariant: every variable stays in its domain, and the table in its
\* limit.
TypeOK ==
    /\ now \in 0 .. MaxTime
    /\ Held \subseteq Calls /\ \A c \in Held : recent[c] \in Entries
    /\ Cardinality(Held) <= MaxRecent
    /\ current \subseteq Calls
    /\ finishedAt \in [Calls -> {Never} \cup 0 .. MaxTime]
    /\ evicted \subseteq Calls

\* The call in hand is the only one in flight: no way out of the handler leaves
\* an entry that would refuse its call for ever.
OnlyCurrentInFlight ==
    \A c \in Held : recent[c].inFlight => current = {c}

Admits(c) == current = {} /\ current' = {c}

\* "Mutating or long-running catalogued actions keep a longer completed-call
\* replay guard because a timed-out HTTP request may still be executing": a call
\* is not admitted inside the window of its last completion, unless the table
\* was at its limit and dropped it as the oldest it held, at the latest while
\* admitting it.
ReplayOnlyAfterEviction ==
    [][\A c \in Calls :
         Admits(c) /\ WithinWindow(c) => c \in evicted \/ NextToDrop(c)]_vars

\* The window counts from the completion of the admitted call: being refused
\* does not prolong it, however often the client tries.
WindowCountsFromCompletion ==
    \A c \in Held : ~recent[c].inFlight => recent[c].completedAt = finishedAt[c]
=============================================================================
