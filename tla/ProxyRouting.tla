---------------------------- MODULE ProxyRouting ----------------------------
(***************************************************************************)
(* The routing core of the native stdio proxy,                             *)
(* Tools/MonolithProxy/monolith_proxy.cpp: a main thread that answers      *)
(* JSON-RPC lines from stdin one at a time, and a health poller.  They     *)
(* share the verdict g_monolith_was_up and the transport circuit           *)
(* (g_transport_failure_count, g_transport_retry_after) under              *)
(* g_monolith_state_lock, and stdout under g_stdout_lock.  A probe of the  *)
(* endpoint, a POST and a notification all happen outside the state lock,  *)
(* so each is a step of its own.                                           *)
(*                                                                         *)
(* The editor endpoint and the MCP client are external: the endpoint moves *)
(* freely between its conditions, the client lists the tools again after   *)
(* a tools/list_changed notification and issues calls as it likes.         *)
(***************************************************************************)
EXTENDS Integers, Sequences

CONSTANTS
    Conditions,   \* the endpoint conditions the environment visits
    InboxBound    \* bound: lines the client has written and main has not read

ASSUME ConditionsAssumption ==
    Conditions \subseteq {"ready", "slow", "wedged", "down"}
ASSUME InboxBoundAssumption == InboxBound \in Nat \ {0}

VARIABLES
    endpoint,        \* condition of the editor's HTTP endpoint
    wasUp,           \* g_monolith_was_up: "unknown" is nullopt
    failureCount,    \* g_transport_failure_count, saturated at FailureSaturation
    cooldown,        \* seconds until g_transport_retry_after, 0 when passed
    sinceFailure,    \* seconds since the last failed call, saturated (history)
    mainPc,          \* where main is in its handler
    request,         \* the request main is handling
    response,        \* the response main is about to write
    pollPc,          \* where health_poll_thread is
    pollResult,      \* is_up, the result of the poller's last probe
    stop,            \* g_stop_health_poll
    inbox,           \* stdin: requests the client has written
    closed,          \* the client has closed stdin
    surface,         \* the tool list the client holds
    relist           \* the client has an unanswered list_changed

vars == <<endpoint, wasUp, failureCount, cooldown, sinceFailure, mainPc,
          request, response, pollPc, pollResult, stop, inbox, closed,
          surface, relist>>

mainVars == <<mainPc, request, response>>
pollVars == <<pollPc, pollResult>>
circuitVars == <<failureCount, cooldown, sinceFailure>>
clientVars == <<inbox, closed, surface, relist>>

-----------------------------------------------------------------------------
(* The transport circuit.                                                  *)

TickSeconds == 10             \* every cooldown is a multiple of ten seconds
MaxCooldown == 60
FailureSaturation == 4        \* the exponent is the same for every larger count

Min2(a, b) == IF a <= b THEN a ELSE b
Max2(a, b) == IF a >= b THEN a ELSE b

ShiftedTen == <<10, 20, 40, 80>>      \* 10u << exponent, exponent in 0 .. 3

\* Mutant: the one-minute cap is dropped.
BackoffUncapped(n) == ShiftedTen[Min2(n - 1, 3) + 1]

\* The cooldown that follows the n-th consecutive failure.
Backoff(n) == Min2(MaxCooldown, ShiftedTen[Min2(n - 1, 3) + 1])

\* Mutant: only a success closes the circuit, its deadline is ignored.
CircuitLatched == failureCount > 0

CircuitOpen == cooldown > 0
KnownUp == wasUp = "up"

-----------------------------------------------------------------------------
(* The endpoint, as the proxy sees it.                                     *)

Requests == {"list", "read", "edit"}

\* check_monolith_up: /health and the monolith_status identity both answer.
ProbeAnswers(condition) == condition # "down"

\* What post_monolith may return: "slow" misses the 0.75 s budget of a list,
\* may miss the 3 s of an offline-capable read, and meets the 30 s of the rest.
PostOutcomes(condition, r) ==
    CASE condition = "ready" -> {TRUE}
      [] condition = "slow"  -> (CASE r = "list" -> {FALSE}
                                   [] r = "read" -> BOOLEAN
                                   [] r = "edit" -> {TRUE})
      [] OTHER -> {FALSE}

EndpointChanges ==
    /\ \E c \in Conditions \ {endpoint} : endpoint' = c
    /\ UNCHANGED <<wasUp, circuitVars, mainVars, pollVars, stop, clientVars>>

\* Ten seconds pass for the circuit.
Tick ==
    /\ sinceFailure < MaxCooldown
    /\ sinceFailure' = sinceFailure + TickSeconds
    /\ cooldown' = Max2(0, cooldown - TickSeconds)
    /\ UNCHANGED <<endpoint, wasUp, failureCount, mainVars, pollVars, stop,
                   clientVars>>

-----------------------------------------------------------------------------
(* The client.                                                             *)

\* The client refreshes its list: at the start, and after list_changed.
ClientRelists ==
    /\ relist /\ ~closed
    /\ Len(inbox) < InboxBound
    /\ relist' = FALSE
    /\ inbox' = Append(inbox, "list")
    /\ UNCHANGED <<endpoint, wasUp, circuitVars, mainVars, pollVars, stop,
                   closed, surface>>

ClientCalls ==
    /\ ~closed
    /\ Len(inbox) < InboxBound
    /\ \E r \in {"read", "edit"} : inbox' = Append(inbox, r)
    /\ UNCHANGED <<endpoint, wasUp, circuitVars, mainVars, pollVars, stop,
                   closed, surface, relist>>

ClientCloses ==
    /\ ~closed
    /\ closed' = TRUE
    /\ UNCHANGED <<endpoint, wasUp, circuitVars, mainVars, pollVars, stop,
                   inbox, surface, relist>>

-----------------------------------------------------------------------------
(* The main thread.                                                        *)

\* Everything the handlers write when no live answer is to be had: the four
\* stable tools, the offline answer or the unavailable error.
ColdResponse == "cold"
LiveResponse == "live"

\* handle_tools_list tries the live route only when the verdict is up.
LiveListAllowed == KnownUp /\ ~CircuitOpen

\* Mutant: an offline-capable read trusts the verdict and skips the circuit.
ReadTrustsVerdict(r) == IF r = "read" THEN KnownUp ELSE ~CircuitOpen

\* handle_tools_call: an offline-capable read also needs the verdict.
LiveCallAllowed(r) == ~CircuitOpen /\ (r = "read" => KnownUp)

TakesLiveRoute(r) == IF r = "list" THEN LiveListAllowed ELSE LiveCallAllowed(r)

\* A read that finds the circuit open falls through to the branch of the live
\* tools, which looks at the circuit a second time.
RouteOf(r) ==
    CASE TakesLiveRoute(r) -> "probe"
      [] ~TakesLiveRoute(r) /\ r = "read" /\ CircuitOpen -> "recheck"
      [] OTHER -> "respond"

ReadRequest ==
    /\ mainPc = "idle" /\ inbox # <<>>
    /\ request' = Head(inbox)
    /\ inbox' = Tail(inbox)
    /\ response' = ColdResponse
    /\ mainPc' = RouteOf(Head(inbox))
    /\ UNCHANGED <<endpoint, wasUp, circuitVars, pollVars, stop, closed,
                   surface, relist>>

\* The second look: with the circuit closed by now, the read is sent as a live
\* tool is, whatever the verdict, with the full timeout.
RecheckCircuit ==
    /\ mainPc = "recheck"
    /\ \/ CircuitOpen /\ mainPc' = "respond" /\ UNCHANGED request
       \/ ~CircuitOpen /\ mainPc' = "probe" /\ request' = "edit"
    /\ UNCHANGED <<endpoint, wasUp, circuitVars, response, pollVars, stop,
                   clientVars>>

\* check_monolith_up on the main thread.
MainProbe ==
    /\ mainPc = "probe"
    /\ mainPc' = IF ProbeAnswers(endpoint) THEN "post" ELSE "respond"
    /\ UNCHANGED <<endpoint, wasUp, circuitVars, request, response, pollVars,
                   stop, clientVars>>

\* post_monolith; an invalid response counts as none.  Only a failed call is a
\* transport failure, a list that misses its budget is not.
MainPost ==
    /\ mainPc = "post"
    /\ \E answered \in PostOutcomes(endpoint, request) :
         mainPc' = CASE answered -> "markUp"
                     [] ~answered /\ request = "list" -> "respond"
                     [] ~answered /\ request # "list" -> "markDown"
    /\ UNCHANGED <<endpoint, wasUp, circuitVars, request, response, pollVars,
                   stop, clientVars>>

MarkTransportSuccess ==
    /\ mainPc = "markUp"
    /\ mainPc' = IF KnownUp THEN "respond" ELSE "notify"
    /\ wasUp' = "up"
    /\ failureCount' = 0
    /\ cooldown' = 0
    /\ response' = LiveResponse
    /\ UNCHANGED <<endpoint, sinceFailure, request, pollVars, stop, clientVars>>

MarkDownAfterTransportFailure ==
    /\ mainPc = "markDown"
    /\ mainPc' = IF KnownUp THEN "notify" ELSE "respond"
    /\ wasUp' = "down"
    /\ failureCount' = Min2(failureCount + 1, FailureSaturation)
    /\ cooldown' = Backoff(failureCount')
    /\ sinceFailure' = 0
    /\ UNCHANGED <<endpoint, request, response, pollVars, stop, clientVars>>

\* send_list_changed of the two functions above, after the lock is released.
MainNotify ==
    /\ mainPc = "notify"
    /\ mainPc' = "respond"
    /\ relist' = TRUE
    /\ UNCHANGED <<endpoint, wasUp, circuitVars, request, response, pollVars,
                   stop, inbox, closed, surface>>

WriteResponse ==
    /\ mainPc = "respond"
    /\ mainPc' = "idle"
    /\ surface' = IF request = "list" THEN response ELSE surface
    /\ UNCHANGED <<endpoint, wasUp, circuitVars, request, response, pollVars,
                   stop, inbox, closed, relist>>

\* Mutant: the flag is never raised.
StopPollerWithoutFlag ==
    /\ mainPc = "idle" /\ inbox = <<>> /\ closed
    /\ mainPc' = "join"
    /\ UNCHANGED <<endpoint, wasUp, circuitVars, request, response, pollVars,
                   stop, clientVars>>

\* End of file on stdin: ask the poller to stop.
StopPoller ==
    /\ mainPc = "idle" /\ inbox = <<>> /\ closed
    /\ mainPc' = "join"
    /\ stop' = TRUE
    /\ UNCHANGED <<endpoint, wasUp, circuitVars, request, response, pollVars,
                   clientVars>>

JoinPoller ==
    /\ mainPc = "join" /\ pollPc = "stopped"
    /\ mainPc' = "exited"
    /\ UNCHANGED <<endpoint, wasUp, circuitVars, request, response, pollVars,
                   stop, clientVars>>

-----------------------------------------------------------------------------
(* health_poll_thread and check_monolith_state_change.                     *)

PollStops ==
    /\ pollPc = "sleep" /\ stop
    /\ pollPc' = "stopped"
    /\ UNCHANGED <<endpoint, wasUp, circuitVars, mainVars, pollResult, stop,
                   clientVars>>

\* Mutant: the poller does not look at the circuit.
PollStartsAnyway ==
    /\ pollPc = "sleep" /\ ~stop
    /\ pollPc' = "probe"
    /\ UNCHANGED <<endpoint, wasUp, circuitVars, mainVars, pollResult, stop,
                   clientVars>>

\* While the circuit is open a round of the poller changes nothing.
PollStarts ==
    /\ pollPc = "sleep" /\ ~stop
    /\ ~CircuitOpen
    /\ pollPc' = "probe"
    /\ UNCHANGED <<endpoint, wasUp, circuitVars, mainVars, pollResult, stop,
                   clientVars>>

\* check_monolith_up on the poller: no lock is held.
PollProbe ==
    /\ pollPc = "probe"
    /\ pollPc' = "apply"
    /\ pollResult' = ProbeAnswers(endpoint)
    /\ UNCHANGED <<endpoint, wasUp, circuitVars, mainVars, stop, clientVars>>

\* Mutant: the poller never takes an up verdict back.
VerdictLatched(isUp) == IF isUp \/ KnownUp THEN "up" ELSE "down"

VerdictOf(isUp) == IF isUp THEN "up" ELSE "down"

\* Mutant: only the way up is announced.
NotifyOnlineOnly(isUp) == isUp /\ ~KnownUp

\* had_state is wasUp # "unknown".
ShouldNotify(isUp) ==
    \/ wasUp # "unknown" /\ VerdictOf(isUp) # wasUp
    \/ wasUp = "unknown" /\ isUp

PollApply ==
    /\ pollPc = "apply"
    /\ pollPc' = IF ShouldNotify(pollResult) THEN "notify" ELSE "sleep"
    /\ wasUp' = VerdictOf(pollResult)
    /\ UNCHANGED <<endpoint, circuitVars, mainVars, pollResult, stop,
                   clientVars>>

PollNotify ==
    /\ pollPc = "notify"
    /\ pollPc' = "sleep"
    /\ relist' = TRUE
    /\ UNCHANGED <<endpoint, wasUp, circuitVars, mainVars, pollResult, stop,
                   inbox, closed, surface>>

-----------------------------------------------------------------------------

Init ==
    /\ endpoint \in Conditions
    /\ wasUp = "unknown"
    /\ failureCount = 0
    /\ cooldown = 0
    /\ sinceFailure = MaxCooldown
    /\ mainPc = "idle" /\ request = "list" /\ response = ColdResponse
    /\ pollPc = "sleep" /\ pollResult = FALSE
    /\ stop = FALSE
    /\ inbox = <<>> /\ closed = FALSE
    /\ surface = "none" /\ relist = TRUE

MainStep ==
    \/ ReadRequest \/ RecheckCircuit \/ MainProbe \/ MainPost
    \/ MarkTransportSuccess \/ MarkDownAfterTransportFailure
    \/ MainNotify \/ WriteResponse
    \/ StopPoller \/ JoinPoller

PollStep ==
    PollStops \/ PollStarts \/ PollProbe \/ PollApply \/ PollNotify

Terminated == mainPc = "exited" /\ UNCHANGED vars

Next ==
    \/ MainStep \/ PollStep
    \/ EndpointChanges \/ Tick
    \/ ClientRelists \/ ClientCalls \/ ClientCloses
    \/ Terminated

\* Both threads keep running, time passes and the client reacts to a
\* notification.  Nothing is assumed of the endpoint, of calls or of the end of
\* the session.
Fairness ==
    /\ WF_vars(MainStep)
    /\ WF_vars(PollStep)
    /\ WF_vars(Tick)
    /\ SF_vars(ClientRelists)

Spec == Init /\ [][Next]_vars
FairSpec == Spec /\ Fairness

-----------------------------------------------------------------------------
(* Properties.                                                             *)

\* Type invariant: every variable stays in its domain.
TypeOK ==
    /\ endpoint \in Conditions
    /\ wasUp \in {"unknown", "up", "down"}
    /\ failureCount \in 0 .. FailureSaturation
    /\ cooldown \in {0, 10, 20, 30, 40, 50, 60}
    /\ sinceFailure \in {0, 10, 20, 30, 40, 50, 60}
    /\ mainPc \in {"idle", "recheck", "probe", "post", "markUp", "markDown",
                   "notify", "respond", "join", "exited"}
    /\ request \in Requests
    /\ response \in {ColdResponse, LiveResponse}
    /\ pollPc \in {"sleep", "probe", "apply", "notify", "stopped"}
    /\ pollResult \in BOOLEAN
    /\ stop \in BOOLEAN
    /\ inbox \in Seq(Requests)
    /\ closed \in BOOLEAN
    /\ surface \in {"none", ColdResponse, LiveResponse}
    /\ relist \in BOOLEAN

ListQueued == \E i \in 1 .. Len(inbox) : inbox[i] = "list"
ListInHand == request = "list" /\ mainPc \notin {"idle", "join", "exited"}

\* A client that holds the live tool list while the proxy's verdict is not up
\* has been told, or is about to be told, to list again: whichever thread
\* flipped the verdict, and however its notification, sent outside the lock,
\* interleaves with the other thread's flip and with a list being answered.
LiveSurfaceIsWithdrawn ==
    surface = LiveResponse /\ ~KnownUp =>
        \/ relist \/ ListQueued \/ ListInHand
        \/ mainPc = "notify" \/ pollPc = "notify"

\* The backoff the last failures call for has run out.
BackoffElapsed == failureCount > 0 => sinceFailure >= Backoff(failureCount)

\* "A failed known-up request immediately opens the offline circuit, so later
\* reads do not each pay the live timeout": whatever the poller concludes in
\* between, main talks to the endpoint only when the full backoff of the
\* consecutive failures so far has elapsed since the last of them.
LiveAttemptsRespectBackoff == mainPc \in {"probe", "post"} => BackoffElapsed

\* The poller, too, starts a probe only after the full backoff.
PollerHonorsBackoff ==
    [][pollPc = "sleep" /\ pollPc' = "probe" => BackoffElapsed]_vars

\* The poller is joined before main returns: it never runs in a process whose
\* main thread has exited, and never writes to its stdout.
PollerOwnedUntilExit == mainPc = "exited" => pollPc = "stopped" /\ stop

\* An endpoint that stays down is found out: a verdict left over from a stale
\* probe or from an earlier success does not survive.
DeadEndpointBecomesKnown ==
    <>[](endpoint = "down" /\ ~closed) => <>[](~KnownUp)

\* An endpoint that stays ready is found again, whatever backoff had built up.
ReadyEndpointBecomesKnown ==
    <>[](endpoint = "ready" /\ ~closed) => <>[]KnownUp

\* Once the client closes stdin the proxy exits.
CloseLeadsToExit == closed ~> mainPc = "exited"

\* "A successful background/initialized health probe announces list_changed,
\* after which a tightly bounded live refresh is allowed": with an endpoint that
\* stays ready the client does not keep the cold tools for ever.
ReadyEndpointServesLiveTools ==
    <>[](endpoint = "ready" /\ ~closed) => <>[](surface = LiveResponse)
=============================================================================
