------------------------- MODULE ProxyRoutingProofs -------------------------
(***************************************************************************)
(* Proofs about ProxyRouting, for every set of endpoint conditions and     *)
(* every inbox bound: the safety invariants and the action property that   *)
(* the runs check on a small instance.                                     *)
(***************************************************************************)
EXTENDS ProxyRouting, TLAPS

\* What is left of the cooldown is at least the backoff minus the time passed.
CooldownCoversBackoff ==
    failureCount > 0 => cooldown + sinceFailure >= Backoff(failureCount)

\* The client has been told, or is about to be told by the poller, or has
\* already asked.
Renewing == relist \/ ListQueued \/ pollPc = "notify"

\* A live list main is about to write is covered like one the client holds.
LiveAnswerIsWithdrawn ==
    /\ ListInHand /\ mainPc = "respond" /\ response = LiveResponse
    /\ ~KnownUp
    => Renewing

\* Nothing live is written unless the success has been marked.
ColdUntilMarked == mainPc \in {"recheck", "probe", "post", "markDown"} => response = ColdResponse

\* Only a read looks at the circuit twice.
RecheckIsRead == mainPc = "recheck" => request = "read"

\* A poller that has stopped was told to, and main only waits after telling it.
StopProtocol ==
    /\ pollPc = "stopped" => stop
    /\ mainPc \in {"join", "exited"} => stop
    /\ mainPc = "exited" => pollPc = "stopped"

IInv ==
    /\ TypeOK
    /\ CooldownCoversBackoff
    /\ LiveAttemptsRespectBackoff
    /\ LiveSurfaceIsWithdrawn
    /\ LiveAnswerIsWithdrawn
    /\ ColdUntilMarked
    /\ RecheckIsRead
    /\ StopProtocol

-----------------------------------------------------------------------------

\* Every backoff is a positive multiple of ten seconds, a minute at most.
LEMMA BackoffRange ==
    ASSUME NEW n \in 1 .. FailureSaturation
    PROVE  Backoff(n) \in {10, 20, 40, 60}
<1>1. n \in {1, 2, 3, 4}
  BY DEF FailureSaturation
<1> QED
  BY <1>1 DEF Backoff, Min2, ShiftedTen, MaxCooldown

\* The invariant holds when the proxy starts.
LEMMA InitIInv == Init => IInv
<1> SUFFICES ASSUME Init PROVE IInv
  OBVIOUS
<1>1. TypeOK
  <2>1. <<>> \in Seq(Requests) /\ "list" \in Requests
    BY DEF Requests
  <2>2. /\ failureCount \in 0 .. FailureSaturation
        /\ cooldown \in {0, 10, 20, 30, 40, 50, 60}
        /\ sinceFailure \in {0, 10, 20, 30, 40, 50, 60}
    BY DEF Init, MaxCooldown, FailureSaturation
  <2> QED
    BY <2>1, <2>2, Zenon DEF Init, TypeOK
<1>2. /\ CooldownCoversBackoff
      /\ LiveAttemptsRespectBackoff
      /\ LiveSurfaceIsWithdrawn
      /\ LiveAnswerIsWithdrawn
      /\ ColdUntilMarked
      /\ RecheckIsRead
      /\ StopProtocol
  BY DEF Init, RecheckIsRead, CooldownCoversBackoff, LiveAttemptsRespectBackoff,
         LiveSurfaceIsWithdrawn, LiveAnswerIsWithdrawn, ColdUntilMarked,
         StopProtocol,
         ColdResponse, LiveResponse
<1> QED
  BY <1>1, <1>2 DEF IInv

\* Appending to or consuming the inbox keeps a queued tools/list queued.
LEMMA QueuedAfterAppend ==
    ASSUME NEW s \in Seq(Requests), NEW r \in Requests
    PROVE  /\ Append(s, r) \in Seq(Requests)
           /\ (\E i \in 1 .. Len(s) : s[i] = "list")
                => (\E i \in 1 .. Len(Append(s, r)) : Append(s, r)[i] = "list")
           /\ r = "list"
                => (\E i \in 1 .. Len(Append(s, r)) : Append(s, r)[i] = "list")
<1>1. /\ Append(s, r) \in Seq(Requests)
      /\ Len(Append(s, r)) = Len(s) + 1
      /\ \A i \in 1 .. Len(s) : Append(s, r)[i] = s[i]
      /\ Append(s, r)[Len(s) + 1] = r
      /\ Len(s) \in Nat
  OBVIOUS
<1> QED
  BY <1>1

\* Taking the head of the inbox leaves the rest queued.
LEMMA QueuedAfterTail ==
    ASSUME NEW s \in Seq(Requests), s # <<>>
    PROVE  /\ Head(s) \in Requests
           /\ Tail(s) \in Seq(Requests)
           /\ (\E i \in 1 .. Len(s) : s[i] = "list")
                => \/ Head(s) = "list"
                   \/ \E i \in 1 .. Len(Tail(s)) : Tail(s)[i] = "list"
<1>1. /\ Head(s) = s[1] /\ Head(s) \in Requests
      /\ Tail(s) \in Seq(Requests)
      /\ Len(s) \in Nat /\ Len(Tail(s)) = Len(s) - 1
      /\ \A i \in 1 .. Len(s) - 1 : Tail(s)[i] = s[i + 1]
  OBVIOUS
<1>2. ASSUME NEW i \in 1 .. Len(s), s[i] = "list", Head(s) # "list"
      PROVE  \E j \in 1 .. Len(Tail(s)) : Tail(s)[j] = "list"
  <2>1. i # 1
    BY <1>1, <1>2
  <2>2. i - 1 \in 1 .. Len(Tail(s)) /\ Tail(s)[i - 1] = s[i]
    BY <1>1, <2>1
  <2> QED
    BY <2>2, <1>2
<1> QED
  BY <1>1, <1>2

-----------------------------------------------------------------------------
(* One lemma per part of the invariant.                                    *)

\* Every step preserves the type invariant.
LEMMA TypeStep == TypeOK /\ [Next]_vars => TypeOK'
<1> SUFFICES ASSUME TypeOK, [Next]_vars PROVE TypeOK'
  OBVIOUS
<1> USE DEF TypeOK, ColdResponse, LiveResponse
<1>a. {"list", "read", "edit"} = Requests
  BY DEF Requests
<1>1. CASE EndpointChanges
  BY <1>1 DEF EndpointChanges, circuitVars, mainVars, pollVars, clientVars
<1>2. CASE Tick
  <2>1. sinceFailure' \in {0, 10, 20, 30, 40, 50, 60}
    BY <1>2 DEF Tick, TickSeconds, MaxCooldown
  <2>2. cooldown' \in {0, 10, 20, 30, 40, 50, 60}
    <3>1. Max2(0, 0 - 10) = 0 /\ \A c \in {10, 20, 30, 40, 50, 60} :
                                    Max2(0, c - 10) = c - 10
      BY DEF Max2
    <3> QED
      BY <1>2, <3>1 DEF Tick, TickSeconds
  <2> QED
    BY <1>2, <2>1, <2>2 DEF Tick, mainVars, pollVars, clientVars
<1>3. CASE ClientRelists
  <2>1. inbox' \in Seq(Requests)
    BY <1>3, <1>a, QueuedAfterAppend DEF ClientRelists
  <2>2. UNCHANGED <<endpoint, wasUp, failureCount, cooldown, sinceFailure,
                    mainPc, request, response, pollPc, pollResult, stop,
                    closed, surface>>
    BY <1>3 DEF ClientRelists, circuitVars, mainVars, pollVars
  <2>3. relist' \in BOOLEAN
    BY <1>3 DEF ClientRelists
  <2> QED
    BY <2>1, <2>2, <2>3
<1>4. CASE ClientCalls
  BY <1>4, <1>a, QueuedAfterAppend
     DEF ClientCalls, circuitVars, mainVars, pollVars
<1>5. CASE ClientCloses
  BY <1>5 DEF ClientCloses, circuitVars, mainVars, pollVars
<1>6. CASE ReadRequest
  <2>1. request' \in Requests /\ inbox' \in Seq(Requests)
    BY <1>6, QueuedAfterTail DEF ReadRequest
  <2>2. mainPc' \in {"probe", "recheck", "respond"}
    BY <1>6 DEF ReadRequest, RouteOf
  <2> QED
    BY <1>6, <2>1, <2>2 DEF ReadRequest, circuitVars, pollVars
<1>6a. CASE RecheckCircuit
  BY <1>6a, <1>a DEF RecheckCircuit, circuitVars, pollVars, clientVars
<1>7. CASE MainProbe
  BY <1>7 DEF MainProbe, circuitVars, pollVars, clientVars
<1>8. CASE MainPost
  <2>1. mainPc' \in {"markUp", "respond", "markDown"}
    <3>1. PICK answered \in PostOutcomes(endpoint, request) :
            mainPc' = CASE answered -> "markUp"
                        [] ~answered /\ request = "list" -> "respond"
                        [] ~answered /\ request # "list" -> "markDown"
      BY <1>8 DEF MainPost
    <3> QED
      BY <3>1
  <2> QED
    BY <1>8, <2>1 DEF MainPost, circuitVars, pollVars, clientVars
<1>9. CASE MarkTransportSuccess
  BY <1>9 DEF MarkTransportSuccess, pollVars, clientVars, FailureSaturation
<1>10. CASE MarkDownAfterTransportFailure
  <2>1. failureCount' \in 1 .. FailureSaturation
    BY <1>10 DEF MarkDownAfterTransportFailure, Min2, FailureSaturation
  <2>2. cooldown' \in {10, 20, 40, 60}
    BY <1>10, <2>1, BackoffRange DEF MarkDownAfterTransportFailure
  <2> QED
    BY <1>10, <2>1, <2>2
       DEF MarkDownAfterTransportFailure, pollVars, clientVars,
           FailureSaturation
<1>11. CASE MainNotify
  BY <1>11 DEF MainNotify, circuitVars, pollVars
<1>12. CASE WriteResponse
  BY <1>12 DEF WriteResponse, circuitVars, pollVars
<1>13. CASE StopPoller
  BY <1>13 DEF StopPoller, circuitVars, pollVars, clientVars
<1>14. CASE JoinPoller
  BY <1>14 DEF JoinPoller, circuitVars, pollVars, clientVars
<1>15. CASE PollStops \/ PollStarts
  BY <1>15 DEF PollStops, PollStarts, circuitVars, mainVars, clientVars
<1>16. CASE PollProbe
  BY <1>16 DEF PollProbe, ProbeAnswers, circuitVars, mainVars, clientVars
<1>17. CASE PollApply
  BY <1>17 DEF PollApply, VerdictOf, circuitVars, mainVars, clientVars
<1>18. CASE PollNotify
  BY <1>18 DEF PollNotify, circuitVars, mainVars
<1>19. CASE UNCHANGED vars
  BY <1>19 DEF vars
<1> QED
  BY <1>1, <1>2, <1>3, <1>4, <1>5, <1>6, <1>6a, <1>7, <1>8, <1>9, <1>10, <1>11,
     <1>12, <1>13, <1>14, <1>15, <1>16, <1>17, <1>18, <1>19
     DEF Next, MainStep, PollStep, Terminated

\* The circuit only moves with time, a failed call and a successful request.
LEMMA CircuitMoves ==
    ASSUME Next, ~Tick, ~MarkTransportSuccess, ~MarkDownAfterTransportFailure
    PROVE  UNCHANGED circuitVars
<1>1. CASE EndpointChanges \/ ClientRelists \/ ClientCalls \/ ClientCloses
  BY <1>1 DEF EndpointChanges, ClientRelists, ClientCalls, ClientCloses
<1>2. CASE ReadRequest \/ RecheckCircuit \/ MainProbe \/ MainPost \/ MainNotify
  BY <1>2 DEF ReadRequest, RecheckCircuit, MainProbe, MainPost, MainNotify
<1>3. CASE WriteResponse \/ StopPoller \/ JoinPoller
  BY <1>3 DEF WriteResponse, StopPoller, JoinPoller
<1>4. CASE PollStep
  BY <1>4 DEF PollStep, PollStops, PollStarts, PollProbe, PollApply, PollNotify
<1>5. CASE Terminated
  BY <1>5 DEF Terminated, vars, circuitVars
<1> QED
  BY <1>1, <1>2, <1>3, <1>4, <1>5 DEF Next, MainStep

\* Arithmetic of the next lemma, on plain integers.
LEMMA SumStillCovers ==
    ASSUME NEW b \in Int, NEW c \in Int, NEW d \in Int,
           NEW e \in Int, NEW f \in Int,
           c + d >= e + f, e + f >= b
    PROVE  c + d >= b
OBVIOUS

\* Time shortens the cooldown by no more than it lengthens the time passed; a
\* failure restarts both; a success clears the failure count.
LEMMA CooldownStep ==
    TypeOK /\ CooldownCoversBackoff /\ [Next]_vars => CooldownCoversBackoff'
<1> SUFFICES ASSUME TypeOK, CooldownCoversBackoff, [Next]_vars
             PROVE  CooldownCoversBackoff'
  OBVIOUS
<1>1. CASE Tick
  <2>1. cooldown' + sinceFailure' >= cooldown + sinceFailure
    BY <1>1 DEF Tick, TypeOK, TickSeconds, Max2
  <2>2. /\ failureCount' = failureCount
        /\ cooldown' \in Int /\ sinceFailure' \in Int
        /\ cooldown \in Int /\ sinceFailure \in Int
    BY <1>1 DEF Tick, TypeOK, TickSeconds, Max2
  <2>3. failureCount > 0 => Backoff(failureCount) \in Int
    BY BackoffRange DEF TypeOK, FailureSaturation
  <2>4. CASE failureCount > 0
    <3>1. PICK b \in Int : b = Backoff(failureCount)
      BY <2>3, <2>4
    <3>2. cooldown + sinceFailure >= b
      BY <2>4, <3>1 DEF CooldownCoversBackoff
    <3>3. cooldown' + sinceFailure' >= b
      BY <2>1, <2>2, <3>2, SumStillCovers
    <3> QED
      BY <2>2, <3>1, <3>3 DEF CooldownCoversBackoff
  <2>5. CASE ~(failureCount > 0)
    BY <2>2, <2>5 DEF CooldownCoversBackoff
  <2> QED
    BY <2>4, <2>5
<1>2. CASE MarkTransportSuccess
  BY <1>2 DEF MarkTransportSuccess, CooldownCoversBackoff
<1>3. CASE MarkDownAfterTransportFailure
  <2>1. failureCount' \in 1 .. FailureSaturation
    BY <1>3 DEF MarkDownAfterTransportFailure, Min2, FailureSaturation, TypeOK
  <2>2. Backoff(failureCount') \in Int
    BY <2>1, BackoffRange
  <2> QED
    BY <1>3, <2>2 DEF MarkDownAfterTransportFailure, CooldownCoversBackoff
<1>4. CASE UNCHANGED circuitVars
  BY <1>4 DEF circuitVars, CooldownCoversBackoff
<1> QED
  BY <1>1, <1>2, <1>3, <1>4, CircuitMoves DEF vars, circuitVars

\* Main starts to talk to the endpoint only with the circuit closed, and only
\* main reopens it, so the backoff stays elapsed until main is done.
LEMMA AttemptStep ==
    TypeOK /\ CooldownCoversBackoff /\ LiveAttemptsRespectBackoff /\ [Next]_vars
      => LiveAttemptsRespectBackoff'
<1> SUFFICES ASSUME TypeOK, CooldownCoversBackoff, LiveAttemptsRespectBackoff,
                    [Next]_vars
             PROVE  LiveAttemptsRespectBackoff'
  OBVIOUS
<1> USE DEF LiveAttemptsRespectBackoff
<1>1. CASE ReadRequest
  <2>1. CASE TakesLiveRoute(Head(inbox))
    <3>1. ~CircuitOpen
      BY <2>1 DEF TakesLiveRoute, LiveListAllowed, LiveCallAllowed
    <3>2. cooldown = 0
      BY <3>1 DEF CircuitOpen, TypeOK
    <3>3. BackoffElapsed
      BY <3>2 DEF CooldownCoversBackoff, BackoffElapsed, TypeOK
    <3> QED
      BY <1>1, <3>3 DEF ReadRequest, circuitVars, BackoffElapsed
  <2>2. CASE ~TakesLiveRoute(Head(inbox))
    BY <1>1, <2>2 DEF ReadRequest, RouteOf
  <2> QED
    BY <2>1, <2>2
<1>1a. CASE RecheckCircuit
  <2>1. CASE CircuitOpen
    BY <1>1a, <2>1 DEF RecheckCircuit
  <2>2. CASE ~CircuitOpen
    <3>1. cooldown = 0
      BY <2>2 DEF CircuitOpen, TypeOK
    <3>2. BackoffElapsed
      BY <3>1 DEF CooldownCoversBackoff, BackoffElapsed, TypeOK
    <3> QED
      BY <1>1a, <3>2 DEF RecheckCircuit, circuitVars, BackoffElapsed
  <2> QED
    BY <2>1, <2>2
<1>2. CASE Tick
  <2>1. BackoffElapsed => BackoffElapsed'
    <3> SUFFICES ASSUME failureCount > 0, sinceFailure >= Backoff(failureCount)
                 PROVE  BackoffElapsed'
      BY <1>2 DEF BackoffElapsed, Tick
    <3>1. Backoff(failureCount) \in {10, 20, 40, 60}
      BY BackoffRange DEF TypeOK, FailureSaturation
    <3>2. \A b \in {10, 20, 40, 60}, t \in {0, 10, 20, 30, 40, 50, 60} :
            t >= b => t + 10 >= b
      OBVIOUS
    <3>3. sinceFailure' >= Backoff(failureCount)
      BY <1>2, <3>1, <3>2 DEF Tick, TickSeconds, TypeOK
    <3> QED
      BY <1>2, <3>3 DEF Tick, BackoffElapsed
  <2> QED
    BY <1>2, <2>1 DEF Tick, mainVars
<1>3. CASE MarkTransportSuccess \/ MarkDownAfterTransportFailure
  BY <1>3 DEF MarkTransportSuccess, MarkDownAfterTransportFailure
<1>4. CASE MainProbe
  BY <1>4 DEF MainProbe, circuitVars, BackoffElapsed
<1>5. CASE MainPost
  <2>1. mainPc' \in {"markUp", "respond", "markDown"}
    <3>1. PICK answered \in PostOutcomes(endpoint, request) :
            mainPc' = CASE answered -> "markUp"
                        [] ~answered /\ request = "list" -> "respond"
                        [] ~answered /\ request # "list" -> "markDown"
      BY <1>5 DEF MainPost
    <3> QED
      BY <3>1
  <2> QED
    BY <2>1
<1>6. CASE MainNotify \/ WriteResponse \/ StopPoller \/ JoinPoller
  BY <1>6 DEF MainNotify, WriteResponse, StopPoller, JoinPoller
<1>7. CASE PollStep
  BY <1>7 DEF PollStep, PollStops, PollStarts, PollProbe, PollApply,
              PollNotify, mainVars, circuitVars, BackoffElapsed
<1>8. CASE EndpointChanges \/ ClientRelists \/ ClientCalls \/ ClientCloses
  BY <1>8 DEF EndpointChanges, ClientRelists, ClientCalls, ClientCloses,
              mainVars, circuitVars, BackoffElapsed
<1>9. CASE UNCHANGED vars
  BY <1>9 DEF vars, BackoffElapsed
<1> QED
  BY <1>1, <1>1a, <1>2, <1>3, <1>4, <1>5, <1>6, <1>7, <1>8, <1>9
     DEF Next, MainStep, Terminated

\* A queued tools/list stays queued until main takes it in hand.
LEMMA QueueStep ==
    ASSUME TypeOK, [Next]_vars, ListQueued
    PROVE  ListQueued' \/ (ReadRequest /\ request' = "list")
<1>1. CASE ClientRelists \/ ClientCalls
  <2>1. PICK r \in Requests : inbox' = Append(inbox, r)
    BY <1>1 DEF ClientRelists, ClientCalls, Requests
  <2> QED
    BY <2>1, QueuedAfterAppend DEF ListQueued, TypeOK
<1>2. CASE ReadRequest
  BY <1>2, QueuedAfterTail DEF ReadRequest, ListQueued, TypeOK
<1>3. CASE UNCHANGED inbox
  BY <1>3 DEF ListQueued
<1>4. (~ClientRelists /\ ~ClientCalls /\ ~ReadRequest) => UNCHANGED inbox
  BY DEF Next, MainStep, PollStep, Terminated, EndpointChanges, Tick,
         ClientCloses, RecheckCircuit, MainProbe, MainPost, MarkTransportSuccess,
         MarkDownAfterTransportFailure, MainNotify, WriteResponse, StopPoller,
         JoinPoller, PollStops, PollStarts, PollProbe, PollApply, PollNotify,
         clientVars, vars
<1> QED
  BY <1>1, <1>2, <1>3, <1>4

\* Where MainPost may leave main.
LEMMA PostTarget == MainPost => mainPc' \in {"markUp", "respond", "markDown"}
<1> SUFFICES ASSUME MainPost PROVE mainPc' \in {"markUp", "respond", "markDown"}
  OBVIOUS
<1>1. PICK answered \in PostOutcomes(endpoint, request) :
        mainPc' = CASE answered -> "markUp"
                    [] ~answered /\ request = "list" -> "respond"
                    [] ~answered /\ request # "list" -> "markDown"
  BY DEF MainPost
<1> QED
  BY <1>1

\* Only the success of the live route makes the response live.
LEMMA ColdStep == ColdUntilMarked /\ [Next]_vars => ColdUntilMarked'
<1> SUFFICES ASSUME ColdUntilMarked, [Next]_vars PROVE ColdUntilMarked'
  OBVIOUS
<1> USE DEF ColdUntilMarked
<1>1. CASE ReadRequest \/ RecheckCircuit \/ MainProbe
  BY <1>1 DEF ReadRequest, RecheckCircuit, MainProbe
<1>2. CASE MainPost
  BY <1>2, PostTarget DEF MainPost
<1>3. CASE MarkTransportSuccess \/ MarkDownAfterTransportFailure
  BY <1>3 DEF MarkTransportSuccess, MarkDownAfterTransportFailure
<1>4. CASE MainNotify \/ WriteResponse \/ StopPoller \/ JoinPoller
  BY <1>4 DEF MainNotify, WriteResponse, StopPoller, JoinPoller
<1>5. CASE PollStep
  BY <1>5 DEF PollStep, PollStops, PollStarts, PollProbe, PollApply,
              PollNotify, mainVars
<1>6. CASE EndpointChanges \/ Tick \/ ClientRelists \/ ClientCalls \/ ClientCloses
  BY <1>6 DEF EndpointChanges, Tick, ClientRelists, ClientCalls, ClientCloses,
              mainVars
<1>7. CASE UNCHANGED vars
  BY <1>7 DEF vars
<1> QED
  BY <1>1, <1>2, <1>3, <1>4, <1>5, <1>6, <1>7 DEF Next, MainStep, Terminated

\* The withdrawal of the live surface survives every step, action by action.
LEMMA WithdrawalStep ==
    /\ TypeOK /\ ColdUntilMarked /\ RecheckIsRead
    /\ LiveSurfaceIsWithdrawn /\ LiveAnswerIsWithdrawn
    /\ [Next]_vars
    => LiveSurfaceIsWithdrawn' /\ LiveAnswerIsWithdrawn'
<1> SUFFICES ASSUME TypeOK, ColdUntilMarked, RecheckIsRead,
                    LiveSurfaceIsWithdrawn, LiveAnswerIsWithdrawn, [Next]_vars
             PROVE  LiveSurfaceIsWithdrawn' /\ LiveAnswerIsWithdrawn'
  OBVIOUS
<1> USE DEF LiveSurfaceIsWithdrawn, LiveAnswerIsWithdrawn, Renewing, ListInHand,
            KnownUp
<1>1. CASE EndpointChanges \/ Tick \/ ClientCloses
  BY <1>1 DEF EndpointChanges, Tick, ClientCloses, mainVars, pollVars,
              clientVars, ListQueued
<1>2. CASE ClientRelists
  <2>1. ListQueued'
    BY <1>2, QueuedAfterAppend DEF ClientRelists, ListQueued, TypeOK, Requests
  <2> QED
    BY <2>1
<1>3. CASE ClientCalls
  <2>1. ListQueued => ListQueued'
    BY <1>3, QueueStep DEF ClientCalls, mainVars, ReadRequest
  <2> QED
    BY <1>3, <2>1 DEF ClientCalls, mainVars, pollVars
<1>4. CASE ReadRequest
  <2>1. ListQueued => ListQueued' \/ request' = "list"
    BY <1>4, QueueStep
  <2>2. mainPc' \in {"probe", "recheck", "respond"} /\ response' = ColdResponse
    BY <1>4 DEF ReadRequest, RouteOf
  <2> QED
    BY <1>4, <2>1, <2>2 DEF ReadRequest, pollVars, ColdResponse, LiveResponse
<1>5. CASE MainProbe \/ MainPost
  <2>1. /\ mainPc' \in {"post", "respond", "markUp", "markDown"}
        /\ mainPc \in {"probe", "post"}
        /\ response' = response /\ response = ColdResponse
        /\ UNCHANGED <<wasUp, request, surface, relist, inbox, pollPc>>
    BY <1>5, PostTarget
       DEF MainProbe, MainPost, pollVars, clientVars, ColdUntilMarked
  <2> QED
    BY <2>1 DEF ListQueued, ColdResponse, LiveResponse
<1>5a. CASE RecheckCircuit
  <2>1. /\ mainPc' \in {"respond", "probe"} /\ mainPc = "recheck"
        /\ response' = response /\ response = ColdResponse
        /\ request = "read" /\ request' # "list"
        /\ UNCHANGED <<wasUp, surface, relist, inbox, pollPc>>
    BY <1>5a DEF RecheckCircuit, pollVars, clientVars, ColdUntilMarked, RecheckIsRead
  <2> QED
    BY <2>1 DEF ListQueued, ColdResponse, LiveResponse
<1>6. CASE MarkTransportSuccess
  BY <1>6 DEF MarkTransportSuccess
<1>7. CASE MarkDownAfterTransportFailure
  BY <1>7 DEF MarkDownAfterTransportFailure, ColdUntilMarked, ColdResponse,
              LiveResponse, pollVars, clientVars, ListQueued
<1>8. CASE MainNotify \/ PollNotify
  BY <1>8 DEF MainNotify, PollNotify
<1>9. CASE WriteResponse
  BY <1>9 DEF WriteResponse, pollVars, ListQueued
<1>10. CASE StopPoller \/ JoinPoller
  BY <1>10 DEF StopPoller, JoinPoller, pollVars, clientVars, ListQueued
<1>11. CASE PollStops \/ PollStarts \/ PollProbe
  BY <1>11 DEF PollStops, PollStarts, PollProbe, mainVars, clientVars,
               ListQueued
<1>12. CASE PollApply
  BY <1>12 DEF PollApply, ShouldNotify, VerdictOf, mainVars, clientVars,
               ListQueued, TypeOK
<1>13. CASE UNCHANGED vars
  BY <1>13 DEF vars, ListQueued
<1> QED
  BY <1>1, <1>2, <1>3, <1>4, <1>5, <1>5a, <1>6, <1>7, <1>8, <1>9, <1>10, <1>11,
     <1>12, <1>13 DEF Next, MainStep, PollStep, Terminated

\* Only a read is sent to its second look at the circuit.
LEMMA RecheckStep == RecheckIsRead /\ [Next]_vars => RecheckIsRead'
<1> SUFFICES ASSUME RecheckIsRead, [Next]_vars PROVE RecheckIsRead'
  OBVIOUS
<1> USE DEF RecheckIsRead
<1>1. CASE ReadRequest
  BY <1>1 DEF ReadRequest, RouteOf
<1>2. CASE RecheckCircuit \/ MainProbe
  BY <1>2 DEF RecheckCircuit, MainProbe
<1>3. CASE MainPost
  BY <1>3, PostTarget
<1>4. CASE MarkTransportSuccess \/ MarkDownAfterTransportFailure \/ MainNotify
            \/ WriteResponse \/ StopPoller \/ JoinPoller
  BY <1>4 DEF MarkTransportSuccess, MarkDownAfterTransportFailure, MainNotify,
              WriteResponse, StopPoller, JoinPoller
<1>5. CASE PollStep
  BY <1>5 DEF PollStep, PollStops, PollStarts, PollProbe, PollApply,
              PollNotify, mainVars
<1>6. CASE EndpointChanges \/ Tick \/ ClientRelists \/ ClientCalls \/ ClientCloses
  BY <1>6 DEF EndpointChanges, Tick, ClientRelists, ClientCalls, ClientCloses,
              mainVars
<1>7. CASE UNCHANGED vars
  BY <1>7 DEF vars
<1> QED
  BY <1>1, <1>2, <1>3, <1>4, <1>5, <1>6, <1>7 DEF Next, MainStep, Terminated

\* The poller stops only when told to, and main exits only after it has.
LEMMA StopStep == TypeOK /\ StopProtocol /\ [Next]_vars => StopProtocol'
<1> SUFFICES ASSUME TypeOK, StopProtocol, [Next]_vars PROVE StopProtocol'
  OBVIOUS
<1> USE DEF StopProtocol
<1>1. CASE StopPoller \/ JoinPoller
  BY <1>1 DEF StopPoller, JoinPoller, pollVars
<1>2. CASE ReadRequest \/ RecheckCircuit \/ MainProbe \/ MarkTransportSuccess
            \/ MarkDownAfterTransportFailure \/ MainNotify \/ WriteResponse
  BY <1>2 DEF ReadRequest, RouteOf, RecheckCircuit, MainProbe, MarkTransportSuccess,
              MarkDownAfterTransportFailure, MainNotify, WriteResponse, pollVars
<1>3. CASE MainPost
  BY <1>3, PostTarget DEF MainPost, pollVars
<1>4. CASE PollStep
  BY <1>4 DEF PollStep, PollStops, PollStarts, PollProbe, PollApply,
              PollNotify, mainVars
<1>5. CASE EndpointChanges \/ Tick \/ ClientRelists \/ ClientCalls \/ ClientCloses
  BY <1>5 DEF EndpointChanges, Tick, ClientRelists, ClientCalls, ClientCloses,
              mainVars, pollVars
<1>6. CASE UNCHANGED vars
  BY <1>6 DEF vars
<1> QED
  BY <1>1, <1>2, <1>3, <1>4, <1>5, <1>6 DEF Next, MainStep, Terminated

-----------------------------------------------------------------------------
(* The theorems.                                                           *)

\* The strengthened invariant is inductive: it holds of every reachable state.
THEOREM Invariance == Spec => []IInv
<1>1. IInv /\ [Next]_vars => IInv'
  BY TypeStep, CooldownStep, AttemptStep, ColdStep, RecheckStep,
     WithdrawalStep, StopStep
     DEF IInv
<1> QED
  BY InitIInv, <1>1, PTL DEF Spec

\* Every variable keeps its type.
THEOREM TypeCorrect == Spec => []TypeOK
<1>1. IInv => TypeOK
  BY DEF IInv
<1> QED
  BY Invariance, <1>1, PTL

\* A client holding the live tools under a verdict that is not up has been told
\* to list again, or is about to be.
THEOREM WithdrawalTheorem == Spec => []LiveSurfaceIsWithdrawn
<1>1. IInv => LiveSurfaceIsWithdrawn
  BY DEF IInv
<1> QED
  BY Invariance, <1>1, PTL

\* Main talks to the endpoint only when the full backoff has elapsed.
THEOREM BackoffTheorem == Spec => []LiveAttemptsRespectBackoff
<1>1. IInv => LiveAttemptsRespectBackoff
  BY DEF IInv
<1> QED
  BY Invariance, <1>1, PTL

\* No poller outlives main.
THEOREM PollerOwnershipTheorem == Spec => []PollerOwnedUntilExit
<1>1. IInv => PollerOwnedUntilExit
  BY DEF IInv, StopProtocol, PollerOwnedUntilExit
<1> QED
  BY Invariance, <1>1, PTL

\* The poller starts a probe only when the full backoff has elapsed.
THEOREM PollerBackoffTheorem == Spec => PollerHonorsBackoff
<1>1. IInv /\ [Next]_vars =>
        [pollPc = "sleep" /\ pollPc' = "probe" => BackoffElapsed]_vars
  <2> SUFFICES ASSUME IInv, Next, pollPc = "sleep", pollPc' = "probe"
               PROVE  BackoffElapsed
    OBVIOUS
  <2>1. PollStarts
    BY DEF Next, MainStep, PollStep, Terminated, EndpointChanges, Tick,
           ClientRelists, ClientCalls, ClientCloses, ReadRequest,
           RecheckCircuit, MainProbe, MainPost, MarkTransportSuccess, MarkDownAfterTransportFailure,
           MainNotify, WriteResponse, StopPoller, JoinPoller, PollStops,
           PollProbe, PollApply, PollNotify, pollVars, vars
  <2>2. cooldown = 0
    BY <2>1 DEF PollStarts, CircuitOpen, IInv, TypeOK
  <2> QED
    BY <2>2 DEF IInv, TypeOK, CooldownCoversBackoff, BackoffElapsed
<1> QED
  BY Invariance, <1>1, PTL DEF Spec, PollerHonorsBackoff
=============================================================================
