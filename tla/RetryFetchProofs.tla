-------------------------- MODULE RetryFetchProofs --------------------------
(***************************************************************************)
(* What RetryFetch guarantees for every number of hosts and requests and   *)
(* every threshold: its types, the meaning of the breaker's one counter,   *)
(* the retry of transient answers, and the contract of the breaker.        *)
(***************************************************************************)
EXTENDS RetryFetch, TLAPS

LEMMA NewIsBreaker == NewCircuitBreaker \in Breaker
BY DEF NewCircuitBreaker, Breaker, CircuitState

LEMMA AllowIsBreaker ==
  ASSUME NEW b \in Breaker PROVE AfterAllow(b) \in Breaker
BY DEF AfterAllow, Recovered, Breaker, CircuitState

LEMMA SuccessIsBreaker ==
  ASSUME NEW b \in Breaker PROVE AfterSuccess(b) \in Breaker
<1>1. b.consecutiveFails + 1 \in Nat
  BY DEF Breaker
<1>2. CASE b.state # "HalfOpen"
  BY <1>2 DEF AfterSuccess, Breaker, CircuitState
<1>3. CASE b.state = "HalfOpen" /\ b.consecutiveFails + 1 >= SuccessThreshold
  BY <1>3 DEF AfterSuccess, Breaker, CircuitState
<1>4. CASE b.state = "HalfOpen" /\ ~(b.consecutiveFails + 1 >= SuccessThreshold)
  BY <1>1, <1>4 DEF AfterSuccess, Breaker, CircuitState
<1>5. QED
  BY <1>2, <1>3, <1>4

LEMMA FailureIsBreaker ==
  ASSUME NEW b \in Breaker PROVE AfterFailure(b) \in Breaker
<1> DEFINE counted == [b EXCEPT !.consecutiveFails = @ + 1,
                                !.everFailed = TRUE,
                                !.sinceFailure = 0]
<1>1. b.consecutiveFails + 1 \in Nat
  BY DEF Breaker
<1>2. counted \in Breaker
  BY <1>1 DEF Breaker
<1>3. [counted EXCEPT !.state = "Open", !.sinceOpened = 0] \in Breaker
  <2> HIDE DEF counted
  <2> QED BY <1>2 DEF Breaker, CircuitState
<1>4. QED
  BY <1>2, <1>3 DEF AfterFailure

LEMMA TickIsBreaker ==
  ASSUME NEW b \in Breaker PROVE AfterTick(b) \in Breaker
<1>1. \A age \in Nat, limit \in Nat : Older(age, limit) \in Nat
  BY DEF Older
<1>2. /\ b.sinceOpened \in Nat
      /\ b.sinceFailure \in Nat
  BY DEF Breaker
<1> DEFINE opened == IF b.state = "Open" THEN Older(b.sinceOpened, RecoveryTimeout)
                                         ELSE b.sinceOpened
           failed == IF b.everFailed THEN Older(b.sinceFailure, StaleAge)
                                     ELSE b.sinceFailure
<1>3. opened \in Nat /\ failed \in Nat
  BY <1>1, <1>2, BreakerAssumption
<1>4. AfterTick(b) = [b EXCEPT !.sinceOpened = opened, !.sinceFailure = failed]
  BY DEF AfterTick
<1> HIDE DEF opened, failed
<1>5. QED
  BY <1>3, <1>4 DEF Breaker

LEMMA TickOfNew == AfterTick(NewCircuitBreaker) = NewCircuitBreaker
BY DEF AfterTick, NewCircuitBreaker

LEMMA MapsToBreakers == TypeOK => \A h \in Hosts : breakers[h] \in Breaker
BY DEF TypeOK, LimiterTypeOK

-----------------------------------------------------------------------------
(* Types: each limiter method, each way a request moves, then each action. *)

LEMMA AllowKeepsTypes ==
  ASSUME TypeOK, NEW h \in Hosts, LimiterAllow(h)
  PROVE  LimiterTypeOK'
<1> DEFINE dropped == IF CleanupDue THEN StaleHosts ELSE {}
           b == IF h \in dropped THEN NewCircuitBreaker ELSE breakers[h]
<1>1. /\ known' = (known \ dropped) \union {h}
      /\ breakers' = [g \in Hosts |-> IF g = h THEN AfterAllow(b)
                                      ELSE IF g \in dropped
                                             THEN NewCircuitBreaker
                                             ELSE breakers[g]]
      /\ sinceCleanup' = IF CleanupDue THEN 0 ELSE sinceCleanup
  BY DEF LimiterAllow
<1>2. b \in Breaker
  BY NewIsBreaker, MapsToBreakers
<1>3. dropped \subseteq Hosts
  BY DEF StaleHosts, TypeOK, LimiterTypeOK
<1> HIDE DEF dropped, b
<1>4. known' \in SUBSET Hosts /\ sinceCleanup' \in Nat
  BY <1>1, <1>3 DEF TypeOK, LimiterTypeOK
<1>5. breakers' \in [Hosts -> Breaker]
  BY <1>1, <1>2, AllowIsBreaker, NewIsBreaker, MapsToBreakers
<1>6. \A g \in Hosts \ known' : breakers'[g] = NewCircuitBreaker
  BY <1>1 DEF TypeOK, LimiterTypeOK
<1>7. QED
  BY <1>4, <1>5, <1>6 DEF LimiterTypeOK

LEMMA RecordKeepsTypes ==
  ASSUME TypeOK, NEW h \in Hosts, RecordSuccess(h) \/ RecordFailure(h)
  PROVE  LimiterTypeOK'
<1>1. /\ AfterSuccess(breakers[h]) \in Breaker
      /\ AfterFailure(breakers[h]) \in Breaker
  BY MapsToBreakers, SuccessIsBreaker, FailureIsBreaker
<1>2. breakers' \in [Hosts -> Breaker]
  BY <1>1 DEF RecordSuccess, RecordFailure, TypeOK, LimiterTypeOK
<1>3. \A g \in Hosts \ known' : breakers'[g] = NewCircuitBreaker
  BY DEF RecordSuccess, RecordFailure, TypeOK, LimiterTypeOK
<1>4. QED
  BY <1>2, <1>3 DEF RecordSuccess, RecordFailure, TypeOK, LimiterTypeOK

LEMMA MoveKeepsTypes ==
  ASSUME TypeOK, NEW r \in Requests, NEW place \in Place, MoveTo(r, place)
  PROVE  LoopTypeOK'
BY DEF MoveTo, TypeOK, LoopTypeOK

LEMMA ReturnKeepsTypes ==
  ASSUME TypeOK, NEW r \in Requests, NEW res \in Result, Return(r, res)
  PROVE  LoopTypeOK'
BY DEF Return, TypeOK, LoopTypeOK, Place

LEMMA UnchangedLimiter == TypeOK /\ UNCHANGED limiterVars => LimiterTypeOK'
BY DEF limiterVars, TypeOK, LimiterTypeOK

LEMMA TypeInit == Init => TypeOK
BY FetchAssumption, NewIsBreaker
   DEF Init, TypeOK, LimiterTypeOK, LoopTypeOK, Place, Result

LEMMA StepKeepsTypes ==
  ASSUME IInv, NEW r \in Requests, Step(r)
  PROVE  TypeOK'
<1>1. /\ TypeOK
      /\ host[r] \in Hosts
      /\ result[r] \in Result
      /\ attempt[r] \in 0..MaxRetries
  BY DEF IInv, TypeOK, LoopTypeOK
<1>2. CASE Gate(r)
  <2>1. LimiterTypeOK'
    BY <1>1, <1>2, AllowKeepsTypes DEF Gate
  <2>2. \A c : (IF c THEN "doomed" ELSE "sent") \in Place
    BY DEF Place, OnTheWire
  <2>3. "rejected" \in Result
    BY DEF Result
  <2>4. LoopTypeOK'
    BY <1>1, <1>2, <2>2, <2>3, MoveKeepsTypes, ReturnKeepsTypes DEF Gate
  <2>5. QED
    BY <2>1, <2>4 DEF TypeOK
<1>3. CASE Error(r) \/ AzureTooLarge(r)
  <2>1. LimiterTypeOK'
    BY <1>1, <1>3, RecordKeepsTypes DEF Error, AzureTooLarge
  <2>2. LoopTypeOK'
    BY <1>1, <1>3, MoveKeepsTypes, ReturnKeepsTypes
       DEF Error, AzureTooLarge, AfterError, Place, Result
  <2>3. QED
    BY <2>1, <2>2 DEF TypeOK
<1>4. CASE BackoffOver(r)
  <2>1. attempt[r] + 1 \in 0..MaxRetries
    BY <1>1, <1>4, FetchAssumption DEF BackoffOver, IInv
  <2>2. QED
    BY <1>1, <1>4, <2>1, UnchangedLimiter
       DEF BackoffOver, TypeOK, LoopTypeOK, Place
<1>5. CASE BackoffCancelled(r) \/ HonestReadFails(r) \/ AzureRefused(r)
  BY <1>1, <1>5, UnchangedLimiter, ReturnKeepsTypes
     DEF BackoffCancelled, HonestReadFails, AzureRefused, Result, TypeOK
<1>6. CASE HonestRetryStatus(r)
  BY <1>1, <1>6, RecordKeepsTypes, MoveKeepsTypes
     DEF HonestRetryStatus, Place, TypeOK
<1>7. CASE HonestResponse(r)
  BY <1>1, <1>7, UnchangedLimiter
     DEF HonestResponse, TypeOK, LoopTypeOK, Place, OnTheWire, Result
<1>8. CASE HonestRead(r)
  BY <1>1, <1>8, RecordKeepsTypes, ReturnKeepsTypes DEF HonestRead, TypeOK
<1>9. CASE AzureResponse(r)
  BY <1>1, <1>9, RecordKeepsTypes, ReturnKeepsTypes
     DEF AzureResponse, Result, TypeOK
<1>10. QED
  BY <1>2, <1>3, <1>4, <1>5, <1>6, <1>7, <1>8, <1>9 DEF Step

LEMMA NextKeepsTypes == IInv /\ [Next]_vars => TypeOK'
<1> SUFFICES ASSUME IInv, [Next]_vars PROVE TypeOK'
  OBVIOUS
<1>1. TypeOK
  BY DEF IInv
<1>2. ASSUME NEW r \in Requests, Begin(r) \/ Deadline(r) \/ Cancel(r)
      PROVE  TypeOK'
  <2>1. LimiterTypeOK'
    BY <1>1, <1>2, UnchangedLimiter DEF Begin, Deadline, Cancel
  <2>2. CASE Begin(r)
    BY <1>1, <2>1, <2>2, FetchAssumption
       DEF Begin, TypeOK, LoopTypeOK, Place, Result
  <2>3. CASE Deadline(r) \/ Cancel(r)
    BY <1>1, <2>1, <2>3 DEF Deadline, Cancel, TypeOK, LoopTypeOK
  <2>4. QED
    BY <1>2, <2>2, <2>3
<1>3. CASE Tick
  <2>1. breakers' \in [Hosts -> Breaker]
    BY <1>1, <1>3, MapsToBreakers, TickIsBreaker DEF Tick
  <2>2. \A h \in Hosts \ known' : breakers'[h] = NewCircuitBreaker
    BY <1>1, <1>3, TickOfNew DEF Tick, TypeOK, LimiterTypeOK
  <2>3. sinceCleanup' \in Nat
    BY <1>1, <1>3, FetchAssumption DEF Tick, Older, TypeOK, LimiterTypeOK
  <2>4. QED
    BY <1>1, <1>3, <2>1, <2>2, <2>3
       DEF Tick, TypeOK, LimiterTypeOK, LoopTypeOK, loopVars
<1>4. CASE CleanupStale
  BY <1>1, <1>4, NewIsBreaker
     DEF CleanupStale, StaleHosts, TypeOK, LimiterTypeOK, LoopTypeOK, loopVars
<1>5. CASE UNCHANGED vars
  BY <1>1, <1>5
     DEF vars, limiterVars, loopVars, TypeOK, LimiterTypeOK, LoopTypeOK
<1>6. QED
  BY <1>2, <1>3, <1>4, <1>5, StepKeepsTypes DEF Next

-----------------------------------------------------------------------------
(* The counters: each breaker method keeps them under the thresholds.      *)

CountOK(b) ==
  /\ b.state = "Closed"   => b.consecutiveFails < FailureThreshold
  /\ b.state = "HalfOpen" => b.consecutiveFails < SuccessThreshold

LEMMA CountOfNew == CountOK(NewCircuitBreaker)
BY BreakerAssumption DEF CountOK, NewCircuitBreaker

LEMMA CountAfterAllow ==
  ASSUME NEW b \in Breaker, CountOK(b) PROVE CountOK(AfterAllow(b))
BY BreakerAssumption DEF CountOK, AfterAllow, Breaker

LEMMA CountAfterSuccess ==
  ASSUME NEW b \in Breaker, CountOK(b) PROVE CountOK(AfterSuccess(b))
<1>1. CASE b.state # "HalfOpen"
  BY <1>1, BreakerAssumption DEF CountOK, AfterSuccess, Breaker
<1>2. CASE b.state = "HalfOpen" /\ b.consecutiveFails + 1 >= SuccessThreshold
  BY <1>2, BreakerAssumption DEF CountOK, AfterSuccess, Breaker
<1>3. CASE b.state = "HalfOpen" /\ ~(b.consecutiveFails + 1 >= SuccessThreshold)
  <2>1. AfterSuccess(b) = [b EXCEPT !.consecutiveFails = @ + 1]
    BY <1>3 DEF AfterSuccess
  <2>2. b.consecutiveFails + 1 < SuccessThreshold
    BY <1>3, BreakerAssumption DEF Breaker
  <2>3. QED
    BY <1>3, <2>1, <2>2 DEF CountOK, Breaker
<1>4. QED
  BY <1>1, <1>2, <1>3

\* The fields of a breaker after a failure.
LEMMA FieldsAfterFailure ==
  ASSUME NEW b \in Breaker
  PROVE  LET f == AfterFailure(b)
             trips == \/ b.state = "HalfOpen"
                      \/ b.consecutiveFails + 1 >= FailureThreshold
         IN  /\ f.consecutiveFails = b.consecutiveFails + 1
             /\ f.state = IF trips THEN "Open" ELSE b.state
             /\ f.sinceOpened = IF trips THEN 0 ELSE b.sinceOpened
BY DEF AfterFailure, Breaker

LEMMA CountAfterFailure ==
  ASSUME NEW b \in Breaker, CountOK(b) PROVE CountOK(AfterFailure(b))
<1>1. b.consecutiveFails \in Nat /\ b.state \in CircuitState
  BY DEF Breaker
<1>2. QED
  BY <1>1, FieldsAfterFailure, BreakerAssumption DEF CountOK, CircuitState

\* The fields of a breaker after a tick.
LEMMA FieldsAfterTick ==
  ASSUME NEW b \in Breaker
  PROVE  LET t == AfterTick(b)
         IN  /\ t.consecutiveFails = b.consecutiveFails
             /\ t.state = b.state
             /\ t.sinceOpened = IF b.state = "Open"
                                  THEN Older(b.sinceOpened, RecoveryTimeout)
                                  ELSE b.sinceOpened
BY DEF AfterTick, Breaker

LEMMA CountAfterTick ==
  ASSUME NEW b \in Breaker, CountOK(b) PROVE CountOK(AfterTick(b))
BY FieldsAfterTick DEF CountOK

LEMMA CountsAsLemma ==
  CountsBelowThresholds <=> \A h \in Hosts : CountOK(breakers[h])
BY DEF CountsBelowThresholds, CountOK, Mode

LEMMA AllowKeepsCounts ==
  ASSUME IInv, NEW h \in Hosts, LimiterAllow(h)
  PROVE  CountsBelowThresholds'
<1> DEFINE dropped == IF CleanupDue THEN StaleHosts ELSE {}
           b == IF h \in dropped THEN NewCircuitBreaker ELSE breakers[h]
<1>1. breakers' = [g \in Hosts |-> IF g = h THEN AfterAllow(b)
                                  ELSE IF g \in dropped
                                         THEN NewCircuitBreaker
                                         ELSE breakers[g]]
  BY DEF LimiterAllow
<1>2. \A g \in Hosts : breakers[g] \in Breaker /\ CountOK(breakers[g])
  BY MapsToBreakers, CountsAsLemma DEF IInv
<1>3. b \in Breaker /\ CountOK(b)
  BY <1>2, NewIsBreaker, CountOfNew
<1> HIDE DEF dropped, b
<1>4. \A g \in Hosts : CountOK(breakers'[g])
  BY <1>1, <1>2, <1>3, CountAfterAllow, CountOfNew
<1>5. QED
  BY <1>4 DEF CountsBelowThresholds, CountOK, Mode

LEMMA RecordKeepsCounts ==
  ASSUME IInv, NEW h \in Hosts, RecordSuccess(h) \/ RecordFailure(h)
  PROVE  CountsBelowThresholds'
<1>1. \A g \in Hosts : breakers[g] \in Breaker /\ CountOK(breakers[g])
  BY MapsToBreakers, CountsAsLemma DEF IInv
<1>2. /\ CountOK(AfterSuccess(breakers[h]))
      /\ CountOK(AfterFailure(breakers[h]))
  BY <1>1, CountAfterSuccess, CountAfterFailure
<1>3. \A g \in Hosts : CountOK(breakers'[g])
  BY <1>1, <1>2
     DEF RecordSuccess, RecordFailure, IInv, TypeOK, LimiterTypeOK
<1>4. QED
  BY <1>3 DEF CountsBelowThresholds, CountOK, Mode

LEMMA UnchangedCounts ==
  CountsBelowThresholds /\ UNCHANGED breakers => CountsBelowThresholds'
BY DEF CountsBelowThresholds, Mode

LEMMA StepKeepsCounts ==
  ASSUME IInv, NEW r \in Requests, Step(r)
  PROVE  CountsBelowThresholds'
<1>1. host[r] \in Hosts /\ CountsBelowThresholds
  BY DEF IInv, TypeOK, LoopTypeOK
<1>2. CASE Gate(r)
  BY <1>1, <1>2, AllowKeepsCounts DEF Gate
<1>3. CASE \/ Error(r) \/ HonestRetryStatus(r) \/ HonestRead(r)
           \/ AzureResponse(r) \/ AzureTooLarge(r)
  BY <1>1, <1>3, RecordKeepsCounts
     DEF Error, HonestRetryStatus, HonestRead, AzureResponse, AzureTooLarge
<1>4. CASE \/ BackoffOver(r) \/ BackoffCancelled(r) \/ HonestResponse(r)
           \/ HonestReadFails(r) \/ AzureRefused(r)
  BY <1>1, <1>4, UnchangedCounts
     DEF BackoffOver, BackoffCancelled, HonestResponse, HonestReadFails,
         AzureRefused, limiterVars
<1>5. QED
  BY <1>2, <1>3, <1>4 DEF Step

LEMMA NextKeepsCounts == IInv /\ [Next]_vars => CountsBelowThresholds'
<1> SUFFICES ASSUME IInv, [Next]_vars PROVE CountsBelowThresholds'
  OBVIOUS
<1>1. \A g \in Hosts : breakers[g] \in Breaker /\ CountOK(breakers[g])
  BY MapsToBreakers, CountsAsLemma DEF IInv
<1>2. CASE Tick
  <2>1. \A g \in Hosts : CountOK(breakers'[g])
    BY <1>1, <1>2, CountAfterTick DEF Tick
  <2>2. QED
    BY <2>1 DEF CountsBelowThresholds, CountOK, Mode
<1>3. CASE CleanupStale
  <2>1. \A g \in Hosts : CountOK(breakers'[g])
    BY <1>1, <1>3, CountOfNew DEF CleanupStale
  <2>2. QED
    BY <2>1 DEF CountsBelowThresholds, CountOK, Mode
<1>4. ASSUME NEW r \in Requests, Begin(r) \/ Deadline(r) \/ Cancel(r)
      PROVE  CountsBelowThresholds'
  BY <1>4, UnchangedCounts DEF IInv, Begin, Deadline, Cancel, limiterVars
<1>5. CASE UNCHANGED vars
  BY <1>5, UnchangedCounts DEF IInv, vars, limiterVars
<1>6. QED
  BY <1>2, <1>3, <1>4, <1>5, StepKeepsCounts DEF Next

-----------------------------------------------------------------------------
(* The retries: what IInv says of one request.                             *)

RetryOK(r) ==
  /\ pc[r] = "backoff" => attempt[r] < MaxRetries
  /\ pc[r] = "reading" /\ result[r] = "transient" => attempt[r] = MaxRetries
  /\ client = "honest" /\ pc[r] = "done" /\ result[r] = "transient"
       => attempt[r] = MaxRetries

LEMMA StepKeepsRetries ==
  ASSUME IInv, NEW r \in Requests, Step(r)
  PROVE  /\ RetryOK(r)'
         /\ \A q \in Requests \ {r} :
              /\ UNCHANGED <<pc[q], attempt[q], result[q]>>
              /\ client' = client
<1>1. /\ pc \in [Requests -> Place]
      /\ attempt \in [Requests -> 0..MaxRetries]
      /\ result \in [Requests -> Result]
      /\ RetryOK(r)
      /\ MaxRetries \in Nat
  BY FetchAssumption
     DEF IInv, TypeOK, LoopTypeOK, RetryOK, HonestRetriesTransient
<1> USE DEF RetryOK, MoveTo, Return
<1>2. CASE Gate(r)
  BY <1>1, <1>2 DEF Gate
<1>3. CASE Error(r) \/ AzureTooLarge(r)
  BY <1>1, <1>3 DEF Error, AzureTooLarge, AfterError
<1>4. CASE BackoffOver(r) \/ BackoffCancelled(r)
  BY <1>1, <1>4 DEF BackoffOver, BackoffCancelled
<1>5. CASE HonestRetryStatus(r)
  BY <1>1, <1>5 DEF HonestRetryStatus
<1>6. CASE HonestResponse(r)
  BY <1>1, <1>6 DEF HonestResponse
<1>7. CASE HonestRead(r)
  BY <1>1, <1>7 DEF HonestRead
<1>8. CASE HonestReadFails(r) \/ AzureRefused(r)
  BY <1>1, <1>8 DEF HonestReadFails, AzureRefused
<1>9. CASE AzureResponse(r)
  BY <1>1, <1>9 DEF AzureResponse
<1>10. QED
  BY <1>2, <1>3, <1>4, <1>5, <1>6, <1>7, <1>8, <1>9 DEF Step

LEMMA NextKeepsRetries ==
  ASSUME IInv, [Next]_vars PROVE \A q \in Requests : RetryOK(q)'
<1>1. /\ pc \in [Requests -> Place]
      /\ attempt \in [Requests -> 0..MaxRetries]
      /\ result \in [Requests -> Result]
      /\ \A q \in Requests : RetryOK(q)
  BY DEF IInv, TypeOK, LoopTypeOK, RetryOK, HonestRetriesTransient
<1>2. ASSUME NEW r \in Requests, Step(r)
      PROVE  \A q \in Requests : RetryOK(q)'
  BY <1>1, <1>2, StepKeepsRetries DEF RetryOK
<1>3. ASSUME NEW r \in Requests, Begin(r) \/ Deadline(r) \/ Cancel(r)
      PROVE  \A q \in Requests : RetryOK(q)'
  BY <1>1, <1>3 DEF RetryOK, Begin, Deadline, Cancel
<1>4. CASE Tick \/ CleanupStale \/ UNCHANGED vars
  BY <1>1, <1>4 DEF RetryOK, Tick, CleanupStale, vars, loopVars
<1>5. QED
  BY <1>2, <1>3, <1>4 DEF Next

-----------------------------------------------------------------------------

\* The invariant holds at first and every step keeps it.
THEOREM Inductive == Spec => []IInv
<1>1. Init => IInv
  BY TypeInit, BreakerAssumption
     DEF Init, IInv, CountsBelowThresholds, Mode, NewCircuitBreaker,
         HonestRetriesTransient
<1>2. IInv /\ [Next]_vars => IInv'
  <2>1. IInv /\ [Next]_vars => \A q \in Requests : RetryOK(q)'
    BY NextKeepsRetries
  <2>2. QED
    BY <2>1, NextKeepsTypes, NextKeepsCounts
       DEF IInv, HonestRetriesTransient, RetryOK
<1>3. QED
  BY <1>1, <1>2, PTL DEF Spec

\* Every variable keeps its type: no breaker of a dropped host survives, and no
\* request makes more than MaxRetries + 1 attempts.
THEOREM TypeCorrect == Spec => []TypeOK
<1>1. IInv => TypeOK
  BY DEF IInv
<1>2. QED
  BY <1>1, Inductive, PTL

\* The one counter of a breaker stays under the threshold it is compared with,
\* however the outcomes of concurrent requests interleave with clean-ups.
THEOREM CountersStayBelow == Spec => []CountsBelowThresholds
<1>1. IInv => CountsBelowThresholds
  BY DEF IInv
<1>2. QED
  BY <1>1, Inductive, PTL

\* The honest client never hands a transient response to its caller while it
\* has a retry left.
THEOREM HonestRetries == Spec => []HonestRetriesTransient
<1>1. IInv => HonestRetriesTransient
  BY DEF IInv
<1>2. QED
  BY <1>1, Inductive, PTL

-----------------------------------------------------------------------------
(* The contract.  What each breaker method does to the contract's counters *)
(* (FailsOf, OksOf, WaitedOf are the refinement mapping of one breaker),   *)
(* what each move of a request does to the calls in flight, then each      *)
(* action as a step of the contract of every host.                         *)

FailsOf(b)  == IF b.state = "Closed" THEN b.consecutiveFails ELSE 0
OksOf(b)    == IF b.state = "HalfOpen" THEN b.consecutiveFails ELSE 0
WaitedOf(b) == b.state = "Open" /\ Recovered(b)

\* c differs from b in nothing the contract sees.
Alike(b, c) ==
  /\ c.state = b.state
  /\ FailsOf(c) = FailsOf(b)
  /\ OksOf(c) = OksOf(b)
  /\ WaitedOf(c) = WaitedOf(b)

\* A failure, a success and a tick as the contract tells them.
FailStep(b, c) ==
  \/ /\ b.state = "Closed" /\ FailsOf(b) + 1 < FailureThreshold
     /\ FailsOf(c) = FailsOf(b) + 1
     /\ c.state = b.state /\ OksOf(c) = OksOf(b) /\ WaitedOf(c) = WaitedOf(b)
  \/ /\ \/ b.state = "Closed" /\ FailsOf(b) + 1 >= FailureThreshold
        \/ b.state = "HalfOpen"
     /\ c.state = "Open"
     /\ FailsOf(c) = 0 /\ OksOf(c) = 0 /\ WaitedOf(c) = FALSE
  \/ /\ b.state = "Open"
     /\ WaitedOf(c) \in {WaitedOf(b), FALSE}
     /\ c.state = b.state /\ FailsOf(c) = FailsOf(b) /\ OksOf(c) = OksOf(b)

SuccessStep(b, c) ==
  \/ /\ b.state = "Closed"
     /\ FailsOf(c) = 0
     /\ c.state = b.state /\ OksOf(c) = OksOf(b) /\ WaitedOf(c) = WaitedOf(b)
  \/ /\ b.state = "HalfOpen" /\ OksOf(b) + 1 < SuccessThreshold
     /\ OksOf(c) = OksOf(b) + 1
     /\ c.state = b.state /\ FailsOf(c) = FailsOf(b) /\ WaitedOf(c) = WaitedOf(b)
  \/ /\ b.state = "HalfOpen" /\ OksOf(b) + 1 >= SuccessThreshold
     /\ c.state = "Closed"
     /\ OksOf(c) = 0
     /\ FailsOf(c) = FailsOf(b) /\ WaitedOf(c) = WaitedOf(b)
  \/ b.state = "Open" /\ Alike(b, c)

TickStep(b, c) ==
  \/ Alike(b, c)
  \/ /\ b.state = "Open" /\ c.state = "Open"
     /\ WaitedOf(c) = TRUE
     /\ FailsOf(c) = FailsOf(b) /\ OksOf(c) = OksOf(b)

LEMMA FailureFollowsContract ==
  ASSUME NEW b \in Breaker PROVE FailStep(b, AfterFailure(b))
<1> DEFINE f == AfterFailure(b)
<1>1. /\ b.consecutiveFails \in Nat
      /\ b.state \in {"Closed", "Open", "HalfOpen"}
      /\ ~(0 > RecoveryTimeout)
  BY BreakerAssumption DEF Breaker, CircuitState
<1>2. LET trips == \/ b.state = "HalfOpen"
                   \/ b.consecutiveFails + 1 >= FailureThreshold
      IN  /\ f.consecutiveFails = b.consecutiveFails + 1
          /\ f.state = IF trips THEN "Open" ELSE b.state
          /\ f.sinceOpened = IF trips THEN 0 ELSE b.sinceOpened
  BY FieldsAfterFailure
<1> SUFFICES FailStep(b, f)
  OBVIOUS
<1> HIDE DEF f
<1>3. CASE b.state = "Closed" /\ b.consecutiveFails + 1 < FailureThreshold
  BY <1>1, <1>2, <1>3, BreakerAssumption
     DEF FailStep, FailsOf, OksOf, WaitedOf
<1>4. CASE b.state = "Closed" /\ ~(b.consecutiveFails + 1 < FailureThreshold)
  <2>1. b.consecutiveFails + 1 >= FailureThreshold
    BY <1>1, <1>4, BreakerAssumption
  <2>2. QED
    BY <1>1, <1>2, <1>4, <2>1 DEF FailStep, FailsOf, OksOf, WaitedOf, Recovered
<1>5. CASE b.state = "HalfOpen"
  BY <1>1, <1>2, <1>5 DEF FailStep, FailsOf, OksOf, WaitedOf, Recovered
<1>6. CASE b.state = "Open"
  BY <1>1, <1>2, <1>6 DEF FailStep, FailsOf, OksOf, WaitedOf, Recovered
<1>7. QED
  BY <1>1, <1>3, <1>4, <1>5, <1>6

LEMMA SuccessFollowsContract ==
  ASSUME NEW b \in Breaker PROVE SuccessStep(b, AfterSuccess(b))
<1>1. /\ b.consecutiveFails \in Nat
      /\ b.state \in {"Closed", "Open", "HalfOpen"}
  BY DEF Breaker, CircuitState
<1> USE DEF SuccessStep, Alike, FailsOf, OksOf, WaitedOf, Recovered
<1>2. CASE b.state # "HalfOpen"
  BY <1>1, <1>2 DEF AfterSuccess, Breaker
<1>3. CASE b.state = "HalfOpen" /\ b.consecutiveFails + 1 >= SuccessThreshold
  BY <1>1, <1>3 DEF AfterSuccess, Breaker
<1>4. CASE b.state = "HalfOpen" /\ ~(b.consecutiveFails + 1 >= SuccessThreshold)
  <2>1. AfterSuccess(b) = [b EXCEPT !.consecutiveFails = @ + 1]
    BY <1>4 DEF AfterSuccess
  <2>2. b.consecutiveFails + 1 < SuccessThreshold
    BY <1>1, <1>4, BreakerAssumption
  <2>3. QED
    BY <1>1, <1>4, <2>1, <2>2 DEF Breaker
<1>5. QED
  BY <1>2, <1>3, <1>4

LEMMA TickFollowsContract ==
  ASSUME NEW b \in Breaker PROVE TickStep(b, AfterTick(b))
<1>1. b.sinceOpened \in Nat
  BY DEF Breaker
<1>2. CASE b.state = "Open" /\ ~Recovered(b) /\ Recovered(AfterTick(b))
  BY <1>2, FieldsAfterTick DEF TickStep, FailsOf, OksOf, WaitedOf
<1>3. CASE b.state = "Open" /\ Recovered(b)
  BY <1>1, <1>3, FieldsAfterTick
     DEF TickStep, Alike, FailsOf, OksOf, WaitedOf, Recovered, Older
<1>4. CASE \/ b.state # "Open"
           \/ ~Recovered(b) /\ ~Recovered(AfterTick(b))
  BY <1>4, FieldsAfterTick DEF TickStep, Alike, FailsOf, OksOf, WaitedOf
<1>5. QED
  BY <1>2, <1>3, <1>4

\* Dropping a stale breaker forgets its failures; the one made in its place is
\* closed.
LEMMA DropFollowsContract ==
  ASSUME NEW b \in Breaker, Stale(b)
  PROVE  LET n == NewCircuitBreaker
         IN  /\ b.state = "Closed" /\ n.state = "Closed"
             /\ FailsOf(n) = 0
             /\ OksOf(n) = OksOf(b)
             /\ WaitedOf(n) = WaitedOf(b)
BY DEF Stale, NewCircuitBreaker, FailsOf, OksOf, WaitedOf

\* Allow on an open circuit whose time is up.
LEMMA ProbeFollowsContract ==
  ASSUME NEW b \in Breaker, b.state = "Open", Recovered(b)
  PROVE  LET a == AfterAllow(b)
         IN  /\ a.state = "HalfOpen"
             /\ FailsOf(a) = 0 /\ FailsOf(b) = 0
             /\ OksOf(a) = 0 /\ OksOf(b) = 0
             /\ WaitedOf(a) = FALSE /\ WaitedOf(b) = TRUE
BY DEF AfterAllow, FailsOf, OksOf, WaitedOf, Breaker, Recovered

\* A request that moves enters, leaves or stays among the calls of its host.
LEMMA MoveOfCall ==
  ASSUME TypeOK, NEW r \in Requests, NEW place,
         pc' = [pc EXCEPT ![r] = place], host' = host,
         NEW h \in Hosts
  PROVE  InFlight(h)' = IF host[r] = h
                          THEN IF place \in OnTheWire
                                 THEN InFlight(h) \union {r}
                                 ELSE InFlight(h) \ {r}
                          ELSE InFlight(h)
BY DEF InFlight, TypeOK, LoopTypeOK

\* A step that only forgets old failures of h, or changes nothing of h.
LEMMA QuietStep ==
  ASSUME TypeOK, NEW h \in Hosts,
         InFlight(h)' = InFlight(h),
         \/ Alike(breakers[h], breakers'[h])
         \/ /\ Stale(breakers[h])
            /\ breakers'[h] = NewCircuitBreaker
  PROVE  [Contract(h)!Next]_(Contract(h)!vars)
<1>1. CASE Alike(breakers[h], breakers'[h])
  BY <1>1 DEF Contract!vars, Alike, FailsOf, OksOf, WaitedOf, Mode
<1>2. CASE Stale(breakers[h]) /\ breakers'[h] = NewCircuitBreaker
  <2>1. Contract(h)!Forget
    BY <1>2, DropFollowsContract, MapsToBreakers
       DEF Contract!Forget, Contract!Forgotten, FailsOf, OksOf, WaitedOf, Mode
  <2>2. QED
    BY <2>1 DEF Contract!Next
<1>3. QED
  BY <1>1, <1>2

\* A call whose outcome is recorded, or not, in a breaker of its host.
LEMMA SettleStep ==
  ASSUME TypeOK, NEW h \in Hosts, NEW r \in Requests,
         r \in InFlight(h),
         InFlight(h)' = InFlight(h) \ {r},
         \/ breakers'[h] = AfterFailure(breakers[h])
         \/ breakers'[h] = AfterSuccess(breakers[h])
         \/ breakers'[h] = breakers[h]
  PROVE  Contract(h)!Settle(r)
<1>1. breakers[h] \in Breaker
  BY MapsToBreakers
<1>2. CASE breakers'[h] = AfterFailure(breakers[h])
  <2>1. FailStep(breakers[h], breakers'[h])
    BY <1>1, <1>2, FailureFollowsContract
  <2>2. Contract(h)!Fail
    BY <2>1 DEF FailStep, FailsOf, OksOf, WaitedOf, Mode, Contract!Fail
  <2>3. QED
    BY <2>2 DEF Contract!Settle
<1>3. CASE breakers'[h] = AfterSuccess(breakers[h])
  <2>1. SuccessStep(breakers[h], breakers'[h])
    BY <1>1, <1>3, SuccessFollowsContract
  <2>2. Contract(h)!Succeed
    BY <2>1
       DEF SuccessStep, Alike, FailsOf, OksOf, WaitedOf, Mode, Contract!Succeed
  <2>3. QED
    BY <2>2 DEF Contract!Settle
<1>4. CASE breakers'[h] = breakers[h]
  BY <1>4 DEF Contract!Settle, Contract!Unrecorded, Mode
<1>5. QED
  BY <1>2, <1>3, <1>4

\* Allow, and the request that goes on the wire or is turned away.
LEMMA GateStep ==
  ASSUME TypeOK, NEW r \in Requests, Gate(r), NEW h \in Hosts
  PROVE  [Contract(h)!Next]_(Contract(h)!vars)
<1> DEFINE dropped == IF CleanupDue THEN StaleHosts ELSE {}
           b == IF host[r] \in dropped THEN NewCircuitBreaker
                                       ELSE breakers[host[r]]
<1>1. /\ breakers' = [g \in Hosts |-> IF g = host[r] THEN AfterAllow(b)
                                     ELSE IF g \in dropped
                                            THEN NewCircuitBreaker
                                            ELSE breakers[g]]
      /\ pc[r] = "gate"
  BY DEF Gate, LimiterAllow
<1>2. \A g \in dropped : Stale(breakers[g])
  BY DEF StaleHosts
<1>3. breakers[h] \in Breaker
  BY MapsToBreakers
<1>4. r \notin InFlight(h)
  BY <1>1 DEF InFlight, OnTheWire
<1>5. CASE host[r] # h
  <2>1. breakers'[h] = IF h \in dropped THEN NewCircuitBreaker ELSE breakers[h]
    BY <1>1, <1>5
  <2>2. InFlight(h)' = InFlight(h)
    <3>1. \A place : MoveTo(r, place) => InFlight(h)' = InFlight(h)
      BY <1>5, MoveOfCall DEF MoveTo
    <3>2. \A res : Return(r, res) => InFlight(h)' = InFlight(h)
      BY <1>5, MoveOfCall DEF Return
    <3>3. QED
      BY <3>1, <3>2 DEF Gate
  <2>3. Alike(breakers[h], breakers[h])
    BY DEF Alike
  <2> HIDE DEF dropped
  <2>4. QED
    BY <1>2, <2>1, <2>2, <2>3, QuietStep
<1>6. CASE host[r] = h /\ breakers[h].state # "Open"
  <2>1. \E place \in {"sent", "doomed"} : MoveTo(r, place)
    BY <1>6 DEF Gate, LimiterAllows, Allowed
  <2>2. InFlight(h)' = InFlight(h) \union {r}
    BY <1>6, <2>1, MoveOfCall DEF MoveTo, OnTheWire
  <2>3. breakers'[h] = b
    BY <1>1, <1>6 DEF AfterAllow, NewCircuitBreaker
  <2>4. \/ breakers'[h] = breakers[h]
        \/ Stale(breakers[h]) /\ breakers'[h] = NewCircuitBreaker
    BY <1>2, <1>6, <2>3
  <2>5. Contract(h)!Admit(r)
    BY <1>3, <1>4, <1>6, <2>2, <2>4, DropFollowsContract
       DEF Contract!Admit, Contract!Forgotten, FailsOf, OksOf, WaitedOf, Mode
  <2>6. QED
    BY <2>5 DEF Contract!Next
<1>7. CASE /\ host[r] = h
           /\ breakers[h].state = "Open"
           /\ Recovered(breakers[h])
  <2>1. \E place \in {"sent", "doomed"} : MoveTo(r, place)
    BY <1>7 DEF Gate, LimiterAllows, Allowed
  <2>2. InFlight(h)' = InFlight(h) \union {r}
    BY <1>7, <2>1, MoveOfCall DEF MoveTo, OnTheWire
  <2>3. breakers'[h] = AfterAllow(breakers[h])
    BY <1>1, <1>2, <1>7 DEF Stale
  <2>4. Contract(h)!Probe(r)
    BY <1>3, <1>4, <1>7, <2>2, <2>3, ProbeFollowsContract
       DEF Contract!Probe, FailsOf, OksOf, WaitedOf, Mode
  <2>5. QED
    BY <2>4 DEF Contract!Next
<1>8. CASE /\ host[r] = h
           /\ breakers[h].state = "Open"
           /\ ~Recovered(breakers[h])
  <2>1. Return(r, "rejected")
    BY <1>8 DEF Gate, LimiterAllows, Allowed
  <2>2. InFlight(h)' = InFlight(h) \ {r}
    <3>1. pc' = [pc EXCEPT ![r] = "done"] /\ host' = host
      BY <2>1 DEF Return
    <3>2. "done" \notin OnTheWire
      BY DEF OnTheWire
    <3>3. QED
      BY <1>8, <3>1, <3>2, MoveOfCall
  <2>3. breakers'[h] = breakers[h]
    BY <1>1, <1>2, <1>8 DEF Stale, AfterAllow
  <2>4. QED
    BY <1>4, <2>2, <2>3, QuietStep DEF Alike
<1>9. QED
  BY <1>5, <1>6, <1>7, <1>8

LEMMA StepFollowsContract ==
  ASSUME TypeOK, NEW r \in Requests, Step(r), NEW h \in Hosts
  PROVE  [Contract(h)!Next]_(Contract(h)!vars)
<1>1. CASE Gate(r)
  BY <1>1, GateStep
<1>2. CASE \/ Error(r) \/ HonestRetryStatus(r) \/ HonestRead(r)
           \/ HonestReadFails(r) \/ AzureResponse(r) \/ AzureRefused(r)
           \/ AzureTooLarge(r)
  <2>1. /\ pc[r] \in OnTheWire
        /\ \/ RecordFailure(host[r])
           \/ RecordSuccess(host[r])
           \/ UNCHANGED limiterVars
        /\ \E place \in {"backoff", "done"} : pc' = [pc EXCEPT ![r] = place]
        /\ host' = host
    BY <1>2
       DEF Error, HonestRetryStatus, HonestRead, HonestReadFails, AzureResponse,
           AzureRefused, AzureTooLarge, AfterError, MoveTo, Return, OnTheWire
  <2>2. InFlight(h)' = IF host[r] = h THEN InFlight(h) \ {r} ELSE InFlight(h)
    BY <2>1, MoveOfCall DEF OnTheWire
  <2>3. CASE host[r] = h
    <3>1. r \in InFlight(h)
      BY <2>1, <2>3 DEF InFlight
    <3>2. \/ breakers'[h] = AfterFailure(breakers[h])
          \/ breakers'[h] = AfterSuccess(breakers[h])
          \/ breakers'[h] = breakers[h]
      BY <2>1, <2>3
         DEF RecordFailure, RecordSuccess, limiterVars, TypeOK, LimiterTypeOK
    <3>3. Contract(h)!Settle(r)
      BY <2>2, <2>3, <3>1, <3>2, SettleStep
    <3>4. QED
      BY <3>3 DEF Contract!Next
  <2>4. CASE host[r] # h
    <3>1. breakers'[h] = breakers[h]
      BY <2>1, <2>4
         DEF RecordFailure, RecordSuccess, limiterVars, TypeOK, LimiterTypeOK
    <3>2. QED
      BY <2>2, <2>4, <3>1, QuietStep DEF Alike
  <2>5. QED
    BY <2>3, <2>4
<1>3. CASE BackoffOver(r) \/ BackoffCancelled(r) \/ HonestResponse(r)
  <2>1. /\ breakers' = breakers
        /\ host' = host
        /\ \/ /\ pc[r] = "backoff"
              /\ \E place \in {"gate", "done"} : pc' = [pc EXCEPT ![r] = place]
           \/ /\ pc[r] = "sent"
              /\ pc' = [pc EXCEPT ![r] = "reading"]
    BY <1>3
       DEF BackoffOver, BackoffCancelled, HonestResponse, Return, limiterVars
  <2>2. InFlight(h)' = InFlight(h)
    BY <2>1, MoveOfCall DEF InFlight, OnTheWire
  <2>3. QED
    BY <2>1, <2>2, QuietStep DEF Alike
<1>4. QED
  BY <1>1, <1>2, <1>3 DEF Step

\* Every step of the program is a step of the contract of every host.
LEMMA NextFollowsContract ==
  ASSUME TypeOK, [Next]_vars, NEW h \in Hosts
  PROVE  [Contract(h)!Next]_(Contract(h)!vars)
<1>1. ASSUME NEW r \in Requests, Begin(r)
      PROVE  [Contract(h)!Next]_(Contract(h)!vars)
  <2>1. InFlight(h)' = InFlight(h)
    BY <1>1 DEF Begin, InFlight, OnTheWire, TypeOK, LoopTypeOK
  <2>2. QED
    BY <1>1, <2>1, QuietStep DEF Begin, limiterVars, Alike
<1>2. ASSUME NEW r \in Requests, Deadline(r) \/ Cancel(r)
      PROVE  [Contract(h)!Next]_(Contract(h)!vars)
  <2>1. InFlight(h)' = InFlight(h)
    BY <1>2 DEF Deadline, Cancel, InFlight
  <2>2. QED
    BY <1>2, <2>1, QuietStep DEF Deadline, Cancel, limiterVars, Alike
<1>3. CASE Tick
  <2>1. InFlight(h)' = InFlight(h)
    BY <1>3 DEF Tick, loopVars, InFlight
  <2>2. TickStep(breakers[h], breakers'[h])
    BY <1>3, MapsToBreakers, TickFollowsContract DEF Tick
  <2>3. CASE Alike(breakers[h], breakers'[h])
    BY <2>1, <2>3, QuietStep
  <2>4. CASE ~Alike(breakers[h], breakers'[h])
    <3>1. Contract(h)!Wait
      BY <2>1, <2>2, <2>4
         DEF TickStep, FailsOf, OksOf, WaitedOf, Mode, Contract!Wait
    <3>2. QED
      BY <3>1 DEF Contract!Next
  <2>5. QED
    BY <2>3, <2>4
<1>4. CASE CleanupStale
  <2>1. InFlight(h)' = InFlight(h)
    BY <1>4 DEF CleanupStale, loopVars, InFlight
  <2>2. \/ Stale(breakers[h]) /\ breakers'[h] = NewCircuitBreaker
        \/ breakers'[h] = breakers[h]
    BY <1>4 DEF CleanupStale, StaleHosts
  <2>3. QED
    BY <2>1, <2>2, QuietStep DEF Alike
<1>5. CASE UNCHANGED vars
  BY <1>5, QuietStep DEF vars, limiterVars, loopVars, Alike, InFlight
<1>6. QED
  BY <1>1, <1>2, <1>3, <1>4, <1>5, StepFollowsContract DEF Next

LEMMA InitFollowsContract == Init => \A h \in Hosts : Contract(h)!Init
BY DEF Init, Contract!Init, Mode, InFlight, NewCircuitBreaker, OnTheWire

\* The shared limiter implements the contract of the circuit breaker for every
\* host, whatever the number of concurrent requests.
THEOREM Refinement == Spec => BreakersKeepContract
<1>1. TypeOK /\ [Next]_vars
        => [\A h \in Hosts : [Contract(h)!Next]_(Contract(h)!vars)]_vars
  BY NextFollowsContract
<1>2. QED
  BY <1>1, InitFollowsContract, TypeCorrect, PTL
     DEF Spec, BreakersKeepContract

\* An open circuit lets nothing new onto the wire before its time is up: no
\* step of the contract adds a call then.
THEOREM OpenCircuitRejects == Spec => OpenAdmitsNothing
<1>1. ASSUME TypeOK, [Next]_vars, NEW h \in Hosts,
             Mode(h) = "Open", ~Recovered(breakers[h])
      PROVE  InFlight(h)' \subseteq InFlight(h)
  <2>1. [Contract(h)!Next]_(Contract(h)!vars)
    BY <1>1, NextFollowsContract
  <2>2. CASE Contract(h)!Forget \/ Contract(h)!Wait
    BY <2>2 DEF Contract!Forget, Contract!Wait
  <2>3. ASSUME NEW c \in Requests, Contract(h)!Admit(c) \/ Contract(h)!Probe(c)
        PROVE  FALSE
    BY <1>1, <2>3 DEF Contract!Admit, Contract!Probe
  <2>4. ASSUME NEW c \in Requests, Contract(h)!Settle(c)
        PROVE  InFlight(h)' \subseteq InFlight(h)
    BY <2>4 DEF Contract!Settle
  <2>5. CASE UNCHANGED Contract(h)!vars
    BY <2>5 DEF Contract!vars
  <2>6. QED
    BY <2>1, <2>2, <2>3, <2>4, <2>5 DEF Contract!Next
<1>2. TypeOK /\ [Next]_vars
        => [\A h \in Hosts :
              Mode(h) = "Open" /\ ~Recovered(breakers[h])
                => InFlight(h)' \subseteq InFlight(h)]_vars
  BY <1>1
<1>3. QED
  BY <1>2, TypeCorrect, PTL DEF Spec, OpenAdmitsNothing

=============================================================================
