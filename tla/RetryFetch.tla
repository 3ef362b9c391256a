----------------------------- MODULE RetryFetch -----------------------------
(***************************************************************************)
(* Concurrent calls of Client.Fetch that share one HostRateLimiter: the    *)
(* retry loops of both clients (doFetchWithRetry of internal/fetch/        *)
(* honest.go and azuretls.go) over the per-host circuit breakers of        *)
(* internal/fetch/backoff.go.                                              *)
(*                                                                         *)
(* A request is a goroutine in the loop.  The limiter's methods are atomic *)
(* (hrl.mu), everything between them interleaves: other requests record    *)
(* outcomes, and time passes, while a request is on the wire, reads its    *)
(* body or backs off.  What the server, the network and the caller do is   *)
(* chosen by the environment among Events.                                 *)
(***************************************************************************)
EXTENDS CircuitBreaker, FiniteSets

CONSTANTS
  Hosts,            \* extractHost of the URLs
  Requests,         \* the goroutines that fetch
  Clients,          \* the clients that may be behind Fetch: "honest", "azure"
  MaxRetries,       \* backoffConfig.MaxRetries, 0 when retries are off
  CleanupThreshold, \* breakers kept before Allow looks for stale ones (1000)
  CleanupInterval,  \* ticks between two such clean-ups (5 minutes)
  Events            \* what the environment may do in this instance

AllEvents ==
  {"response",   \* a response whose status is not transient
   "transient",  \* a 429, 502, 503 or 504 response
   "error",      \* hc.Do or session.Do returns an error
   "badbody",    \* the body cannot be read to its end
   "toolarge",   \* the body is longer than maxBody
   "redirect",   \* azure: the final URL is refused by CheckSSRF
   "deadline",   \* the request's own timeout passes
   "cancel",     \* the caller's context is cancelled
   "cleanup"}    \* the embedding process calls CleanupStale

ASSUME FetchAssumption ==
  /\ MaxRetries \in Nat
  /\ CleanupThreshold \in Nat
  /\ CleanupInterval \in Nat
  /\ Clients \subseteq {"honest", "azure"}
  /\ Events \subseteq AllEvents

VARIABLES
  known,        \* hosts in the limiter's breakers map
  breakers,     \* breakers[h], a fresh one for a host that is not known
  sinceCleanup, \* age of lastCleanup
  client,       \* the client that New has built for the profile
  pc,           \* where each request is in its loop
  host,         \* host of the request's URL
  attempt,      \* the loop variable
  expired,      \* timeoutCtx is done (honest: one deadline for all attempts)
  cancelled,    \* ctx is done
  result        \* what the request's last Fetch returned

limiterVars == <<known, breakers, sinceCleanup>>
loopVars    == <<client, pc, host, attempt, expired, cancelled, result>>
vars        == <<limiterVars, loopVars>>

\* "doomed" is a call of hc.Do whose context was done before it started.
OnTheWire == {"sent", "doomed", "reading"}
Place     == {"done", "gate", "backoff"} \union OnTheWire
Result    == {"none", "ok", "transient", "rejected", "error", "badbody",
              "toolarge", "redirect", "cancelled"}

LimiterTypeOK ==
  /\ known \in SUBSET Hosts
  /\ breakers \in [Hosts -> Breaker]
  /\ \A h \in Hosts \ known : breakers[h] = NewCircuitBreaker
  /\ sinceCleanup \in Nat

LoopTypeOK ==
  /\ client \in Clients
  /\ pc \in [Requests -> Place]
  /\ host \in [Requests -> Hosts]
  /\ attempt \in [Requests -> 0..MaxRetries]
  /\ expired \in [Requests -> BOOLEAN]
  /\ cancelled \in [Requests -> BOOLEAN]
  /\ result \in [Requests -> Result]

TypeOK == LimiterTypeOK /\ LoopTypeOK

\* lastCleanup is the zero time at first: the first clean-up is always due.
Init ==
  /\ known = {}
  /\ breakers = [h \in Hosts |-> NewCircuitBreaker]
  /\ sinceCleanup = CleanupInterval + 1
  /\ client \in Clients
  /\ pc = [r \in Requests |-> "done"]
  /\ host \in [Requests -> Hosts]
  /\ attempt = [r \in Requests |-> 0]
  /\ expired = [r \in Requests |-> FALSE]
  /\ cancelled = [r \in Requests |-> FALSE]
  /\ result = [r \in Requests |-> "none"]

-----------------------------------------------------------------------------
(* The methods of HostRateLimiter.                                         *)

CleanupDue ==
  Cardinality(known) > CleanupThreshold /\ sinceCleanup > CleanupInterval

StaleHosts == {h \in known : Stale(breakers[h])}

\* Allow: drop stale breakers when there are many, look up or create the
\* host's breaker, ask it.
LimiterAllow(h) ==
  LET dropped == IF CleanupDue THEN StaleHosts ELSE {}
      b       == IF h \in dropped THEN NewCircuitBreaker ELSE breakers[h]
  IN  /\ known' = (known \ dropped) \union {h}
      /\ breakers' = [g \in Hosts |-> IF g = h THEN AfterAllow(b)
                                      ELSE IF g \in dropped
                                             THEN NewCircuitBreaker
                                             ELSE breakers[g]]
      /\ sinceCleanup' = IF CleanupDue THEN 0 ELSE sinceCleanup

\* Whether that Allow answers true.  A breaker the clean-up drops is closed,
\* as is the one created in its place.
LimiterAllows(h) == Allowed(breakers[h])

\* The outcome of a call is lost when its breaker has been dropped meanwhile.
RecordSuccess(h) ==
  /\ breakers' = IF h \in known
                   THEN [breakers EXCEPT ![h] = AfterSuccess(@)]
                   ELSE breakers
  /\ UNCHANGED <<known, sinceCleanup>>

RecordFailure(h) ==
  /\ breakers' = IF h \in known
                   THEN [breakers EXCEPT ![h] = AfterFailure(@)]
                   ELSE breakers
  /\ UNCHANGED <<known, sinceCleanup>>

\* The exported CleanupStale, which the embedding process may call.
CleanupStale ==
  /\ "cleanup" \in Events
  /\ known' = known \ StaleHosts
  /\ breakers' = [h \in Hosts |-> IF h \in StaleHosts THEN NewCircuitBreaker
                                                      ELSE breakers[h]]
  /\ sinceCleanup' = 0
  /\ UNCHANGED loopVars
-----------------------------------------------------------------------------
(* The retry loop.                                                         *)

MoveTo(r, place) ==
  /\ pc' = [pc EXCEPT ![r] = place]
  /\ UNCHANGED <<client, host, attempt, expired, cancelled, result>>

Return(r, res) ==
  /\ pc' = [pc EXCEPT ![r] = "done"]
  /\ result' = [result EXCEPT ![r] = res]
  /\ expired' = [expired EXCEPT ![r] = FALSE]
  /\ cancelled' = [cancelled EXCEPT ![r] = FALSE]
  /\ UNCHANGED <<client, host, attempt>>

\* A new Fetch enters the loop.
Begin(r) ==
  /\ pc[r] = "done"
  /\ pc' = [pc EXCEPT ![r] = "gate"]
  /\ \E h \in Hosts : host' = [host EXCEPT ![r] = h]
  /\ attempt' = [attempt EXCEPT ![r] = 0]
  /\ result' = [result EXCEPT ![r] = "none"]
  /\ UNCHANGED <<limiterVars, client, expired, cancelled>>

\* rateLimiter.Allow, then hc.Do or an early return.  The honest client hands
\* its context to hc.Do; session.Do of the azure client has only a timeout of
\* its own.
Gate(r) ==
  /\ pc[r] = "gate"
  /\ LimiterAllow(host[r])
  /\ IF LimiterAllows(host[r])
       THEN MoveTo(r, IF client = "honest" /\ (expired[r] \/ cancelled[r])
                        THEN "doomed" ELSE "sent")
       ELSE Return(r, "rejected")

\* Mutant: one retry too many (<= for <).
AfterErrorOffByOne(r, res) ==
  IF attempt[r] <= MaxRetries THEN MoveTo(r, "backoff") ELSE Return(r, res)

\* The tail of a failed attempt: back off, or give up with the last error.
AfterError(r, res) ==
  IF attempt[r] < MaxRetries THEN MoveTo(r, "backoff") ELSE Return(r, res)

\* Do returns an error.
Error(r) ==
  /\ \/ pc[r] = "doomed"
     \/ /\ pc[r] = "sent"
        /\ \/ "error" \in Events
           \/ client = "honest" /\ (expired[r] \/ cancelled[r])
  /\ RecordFailure(host[r])
  /\ AfterError(r, "error")

\* Mutant: the loop variable is not incremented.
BackoffOverSameAttempt(r) ==
  /\ pc[r] = "backoff"
  /\ pc' = [pc EXCEPT ![r] = "gate"]
  /\ UNCHANGED <<limiterVars, client, host, attempt, expired, cancelled, result>>

\* The delay has passed: clock.After wins the select.
BackoffOver(r) ==
  /\ pc[r] = "backoff"
  /\ pc' = [pc EXCEPT ![r] = "gate"]
  /\ attempt' = [attempt EXCEPT ![r] = @ + 1]
  /\ UNCHANGED <<limiterVars, client, host, expired, cancelled, result>>

\* ctx.Done wins the select.  It is the caller's context: the deadline of the
\* attempts does not end the wait.
BackoffCancelled(r) ==
  /\ pc[r] = "backoff"
  /\ cancelled[r]
  /\ Return(r, "cancelled")
  /\ UNCHANGED limiterVars
-----------------------------------------------------------------------------
(* honest.go: what follows an answered hc.Do.                              *)

HonestRetryStatus(r) ==
  /\ client = "honest"
  /\ pc[r] = "sent"
  /\ "transient" \in Events
  /\ attempt[r] < MaxRetries
  /\ RecordFailure(host[r])
  /\ MoveTo(r, "backoff")

\* Mutant: a transient status falls through to the success path early.
HonestResponseAnyStatus(r) ==
  /\ client = "honest"
  /\ pc[r] = "sent"
  /\ \E status \in {"response", "transient"} \intersect Events :
       result' = [result EXCEPT ![r] = IF status = "transient"
                                         THEN "transient" ELSE "ok"]
  /\ pc' = [pc EXCEPT ![r] = "reading"]
  /\ UNCHANGED <<limiterVars, client, host, attempt, expired, cancelled>>

\* Any other response, the last transient one included, has its body read;
\* the status is kept in result meanwhile.
HonestResponse(r) ==
  /\ client = "honest"
  /\ pc[r] = "sent"
  /\ \E status \in {"response", "transient"} \intersect Events :
       /\ status = "transient" => attempt[r] >= MaxRetries
       /\ result' = [result EXCEPT ![r] = IF status = "transient"
                                            THEN "transient" ELSE "ok"]
  /\ pc' = [pc EXCEPT ![r] = "reading"]
  /\ UNCHANGED <<limiterVars, client, host, attempt, expired, cancelled>>

HonestRead(r) ==
  /\ pc[r] = "reading"
  /\ RecordSuccess(host[r])
  /\ Return(r, result[r])

\* The body breaks off or is too long: nothing is recorded, nothing retried.
HonestReadFails(r) ==
  /\ pc[r] = "reading"
  /\ \/ /\ "badbody" \in Events \/ expired[r] \/ cancelled[r]
        /\ Return(r, "badbody")
     \/ "toolarge" \in Events /\ Return(r, "toolarge")
  /\ UNCHANGED limiterVars
-----------------------------------------------------------------------------
(* azuretls.go: session.Do has read the body when it returns.              *)

\* Every status is a success here.
AzureResponse(r) ==
  /\ client = "azure"
  /\ pc[r] = "sent"
  /\ RecordSuccess(host[r])
  /\ \/ "response" \in Events /\ Return(r, "ok")
     \/ "transient" \in Events /\ Return(r, "transient")

\* The response came from a URL that CheckSSRF refuses: nothing is recorded.
AzureRefused(r) ==
  /\ client = "azure"
  /\ pc[r] = "sent"
  /\ "redirect" \in Events
  /\ Return(r, "redirect")
  /\ UNCHANGED limiterVars

\* A body over the limit is an error of the attempt like any other.
AzureTooLarge(r) ==
  /\ client = "azure"
  /\ pc[r] = "sent"
  /\ "toolarge" \in Events
  /\ RecordFailure(host[r])
  /\ AfterError(r, "toolarge")
-----------------------------------------------------------------------------
(* The environment: the clock and the contexts.                            *)

Tick ==
  /\ breakers' = [h \in Hosts |-> AfterTick(breakers[h])]
  /\ sinceCleanup' = Older(sinceCleanup, CleanupInterval)
  /\ UNCHANGED <<known, loopVars>>

Deadline(r) ==
  /\ client = "honest"
  /\ "deadline" \in Events
  /\ pc[r] # "done"
  /\ expired' = [expired EXCEPT ![r] = TRUE]
  /\ UNCHANGED <<limiterVars, client, pc, host, attempt, cancelled, result>>

Cancel(r) ==
  /\ "cancel" \in Events
  /\ pc[r] # "done"
  /\ cancelled' = [cancelled EXCEPT ![r] = TRUE]
  /\ UNCHANGED <<limiterVars, client, pc, host, attempt, expired, result>>
-----------------------------------------------------------------------------
\* What the goroutine of r does once its Fetch has begun.
Step(r) ==
  \/ Gate(r) \/ Error(r) \/ BackoffOver(r) \/ BackoffCancelled(r)
  \/ HonestRetryStatus(r) \/ HonestResponse(r)
  \/ HonestRead(r) \/ HonestReadFails(r)
  \/ AzureResponse(r) \/ AzureRefused(r) \/ AzureTooLarge(r)

Next ==
  \/ \E r \in Requests : Begin(r) \/ Step(r) \/ Deadline(r) \/ Cancel(r)
  \/ Tick
  \/ CleanupStale

Spec == Init /\ [][Next]_vars

\* Every call of Do ends (each attempt or the whole loop has a timeout), every
\* timer fires and time passes.  Nothing makes a caller fetch, cancel or clean.
Fairness ==
  /\ WF_vars(Tick)
  /\ \A r \in Requests : WF_vars(Step(r))

FairSpec == Spec /\ Fairness

\* The same with callers that never stop fetching.
SteadySpec == FairSpec /\ \A r \in Requests : WF_vars(Begin(r))
-----------------------------------------------------------------------------
(* Properties.                                                             *)

Mode(h) == breakers[h].state

InFlight(h) == {r \in Requests : host[r] = h /\ pc[r] \in OnTheWire}

\* A closed circuit has seen fewer failures in a row than open it, a half-open
\* one fewer successes than close it (backoff.go:81-85), whatever the order in
\* which the outcomes of concurrent requests arrive.
CountsBelowThresholds ==
  \A h \in Hosts :
    /\ Mode(h) = "Closed"   => breakers[h].consecutiveFails < FailureThreshold
    /\ Mode(h) = "HalfOpen" => breakers[h].consecutiveFails < SuccessThreshold

\* What the breaker of one host, shared by all requests, promises.
Contract(h) ==
  INSTANCE BreakerContract WITH
    Calls  <- Requests,
    mode   <- Mode(h),
    fails  <- IF Mode(h) = "Closed" THEN breakers[h].consecutiveFails ELSE 0,
    oks    <- IF Mode(h) = "HalfOpen" THEN breakers[h].consecutiveFails ELSE 0,
    waited <- Mode(h) = "Open" /\ Recovered(breakers[h]),
    calls  <- InFlight(h)

\* The limiter implements the contract for every host: circuits open only
\* after FailureThreshold failures in a row, close only after SuccessThreshold
\* half-open successes, and let calls through only as promised; clean-up, late
\* outcomes and other hosts never disturb that.
\* (\A h \in Hosts : Contract(h)!Spec, with the quantifier inside the box.)
BreakersKeepContract ==
  /\ \A h \in Hosts : Contract(h)!Init
  /\ [][\A h \in Hosts : [Contract(h)!Next]_(Contract(h)!vars)]_vars

\* While a circuit is open and its recovery timeout has not passed, no request
\* to the host is put on the wire (CircuitOpen, "Failing, reject requests").
OpenAdmitsNothing ==
  [][\A h \in Hosts :
       Mode(h) = "Open" /\ ~Recovered(breakers[h])
         => InFlight(h)' \subseteq InFlight(h)]_vars

\* A Fetch of the honest client that returns a 429, 502, 503 or 504 response has
\* used up its retries, whatever happened to its earlier attempts.
HonestRetriesTransient ==
  \A r \in Requests :
    client = "honest" /\ pc[r] = "done" /\ result[r] = "transient"
      => attempt[r] = MaxRetries

\* The inductive strengthening of the invariants above: the loop backs off only
\* with a retry left, and reads the body of a transient response only when none
\* is.
IInv ==
  /\ TypeOK
  /\ CountsBelowThresholds
  /\ HonestRetriesTransient
  /\ \A r \in Requests :
       /\ pc[r] = "backoff" => attempt[r] < MaxRetries
       /\ pc[r] = "reading" /\ result[r] = "transient"
            => attempt[r] = MaxRetries

\* Every Fetch returns, whatever the breakers, the servers and the caller do.
FetchReturns ==
  \A r \in Requests : pc[r] # "done" ~> pc[r] = "done"

\* A circuit does not stay open for ever under traffic: if requests keep asking
\* for the host, it keeps leaving the open state.
OpenIsProbed ==
  \A h \in Hosts :
    []<>(\E r \in Requests : pc[r] = "gate" /\ host[r] = h)
      => []<>(Mode(h) # "Open")

\* If all that a host ever answers is failure, its circuit opens
\* ("Consecutive failures to open circuit", backoff.go:82).
FailingHostOpens == \E h \in Hosts : <>(Mode(h) = "Open")
=============================================================================
