--------------------------- MODULE CircuitBreaker ---------------------------
(***************************************************************************)
(* The circuit breaker of internal/fetch/backoff.go as a data type: the    *)
(* record of one CircuitBreaker and, for each method, the record it leaves *)
(* behind.  The methods hold cb.mu throughout, so each is one atomic step  *)
(* of the modules that use them.                                           *)
(*                                                                         *)
(* The wall clock appears only through time.Since(openedAt) and the age of *)
(* lastFailure, and only in comparisons with RecoveryTimeout and with the  *)
(* stale age of the clean-up.  The record keeps those two ages instead of  *)
(* the instants; an age stops growing once it is beyond every comparison.  *)
(***************************************************************************)
EXTENDS Naturals

CONSTANTS
  FailureThreshold,   \* CircuitBreakerConfig.FailureThreshold (default 5)
  SuccessThreshold,   \* CircuitBreakerConfig.SuccessThreshold (default 2)
  RecoveryTimeout,    \* CircuitBreakerConfig.RecoveryTimeout, in ticks
  StaleAge            \* the maxAge of the clean-up (30 minutes), in ticks

\* DefaultCircuitBreakerConfig, the only configuration the program builds,
\* has positive thresholds.
ASSUME BreakerAssumption ==
  /\ FailureThreshold \in Nat \ {0}
  /\ SuccessThreshold \in Nat \ {0}
  /\ RecoveryTimeout \in Nat
  /\ StaleAge \in Nat

CircuitState == {"Closed", "Open", "HalfOpen"}

\* Whether lastFailure is set (the code asks lastFailure.IsZero()) is a field
\* of its own; openedAt is read in the Open state only, its age is 0 elsewhere.
Breaker == [state            : CircuitState,
            consecutiveFails : Nat,
            sinceOpened      : Nat,
            everFailed       : BOOLEAN,
            sinceFailure     : Nat]

NewCircuitBreaker == [state            |-> "Closed",
                      consecutiveFails |-> 0,
                      sinceOpened      |-> 0,
                      everFailed       |-> FALSE,
                      sinceFailure     |-> 0]

-----------------------------------------------------------------------------

Recovered(b) == b.sinceOpened > RecoveryTimeout

\* Mutant: the recovery timeout is over one tick early (>= for >).
AllowedEarly(b) == b.state # "Open" \/ b.sinceOpened >= RecoveryTimeout

\* The answer of Allow.
Allowed(b) == b.state # "Open" \/ Recovered(b)

\* Mutant: the failures that opened the circuit are kept as half-open successes.
AfterAllowKeepingCount(b) ==
  IF b.state = "Open" /\ Recovered(b)
    THEN [b EXCEPT !.state = "HalfOpen", !.sinceOpened = 0]
    ELSE b

\* Mutant: Allow admits the probe but forgets to leave the open state.
AfterAllowStillOpen(b) == b

\* What Allow leaves behind: an open circuit whose time is up becomes half-open.
AfterAllow(b) ==
  IF b.state = "Open" /\ Recovered(b)
    THEN [b EXCEPT !.state = "HalfOpen", !.consecutiveFails = 0,
                   !.sinceOpened = 0]
    ELSE b

\* Mutant: one success too many is needed to close (> for >=).
AfterSuccessOffByOne(b) ==
  IF b.state # "HalfOpen"
    THEN [b EXCEPT !.consecutiveFails = 0]
    ELSE IF b.consecutiveFails + 1 > SuccessThreshold
           THEN [b EXCEPT !.state = "Closed", !.consecutiveFails = 0]
           ELSE [b EXCEPT !.consecutiveFails = @ + 1]

\* In the half-open state the field consecutiveFails counts successes.
AfterSuccess(b) ==
  IF b.state # "HalfOpen"
    THEN [b EXCEPT !.consecutiveFails = 0]
    ELSE IF b.consecutiveFails + 1 >= SuccessThreshold
           THEN [b EXCEPT !.state = "Closed", !.consecutiveFails = 0]
           ELSE [b EXCEPT !.consecutiveFails = @ + 1]

\* A failure trips the half-open circuit at once, and the others at the
\* threshold; a circuit that is already open gets a new openedAt.
AfterFailure(b) ==
  LET counted == [b EXCEPT !.consecutiveFails = @ + 1,
                           !.everFailed = TRUE,
                           !.sinceFailure = 0]
      trips   == \/ b.state = "HalfOpen"
                 \/ counted.consecutiveFails >= FailureThreshold
  IN  IF trips THEN [counted EXCEPT !.state = "Open", !.sinceOpened = 0]
               ELSE counted

\* CleanupStale's test: closed, has failed once, and not for a long time.
Stale(b) == b.state = "Closed" /\ b.everFailed /\ b.sinceFailure > StaleAge

\* One tick of the clock on an age compared with limit.
Older(age, limit) == IF age > limit THEN age ELSE age + 1

AfterTick(b) ==
  [b EXCEPT !.sinceOpened  = IF b.state = "Open" THEN Older(@, RecoveryTimeout)
                                                 ELSE @,
            !.sinceFailure = IF b.everFailed THEN Older(@, StaleAge) ELSE @]
=============================================================================
