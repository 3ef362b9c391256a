--------------------------- MODULE BreakerContract --------------------------
(***************************************************************************)
(* What the per-host circuit breaker promises, told without the breaker's  *)
(* fields: the comments of internal/fetch/backoff.go:64-68 and 81-85 as a  *)
(* state machine.  The calls in flight to one host are explicit, because   *)
(* the promise is about them: which calls are let through, and what the    *)
(* outcome of a call may do to the circuit.  The failures that open the    *)
(* circuit and the successes that close it are counted apart, where the    *)
(* code uses one field, consecutiveFails, for both.                        *)
(***************************************************************************)
EXTENDS Naturals

CONSTANTS
  FailureThreshold,   \* consecutive failures to open the circuit
  SuccessThreshold,   \* successes in half-open to close it
  Calls               \* the names of the calls that may be in flight

VARIABLES
  mode,     \* "Closed", "Open" or "HalfOpen"
  fails,    \* failures in a row while closed
  oks,      \* successes since the circuit became half-open
  waited,   \* the recovery timeout of the open circuit has passed
  calls     \* the calls let through whose outcome is not known yet

vars == <<mode, fails, oks, waited, calls>>

Init ==
  /\ mode = "Closed"
  /\ fails = 0
  /\ oks = 0
  /\ waited = FALSE
  /\ calls = {}

\* Old failures of a closed circuit may be forgotten.
Forgotten == mode = "Closed" /\ fails' = 0

Forget ==
  /\ Forgotten
  /\ UNCHANGED <<mode, oks, waited, calls>>

\* A call is let through unless the circuit is open.
Admit(c) ==
  /\ mode # "Open"
  /\ c \notin calls
  /\ calls' = calls \union {c}
  /\ Forgotten \/ UNCHANGED fails
  /\ UNCHANGED <<mode, oks, waited>>

\* Once the recovery timeout has passed, a call makes the circuit half-open.
Probe(c) ==
  /\ mode = "Open" /\ waited
  /\ c \notin calls
  /\ calls' = calls \union {c}
  /\ mode' = "HalfOpen"
  /\ waited' = FALSE
  /\ UNCHANGED <<fails, oks>>

Wait ==
  /\ mode = "Open"
  /\ waited' = TRUE
  /\ UNCHANGED <<mode, fails, oks, calls>>

\* The last failure in a row opens the circuit, any failure does when it is
\* half-open, and a late failure may restart the wait of an open circuit.
Fail ==
  \/ /\ mode = "Closed" /\ fails + 1 < FailureThreshold
     /\ fails' = fails + 1
     /\ UNCHANGED <<mode, oks, waited>>
  \/ /\ \/ mode = "Closed" /\ fails + 1 >= FailureThreshold
        \/ mode = "HalfOpen"
     /\ mode' = "Open"
     /\ fails' = 0
     /\ oks' = 0
     /\ waited' = FALSE
  \/ /\ mode = "Open"
     /\ waited' \in {waited, FALSE}
     /\ UNCHANGED <<mode, fails, oks>>

\* Only successes of the half-open state close the circuit.
Succeed ==
  \/ /\ mode = "Closed"
     /\ fails' = 0
     /\ UNCHANGED <<mode, oks, waited>>
  \/ /\ mode = "HalfOpen" /\ oks + 1 < SuccessThreshold
     /\ oks' = oks + 1
     /\ UNCHANGED <<mode, fails, waited>>
  \/ /\ mode = "HalfOpen" /\ oks + 1 >= SuccessThreshold
     /\ mode' = "Closed"
     /\ oks' = 0
     /\ UNCHANGED <<fails, waited>>
  \/ /\ mode = "Open"
     /\ UNCHANGED <<mode, fails, oks, waited>>

\* Some outcomes are not recorded (an unreadable body, a refused redirect).
Unrecorded == UNCHANGED <<mode, fails, oks, waited>>

Settle(c) ==
  /\ c \in calls
  /\ calls' = calls \ {c}
  /\ Fail \/ Succeed \/ Unrecorded

Next ==
  \/ Forget
  \/ Wait
  \/ \E c \in Calls : Admit(c) \/ Probe(c) \/ Settle(c)

Spec == Init /\ [][Next]_vars
=============================================================================
