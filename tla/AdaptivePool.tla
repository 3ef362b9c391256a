---------------------------- MODULE AdaptivePool ----------------------------
(***************************************************************************)
(* The feedback on the number of concurrent requests to one host           *)
(* (internal/batch/adaptive.go) as a data type: the record of one          *)
(* hostStats and what each method leaves behind.  The methods hold s.mu,   *)
(* so each is one step of the module that uses them.  The sums of latency  *)
(* are written and never read; they are left out.                          *)
(***************************************************************************)
EXTENDS Naturals

CONSTANTS
  MinPerHost,   \* AdaptivePool.minPerHost (the program passes 2)
  MaxPerHost,   \* AdaptivePool.maxPerHost (the program passes 8)
  GrowAfter,    \* successes that raise the target (5)
  ShrinkAfter   \* failures that lower it (2)

\* NewAdaptivePool replaces bounds that are not positive, and does not compare
\* them with one another.
ASSUME AdaptiveAssumption ==
  /\ MinPerHost \in Nat \ {0}
  /\ MaxPerHost \in Nat \ {0}
  /\ GrowAfter \in Nat \ {0}
  /\ ShrinkAfter \in Nat \ {0}

HostStats == [concurrency : Nat, errorCount : Nat, successCount : Nat]

\* What getOrCreateStats creates.
NewStats == [concurrency |-> MinPerHost, errorCount |-> 0, successCount |-> 0]

\* Mutant: the target may pass its bound by one.
AfterSuccessOffByOne(s) ==
  LET counted == [s EXCEPT !.successCount = @ + 1]
  IN  IF counted.successCount >= GrowAfter /\ counted.errorCount = 0
        THEN [counted EXCEPT
                !.concurrency = IF @ <= MaxPerHost THEN @ + 1 ELSE @,
                !.successCount = 0]
        ELSE counted

\* RecordSuccess.
AfterSuccess(s) ==
  LET counted == [s EXCEPT !.successCount = @ + 1]
  IN  IF counted.successCount >= GrowAfter /\ counted.errorCount = 0
        THEN [counted EXCEPT
                !.concurrency = IF @ < MaxPerHost THEN @ + 1 ELSE @,
                !.successCount = 0]
        ELSE counted

\* RecordFailure.
AfterFailure(s) ==
  LET counted == [s EXCEPT !.errorCount = @ + 1, !.successCount = 0]
  IN  IF counted.errorCount >= ShrinkAfter
        THEN [counted EXCEPT
                !.concurrency = IF @ > MinPerHost THEN @ - 1 ELSE @,
                !.errorCount = 0]
        ELSE counted

\* The bounds of the target: with bounds the wrong way round it stays where
\* it starts.
TargetMax == IF MaxPerHost > MinPerHost THEN MaxPerHost ELSE MinPerHost
TargetBounds == MinPerHost..TargetMax
=============================================================================
