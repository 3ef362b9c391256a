--------------------------- MODULE BatchPoolProofs --------------------------
(***************************************************************************)
(* Theorems about BatchPool, for any batches, items, hosts and limits.     *)
(* IInv of BatchPool is inductive; the invariants of the runs follow.      *)
(***************************************************************************)
EXTENDS BatchPool, FiniteSetTheorems, TLAPS

-----------------------------------------------------------------------------
(* The feedback: its functions keep a record well typed and the target     *)
(* within bounds.                                                          *)

LEMMA Bounds ==
  /\ TargetMax \in Nat /\ MinPerHost <= TargetMax /\ MaxPerHost <= TargetMax
  /\ TargetBounds = {n \in Nat : MinPerHost <= n /\ n <= TargetMax}
  /\ HostLimit \in Nat
BY AdaptiveAssumption, BatchAssumption DEF TargetMax, TargetBounds, HostLimit

LEMMA NewStatsOK ==
  NewStats \in HostStats /\ NewStats.concurrency \in TargetBounds
BY Bounds, AdaptiveAssumption DEF NewStats, HostStats

LEMMA AfterSuccessOK ==
  ASSUME NEW s \in HostStats, s.concurrency \in TargetBounds
  PROVE  AfterSuccess(s) \in HostStats /\ AfterSuccess(s).concurrency \in TargetBounds
<1> DEFINE counted == [s EXCEPT !.successCount = @ + 1]
           target  == IF s.concurrency < MaxPerHost THEN s.concurrency + 1
                                                    ELSE s.concurrency
<1>1. /\ s.concurrency \in Nat
      /\ s.successCount + 1 \in Nat
  BY DEF HostStats
<1>2. counted \in HostStats /\ counted.concurrency = s.concurrency
  BY <1>1 DEF HostStats
<1>3. target \in Nat /\ target \in TargetBounds
  BY <1>1, Bounds, AdaptiveAssumption
<1>4. AfterSuccess(s) = IF counted.successCount >= GrowAfter /\ counted.errorCount = 0
                          THEN [counted EXCEPT !.concurrency = target,
                                               !.successCount = 0]
                          ELSE counted
  BY <1>2 DEF AfterSuccess, HostStats
<1> HIDE DEF counted, target
<1>5. [counted EXCEPT !.concurrency = target, !.successCount = 0] \in HostStats
  BY <1>2, <1>3 DEF HostStats
<1>6. [counted EXCEPT !.concurrency = target, !.successCount = 0].concurrency = target
  BY <1>2 DEF HostStats
<1>7. QED
  BY <1>2, <1>3, <1>4, <1>5, <1>6

LEMMA AfterFailureOK ==
  ASSUME NEW s \in HostStats, s.concurrency \in TargetBounds
  PROVE  AfterFailure(s) \in HostStats /\ AfterFailure(s).concurrency \in TargetBounds
<1> DEFINE counted == [s EXCEPT !.errorCount = @ + 1, !.successCount = 0]
           target  == IF s.concurrency > MinPerHost THEN s.concurrency - 1
                                                    ELSE s.concurrency
<1>1. /\ s.concurrency \in Nat
      /\ s.errorCount + 1 \in Nat
  BY DEF HostStats
<1>2. counted \in HostStats /\ counted.concurrency = s.concurrency
  BY <1>1 DEF HostStats
<1>3. target \in Nat /\ target \in TargetBounds
  BY <1>1, Bounds, AdaptiveAssumption
<1>4. AfterFailure(s) = IF counted.errorCount >= ShrinkAfter
                          THEN [counted EXCEPT !.concurrency = target,
                                               !.errorCount = 0]
                          ELSE counted
  BY <1>2 DEF AfterFailure, HostStats
<1> HIDE DEF counted, target
<1>5. [counted EXCEPT !.concurrency = target, !.errorCount = 0] \in HostStats
  BY <1>2, <1>3 DEF HostStats
<1>6. [counted EXCEPT !.concurrency = target, !.errorCount = 0].concurrency = target
  BY <1>2 DEF HostStats
<1>7. QED
  BY <1>2, <1>3, <1>4, <1>5, <1>6

-----------------------------------------------------------------------------
(* The sets whose cardinality the channels count, when one goroutine moves *)
(* and nothing else does.                                                  *)

\* Updates of one place of a nested function.
SetHost(b, i, g) == [host EXCEPT ![b][i] = g]
SetTokens(b, h, n) == [hostSems EXCEPT ![b][h].tokens = n]
SetSize(b, h, n) == [hostSems EXCEPT ![b][h].size = n]

\* All subsets of Items are finite.
LEMMA FiniteParts ==
  ASSUME NEW S \in SUBSET Items
  PROVE  IsFiniteSet(S) /\ Cardinality(S) \in Nat /\ Cardinality(S) <= Cardinality(Items)
BY FS_Subset, FS_CardinalityType, BatchAssumption

LEMMA SlotsAfterMove ==
  ASSUME BatchTypeOK, NEW b \in Batches, NEW i \in Items, NEW place \in Place,
         Move(b, i, place), NEW d \in Batches
  PROVE  HoldsSlot(d)' = IF d # b THEN HoldsSlot(d)
                         ELSE IF place \in {"check", "host", "run"}
                                THEN HoldsSlot(d) \union {i}
                                ELSE HoldsSlot(d) \ {i}
BY DEF BatchTypeOK, Move, HoldsSlot, Place

LEMMA RunningAfterMove ==
  ASSUME BatchTypeOK, NEW b \in Batches, NEW i \in Items, NEW place \in Place,
         Move(b, i, place), NEW g \in Hosts \union {NoHost},
         host' = SetHost(b, i, g),
         NEW d \in Batches, NEW h \in Hosts
  PROVE  Running(d, h)' = IF d # b THEN Running(d, h)
                          ELSE IF place = "run" /\ g = h
                                 THEN Running(d, h) \union {i}
                                 ELSE Running(d, h) \ {i}
BY DEF BatchTypeOK, Move, Running, Place, SetHost

LEMMA PcAfterMove ==
  ASSUME BatchTypeOK, NEW b \in Batches, NEW i \in Items, NEW place \in Place,
         Move(b, i, place)
  PROVE  /\ itemPc' \in [Batches -> [Items -> Place]]
         /\ \A d \in Batches, j \in Items :
              itemPc'[d][j] = IF d = b /\ j = i THEN place ELSE itemPc[d][j]
BY DEF BatchTypeOK, Move

LEMMA SameHost ==
  ASSUME BatchTypeOK, NEW b \in Batches, NEW i \in Items
  PROVE  host = SetHost(b, i, host[b][i])
BY DEF BatchTypeOK, SetHost

LEMMA TokensAfter ==
  ASSUME BatchTypeOK, NEW b \in Batches, NEW h \in Hosts, NEW n \in Nat,
         hostSems' = SetTokens(b, h, n)
  PROVE  /\ hostSems' \in [Batches -> [Hosts -> [size : Nat, tokens : Nat]]]
         /\ \A d \in Batches, g \in Hosts :
              /\ hostSems'[d][g].size = hostSems[d][g].size
              /\ hostSems'[d][g].tokens = IF d = b /\ g = h
                                            THEN n ELSE hostSems[d][g].tokens
<1> DEFINE Sem == [size : Nat, tokens : Nat]
           sem == [hostSems[b][h] EXCEPT !.tokens = n]
           row == [hostSems[b] EXCEPT ![h] = sem]
<1>1. hostSems \in [Batches -> [Hosts -> Sem]]
  BY DEF BatchTypeOK
<1>2. hostSems' = [hostSems EXCEPT ![b] = row]
  BY DEF SetTokens
<1>3. hostSems[b] \in [Hosts -> Sem] /\ hostSems[b][h] \in Sem
  BY <1>1
<1>4. sem \in Sem /\ sem.size = hostSems[b][h].size /\ sem.tokens = n
  BY <1>3
<1> HIDE DEF sem, Sem
<1>5. /\ row \in [Hosts -> Sem]
      /\ \A g \in Hosts : row[g] = IF g = h THEN sem ELSE hostSems[b][g]
  BY <1>3, <1>4
<1> HIDE DEF row
<1>6. /\ hostSems' \in [Batches -> [Hosts -> Sem]]
      /\ \A d \in Batches : hostSems'[d] = IF d = b THEN row ELSE hostSems[d]
  BY <1>1, <1>2, <1>5
<1>7. ASSUME NEW d \in Batches, NEW g \in Hosts
      PROVE  /\ hostSems'[d][g].size = hostSems[d][g].size
             /\ hostSems'[d][g].tokens = IF d = b /\ g = h
                                           THEN n ELSE hostSems[d][g].tokens
  BY <1>4, <1>5, <1>6
<1>8. QED
  BY <1>6, <1>7 DEF Sem

LEMMA SizeAfter ==
  ASSUME BatchTypeOK, NEW b \in Batches, NEW h \in Hosts, NEW n \in Nat,
         hostSems' = SetSize(b, h, n)
  PROVE  /\ hostSems' \in [Batches -> [Hosts -> [size : Nat, tokens : Nat]]]
         /\ \A d \in Batches, g \in Hosts :
              /\ hostSems'[d][g].tokens = hostSems[d][g].tokens
              /\ hostSems'[d][g].size = IF d = b /\ g = h
                                          THEN n ELSE hostSems[d][g].size
<1> DEFINE Sem == [size : Nat, tokens : Nat]
           sem == [hostSems[b][h] EXCEPT !.size = n]
           row == [hostSems[b] EXCEPT ![h] = sem]
<1>1. hostSems \in [Batches -> [Hosts -> Sem]]
  BY DEF BatchTypeOK
<1>2. hostSems' = [hostSems EXCEPT ![b] = row]
  BY DEF SetSize
<1>3. hostSems[b] \in [Hosts -> Sem] /\ hostSems[b][h] \in Sem
  BY <1>1
<1>4. sem \in Sem /\ sem.tokens = hostSems[b][h].tokens /\ sem.size = n
  BY <1>3
<1> HIDE DEF sem, Sem
<1>5. /\ row \in [Hosts -> Sem]
      /\ \A g \in Hosts : row[g] = IF g = h THEN sem ELSE hostSems[b][g]
  BY <1>3, <1>4
<1> HIDE DEF row
<1>6. /\ hostSems' \in [Batches -> [Hosts -> Sem]]
      /\ \A d \in Batches : hostSems'[d] = IF d = b THEN row ELSE hostSems[d]
  BY <1>1, <1>2, <1>5
<1>7. ASSUME NEW d \in Batches, NEW g \in Hosts
      PROVE  /\ hostSems'[d][g].tokens = hostSems[d][g].tokens
             /\ hostSems'[d][g].size = IF d = b /\ g = h
                                         THEN n ELSE hostSems[d][g].size
  BY <1>4, <1>5, <1>6
<1>8. QED
  BY <1>6, <1>7 DEF Sem

\* A member is one of the counted.
LEMMA OneLess ==
  ASSUME NEW S \in SUBSET Items, NEW i \in S
  PROVE  Cardinality(S) - 1 \in Nat /\ Cardinality(S \ {i}) = Cardinality(S) - 1
<1>1. IsFiniteSet(S)
  BY FiniteParts
<1>2. Cardinality(S \ {i}) = Cardinality(S) - 1
  BY <1>1, FS_RemoveElement
<1>3. Cardinality(S \ {i}) \in Nat
  BY FiniteParts
<1>4. QED
  BY <1>2, <1>3

LEMMA OneMore ==
  ASSUME NEW S \in SUBSET Items, NEW i \in Items \ S
  PROVE  Cardinality(S \union {i}) = Cardinality(S) + 1
BY FiniteParts, FS_AddElement

LEMMA NotIn ==
  ASSUME NEW S, NEW i, i \notin S
  PROVE  S \ {i} = S
OBVIOUS

LEMMA Parts ==
  ASSUME NEW b \in Batches
  PROVE  /\ HoldsSlot(b) \in SUBSET Items
         /\ \A h \in Hosts : Running(b, h) \in SUBSET Items
BY DEF HoldsSlot, Running

-----------------------------------------------------------------------------
(* The steps.  The parts of IInv about goroutines and about channels get   *)
(* names.                                                                  *)

Goroutines ==
  \A b \in Batches, i \in Items :
    /\ host[b][i] \in Hosts <=> itemPc[b][i] \in {"host", "run"}
    /\ phase[b] = "idle" => itemPc[b][i] = "done"
    /\ itemPc[b][i] = "done" /\ ~cancelled[b] => results[b][i] # "zero"

Channels ==
  \A b \in Batches, h \in Hosts :
    /\ hostSems[b][h].tokens <= hostSems[b][h].size
    /\ hostSems[b][h].size <= HostLimit

LEMMA IInvParts ==
  IInv <=> BatchTypeOK /\ TokensAreOwned /\ TargetInBounds /\ Goroutines /\ Channels
BY DEF IInv, Goroutines, Channels

\* When one goroutine of b moves, the tokens of the other batches stay owned.
LEMMA OwnedAfterMove ==
  ASSUME BatchTypeOK, TokensAreOwned,
         NEW b \in Batches, NEW i \in Items, NEW place \in Place,
         Move(b, i, place), NEW g \in Hosts \union {NoHost},
         host' = SetHost(b, i, g),
         \A d \in Batches : d # b =>
           /\ globalSem'[d] = globalSem[d]
           /\ \A h \in Hosts : hostSems'[d][h].tokens = hostSems[d][h].tokens,
         globalSem'[b] = Cardinality(HoldsSlot(b)'),
         \A h \in Hosts : hostSems'[b][h].tokens = Cardinality(Running(b, h)')
  PROVE  TokensAreOwned'
<1>1. ASSUME NEW d \in Batches, d # b
      PROVE  /\ globalSem'[d] = Cardinality(HoldsSlot(d)')
             /\ \A h \in Hosts : hostSems'[d][h].tokens = Cardinality(Running(d, h)')
  <2>1. HoldsSlot(d)' = HoldsSlot(d)
    BY <1>1, SlotsAfterMove
  <2>2. \A h \in Hosts : Running(d, h)' = Running(d, h)
    BY <1>1, RunningAfterMove
  <2>3. QED
    BY <1>1, <2>1, <2>2 DEF TokensAreOwned
<1>2. QED
  BY <1>1 DEF TokensAreOwned

LEMMA InitInductive == BatchInit => IInv
<1> SUFFICES ASSUME BatchInit PROVE IInv
  OBVIOUS
<1>1. BatchTypeOK
  BY NewStatsOK, BatchAssumption DEF BatchInit, BatchTypeOK, Place, NoSem
<1>2. TokensAreOwned
  <2>1. \A b \in Batches : HoldsSlot(b) = {}
    BY DEF BatchInit, HoldsSlot
  <2>2. \A b \in Batches, h \in Hosts : Running(b, h) = {}
    BY DEF BatchInit, Running
  <2>3. QED
    BY <2>1, <2>2, FS_EmptySet DEF BatchInit, TokensAreOwned, NoSem
<1>3. TargetInBounds
  BY NewStatsOK DEF BatchInit, TargetInBounds
<1>4. Goroutines
  BY BatchAssumption DEF BatchInit, Goroutines
<1>5. Channels
  BY Bounds DEF BatchInit, Channels, NoSem
<1>6. QED
  BY <1>1, <1>2, <1>3, <1>4, <1>5, IInvParts

LEMMA StartInductive ==
  ASSUME IInv, NEW b \in Batches, Start(b) PROVE IInv'
<1>1. BatchTypeOK'
  <2>1. [i \in Items |-> "global"] \in [Items -> Place]
    BY DEF Place
  <2>2. itemPc' \in [Batches -> [Items -> Place]]
    BY <2>1 DEF IInv, BatchTypeOK, Start
  <2>3. results' \in [Batches -> [Items -> {"zero", "written"}]]
    BY DEF IInv, BatchTypeOK, Start
  <2>4. started' \in 0..MaxBatches
    BY BatchAssumption DEF IInv, BatchTypeOK, Start
  <2>5. QED
    BY <2>2, <2>3, <2>4 DEF IInv, BatchTypeOK, Start
<1>2. TokensAreOwned'
  <2>1. \A i \in Items : itemPc[b][i] = "done"
    BY DEF IInv, Start
  <2>2. HoldsSlot(b) = {} /\ HoldsSlot(b)' = {}
    BY <2>1 DEF IInv, BatchTypeOK, Start, HoldsSlot
  <2>3. \A h \in Hosts : Running(b, h) = {} /\ Running(b, h)' = {}
    BY <2>1 DEF IInv, BatchTypeOK, Start, Running
  <2>4. \A d \in Batches \ {b} : HoldsSlot(d)' = HoldsSlot(d)
    BY DEF IInv, BatchTypeOK, Start, HoldsSlot
  <2>5. \A d \in Batches \ {b}, h \in Hosts : Running(d, h)' = Running(d, h)
    BY DEF IInv, BatchTypeOK, Start, Running
  <2>6. \A d \in Batches : globalSem'[d] = Cardinality(HoldsSlot(d)')
    <3>1. globalSem' = globalSem
      BY DEF Start
    <3>2. \A d \in Batches : globalSem[d] = Cardinality(HoldsSlot(d))
      BY DEF IInv, TokensAreOwned
    <3>3. \A d \in Batches : HoldsSlot(d)' = HoldsSlot(d)
      BY <2>2, <2>4
    <3>4. QED
      BY <3>1, <3>2, <3>3
  <2>7. \A d \in Batches, h \in Hosts :
          hostSems'[d][h].tokens = Cardinality(Running(d, h)')
    <3>1. hostSems' = hostSems
      BY DEF Start
    <3>2. \A d \in Batches, h \in Hosts :
            hostSems[d][h].tokens = Cardinality(Running(d, h))
      BY DEF IInv, TokensAreOwned
    <3>3. \A d \in Batches, h \in Hosts : Running(d, h)' = Running(d, h)
      BY <2>3, <2>5
    <3>4. QED
      BY <3>1, <3>2, <3>3
  <2>8. QED
    BY <2>6, <2>7 DEF TokensAreOwned
<1>3. TargetInBounds'
  BY DEF IInv, TargetInBounds, Start
<1>4. Goroutines'
  BY DEF IInv, BatchTypeOK, Goroutines, Start
<1>5. Channels'
  BY DEF IInv, Channels, Start, HostLimit
<1>6. QED
  BY <1>1, <1>2, <1>3, <1>4, <1>5, IInvParts, PTL

LEMMA TakeSlotInductive ==
  ASSUME IInv, NEW b \in Batches, NEW i \in Items, TakeSlot(b, i) PROVE IInv'
<1> USE DEF TakeSlot
<1>1. /\ BatchTypeOK /\ TokensAreOwned /\ TargetInBounds /\ Goroutines /\ Channels
      /\ "check" \in Place /\ host[b][i] \in Hosts \union {NoHost}
      /\ host' = SetHost(b, i, host[b][i])
  BY IInvParts, SameHost DEF BatchTypeOK, Place
<1>2. BatchTypeOK'
  <2>1. globalSem' \in [Batches -> 0..Workers]
    BY <1>1, BatchAssumption DEF BatchTypeOK
  <2>2. QED
    BY <1>1, <2>1, PcAfterMove DEF BatchTypeOK
<1>3. TokensAreOwned'
  <2>1. /\ HoldsSlot(b)' = HoldsSlot(b) \union {i}
        /\ i \notin HoldsSlot(b)
    BY <1>1, SlotsAfterMove DEF HoldsSlot
  <2>2. globalSem'[b] = Cardinality(HoldsSlot(b)')
    <3>1. globalSem'[b] = globalSem[b] + 1
      BY <1>1 DEF BatchTypeOK
    <3>2. QED
      BY <1>1, <2>1, <3>1, OneMore, Parts DEF TokensAreOwned
  <2>3. \A h \in Hosts : Running(b, h)' = Running(b, h)
    BY <1>1, RunningAfterMove, NotIn DEF Running
  <2>4. \A h \in Hosts : hostSems'[b][h].tokens = Cardinality(Running(b, h)')
    BY <1>1, <2>3 DEF TokensAreOwned
  <2>5. \A d \in Batches : d # b =>
          /\ globalSem'[d] = globalSem[d]
          /\ \A h \in Hosts : hostSems'[d][h].tokens = hostSems[d][h].tokens
    BY <1>1 DEF BatchTypeOK
  <2>6. QED
    BY <1>1, <2>2, <2>4, <2>5, OwnedAfterMove
<1>4. TargetInBounds'
  BY <1>1 DEF TargetInBounds
<1>5. Goroutines'
  BY <1>1, PcAfterMove DEF Goroutines
<1>6. Channels'
  BY <1>1 DEF Channels, HostLimit
<1>7. QED
  BY <1>2, <1>3, <1>4, <1>5, <1>6, IInvParts, PTL

LEMMA AbandonInductive ==
  ASSUME IInv, NEW b \in Batches, NEW i \in Items, Abandon(b, i) PROVE IInv'
<1> USE DEF Abandon
<1>1. /\ BatchTypeOK /\ TokensAreOwned /\ TargetInBounds /\ Goroutines /\ Channels
      /\ "done" \in Place /\ host[b][i] \in Hosts \union {NoHost}
      /\ host' = SetHost(b, i, host[b][i])
  BY IInvParts, SameHost DEF BatchTypeOK, Place
<1>2. i \in HoldsSlot(b)
  BY DEF HoldsSlot
<1>3. /\ Cardinality(HoldsSlot(b) \ {i}) = globalSem[b] - 1
      /\ globalSem[b] - 1 \in Nat
  BY <1>1, <1>2, OneLess, Parts DEF TokensAreOwned
<1>4. BatchTypeOK'
  <2>1. globalSem' \in [Batches -> 0..Workers]
    BY <1>1, <1>3, BatchAssumption DEF BatchTypeOK
  <2>2. QED
    BY <1>1, <2>1, PcAfterMove DEF BatchTypeOK
<1>5. TokensAreOwned'
  <2>1. HoldsSlot(b)' = HoldsSlot(b) \ {i}
    BY <1>1, SlotsAfterMove
  <2>2. globalSem'[b] = Cardinality(HoldsSlot(b)')
    BY <1>1, <1>3, <2>1 DEF BatchTypeOK
  <2>3. \A h \in Hosts : Running(b, h)' = Running(b, h)
    BY <1>1, RunningAfterMove, NotIn DEF Running
  <2>4. \A h \in Hosts : hostSems'[b][h].tokens = Cardinality(Running(b, h)')
    BY <1>1, <2>3 DEF TokensAreOwned
  <2>5. \A d \in Batches : d # b =>
          /\ globalSem'[d] = globalSem[d]
          /\ \A h \in Hosts : hostSems'[d][h].tokens = hostSems[d][h].tokens
    BY <1>1 DEF BatchTypeOK
  <2>6. QED
    BY <1>1, <2>2, <2>4, <2>5, OwnedAfterMove
<1>6. TargetInBounds'
  BY <1>1 DEF TargetInBounds
<1>7. Goroutines'
  BY <1>1, PcAfterMove DEF Goroutines
<1>8. Channels'
  BY <1>1 DEF Channels, HostLimit
<1>9. QED
  BY <1>4, <1>5, <1>6, <1>7, <1>8, IInvParts, PTL

LEMMA FindHostSemInductive ==
  ASSUME IInv, NEW b \in Batches, NEW i \in Items, FindHostSem(b, i) PROVE IInv'
<1> USE DEF FindHostSem
<1>1. /\ BatchTypeOK /\ TokensAreOwned /\ TargetInBounds /\ Goroutines /\ Channels
      /\ "host" \in Place
  BY IInvParts DEF Place
<1>2. PICK h \in Hosts :
        /\ host' = SetHost(b, i, h)
        /\ hostSems' = IF hostSems[b][h].size = 0
                         THEN SetSize(b, h, HostConcurrency(h))
                         ELSE hostSems
  BY DEF SetHost, SetSize
<1>3. HostConcurrency(h) \in Nat /\ HostConcurrency(h) <= HostLimit
  BY <1>1, Bounds, BatchAssumption DEF TargetInBounds, HostConcurrency, HostLimit
<1>4. /\ hostSems' \in [Batches -> [Hosts -> [size : Nat, tokens : Nat]]]
      /\ \A d \in Batches, g \in Hosts :
           /\ hostSems'[d][g].tokens = hostSems[d][g].tokens
           /\ \/ hostSems'[d][g].size = hostSems[d][g].size
              \/ hostSems[d][g].size = 0 /\ hostSems'[d][g].size = HostConcurrency(h)
  <2>1. CASE hostSems[b][h].size = 0
    <3>1. hostSems' = SetSize(b, h, HostConcurrency(h))
      BY <1>2, <2>1
    <3>2. \A d \in Batches, g \in Hosts :
            /\ hostSems'[d][g].tokens = hostSems[d][g].tokens
            /\ hostSems'[d][g].size = IF d = b /\ g = h
                                        THEN HostConcurrency(h)
                                        ELSE hostSems[d][g].size
      BY <1>1, <1>3, <3>1, SizeAfter
    <3>3. hostSems' \in [Batches -> [Hosts -> [size : Nat, tokens : Nat]]]
      BY <1>1, <1>3, <3>1, SizeAfter
    <3>4. QED
      BY <2>1, <3>2, <3>3
  <2>2. CASE hostSems[b][h].size # 0
    BY <1>1, <1>2, <2>2 DEF BatchTypeOK
  <2>3. QED
    BY <2>1, <2>2
<1>5. host' \in [Batches -> [Items -> Hosts \union {NoHost}]]
  BY <1>1, <1>2 DEF BatchTypeOK, SetHost
<1>6. BatchTypeOK'
  BY <1>1, <1>4, <1>5, PcAfterMove DEF BatchTypeOK
<1>7. TokensAreOwned'
  <2>1. HoldsSlot(b)' = HoldsSlot(b)
    BY <1>1, SlotsAfterMove DEF HoldsSlot
  <2>2. globalSem'[b] = Cardinality(HoldsSlot(b)')
    BY <1>1, <2>1 DEF TokensAreOwned
  <2>3. \A g \in Hosts : Running(b, g)' = Running(b, g)
    BY <1>1, <1>2, RunningAfterMove, NotIn DEF Running
  <2>4. \A g \in Hosts : hostSems'[b][g].tokens = Cardinality(Running(b, g)')
    BY <1>1, <1>4, <2>3 DEF TokensAreOwned
  <2>5. \A d \in Batches : d # b =>
          /\ globalSem'[d] = globalSem[d]
          /\ \A g \in Hosts : hostSems'[d][g].tokens = hostSems[d][g].tokens
    BY <1>4
  <2>6. QED
    BY <1>1, <1>2, <2>2, <2>4, <2>5, OwnedAfterMove
<1>8. TargetInBounds'
  BY <1>1 DEF TargetInBounds
<1>9. Goroutines'
  <2>1. \A d \in Batches, j \in Items :
          host'[d][j] = IF d = b /\ j = i THEN h ELSE host[d][j]
    BY <1>1, <1>2 DEF BatchTypeOK, SetHost
  <2>2. QED
    BY <1>1, <2>1, PcAfterMove DEF Goroutines
<1>10. Channels'
  <2>1. ASSUME NEW d \in Batches, NEW g \in Hosts
        PROVE  /\ hostSems'[d][g].tokens <= hostSems'[d][g].size
               /\ hostSems'[d][g].size <= HostLimit
    <3>1. hostSems[d][g].tokens \in Nat /\ hostSems[d][g].size \in Nat
      BY <1>1 DEF BatchTypeOK
    <3>2. QED
      BY <1>1, <1>3, <1>4, <3>1, Bounds DEF Channels
  <2>2. QED
    BY <2>1 DEF Channels, HostLimit
<1>11. QED
  BY <1>6, <1>7, <1>8, <1>9, <1>10, IInvParts, PTL

LEMMA TakeHostSlotInductive ==
  ASSUME IInv, NEW b \in Batches, NEW i \in Items, TakeHostSlot(b, i) PROVE IInv'
<1> DEFINE h == host[b][i]
           n == hostSems[b][h].tokens + 1
<1>1. /\ BatchTypeOK /\ TokensAreOwned /\ TargetInBounds /\ Goroutines /\ Channels
      /\ "run" \in Place /\ h \in Hosts /\ itemPc[b][i] = "host"
      /\ Move(b, i, "run") /\ host' = SetHost(b, i, h)
  BY IInvParts, SameHost DEF TakeHostSlot, Goroutines, Place
<1>2. /\ hostSems' = SetTokens(b, h, n)
      /\ hostSems[b][h].tokens < hostSems[b][h].size
      /\ UNCHANGED <<stats, phase, cancelled, host, globalSem, results, started>>
  BY DEF TakeHostSlot, SetTokens
<1> HIDE DEF h, n
<1>3. n \in Nat /\ n <= hostSems[b][h].size
  <2>1. hostSems[b][h] \in [size : Nat, tokens : Nat]
    BY <1>1 DEF BatchTypeOK
  <2>2. /\ hostSems[b][h].tokens \in Nat
        /\ hostSems[b][h].size \in Nat
    BY <2>1
  <2>3. QED
    BY <1>2, <2>2 DEF n
<1>4. /\ hostSems' \in [Batches -> [Hosts -> [size : Nat, tokens : Nat]]]
      /\ \A d \in Batches, g \in Hosts :
           /\ hostSems'[d][g].size = hostSems[d][g].size
           /\ hostSems'[d][g].tokens = IF d = b /\ g = h
                                         THEN n ELSE hostSems[d][g].tokens
  BY <1>1, <1>2, <1>3, TokensAfter
<1>5. BatchTypeOK'
  BY <1>1, <1>2, <1>4, PcAfterMove DEF BatchTypeOK
<1>6. TokensAreOwned'
  <2>1. HoldsSlot(b)' = HoldsSlot(b)
    BY <1>1, <1>2, SlotsAfterMove DEF HoldsSlot
  <2>2. globalSem'[b] = Cardinality(HoldsSlot(b)')
    BY <1>1, <1>2, <2>1 DEF TokensAreOwned
  <2>3. ASSUME NEW g \in Hosts
        PROVE  hostSems'[b][g].tokens = Cardinality(Running(b, g)')
    <3>1. i \notin Running(b, g)
      BY <1>1 DEF Running
    <3>2. CASE g = h
      <4>1. Running(b, g)' = Running(b, g) \union {i}
        BY <1>1, <3>2, RunningAfterMove
      <4>2. QED
        <5>1. Cardinality(Running(b, g)') = Cardinality(Running(b, g)) + 1
          BY <3>1, <4>1, OneMore, Parts
        <5>2. hostSems'[b][g].tokens = hostSems[b][g].tokens + 1
          BY <1>4, <3>2 DEF n
        <5>3. QED
          BY <1>1, <5>1, <5>2 DEF TokensAreOwned
    <3>3. CASE g # h
      <4>1. Running(b, g)' = Running(b, g)
        <5>1. Running(b, g)' = Running(b, g) \ {i}
          BY <1>1, <3>3, RunningAfterMove
        <5>2. QED
          BY <3>1, <5>1, NotIn
      <4>2. QED
        <5>1. hostSems'[b][g].tokens = hostSems[b][g].tokens
          BY <1>4, <3>3
        <5>2. QED
          BY <1>1, <4>1, <5>1 DEF TokensAreOwned
    <3>4. QED
      BY <3>2, <3>3
  <2>4. \A d \in Batches : d # b =>
          /\ globalSem'[d] = globalSem[d]
          /\ \A g \in Hosts : hostSems'[d][g].tokens = hostSems[d][g].tokens
    BY <1>2, <1>4
  <2>5. QED
    BY <1>1, <1>2, <2>2, <2>3, <2>4, OwnedAfterMove
<1>7. TargetInBounds'
  BY <1>1, <1>2 DEF TargetInBounds
<1>8. Goroutines'
  <2>1. \A d \in Batches, j \in Items :
          itemPc'[d][j] = IF d = b /\ j = i THEN "run" ELSE itemPc[d][j]
    BY <1>1, PcAfterMove
  <2>2. host' = host /\ phase' = phase /\ cancelled' = cancelled /\ results' = results
    BY <1>2
  <2>3. host[b][i] \in Hosts
    BY <1>1 DEF h
  <2>4. QED
    BY <1>1, <2>1, <2>2, <2>3 DEF Goroutines
<1>9. Channels'
  <2>1. ASSUME NEW d \in Batches, NEW g \in Hosts
        PROVE  /\ hostSems'[d][g].tokens <= hostSems'[d][g].size
               /\ hostSems'[d][g].size <= HostLimit
    <3>1. /\ hostSems[d][g].tokens <= hostSems[d][g].size
          /\ hostSems[d][g].size <= HostLimit
      BY <1>1 DEF Channels
    <3>2. CASE d = b /\ g = h
      BY <1>3, <1>4, <3>1, <3>2
    <3>3. CASE ~(d = b /\ g = h)
      BY <1>4, <3>1, <3>3
    <3>4. QED
      BY <3>2, <3>3
  <2>2. QED
    BY <2>1 DEF Channels, HostLimit
<1>10. QED
  BY <1>5, <1>6, <1>7, <1>8, <1>9, IInvParts, PTL

LEMMA FinishInductive ==
  ASSUME IInv, NEW b \in Batches, NEW i \in Items, FinishItem(b, i) PROVE IInv'
<1> DEFINE h == host[b][i]
           n == hostSems[b][h].tokens - 1
<1>1. /\ BatchTypeOK /\ TokensAreOwned /\ TargetInBounds /\ Goroutines /\ Channels
      /\ "done" \in Place /\ NoHost \in Hosts \union {NoHost}
      /\ itemPc[b][i] = "run" /\ h \in Hosts
  BY IInvParts DEF FinishItem, Goroutines, Place
<1>2. /\ Move(b, i, "done") /\ host' = SetHost(b, i, NoHost)
      /\ hostSems' = SetTokens(b, h, n)
      /\ globalSem' = [globalSem EXCEPT ![b] = globalSem[b] - 1]
      /\ UNCHANGED <<phase, cancelled, started>>
  BY DEF FinishItem, Release, SetHost, SetTokens
<1>3. PICK res \in {"ok", "failed"} : Record(h, res) /\ StoreResult(b, i, res)
  BY DEF FinishItem
<1>4. i \in HoldsSlot(b) /\ i \in Running(b, h)
  BY <1>1 DEF HoldsSlot, Running
<1> HIDE DEF h
<1>5. /\ Cardinality(HoldsSlot(b) \ {i}) = globalSem[b] - 1
      /\ globalSem[b] - 1 \in Nat
  BY <1>1, <1>4, OneLess, Parts DEF TokensAreOwned
<1>6. Cardinality(Running(b, h) \ {i}) = n /\ n \in Nat
  BY <1>1, <1>4, OneLess, Parts DEF TokensAreOwned
<1> HIDE DEF n
<1>7. /\ hostSems' \in [Batches -> [Hosts -> [size : Nat, tokens : Nat]]]
      /\ \A d \in Batches, g \in Hosts :
           /\ hostSems'[d][g].size = hostSems[d][g].size
           /\ hostSems'[d][g].tokens = IF d = b /\ g = h
                                         THEN n ELSE hostSems[d][g].tokens
  BY <1>1, <1>2, <1>6, TokensAfter
<1>8. stats' \in [Hosts -> HostStats] /\ TargetInBounds'
  <2>1. \A s \in HostStats : s.concurrency \in TargetBounds =>
          /\ AfterSuccess(s) \in HostStats /\ AfterFailure(s) \in HostStats
          /\ AfterSuccess(s).concurrency \in TargetBounds
          /\ AfterFailure(s).concurrency \in TargetBounds
    BY AfterSuccessOK, AfterFailureOK
  <2>2. stats[h] \in HostStats /\ stats[h].concurrency \in TargetBounds
    BY <1>1 DEF BatchTypeOK, TargetInBounds
  <2>3. PICK s \in HostStats :
          /\ s.concurrency \in TargetBounds
          /\ stats' = [stats EXCEPT ![h] = s]
    <3>1. CASE Adaptive /\ res = "ok"
      BY <1>3, <2>1, <2>2, <3>1 DEF Record
    <3>2. CASE Adaptive /\ res # "ok"
      BY <1>3, <2>1, <2>2, <3>2 DEF Record
    <3>3. CASE ~Adaptive
      <4>1. stats' = [stats EXCEPT ![h] = stats[h]]
        BY <1>1, <1>3, <3>3 DEF Record, BatchTypeOK
      <4>2. QED
        BY <2>2, <4>1
    <3>4. QED
      BY <3>1, <3>2, <3>3
  <2>4. QED
    BY <1>1, <2>3 DEF BatchTypeOK, TargetInBounds, TargetBounds, TargetMax
<1>9. BatchTypeOK'
  <2>1. globalSem' \in [Batches -> 0..Workers]
    BY <1>1, <1>2, <1>5, BatchAssumption DEF BatchTypeOK
  <2>2. results' \in [Batches -> [Items -> {"zero", "written"}]]
    BY <1>1, <1>3 DEF BatchTypeOK, StoreResult
  <2>3. host' \in [Batches -> [Items -> Hosts \union {NoHost}]]
    BY <1>1, <1>2 DEF BatchTypeOK, SetHost
  <2>4. itemPc' \in [Batches -> [Items -> Place]]
    BY <1>1, <1>2, PcAfterMove
  <2>5. QED
    BY <1>1, <1>2, <1>7, <1>8, <2>1, <2>2, <2>3, <2>4 DEF BatchTypeOK
<1>10. TokensAreOwned'
  <2>1. HoldsSlot(b)' = HoldsSlot(b) \ {i}
    BY <1>1, <1>2, SlotsAfterMove
  <2>2. globalSem'[b] = Cardinality(HoldsSlot(b)')
    BY <1>1, <1>2, <1>5, <2>1 DEF BatchTypeOK
  <2>3. ASSUME NEW g \in Hosts
        PROVE  hostSems'[b][g].tokens = Cardinality(Running(b, g)')
    <3>1. Running(b, g)' = Running(b, g) \ {i}
      BY <1>1, <1>2, RunningAfterMove
    <3>2. CASE g = h
      BY <1>6, <1>7, <3>1, <3>2
    <3>3. CASE g # h
      <4>1. i \notin Running(b, g)
        BY <3>3 DEF Running, h
      <4>2. QED
        <5>1. Running(b, g)' = Running(b, g)
          BY <3>1, <4>1, NotIn
        <5>2. hostSems'[b][g].tokens = hostSems[b][g].tokens
          BY <1>7, <3>3
        <5>3. QED
          BY <1>1, <5>1, <5>2 DEF TokensAreOwned
    <3>4. QED
      BY <3>2, <3>3
  <2>4. \A d \in Batches : d # b =>
          /\ globalSem'[d] = globalSem[d]
          /\ \A g \in Hosts : hostSems'[d][g].tokens = hostSems[d][g].tokens
    BY <1>1, <1>2, <1>7 DEF BatchTypeOK
  <2>5. QED
    BY <1>1, <1>2, <2>2, <2>3, <2>4, OwnedAfterMove
<1>11. Goroutines'
  <2>1. \A d \in Batches, j \in Items :
          /\ host'[d][j] = IF d = b /\ j = i THEN NoHost ELSE host[d][j]
          /\ results'[d][j] = IF d = b /\ j = i THEN "written" ELSE results[d][j]
    BY <1>1, <1>2, <1>3 DEF BatchTypeOK, SetHost, StoreResult
  <2>2. NoHost \notin Hosts
    BY BatchAssumption
  <2>3. \A d \in Batches, j \in Items :
          itemPc'[d][j] = IF d = b /\ j = i THEN "done" ELSE itemPc[d][j]
    BY <1>1, <1>2, PcAfterMove
  <2>4. phase' = phase /\ cancelled' = cancelled
    BY <1>2
  <2>5. QED
    BY <1>1, <2>1, <2>2, <2>3, <2>4 DEF Goroutines
<1>12. Channels'
  <2>1. ASSUME NEW d \in Batches, NEW g \in Hosts
        PROVE  /\ hostSems'[d][g].tokens <= hostSems'[d][g].size
               /\ hostSems'[d][g].size <= HostLimit
    <3>1. hostSems[d][g].tokens \in Nat /\ hostSems[d][g].size \in Nat
      BY <1>1 DEF BatchTypeOK
    <3>2. QED
      BY <1>1, <1>6, <1>7, <3>1 DEF Channels, n
  <2>2. QED
    BY <2>1 DEF Channels, HostLimit
<1>13. QED
  BY <1>8, <1>9, <1>10, <1>11, <1>12, IInvParts, PTL

LEMMA ReturnInductive ==
  ASSUME IInv, NEW b \in Batches, Return(b) PROVE IInv'
<1> USE DEF Return
<1>1. /\ BatchTypeOK /\ TokensAreOwned /\ TargetInBounds /\ Goroutines /\ Channels
  BY IInvParts
<1>2. /\ hostSems' \in [Batches -> [Hosts -> [size : Nat, tokens : Nat]]]
      /\ \A d \in Batches, g \in Hosts :
           hostSems'[d][g] = IF d = b THEN NoSem ELSE hostSems[d][g]
  BY <1>1 DEF BatchTypeOK, NoSem
<1>3. BatchTypeOK'
  BY <1>1, <1>2 DEF BatchTypeOK
<1>4. TokensAreOwned'
  <2>1. \A d \in Batches : HoldsSlot(d)' = HoldsSlot(d)
    BY DEF HoldsSlot
  <2>2. \A d \in Batches, h \in Hosts : Running(d, h)' = Running(d, h)
    BY DEF Running
  <2>3. \A h \in Hosts : Running(b, h) = {}
    BY DEF Running
  <2>4. \A h \in Hosts : hostSems'[b][h].tokens = Cardinality(Running(b, h)')
    BY <1>2, <2>2, <2>3, FS_EmptySet DEF NoSem
  <2>5. \A d \in Batches : globalSem'[d] = Cardinality(HoldsSlot(d)')
    BY <1>1, <2>1 DEF TokensAreOwned
  <2>6. \A d \in Batches, h \in Hosts : d # b =>
          hostSems'[d][h].tokens = Cardinality(Running(d, h)')
    BY <1>1, <1>2, <2>2 DEF TokensAreOwned
  <2>7. QED
    BY <2>4, <2>5, <2>6 DEF TokensAreOwned
<1>5. TargetInBounds'
  BY <1>1 DEF TargetInBounds
<1>6. Goroutines'
  BY <1>1 DEF Goroutines, BatchTypeOK
<1>7. Channels'
  BY <1>1, <1>2, Bounds DEF Channels, HostLimit, NoSem
<1>8. QED
  BY <1>3, <1>4, <1>5, <1>6, <1>7, IInvParts, PTL

LEMMA CancelInductive ==
  ASSUME IInv, NEW b \in Batches, Cancel(b) PROVE IInv'
<1> USE DEF Cancel
<1>1. /\ BatchTypeOK /\ TokensAreOwned /\ TargetInBounds /\ Goroutines /\ Channels
  BY IInvParts
<1>2. BatchTypeOK'
  BY <1>1 DEF BatchTypeOK
<1>3. TokensAreOwned'
  BY <1>1 DEF TokensAreOwned, HoldsSlot, Running
<1>4. TargetInBounds'
  BY <1>1 DEF TargetInBounds
<1>5. Goroutines'
  BY <1>1 DEF Goroutines, BatchTypeOK
<1>6. Channels'
  BY <1>1 DEF Channels, HostLimit
<1>7. QED
  BY <1>2, <1>3, <1>4, <1>5, <1>6, IInvParts, PTL

LEMMA ResetInductive ==
  ASSUME IInv, NEW h \in Hosts, Reset(h) PROVE IInv'
<1> USE DEF Reset, callVars
<1>1. /\ BatchTypeOK /\ TokensAreOwned /\ TargetInBounds /\ Goroutines /\ Channels
  BY IInvParts
<1>2. BatchTypeOK'
  BY <1>1, NewStatsOK DEF BatchTypeOK
<1>3. TokensAreOwned'
  BY <1>1 DEF TokensAreOwned, HoldsSlot, Running
<1>4. TargetInBounds'
  BY <1>1, NewStatsOK DEF TargetInBounds, BatchTypeOK, TargetBounds, TargetMax
<1>5. Goroutines'
  BY <1>1 DEF Goroutines
<1>6. Channels'
  BY <1>1 DEF Channels, HostLimit
<1>7. QED
  BY <1>2, <1>3, <1>4, <1>5, <1>6, IInvParts, PTL

LEMMA StutterInductive ==
  ASSUME IInv, UNCHANGED batchVars PROVE IInv'
<1> USE DEF batchVars, callVars
<1>1. /\ BatchTypeOK /\ TokensAreOwned /\ TargetInBounds /\ Goroutines /\ Channels
  BY IInvParts
<1>2. BatchTypeOK'
  BY <1>1 DEF BatchTypeOK
<1>3. TokensAreOwned'
  BY <1>1 DEF TokensAreOwned, HoldsSlot, Running
<1>4. TargetInBounds'
  BY <1>1 DEF TargetInBounds
<1>5. Goroutines'
  BY <1>1 DEF Goroutines
<1>6. Channels'
  BY <1>1 DEF Channels, HostLimit
<1>7. QED
  BY <1>2, <1>3, <1>4, <1>5, <1>6, IInvParts, PTL

-----------------------------------------------------------------------------
(* The theorems.                                                           *)

\* Every reachable state satisfies the inductive invariant: tokens, goroutines
\* and the sizes of the channels agree.
THEOREM BatchInvariant == BatchSpec => []IInv
<1>1. IInv /\ [BatchNext]_batchVars => IInv'
  <2> SUFFICES ASSUME IInv, [BatchNext]_batchVars PROVE IInv'
    OBVIOUS
  <2>1. CASE \E b \in Batches : Start(b) \/ Return(b) \/ Cancel(b)
    BY <2>1, StartInductive, ReturnInductive, CancelInductive
  <2>2. CASE \E b \in Batches, i \in Items : ItemStep(b, i)
    BY <2>2, TakeSlotInductive, AbandonInductive, FindHostSemInductive,
       TakeHostSlotInductive, FinishInductive DEF ItemStep
  <2>3. CASE \E h \in Hosts : Reset(h)
    BY <2>3, ResetInductive
  <2>4. CASE UNCHANGED batchVars
    BY <2>4, StutterInductive
  <2>5. QED
    BY <2>1, <2>2, <2>3, <2>4 DEF BatchNext
<1>2. QED
  BY <1>1, InitInductive, PTL DEF BatchSpec

\* The variables of the batches and of the feedback keep their types: no
\* counter of tokens goes below zero or past the size of its channel.
THEOREM BatchTypeCorrect == BatchSpec => []BatchTypeOK
<1>1. IInv => BatchTypeOK
  BY DEF IInv
<1>2. QED
  BY <1>1, BatchInvariant, PTL

\* Every token in the channels of RunBatch is one a goroutine will take back.
THEOREM BatchTokensOwned == BatchSpec => []TokensAreOwned
<1>1. IInv => TokensAreOwned
  BY DEF IInv
<1>2. QED
  BY <1>1, BatchInvariant, PTL

\* RecordSuccess, RecordFailure and Reset leave the target within the bounds of
\* the pool, in whichever order batches call them.
THEOREM BatchTargetInBounds == BatchSpec => []TargetInBounds
<1>1. IInv => TargetInBounds
  BY DEF IInv
<1>2. QED
  BY <1>1, BatchInvariant, PTL

\* A batch that ends without being cancelled has an outcome for every item.
THEOREM BatchOutcomesComplete == BatchSpec => []OutcomesComplete
<1>1. IInv => OutcomesComplete
  BY DEF IInv, OutcomesComplete
<1>2. QED
  BY <1>1, BatchInvariant, PTL

\* A batch runs at most Workers pipelines, and to one host as many as there are
\* tokens in a channel that was made within the bounds of the adaptive pool.
THEOREM BatchWithinLimits == BatchSpec => []WithinLimits
<1>1. IInv => WithinLimits
  <2> SUFFICES ASSUME IInv, NEW b \in Batches
               PROVE  /\ Cardinality({i \in Items : itemPc[b][i] = "run"}) <= Workers
                      /\ \A h \in Hosts :
                           /\ Cardinality(Running(b, h)) <= hostSems[b][h].size
                           /\ hostSems[b][h].size <= HostLimit
    BY DEF WithinLimits
  <2> DEFINE R == {i \in Items : itemPc[b][i] = "run"}
  <2>1. BatchTypeOK /\ TokensAreOwned /\ Channels
    BY IInvParts
  <2>2. Cardinality(R) <= Workers
    <3>1. R \subseteq HoldsSlot(b) /\ IsFiniteSet(HoldsSlot(b))
      BY Parts, FiniteParts DEF HoldsSlot
    <3>2. Cardinality(R) <= Cardinality(HoldsSlot(b))
      BY <3>1, FS_Subset
    <3>3. Cardinality(HoldsSlot(b)) \in 0..Workers
      BY <2>1 DEF BatchTypeOK, TokensAreOwned
    <3>4. Cardinality(R) \in Nat
      BY FiniteParts
    <3>5. QED
      BY <3>2, <3>3, <3>4, BatchAssumption
  <2>3. \A h \in Hosts : /\ Cardinality(Running(b, h)) <= hostSems[b][h].size
                          /\ hostSems[b][h].size <= HostLimit
    BY <2>1 DEF Channels, TokensAreOwned
  <2>4. QED
    BY <2>2, <2>3
<1>2. QED
  BY <1>1, BatchInvariant, PTL
=============================================================================
