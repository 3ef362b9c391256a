-------------------------- MODULE CacheStoreProofs --------------------------
(***************************************************************************)
(* Proofs about CacheStore.  For any number of objects on the directory:   *)
(* the types, the totals of the indexes and the temporary files.  For one  *)
(* object alone: what is served, what its index may miss, and that a Put   *)
(* that runs to its end is served.                                         *)
(***************************************************************************)
EXTENDS CacheStore, Functions, FiniteSetTheorems, TLAPS

-----------------------------------------------------------------------------
(* What SumFunction and SumFunctionOnSet of the community module Functions  *)
(* compute: the sum of a function with natural values over a finite set does *)
(* not depend on the order in which the elements are taken.  Induction is by *)
(* a minimal counterexample (WFMin).                                         *)

\* The element the library takes first.
First(s) == CHOOSE x \in s : TRUE

\* g is the table of partial sums by which the library computes the sum over T.
PartialSums(f, T, g) ==
  g = [s \in SUBSET T |->
         IF s = {} THEN 0 ELSE f[First(s)] + g[s \ {First(s)}]]

-----------------------------------------------------------------------------
\* A set of subsets of a finite set has a minimal element.
LEMMA MinimalSubset ==
  ASSUME NEW S, IsFiniteSet(S), NEW bad \in SUBSET (SUBSET S), bad # {}
  PROVE  \E T \in bad : \A U \in SUBSET T : U # T => U \notin bad
<1>1. IsWellFoundedOn(StrictSubsetOrdering(S), FiniteSubsetsOf(S))
  BY FS_StrictSubsetOrderingWellFounded
<1>2. FiniteSubsetsOf(S) = SUBSET S
  BY FS_FiniteSubsetsOfFinite
<1>3. PICK T \in bad : \A U \in bad : <<U, T>> \notin StrictSubsetOrdering(S)
  BY <1>1, <1>2, WFMin
<1>4. ASSUME NEW U \in SUBSET T, U # T, U \in bad PROVE FALSE
  <2>1. U \in SUBSET S /\ T \in SUBSET S
    BY <1>3, <1>4
  <2>2. <<U, T>> \in StrictSubsetOrdering(S)
    BY <1>4, <2>1 DEF StrictSubsetOrdering
  <2> QED BY <1>3, <1>4, <2>2
<1> QED BY <1>3, <1>4

\* The entries of a table do not depend on the set the table is for.
LEMMA PartialSumsAgree ==
  ASSUME NEW S, IsFiniteSet(S), NEW T \in SUBSET S, NEW f, NEW g, NEW h,
         PartialSums(f, S, h), PartialSums(f, T, g)
  PROVE  \A s \in SUBSET T : g[s] = h[s]
<1> DEFINE bad == {s \in SUBSET T : g[s] # h[s]}
<1>1. SUFFICES ASSUME bad # {} PROVE FALSE
  OBVIOUS
<1>2. bad \in SUBSET (SUBSET S)
  OBVIOUS
<1> HIDE DEF bad
<1>3. PICK s \in bad : \A u \in SUBSET s : u # s => u \notin bad
  BY <1>1, <1>2, MinimalSubset
<1>4. s \in SUBSET T /\ s \in SUBSET S /\ g[s] # h[s]
  BY <1>3 DEF bad
<1>5. /\ g[s] = IF s = {} THEN 0 ELSE f[First(s)] + g[s \ {First(s)}]
      /\ h[s] = IF s = {} THEN 0 ELSE f[First(s)] + h[s \ {First(s)}]
  BY <1>4 DEF PartialSums
<1>6. CASE s # {}
  <2>1. First(s) \in s
    BY <1>6 DEF First
  <2>2. s \ {First(s)} \notin bad
    BY <1>3, <2>1
  <2>3. g[s \ {First(s)}] = h[s \ {First(s)}]
    BY <1>4, <2>2 DEF bad
  <2> QED BY <1>4, <1>5, <2>3
<1> QED BY <1>4, <1>5, <1>6

\* There is a table for every finite set.
LEMMA PartialSumsExist ==
  ASSUME NEW S, IsFiniteSet(S), NEW f
  PROVE  \E g : PartialSums(f, S, g)
<1> DEFINE bad == {T \in SUBSET S : ~ \E g : PartialSums(f, T, g)}
<1>1. SUFFICES ASSUME bad # {} PROVE FALSE
  OBVIOUS
<1>2. bad \in SUBSET (SUBSET S)
  OBVIOUS
<1>3. PICK T \in bad : \A U \in SUBSET T : U # T => U \notin bad
  <2> HIDE DEF bad
  <2> QED BY <1>1, <1>2, MinimalSubset
<1> DEFINE table(U) == CHOOSE g : PartialSums(f, U, g)
           sum(U)   == table(U)[U]
           whole    == [s \in SUBSET T |->
                          IF s = {} THEN 0
                                    ELSE f[First(s)] + sum(s \ {First(s)})]
<1>4. T \in SUBSET S /\ ~ \E g : PartialSums(f, T, g)
  BY <1>3
<1>5. ASSUME NEW U \in SUBSET T, U # T PROVE PartialSums(f, U, table(U))
  <2>1. U \in SUBSET S /\ U \notin bad
    BY <1>3, <1>4, <1>5
  <2>2. \E g : PartialSums(f, U, g)
    BY <2>1
  <2> QED BY <2>2
<1>6. ASSUME NEW U \in SUBSET T, U # T PROVE sum(U) = whole[U]
  <2>1. PartialSums(f, U, table(U))
    BY <1>5, <1>6
  <2>2. table(U)[U] = IF U = {} THEN 0
                      ELSE f[First(U)] + table(U)[U \ {First(U)}]
    BY <2>1 DEF PartialSums
  <2>3. CASE U # {}
    <3> DEFINE V == U \ {First(U)}
    <3>1. First(U) \in U
      BY <2>3 DEF First
    <3>2. V \in SUBSET T /\ V # T /\ V \in SUBSET U /\ IsFiniteSet(U)
      BY <1>4, <1>6, <3>1, FS_Subset
    <3>3. PartialSums(f, V, table(V))
      BY <1>5, <3>2
    <3>4. table(U)[V] = table(V)[V]
      <4> HIDE DEF table, V
      <4> QED BY <2>1, <3>2, <3>3, PartialSumsAgree
    <3> QED BY <2>2, <2>3, <3>4
  <2> QED BY <2>2, <2>3
<1>7. ASSUME NEW s \in SUBSET T, s # {}
      PROVE  sum(s \ {First(s)}) = whole[s \ {First(s)}]
  <2>1. First(s) \in s
    BY <1>7 DEF First
  <2>2. s \ {First(s)} \in SUBSET T /\ s \ {First(s)} # T
    BY <2>1
  <2> HIDE DEF sum, whole
  <2> QED BY <1>6, <2>2
<1>8. PartialSums(f, T, whole)
  <2>1. ASSUME NEW s \in SUBSET T
        PROVE  whole[s] = IF s = {} THEN 0
                          ELSE f[First(s)] + whole[s \ {First(s)}]
    <3>1. whole[s] = IF s = {} THEN 0 ELSE f[First(s)] + sum(s \ {First(s)})
      OBVIOUS
    <3> HIDE DEF sum, whole
    <3> QED BY <1>7, <3>1
  <2>2. whole = [s \in SUBSET T |-> whole[s]]
    OBVIOUS
  <2> HIDE DEF whole
  <2> QED BY <2>1, <2>2 DEF PartialSums
<1> QED BY <1>4, <1>8

-----------------------------------------------------------------------------
\* The sum over T is the entry of T in any table for a set that contains it.
LEMMA SumFromTable ==
  ASSUME NEW S, IsFiniteSet(S), NEW T \in SUBSET S, NEW f, NEW h,
         PartialSums(f, S, h)
  PROVE  SumFunctionOnSet(f, T) = h[T]
<1>1. IsFiniteSet(T)
  BY FS_Subset
<1> DEFINE g == CHOOSE g : PartialSums(f, T, g)
<1>2. PartialSums(f, T, g)
  BY <1>1, PartialSumsExist
<1>3. SumFunctionOnSet(f, T) = g[T]
  BY DEF SumFunctionOnSet, FoldFunctionOnSet, MapThenFoldSet, PartialSums, First
<1> HIDE DEF g
<1>4. g[T] = h[T]
  BY <1>2, PartialSumsAgree
<1> QED BY <1>3, <1>4

\* The sum over T takes the first element of T, then the rest.
LEMMA SumTakesFirst ==
  ASSUME NEW T, IsFiniteSet(T), NEW f
  PROVE  SumFunctionOnSet(f, T) =
           IF T = {} THEN 0
           ELSE f[First(T)] + SumFunctionOnSet(f, T \ {First(T)})
<1>1. PICK g : PartialSums(f, T, g)
  BY PartialSumsExist
<1>2. g[T] = IF T = {} THEN 0 ELSE f[First(T)] + g[T \ {First(T)}]
  BY <1>1 DEF PartialSums
<1>3. SumFunctionOnSet(f, T) = g[T]
  BY <1>1, SumFromTable
<1>4. SumFunctionOnSet(f, T \ {First(T)}) = g[T \ {First(T)}]
  BY <1>1, SumFromTable
<1> QED BY <1>2, <1>3, <1>4

\* A sum of naturals is a natural.
LEMMA SumType ==
  ASSUME NEW S, IsFiniteSet(S), NEW f \in [S -> Nat], NEW T \in SUBSET S
  PROVE  SumFunctionOnSet(f, T) \in Nat
<1> DEFINE bad == {s \in SUBSET S : SumFunctionOnSet(f, s) \notin Nat}
<1>1. SUFFICES ASSUME bad # {} PROVE FALSE
  OBVIOUS
<1>2. bad \in SUBSET (SUBSET S)
  OBVIOUS
<1>3. PICK s \in bad : \A u \in SUBSET s : u # s => u \notin bad
  <2> HIDE DEF bad
  <2> QED BY <1>1, <1>2, MinimalSubset
<1>4. s \in SUBSET S /\ IsFiniteSet(s) /\ SumFunctionOnSet(f, s) \notin Nat
  BY <1>3, FS_Subset
<1>5. SumFunctionOnSet(f, s) =
        IF s = {} THEN 0 ELSE f[First(s)] + SumFunctionOnSet(f, s \ {First(s)})
  BY <1>4, SumTakesFirst
<1>6. CASE s # {}
  <2>1. First(s) \in s
    BY <1>6 DEF First
  <2>2. s \ {First(s)} \notin bad /\ s \ {First(s)} \in SUBSET S
    BY <1>3, <1>4, <2>1
  <2>3. SumFunctionOnSet(f, s \ {First(s)}) \in Nat
    BY <2>2
  <2>4. f[First(s)] \in Nat
    BY <1>4, <2>1
  <2> QED BY <1>4, <1>5, <1>6, <2>3, <2>4
<1> QED BY <1>4, <1>5, <1>6

\* Any element may be taken first.
LEMMA SumTakesAny ==
  ASSUME NEW S, IsFiniteSet(S), NEW f \in [S -> Nat],
         NEW T \in SUBSET S, NEW x \in T
  PROVE  SumFunctionOnSet(f, T) = f[x] + SumFunctionOnSet(f, T \ {x})
<1> DEFINE Ok(s) == \A y \in s :
             SumFunctionOnSet(f, s) = f[y] + SumFunctionOnSet(f, s \ {y})
           bad   == {s \in SUBSET S : ~ Ok(s)}
<1>1. SUFFICES ASSUME bad # {} PROVE FALSE
  OBVIOUS
<1>2. bad \in SUBSET (SUBSET S)
  OBVIOUS
<1>3. PICK s \in bad : \A u \in SUBSET s : u # s => u \notin bad
  <2> HIDE DEF bad
  <2> QED BY <1>1, <1>2, MinimalSubset
<1>4. s \in SUBSET S /\ IsFiniteSet(s) /\ ~ Ok(s)
  BY <1>3, FS_Subset
<1>5. PICK y \in s :
        SumFunctionOnSet(f, s) # f[y] + SumFunctionOnSet(f, s \ {y})
  BY <1>4
<1> DEFINE p == First(s)
           r == (s \ {p}) \ {y}
<1>6. p \in s
  BY <1>5 DEF First
<1>7. SumFunctionOnSet(f, s) = f[p] + SumFunctionOnSet(f, s \ {p})
  BY <1>4, <1>5, SumTakesFirst
<1>8. p # y
  BY <1>5, <1>7
<1>9. SumFunctionOnSet(f, s \ {p}) = f[y] + SumFunctionOnSet(f, r)
  <2>1. s \ {p} \in SUBSET S /\ s \ {p} \notin bad /\ y \in s \ {p}
    BY <1>3, <1>4, <1>5, <1>6, <1>8
  <2> QED BY <2>1
<1>10. SumFunctionOnSet(f, s \ {y}) = f[p] + SumFunctionOnSet(f, r)
  <2>1. s \ {y} \in SUBSET S /\ s \ {y} \notin bad /\ p \in s \ {y}
    BY <1>3, <1>4, <1>5, <1>6, <1>8
  <2>2. SumFunctionOnSet(f, s \ {y}) = f[p] + SumFunctionOnSet(f, (s \ {y}) \ {p})
    BY <2>1
  <2>3. (s \ {y}) \ {p} = r
    OBVIOUS
  <2> QED BY <2>2, <2>3
<1>11. f[p] \in Nat /\ f[y] \in Nat /\ SumFunctionOnSet(f, r) \in Nat
  <2>1. r \in SUBSET S
    BY <1>4
  <2>2. SumFunctionOnSet(f, r) \in Nat
    BY <2>1, SumType
  <2> QED BY <1>4, <1>5, <1>6, <2>2
<1> QED BY <1>5, <1>7, <1>9, <1>10, <1>11

\* A sum depends on nothing but the values summed.
LEMMA SumOfEqual ==
  ASSUME NEW T, IsFiniteSet(T), NEW f, NEW g, \A x \in T : f[x] = g[x]
  PROVE  SumFunctionOnSet(f, T) = SumFunctionOnSet(g, T)
<1> DEFINE bad == {s \in SUBSET T :
                     SumFunctionOnSet(f, s) # SumFunctionOnSet(g, s)}
<1>1. SUFFICES ASSUME bad # {} PROVE FALSE
  OBVIOUS
<1>2. bad \in SUBSET (SUBSET T)
  OBVIOUS
<1>3. PICK s \in bad : \A u \in SUBSET s : u # s => u \notin bad
  <2> HIDE DEF bad
  <2> QED BY <1>1, <1>2, MinimalSubset
<1>4. /\ s \in SUBSET T /\ IsFiniteSet(s)
      /\ SumFunctionOnSet(f, s) # SumFunctionOnSet(g, s)
  BY <1>3, FS_Subset
<1>5. /\ SumFunctionOnSet(f, s) = IF s = {} THEN 0
           ELSE f[First(s)] + SumFunctionOnSet(f, s \ {First(s)})
      /\ SumFunctionOnSet(g, s) = IF s = {} THEN 0
           ELSE g[First(s)] + SumFunctionOnSet(g, s \ {First(s)})
  BY <1>4, SumTakesFirst
<1>6. CASE s # {}
  <2>1. First(s) \in s
    BY <1>6 DEF First
  <2>2. s \ {First(s)} \notin bad /\ s \ {First(s)} \in SUBSET T
    BY <1>3, <1>4, <2>1
  <2>3. SumFunctionOnSet(f, s \ {First(s)}) = SumFunctionOnSet(g, s \ {First(s)})
    BY <2>2
  <2>4. f[First(s)] = g[First(s)]
    BY <1>4, <2>1
  <2> QED BY <1>4, <1>5, <2>3, <2>4
<1> QED BY <1>4, <1>5, <1>6

-----------------------------------------------------------------------------
\* The sum of a function is a natural, and no less than any of its values.
LEMMA SumBoundsValues ==
  ASSUME NEW S, IsFiniteSet(S), NEW f \in [S -> Nat], NEW x \in S
  PROVE  SumFunction(f) \in Nat /\ f[x] <= SumFunction(f)
<1>1. DOMAIN f = S /\ S \in SUBSET S /\ S \ {x} \in SUBSET S /\ f[x] \in Nat
  OBVIOUS
<1>2. SumFunctionOnSet(f, S) \in Nat /\ SumFunctionOnSet(f, S \ {x}) \in Nat
  BY <1>1, SumType
<1>3. SumFunctionOnSet(f, S) = f[x] + SumFunctionOnSet(f, S \ {x})
  BY <1>1, SumTakesAny
<1> QED BY <1>1, <1>2, <1>3 DEF SumFunction

\* Replacing one value changes the sum by the difference.
LEMMA SumOfUpdate ==
  ASSUME NEW S, IsFiniteSet(S), NEW f \in [S -> Nat], NEW x \in S, NEW v \in Nat,
         NEW g \in [S -> Nat], \A y \in S : g[y] = IF y = x THEN v ELSE f[y]
  PROVE  SumFunction(g) = SumFunction(f) - f[x] + v
<1>1. /\ DOMAIN f = S /\ DOMAIN g = S /\ S \in SUBSET S /\ S \ {x} \in SUBSET S
      /\ f[x] \in Nat /\ g[x] = v
  OBVIOUS
<1>2. SumFunctionOnSet(f, S) = f[x] + SumFunctionOnSet(f, S \ {x})
  BY <1>1, SumTakesAny
<1>3. SumFunctionOnSet(g, S) = g[x] + SumFunctionOnSet(g, S \ {x})
  BY <1>1, SumTakesAny
<1>4. SumFunctionOnSet(f, S \ {x}) = SumFunctionOnSet(g, S \ {x})
  <2>1. IsFiniteSet(S \ {x})
    BY <1>1, FS_Subset
  <2>2. \A y \in S \ {x} : f[y] = g[y]
    OBVIOUS
  <2> QED BY <2>1, <2>2, SumOfEqual
<1>5. SumFunctionOnSet(f, S \ {x}) \in Nat
  BY <1>1, SumType
<1> QED BY <1>1, <1>2, <1>3, <1>4, <1>5 DEF SumFunction

\* The sum of zeros is zero.
LEMMA SumOfZeros ==
  ASSUME NEW S, IsFiniteSet(S), NEW f, DOMAIN f = S, \A x \in S : f[x] = 0
  PROVE  SumFunction(f) = 0
<1> DEFINE bad == {s \in SUBSET S : SumFunctionOnSet(f, s) # 0}
<1>1. SUFFICES ASSUME bad # {} PROVE FALSE
  BY DEF SumFunction
<1>2. bad \in SUBSET (SUBSET S)
  OBVIOUS
<1>3. PICK s \in bad : \A u \in SUBSET s : u # s => u \notin bad
  <2> HIDE DEF bad
  <2> QED BY <1>1, <1>2, MinimalSubset
<1>4. s \in SUBSET S /\ IsFiniteSet(s) /\ SumFunctionOnSet(f, s) # 0
  BY <1>3, FS_Subset
<1>5. SumFunctionOnSet(f, s) =
        IF s = {} THEN 0 ELSE f[First(s)] + SumFunctionOnSet(f, s \ {First(s)})
  BY <1>4, SumTakesFirst
<1>6. CASE s # {}
  <2>1. First(s) \in s
    BY <1>6 DEF First
  <2>2. s \ {First(s)} \notin bad /\ s \ {First(s)} \in SUBSET S
    BY <1>3, <1>4, <2>1
  <2>3. SumFunctionOnSet(f, s \ {First(s)}) = 0 /\ f[First(s)] = 0
    BY <1>4, <2>1, <2>2
  <2> QED BY <1>4, <1>5, <1>6, <2>3
<1> QED BY <1>4, <1>5, <1>6

\* With one value that is not zero, the sum is that value.
LEMMA SumOfSingle ==
  ASSUME NEW S, IsFiniteSet(S), NEW f \in [S -> Nat], NEW x \in S,
         \A y \in S : y # x => f[y] = 0
  PROVE  SumFunction(f) = f[x]
<1> DEFINE zeros == [y \in S |-> 0]
<1>1. /\ zeros \in [S -> Nat] /\ DOMAIN zeros = S /\ \A y \in S : zeros[y] = 0
      /\ f[x] \in Nat
  OBVIOUS
<1> HIDE DEF zeros
<1>2. SumFunction(zeros) = 0
  BY <1>1, SumOfZeros
<1>3. SumFunction(f) = SumFunction(zeros) - zeros[x] + f[x]
  <2>1. \A y \in S : f[y] = IF y = x THEN f[x] ELSE zeros[y]
    BY <1>1
  <2> QED BY <1>1, <2>1, SumOfUpdate
<1> QED BY <1>1, <1>2, <1>3

-----------------------------------------------------------------------------
(* The state of the calls.                                                   *)

Writing(c) == pc[c] \in {"open", "write", "rename"}

-----------------------------------------------------------------------------
(* The invariant for any number of objects.                                *)

\* A Put that writes a file has its number, and writes a file of its key.
CallsOwnFiles ==
  \A c \in Caches : InPut(c) =>
    put[c] \in PutNumber /\ target[c] \in {Body(key[c]), Meta(key[c])}

\* Between the removals of a body and of its meta the eviction is not over.
EvictionIsDue == \A c \in Caches : pc[c] = "unmeta" => MustEvict(c)

HasSum(ix) == ix.total = SumFunction(Sizes(ix))

\* TotalIsSum, with the index file that is being written.
TotalsAreSums == TotalIsSum /\ (Whole(tmp[Index]) => HasSum(tmp[Index]))

\* Every temporary file is held by a writer.
TmpIsHeld ==
  interruptions = 0 =>
    \A n \in Names : tmp[n] # None =>
      \E c \in Caches : pc[c] \in {"write", "rename"} /\ target[c] = n

StoreIInv == /\ TypeOK
             /\ CallsOwnFiles
             /\ EvictionIsDue
             /\ TotalsAreSums
             /\ TmpIsHeld

-----------------------------------------------------------------------------
(* The invariant for one object alone on the directory.                    *)

\* The call holds its file for itself, and the body of a Put is in place
\* before its meta is written.
CallIsAlone ==
  \A c \in Caches :
    /\ pc[c] = "write" => fd[c] = "tmp" /\ tmp[target[c]] = Torn
    /\ pc[c] = "rename" => tmp[target[c]] = Written(c)
    /\ InPut(c) => put[c] = puts
    /\ InPut(c) /\ target[c] = Meta(key[c]) => disk[Body(key[c])] = put[c]

\* Final files are whole, and of Puts that have started.
FilesAreWhole ==
  /\ \A n \in Names : disk[n] # Torn
  /\ \A k \in Keys : /\ disk[Body(k)] # None => disk[Body(k)] <= puts
                     /\ disk[Meta(k)] # None => disk[Meta(k)] <= puts

\* The meta of the Put is in place, and its index is being saved or cleared.
SavingPut(c) == Writing(c) /\ target[c] = Index /\ after[c] = "check"
Placed(c)    == pc[c] \in {"check", "evict", "unmeta"} \/ SavingPut(c)

\* The keys that take more space than ix says.
Under(ix) == {k \in Keys : ix.entries[k].size < Space(k)}

\* The keys whose files a scan of the directory counts for less than they take.
Unseen == {k \in Keys : Scanned(k).size < Space(k)}

\* The key of a Put that is not in the index, in memory or on disk, yet.
PutKey(c)     == {k \in Keys : InPut(c) /\ k = key[c]}
PendingKey(c) == {k \in Keys : (InPut(c) \/ SavingPut(c)) /\ k = key[c]}

\* The key of a body that an eviction has not got rid of, and is about to forget.
Left(c) ==
  {k \in Keys : pc[c] = "unmeta" /\ k = Oldest(index[c]) /\ disk[Body(k)] # None}

\* The key of a Put aside, no more keys are undercounted, in memory, on disk or
\* by a scan, than operations were interrupted.
CountsHold ==
  \A c \in Caches :
    /\ pc[c] # "down" =>
         Cardinality((Under(index[c]) \ PutKey(c)) \union Left(c)) <= interruptions
    /\ Whole(disk[Index]) =>
         Cardinality(Under(disk[Index]) \ PendingKey(c)) <= interruptions
    /\ Cardinality((Unseen \ PutKey(c)) \union Left(c)) <= interruptions

\* Index entries are of Puts that have started.
EntriesHaveStarted ==
  \A k \in Keys :
    /\ \A c \in Caches : index[c].entries[k].storedAt <= puts
    /\ Whole(disk[Index]) => disk[Index].entries[k].storedAt <= puts

Fits(c) == MetaSize + bodySize[put[c]] <= LowWatermark

\* To the end of its call a Put has the youngest entry, and its files.
PutIsPlaced ==
  \A c \in Caches :
    /\ InPut(c) \/ Placed(c) =>
         /\ put[c] \in PutNumber
         /\ \A k \in Keys \ {key[c]} : index[c].entries[k].storedAt < put[c]
    /\ Placed(c) /\ Fits(c) =>
         /\ disk[Meta(key[c])] = put[c]
         /\ disk[Body(key[c])] = put[c]
         /\ index[c].entries[key[c]] =
              [storedAt |-> put[c], size |-> MetaSize + bodySize[put[c]]]

AloneInv == /\ CallIsAlone
            /\ FilesAreWhole
            /\ ServedIsSound
            /\ CountsHold
            /\ EntriesHaveStarted
            /\ PutIsPlaced
-----------------------------------------------------------------------------
(* The names of files, the index and its sum.                              *)

LEMMA NamesDiffer ==
  /\ \A k : Body(k) # Index /\ Meta(k) # Index /\ Body(k) # Meta(k)
  /\ \A k : \A l : Body(k) # Meta(l)
  /\ \A k : \A l : Body(k) = Body(l) => k = l
  /\ \A k : \A l : Meta(k) = Meta(l) => k = l
  /\ Index \in Names
  /\ \A k \in Keys : Body(k) \in Names /\ Meta(k) \in Names
BY DEF Body, Meta, Index, Names

LEMMA ContentOfNames ==
  /\ Content(Index) = {None, Torn} \union IndexType
  /\ \A k : /\ Content(Body(k)) = {None, Torn} \union PutNumber
           /\ Content(Meta(k)) = {None, Torn} \union PutNumber
<1>1. Content(Index) = {None, Torn} \union IndexType
  BY DEF Content
<1>2. ASSUME NEW k
      PROVE  /\ Content(Body(k)) = {None, Torn} \union PutNumber
             /\ Content(Meta(k)) = {None, Torn} \union PutNumber
  <2>1. Body(k) # Index /\ Meta(k) # Index
    BY NamesDiffer
  <2> QED BY <2>1 DEF Content
<1> QED BY <1>1, <1>2

\* The head of the sorted list is listed, and no listed key is older.
LEMMA OldestIsListed ==
  ASSUME NEW ix \in IndexType, Listed(ix) # {}
  PROVE  /\ Oldest(ix) \in Listed(ix)
         /\ \A l \in Listed(ix) :
               ix.entries[Oldest(ix)].storedAt <= ix.entries[l].storedAt
<1> DEFINE ages == {ix.entries[k].storedAt : k \in Listed(ix)}
<1>1. \A k \in Listed(ix) : ix.entries[k].storedAt \in Nat
  BY DEF IndexType, Entry, Listed
<1>2. ages \subseteq Nat /\ ages # {}
  BY <1>1
<1>3. PICK a \in ages : \A b \in ages : <<b, a>> \notin OpToRel(<, Nat)
  <2> HIDE DEF ages
  <2> QED BY <1>2, NatLessThanWellFounded, WFMin
<1>4. \A b \in ages : a <= b
  <2> SUFFICES ASSUME NEW b \in ages PROVE a <= b
    OBVIOUS
  <2>1. a \in Nat /\ b \in Nat /\ <<b, a>> \notin OpToRel(<, Nat)
    BY <1>2, <1>3
  <2> QED BY <2>1 DEF OpToRel
<1>5. \E k \in Listed(ix) :
        \A l \in Listed(ix) : ix.entries[k].storedAt <= ix.entries[l].storedAt
  BY <1>4
<1> QED BY <1>5 DEF Oldest

LEMMA SizesType ==
  ASSUME NEW ix \in IndexType
  PROVE  Sizes(ix) \in [Keys -> Nat] /\ \A k \in Keys : Sizes(ix)[k] = ix.entries[k].size
BY DEF Sizes, IndexType, Entry

LEMMA NoEntryType == NoEntry \in Entry
BY CacheAssumption DEF NoEntry, Entry

LEMMA EmptyIndexSum == EmptyIndex \in IndexType /\ HasSum(EmptyIndex)
<1>1. EmptyIndex \in IndexType
  BY NoEntryType DEF EmptyIndex, IndexType
<1>2. \A k \in Keys : Sizes(EmptyIndex)[k] = 0
  BY DEF Sizes, EmptyIndex, NoEntry
<1>3. SumFunction(Sizes(EmptyIndex)) = 0
  BY <1>2, CacheAssumption, SumOfZeros DEF Sizes
<1> QED BY <1>1, <1>3 DEF HasSum, EmptyIndex

\* addEntry changes the entry of its key, and no other.
LEMMA EntriesAfterAdd ==
  ASSUME NEW ix \in IndexType, NEW k \in Keys, NEW size, NEW n
  PROVE  \A l \in Keys : AddEntry(ix, k, size, n).entries[l] =
           IF l = k THEN [storedAt |-> n, size |-> size] ELSE ix.entries[l]
BY DEF AddEntry, IndexType

\* addEntry keeps the total equal to the sum, whether or not the key was listed.
LEMMA AddEntrySum ==
  ASSUME NEW ix \in IndexType, HasSum(ix), NEW k \in Keys,
         NEW size \in Nat, NEW n \in 0..MaxPuts
  PROVE  LET jx == AddEntry(ix, k, size, n)
         IN  /\ jx \in IndexType
             /\ HasSum(jx)
             /\ \A l \in Keys : jx.entries[l] =
                  IF l = k THEN [storedAt |-> n, size |-> size] ELSE ix.entries[l]
<1> DEFINE jx == AddEntry(ix, k, size, n)
<1>1. \A l \in Keys : jx.entries[l] =
        IF l = k THEN [storedAt |-> n, size |-> size] ELSE ix.entries[l]
  BY DEF AddEntry, IndexType
<1>2. jx.entries \in [Keys -> Entry]
  BY DEF AddEntry, IndexType, Entry
<1>3. \A l \in Keys : ix.entries[l].size \in Nat
  BY DEF IndexType, Entry
<1>4. Sizes(jx) = [l \in Keys |-> IF l = k THEN size ELSE ix.entries[l].size]
  BY <1>1 DEF Sizes
<1>5. Sizes(jx) \in [Keys -> Nat]
      /\ \A l \in Keys : Sizes(jx)[l] = IF l = k THEN size ELSE Sizes(ix)[l]
  BY <1>3, <1>4, SizesType
<1>6. SumFunction(Sizes(jx)) = SumFunction(Sizes(ix)) - ix.entries[k].size + size
  <2> HIDE DEF jx
  <2>1. Sizes(ix) \in [Keys -> Nat] /\ Sizes(ix)[k] = ix.entries[k].size
    BY SizesType
  <2> QED BY <1>5, <2>1, CacheAssumption, SumOfUpdate
<1>7. jx.total = ix.total - ix.entries[k].size + size
  BY DEF AddEntry
<1>8. SumFunction(Sizes(jx)) \in Nat
  <2> HIDE DEF jx
  <2> QED BY <1>5, CacheAssumption, SumBoundsValues
<1>9. jx.total = SumFunction(Sizes(jx))
  BY <1>6, <1>7 DEF HasSum
<1>10. jx = [entries |-> jx.entries, total |-> jx.total]
  BY DEF AddEntry
<1> HIDE DEF jx
<1>11. jx \in IndexType
  BY <1>2, <1>8, <1>9, <1>10 DEF IndexType
<1> QED BY <1>1, <1>9, <1>11 DEF jx, HasSum

\* removeEntry is addEntry of nothing.
LEMMA RemoveEntrySum ==
  ASSUME NEW ix \in IndexType, HasSum(ix), NEW k \in Keys
  PROVE  LET jx == RemoveEntry(ix, k)
         IN  /\ jx \in IndexType
             /\ HasSum(jx)
             /\ \A l \in Keys :
                  jx.entries[l] = IF l = k THEN NoEntry ELSE ix.entries[l]
<1>1. ix.total \in Nat /\ ix.entries[k].size \in Nat
  BY DEF IndexType, Entry
<1>2. RemoveEntry(ix, k) = AddEntry(ix, k, 0, 0)
  BY <1>1 DEF RemoveEntry, AddEntry, NoEntry
<1>3. 0 \in Nat /\ 0 \in 0..MaxPuts
  BY CacheAssumption
<1> QED BY <1>2, <1>3, AddEntrySum DEF NoEntry

LEMMA ScannedType ==
  ASSUME TypeOK
  PROVE  \A k \in Keys : Scanned(k) \in Entry
<1> SUFFICES ASSUME NEW k \in Keys PROVE Scanned(k) \in Entry
  OBVIOUS
<1>1. disk[Meta(k)] \in {None, Torn} \union PutNumber
  BY NamesDiffer, ContentOfNames DEF TypeOK
<1>2. disk[Body(k)] \in {None, Torn} \union PutNumber
  BY NamesDiffer, ContentOfNames DEF TypeOK
<1>3. SizeOfBody(disk[Body(k)]) \in Nat
  BY <1>2, CacheAssumption DEF SizeOfBody, Whole, TypeOK
<1>4. Whole(disk[Meta(k)]) => disk[Meta(k)] \in 0..MaxPuts
  BY <1>1 DEF Whole, PutNumber
<1> QED BY <1>3, <1>4, NoEntryType DEF Scanned, Entry, MetaSize

LEMMA ScannedIndexSum ==
  ASSUME TypeOK
  PROVE  ScannedIndex \in IndexType /\ HasSum(ScannedIndex)
<1>1. \A k \in Keys : Scanned(k) \in Entry /\ Scanned(k).size \in Nat
  BY ScannedType DEF Entry
<1>2. Sizes(ScannedIndex) = [k \in Keys |-> Scanned(k).size]
  BY DEF Sizes, ScannedIndex
<1>3. HasSum(ScannedIndex)
  BY <1>2 DEF HasSum, ScannedIndex
<1>4. SumFunction([k \in Keys |-> Scanned(k).size]) \in Nat
  <2>1. CASE Keys = {}
    BY <2>1, <1>1, CacheAssumption, SumOfZeros
  <2>2. CASE Keys # {}
    <3>1. PICK k \in Keys : TRUE
      BY <2>2
    <3>2. [l \in Keys |-> Scanned(l).size] \in [Keys -> Nat]
      BY <1>1
    <3> QED BY <3>1, <3>2, CacheAssumption, SumBoundsValues
  <2> QED BY <2>1, <2>2
<1> QED BY <1>1, <1>3, <1>4 DEF ScannedIndex, IndexType

-----------------------------------------------------------------------------
(* Any number of objects: every step preserves the invariant.              *)

\* What the type of a state says of one object and its target.
LEMMA TargetFacts ==
  ASSUME StoreIInv, NEW c \in Caches, Writing(c)
  PROVE  /\ target[c] \in Names
         /\ key[c] \in Keys
         /\ Written(c) \in Content(target[c])
         /\ Whole(Written(c))
         /\ target[c] # Index =>
              target[c] \in {Body(key[c]), Meta(key[c])} /\ put[c] \in PutNumber
<1>1. target[c] \in Names /\ key[c] \in Keys /\ index[c] \in IndexType
  BY DEF StoreIInv, TypeOK
<1>2. target[c] # Index =>
        target[c] \in {Body(key[c]), Meta(key[c])} /\ put[c] \in PutNumber
  BY DEF StoreIInv, CallsOwnFiles, InPut, Writing
<1>3. target[c] # Index => put[c] \in Content(target[c]) /\ Whole(put[c])
  BY <1>2, ContentOfNames, ContentAssumption DEF Whole
<1>4. index[c] \in Content(Index) /\ Whole(index[c])
  BY <1>1, ContentOfNames, ContentAssumption DEF Whole
<1> QED BY <1>1, <1>2, <1>3, <1>4 DEF Written

\* What is done after a rename, by the file renamed.
LEMMA NextFileCases ==
  ASSUME NEW c \in Caches, NextFile(c)
  PROVE  /\ target[c] = Body(key[c]) =>
              /\ target' = [target EXCEPT ![c] = Meta(key[c])]
              /\ GoTo(c, "open")
              /\ UNCHANGED <<index, dirty, after>>
         /\ target[c] = Meta(key[c]) =>
              /\ index' = [index EXCEPT ![c] =
                   AddEntry(index[c], key[c], MetaSize + bodySize[put[c]], put[c])]
              /\ dirty' = [dirty EXCEPT ![c] = TRUE]
              /\ SaveIndex(c, "check")
         /\ target[c] = Index =>
              /\ dirty' = [dirty EXCEPT ![c] = FALSE]
              /\ GoTo(c, after[c])
              /\ UNCHANGED <<index, target, after>>
<1> DEFINE k == key[c]
<1>1. Body(k) # Meta(k) /\ Body(k) # Index /\ Meta(k) # Index
  <2> HIDE DEF k
  <2> QED BY NamesDiffer
<1>2. CASE target[c] = Body(key[c])
  BY <1>1, <1>2 DEF NextFile
<1>3. CASE target[c] = Meta(key[c])
  BY <1>1, <1>3 DEF NextFile
<1>4. CASE target[c] = Index
  BY <1>1, <1>4 DEF NextFile
<1> QED BY <1>2, <1>3, <1>4

LEMMA TypeStep ==
  ASSUME StoreIInv, NEW c \in Caches, Step(c)
  PROVE  TypeOK'
<1>1. TypeOK /\ index[c] \in IndexType /\ HasSum(index[c])
  BY DEF StoreIInv, TypeOK, TotalsAreSums, TotalIsSum, HasSum
<1>2. /\ Index \in Names
      /\ EmptyIndex \in IndexType
      /\ ScannedIndex \in IndexType
      /\ IndexLoads => disk[Index] \in IndexType
  BY <1>1, EmptyIndexSum, ScannedIndexSum, ContentOfNames, NamesDiffer
     DEF TypeOK, IndexLoads, Whole
<1>3. CASE New(c)
  <2>1. CASE IndexLoads
    BY <1>1, <1>2, <1>3, <2>1 DEF New, TypeOK, GoTo, diskVars
  <2>2. CASE ~IndexLoads
    <3>1. SaveIndex(c, "idle") /\ UNCHANGED <<diskVars, fd, key, put, bodySize,
                                               puts, interruptions>>
      BY <1>3, <2>2 DEF New
    <3>2. index' \in [Caches -> IndexType]
      BY <1>1, <1>2, <1>3, <2>2 DEF New, TypeOK
    <3>3. /\ dirty' \in [Caches -> BOOLEAN]
          /\ evictDue' \in [Caches -> BOOLEAN]
          /\ saveDue' \in [Caches -> BOOLEAN]
      BY <1>1, <1>3, <2>2 DEF New, TypeOK
    <3> QED BY <1>1, <1>2, <3>1, <3>2, <3>3
            DEF SaveIndex, GoTo, TypeOK, diskVars
  <2> QED BY <2>1, <2>2
<1>4. CASE Quit(c)
  BY <1>1, <1>2, <1>4, CacheAssumption DEF Quit, MemoryIsLost, GoTo, TypeOK, diskVars
<1>5. CASE Crash(c)
  BY <1>1, <1>2, <1>5, CacheAssumption
     DEF Crash, Interrupt, MemoryIsLost, GoTo, TypeOK, diskVars
<1>6. CASE Put(c)
  BY <1>1, <1>6, NamesDiffer, CacheAssumption
     DEF Put, GoTo, TypeOK, diskVars, memoryVars
<1>7. CASE Open(c)
  BY <1>1, <1>7 DEF Open, GoTo, TypeOK, memoryVars, Content
<1>8. CASE Write(c)
  <2>1. /\ target[c] \in Names
        /\ \A old : Outcome(c, old) \subseteq Content(target[c])
    BY <1>8, TargetFacts DEF Write, Outcome, Content, Writing
  <2> QED BY <1>1, <1>8, <2>1 DEF Write, GoTo, TypeOK, memoryVars, diskVars
<1>9. CASE Rename(c)
  <2>1. /\ target[c] \in Names
        /\ disk' = [disk EXCEPT ![target[c]] = tmp[target[c]]]
        /\ tmp' = [tmp EXCEPT ![target[c]] = None]
        /\ tmp[target[c]] \in Content(target[c])
    BY <1>1, <1>9 DEF Rename, TypeOK
  <2>2. /\ DOMAIN disk' = Names /\ \A n \in Names : disk'[n] \in Content(n)
        /\ DOMAIN tmp' = Names /\ \A n \in Names : tmp'[n] \in Content(n)
    BY <1>1, <2>1 DEF TypeOK, Content
  <2>3. fd' \in [Caches -> {"tmp", "final", "gone"}]
    BY <1>1, <1>9 DEF Rename, FollowRename, TypeOK
  <2>4. /\ UNCHANGED <<evictDue, saveDue, key, put, bodySize, puts, interruptions>>
        /\ NextFile(c)
    BY <1>9 DEF Rename
  <2>5. /\ target' \in [Caches -> Names]
        /\ pc' \in [Caches -> {"down", "idle", "open", "write", "rename",
                               "check", "evict", "unmeta"}]
        /\ index' \in [Caches -> IndexType]
        /\ dirty' \in [Caches -> BOOLEAN]
        /\ after' \in [Caches -> {"idle", "check"}]
    <3>1. Writing(c)
      BY <1>9 DEF Rename, Writing
    <3>2. \/ target[c] = Body(key[c])
          \/ target[c] = Meta(key[c])
          \/ target[c] = Index
      BY <3>1, TargetFacts
    <3>3. key[c] \in Keys /\ after[c] \in {"idle", "check"}
      BY <1>1 DEF TypeOK
    <3>4. CASE target[c] = Body(key[c])
      BY <1>1, <2>4, <3>3, <3>4, NamesDiffer, NextFileCases DEF GoTo, TypeOK
    <3>5. CASE target[c] = Meta(key[c])
      <4>1. put[c] \in PutNumber
        BY <3>1, <3>5, NamesDiffer, TargetFacts
      <4>2. put[c] \in 0..MaxPuts /\ MetaSize + bodySize[put[c]] \in Nat
        <5>1. bodySize[put[c]] \in Nat
          BY <1>1, <4>1, CacheAssumption DEF TypeOK
        <5> QED BY <1>1, <5>1 DEF TypeOK, MetaSize
      <4>3. AddEntry(index[c], key[c], MetaSize + bodySize[put[c]], put[c])
              \in IndexType
        BY <1>1, <3>3, <4>2, AddEntrySum
      <4>4. /\ index' \in [Caches -> IndexType]
            /\ dirty' \in [Caches -> BOOLEAN]
            /\ SaveIndex(c, "check")
        <5>1. /\ index' = [index EXCEPT ![c] =
                   AddEntry(index[c], key[c], MetaSize + bodySize[put[c]], put[c])]
              /\ dirty' = [dirty EXCEPT ![c] = TRUE]
              /\ SaveIndex(c, "check")
          BY <2>4, <3>5, NextFileCases
        <5>2. index' \in [Caches -> IndexType]
          BY <1>1, <4>3, <5>1 DEF TypeOK
        <5> QED BY <1>1, <5>1, <5>2 DEF TypeOK
      <4> QED BY <1>1, <1>2, <4>4 DEF GoTo, SaveIndex, TypeOK
    <3>6. CASE target[c] = Index
      BY <1>1, <2>4, <3>3, <3>6, NextFileCases DEF GoTo, TypeOK
    <3> QED BY <3>2, <3>4, <3>5, <3>6
  <2> QED BY <1>1, <2>2, <2>3, <2>4, <2>5 DEF TypeOK
<1>10. CASE RenameMisses(c)
  BY <1>1, <1>10 DEF RenameMisses, GiveUp, GoTo, TypeOK, diskVars, memoryVars
<1>11. CASE Refused(c)
  BY <1>1, <1>11, CacheAssumption
     DEF Refused, Interrupt, GiveUp, GoTo, TypeOK, diskVars, memoryVars
<1>12. CASE EvictCheck(c)
  BY <1>1, <1>12 DEF EvictCheck, GoTo, TypeOK, diskVars, memoryVars
<1>13. ASSUME NEW k \in Keys, NEW n \in {Body(k), Meta(k)}, RemoveFile(n)
       PROVE  /\ DOMAIN disk' = Names /\ \A m \in Names : disk'[m] \in Content(m)
              /\ DOMAIN tmp' = Names /\ \A m \in Names : tmp'[m] \in Content(m)
              /\ fd' \in [Caches -> {"tmp", "final", "gone"}]
              /\ interruptions' \in 0..MaxInterruptions
  BY <1>1, <1>13, NamesDiffer, CacheAssumption DEF RemoveFile, Interrupt, TypeOK, Content
<1>14. CASE EvictBody(c)
  <2>1. Oldest(index[c]) \in Keys
    BY <1>1, <1>14, OldestIsListed DEF EvictBody, MustEvict, Listed
  <2>2. /\ DOMAIN disk' = Names /\ \A m \in Names : disk'[m] \in Content(m)
        /\ DOMAIN tmp' = Names /\ \A m \in Names : tmp'[m] \in Content(m)
        /\ fd' \in [Caches -> {"tmp", "final", "gone"}]
        /\ interruptions' \in 0..MaxInterruptions
    BY <1>13, <1>14, <2>1 DEF EvictBody
  <2> QED BY <1>1, <1>14, <2>2 DEF EvictBody, GoTo, TypeOK, memoryVars
<1>15. CASE EvictMeta(c)
  <2>1. Oldest(index[c]) \in Keys
    BY <1>1, <1>15, OldestIsListed
       DEF EvictMeta, StoreIInv, EvictionIsDue, MustEvict, Listed
  <2>2. /\ DOMAIN disk' = Names /\ \A m \in Names : disk'[m] \in Content(m)
        /\ DOMAIN tmp' = Names /\ \A m \in Names : tmp'[m] \in Content(m)
        /\ fd' \in [Caches -> {"tmp", "final", "gone"}]
        /\ interruptions' \in 0..MaxInterruptions
    BY <1>13, <1>15, <2>1 DEF EvictMeta
  <2>3. RemoveEntry(index[c], Oldest(index[c])) \in IndexType
    BY <1>1, <2>1, RemoveEntrySum
  <2> QED BY <1>1, <1>15, <2>2, <2>3 DEF EvictMeta, GoTo, TypeOK
<1>16. CASE EvictEnd(c)
  <2>1. CASE dirty[c] /\ saveDue[c]
    BY <1>1, <1>2, <1>16, <2>1
       DEF EvictEnd, SaveIndex, GoTo, TypeOK, diskVars
  <2>2. CASE ~(dirty[c] /\ saveDue[c])
    BY <1>1, <1>16, <2>2 DEF EvictEnd, GoTo, TypeOK, diskVars
  <2> QED BY <2>1, <2>2
<1>17. CASE TimePasses(c)
  BY <1>1, <1>17 DEF TimePasses, TypeOK, diskVars
<1> QED BY <1>3, <1>4, <1>5, <1>6, <1>7, <1>8, <1>9, <1>10, <1>11, <1>12,
           <1>14, <1>15, <1>16, <1>17 DEF Step

\* A step of an object leaves the memory of the others alone.
LEMMA StepFrame ==
  ASSUME StoreIInv, NEW c \in Caches, Step(c), NEW d \in Caches, d # c
  PROVE  /\ pc'[d] = pc[d] /\ target'[d] = target[d] /\ key'[d] = key[d]
         /\ put'[d] = put[d] /\ index'[d] = index[d] /\ after'[d] = after[d]
<1> USE DEF StoreIInv
<1>1. CASE New(c)
  BY <1>1 DEF New, TypeOK, GoTo, SaveIndex
<1>2. CASE Quit(c) \/ Crash(c)
  BY <1>2 DEF Quit, Crash, MemoryIsLost, GoTo, TypeOK
<1>3. CASE Put(c)
  BY <1>3 DEF Put, GoTo, TypeOK, memoryVars
<1>4. CASE Open(c) \/ Write(c)
  BY <1>4 DEF Open, Write, GoTo, TypeOK, memoryVars
<1>5. CASE Rename(c)
  <2>1. UNCHANGED <<key, put>> /\ NextFile(c) /\ pc[c] = "rename"
    BY <1>5 DEF Rename
  <2> QED BY <2>1, TargetFacts, NextFileCases DEF Writing, GoTo, SaveIndex, TypeOK
<1>6. CASE RenameMisses(c) \/ Refused(c)
  BY <1>6 DEF RenameMisses, Refused, GiveUp, GoTo, TypeOK, memoryVars
<1>7. CASE EvictCheck(c) \/ EvictBody(c) \/ TimePasses(c)
  BY <1>7 DEF EvictCheck, EvictBody, TimePasses, GoTo, TypeOK, memoryVars
<1>8. CASE EvictMeta(c)
  BY <1>8 DEF EvictMeta, GoTo, TypeOK
<1>9. CASE EvictEnd(c)
  BY <1>9 DEF EvictEnd, SaveIndex, GoTo, TypeOK
<1> QED BY <1>1, <1>2, <1>3, <1>4, <1>5, <1>6, <1>7, <1>8, <1>9 DEF Step

LEMMA CallsStep ==
  ASSUME StoreIInv, NEW c \in Caches, Step(c)
  PROVE  CallsOwnFiles'
<1>1. TypeOK
  BY DEF StoreIInv
<1> DEFINE Own(d) == InPut(d) =>
             put[d] \in PutNumber /\ target[d] \in {Body(key[d]), Meta(key[d])}
<1>2. \A d \in Caches : Own(d)
  BY DEF StoreIInv, CallsOwnFiles
<1>3. ASSUME NEW d \in Caches, d # c PROVE Own(d)'
  BY <1>1, <1>2, <1>3, StepFrame DEF InPut
<1>4. Own(c)'
  <2>1. CASE New(c) \/ Quit(c) \/ Crash(c)
    BY <1>1, <2>1 DEF New, Quit, Crash, MemoryIsLost, SaveIndex, GoTo, TypeOK, InPut
  <2>2. CASE Put(c)
    BY <1>1, <2>2, CacheAssumption DEF Put, GoTo, TypeOK, InPut, PutNumber
  <2>3. CASE Open(c) \/ Write(c)
    BY <1>1, <1>2, <2>3 DEF Open, Write, GoTo, TypeOK, InPut
  <2>4. CASE Rename(c)
    <3>1. UNCHANGED <<key, put>> /\ NextFile(c) /\ pc[c] = "rename"
      BY <2>4 DEF Rename
    <3>2. \/ target[c] = Body(key[c])
          \/ target[c] = Meta(key[c])
          \/ target[c] = Index
      BY <3>1, TargetFacts DEF Writing
    <3>3. CASE target[c] = Body(key[c])
      <4>1. put[c] \in PutNumber
        BY <3>1, <3>3, NamesDiffer, TargetFacts DEF Writing
      <4> QED BY <1>1, <3>1, <3>3, <4>1, NextFileCases DEF GoTo, TypeOK
    <3>4. CASE target[c] = Meta(key[c])
      BY <1>1, <3>1, <3>4, NextFileCases DEF SaveIndex, GoTo, TypeOK, InPut
    <3>5. CASE target[c] = Index
      BY <1>1, <3>1, <3>5, NextFileCases DEF GoTo, TypeOK, InPut
    <3> QED BY <3>2, <3>3, <3>4, <3>5
  <2>5. CASE RenameMisses(c) \/ Refused(c)
    BY <1>1, <2>5 DEF RenameMisses, Refused, GiveUp, GoTo, TypeOK, InPut
  <2>6. CASE EvictCheck(c) \/ EvictBody(c) \/ EvictMeta(c) \/ TimePasses(c)
    BY <1>1, <2>6 DEF EvictCheck, EvictBody, EvictMeta, TimePasses, GoTo, TypeOK,
                      InPut
  <2>7. CASE EvictEnd(c)
    BY <1>1, <2>7 DEF EvictEnd, SaveIndex, GoTo, TypeOK, InPut
  <2> QED BY <2>1, <2>2, <2>3, <2>4, <2>5, <2>6, <2>7 DEF Step
<1> QED BY <1>3, <1>4 DEF CallsOwnFiles

LEMMA EvictionStep ==
  ASSUME StoreIInv, NEW c \in Caches, Step(c)
  PROVE  EvictionIsDue'
<1>1. TypeOK /\ EvictionIsDue
  BY DEF StoreIInv
<1>2. ASSUME NEW d \in Caches, d # c, pc'[d] = "unmeta" PROVE MustEvict(d)'
  BY <1>1, <1>2, StepFrame DEF EvictionIsDue, MustEvict
<1>3. ASSUME pc'[c] = "unmeta" PROVE MustEvict(c)'
  <2>1. CASE EvictBody(c)
    BY <2>1 DEF EvictBody, MustEvict, memoryVars
  <2>2. CASE New(c) \/ Quit(c) \/ Crash(c) \/ Put(c) \/ Open(c) \/ Write(c)
    BY <1>1, <1>3, <2>2 DEF New, Quit, Crash, MemoryIsLost, Put, Open, Write,
                            SaveIndex, GoTo, TypeOK
  <2>3. CASE Rename(c)
    <3>1. NextFile(c) /\ pc[c] = "rename"
      BY <2>3 DEF Rename
    <3> QED BY <1>1, <1>3, <3>1, TargetFacts, NextFileCases
            DEF StoreIInv, Writing, GoTo, SaveIndex, TypeOK
  <2>4. CASE RenameMisses(c) \/ Refused(c)
    BY <1>1, <1>3, <2>4 DEF RenameMisses, Refused, GiveUp, GoTo, TypeOK
  <2>5. CASE EvictCheck(c) \/ EvictMeta(c) \/ EvictEnd(c) \/ TimePasses(c)
    BY <1>1, <1>3, <2>5 DEF EvictCheck, EvictMeta, EvictEnd, TimePasses, SaveIndex,
                            GoTo, TypeOK
  <2> QED BY <2>1, <2>2, <2>3, <2>4, <2>5 DEF Step
<1> QED BY <1>2, <1>3 DEF EvictionIsDue

\* The steps that write no file and remove none.
Quiet(c) == \/ New(c) \/ Quit(c) \/ Crash(c) \/ Put(c)
            \/ RenameMisses(c) \/ Refused(c)
            \/ EvictCheck(c) \/ EvictEnd(c) \/ TimePasses(c)

LEMMA QuietFrame ==
  ASSUME NEW c \in Caches, Quiet(c)
  PROVE  disk' = disk /\ tmp' = tmp /\ bodySize' = bodySize
BY DEF Quiet, New, Quit, Crash, MemoryIsLost, Put, RenameMisses, Refused, GiveUp,
       EvictCheck, EvictEnd, TimePasses, diskVars

\* The steps after which an object has the index it had before.
LEMMA IndexFrame ==
  ASSUME StoreIInv, NEW c \in Caches, Step(c),
         ~ New(c), ~ Quit(c), ~ Crash(c), ~ EvictMeta(c),
         ~ (Rename(c) /\ target[c] = Meta(key[c]))
  PROVE  index' = index
<1>1. CASE Rename(c)
  <2>1. NextFile(c) /\ pc[c] = "rename"
    BY <1>1 DEF Rename
  <2> QED BY <1>1, <2>1, TargetFacts, NextFileCases DEF Writing
<1> QED BY <1>1 DEF Step, Put, Open, Write, RenameMisses, Refused, GiveUp, EvictCheck,
                    EvictBody, EvictEnd, TimePasses, memoryVars

LEMMA IndexSumStep ==
  ASSUME StoreIInv, NEW c \in Caches, Step(c)
  PROVE  \A d \in Caches : HasSum(index'[d])
<1>1. TypeOK /\ \A d \in Caches : index[d] \in IndexType /\ HasSum(index[d])
  BY DEF StoreIInv, TypeOK, TotalsAreSums, TotalIsSum, HasSum
<1>2. \A d \in Caches \ {c} : HasSum(index'[d])
  BY <1>1, StepFrame
<1>3. HasSum(index'[c])
  <2>1. CASE New(c)
    <3>1. IndexLoads => HasSum(disk[Index])
      BY DEF StoreIInv, TotalsAreSums, TotalIsSum, HasSum, IndexLoads
    <3>2. index'[c] = IF IndexLoads THEN disk[Index] ELSE ScannedIndex
      BY <1>1, <2>1 DEF New, TypeOK
    <3> QED BY <1>1, <3>1, <3>2, ScannedIndexSum
  <2>2. CASE Quit(c) \/ Crash(c)
    BY <1>1, <2>2, EmptyIndexSum DEF Quit, Crash, MemoryIsLost, TypeOK
  <2>3. CASE EvictMeta(c)
    <3>1. Oldest(index[c]) \in Keys
      BY <1>1, <2>3, OldestIsListed
         DEF EvictMeta, StoreIInv, EvictionIsDue, MustEvict, Listed
    <3>2. index'[c] = RemoveEntry(index[c], Oldest(index[c]))
      BY <1>1, <2>3 DEF EvictMeta, TypeOK
    <3> QED BY <1>1, <3>1, <3>2, RemoveEntrySum
  <2>4. CASE Rename(c) /\ target[c] = Meta(key[c])
    <3>1. NextFile(c) /\ pc[c] = "rename"
      BY <2>4 DEF Rename
    <3>2. put[c] \in PutNumber
      BY <2>4, <3>1, TargetFacts, NamesDiffer DEF Writing
    <3>3. put[c] \in 0..MaxPuts /\ MetaSize + bodySize[put[c]] \in Nat
      <4>1. bodySize[put[c]] \in Nat
        BY <1>1, <3>2, CacheAssumption DEF TypeOK
      <4> QED BY <1>1, <4>1 DEF TypeOK, MetaSize
    <3>4. index'[c] =
            AddEntry(index[c], key[c], MetaSize + bodySize[put[c]], put[c])
      BY <1>1, <2>4, <3>1, NextFileCases DEF TypeOK
    <3>5. key[c] \in Keys
      BY <1>1 DEF TypeOK
    <3>6. HasSum(AddEntry(index[c], key[c], MetaSize + bodySize[put[c]], put[c]))
      BY <1>1, <3>3, <3>5, AddEntrySum
    <3> QED BY <3>4, <3>6
  <2>5. CASE /\ ~ New(c) /\ ~ Quit(c) /\ ~ Crash(c) /\ ~ EvictMeta(c)
             /\ ~ (Rename(c) /\ target[c] = Meta(key[c]))
    <3>1. index' = index
      BY <2>5, IndexFrame
    <3> QED BY <1>1, <3>1
  <2> QED BY <2>1, <2>2, <2>3, <2>4, <2>5
<1> QED BY <1>2, <1>3

\* A step of c writes to the index file, or to its temporary name, nothing
\* but the index of c or what was in the temporary file before.
LEMMA IndexFileStep ==
  ASSUME StoreIInv, NEW c \in Caches, Step(c)
  PROVE  /\ disk'[Index] \in {disk[Index], tmp[Index], index[c], Torn}
         /\ tmp'[Index] \in {tmp[Index], index[c], Torn, None}
<1>1. TypeOK /\ Index \in Names /\ target[c] \in Names
  BY NamesDiffer DEF StoreIInv, TypeOK
<1>2. CASE Quiet(c)
  BY <1>2, QuietFrame
<1>3. CASE Open(c)
  BY <1>1, <1>3 DEF Open, TypeOK
<1>4. CASE Write(c)
  <2>1. CASE target[c] = Index
    <3>1. \A old : Outcome(c, old) \subseteq {index[c], Torn}
      BY <2>1 DEF Outcome, Written
    <3> QED BY <1>1, <1>4, <2>1, <3>1 DEF Write, TypeOK, diskVars
  <2>2. CASE target[c] # Index
    BY <1>1, <1>4, <2>2 DEF Write, TypeOK, diskVars
  <2> QED BY <2>1, <2>2
<1>5. CASE Rename(c)
  BY <1>1, <1>5 DEF Rename, TypeOK
<1>6. CASE EvictBody(c) \/ EvictMeta(c)
  <2>1. \A k : Body(k) # Index /\ Meta(k) # Index
    BY NamesDiffer
  <2> QED BY <1>1, <1>6, <2>1 DEF EvictBody, EvictMeta, RemoveFile, TypeOK
<1> QED BY <1>2, <1>3, <1>4, <1>5, <1>6 DEF Step, Quiet

LEMMA TotalsStep ==
  ASSUME StoreIInv, NEW c \in Caches, Step(c)
  PROVE  TotalsAreSums'
<1>1. /\ HasSum(index[c])
      /\ Whole(disk[Index]) => HasSum(disk[Index])
      /\ Whole(tmp[Index]) => HasSum(tmp[Index])
  BY DEF StoreIInv, TotalsAreSums, TotalIsSum, HasSum
<1>2. /\ Whole(disk'[Index]) => HasSum(disk'[Index])
      /\ Whole(tmp'[Index]) => HasSum(tmp'[Index])
  BY <1>1, IndexFileStep DEF Whole
<1>3. \A d \in Caches : HasSum(index'[d])
  BY IndexSumStep
<1> QED BY <1>2, <1>3 DEF TotalsAreSums, TotalIsSum, HasSum

LEMMA TmpStep ==
  ASSUME StoreIInv, NEW c \in Caches, Step(c)
  PROVE  TmpIsHeld'
<1> DEFINE Holds(d, n) == pc[d] \in {"write", "rename"} /\ target[d] = n
<1>1. TypeOK /\ target[c] \in Names
  BY DEF StoreIInv, TypeOK
<1>2. SUFFICES ASSUME interruptions' = 0, NEW n \in Names, tmp'[n] # None
               PROVE  \E d \in Caches : Holds(d, n)'
  BY DEF TmpIsHeld
<1>3. interruptions = 0
  <2>1. interruptions \in Nat /\ (interruptions' = interruptions \/ Interrupt)
    BY <1>1 DEF TypeOK, Step, New, Quit, Crash, Put, Open, Write, Rename, RenameMisses,
                Refused, EvictCheck, EvictBody, EvictMeta, RemoveFile, EvictEnd, TimePasses
  <2> QED BY <1>2, <2>1 DEF Interrupt
<1>4. ASSUME tmp[n] # None, \A d \in Caches : Holds(d, n) => Holds(d, n)'
      PROVE  \E d \in Caches : Holds(d, n)'
  BY <1>3, <1>4 DEF StoreIInv, TmpIsHeld
<1>5. ASSUME tmp[n] # None, Holds(c, n) => Holds(c, n)'
      PROVE  \E d \in Caches : Holds(d, n)'
  BY <1>4, <1>5, StepFrame
<1>6. CASE Open(c) \/ Write(c)
  <2>1. CASE n = target[c]
    BY <1>1, <1>6, <2>1 DEF Open, Write, GoTo, TypeOK
  <2>2. CASE n # target[c]
    BY <1>1, <1>2, <1>5, <1>6, <2>2 DEF Open, Write, TypeOK, diskVars
  <2> QED BY <2>1, <2>2
<1>7. CASE Rename(c)
  BY <1>1, <1>2, <1>5, <1>7 DEF Rename, TypeOK
<1>8. CASE RenameMisses(c)
  BY <1>2, <1>5, <1>8 DEF RenameMisses, diskVars
<1>9. CASE Refused(c) \/ Crash(c)
  BY <1>2, <1>3, <1>9 DEF Refused, Crash, Interrupt
<1>10. CASE New(c) \/ Quit(c) \/ Put(c) \/ EvictCheck(c) \/ EvictEnd(c) \/ TimePasses(c)
  <2>1. tmp' = tmp
    BY <1>10, QuietFrame DEF Quiet
  <2>2. pc[c] \notin {"write", "rename"}
    BY <1>10 DEF New, Quit, Put, EvictCheck, EvictEnd, TimePasses
  <2> QED BY <1>2, <1>5, <2>1, <2>2
<1>11. CASE EvictBody(c) \/ EvictMeta(c)
  BY <1>2, <1>5, <1>11 DEF EvictBody, EvictMeta, RemoveFile
<1> QED BY <1>6, <1>7, <1>8, <1>9, <1>10, <1>11 DEF Step

-----------------------------------------------------------------------------
(* What holds of any number of objects.                                    *)

LEMMA StoreInit ==
  ASSUME Init
  PROVE  StoreIInv
<1>1. TypeOK
  <2>1. Index \in Names /\ EmptyIndex \in IndexType
    BY NamesDiffer, EmptyIndexSum
  <2> QED BY <2>1, CacheAssumption DEF Init, TypeOK, Content
<1>2. CallsOwnFiles /\ EvictionIsDue
  BY DEF Init, CallsOwnFiles, EvictionIsDue, InPut
<1>3. TotalsAreSums
  BY NamesDiffer, EmptyIndexSum DEF Init, TotalsAreSums, TotalIsSum, HasSum, Whole
<1>4. TmpIsHeld
  BY DEF Init, TmpIsHeld
<1> QED BY <1>1, <1>2, <1>3, <1>4 DEF StoreIInv

LEMMA StoreStutter ==
  ASSUME StoreIInv, UNCHANGED vars
  PROVE  StoreIInv'
<1> USE DEF vars, diskVars, memoryVars
<1>1. TypeOK'
  BY DEF StoreIInv, TypeOK, Content
<1>2. CallsOwnFiles' /\ EvictionIsDue'
  BY DEF StoreIInv, CallsOwnFiles, InPut, EvictionIsDue, MustEvict
<1>3. TotalsAreSums' /\ TmpIsHeld'
  BY DEF StoreIInv, TotalsAreSums, TotalIsSum, TmpIsHeld, HasSum
<1> QED BY <1>1, <1>2, <1>3 DEF StoreIInv

\* The invariant is preserved by every step of every object.
THEOREM StoreInvariant == Spec => []StoreIInv
<1>1. Init => StoreIInv
  BY StoreInit
<1>2. StoreIInv /\ [Next]_vars => StoreIInv'
  BY TypeStep, CallsStep, EvictionStep, TotalsStep, TmpStep, StoreStutter
     DEF Next, StoreIInv
<1> QED BY <1>1, <1>2, PTL DEF Spec

\* Objects, files and indexes keep their types: no total is ever negative, the
\* eviction always finds an entry to take, and each writer has what it writes.
THEOREM StoreTypeCorrect == Spec => []TypeOK
<1>1. StoreIInv => TypeOK
  BY DEF StoreIInv
<1> QED BY <1>1, StoreInvariant, PTL

\* Whatever several objects put and evict over each other's files, the total of
\* each index, in memory and on disk, is the sum of its entries.
THEOREM TotalsAreExact == Spec => []TotalIsSum
<1>1. StoreIInv => TotalIsSum
  BY DEF StoreIInv, TotalsAreSums
<1> QED BY <1>1, StoreInvariant, PTL

\* Without a crash or an error no temporary file outlives the calls.
THEOREM TmpFilesAreGone == Spec => []NoTmpLeft
<1>1. StoreIInv => NoTmpLeft
  <2> SUFFICES ASSUME StoreIInv, \A c \in Caches : pc[c] \in {"down", "idle"},
                      interruptions = 0, NEW n \in Names
               PROVE  tmp[n] = None
    BY DEF NoTmpLeft
  <2> QED BY DEF StoreIInv, TmpIsHeld
<1> QED BY <1>1, StoreInvariant, PTL

-----------------------------------------------------------------------------
(* One object alone on the directory: what a step does to the files.       *)

\* A file that a Put may leave for a key is missing, or of a Put.
LEMMA KeyFiles ==
  ASSUME TypeOK, FilesAreWhole, NEW k \in Keys
  PROVE  /\ disk[Body(k)] # None => disk[Body(k)] \in PutNumber
                                     /\ disk[Body(k)] <= puts
         /\ disk[Meta(k)] # None => disk[Meta(k)] \in PutNumber
                                     /\ disk[Meta(k)] <= puts
         /\ Whole(disk[Meta(k)]) <=> disk[Meta(k)] # None
         /\ Whole(disk[Body(k)]) <=> disk[Body(k)] # None
<1>1. Body(k) \in Names /\ Meta(k) \in Names
  BY NamesDiffer
<1>2. /\ disk[Body(k)] \in {None, Torn} \union PutNumber
      /\ disk[Meta(k)] \in {None, Torn} \union PutNumber
  BY <1>1, ContentOfNames DEF TypeOK
<1>3. disk[Body(k)] # Torn /\ disk[Meta(k)] # Torn
  BY <1>1 DEF FilesAreWhole
<1> QED BY <1>2, <1>3 DEF FilesAreWhole, Whole

\* The object finds its temporary file as it left it.
LEMMA AloneWrite ==
  ASSUME StoreIInv, CallIsAlone, NEW c \in Caches, Write(c)
  PROVE  /\ disk' = disk
         /\ tmp'[target[c]] = Written(c)
<1>1. /\ fd[c] = "tmp" /\ tmp[target[c]] = Torn
      /\ target[c] \in Names /\ DOMAIN tmp = Names
  BY DEF CallIsAlone, Write, StoreIInv, TypeOK
<1>2. Outcome(c, Torn) = {Written(c)}
  BY DEF Outcome, Whole
<1>3. \E new \in Outcome(c, Torn) : tmp' = [tmp EXCEPT ![target[c]] = new]
  BY <1>1 DEF Write
<1> QED BY <1>1, <1>2, <1>3 DEF Write

\* A rename puts in place what the object has written.
LEMMA AloneRename ==
  ASSUME StoreIInv, CallIsAlone, NEW c \in Caches, pc[c] = "rename"
  PROVE  /\ ~ RenameMisses(c)
         /\ Rename(c) => disk' = [disk EXCEPT ![target[c]] = Written(c)]
<1>1. tmp[target[c]] = Written(c) /\ Whole(Written(c))
  BY TargetFacts DEF CallIsAlone, Writing
<1> QED BY <1>1 DEF RenameMisses, Rename, Whole

\* No step but a rename and a removal changes a file.
LEMMA AloneFrame ==
  ASSUME StoreIInv, CallIsAlone, NEW c \in Caches, Step(c),
         ~ Rename(c), ~ EvictBody(c), ~ EvictMeta(c)
  PROVE  disk' = disk /\ bodySize' = bodySize
<1>1. CASE Quiet(c)
  BY <1>1, QuietFrame
<1>2. CASE Open(c)
  BY <1>2 DEF Open
<1>3. CASE Write(c)
  BY <1>3, AloneWrite DEF Write
<1> QED BY <1>1, <1>2, <1>3 DEF Step, Quiet

\* No step but a Put starts one.
LEMMA PutsFrame ==
  ASSUME NEW c \in Caches, Step(c), ~ Put(c)
  PROVE  puts' = puts
BY DEF Step, New, Quit, Crash, MemoryIsLost, Open, Write, Rename, RenameMisses, Refused,
       GiveUp, EvictCheck, EvictBody, EvictMeta, EvictEnd, TimePasses

\* The file an eviction removes, if nothing refuses it, and the entry it is of.
LEMMA EvictedKey ==
  ASSUME StoreIInv, NEW c \in Caches, EvictBody(c) \/ EvictMeta(c)
  PROVE  /\ MustEvict(c)
         /\ Oldest(index[c]) \in Keys
         /\ index[c] \in IndexType
         /\ interruptions \in Nat /\ interruptions' \in {interruptions, interruptions + 1}
         /\ EvictBody(c) => disk' = IF interruptions' = interruptions
              THEN [disk EXCEPT ![Body(Oldest(index[c]))] = None] ELSE disk
         /\ EvictMeta(c) => disk' = IF interruptions' = interruptions
              THEN [disk EXCEPT ![Meta(Oldest(index[c]))] = None] ELSE disk
         /\ EvictMeta(c) => index'[c] = RemoveEntry(index[c], Oldest(index[c]))
<1>1. /\ MustEvict(c) /\ index[c] \in IndexType /\ DOMAIN index = Caches
      /\ interruptions \in Nat
  BY DEF EvictBody, EvictMeta, StoreIInv, EvictionIsDue, TypeOK
<1>2. Oldest(index[c]) \in Keys
  BY <1>1, OldestIsListed DEF MustEvict, Listed
<1> QED BY <1>1, <1>2 DEF EvictBody, EvictMeta, RemoveFile, Interrupt

LEMMA CallIsAloneStep ==
  ASSUME StoreIInv, AloneInv, NEW c, Caches = {c}, Step(c)
  PROVE  CallIsAlone'
<1> c \in Caches
  OBVIOUS
<1>1. TypeOK /\ target[c] \in Names /\ CallIsAlone
  BY DEF StoreIInv, TypeOK, AloneInv
<1>2. /\ InPut(c) => put[c] = puts
      /\ InPut(c) /\ target[c] = Meta(key[c]) => disk[Body(key[c])] = put[c]
  BY <1>1 DEF CallIsAlone
<1> SUFFICES /\ pc'[c] = "write" => fd'[c] = "tmp" /\ tmp'[target'[c]] = Torn
             /\ pc'[c] = "rename" => tmp'[target'[c]] = Written(c)'
             /\ InPut(c)' => put'[c] = puts'
             /\ InPut(c)' /\ target'[c] = Meta(key[c])' =>
                  disk'[Body(key[c])'] = put'[c]
  BY DEF CallIsAlone
<1>3. CASE New(c) \/ Quit(c) \/ Crash(c)
  BY <1>1, <1>3 DEF New, Quit, Crash, MemoryIsLost, SaveIndex, GoTo, TypeOK, InPut
<1>4. CASE Put(c)
  <2>1. \A k : Body(k) # Meta(k)
    BY NamesDiffer
  <2>2. /\ pc'[c] = "open" /\ put'[c] = puts'
        /\ target'[c] = Body(key'[c])
    BY <1>1, <1>4 DEF Put, GoTo, TypeOK
  <2>3. target'[c] # Meta(key'[c])
    BY <2>1, <2>2
  <2> QED BY <2>2, <2>3 DEF Body, Meta
<1>5. CASE Open(c)
  BY <1>1, <1>2, <1>5 DEF Open, GoTo, TypeOK, InPut, Meta, Body
<1>6. CASE Write(c)
  <2>1. disk' = disk /\ tmp'[target[c]] = Written(c)
    BY <1>1, <1>6, AloneWrite
  <2>2. /\ pc[c] = "write" /\ pc'[c] = "rename"
        /\ UNCHANGED <<target, index, put, key, puts>>
    BY <1>1, <1>6 DEF Write, GoTo, TypeOK, memoryVars
  <2> QED BY <1>2, <2>1, <2>2 DEF Written, InPut, Meta, Body
<1>7. CASE Rename(c)
  <2>1. /\ UNCHANGED <<key, put, puts>> /\ NextFile(c) /\ pc[c] = "rename"
        /\ disk' = [disk EXCEPT ![target[c]] = Written(c)]
    BY <1>1, <1>7, AloneRename DEF Rename
  <2>2. \/ target[c] = Body(key[c])
        \/ target[c] = Meta(key[c])
        \/ target[c] = Index
    BY <2>1, TargetFacts DEF Writing
  <2>3. CASE target[c] = Body(key[c])
    <3>1. target[c] # Index
      BY <2>3, NamesDiffer
    <3>2. put[c] = puts /\ disk'[Body(key[c])] = put[c]
      BY <1>1, <1>2, <2>1, <2>3, <3>1 DEF InPut, Written, TypeOK
    <3>3. pc'[c] = "open"
      BY <1>1, <2>1, <2>3, NextFileCases DEF GoTo, TypeOK
    <3> QED BY <2>1, <3>2, <3>3 DEF Body
  <2>4. CASE target[c] = Meta(key[c])
    BY <1>1, <2>1, <2>4, NextFileCases DEF SaveIndex, GoTo, TypeOK, InPut
  <2>5. CASE target[c] = Index
    BY <1>1, <2>1, <2>5, NextFileCases DEF GoTo, TypeOK, InPut
  <2> QED BY <2>2, <2>3, <2>4, <2>5
<1>8. CASE RenameMisses(c) \/ Refused(c)
  BY <1>1, <1>8 DEF RenameMisses, Refused, GiveUp, GoTo, TypeOK, InPut
<1>9. CASE EvictCheck(c) \/ EvictBody(c) \/ EvictMeta(c) \/ TimePasses(c)
  BY <1>1, <1>9 DEF EvictCheck, EvictBody, EvictMeta, TimePasses, GoTo, TypeOK, InPut
<1>10. CASE EvictEnd(c)
  BY <1>1, <1>10 DEF EvictEnd, SaveIndex, GoTo, TypeOK, InPut
<1> QED BY <1>3, <1>4, <1>5, <1>6, <1>7, <1>8, <1>9, <1>10 DEF Step

\* The files of a key, and the index file, after a rename.
LEMMA AfterRename ==
  ASSUME StoreIInv, CallIsAlone, NEW c \in Caches, Rename(c)
  PROVE  /\ \A k \in Keys :
              /\ disk'[Body(k)] = IF target[c] = Body(key[c]) /\ k = key[c]
                                    THEN put[c] ELSE disk[Body(k)]
              /\ disk'[Meta(k)] = IF target[c] = Meta(key[c]) /\ k = key[c]
                                    THEN put[c] ELSE disk[Meta(k)]
         /\ disk'[Index] = IF target[c] = Index THEN index[c] ELSE disk[Index]
         /\ \/ target[c] = Body(key[c])
            \/ target[c] = Meta(key[c])
            \/ target[c] = Index
         /\ target[c] # Index => InPut(c) /\ put[c] = puts /\ put[c] \in PutNumber
         /\ key[c] \in Keys /\ pc[c] = "rename" /\ NextFile(c)
         /\ UNCHANGED <<key, put, puts, bodySize, interruptions>>
<1>1. /\ pc[c] = "rename" /\ NextFile(c) /\ key[c] \in Keys /\ DOMAIN disk = Names
      /\ UNCHANGED <<key, put, puts, bodySize, interruptions>>
  BY DEF Rename, StoreIInv, TypeOK
<1>2. /\ disk' = [disk EXCEPT ![target[c]] = Written(c)]
      /\ target[c] \in Names
  BY <1>1, AloneRename, TargetFacts DEF Writing
<1>3. /\ \/ target[c] = Body(key[c])
         \/ target[c] = Meta(key[c])
         \/ target[c] = Index
      /\ target[c] # Index => put[c] \in PutNumber
  BY <1>1, TargetFacts DEF Writing
<1>4. target[c] # Index => InPut(c) /\ put[c] = puts
  BY <1>1 DEF InPut, CallIsAlone
<1>5. disk'[Index] = IF target[c] = Index THEN index[c] ELSE disk[Index]
  BY <1>1, <1>2, NamesDiffer DEF Written
<1>6. ASSUME NEW k \in Keys
      PROVE  /\ disk'[Body(k)] = IF target[c] = Body(key[c]) /\ k = key[c]
                                   THEN put[c] ELSE disk[Body(k)]
             /\ disk'[Meta(k)] = IF target[c] = Meta(key[c]) /\ k = key[c]
                                   THEN put[c] ELSE disk[Meta(k)]
  <2> DEFINE l == key[c]
  <2>1. /\ Body(k) \in Names /\ Meta(k) \in Names
        /\ Body(k) # Index /\ Meta(k) # Index
        /\ Body(l) # Index /\ Meta(l) # Index
        /\ Body(k) # Meta(l) /\ Body(l) # Meta(k) /\ Body(l) # Meta(l)
        /\ (Body(k) = Body(l)) => (k = l)
        /\ (Meta(k) = Meta(l)) => (k = l)
    <3> HIDE DEF l
    <3> QED BY NamesDiffer
  <2> QED BY <1>1, <1>2, <1>3, <2>1 DEF Written
<1> QED BY <1>1, <1>3, <1>4, <1>5, <1>6

\* No operation is refused in this step.
Removes == interruptions' = interruptions

\* The files of a key, and the index file, after a removal.
LEMMA AfterEviction ==
  ASSUME StoreIInv, NEW c \in Caches, EvictBody(c) \/ EvictMeta(c)
  PROVE  /\ \A k \in Keys :
              /\ disk'[Body(k)] = IF EvictBody(c) /\ k = Oldest(index[c]) /\ Removes
                                    THEN None ELSE disk[Body(k)]
              /\ disk'[Meta(k)] = IF EvictMeta(c) /\ k = Oldest(index[c]) /\ Removes
                                    THEN None ELSE disk[Meta(k)]
         /\ disk'[Index] = disk[Index]
         /\ UNCHANGED <<key, put, puts, bodySize, target, after>>
<1> DEFINE l == Oldest(index[c])
<1>1. /\ EvictBody(c) => disk' = IF Removes THEN [disk EXCEPT ![Body(l)] = None] ELSE disk
      /\ EvictMeta(c) => disk' = IF Removes THEN [disk EXCEPT ![Meta(l)] = None] ELSE disk
      /\ DOMAIN disk = Names
      /\ ~ (EvictBody(c) /\ EvictMeta(c))
      /\ UNCHANGED <<key, put, puts, bodySize, target, after>>
  BY EvictedKey DEF EvictBody, EvictMeta, StoreIInv, TypeOK, Removes
<1> HIDE DEF l
<1>2. ASSUME NEW k \in Keys
      PROVE  /\ disk'[Body(k)] = IF EvictBody(c) /\ k = l /\ Removes
                                   THEN None ELSE disk[Body(k)]
             /\ disk'[Meta(k)] = IF EvictMeta(c) /\ k = l /\ Removes
                                   THEN None ELSE disk[Meta(k)]
  <2>1. /\ Body(k) \in Names /\ Meta(k) \in Names
        /\ Body(k) # Meta(l) /\ Body(l) # Meta(k)
        /\ (Body(k) = Body(l)) => (k = l)
        /\ (Meta(k) = Meta(l)) => (k = l)
    BY NamesDiffer
  <2> QED BY <1>1, <2>1
<1>3. disk'[Index] = disk[Index]
  <2>1. Body(l) # Index /\ Meta(l) # Index /\ Index \in Names
    BY NamesDiffer
  <2> QED BY <1>1, <2>1
<1> QED BY <1>1, <1>2, <1>3 DEF l

LEMMA FilesStep ==
  ASSUME StoreIInv, AloneInv, NEW c, Caches = {c}, Step(c)
  PROVE  FilesAreWhole' /\ ServedIsSound'
<1> c \in Caches
  OBVIOUS
<1>1. /\ TypeOK /\ CallIsAlone /\ FilesAreWhole /\ ServedIsSound
      /\ puts \in Nat
  BY DEF StoreIInv, TypeOK, AloneInv
<1>2. puts' = puts \/ puts' = puts + 1
  BY PutsFrame DEF Put
<1> DEFINE Good(k) ==
      /\ disk[Body(k)] # None => disk[Body(k)] \in PutNumber /\ disk[Body(k)] <= puts
      /\ disk[Meta(k)] # None => disk[Meta(k)] \in PutNumber /\ disk[Meta(k)] <= puts
      /\ disk[Meta(k)] # None /\ disk[Body(k)] # None => disk[Body(k)] >= disk[Meta(k)]
<1>3. ASSUME NEW k \in Keys PROVE Good(k)
  BY <1>1, KeyFiles DEF ServedIsSound, Served
<1>4. disk[Index] # Torn
  BY <1>1, NamesDiffer DEF FilesAreWhole
<1>5. None \notin PutNumber /\ Torn \notin PutNumber /\ Torn \notin IndexType
      /\ None # Torn
  BY ContentAssumption
<1>6. disk'[Index] # Torn /\ \A k \in Keys : Good(k)'
  <2>1. CASE Rename(c)
    <3>1. index[c] # Torn
      BY <1>1, <1>5 DEF TypeOK
    <3>2. ASSUME NEW k \in Keys PROVE Good(k)'
      <4>1. InPut(c) /\ target[c] = Meta(key[c]) => disk[Body(key[c])] = put[c]
        BY <1>1 DEF CallIsAlone
      <4>2. /\ Body(key[c]) # Meta(key[c])
            /\ Meta(key[c]) # Index /\ Body(key[c]) # Index
        BY NamesDiffer
      <4>3. Good(k)
        BY <1>3
      <4> QED BY <1>1, <1>5, <2>1, <4>1, <4>2, <4>3, AfterRename DEF PutNumber
    <3>3. disk'[Index] # Torn
      BY <1>1, <1>4, <2>1, <3>1, AfterRename
    <3> HIDE DEF Good
    <3> QED BY <3>2, <3>3
  <2>2. CASE EvictBody(c) \/ EvictMeta(c)
    BY <1>3, <1>4, <2>2, AfterEviction
  <2>3. CASE ~ Rename(c) /\ ~ EvictBody(c) /\ ~ EvictMeta(c)
    <3>1. disk' = disk
      BY <1>1, <2>3, AloneFrame
    <3>2. ASSUME NEW k \in Keys PROVE Good(k)'
      BY <1>1, <1>2, <1>3, <3>1 DEF PutNumber, Body, Meta
    <3> QED BY <1>4, <3>1, <3>2 DEF Index
  <2> QED BY <2>1, <2>2, <2>3
<1>7. ASSUME NEW n \in Names PROVE disk'[n] # Torn
  <2>1. CASE n = Index
    BY <1>6, <2>1
  <2>2. CASE n # Index
    <3>1. PICK k \in Keys : n = Body(k) \/ n = Meta(k)
      BY <2>2 DEF Names
    <3> QED BY <1>5, <1>6, <3>1
  <2> QED BY <2>1, <2>2
<1>8. FilesAreWhole'
  BY <1>6, <1>7 DEF FilesAreWhole, Body, Meta
<1>9. ServedIsSound'
  <2> SUFFICES ASSUME NEW k \in Keys, Served(k)'
               PROVE  disk'[Body(k)] # Torn /\ disk'[Body(k)] >= disk'[Meta(k)]
    BY DEF ServedIsSound, Body, Meta
  <2>1. Body(k) \in Names
    BY NamesDiffer
  <2>2. disk'[Meta(k)] # None /\ disk'[Body(k)] # None
    BY DEF Served, Whole, Body, Meta
  <2> QED BY <1>6, <1>7, <2>1, <2>2
<1> QED BY <1>8, <1>9

LEMMA EntriesStep ==
  ASSUME StoreIInv, AloneInv, NEW c, Caches = {c}, Step(c)
  PROVE  EntriesHaveStarted'
<1> c \in Caches
  OBVIOUS
<1>1. /\ TypeOK /\ CallIsAlone /\ FilesAreWhole /\ EntriesHaveStarted
      /\ puts \in Nat /\ index[c] \in IndexType /\ HasSum(index[c])
  BY DEF StoreIInv, TypeOK, AloneInv, TotalsAreSums, TotalIsSum, HasSum
<1>2. puts' = puts \/ puts' = puts + 1
  BY PutsFrame DEF Put
<1> DEFINE Started(ix) == \A k \in Keys : ix.entries[k].storedAt <= puts
<1>3. Started(index[c]) /\ (Whole(disk[Index]) => Started(disk[Index]))
  BY <1>1 DEF EntriesHaveStarted
<1>4. ASSUME NEW ix \in IndexType, Started(ix)
      PROVE  \A k \in Keys : ix.entries[k].storedAt <= puts'
  BY <1>1, <1>2, <1>4 DEF IndexType, Entry
<1>5. \A k \in Keys : index'[c].entries[k].storedAt <= puts'
  <2>1. CASE New(c)
    <3>1. index'[c] = IF IndexLoads THEN disk[Index] ELSE ScannedIndex
      BY <1>1, <2>1 DEF New, TypeOK
    <3>2. Started(ScannedIndex)
      BY <1>1, KeyFiles DEF ScannedIndex, Scanned, NoEntry
    <3>3. ScannedIndex \in IndexType /\ (IndexLoads => disk[Index] \in IndexType)
      BY <1>1, ScannedIndexSum, NamesDiffer, ContentOfNames DEF TypeOK, IndexLoads, Whole
    <3> HIDE DEF Started
    <3> QED BY <1>3, <1>4, <3>1, <3>2, <3>3 DEF IndexLoads
  <2>2. CASE Quit(c) \/ Crash(c)
    <3>1. index'[c] = EmptyIndex
      BY <1>1, <2>2 DEF Quit, Crash, MemoryIsLost, TypeOK
    <3> QED BY <1>1, <1>2, <3>1 DEF EmptyIndex, NoEntry
  <2>3. CASE EvictMeta(c)
    <3>1. /\ Oldest(index[c]) \in Keys
          /\ index'[c] = RemoveEntry(index[c], Oldest(index[c]))
      BY <2>3, EvictedKey
    <3>2. \A k \in Keys : index'[c].entries[k] =
            IF k = Oldest(index[c]) THEN NoEntry ELSE index[c].entries[k]
      BY <1>1, <3>1, RemoveEntrySum
    <3>3. \A k \in Keys : index[c].entries[k].storedAt <= puts'
      BY <1>1, <1>3, <1>4
    <3> QED BY <1>1, <1>2, <3>2, <3>3 DEF NoEntry
  <2>4. CASE Rename(c) /\ target[c] = Meta(key[c])
    <3>1. /\ put[c] = puts /\ put[c] \in PutNumber /\ puts' = puts
          /\ key[c] \in Keys /\ NextFile(c)
      BY <1>1, <2>4, AfterRename, NamesDiffer
    <3>2. index'[c] =
            AddEntry(index[c], key[c], MetaSize + bodySize[put[c]], put[c])
      BY <1>1, <2>4, <3>1, NextFileCases DEF TypeOK
    <3>3. put[c] \in 0..MaxPuts /\ MetaSize + bodySize[put[c]] \in Nat
      <4>1. bodySize[put[c]] \in Nat
        BY <1>1, <3>1, CacheAssumption DEF TypeOK
      <4> QED BY <1>1, <4>1 DEF TypeOK, MetaSize
    <3>4. \A k \in Keys : index'[c].entries[k] =
            IF k = key[c] THEN [storedAt |-> put[c], size |-> MetaSize + bodySize[put[c]]]
                          ELSE index[c].entries[k]
      BY <1>1, <3>1, <3>2, <3>3, AddEntrySum
    <3> QED BY <1>1, <1>3, <3>1, <3>4
  <2>5. CASE /\ ~ New(c) /\ ~ Quit(c) /\ ~ Crash(c) /\ ~ EvictMeta(c)
             /\ ~ (Rename(c) /\ target[c] = Meta(key[c]))
    <3>1. index' = index
      BY <2>5, IndexFrame
    <3> QED BY <1>1, <1>3, <1>4, <3>1
  <2> QED BY <2>1, <2>2, <2>3, <2>4, <2>5
<1>6. Whole(disk'[Index]) => \A k \in Keys : disk'[Index].entries[k].storedAt <= puts'
  <2>1. disk'[Index] \in {disk[Index], index[c]}
    <3>1. CASE Rename(c)
      BY <1>1, <3>1, AfterRename
    <3>2. CASE EvictBody(c) \/ EvictMeta(c)
      BY <3>2, AfterEviction
    <3>3. CASE ~ Rename(c) /\ ~ EvictBody(c) /\ ~ EvictMeta(c)
      BY <1>1, <3>3, AloneFrame
    <3> QED BY <3>1, <3>2, <3>3
  <2>2. Whole(disk[Index]) => disk[Index] \in IndexType
    BY <1>1, NamesDiffer, ContentOfNames DEF TypeOK, Whole
  <2> HIDE DEF Started
  <2> QED BY <1>1, <1>3, <1>4, <2>1, <2>2
<1> QED BY <1>5, <1>6 DEF EntriesHaveStarted, Index

LEMMA FewerKeys ==
  ASSUME NEW T \in SUBSET Keys, NEW S \in SUBSET T, NEW n \in Nat, Cardinality(T) <= n
  PROVE  Cardinality(S) <= n
<1>1. IsFiniteSet(T)
  BY CacheAssumption, FS_Subset
<1>2. IsFiniteSet(S) /\ Cardinality(S) <= Cardinality(T)
  BY <1>1, FS_Subset
<1>3. Cardinality(S) \in Nat /\ Cardinality(T) \in Nat
  BY <1>1, <1>2, FS_CardinalityType
<1> QED BY <1>2, <1>3

LEMMA OneMoreKey ==
  ASSUME NEW T \in SUBSET Keys, NEW k \in Keys, NEW S \in SUBSET (T \union {k}),
         NEW n \in Nat, Cardinality(T) <= n
  PROVE  Cardinality(S) <= n + 1
<1>1. IsFiniteSet(T)
  BY CacheAssumption, FS_Subset
<1>2. /\ Cardinality(T) \in Nat
      /\ Cardinality(T \union {k}) \in {Cardinality(T), Cardinality(T) + 1}
  BY <1>1, FS_AddElement, FS_CardinalityType
<1>3. T \union {k} \in SUBSET Keys /\ Cardinality(T \union {k}) <= n + 1
  BY <1>2
<1> QED BY <1>3, FewerKeys

LEMMA SizeOfBodyType ==
  ASSUME TypeOK, FilesAreWhole, NEW k \in Keys
  PROVE  SizeOfBody(disk[Body(k)]) \in Nat
<1>1. Whole(disk[Body(k)]) => disk[Body(k)] \in PutNumber
  BY KeyFiles
<1> QED BY <1>1, CacheAssumption DEF SizeOfBody, TypeOK

LEMMA CountsStep ==
  ASSUME StoreIInv, AloneInv, NEW c, Caches = {c}, Step(c)
  PROVE  CountsHold'
<1> c \in Caches
  OBVIOUS
<1>1. /\ TypeOK /\ CallIsAlone /\ FilesAreWhole
      /\ interruptions \in Nat /\ key[c] \in Keys
      /\ index[c] \in IndexType /\ HasSum(index[c])
  BY DEF StoreIInv, TypeOK, AloneInv, TotalsAreSums, TotalIsSum, HasSum
<1> DEFINE memory == (Under(index[c]) \ PutKey(c)) \union Left(c)
           file   == Under(disk[Index]) \ PendingKey(c)
           scan   == (Unseen \ PutKey(c)) \union Left(c)
           MemoryHolds == pc[c] # "down" => Cardinality(memory) <= interruptions
           FileHolds == Whole(disk[Index]) => Cardinality(file) <= interruptions
           ScanHolds == Cardinality(scan) <= interruptions
<1>2. MemoryHolds /\ FileHolds /\ ScanHolds
  BY DEF AloneInv, CountsHold
<1>3. memory \in SUBSET Keys /\ file \in SUBSET Keys /\ scan \in SUBSET Keys
  BY DEF Under, Left, Unseen
<1> SUFFICES MemoryHolds' /\ FileHolds' /\ ScanHolds'
  BY DEF CountsHold
<1>4. \A k : Body(k) # Index /\ Meta(k) # Index /\ Body(k) # Meta(k)
  BY NamesDiffer
<1>5. ASSUME disk' = disk, bodySize' = bodySize, NEW k \in Keys
      PROVE  Scanned(k)' = Scanned(k) /\ Space(k)' = Space(k)
  BY <1>5 DEF Scanned, Space, SizeOfBody, Whole, Body, Meta, MetaSize
<1>6. ASSUME disk' = disk, bodySize' = bodySize, index' = index, interruptions' = interruptions,
             pc[c] # "down", pc'[c] # "unmeta",
             InPut(c) => InPut(c)' /\ key'[c] = key[c],
             SavingPut(c) => SavingPut(c)' /\ key'[c] = key[c]
      PROVE  MemoryHolds' /\ FileHolds' /\ ScanHolds'
  <2>1. memory' \in SUBSET memory /\ scan' \in SUBSET scan
    BY <1>5, <1>6 DEF Under, Unseen, PutKey, Left
  <2>2. file' \in SUBSET file
    BY <1>5, <1>6 DEF Under, PendingKey, Index
  <2>3. Whole(disk[Index])' = Whole(disk[Index])
    BY <1>6 DEF Whole, Index
  <2> HIDE DEF memory, file, scan
  <2> QED BY <1>1, <1>2, <1>3, <1>6, <2>1, <2>2, <2>3, FewerKeys
<1>7. ASSUME disk' = disk, bodySize' = bodySize, pc'[c] # "unmeta",
             interruptions' = interruptions + 1
      PROVE  /\ FileHolds' /\ ScanHolds'
             /\ index' = index /\ pc[c] # "down" => MemoryHolds'
  <2>1. /\ index' = index => memory' \in SUBSET (memory \union {key[c]})
        /\ scan' \in SUBSET (scan \union {key[c]})
    BY <1>5, <1>7 DEF Under, Unseen, PutKey, Left
  <2>2. file' \in SUBSET (file \union {key[c]})
    BY <1>5, <1>7 DEF Under, PendingKey, Index
  <2>3. Whole(disk[Index])' = Whole(disk[Index])
    BY <1>7 DEF Whole, Index
  <2> HIDE DEF memory, file, scan
  <2> QED BY <1>1, <1>2, <1>3, <1>7, <2>1, <2>2, <2>3, OneMoreKey
<1>8. CASE New(c)
  <2>1. /\ disk' = disk /\ bodySize' = bodySize /\ interruptions' = interruptions
        /\ pc[c] = "down" /\ pc'[c] \in {"idle", "open"}
        /\ pc'[c] = "open" => target'[c] = Index
        /\ index'[c] = IF IndexLoads THEN disk[Index] ELSE ScannedIndex
    BY <1>1, <1>8 DEF New, SaveIndex, GoTo, TypeOK, diskVars
  <2>2. IndexLoads => memory' \in SUBSET file
    BY <1>5, <2>1 DEF Under, PutKey, PendingKey, Left, InPut, SavingPut, Writing
  <2>3. IndexLoads => file' \in SUBSET file
    BY <1>5, <2>1 DEF Under, PendingKey, InPut, SavingPut, Writing, Index
  <2>4. scan' \in SUBSET scan /\ (~ IndexLoads => memory' \in SUBSET scan)
    <3>1. PutKey(c) = {} /\ Left(c)' = {}
      BY <2>1 DEF PutKey, InPut, Left
    <3>2. Unseen' = Unseen
      BY <1>5, <2>1 DEF Unseen
    <3>3. ~ IndexLoads => Under(index[c])' = Unseen
      BY <1>5, <2>1 DEF Unseen, Under, ScannedIndex
    <3> QED BY <3>1, <3>2, <3>3
  <2>5. Whole(disk[Index])' = IndexLoads
    BY <2>1 DEF Whole, Index, IndexLoads
  <2> HIDE DEF memory, file, scan
  <2> QED BY <1>1, <1>2, <1>3, <2>1, <2>2, <2>3, <2>4, <2>5, FewerKeys
          DEF IndexLoads
<1>9. CASE Quit(c)
  <2>1. /\ disk' = disk /\ bodySize' = bodySize /\ interruptions' = interruptions
        /\ pc[c] = "idle" /\ pc'[c] = "down"
    BY <1>1, <1>9 DEF Quit, MemoryIsLost, GoTo, TypeOK, diskVars
  <2>2. file' \in SUBSET file
    BY <1>5, <2>1 DEF Under, PendingKey, InPut, SavingPut, Writing, Index
  <2>3. scan' \in SUBSET scan
    BY <1>5, <2>1 DEF Unseen, PutKey, InPut, Left
  <2>4. Whole(disk[Index])' = Whole(disk[Index])
    BY <2>1 DEF Whole, Index
  <2> HIDE DEF memory, file, scan
  <2> QED BY <1>1, <1>2, <1>3, <2>1, <2>2, <2>3, <2>4, FewerKeys
<1>10. CASE Crash(c)
  <2>1. /\ disk' = disk /\ bodySize' = bodySize
        /\ interruptions' = interruptions + 1 /\ pc'[c] = "down"
    BY <1>1, <1>10 DEF Crash, Interrupt, MemoryIsLost, GoTo, TypeOK, diskVars
  <2> HIDE DEF FileHolds, ScanHolds
  <2> QED BY <1>7, <2>1
<1>11. CASE Refused(c)
  <2>1. /\ disk' = disk /\ bodySize' = bodySize /\ index' = index
        /\ interruptions' = interruptions + 1 /\ pc[c] # "down" /\ pc'[c] # "unmeta"
    BY <1>1, <1>11 DEF Refused, Interrupt, GiveUp, GoTo, TypeOK, diskVars, memoryVars
  <2> HIDE DEF FileHolds, MemoryHolds, ScanHolds
  <2> QED BY <1>7, <2>1
<1>12. CASE \/ Put(c) \/ Open(c) \/ Write(c) \/ EvictCheck(c) \/ EvictEnd(c)
            \/ TimePasses(c)
  <2>1. disk' = disk /\ bodySize' = bodySize
    <3>1. CASE Write(c)
      BY <1>1, <3>1, AloneWrite DEF Write
    <3> QED BY <1>12, <3>1 DEF Put, Open, EvictCheck, EvictEnd, TimePasses, diskVars
  <2>2. /\ index' = index /\ interruptions' = interruptions
        /\ pc[c] # "down" /\ pc'[c] # "unmeta"
    BY <1>1, <1>12 DEF Put, Open, Write, EvictCheck, EvictEnd, TimePasses, SaveIndex, GoTo,
                       TypeOK, memoryVars
  <2>3. CASE Open(c) \/ Write(c)
    <3>1. /\ pc[c] \in {"open", "write"} /\ pc'[c] \in {"write", "rename"}
          /\ UNCHANGED <<target, after, key>>
      BY <1>1, <2>3 DEF Open, Write, GoTo, TypeOK
    <3>2. (InPut(c) => InPut(c)') /\ (SavingPut(c) => SavingPut(c)')
      BY <3>1 DEF InPut, SavingPut, Writing, Index
    <3> HIDE DEF FileHolds, MemoryHolds, ScanHolds
    <3> QED BY <1>6, <2>1, <2>2, <3>1, <3>2
  <2>4. CASE Put(c) \/ EvictCheck(c) \/ EvictEnd(c) \/ TimePasses(c)
    <3>1. ~ InPut(c) /\ ~ SavingPut(c)
      BY <2>4 DEF Put, EvictCheck, EvictEnd, TimePasses, InPut, SavingPut, Writing
    <3> HIDE DEF FileHolds, MemoryHolds, ScanHolds
    <3> QED BY <1>6, <2>1, <2>2, <3>1
  <2> QED BY <1>12, <2>3, <2>4
<1>13. CASE EvictBody(c) \/ EvictMeta(c)
  <2>0. PICK l \in Keys : l = Oldest(index[c])
    BY <1>13, EvictedKey
  <2>1. /\ ~ InPut(c) /\ ~ SavingPut(c) /\ pc[c] # "down"
        /\ interruptions' \in {interruptions, interruptions + 1}
        /\ EvictBody(c) => pc[c] = "evict" /\ pc'[c] = "unmeta" /\ index' = index
        /\ EvictMeta(c) => pc[c] = "unmeta" /\ pc'[c] = "evict"
        /\ disk'[Index] = disk[Index]
        /\ bodySize' = bodySize
    BY <1>1, <1>13, EvictedKey, AfterEviction
       DEF EvictBody, EvictMeta, GoTo, TypeOK, memoryVars, InPut, SavingPut, Writing
  <2>2. \A k \in Keys : index'[c].entries[k] =
          IF EvictMeta(c) /\ k = l THEN NoEntry ELSE index[c].entries[k]
    <3>1. CASE EvictMeta(c)
      <4>1. index'[c] = RemoveEntry(index[c], l)
        BY <2>0, <3>1, EvictedKey
      <4> QED BY <1>1, <2>1, <3>1, <4>1, RemoveEntrySum
    <3>2. CASE EvictBody(c) /\ ~ EvictMeta(c)
      BY <2>1, <3>2
    <3> QED BY <1>13, <3>1, <3>2
  <2>3. ASSUME NEW k \in Keys
        PROVE  /\ disk'[Body(k)] =
                    IF EvictBody(c) /\ k = l /\ Removes THEN None ELSE disk[Body(k)]
               /\ disk'[Meta(k)] =
                    IF EvictMeta(c) /\ k = l /\ Removes THEN None ELSE disk[Meta(k)]
    BY <1>13, <2>0, AfterEviction
  <2>4. ASSUME NEW k \in Keys
        PROVE  /\ Space(k) \in Nat /\ Space(k)' \in Nat /\ Space(k)' <= Space(k)
               /\ k # l => Space(k)' = Space(k) /\ Scanned(k)' = Scanned(k)
    <3>1. SizeOfBody(disk[Body(k)]) \in Nat
      BY <1>1, SizeOfBodyType
    <3>2. SizeOfBody(disk[Body(k)])' \in {0, SizeOfBody(disk[Body(k)])}
      BY <2>1, <2>3 DEF SizeOfBody, Whole, Body
    <3>3. k # l => SizeOfBody(disk[Body(k)])' = SizeOfBody(disk[Body(k)])
      BY <2>1, <2>3 DEF SizeOfBody, Whole, Body
    <3> QED BY <2>3, <3>1, <3>2, <3>3 DEF Space, Scanned, Whole, MetaSize, Meta, Body
  <2>5. ASSUME NEW ix \in IndexType, NEW k \in Keys PROVE ix.entries[k].size \in Nat
    BY DEF IndexType, Entry
  <2>6. Whole(disk[Index]) => file' \in SUBSET file
    <3> SUFFICES ASSUME Whole(disk[Index]), NEW k \in Keys,
                        disk'[Index].entries[k].size < Space(k)'
                 PROVE  disk[Index].entries[k].size < Space(k)
      BY <2>1 DEF Under, PendingKey, Index
    <3>1. disk[Index].entries[k].size \in Nat
      <4>1. disk[Index] \in IndexType
        BY <1>1, NamesDiffer, ContentOfNames DEF TypeOK, Whole
      <4> QED BY <2>5, <4>1
    <3> QED BY <2>1, <2>4, <3>1
  \* What is missed of another key than the evicted one was missed before.
  <2>7. ASSUME NEW k \in Keys, k # l
        PROVE  /\ k \in memory' => k \in memory
               /\ k \in scan' => k \in scan
    <3>1. k \in Left(c)' => EvictBody(c)
      BY <1>13, <2>1 DEF Left
    <3>2. k \notin Left(c)'
      BY <2>0, <2>1, <2>7, <3>1 DEF Left, Listed
    <3> QED BY <2>1, <2>2, <2>4, <2>7, <3>2 DEF Under, Unseen, PutKey
  <2>8. ASSUME Removes PROVE (l \in memory' => l \in memory) /\ (l \in scan' => l \in scan)
    <3>1. CASE EvictBody(c)
      <4>1. disk'[Body(l)] = None /\ disk'[Meta(l)] = disk[Meta(l)]
        BY <2>1, <2>3, <2>8, <3>1 DEF EvictBody, EvictMeta
      <4>2. l \notin Left(c)'
        BY <4>1 DEF Left, Body
      <4>3. Space(l)' = Scanned(l)'.size
        BY <4>1 DEF Space, Scanned, SizeOfBody, Whole, NoEntry, MetaSize, Meta, Body
      <4>4. index[c].entries[l].size \in Nat
        BY <1>1, <2>1, <2>5
      <4>5. l \in memory' => index[c].entries[l].size < Space(l)'
        BY <2>1, <3>1, <4>2 DEF Under
      <4>6. l \notin scan'
        BY <2>1, <2>4, <4>2, <4>3 DEF Unseen
      <4> QED BY <2>1, <2>4, <4>4, <4>5, <4>6 DEF Under, PutKey
    <3>2. CASE EvictMeta(c)
      <4>1. disk'[Meta(l)] = None /\ disk'[Body(l)] = disk[Body(l)] /\ pc[c] = "unmeta"
        BY <2>1, <2>3, <2>8, <3>2 DEF EvictBody, EvictMeta
      <4>2. CASE disk[Body(l)] # None
        BY <2>0, <4>1, <4>2 DEF Left
      <4>3. CASE disk[Body(l)] = None
        <5>1. Space(l)' = 0 /\ Scanned(l)'.size = 0 /\ l \notin Left(c)'
          BY <4>1, <4>3 DEF Space, Scanned, SizeOfBody, Whole, NoEntry, Left, Meta, Body
        <5>2. index'[c].entries[l].size = 0
          BY <2>1, <2>2, <3>2 DEF NoEntry
        <5> QED BY <5>1, <5>2 DEF Under, Unseen
      <4> QED BY <4>2, <4>3
    <3> QED BY <1>13, <3>1, <3>2
  <2>9. Whole(disk[Index])' = Whole(disk[Index])
    BY <2>1 DEF Whole, Index
  <2>10. memory' \in SUBSET Keys /\ scan' \in SUBSET Keys
    BY DEF Under, Left, Unseen
  <2> HIDE DEF memory, file, scan
  <2>11. memory' \in SUBSET (memory \union {l}) /\ scan' \in SUBSET (scan \union {l})
    BY <2>7, <2>10
  <2>12. Removes => memory' \in SUBSET memory /\ scan' \in SUBSET scan
    BY <2>7, <2>8, <2>10
  <2>13. CASE Removes
    BY <1>1, <1>2, <1>3, <2>1, <2>6, <2>9, <2>12, <2>13, FewerKeys DEF Removes
  <2>14. CASE ~ Removes
    <3>1. interruptions' = interruptions + 1
      BY <2>1, <2>14 DEF Removes
    <3>2. Whole(disk[Index]) => Cardinality(file') <= interruptions
      BY <1>1, <1>2, <1>3, <2>6, FewerKeys
    <3>3. Whole(disk[Index]) => Cardinality(file') <= interruptions + 1
      <4>1. Whole(disk[Index]) => Cardinality(file') \in Nat
        BY <1>3, <2>6, CacheAssumption, FS_Subset, FS_CardinalityType
      <4> QED BY <1>1, <3>2, <4>1
    <3>4. Cardinality(memory') <= interruptions + 1 /\ Cardinality(scan') <= interruptions + 1
      BY <1>1, <1>2, <1>3, <2>1, <2>11, OneMoreKey
    <3> QED BY <2>9, <3>1, <3>3, <3>4
  <2> QED BY <2>13, <2>14
<1>14. CASE Rename(c)
  <2>1. /\ pc[c] = "rename" /\ UNCHANGED <<key, put, bodySize, interruptions>>
        /\ \/ target[c] = Body(key[c])
           \/ target[c] = Meta(key[c])
           \/ target[c] = Index
        /\ NextFile(c)
    BY <1>1, <1>14, AfterRename
  <2>2. ASSUME NEW k \in Keys, k # key[c] \/ target[c] = Index
        PROVE  Scanned(k)' = Scanned(k) /\ Space(k)' = Space(k)
    <3>1. disk'[Body(k)] = disk[Body(k)] /\ disk'[Meta(k)] = disk[Meta(k)]
      BY <1>1, <1>4, <1>14, <2>2, AfterRename
    <3> QED BY <2>1, <3>1 DEF Scanned, Space, SizeOfBody, Whole, Body, Meta, MetaSize
  <2>3. CASE target[c] = Body(key[c])
    <3>1. target[c] # Index /\ target[c] # Meta(key[c])
      BY <1>4, <2>3
    <3>2. /\ pc'[c] = "open" /\ target'[c] = Meta(key[c]) /\ index' = index
      BY <1>1, <2>1, <2>3, NextFileCases DEF GoTo, TypeOK
    <3>3. InPut(c) /\ InPut(c)' /\ Left(c)' = {}
      BY <1>4, <2>1, <3>1, <3>2 DEF InPut, Index, Left
    <3>4. memory' \in SUBSET memory /\ scan' \in SUBSET scan
      BY <2>1, <2>2, <3>2, <3>3 DEF Under, Unseen, PutKey
    <3>5. disk'[Index] = disk[Index]
      BY <1>1, <1>14, <3>1, AfterRename
    <3>6. file' \in SUBSET file
      BY <2>1, <2>2, <3>3, <3>5 DEF Under, PendingKey, Index
    <3>7. Whole(disk[Index])' = Whole(disk[Index])
      BY <3>5 DEF Whole, Index
    <3> HIDE DEF memory, file, scan
    <3> QED BY <1>1, <1>2, <1>3, <2>1, <3>4, <3>6, <3>7, FewerKeys
  <2>4. CASE target[c] = Meta(key[c])
    <3>1. target[c] # Index /\ target[c] # Body(key[c])
      BY <1>4, <2>4
    <3>2. /\ pc'[c] = "open" /\ target'[c] = Index /\ after'[c] = "check"
      BY <1>1, <2>1, <2>4, NextFileCases DEF SaveIndex, GoTo, TypeOK
    <3>3. /\ InPut(c) /\ SavingPut(c)' /\ Left(c)' = {}
          /\ put[c] \in PutNumber /\ disk[Body(key[c])] = put[c]
      BY <1>1, <2>1, <2>4, <3>1, <3>2, AfterRename, <1>14
         DEF InPut, SavingPut, Writing, Index, CallIsAlone, Left
    <3>4. \A k \in Keys : index'[c].entries[k] =
            IF k = key[c] THEN [storedAt |-> put[c], size |-> MetaSize + bodySize[put[c]]]
                          ELSE index[c].entries[k]
      <4>1. index'[c] =
              AddEntry(index[c], key[c], MetaSize + bodySize[put[c]], put[c])
        BY <1>1, <2>1, <2>4, NextFileCases DEF TypeOK
      <4>2. index[c] \in IndexType /\ key[c] \in Keys
        BY <1>1 DEF TypeOK
      <4> QED BY <4>1, <4>2, EntriesAfterAdd
    <3>5. /\ Scanned(key[c])'.size = MetaSize + bodySize[put[c]]
          /\ Space(key[c])' = MetaSize + bodySize[put[c]]
      <4>1. disk'[Meta(key[c])] = put[c] /\ disk'[Body(key[c])] = put[c]
        BY <1>1, <1>14, <2>4, <3>1, <3>3, AfterRename
      <4>2. Whole(put[c])
        BY <3>3, ContentAssumption DEF Whole
      <4> QED BY <2>1, <4>1, <4>2 DEF Scanned, Space, SizeOfBody, Whole, Body, Meta, MetaSize
    <3>6. memory' \in SUBSET memory /\ scan' \in SUBSET scan
      <4>1. MetaSize + bodySize[put[c]] \in Nat
        <5>1. bodySize[put[c]] \in Nat
          BY <1>1, <3>3, CacheAssumption DEF TypeOK
        <5> QED BY <5>1 DEF MetaSize
      <4>2. key[c] \notin memory' /\ key[c] \notin scan'
        BY <1>1, <2>1, <3>3, <3>4, <3>5, <4>1 DEF Under, Unseen
      <4>3. ASSUME NEW k \in Keys, k # key[c]
            PROVE  (k \in memory' => k \in memory) /\ (k \in scan' => k \in scan)
        BY <2>2, <3>3, <3>4, <4>3 DEF Under, Unseen, PutKey
      <4>4. memory' \in SUBSET Keys /\ scan' \in SUBSET Keys
        BY DEF Under, Left, Unseen
      <4> HIDE DEF memory, scan
      <4> QED BY <4>2, <4>3, <4>4
    <3>7. disk'[Index] = disk[Index]
      BY <1>1, <1>14, <3>1, AfterRename
    <3>8. file' \in SUBSET file
      BY <2>1, <2>2, <3>3, <3>7 DEF Under, PendingKey, Index
    <3>9. Whole(disk[Index])' = Whole(disk[Index])
      BY <3>7 DEF Whole, Index
    <3> HIDE DEF memory, file, scan
    <3> QED BY <1>1, <1>2, <1>3, <2>1, <3>6, <3>8, <3>9, FewerKeys
  <2>5. CASE target[c] = Index
    <3>1. /\ index' = index /\ disk'[Index] = index[c] /\ ~ InPut(c)
          /\ pc'[c] \in {"idle", "check"}
      BY <1>1, <1>14, <2>1, <2>5, NextFileCases, AfterRename DEF InPut, GoTo, TypeOK
    <3>2. /\ memory' \in SUBSET memory /\ scan' \in SUBSET scan
          /\ file' \in SUBSET memory
      BY <2>1, <2>2, <2>5, <3>1 DEF Under, Unseen, PutKey, PendingKey, Left, Index
    <3> HIDE DEF memory, file, scan
    <3> QED BY <1>1, <1>2, <1>3, <2>1, <3>2, FewerKeys
  <2> QED BY <2>1, <2>3, <2>4, <2>5
<1>15. CASE RenameMisses(c)
  BY <1>1, <1>15, AloneRename DEF RenameMisses
<1> QED BY <1>8, <1>9, <1>10, <1>11, <1>12, <1>13, <1>14, <1>15 DEF Step

\* An eviction that a Put has triggered takes other entries than its own, if
\* there is room for that one.
LEMMA OldestIsOther ==
  ASSUME StoreIInv, AloneInv, NEW c \in Caches, Placed(c), Fits(c), MustEvict(c)
  PROVE  Oldest(index[c]) # key[c]
<1>1. /\ index[c] \in IndexType /\ index[c].total = SumFunction(Sizes(index[c]))
      /\ key[c] \in Keys
  BY DEF StoreIInv, TypeOK, TotalsAreSums, TotalIsSum
<1>2. /\ put[c] \in PutNumber
      /\ \A k \in Keys \ {key[c]} : index[c].entries[k].storedAt < put[c]
      /\ index[c].entries[key[c]] =
           [storedAt |-> put[c], size |-> MetaSize + bodySize[put[c]]]
  BY DEF AloneInv, PutIsPlaced
<1> SUFFICES ASSUME Oldest(index[c]) = key[c] PROVE FALSE
  OBVIOUS
<1>3. ASSUME NEW k \in Keys, k # key[c] PROVE Sizes(index[c])[k] = 0
  <2>1. index[c].entries[k].storedAt \in Nat /\ put[c] \in Nat
    BY <1>1, <1>2 DEF IndexType, Entry, PutNumber
  <2>2. index[c].entries[k].storedAt < put[c]
    BY <1>2, <1>3
  <2>3. k \in Listed(index[c]) => put[c] <= index[c].entries[k].storedAt
    BY <1>1, <1>2, OldestIsListed
  <2>4. k \notin Listed(index[c])
    BY <2>1, <2>2, <2>3
  <2> QED BY <2>4 DEF Listed, Sizes, NoEntry
<1>4. SumFunction(Sizes(index[c])) = Sizes(index[c])[key[c]]
  BY <1>1, <1>3, SizesType, CacheAssumption, SumOfSingle
<1>5. index[c].total = MetaSize + bodySize[put[c]]
  BY <1>1, <1>2, <1>4, SizesType
<1>6. index[c].total \in Int /\ LowWatermark \in Int
  BY <1>1, CacheAssumption DEF IndexType, LowWatermark
<1> QED BY <1>5, <1>6 DEF Fits, MustEvict

LEMMA PlacedStep ==
  ASSUME StoreIInv, AloneInv, NEW c, Caches = {c}, Step(c)
  PROVE  PutIsPlaced'
<1> c \in Caches
  OBVIOUS
<1>1. /\ TypeOK /\ CallIsAlone /\ puts \in Nat /\ key[c] \in Keys
      /\ index[c] \in IndexType /\ HasSum(index[c])
      /\ \A k \in Keys : index[c].entries[k].storedAt <= puts
  BY DEF StoreIInv, TypeOK, AloneInv, TotalsAreSums, TotalIsSum, HasSum, EntriesHaveStarted
<1> DEFINE Youngest == InPut(c) \/ Placed(c) =>
             /\ put[c] \in PutNumber
             /\ \A k \in Keys \ {key[c]} : index[c].entries[k].storedAt < put[c]
           Files == Placed(c) /\ Fits(c) =>
             /\ disk[Meta(key[c])] = put[c]
             /\ disk[Body(key[c])] = put[c]
             /\ index[c].entries[key[c]] =
                  [storedAt |-> put[c], size |-> MetaSize + bodySize[put[c]]]
<1>2. Youngest /\ Files
  BY DEF AloneInv, PutIsPlaced
<1> SUFFICES Youngest' /\ Files'
  BY DEF PutIsPlaced
<1>3. \A k : Body(k) # Index /\ Meta(k) # Index /\ Body(k) # Meta(k)
  BY NamesDiffer
<1>4. ASSUME InPut(c)' \/ Placed(c)' => InPut(c) \/ Placed(c),
             Placed(c)' => Placed(c),
             disk' = disk, index' = index,
             UNCHANGED <<key, put, bodySize>>
      PROVE  Youngest' /\ Files'
  <2>1. Youngest'
    BY <1>2, <1>4
  <2>2. Files'
    BY <1>2, <1>4 DEF Fits, Meta, Body, MetaSize, LowWatermark
  <2> QED BY <2>1, <2>2
<1>5. ASSUME ~ InPut(c)', ~ Placed(c)' PROVE Youngest' /\ Files'
  BY <1>5
<1>6. CASE New(c) \/ Quit(c) \/ Crash(c) \/ EvictEnd(c)
  <2>1. /\ pc'[c] \in {"down", "idle", "open"}
        /\ pc'[c] = "open" => target'[c] = Index /\ after'[c] = "idle"
    BY <1>1, <1>6 DEF New, Quit, Crash, MemoryIsLost, EvictEnd, SaveIndex, GoTo, TypeOK
  <2>2. ~ InPut(c)' /\ ~ Placed(c)'
    BY <2>1 DEF InPut, Placed, SavingPut, Writing, Index
  <2> HIDE DEF Youngest, Files
  <2> QED BY <1>5, <2>2
<1>7. CASE Put(c)
  <2>1. /\ pc'[c] = "open" /\ target'[c] = Body(key'[c])
        /\ put'[c] = puts + 1 /\ puts < MaxPuts /\ index' = index
    BY <1>1, <1>7 DEF Put, GoTo, TypeOK, memoryVars
  <2>2. ~ Placed(c)'
    <3>1. target'[c] # Index
      BY <1>3, <2>1
    <3> QED BY <2>1, <3>1 DEF Placed, SavingPut, Index
  <2>3. put'[c] \in PutNumber
    BY <1>1, <2>1, CacheAssumption DEF PutNumber
  <2>4. \A k \in Keys : index[c].entries[k].storedAt \in Nat
    BY <1>1 DEF IndexType, Entry
  <2> QED BY <1>1, <2>1, <2>2, <2>3, <2>4
<1>8. CASE Open(c) \/ Write(c) \/ EvictCheck(c) \/ TimePasses(c) \/ Refused(c)
  <2>1. /\ disk' = disk /\ index' = index /\ UNCHANGED <<key, put, bodySize>>
        /\ UNCHANGED target
        /\ UNCHANGED after
    <3>1. CASE Write(c)
      BY <1>1, <3>1, AloneWrite DEF Write, memoryVars
    <3> QED BY <1>8, <3>1 DEF Open, EvictCheck, TimePasses, Refused, GiveUp, diskVars,
                              memoryVars
  <2>2. (InPut(c)' => InPut(c)) /\ (Placed(c)' => Placed(c))
    <3>1. CASE Open(c) \/ Write(c)
      <4>1. pc[c] \in {"open", "write"} /\ pc'[c] \in {"write", "rename"}
        BY <1>1, <3>1 DEF Open, Write, GoTo, TypeOK
      <4> QED BY <2>1, <4>1 DEF InPut, Placed, SavingPut, Writing, Index
    <3>2. CASE EvictCheck(c) \/ TimePasses(c)
      <4>1. /\ pc[c] = "check" \/ pc'[c] = "idle"
            /\ pc'[c] \in {"idle", "evict"}
        BY <1>1, <3>2 DEF EvictCheck, TimePasses, GoTo, TypeOK
      <4> QED BY <4>1 DEF InPut, Placed, SavingPut, Writing
    <3>3. CASE Refused(c)
      <4>1. /\ pc[c] \in {"open", "write", "rename"}
            /\ pc'[c] = IF target[c] = Index THEN after[c] ELSE "idle"
            /\ after[c] \in {"idle", "check"}
        BY <1>1, <3>3 DEF Refused, GiveUp, GoTo, TypeOK
      <4> QED BY <4>1 DEF InPut, Placed, SavingPut, Writing
    <3> QED BY <1>8, <3>1, <3>2, <3>3
  <2> HIDE DEF Youngest, Files
  <2> QED BY <1>4, <2>1, <2>2
<1>9. CASE Rename(c)
  <2>1. /\ pc[c] = "rename" /\ UNCHANGED <<key, put, bodySize>>
        /\ \/ target[c] = Body(key[c])
           \/ target[c] = Meta(key[c])
           \/ target[c] = Index
        /\ NextFile(c)
    BY <1>1, <1>9, AfterRename
  <2>2. CASE target[c] = Body(key[c])
    <3>1. /\ pc'[c] = "open" /\ target'[c] = Meta(key[c]) /\ index' = index
      BY <1>1, <2>1, <2>2, NextFileCases DEF GoTo, TypeOK
    <3>2. target[c] # Index /\ target'[c] # Index
      BY <1>3, <2>2, <3>1
    <3>3. InPut(c) /\ ~ Placed(c)'
      BY <2>1, <3>1, <3>2 DEF InPut, Placed, SavingPut, Index
    <3> QED BY <1>2, <2>1, <3>1, <3>3
  <2>3. CASE target[c] = Meta(key[c])
    <3>1. target[c] # Index
      BY <1>3, <2>3
    <3>2. InPut(c) /\ put[c] \in PutNumber /\ disk[Body(key[c])] = put[c]
      BY <1>1, <1>9, <2>3, <3>1, AfterRename DEF CallIsAlone
    <3>3. \A k \in Keys : index'[c].entries[k] =
            IF k = key[c] THEN [storedAt |-> put[c], size |-> MetaSize + bodySize[put[c]]]
                          ELSE index[c].entries[k]
      <4>1. index'[c] =
              AddEntry(index[c], key[c], MetaSize + bodySize[put[c]], put[c])
        BY <1>1, <2>1, <2>3, NextFileCases DEF TypeOK
      <4>2. index[c] \in IndexType /\ key[c] \in Keys
        BY <1>1 DEF TypeOK
      <4> QED BY <4>1, <4>2, EntriesAfterAdd
    <3>4. disk'[Meta(key[c])] = put[c] /\ disk'[Body(key[c])] = put[c]
      <4>1. target[c] # Body(key[c])
        BY <1>3, <2>3
      <4> QED BY <1>1, <1>9, <2>3, <3>2, <4>1, AfterRename
    <3>5. Youngest'
      BY <1>2, <2>1, <3>2, <3>3
    <3>6. Files'
      BY <1>1, <2>1, <3>3, <3>4 DEF Meta, Body, MetaSize
    <3> QED BY <3>5, <3>6
  <2>4. CASE target[c] = Index
    <3>1. /\ pc'[c] = after[c] /\ UNCHANGED <<index, target, after>>
          /\ after[c] \in {"idle", "check"}
      BY <1>1, <2>1, <2>4, NextFileCases DEF GoTo, TypeOK
    <3>2. ~ InPut(c)' /\ (Placed(c)' => Placed(c))
      BY <2>1, <2>4, <3>1 DEF InPut, Placed, SavingPut, Writing, Index
    <3>3. /\ disk'[Meta(key[c])] = disk[Meta(key[c])]
          /\ disk'[Body(key[c])] = disk[Body(key[c])]
      <4>1. target[c] # Body(key[c]) /\ target[c] # Meta(key[c])
        BY <1>3, <2>4
      <4> QED BY <1>1, <1>9, <4>1, AfterRename
    <3>4. Youngest'
      BY <1>2, <2>1, <3>1, <3>2
    <3>5. Files'
      BY <1>2, <2>1, <3>1, <3>2, <3>3 DEF Fits, Meta, Body, MetaSize, LowWatermark
    <3> QED BY <3>4, <3>5
  <2> QED BY <2>1, <2>2, <2>3, <2>4
<1>10. CASE RenameMisses(c)
  BY <1>1, <1>10, AloneRename DEF RenameMisses
<1>11. CASE EvictBody(c) \/ EvictMeta(c)
  <2>1. /\ pc[c] \in {"evict", "unmeta"} /\ MustEvict(c)
        /\ UNCHANGED <<key, put, bodySize>>
        /\ Oldest(index[c]) \in Keys
    BY <1>11, EvictedKey, AfterEviction DEF EvictBody, EvictMeta
  <2>2. Placed(c)
    BY <2>1 DEF Placed
  <2>3. ~ InPut(c)' /\ pc'[c] \in {"evict", "unmeta"}
    BY <1>1, <1>11 DEF EvictBody, EvictMeta, GoTo, TypeOK, InPut
  <2>4. \A k \in Keys : index'[c].entries[k] =
          IF EvictMeta(c) /\ k = Oldest(index[c]) THEN NoEntry ELSE index[c].entries[k]
    <3>1. CASE EvictMeta(c)
      <4>1. index'[c] = RemoveEntry(index[c], Oldest(index[c]))
        BY <3>1, EvictedKey
      <4> QED BY <1>1, <2>1, <3>1, <4>1, RemoveEntrySum
    <3>2. CASE EvictBody(c) /\ ~ EvictMeta(c)
      BY <3>2 DEF EvictBody, memoryVars
    <3> QED BY <1>11, <3>1, <3>2
  <2>5. Youngest'
    <3>1. put[c] \in PutNumber /\ 0 < put[c]
      BY <1>2, <2>2 DEF PutNumber
    <3> QED BY <1>2, <2>1, <2>2, <2>4, <3>1 DEF NoEntry
  <2>6. Files'
    <3>1. Fits(c)' = Fits(c)
      BY <2>1 DEF Fits, MetaSize, LowWatermark
    <3> SUFFICES ASSUME Fits(c)
                 PROVE  /\ disk'[Meta(key[c])] = put[c]
                        /\ disk'[Body(key[c])] = put[c]
                        /\ index'[c].entries[key[c]] =
                             [storedAt |-> put[c], size |-> MetaSize + bodySize[put[c]]]
      BY <2>1, <3>1 DEF Meta, Body, MetaSize
    <3>2. Oldest(index[c]) # key[c]
      BY <2>1, <2>2, OldestIsOther
    <3> QED BY <1>1, <1>2, <1>11, <2>2, <2>4, <3>2, AfterEviction
  <2> QED BY <2>5, <2>6
<1> QED BY <1>6, <1>7, <1>8, <1>9, <1>10, <1>11 DEF Step

-----------------------------------------------------------------------------
(* What holds of one object alone.                                         *)

LEMMA AloneInit ==
  ASSUME Init
  PROVE  AloneInv
<1>1. CallIsAlone /\ PutIsPlaced
  BY DEF Init, CallIsAlone, PutIsPlaced, InPut, Placed, SavingPut, Writing
<1>2. FilesAreWhole /\ ServedIsSound
  BY NamesDiffer, ContentAssumption DEF Init, FilesAreWhole, ServedIsSound, Served, Whole
<1>3. CountsHold
  <2>1. ASSUME NEW c \in Caches PROVE pc[c] = "down" /\ Left(c) = {}
    BY DEF Init, Left
  <2>2. ASSUME NEW k \in Keys PROVE Scanned(k).size = 0 /\ Space(k) = 0
    BY NamesDiffer DEF Init, Scanned, Space, SizeOfBody, Whole, NoEntry
  <2>3. Unseen = {}
    BY <2>2 DEF Unseen
  <2>4. Cardinality({}) = 0 /\ interruptions = 0 /\ ~ Whole(disk[Index])
    BY NamesDiffer, FS_EmptySet DEF Init, Whole
  <2>5. ASSUME NEW c \in Caches
        PROVE  Cardinality((Unseen \ PutKey(c)) \union Left(c)) <= interruptions
    <3>1. (Unseen \ PutKey(c)) \union Left(c) = {}
      BY <2>1, <2>3
    <3> QED BY <2>4, <3>1
  <2> QED BY <2>1, <2>4, <2>5 DEF CountsHold
<1>4. EntriesHaveStarted
  BY NamesDiffer DEF Init, EntriesHaveStarted, EmptyIndex, NoEntry, Whole
<1> QED BY <1>1, <1>2, <1>3, <1>4 DEF AloneInv

LEMMA AloneStutter ==
  ASSUME AloneInv, UNCHANGED vars
  PROVE  AloneInv'
<1> USE DEF vars, diskVars, memoryVars
<1>1. CallIsAlone' /\ FilesAreWhole' /\ ServedIsSound'
  BY DEF AloneInv, CallIsAlone, Written, InPut, FilesAreWhole, ServedIsSound, Served,
         Whole, Meta, Body
<1>2. CountsHold'
  <2>1. ASSUME NEW k \in Keys PROVE Scanned(k)' = Scanned(k) /\ Space(k)' = Space(k)
    BY DEF Scanned, Space, SizeOfBody, Whole, MetaSize, Meta, Body
  <2>2. ASSUME NEW c \in Caches
        PROVE  /\ Under(index[c])' = Under(index[c]) /\ Under(disk[Index])' = Under(disk[Index])
               /\ Unseen' = Unseen
               /\ UNCHANGED <<PutKey(c), PendingKey(c), Left(c)>>
    BY <2>1 DEF Under, Unseen, PutKey, PendingKey, Left, InPut, SavingPut, Writing, Index
  <2> QED BY <2>2 DEF AloneInv, CountsHold, Whole, Index
<1>3. EntriesHaveStarted'
  BY DEF AloneInv, EntriesHaveStarted, Whole
<1>4. PutIsPlaced'
  BY DEF AloneInv, PutIsPlaced, InPut, Placed, SavingPut, Writing, Fits
<1> QED BY <1>1, <1>2, <1>3, <1>4 DEF AloneInv

\* The invariant is preserved by every step of the one object.
THEOREM AloneInvariant ==
  ASSUME NEW c, Caches = {c}
  PROVE  Spec => [](StoreIInv /\ AloneInv)
<1>1. Init => AloneInv
  BY AloneInit
<1>2. StoreIInv /\ AloneInv /\ [Next]_vars => AloneInv'
  <2>1. ASSUME StoreIInv, AloneInv, Next PROVE AloneInv'
    <3>1. Step(c)
      BY <2>1 DEF Next
    <3> QED BY <2>1, <3>1, CallIsAloneStep, FilesStep, CountsStep, EntriesStep, PlacedStep
            DEF AloneInv
  <2> QED BY <2>1, AloneStutter
<1> QED BY <1>1, <1>2, StoreInvariant, PTL DEF Spec

\* Whatever crashes and errors come between, no meta is served with a body that
\* is older or cut short.
THEOREM ServedPairsAreSound ==
  ASSUME NEW c, Caches = {c}
  PROVE  Spec => []ServedIsSound
<1>1. AloneInv => ServedIsSound
  BY DEF AloneInv
<1> QED BY <1>1, AloneInvariant, PTL

\* The index misses the space of no more keys than there were crashes and refused
\* operations, removals of evictions included.
THEOREM UndercountsAreInterruptions ==
  ASSUME NEW c, Caches = {c}
  PROVE  Spec => []UndercountBounded
<1>1. StoreIInv /\ AloneInv => UndercountBounded
  <2> SUFFICES ASSUME StoreIInv, AloneInv, NEW d \in Caches, pc[d] # "down"
               PROVE  Cardinality(Under(index[d]))
                        <= interruptions + (IF InPut(d) THEN 1 ELSE 0)
    BY DEF UndercountBounded, Under
  <2> DEFINE missed == (Under(index[d]) \ PutKey(d)) \union Left(d)
  <2>1. /\ Cardinality(missed) <= interruptions
        /\ interruptions \in Nat /\ key[d] \in Keys
    BY DEF AloneInv, CountsHold, StoreIInv, TypeOK
  <2>2. missed \in SUBSET Keys
    BY DEF Under, Left
  <2>3. CASE InPut(d)
    <3>1. Under(index[d]) \in SUBSET (missed \union {key[d]})
      BY DEF PutKey
    <3> HIDE DEF missed
    <3> QED BY <2>1, <2>2, <2>3, <3>1, OneMoreKey
  <2>4. CASE ~ InPut(d)
    <3>1. Under(index[d]) \in SUBSET missed
      BY <2>4 DEF PutKey
    <3> HIDE DEF missed
    <3> QED BY <2>1, <2>2, <2>4, <3>1, FewerKeys
  <2> QED BY <2>3, <2>4
<1> QED BY <1>1, AloneInvariant, PTL

\* A Put that runs to its end, and fits, is served: the eviction it triggers
\* takes its entry last.
THEOREM PutsAreServed ==
  ASSUME NEW o, Caches = {o}
  PROVE  Spec => PutIsServed
<1>1. AloneInv /\ [Next]_vars => [\A c \in Caches : EndsServed(c)]_vars
  BY DEF AloneInv, PutIsPlaced, Placed, Fits, EndsServed
<1>2. Spec => [](StoreIInv /\ AloneInv)
  BY AloneInvariant
<1> QED BY <1>1, <1>2, PTL DEF Spec, PutIsServed
=============================================================================
