----------------------------- MODULE CacheStore -----------------------------
(***************************************************************************)
(* The response cache of internal/cache: Cache objects (cache.go), each    *)
(* with its own copy of the index (index.go), over one directory.  Every   *)
(* process opens the same directory, and a process opens it again for each *)
(* request that brings no cache of its own (pipeline.go:172).              *)
(*                                                                         *)
(* Files are written as os.WriteFile and os.Rename do it: truncate or      *)
(* create the temporary name, write, rename over the final name.  The      *)
(* temporary name is fixed, so two writers may hold the same file; a       *)
(* writer follows its open file when another one renames or replaces it.   *)
(* Cache.mu makes a Put exclusive within an object and only there; between *)
(* two file operations other objects act, and the process may die.         *)
(*                                                                         *)
(* Abstractions: a body, and the Meta stored with it, are the number of    *)
(* the Put that wrote them, which is also its StoredAt; a Meta takes one   *)
(* unit of space; a directory scan is one step; expiry is not modelled (it *)
(* only turns hits into misses).                                           *)
(***************************************************************************)
EXTENDS Integers, FiniteSets, FiniteSetsExt

CONSTANTS
  Caches,           \* the Cache objects
  Keys,             \* hashes of what is cached
  BodySizes,        \* possible sizes of a body
  MaxSize,          \* Cache.maxSize
  MaxPuts,          \* bound: Puts started in a behaviour
  MaxInterruptions, \* bound: crashes and failed file operations
  None,             \* no such file
  Torn              \* a file that is not what any one writer wrote

ASSUME CacheAssumption ==
  /\ IsFiniteSet(Keys)
  /\ BodySizes \subseteq Nat
  /\ MaxSize \in Nat
  /\ MaxPuts \in Nat
  /\ MaxInterruptions \in Nat

VARIABLES
  disk,          \* content of each final name
  tmp,           \* content of each name with .tmp appended
  index,         \* indexManager.index, without UpdatedAt
  dirty,         \* indexManager.dirty
  evictDue,      \* lastEviction is at least evictionDebounce ago
  saveDue,       \* lastSave is more than a minute ago
  pc,            \* where each object is
  target,        \* the file it writes
  fd,            \* where its open file is to be found now
  key,           \* key and number of its current Put
  put,
  after,         \* where it goes when the index is saved
  bodySize,      \* bodySize[n]: the size of the body of Put n
  puts,          \* Puts started so far
  interruptions  \* crashes and failed file operations so far

diskVars   == <<disk, tmp>>
memoryVars == <<index, dirty, evictDue, saveDue>>
vars == <<diskVars, memoryVars, pc, target, fd, key, put, after,
          bodySize, puts, interruptions>>

Body(k) == <<"body", k>>
Meta(k) == <<"meta", k>>
Index   == <<"index">>
Names   == {Body(k) : k \in Keys} \union {Meta(k) : k \in Keys} \union {Index}

PutNumber == 1..MaxPuts
MetaSize  == 1
Entry     == [storedAt : 0..MaxPuts, size : Nat]
NoEntry   == [storedAt |-> 0, size |-> 0]
IndexType == [entries : [Keys -> Entry], total : Nat]

EmptyIndex == [entries |-> [k \in Keys |-> NoEntry], total |-> 0]

\* None and Torn are the content of no file that a writer has written.
ASSUME ContentAssumption ==
  None # Torn /\ {None, Torn} \intersect (PutNumber \union IndexType) = {}

Content(n) == {None, Torn} \union (IF n = Index THEN IndexType ELSE PutNumber)
Whole(c)   == c \notin {None, Torn}

TypeOK ==
  /\ DOMAIN disk = Names /\ \A n \in Names : disk[n] \in Content(n)
  /\ DOMAIN tmp = Names /\ \A n \in Names : tmp[n] \in Content(n)
  /\ index \in [Caches -> IndexType]
  /\ dirty \in [Caches -> BOOLEAN]
  /\ evictDue \in [Caches -> BOOLEAN]
  /\ saveDue \in [Caches -> BOOLEAN]
  /\ pc \in [Caches -> {"down", "idle", "open", "write", "rename",
                        "check", "evict", "unmeta"}]
  /\ target \in [Caches -> Names]
  /\ fd \in [Caches -> {"tmp", "final", "gone"}]
  /\ key \in [Caches -> Keys]
  /\ put \in [Caches -> 0..MaxPuts]
  /\ after \in [Caches -> {"idle", "check"}]
  /\ bodySize \in [PutNumber -> BodySizes]
  /\ puts \in 0..MaxPuts
  /\ interruptions \in 0..MaxInterruptions

Init ==
  /\ disk = [n \in Names |-> None]
  /\ tmp = [n \in Names |-> None]
  /\ index = [c \in Caches |-> EmptyIndex]
  /\ dirty = [c \in Caches |-> FALSE]
  /\ evictDue = [c \in Caches |-> TRUE]
  /\ saveDue = [c \in Caches |-> TRUE]
  /\ pc = [c \in Caches |-> "down"]
  /\ target = [c \in Caches |-> Index]
  /\ fd = [c \in Caches |-> "tmp"]
  /\ key \in [Caches -> Keys]
  /\ put = [c \in Caches |-> 0]
  /\ after = [c \in Caches |-> "idle"]
  /\ bodySize \in [PutNumber -> BodySizes]
  /\ puts = 0
  /\ interruptions = 0

-----------------------------------------------------------------------------
(* The index.                                                              *)

Listed(ix) == {k \in Keys : ix.entries[k] # NoEntry}

\* Mutant: the prior size of a listed key is not subtracted.
AddEntryTwice(ix, k, size, storedAt) ==
  [entries |-> [ix.entries EXCEPT ![k] = [storedAt |-> storedAt, size |-> size]],
   total   |-> ix.total + size]

AddEntry(ix, k, size, storedAt) ==
  [entries |-> [ix.entries EXCEPT ![k] = [storedAt |-> storedAt, size |-> size]],
   total   |-> ix.total - ix.entries[k].size + size]

\* Mutant: the caller has subtracted the size already.
RemoveEntryTwice(ix, k) ==
  [entries |-> [ix.entries EXCEPT ![k] = NoEntry],
   total   |-> ix.total - 2 * ix.entries[k].size]

RemoveEntry(ix, k) ==
  [entries |-> [ix.entries EXCEPT ![k] = NoEntry],
   total   |-> ix.total - ix.entries[k].size]

SizeOfBody(c) == IF Whole(c) THEN bodySize[c] ELSE 0

\* What a scan of the directory makes of the files of k: a key whose meta
\* cannot be read is passed over, one whose body is missing is not.
Scanned(k) ==
  IF Whole(disk[Meta(k)])
    THEN [storedAt |-> disk[Meta(k)],
          size     |-> MetaSize + SizeOfBody(disk[Body(k)])]
    ELSE NoEntry

ScannedIndex ==
  [entries |-> [k \in Keys |-> Scanned(k)],
   total   |-> SumFunction([k \in Keys |-> Scanned(k).size])]
-----------------------------------------------------------------------------
(* New, and the end of a process.                                          *)

GoTo(c, place) == pc' = [pc EXCEPT ![c] = place]

\* Mutant: a Put leaves the index dirty for a later save.
SaveIndexLater(c, place) ==
  IF place = "check"
    THEN GoTo(c, place) /\ UNCHANGED <<target, after>>
    ELSE /\ GoTo(c, "open")
         /\ target' = [target EXCEPT ![c] = Index]
         /\ after' = [after EXCEPT ![c] = place]

\* Save the index, then go to place.
SaveIndex(c, place) ==
  /\ GoTo(c, "open")
  /\ target' = [target EXCEPT ![c] = Index]
  /\ after' = [after EXCEPT ![c] = place]

\* load: there is an index file and it can be parsed.
IndexLoads == Whole(disk[Index])

\* New: an index that can be read is trusted, else it is rebuilt and saved.
New(c) ==
  /\ pc[c] = "down"
  /\ IF IndexLoads
       THEN /\ index' = [index EXCEPT ![c] = disk[Index]]
            /\ dirty' = [dirty EXCEPT ![c] = FALSE]
            /\ GoTo(c, "idle")
            /\ UNCHANGED <<target, after>>
       ELSE /\ index' = [index EXCEPT ![c] = ScannedIndex]
            /\ dirty' = [dirty EXCEPT ![c] = TRUE]
            /\ SaveIndex(c, "idle")
  /\ evictDue' = [evictDue EXCEPT ![c] = TRUE]
  /\ saveDue' = [saveDue EXCEPT ![c] = TRUE]
  /\ UNCHANGED <<diskVars, fd, key, put, bodySize, puts, interruptions>>

\* What an object that goes away takes with it.
MemoryIsLost(c) ==
  /\ GoTo(c, "down")
  /\ index' = [index EXCEPT ![c] = EmptyIndex]
  /\ put' = [put EXCEPT ![c] = 0]
  /\ fd' = [fd EXCEPT ![c] = "tmp"]
  /\ UNCHANGED <<diskVars, dirty, evictDue, saveDue, target, key, after,
                 bodySize, puts>>

\* The object is dropped between two calls: nothing is flushed.
Quit(c) ==
  /\ pc[c] = "idle"
  /\ MemoryIsLost(c)
  /\ UNCHANGED interruptions

Interrupt ==
  /\ interruptions < MaxInterruptions
  /\ interruptions' = interruptions + 1

\* The process dies within a call.
Crash(c) ==
  /\ pc[c] \notin {"down", "idle"}
  /\ Interrupt
  /\ MemoryIsLost(c)
-----------------------------------------------------------------------------
(* Writing a file: os.WriteFile to the temporary name, os.Rename.          *)

Put(c) ==
  /\ pc[c] = "idle"
  /\ puts < MaxPuts
  /\ puts' = puts + 1
  /\ put' = [put EXCEPT ![c] = puts + 1]
  /\ \E k \in Keys : /\ key' = [key EXCEPT ![c] = k]
                     /\ target' = [target EXCEPT ![c] = Body(k)]
  /\ GoTo(c, "open")
  /\ UNCHANGED <<diskVars, memoryVars, fd, after, bodySize, interruptions>>

\* What c writes to its target.
Written(c) == IF target[c] = Index THEN index[c] ELSE put[c]

Open(c) ==
  /\ pc[c] = "open"
  /\ tmp' = [tmp EXCEPT ![target[c]] = Torn]
  /\ fd' = [fd EXCEPT ![c] = "tmp"]
  /\ GoTo(c, "write")
  /\ UNCHANGED <<disk, memoryVars, target, key, put, after, bodySize, puts,
                 interruptions>>

\* Over what another writer has left in the same file meanwhile, a shorter
\* content leaves a mixture.
Outcome(c, old) == IF Whole(old) THEN {Written(c), Torn} ELSE {Written(c)}

Write(c) ==
  /\ pc[c] = "write"
  /\ LET n == target[c] IN
       \/ /\ fd[c] = "tmp"
          /\ \E new \in Outcome(c, tmp[n]) : tmp' = [tmp EXCEPT ![n] = new]
          /\ UNCHANGED disk
       \/ /\ fd[c] = "final"
          /\ \E new \in Outcome(c, disk[n]) : disk' = [disk EXCEPT ![n] = new]
          /\ UNCHANGED tmp
       \/ fd[c] = "gone" /\ UNCHANGED diskVars
  /\ fd' = [fd EXCEPT ![c] = "tmp"]
  /\ GoTo(c, "rename")
  /\ UNCHANGED <<memoryVars, target, key, put, after, bodySize, puts,
                 interruptions>>

\* The other writers that have file n open at the given place.
HasOpen(d, n, place) == pc[d] = "write" /\ target[d] = n /\ fd[d] = place

\* After a rename to n an open temporary file is the final one, and the final
\* one that it replaces has no name.
FollowRename(n) ==
  fd' = [d \in Caches |-> IF HasOpen(d, n, "tmp") THEN "final"
                          ELSE IF HasOpen(d, n, "final") THEN "gone" ELSE fd[d]]

\* What Put does once its target is in place.
NextFile(c) ==
  CASE target[c] = Body(key[c]) ->
         /\ target' = [target EXCEPT ![c] = Meta(key[c])]
         /\ GoTo(c, "open")
         /\ UNCHANGED <<index, dirty, after>>
    [] target[c] = Meta(key[c]) ->
         /\ index' = [index EXCEPT ![c] =
                        AddEntry(@, key[c], MetaSize + bodySize[put[c]], put[c])]
         /\ dirty' = [dirty EXCEPT ![c] = TRUE]
         /\ SaveIndex(c, "check")
    [] target[c] = Index ->
         /\ dirty' = [dirty EXCEPT ![c] = FALSE]
         /\ GoTo(c, after[c])
         /\ UNCHANGED <<index, target, after>>

\* Mutant: the temporary file is copied, not renamed.
RenameCopies(c) ==
  /\ pc[c] = "rename"
  /\ tmp[target[c]] # None
  /\ disk' = [disk EXCEPT ![target[c]] = tmp[target[c]]]
  /\ fd' = fd
  /\ NextFile(c)
  /\ UNCHANGED <<tmp, evictDue, saveDue, key, put, bodySize, puts, interruptions>>

Rename(c) ==
  /\ pc[c] = "rename"
  /\ tmp[target[c]] # None
  /\ disk' = [disk EXCEPT ![target[c]] = tmp[target[c]]]
  /\ tmp' = [tmp EXCEPT ![target[c]] = None]
  /\ FollowRename(target[c])
  /\ NextFile(c)
  /\ UNCHANGED <<evictDue, saveDue, key, put, bodySize, puts, interruptions>>

\* Mutant: Put ignores the errors of the body and the meta too.
GiveUpNever(c) ==
  /\ NextFile(c)
  /\ fd' = [fd EXCEPT ![c] = "tmp"]
  /\ UNCHANGED <<evictDue, saveDue, key, put, bodySize, puts>>

\* An error ends the Put, except that of saving the index, which is ignored.
GiveUp(c) ==
  /\ GoTo(c, IF target[c] = Index THEN after[c] ELSE "idle")
  /\ fd' = [fd EXCEPT ![c] = "tmp"]
  /\ UNCHANGED <<memoryVars, target, key, put, after, bodySize, puts>>

\* Another writer has renamed the temporary file away.
RenameMisses(c) ==
  /\ pc[c] = "rename"
  /\ tmp[target[c]] = None
  /\ GiveUp(c)
  /\ UNCHANGED <<diskVars, interruptions>>

\* The file system refuses to open, write or rename (no space, no permission); a
\* refused write leaves the temporary file behind, truncated.  RemoveFile has
\* the removals.
Refused(c) ==
  /\ pc[c] \in {"open", "write", "rename"}
  /\ Interrupt
  /\ GiveUp(c)
  /\ UNCHANGED diskVars
-----------------------------------------------------------------------------
(* evictIfOverSize.                                                        *)

LowWatermark == (MaxSize * 8) \div 10

EvictCheck(c) ==
  /\ pc[c] = "check"
  /\ GoTo(c, IF evictDue[c] /\ index[c].total > MaxSize THEN "evict" ELSE "idle")
  /\ UNCHANGED <<diskVars, memoryVars, target, fd, key, put, after, bodySize,
                 puts, interruptions>>

\* Mutant: the list is sorted the other way round.
Newest(ix) ==
  CHOOSE k \in Listed(ix) :
    \A l \in Listed(ix) : ix.entries[k].storedAt >= ix.entries[l].storedAt

\* The entry at the head of the list sorted by StoredAt.
Oldest(ix) ==
  CHOOSE k \in Listed(ix) :
    \A l \in Listed(ix) : ix.entries[k].storedAt <= ix.entries[l].storedAt

\* os.Remove of a final name: a writer keeps the file it has open.  Nobody asks
\* whether the file system has refused it.
RemoveFile(n) ==
  /\ UNCHANGED tmp
  /\ \/ /\ disk' = [disk EXCEPT ![n] = None]
        /\ fd' = [d \in Caches |-> IF HasOpen(d, n, "final") THEN "gone" ELSE fd[d]]
        /\ UNCHANGED interruptions
     \/ Interrupt /\ UNCHANGED <<disk, fd>>

MustEvict(c) == index[c].total > LowWatermark /\ Listed(index[c]) # {}

EvictBody(c) ==
  /\ pc[c] = "evict"
  /\ MustEvict(c)
  /\ RemoveFile(Body(Oldest(index[c])))
  /\ GoTo(c, "unmeta")
  /\ UNCHANGED <<memoryVars, target, key, put, after, bodySize, puts>>

\* The entry goes, whatever has become of its files.
EvictMeta(c) ==
  /\ pc[c] = "unmeta"
  /\ LET k == Oldest(index[c]) IN
       /\ RemoveFile(Meta(k))
       /\ index' = [index EXCEPT ![c] = RemoveEntry(@, k)]
  /\ dirty' = [dirty EXCEPT ![c] = TRUE]
  /\ GoTo(c, "evict")
  /\ UNCHANGED <<evictDue, saveDue, target, key, put, after, bodySize, puts>>

\* The index is saved again only if that has not happened here for a minute.
EvictEnd(c) ==
  /\ pc[c] = "evict"
  /\ ~MustEvict(c)
  /\ evictDue' = [evictDue EXCEPT ![c] = FALSE]
  /\ IF dirty[c] /\ saveDue[c]
       THEN /\ SaveIndex(c, "idle")
            /\ saveDue' = [saveDue EXCEPT ![c] = FALSE]
       ELSE GoTo(c, "idle") /\ UNCHANGED <<saveDue, target, after>>
  /\ UNCHANGED <<diskVars, index, dirty, fd, key, put, bodySize, puts,
                 interruptions>>

\* Thirty seconds after the last eviction, a minute after the last save.
TimePasses(c) ==
  /\ pc[c] = "idle"
  /\ \/ evictDue' = [evictDue EXCEPT ![c] = TRUE] /\ UNCHANGED saveDue
     \/ saveDue' = [saveDue EXCEPT ![c] = TRUE] /\ UNCHANGED evictDue
  /\ UNCHANGED <<diskVars, index, dirty, pc, target, fd, key, put, after,
                 bodySize, puts, interruptions>>
-----------------------------------------------------------------------------
Step(c) ==
  \/ New(c) \/ Quit(c) \/ Crash(c)
  \/ Put(c) \/ Open(c) \/ Write(c) \/ Rename(c) \/ RenameMisses(c) \/ Refused(c)
  \/ EvictCheck(c) \/ EvictBody(c) \/ EvictMeta(c) \/ EvictEnd(c)
  \/ TimePasses(c)

Next == \E c \in Caches : Step(c)

Spec == Init /\ [][Next]_vars
-----------------------------------------------------------------------------
(* Properties.                                                             *)

\* Get hits when the meta can be read and there is a body.
Served(k) == Whole(disk[Meta(k)]) /\ disk[Body(k)] # None

\* With one object on the directory a hit never pairs the meta of a Put with
\* the body of an earlier one, nor with a body cut short, whatever crashes and
\* refused operations came between (Put renames the body first).
ServedIsSound ==
  \A k \in Keys :
    Served(k) => /\ disk[Body(k)] # Torn
                 /\ disk[Body(k)] >= disk[Meta(k)]

Sizes(ix) == [k \in Keys |-> ix.entries[k].size]

\* The index of an object, and every index on disk that can be read, has for
\* its total the sizes of its entries: addEntry on a key that is listed,
\* removeEntry, rebuild and a reload never count an entry twice.
TotalIsSum ==
  /\ \A c \in Caches : index[c].total = SumFunction(Sizes(index[c]))
  /\ Whole(disk[Index]) => disk[Index].total = SumFunction(Sizes(disk[Index]))

InPut(c) == pc[c] \in {"open", "write", "rename"} /\ target[c] # Index

\* The space the files of k take, whether a scan sees them or not.
Space(k) ==
  (IF Whole(disk[Meta(k)]) THEN MetaSize ELSE 0) + SizeOfBody(disk[Body(k)])

\* With one object on the directory, a key takes more space than its index
\* entry says only where a Put was cut short or the file system refused an
\* operation, a removal of an eviction included, one key for each time: Puts,
\* evictions, skipped saves and reloads that go well never lose sight of a file.
UndercountBounded ==
  \A c \in Caches :
    pc[c] # "down" =>
      Cardinality({k \in Keys : index[c].entries[k].size < Space(k)})
        <= interruptions + (IF InPut(c) THEN 1 ELSE 0)

\* A Put that ends in this step, and is no larger than the eviction leaves room
\* for, is served.
EndsServed(c) ==
  /\ pc[c] \in {"check", "evict"} /\ pc'[c] \notin {"evict", "unmeta", "down"}
  /\ MetaSize + bodySize[put[c]] <= LowWatermark
  => disk[Meta(key[c])] = put[c] /\ disk[Body(key[c])] = put[c]

\* With one object on the directory, a Put that runs to its end is served,
\* unless it is larger than the eviction leaves room for: the eviction it
\* triggers takes older entries first, also those whose files are gone.
PutIsServed == [][\A c \in Caches : EndsServed(c)]_vars

\* When no object is in a call, no temporary file is left (TestCacheAtomicWrite
\* looks for one), however the Puts of several objects have raced.
NoTmpLeft ==
  (\A c \in Caches : pc[c] \in {"down", "idle"}) /\ interruptions = 0
    => \A n \in Names : tmp[n] = None

DiskSize == SumFunction([k \in Keys |-> Scanned(k).size])

\* When a Put finds, outside the debounce interval, that the cache is within
\* its limit, or has just evicted, the files are within the limit ("Maximum
\* cache size in MB", README.md:213).
LimitIsKept ==
  [][\A c \in Caches :
          /\ \A d \in Caches \ {c} : pc[d] \in {"down", "idle"}
          /\ \/ pc[c] = "check" /\ evictDue[c] /\ pc'[c] = "idle"
             \/ pc[c] = "evict" /\ pc'[c] # "unmeta"
       => DiskSize <= MaxSize]_vars
=============================================================================
