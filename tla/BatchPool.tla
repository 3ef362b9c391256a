----------------------------- MODULE BatchPool ------------------------------
(***************************************************************************)
(* Batches of internal/batch/pool.go: RunBatch starts one goroutine per    *)
(* item, which takes a slot of the batch, then a slot of its host, runs    *)
(* the pipeline and stores its result.  Batches share one AdaptivePool, as *)
(* the handler of fetch_batch does; their semaphores are their own.        *)
(*                                                                         *)
(* A buffered channel used as a semaphore is the number of its tokens: a   *)
(* send waits while it is full, a receive takes a token back.  The outcome *)
(* of pipeline.Run is the environment's; a cancelled context does not      *)
(* decide it (a cache hit succeeds all the same).                          *)
(***************************************************************************)
EXTENDS AdaptivePool, FiniteSets

CONSTANTS
  Batches,     \* calls of RunBatch that may run at the same time
  Items,       \* indexes of the items of a batch
  Hosts,       \* HostOf of their URLs
  Workers,     \* Pool.Workers, 4 if not positive
  PerHost,     \* Pool.PerHost, 2 if not positive
  Adaptive,    \* Pool.Adaptive, with a pool given
  MaxBatches,  \* bound: batches started in a behaviour
  NoHost       \* of a goroutine that has not come to its host, or has ended

ASSUME BatchAssumption ==
  /\ IsFiniteSet(Items)
  /\ Workers \in Nat \ {0}
  /\ PerHost \in Nat \ {0}
  /\ Adaptive \in BOOLEAN
  /\ MaxBatches \in Nat
  /\ NoHost \notin Hosts

VARIABLES
  stats,      \* AdaptivePool.stats, a new one for a host not in the map
  phase,      \* whether the batch runs
  cancelled,  \* its context is done
  host,       \* host of each goroutine's URL
  itemPc,     \* where each goroutine is
  globalSem,  \* tokens in the channel globalSem of the batch
  hostSems,   \* per host: the size of its channel, 0 before it is made,
              \*   and the tokens in it
  results,    \* whether results[i] is still the zero Result, or written
  started     \* batches started so far

callVars == <<phase, cancelled, host, itemPc, globalSem, hostSems, results>>
batchVars == <<stats, callVars, started>>

Place == {"global", "check", "host", "run", "done"}
NoSem == [size |-> 0, tokens |-> 0]

\* The goroutines of b that have put a token into the channel.
HoldsSlot(b) == {i \in Items : itemPc[b][i] \in {"check", "host", "run"}}
Running(b, h) == {i \in Items : itemPc[b][i] = "run" /\ host[b][i] = h}

BatchTypeOK ==
  /\ stats \in [Hosts -> HostStats]
  /\ phase \in [Batches -> {"idle", "running"}]
  /\ cancelled \in [Batches -> BOOLEAN]
  /\ host \in [Batches -> [Items -> Hosts \union {NoHost}]]
  /\ itemPc \in [Batches -> [Items -> Place]]
  /\ globalSem \in [Batches -> 0..Workers]
  /\ hostSems \in [Batches -> [Hosts -> [size : Nat, tokens : Nat]]]
  /\ results \in [Batches -> [Items -> {"zero", "written"}]]
  /\ started \in 0..MaxBatches

\* Before its first call a batch is like one that has returned.
BatchInit ==
  /\ stats = [h \in Hosts |-> NewStats]
  /\ phase = [b \in Batches |-> "idle"]
  /\ cancelled = [b \in Batches |-> FALSE]
  /\ host = [b \in Batches |-> [i \in Items |-> NoHost]]
  /\ itemPc = [b \in Batches |-> [i \in Items |-> "done"]]
  /\ globalSem = [b \in Batches |-> 0]
  /\ hostSems = [b \in Batches |-> [h \in Hosts |-> NoSem]]
  /\ results = [b \in Batches |-> [i \in Items |-> "written"]]
  /\ started = 0

-----------------------------------------------------------------------------
\* RunBatch makes results and channels, all empty, and starts the goroutines.
Start(b) ==
  /\ phase[b] = "idle"
  /\ started < MaxBatches
  /\ started' = started + 1
  /\ phase' = [phase EXCEPT ![b] = "running"]
  /\ cancelled' = [cancelled EXCEPT ![b] = FALSE]
  /\ itemPc' = [itemPc EXCEPT ![b] = [i \in Items |-> "global"]]
  /\ results' = [results EXCEPT ![b] = [i \in Items |-> "zero"]]
  /\ UNCHANGED <<stats, host, globalSem, hostSems>>

Move(b, i, place) == itemPc' = [itemPc EXCEPT ![b][i] = place]

\* globalSem <- struct{}{}
TakeSlot(b, i) ==
  /\ itemPc[b][i] = "global"
  /\ globalSem[b] < Workers
  /\ globalSem' = [globalSem EXCEPT ![b] = @ + 1]
  /\ Move(b, i, "check")
  /\ UNCHANGED <<stats, phase, cancelled, host, hostSems, results, started>>

\* The context is done: the deferred receive gives the slot back, and the
\* result stays as it was made.
Abandon(b, i) ==
  /\ itemPc[b][i] = "check"
  /\ cancelled[b]
  /\ globalSem' = [globalSem EXCEPT ![b] = @ - 1]
  /\ Move(b, i, "done")
  /\ UNCHANGED <<stats, phase, cancelled, host, hostSems, results, started>>

HostConcurrency(h) == IF Adaptive THEN stats[h].concurrency ELSE PerHost

\* The most a channel of a host can have been made for.
HostLimit == IF Adaptive THEN TargetMax ELSE PerHost

\* Else find the channel of the host, or make it, under hostMu.  The size it
\* gets is that of the moment.
FindHostSem(b, i) ==
  /\ itemPc[b][i] = "check"
  /\ ~cancelled[b]
  /\ \E h \in Hosts :
       /\ host' = [host EXCEPT ![b][i] = h]
       /\ hostSems' = IF hostSems[b][h].size = 0
                        THEN [hostSems EXCEPT ![b][h].size = HostConcurrency(h)]
                        ELSE hostSems
  /\ Move(b, i, "host")
  /\ UNCHANGED <<stats, phase, cancelled, globalSem, results, started>>

\* Mutant: the channel takes one token more than its size.
TakeHostSlotOffByOne(b, i) ==
  /\ itemPc[b][i] = "host"
  /\ LET h == host[b][i] IN
       /\ hostSems[b][h].tokens <= hostSems[b][h].size
       /\ hostSems' = [hostSems EXCEPT ![b][h].tokens = @ + 1]
  /\ Move(b, i, "run")
  /\ UNCHANGED <<stats, phase, cancelled, host, globalSem, results, started>>

\* hs <- struct{}{}, the slot of the batch still held.
TakeHostSlot(b, i) ==
  /\ itemPc[b][i] = "host"
  /\ LET h == host[b][i] IN
       /\ hostSems[b][h].tokens < hostSems[b][h].size
       /\ hostSems' = [hostSems EXCEPT ![b][h].tokens = @ + 1]
  /\ Move(b, i, "run")
  /\ UNCHANGED <<stats, phase, cancelled, host, globalSem, results, started>>

\* RecordSuccess or RecordFailure, whoever caused a failure.
Record(h, res) ==
  stats' = IF Adaptive
             THEN [stats EXCEPT ![h] = IF res = "ok" THEN AfterSuccess(@)
                                                     ELSE AfterFailure(@)]
             ELSE stats

\* Mutant: a failure leaves the result as it was made.
StoreResultIfOk(b, i, res) ==
  results' = IF res = "ok" THEN [results EXCEPT ![b][i] = "written"] ELSE results

\* results[i] gets the output or the error.
StoreResult(b, i, res) == results' = [results EXCEPT ![b][i] = "written"]

\* Mutant: the token of the host is not taken back.
ReleaseSlotOnly(b, i) ==
  /\ UNCHANGED hostSems
  /\ globalSem' = [globalSem EXCEPT ![b] = @ - 1]

\* The deferred receives.
Release(b, i) ==
  /\ hostSems' = [hostSems EXCEPT ![b][host[b][i]].tokens = @ - 1]
  /\ globalSem' = [globalSem EXCEPT ![b] = @ - 1]

\* pipeline.Run returns.  One step: until the receives nothing reads what has
\* been stored, and they only let others go on.
FinishItem(b, i) ==
  /\ itemPc[b][i] = "run"
  /\ \E res \in {"ok", "failed"} : Record(host[b][i], res) /\ StoreResult(b, i, res)
  /\ Release(b, i)
  /\ host' = [host EXCEPT ![b][i] = NoHost]
  /\ Move(b, i, "done")
  /\ UNCHANGED <<phase, cancelled, started>>

\* g.Wait returns when every goroutine has; the channels go with the call.
Return(b) ==
  /\ phase[b] = "running"
  /\ \A i \in Items : itemPc[b][i] = "done"
  /\ phase' = [phase EXCEPT ![b] = "idle"]
  /\ hostSems' = [hostSems EXCEPT ![b] = [h \in Hosts |-> NoSem]]
  /\ UNCHANGED <<stats, cancelled, host, itemPc, globalSem, results, started>>

\* The caller's context is done: a timeout of the command line, a client that
\* goes away.
Cancel(b) ==
  /\ phase[b] = "running"
  /\ cancelled' = [cancelled EXCEPT ![b] = TRUE]
  /\ UNCHANGED <<stats, phase, host, itemPc, globalSem, hostSems, results, started>>

\* AdaptivePool.Reset.  Only tests call it, so no record is on its way to the
\* stats that are dropped.
Reset(h) ==
  /\ stats' = [stats EXCEPT ![h] = NewStats]
  /\ UNCHANGED <<callVars, started>>
-----------------------------------------------------------------------------
ItemStep(b, i) ==
  \/ TakeSlot(b, i) \/ Abandon(b, i) \/ FindHostSem(b, i)
  \/ TakeHostSlot(b, i) \/ FinishItem(b, i)

BatchNext ==
  \/ \E b \in Batches : \/ Start(b) \/ Return(b) \/ Cancel(b)
                        \/ \E i \in Items : ItemStep(b, i)
  \/ \E h \in Hosts : Reset(h)

BatchSpec == BatchInit /\ [][BatchNext]_batchVars

\* The scheduler runs every goroutine that can run, and pipeline.Run returns:
\* the client has timeouts.  Nobody is obliged to start or cancel a batch.
BatchFairness ==
  \A b \in Batches : /\ WF_batchVars(Return(b))
                     /\ \A i \in Items : WF_batchVars(ItemStep(b, i))
-----------------------------------------------------------------------------
(* Properties.                                                             *)

\* However the batches interleave with each other and with the feedback, a
\* batch runs at most Workers pipelines at once, and to one host never more
\* than its channel was made for, which was within the bounds of the adaptive
\* pool although it may be out of date (the limits of Pool, pool.go:34).
WithinLimits ==
  \A b \in Batches :
    /\ Cardinality({i \in Items : itemPc[b][i] = "run"}) <= Workers
    /\ \A h \in Hosts :
         Cardinality(Running(b, h)) <= hostSems[b][h].size /\ hostSems[b][h].size <= HostLimit

\* Every token in a channel belongs to a goroutine that will take it back, also
\* when the context is done or the pipeline fails: a batch that has returned
\* leaves none.
TokensAreOwned ==
  \A b \in Batches :
    /\ globalSem[b] = Cardinality(HoldsSlot(b))
    /\ \A h \in Hosts : hostSems[b][h].tokens = Cardinality(Running(b, h))

\* A batch that returns and was not cancelled has an outcome for every item.
OutcomesComplete ==
  \A b \in Batches :
    phase[b] = "idle" /\ ~cancelled[b] => \A i \in Items : results[b][i] # "zero"

\* The target of a host stays within the bounds of the pool.
TargetInBounds == \A h \in Hosts : stats[h].concurrency \in TargetBounds

\* The inductive strengthening of the invariants above: a goroutine knows its
\* host exactly from the time it has found the channel until it ends, channels
\* hold no more than their size, which was within bounds when they were made,
\* and goroutines end without a result only in a cancelled batch.
IInv ==
  /\ BatchTypeOK
  /\ TokensAreOwned
  /\ TargetInBounds
  /\ \A b \in Batches, i \in Items :
       /\ host[b][i] \in Hosts <=> itemPc[b][i] \in {"host", "run"}
       /\ phase[b] = "idle" => itemPc[b][i] = "done"
       /\ itemPc[b][i] = "done" /\ ~cancelled[b] => results[b][i] # "zero"
  /\ \A b \in Batches, h \in Hosts :
       /\ hostSems[b][h].tokens <= hostSems[b][h].size
       /\ hostSems[b][h].size <= HostLimit

\* A batch that returns has an outcome for every item ("Result is the outcome
\* for one URL in a batch", pool.go:25).
EveryItemHasOutcome ==
  \A b \in Batches :
    phase[b] = "idle" => \A i \in Items : results[b][i] # "zero"

\* Every batch returns: goroutines that hold a slot of the batch while they wait
\* for their host, and those that wait for a slot, all get on.
BatchReturns == \A b \in Batches : phase[b] = "running" ~> phase[b] = "idle"
=============================================================================
