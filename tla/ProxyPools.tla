----------------------------- MODULE ProxyPools -----------------------------
(***************************************************************************)
(* The pools of proxy clients: getProxyClient and Close of                 *)
(* internal/fetch/honest.go, getProxySession, fetchWithProxy and Close of  *)
(* internal/fetch/azuretls.go.  A pool is a map of at most maxProxySessions*)
(* entries and a list of their keys, oldest first; both functions run      *)
(* under proxyMu, so each is one step.                                     *)
(*                                                                         *)
(* The pools differ.  The honest one keys by proxy and guard, falls back   *)
(* to a client without a proxy when the URL does not parse, and eviction   *)
(* leaves connections in use alone.  The azure one keys by proxy, returns  *)
(* nil when SetProxy fails, and closes the session it evicts, in use or    *)
(* not.  Both evict before they know whether the new entry can be made.    *)
(***************************************************************************)
EXTENDS Naturals, Sequences, FiniteSets

CONSTANTS
  Users,             \* requests with a proxy of their own, at the same time
  Proxies,           \* values of Request.Proxy
  BadProxies,        \* those url.Parse or SetProxy refuses
  MaxProxySessions,  \* maxProxySessions
  MaxCreated         \* bound: entries made and refused in a behaviour

ASSUME ProxyAssumption ==
  /\ BadProxies \subseteq Proxies
  /\ MaxProxySessions \in Nat \ {0}
  /\ MaxCreated \in Nat

VARIABLES
  honest,    \* the pool holds http.Clients, not sessions
  sessions,  \* proxyClients or proxySessions: key to entry
  order,     \* proxyOrder
  closed,    \* entries Close has been called on
  created,   \* entries made so far; the n-th has identity n
  reset,     \* entries made before the last Close
  fails,     \* entries that could not be made, for the bound
  uses       \* what each request uses: its entry, or what it got instead

proxyVars == <<honest, sessions, order, closed, created, reset, fails, uses>>

\* Mutant: one key for both guards.
KeyOfProxy(proxy, allowPrivate) == <<proxy, FALSE>>

\* The key of the honest pool has "?allow-private" appended for a request that
\* may go to private addresses; the azure pool ignores the guard.
KeyOf(proxy, allowPrivate) == <<proxy, honest /\ allowPrivate>>

PoolKeys == Proxies \X BOOLEAN

\* What a request goes out with: an entry of the pool, the client without a
\* proxy, or a nil session, on which Do panics.  guarded: connections and
\* redirects are checked by the SSRF guard.
Handed(id, guarded) == [id |-> id, guarded |-> guarded]
NoProxy == 0
Panic == MaxCreated + 1
NoUse == [id |-> Panic + 1, guarded |-> TRUE, allowPrivate |-> FALSE]
InUse(u) == uses[u] # NoUse

PoolTypeOK ==
  /\ honest \in BOOLEAN
  /\ DOMAIN sessions \subseteq PoolKeys
  /\ \A k \in DOMAIN sessions : sessions[k] \in [id : 1..MaxCreated, guarded : BOOLEAN]
  /\ order \in Seq(PoolKeys)
  /\ closed \subseteq 1..MaxCreated
  /\ created \in 0..MaxCreated
  /\ reset \in 0..created
  /\ fails \in 0..MaxCreated
  /\ uses \in [Users -> [id : 0..Panic + 1, guarded : BOOLEAN, allowPrivate : BOOLEAN]]

PoolInit ==
  /\ honest \in BOOLEAN
  /\ sessions = << >>
  /\ order = << >>
  /\ closed = {}
  /\ created = 0
  /\ reset = 0
  /\ fails = 0
  /\ uses = [u \in Users |-> NoUse]

-----------------------------------------------------------------------------
\* At the limit the oldest key leaves the list and the map; its session is
\* closed, of an http.Client only the idle connections.
Full == Cardinality(DOMAIN sessions) >= MaxProxySessions
OrderLeft == IF Full THEN Tail(order) ELSE order
SessionsLeft ==
  IF Full THEN [k \in DOMAIN sessions \ {Head(order)} |-> sessions[k]] ELSE sessions
\* Mutant: closes the youngest.
EvictedYoungest ==
  IF Full /\ ~honest THEN {sessions[order[Len(order)]].id} ELSE {}

Evicted ==
  IF Full /\ ~honest /\ Head(order) \in DOMAIN sessions
  THEN {sessions[Head(order)].id} ELSE {}

Use(u, allowPrivate, entry) ==
  uses' = [uses EXCEPT ![u] =
    [id |-> entry.id, guarded |-> entry.guarded, allowPrivate |-> allowPrivate]]

\* The pool has the entry.
GetFromPool(u, proxy, allowPrivate) ==
  LET key == KeyOf(proxy, allowPrivate) IN
  /\ ~InUse(u)
  /\ key \in DOMAIN sessions
  /\ Use(u, allowPrivate, sessions[key])
  /\ UNCHANGED <<honest, sessions, order, closed, created, reset, fails>>

\* A new entry: evict if need be, make it, append its key.
GetNew(u, proxy, allowPrivate) ==
  LET key == KeyOf(proxy, allowPrivate)
      entry == Handed(created + 1, honest /\ ~allowPrivate) IN
  /\ ~InUse(u)
  /\ key \notin DOMAIN sessions
  /\ proxy \notin BadProxies
  /\ created < MaxCreated
  /\ sessions' = [k \in DOMAIN SessionsLeft \union {key} |->
       IF k = key THEN entry ELSE SessionsLeft[k]]
  /\ order' = Append(OrderLeft, key)
  /\ closed' = closed \union Evicted
  /\ created' = created + 1
  /\ Use(u, allowPrivate, entry)
  /\ UNCHANGED <<honest, reset, fails>>

\* The entry cannot be made: the eviction has happened all the same.
GetRefused(u, proxy, allowPrivate) ==
  /\ ~InUse(u)
  /\ KeyOf(proxy, allowPrivate) \notin DOMAIN sessions
  /\ proxy \in BadProxies
  /\ fails < MaxCreated
  /\ sessions' = SessionsLeft
  /\ order' = OrderLeft
  /\ closed' = closed \union Evicted
  /\ fails' = fails + 1
  /\ Use(u, allowPrivate,
         IF honest THEN Handed(NoProxy, ~allowPrivate) ELSE Handed(Panic, FALSE))
  /\ UNCHANGED <<honest, created, reset>>

\* The request is over.
Finish(u) ==
  /\ InUse(u)
  /\ uses' = [uses EXCEPT ![u] = NoUse]
  /\ UNCHANGED <<honest, sessions, order, closed, created, reset, fails>>

\* Mutant: forgets the list.
CloseKeepingOrder ==
  /\ closed' = closed \union (IF honest THEN {} ELSE {sessions[k].id : k \in DOMAIN sessions})
  /\ sessions' = << >>
  /\ reset' = created
  /\ UNCHANGED <<honest, order, created, fails, uses>>

\* Close of the client; its owner may go on using it, and closing it again.
Close ==
  /\ closed' = closed \union (IF honest THEN {} ELSE {sessions[k].id : k \in DOMAIN sessions})
  /\ sessions' = << >>
  /\ order' = << >>
  /\ reset' = created
  /\ UNCHANGED <<honest, created, fails, uses>>

PoolNext ==
  \/ \E u \in Users, proxy \in Proxies, allowPrivate \in BOOLEAN :
       \/ GetFromPool(u, proxy, allowPrivate)
       \/ GetNew(u, proxy, allowPrivate)
       \/ GetRefused(u, proxy, allowPrivate)
  \/ \E u \in Users : Finish(u)
  \/ Close

PoolSpec == PoolInit /\ [][PoolNext]_proxyVars

-----------------------------------------------------------------------------
\* The map and the list agree whatever is evicted, refused and closed, so an
\* eviction never indexes an empty list nor misses its entry, and what the
\* pool holds is exactly the youngest entries, in order.
PoolHoldsYoungest ==
  /\ Len(order) = Cardinality(DOMAIN sessions)
  /\ Len(order) <= MaxProxySessions
  /\ \A i \in DOMAIN order :
       /\ order[i] \in DOMAIN sessions
       /\ sessions[order[i]].id = created - Len(order) + i

\* A session is closed under the requests that use it only by Close, or when
\* maxProxySessions - 1 sessions at least were made after it.
ClosedWhenOld ==
  \A id \in closed : id > reset => created - id >= MaxProxySessions - 1

\* Whatever entry or fallback an honest request is given, its guard is the one
\* the request asked for: a client made for private addresses is never reused
\* for a request that may not go there.
GuardFollowsRequest ==
  \A u \in Users : honest /\ InUse(u) => uses[u].guarded = ~uses[u].allowPrivate
=============================================================================
