-------------------------- MODULE ProxyPoolsProofs --------------------------
(***************************************************************************)
(* What ProxyPools guarantees for all proxies, requests and pool sizes:    *)
(* its map and its list agree, and guards are never mixed up.              *)
(***************************************************************************)
EXTENDS ProxyPools, FiniteSetTheorems, TLAPS

\* A map and a list that hold the same keys, the youngest of n entries.
Agree(map, list, n) ==
  /\ list \in Seq(PoolKeys)
  /\ IsFiniteSet(DOMAIN map)
  /\ Len(list) = Cardinality(DOMAIN map)
  /\ \A i \in DOMAIN list : list[i] \in DOMAIN map
  /\ \A k \in DOMAIN map : \E i \in DOMAIN list : list[i] = k
  /\ \A i, j \in DOMAIN list : list[i] = list[j] => i = j
  /\ \A i \in DOMAIN list : map[list[i]].id = n - Len(list) + i

\* The entries of a map are well typed.
Entries(map) ==
  /\ DOMAIN map \subseteq PoolKeys
  /\ \A k \in DOMAIN map : map[k] \in [id : 1..MaxCreated, guarded : BOOLEAN]

PoolIInv ==
  /\ PoolTypeOK
  /\ Agree(sessions, order, created)
  /\ Len(order) <= MaxProxySessions

\* An entry that leaves: the head of the list.
LEMMA TailAgrees ==
  ASSUME NEW map, NEW list, NEW n \in Nat, Agree(map, list, n), list # << >>
  PROVE  /\ Agree([k \in DOMAIN map \ {Head(list)} |-> map[k]], Tail(list), n)
         /\ Len(Tail(list)) = Len(list) - 1
         /\ Head(list) \in DOMAIN map
<1> DEFINE left == [k \in DOMAIN map \ {Head(list)} |-> map[k]]
<1>1. /\ list \in Seq(PoolKeys) /\ Len(list) \in Nat /\ Len(list) > 0
      /\ DOMAIN list = 1..Len(list) /\ Head(list) = list[1]
  BY DEF Agree
<1>2. /\ Tail(list) \in Seq(PoolKeys)
      /\ Len(Tail(list)) = Len(list) - 1
      /\ DOMAIN Tail(list) = 1..(Len(list) - 1)
      /\ \A i \in 1..(Len(list) - 1) : Tail(list)[i] = list[i+1]
  BY <1>1
<1>3. Head(list) \in DOMAIN map
  BY <1>1 DEF Agree
<1>4. DOMAIN left = DOMAIN map \ {Head(list)}
  OBVIOUS
<1>5. IsFiniteSet(DOMAIN left) /\ Cardinality(DOMAIN left) = Len(list) - 1
  BY <1>3, <1>4, FS_RemoveElement DEF Agree
<1>6. ASSUME NEW i \in DOMAIN Tail(list)
      PROVE  /\ Tail(list)[i] \in DOMAIN left
             /\ left[Tail(list)[i]].id = n - (Len(list) - 1) + i
  <2>1. i + 1 \in DOMAIN list /\ 1 \in DOMAIN list /\ i \in Nat /\ i + 1 # 1
    BY <1>1, <1>2
  <2>2. list[i+1] \in DOMAIN map /\ list[i+1] # list[1]
    BY <2>1 DEF Agree
  <2>3. map[list[i+1]].id = n - Len(list) + (i + 1)
    BY <2>1 DEF Agree
  <2>4. Tail(list)[i] = list[i+1]
    BY <1>2
  <2> QED  BY <1>1, <2>1, <2>2, <2>3, <2>4
<1>7. ASSUME NEW k \in DOMAIN left PROVE \E i \in DOMAIN Tail(list) : Tail(list)[i] = k
  <2>1. PICK i \in DOMAIN list : list[i] = k
    BY <1>4 DEF Agree
  <2>2. i # 1
    BY <1>1, <1>4, <2>1
  <2>3. i - 1 \in DOMAIN Tail(list) /\ Tail(list)[i - 1] = list[i]
    BY <1>1, <1>2, <2>2
  <2> QED  BY <2>1, <2>3
<1>8. ASSUME NEW i \in DOMAIN Tail(list), NEW j \in DOMAIN Tail(list), Tail(list)[i] = Tail(list)[j]
      PROVE  i = j
  <2>1. i + 1 \in DOMAIN list /\ j + 1 \in DOMAIN list /\ list[i+1] = list[j+1]
    BY <1>1, <1>2, <1>8
  <2>2. i + 1 = j + 1
    BY <2>1 DEF Agree
  <2> QED  BY <1>2, <2>2
<1> HIDE DEF left
<1>9. Agree(left, Tail(list), n)
  BY <1>2, <1>5, <1>6, <1>7, <1>8 DEF Agree
<1> QED  BY <1>2, <1>3, <1>9 DEF left

\* A new entry: its key at the end of the list.
LEMMA AppendAgrees ==
  ASSUME NEW map, NEW list, NEW n \in Nat, Agree(map, list, n),
         NEW key \in PoolKeys, key \notin DOMAIN map, NEW entry, entry.id = n + 1
  PROVE  /\ Agree([k \in DOMAIN map \union {key} |-> IF k = key THEN entry ELSE map[k]],
                  Append(list, key), n + 1)
         /\ Len(Append(list, key)) = Len(list) + 1
<1> DEFINE more == [k \in DOMAIN map \union {key} |-> IF k = key THEN entry ELSE map[k]]
           longer == Append(list, key)
<1>1. /\ list \in Seq(PoolKeys) /\ Len(list) \in Nat /\ DOMAIN list = 1..Len(list)
  BY DEF Agree
<1>2. /\ longer \in Seq(PoolKeys)
      /\ Len(longer) = Len(list) + 1
      /\ DOMAIN longer = 1..(Len(list) + 1)
      /\ \A i \in 1..Len(list) : longer[i] = list[i]
      /\ longer[Len(list) + 1] = key
  BY <1>1
<1>3. DOMAIN more = DOMAIN map \union {key}
  OBVIOUS
<1>4. IsFiniteSet(DOMAIN more) /\ Cardinality(DOMAIN more) = Len(list) + 1
  BY <1>3, FS_AddElement DEF Agree
<1>5. ASSUME NEW i \in DOMAIN longer
      PROVE  longer[i] \in DOMAIN more /\ more[longer[i]].id = (n + 1) - (Len(list) + 1) + i
  <2>1. CASE i \in 1..Len(list)
    <3>1. longer[i] = list[i] /\ list[i] \in DOMAIN map /\ map[list[i]].id = n - Len(list) + i
      BY <1>1, <1>2, <2>1 DEF Agree
    <3>2. more[longer[i]] = map[list[i]]
      BY <3>1
    <3> QED  BY <1>1, <1>3, <2>1, <3>1, <3>2
  <2>2. CASE i = Len(list) + 1
    BY <1>1, <1>2, <1>3, <2>2
  <2> QED  BY <1>1, <1>2, <2>1, <2>2
<1>6. ASSUME NEW k \in DOMAIN more PROVE \E i \in DOMAIN longer : longer[i] = k
  <2>1. CASE k = key
    BY <1>1, <1>2, <2>1
  <2>2. CASE k \in DOMAIN map
    <3>1. PICK i \in DOMAIN list : list[i] = k
      BY <2>2 DEF Agree
    <3>2. i \in DOMAIN longer /\ longer[i] = list[i]
      BY <1>1, <1>2
    <3> QED  BY <3>1, <3>2
  <2> QED  BY <1>3, <2>1, <2>2
<1>7. ASSUME NEW i \in DOMAIN longer, NEW j \in DOMAIN longer, longer[i] = longer[j]
      PROVE  i = j
  <2>1. \A m \in 1..Len(list) : longer[m] = list[m] /\ list[m] # key
    BY <1>1, <1>2 DEF Agree
  <2>2. CASE i \in 1..Len(list) /\ j \in 1..Len(list)
    BY <1>1, <1>7, <2>1, <2>2 DEF Agree
  <2>3. CASE i = Len(list) + 1 \/ j = Len(list) + 1
    BY <1>1, <1>2, <1>7, <2>1, <2>3
  <2> QED  BY <1>1, <1>2, <2>2, <2>3
<1> HIDE DEF more, longer
<1>8. Agree(more, longer, n + 1)
  BY <1>2, <1>4, <1>5, <1>6, <1>7 DEF Agree
<1> QED  BY <1>2, <1>8 DEF more, longer

\* What the eviction leaves agrees, and there is room for one more.
LEMMA LeftAgrees ==
  ASSUME PoolIInv
  PROVE  /\ Agree(SessionsLeft, OrderLeft, created)
         /\ Len(OrderLeft) + 1 <= MaxProxySessions
         /\ Entries(SessionsLeft)
         /\ DOMAIN SessionsLeft \subseteq DOMAIN sessions
         /\ \A k \in DOMAIN SessionsLeft : SessionsLeft[k] = sessions[k]
<1>1. /\ created \in Nat /\ MaxProxySessions \in Nat \ {0} /\ Len(order) \in Nat
      /\ Len(order) = Cardinality(DOMAIN sessions)
  BY ProxyAssumption DEF PoolIInv, PoolTypeOK, Agree
<1>2. Entries(sessions)
  BY DEF PoolIInv, PoolTypeOK, Entries
<1>3. CASE Full
  <2>1. order # << >> /\ Len(order) = MaxProxySessions
    BY <1>1, <1>3 DEF Full, PoolIInv
  <2>2. OrderLeft = Tail(order) /\ SessionsLeft = [k \in DOMAIN sessions \ {Head(order)} |-> sessions[k]]
    BY <1>3 DEF OrderLeft, SessionsLeft
  <2>3. Agree(SessionsLeft, OrderLeft, created) /\ Len(OrderLeft) = Len(order) - 1
    BY <1>1, <2>1, <2>2, TailAgrees DEF PoolIInv
  <2> QED  BY <1>1, <1>2, <2>1, <2>2, <2>3 DEF Entries
<1>4. CASE ~Full
  BY <1>1, <1>2, <1>4 DEF Full, OrderLeft, SessionsLeft, PoolIInv
<1> QED  BY <1>3, <1>4

LEMMA EvictedAreMade ==
  ASSUME PoolTypeOK PROVE Evicted \subseteq 1..MaxCreated
BY DEF PoolTypeOK, Evicted

-----------------------------------------------------------------------------
LEMMA InitHolds == PoolInit => PoolIInv
<1> SUFFICES ASSUME PoolInit PROVE PoolIInv  OBVIOUS
<1>1. PoolTypeOK
  BY ProxyAssumption DEF PoolInit, PoolTypeOK, NoUse, Panic
<1>2. DOMAIN sessions = {} /\ order = << >> /\ created = 0
  BY DEF PoolInit
<1>3. Agree(sessions, order, created)
  BY <1>2, FS_EmptySet DEF Agree
<1> QED  BY <1>1, <1>2, <1>3, ProxyAssumption DEF PoolIInv

\* What a request is handed is well typed.
LEMMA UseIsTyped ==
  ASSUME PoolTypeOK, NEW u \in Users, NEW allowPrivate \in BOOLEAN, NEW entry,
         entry.id \in 0..Panic + 1, entry.guarded \in BOOLEAN, Use(u, allowPrivate, entry)
  PROVE  uses' \in [Users -> [id : 0..Panic + 1, guarded : BOOLEAN, allowPrivate : BOOLEAN]]
BY DEF PoolTypeOK, Use

LEMMA GetFromPoolKeeps ==
  ASSUME PoolIInv, NEW u \in Users, NEW proxy \in Proxies, NEW allowPrivate \in BOOLEAN,
         GetFromPool(u, proxy, allowPrivate)
  PROVE  PoolIInv'
<1> DEFINE key == KeyOf(proxy, allowPrivate)
<1>1. sessions[key] \in [id : 1..MaxCreated, guarded : BOOLEAN]
  BY DEF PoolIInv, PoolTypeOK, GetFromPool
<1>2. sessions[key].id \in 0..Panic + 1 /\ sessions[key].guarded \in BOOLEAN
  BY <1>1, ProxyAssumption DEF Panic
<1>3. Use(u, allowPrivate, sessions[key])
  BY DEF GetFromPool
<1>4. uses' \in [Users -> [id : 0..Panic + 1, guarded : BOOLEAN, allowPrivate : BOOLEAN]]
  BY <1>2, <1>3, UseIsTyped DEF PoolIInv
<1>5. UNCHANGED <<honest, sessions, order, closed, created, reset, fails>>
  BY DEF GetFromPool
<1> QED  BY <1>4, <1>5 DEF PoolIInv, PoolTypeOK, Agree

LEMMA GetNewKeeps ==
  ASSUME PoolIInv, NEW u \in Users, NEW proxy \in Proxies, NEW allowPrivate \in BOOLEAN,
         GetNew(u, proxy, allowPrivate)
  PROVE  PoolIInv'
<1> DEFINE key == KeyOf(proxy, allowPrivate)
           entry == Handed(created + 1, honest /\ ~allowPrivate)
<1>1. /\ created \in Nat /\ created + 1 \in 1..MaxCreated
      /\ honest \in BOOLEAN /\ MaxCreated \in Nat
  BY ProxyAssumption DEF PoolIInv, PoolTypeOK, GetNew
<1>2. key \in PoolKeys /\ key \notin DOMAIN SessionsLeft
  BY LeftAgrees DEF KeyOf, PoolKeys, GetNew
<1>3. entry.id = created + 1 /\ entry.guarded \in BOOLEAN
      /\ entry \in [id : 1..MaxCreated, guarded : BOOLEAN]
  BY <1>1 DEF Handed
<1> HIDE DEF key, entry
<1>4. /\ sessions' = [k \in DOMAIN SessionsLeft \union {key} |->
                        IF k = key THEN entry ELSE SessionsLeft[k]]
      /\ order' = Append(OrderLeft, key)
      /\ created' = created + 1 /\ closed' = closed \union Evicted
      /\ Use(u, allowPrivate, entry)
      /\ UNCHANGED <<honest, reset, fails>>
  BY DEF GetNew, key, entry
<1>5. Agree(sessions', order', created') /\ Len(order') = Len(OrderLeft) + 1
  <2>1. Agree(SessionsLeft, OrderLeft, created)
    BY LeftAgrees
  <2>2. /\ Agree([k \in DOMAIN SessionsLeft \union {key} |-> IF k = key THEN entry ELSE SessionsLeft[k]],
                  Append(OrderLeft, key), created + 1)
        /\ Len(Append(OrderLeft, key)) = Len(OrderLeft) + 1
    BY <1>1, <1>2, <1>3, <2>1, AppendAgrees
  <2> QED  BY <1>4, <2>2
<1>6. Entries(sessions')
  BY <1>2, <1>3, <1>4, LeftAgrees DEF Entries
<1>7. uses' \in [Users -> [id : 0..Panic + 1, guarded : BOOLEAN, allowPrivate : BOOLEAN]]
  <2>1. entry.id \in 0..Panic + 1
    BY <1>1, <1>3 DEF Panic
  <2> QED  BY <1>3, <1>4, <2>1, UseIsTyped DEF PoolIInv
<1>8. closed' \subseteq 1..MaxCreated
  BY <1>4, EvictedAreMade DEF PoolIInv, PoolTypeOK
<1>9. order' \in Seq(PoolKeys) /\ Len(order') <= MaxProxySessions
  BY <1>5, LeftAgrees DEF Agree
<1>10. created' \in 0..MaxCreated /\ reset' \in 0..created'
  BY <1>1, <1>4 DEF PoolIInv, PoolTypeOK
<1>11. PoolTypeOK'
  BY <1>4, <1>6, <1>7, <1>8, <1>9, <1>10 DEF PoolIInv, PoolTypeOK, Entries
<1> QED  BY <1>5, <1>9, <1>11 DEF PoolIInv, Agree

LEMMA GetRefusedKeeps ==
  ASSUME PoolIInv, NEW u \in Users, NEW proxy \in Proxies, NEW allowPrivate \in BOOLEAN,
         GetRefused(u, proxy, allowPrivate)
  PROVE  PoolIInv'
<1> DEFINE entry == IF honest THEN Handed(NoProxy, ~allowPrivate) ELSE Handed(Panic, FALSE)
<1>1. entry.id \in 0..Panic + 1 /\ entry.guarded \in BOOLEAN
  <2>1. MaxCreated \in Nat
    BY ProxyAssumption
  <2>2. CASE honest
    BY <2>1, <2>2 DEF Handed, NoProxy, Panic
  <2>3. CASE ~honest
    BY <2>1, <2>3 DEF Handed, Panic
  <2> QED  BY <2>2, <2>3
<1>2. Use(u, allowPrivate, entry)
  BY DEF GetRefused
<1>3. uses' \in [Users -> [id : 0..Panic + 1, guarded : BOOLEAN, allowPrivate : BOOLEAN]]
  <2> HIDE DEF entry
  <2> QED  BY <1>1, <1>2, UseIsTyped DEF PoolIInv
<1>4. /\ sessions' = SessionsLeft /\ order' = OrderLeft
      /\ closed' = closed \union Evicted /\ fails' = fails + 1
      /\ fails < MaxCreated
      /\ UNCHANGED <<honest, created, reset>>
  BY DEF GetRefused
<1>5. Agree(sessions', order', created') /\ Entries(sessions') /\ Len(order') <= MaxProxySessions
  <2>1. Len(OrderLeft) \in Nat /\ MaxProxySessions \in Nat
    BY LeftAgrees, ProxyAssumption DEF Agree
  <2> QED  BY <1>4, <2>1, LeftAgrees
<1>6. closed' \subseteq 1..MaxCreated /\ fails' \in 0..MaxCreated
  <2>1. closed \subseteq 1..MaxCreated /\ fails \in 0..MaxCreated /\ MaxCreated \in Nat
    BY ProxyAssumption DEF PoolIInv, PoolTypeOK
  <2>2. Evicted \subseteq 1..MaxCreated
    BY EvictedAreMade DEF PoolIInv
  <2>3. closed' \subseteq 1..MaxCreated
    BY <1>4, <2>1, <2>2
  <2>4. fails' \in 0..MaxCreated
    BY <1>4, <2>1
  <2> QED  BY <2>3, <2>4
<1>7. PoolTypeOK'
  BY <1>3, <1>4, <1>5, <1>6 DEF PoolIInv, PoolTypeOK, Entries, Agree
<1> QED  BY <1>5, <1>7 DEF PoolIInv, Agree

LEMMA CloseKeeps == PoolIInv /\ Close => PoolIInv'
<1> SUFFICES ASSUME PoolIInv, Close PROVE PoolIInv'  OBVIOUS
<1>1. /\ sessions' = << >> /\ order' = << >> /\ reset' = created
      /\ UNCHANGED <<honest, created, fails, uses>>
  BY DEF Close
<1>2. Agree(sessions', order', created')
  BY <1>1, FS_EmptySet DEF Agree
<1>3. closed' \subseteq 1..MaxCreated
  <2>1. \A k \in DOMAIN sessions : sessions[k].id \in 1..MaxCreated
    BY DEF PoolIInv, PoolTypeOK
  <2>2. {sessions[k].id : k \in DOMAIN sessions} \subseteq 1..MaxCreated
    BY <2>1
  <2>3. closed \subseteq 1..MaxCreated
    BY DEF PoolIInv, PoolTypeOK
  <2>4. CASE honest
    BY <2>3, <2>4 DEF Close
  <2>5. CASE ~honest
    BY <2>2, <2>3, <2>5 DEF Close
  <2> QED  BY <2>4, <2>5
<1>4. PoolTypeOK'
  BY <1>1, <1>3 DEF PoolIInv, PoolTypeOK
<1> QED  BY <1>1, <1>2, <1>4, ProxyAssumption DEF PoolIInv, Agree

LEMMA NextKeeps == PoolIInv /\ [PoolNext]_proxyVars => PoolIInv'
<1> SUFFICES ASSUME PoolIInv, [PoolNext]_proxyVars PROVE PoolIInv'  OBVIOUS
<1>1. ASSUME NEW u \in Users, Finish(u) PROVE PoolIInv'
  <2>1. uses' \in [Users -> [id : 0..Panic + 1, guarded : BOOLEAN, allowPrivate : BOOLEAN]]
    BY <1>1, ProxyAssumption DEF Finish, NoUse, Panic, PoolIInv, PoolTypeOK
  <2> QED  BY <1>1, <2>1 DEF Finish, PoolIInv, PoolTypeOK, Agree
<1>2. CASE UNCHANGED proxyVars
  BY <1>2 DEF proxyVars, PoolIInv, PoolTypeOK, Agree
<1> QED
  BY <1>1, <1>2, GetFromPoolKeeps, GetNewKeeps, GetRefusedKeeps, CloseKeeps DEF PoolNext

\* The inductive invariant: types, and a map and a list that agree.
THEOREM PoolInvariant == PoolSpec => []PoolIInv
BY InitHolds, NextKeeps, PTL DEF PoolSpec

\* The state of the pools is well typed.
THEOREM PoolTypeCorrect == PoolSpec => []PoolTypeOK
<1>1. PoolIInv => PoolTypeOK  BY DEF PoolIInv
<1> QED  BY <1>1, PoolInvariant, PTL

\* The map and the list of getProxyClient and getProxySession agree for every
\* limit and every sequence of proxies, bad ones and Close included, and hold
\* the youngest entries.
THEOREM PoolAgrees == PoolSpec => []PoolHoldsYoungest
<1>1. PoolIInv => PoolHoldsYoungest  BY DEF PoolIInv, Agree, PoolHoldsYoungest
<1> QED  BY <1>1, PoolInvariant, PTL
-----------------------------------------------------------------------------
(* Guards: the key of an honest entry names its guard. *)

KeysNameGuards == \A k \in DOMAIN sessions : honest => (sessions[k].guarded <=> ~k[2])
UsesGuarded == \A u \in Users : honest => (uses[u].guarded <=> ~uses[u].allowPrivate)
Guards == PoolIInv /\ KeysNameGuards /\ UsesGuarded

LEMMA GuardOfUse ==
  ASSUME PoolTypeOK, UsesGuarded, NEW u \in Users, NEW allowPrivate \in BOOLEAN, NEW entry,
         Use(u, allowPrivate, entry), honest' = honest,
         honest => (entry.guarded <=> ~allowPrivate)
  PROVE  UsesGuarded'
<1> SUFFICES ASSUME NEW v \in Users, honest PROVE uses'[v].guarded <=> ~uses'[v].allowPrivate
  BY DEF UsesGuarded
<1>1. CASE v = u
  <2>1. uses'[v] = [id |-> entry.id, guarded |-> entry.guarded, allowPrivate |-> allowPrivate]
    BY <1>1 DEF Use, PoolTypeOK
  <2> QED  BY <2>1
<1>2. CASE v # u
  <2>1. uses'[v] = uses[v]
    BY <1>2 DEF Use, PoolTypeOK
  <2> QED  BY <2>1 DEF UsesGuarded
<1> QED  BY <1>1, <1>2

LEMMA GetFromPoolGuards ==
  ASSUME Guards, NEW u \in Users, NEW proxy \in Proxies, NEW allowPrivate \in BOOLEAN,
         GetFromPool(u, proxy, allowPrivate)
  PROVE  KeysNameGuards' /\ UsesGuarded'
<1> DEFINE key == KeyOf(proxy, allowPrivate)
<1>1. key \in DOMAIN sessions /\ (honest => (key[2] <=> allowPrivate))
  BY DEF GetFromPool, KeyOf
<1>2. honest => (sessions[key].guarded <=> ~allowPrivate)
  BY <1>1 DEF Guards, KeysNameGuards
<1>3. Use(u, allowPrivate, sessions[key]) /\ honest' = honest /\ sessions' = sessions
  BY DEF GetFromPool
<1> HIDE DEF key
<1>4. UsesGuarded'
  BY <1>2, <1>3, GuardOfUse DEF Guards, PoolIInv
<1> QED  BY <1>3, <1>4 DEF Guards, KeysNameGuards

LEMMA GetNewGuards ==
  ASSUME Guards, NEW u \in Users, NEW proxy \in Proxies, NEW allowPrivate \in BOOLEAN,
         GetNew(u, proxy, allowPrivate)
  PROVE  KeysNameGuards' /\ UsesGuarded'
<1> DEFINE key == KeyOf(proxy, allowPrivate)
           entry == Handed(created + 1, honest /\ ~allowPrivate)
<1>1. honest => (key[2] <=> allowPrivate)
  BY DEF KeyOf
<1>2. honest => (entry.guarded <=> ~allowPrivate)
  BY DEF Handed
<1> HIDE DEF key, entry
<1>3. /\ sessions' = [k \in DOMAIN SessionsLeft \union {key} |->
                        IF k = key THEN entry ELSE SessionsLeft[k]]
      /\ Use(u, allowPrivate, entry) /\ honest' = honest
  BY DEF GetNew, key, entry
<1>4. UsesGuarded'
  BY <1>2, <1>3, GuardOfUse DEF Guards, PoolIInv
<1>5. \A k \in DOMAIN SessionsLeft : k \in DOMAIN sessions /\ SessionsLeft[k] = sessions[k]
  BY LeftAgrees DEF Guards
<1>6. ASSUME NEW k \in DOMAIN sessions', honest PROVE sessions'[k].guarded <=> ~k[2]
  <2>1. CASE k = key
    BY <1>1, <1>2, <1>3, <1>6, <2>1
  <2>2. CASE k # key
    <3>1. k \in DOMAIN SessionsLeft /\ sessions'[k] = SessionsLeft[k]
      BY <1>3, <2>2
    <3> QED  BY <1>5, <1>6, <3>1 DEF Guards, KeysNameGuards
  <2> QED  BY <2>1, <2>2
<1> QED  BY <1>3, <1>4, <1>6 DEF KeysNameGuards

LEMMA GetRefusedGuards ==
  ASSUME Guards, NEW u \in Users, NEW proxy \in Proxies, NEW allowPrivate \in BOOLEAN,
         GetRefused(u, proxy, allowPrivate)
  PROVE  KeysNameGuards' /\ UsesGuarded'
<1> DEFINE entry == IF honest THEN Handed(NoProxy, ~allowPrivate) ELSE Handed(Panic, FALSE)
<1>1. honest => (entry.guarded <=> ~allowPrivate)
  BY DEF Handed
<1>2. Use(u, allowPrivate, entry) /\ honest' = honest /\ sessions' = SessionsLeft
  BY DEF GetRefused
<1> HIDE DEF entry
<1>3. UsesGuarded'
  BY <1>1, <1>2, GuardOfUse DEF Guards, PoolIInv
<1>4. \A k \in DOMAIN SessionsLeft : k \in DOMAIN sessions /\ SessionsLeft[k] = sessions[k]
  BY LeftAgrees DEF Guards
<1> QED  BY <1>2, <1>3, <1>4 DEF Guards, KeysNameGuards

LEMMA GuardsKept == Guards /\ [PoolNext]_proxyVars => Guards'
<1> SUFFICES ASSUME Guards, [PoolNext]_proxyVars PROVE Guards'  OBVIOUS
<1>1. PoolIInv'
  BY NextKeeps DEF Guards
<1>2. ASSUME NEW u \in Users, Finish(u) PROVE KeysNameGuards' /\ UsesGuarded'
  <2>1. \A v \in Users : uses'[v] = IF v = u THEN NoUse ELSE uses[v]
    BY <1>2 DEF Finish, Guards, PoolIInv, PoolTypeOK
  <2>2. NoUse.guarded <=> ~NoUse.allowPrivate
    BY DEF NoUse
  <2>3. honest' = honest /\ sessions' = sessions
    BY <1>2 DEF Finish
  <2>4. ASSUME NEW v \in Users, honest PROVE uses'[v].guarded <=> ~uses'[v].allowPrivate
    BY <2>1, <2>2, <2>4 DEF Guards, UsesGuarded
  <2> QED  BY <2>3, <2>4 DEF Guards, UsesGuarded, KeysNameGuards
<1>3. ASSUME Close PROVE KeysNameGuards' /\ UsesGuarded'
  BY <1>3 DEF Close, Guards, UsesGuarded, KeysNameGuards
<1>4. CASE UNCHANGED proxyVars
  BY <1>1, <1>4 DEF proxyVars, Guards, UsesGuarded, KeysNameGuards
<1> QED
  BY <1>1, <1>2, <1>3, <1>4, GetFromPoolGuards, GetNewGuards, GetRefusedGuards DEF PoolNext, Guards

\* Whatever is evicted, refused, shared or closed, an honest request never goes
\* out with a client that was made for another guard than it asked for.
THEOREM PoolGuards == PoolSpec => []GuardFollowsRequest
<1>1. PoolInit => Guards
  <2>1. ASSUME PoolInit, NEW u \in Users PROVE uses[u].guarded <=> ~uses[u].allowPrivate
    BY <2>1 DEF PoolInit, NoUse
  <2>2. ASSUME PoolInit PROVE DOMAIN sessions = {}
    BY <2>2 DEF PoolInit
  <2> QED  BY <2>1, <2>2, InitHolds DEF Guards, KeysNameGuards, UsesGuarded
<1>2. Guards => GuardFollowsRequest
  <2> SUFFICES ASSUME Guards, NEW u \in Users, honest
      PROVE uses[u].guarded = ~uses[u].allowPrivate
    BY DEF GuardFollowsRequest
  <2>1. uses[u].guarded \in BOOLEAN /\ (uses[u].guarded <=> ~uses[u].allowPrivate)
    BY DEF Guards, UsesGuarded, PoolIInv, PoolTypeOK
  <2> QED  BY <2>1
<1> QED  BY <1>1, <1>2, GuardsKept, PTL DEF PoolSpec
-----------------------------------------------------------------------------
(* Age: what is closed by an eviction was the oldest of a full pool. *)

ClosedAreMade == \A id \in closed : id <= created
Ages == PoolIInv /\ ClosedAreMade /\ ClosedWhenOld

LEMMA EvictedIsOld ==
  ASSUME PoolIInv, NEW id \in Evicted
  PROVE  id = created - MaxProxySessions + 1
<1>1. Full /\ Head(order) \in DOMAIN sessions /\ id = sessions[Head(order)].id
  BY DEF Evicted
<1>2. /\ Len(order) = MaxProxySessions /\ MaxProxySessions \in Nat \ {0}
      /\ order \in Seq(PoolKeys)
  BY <1>1, ProxyAssumption DEF PoolIInv, Agree, Full
<1>3. 1 \in DOMAIN order /\ Head(order) = order[1]
  BY <1>2
<1>4. sessions[order[1]].id = created - Len(order) + 1
  BY <1>3 DEF PoolIInv, Agree
<1> QED  BY <1>1, <1>2, <1>3, <1>4

LEMMA EvictionKeepsAges ==
  ASSUME Ages, closed' = closed \union Evicted, reset' = reset,
         created' = created \/ created' = created + 1
  PROVE  ClosedAreMade' /\ ClosedWhenOld'
<1>1. /\ created \in Nat /\ reset \in Nat /\ MaxProxySessions \in Nat \ {0}
      /\ closed \subseteq Nat
  BY ProxyAssumption DEF Ages, PoolIInv, PoolTypeOK
<1> SUFFICES ASSUME NEW id \in closed'
             PROVE  id <= created' /\ (id > reset => created' - id >= MaxProxySessions - 1)
  BY DEF ClosedAreMade, ClosedWhenOld
<1>2. CASE id \in closed
  BY <1>1, <1>2 DEF Ages, ClosedAreMade, ClosedWhenOld
<1>3. CASE id \in Evicted
  <2>1. id = created - MaxProxySessions + 1
    BY <1>3, EvictedIsOld DEF Ages
  <2> QED  BY <1>1, <2>1
<1> QED  BY <1>2, <1>3

LEMMA CloseKeepsAges ==
  ASSUME Ages, Close PROVE ClosedAreMade' /\ ClosedWhenOld'
<1>1. created \in Nat /\ created' = created /\ reset' = created
  BY DEF Close, Ages, PoolIInv, PoolTypeOK
<1>2. ASSUME NEW k \in DOMAIN sessions PROVE sessions[k].id <= created
  <2>1. PICK i \in DOMAIN order : order[i] = k
    BY DEF Ages, PoolIInv, Agree
  <2>2. sessions[k].id = created - Len(order) + i
    BY <2>1 DEF Ages, PoolIInv, Agree
  <2>3. Len(order) \in Nat /\ i \in 1..Len(order)
    BY <2>1 DEF Ages, PoolIInv, Agree
  <2> QED  BY <1>1, <2>2, <2>3
<1>3. ASSUME NEW id \in closed' PROVE id <= created /\ id \in Nat
  <2>1. CASE id \in closed
    BY <2>1 DEF Ages, ClosedAreMade, PoolIInv, PoolTypeOK
  <2>2. CASE id \notin closed
    <3>1. PICK k \in DOMAIN sessions : id = sessions[k].id
      BY <2>2 DEF Close
    <3> QED  BY <1>2, <3>1 DEF Ages, PoolIInv, PoolTypeOK
  <2> QED  BY <2>1, <2>2
<1> QED  BY <1>1, <1>3 DEF ClosedAreMade, ClosedWhenOld

LEMMA AgesKept == Ages /\ [PoolNext]_proxyVars => Ages'
<1> SUFFICES ASSUME Ages, [PoolNext]_proxyVars PROVE Ages'  OBVIOUS
<1>1. PoolIInv'
  BY NextKeeps DEF Ages
<1>2. ASSUME NEW u \in Users, NEW proxy \in Proxies, NEW allowPrivate \in BOOLEAN,
             GetNew(u, proxy, allowPrivate) \/ GetRefused(u, proxy, allowPrivate)
      PROVE  ClosedAreMade' /\ ClosedWhenOld'
  <2>1. /\ closed' = closed \union Evicted /\ reset' = reset
        /\ created' = created \/ created' = created + 1
    BY <1>2 DEF GetNew, GetRefused
  <2> QED  BY <2>1, EvictionKeepsAges
<1>3. ASSUME closed' = closed, reset' = reset, created' = created
      PROVE  ClosedAreMade' /\ ClosedWhenOld'
  BY <1>3 DEF Ages, ClosedAreMade, ClosedWhenOld
<1>4. ASSUME NEW u \in Users, NEW proxy \in Proxies, NEW allowPrivate \in BOOLEAN,
             GetFromPool(u, proxy, allowPrivate)
      PROVE  ClosedAreMade' /\ ClosedWhenOld'
  BY <1>3, <1>4 DEF GetFromPool
<1>5. ASSUME NEW u \in Users, Finish(u) PROVE ClosedAreMade' /\ ClosedWhenOld'
  BY <1>3, <1>5 DEF Finish
<1>6. CASE UNCHANGED proxyVars
  BY <1>1, <1>3, <1>6 DEF proxyVars, Ages
<1> QED  BY <1>1, <1>2, <1>4, <1>5, <1>6, CloseKeepsAges DEF PoolNext, Ages

\* An azure session is closed under a request that may still use it only by
\* Close, or when at least maxProxySessions - 1 younger ones were made, for
\* every limit.
THEOREM PoolClosesOld == PoolSpec => []ClosedWhenOld
<1>1. PoolInit => Ages
  <2>1. PoolInit => closed = {}
    BY DEF PoolInit
  <2> QED  BY <2>1, InitHolds DEF Ages, ClosedAreMade, ClosedWhenOld
<1>2. Ages => ClosedWhenOld
  BY DEF Ages
<1> QED  BY <1>1, <1>2, AgesKept, PTL DEF PoolSpec
=============================================================================
