------------------------- MODULE RobotsCheckerProofs ------------------------
(* Proofs about RobotsChecker: how old an answer may be, however many calls   *)
(* miss at the same time and in whichever order their answers are stored.     *)
EXTENDS RobotsChecker, TLAPS

\* What a call has parsed is a file the site has served since it was asked.
ReadsAreRecent ==
  /\ groups = [c \in Checks |-> groups[c]]
  /\ \A c \in Checks : checkPc[c] = "read" =>
       \E f \in Files : groups[c] = Parse(f) /\ gone[f] <= asked[c]

\* What is cached was read within one timeout of being stored, and has aged
\* since by what it has lost of its lifetime.
CacheIsRecent ==
  /\ cache = [groups |-> cache.groups, left |-> cache.left]
  /\ cache.left > 0 =>
       \E f \in Files : cache.groups = Parse(f) /\ gone[f] + cache.left <= Long

RobotsIInv == /\ RobotsTypeOK
              /\ gone[site] = 0
              /\ ReadsAreRecent
              /\ CacheIsRecent

-----------------------------------------------------------------------------
LEMMA SmallerOfTwo ==
  ASSUME NEW a \in Nat, NEW b \in Nat
  PROVE  Min({a, b}) = IF a <= b THEN a ELSE b
<1> DEFINE m == IF a <= b THEN a ELSE b
<1>1. m \in {a, b} /\ \A y \in {a, b} : m <= y
  OBVIOUS
<1>2. \A x \in {a, b} : (\A y \in {a, b} : x <= y) => x = m
  OBVIOUS
<1> QED BY <1>1, <1>2 DEF Min

LEMMA InitRobots ==
  ASSUME RobotsInit
  PROVE  RobotsIInv
<1>1. Long \in Nat /\ TTL \in Nat /\ Timeout \in Nat /\ AnyPath \in Paths
  BY RobotsAssumption DEF Long, AnyPath
<1>2. RobotsTypeOK
  BY <1>1 DEF RobotsInit, RobotsTypeOK, NotCached, NoAnswer
<1>3. gone[site] = 0
  BY DEF RobotsInit
<1>4. ReadsAreRecent /\ CacheIsRecent
  BY DEF RobotsInit, ReadsAreRecent, CacheIsRecent, NotCached
<1> QED BY <1>2, <1>3, <1>4 DEF RobotsIInv

\* Calls that take no file into the cache, and read none.
LEMMA CallKeeps ==
  ASSUME RobotsIInv, NEW c \in Checks,
         \/ \E p \in Paths : Check(c, p)
         \/ Hit(c) \/ Miss(c) \/ Guard(c) \/ Fail(c) \/ Done(c)
  PROVE  RobotsIInv'
<1>1. /\ RobotsTypeOK /\ gone[site] = 0 /\ ReadsAreRecent /\ CacheIsRecent
      /\ Timeout \in Nat /\ AnyPath \in Paths
  BY RobotsAssumption DEF RobotsIInv, AnyPath
<1>2. UNCHANGED <<site, gone, cache>>
  BY DEF Check, Hit, Miss, Guard, Fail, Done
<1>3. RobotsTypeOK'
  <2>1. CASE (\E p \in Paths : Check(c, p)) \/ Miss(c) \/ Done(c)
    <3>1. /\ path' \in [Checks -> Paths]
          /\ UNCHANGED asked
      BY <1>1, <2>1 DEF Check, Miss, Done, RobotsTypeOK
    <3>2. checkPc' \in [Checks -> {"idle", "lookup", "guard", "ask", "read", "answered"}]
      BY <1>1, <2>1 DEF Check, Miss, Done, Goto, RobotsTypeOK
    <3>3. answer' \in [Checks -> [allowed : BOOLEAN, failed : BOOLEAN]]
      <4>1. NoAnswer \in [allowed : BOOLEAN, failed : BOOLEAN]
        BY DEF NoAnswer
      <4>2. answer' = answer \/ answer' = [answer EXCEPT ![c] = NoAnswer]
        BY <2>1 DEF Check, Miss, Done
      <4> QED BY <1>1, <4>1, <4>2 DEF RobotsTypeOK
    <3> QED BY <1>1, <1>2, <3>1, <3>2, <3>3 DEF RobotsTypeOK
  <2>2. ASSUME NEW b \in BOOLEAN, NEW d \in BOOLEAN, Answer(c, b, d)
        PROVE  /\ checkPc' \in [Checks -> {"idle", "lookup", "guard", "ask", "read",
                                          "answered"}]
               /\ asked' \in [Checks -> 0..Timeout]
               /\ answer' \in [Checks -> [allowed : BOOLEAN, failed : BOOLEAN]]
    BY <1>1, <2>2 DEF Answer, Goto, RobotsTypeOK
  <2>3. CASE Hit(c)
    <3>1. IsAllowed(cache.groups, path[c]) \in BOOLEAN
      BY DEF IsAllowed
    <3> QED BY <1>1, <1>2, <2>2, <2>3, <3>1 DEF Hit, RobotsTypeOK
  <2>4. CASE Guard(c)
    BY <1>1, <1>2, <2>2, <2>4 DEF Guard, Goto, RobotsTypeOK
  <2>5. CASE Fail(c)
    BY <1>1, <1>2, <2>2, <2>5 DEF Fail, RobotsTypeOK
  <2> QED BY <2>1, <2>3, <2>4, <2>5
<1>4. ReadsAreRecent'
  <2>1. groups' = [groups EXCEPT ![c] = << >>] \/ groups' = groups
    BY DEF Check, Hit, Miss, Guard, Fail, Done, Answer
  <2>2. asked' = [asked EXCEPT ![c] = 0] \/ asked' = asked
    BY DEF Check, Hit, Miss, Guard, Fail, Done, Answer
  <2>3. \E place \in {"lookup", "guard", "ask", "answered", "idle"} :
          checkPc' = [checkPc EXCEPT ![c] = place]
    BY DEF Check, Hit, Miss, Guard, Fail, Done, Answer, Goto
  <2>4. groups' = [d \in Checks |-> groups'[d]]
    BY <1>1, <2>1 DEF ReadsAreRecent
  <2>5. ASSUME NEW d \in Checks, checkPc'[d] = "read"
        PROVE  /\ checkPc[d] = "read"
               /\ groups'[d] = groups[d] /\ asked'[d] = asked[d]
    <3>1. d # c /\ checkPc[d] = "read"
      BY <1>1, <2>3, <2>5 DEF RobotsTypeOK
    <3> QED BY <1>1, <2>1, <2>2, <3>1 DEF RobotsTypeOK, ReadsAreRecent
  <2> QED BY <1>1, <1>2, <2>4, <2>5 DEF ReadsAreRecent
<1>5. CacheIsRecent'
  BY <1>1, <1>2 DEF CacheIsRecent, Long
<1> QED BY <1>1, <1>2, <1>3, <1>4, <1>5 DEF RobotsIInv

LEMMA RespondKeeps ==
  ASSUME RobotsIInv, NEW c \in Checks, Respond(c)
  PROVE  RobotsIInv'
<1>1. /\ RobotsTypeOK /\ gone[site] = 0 /\ ReadsAreRecent /\ CacheIsRecent
      /\ site \in Files /\ asked[c] \in Nat
  BY RobotsAssumption DEF RobotsIInv, RobotsTypeOK
<1>2. /\ UNCHANGED <<site, gone, cache, asked, path, answer>>
      /\ checkPc' = [checkPc EXCEPT ![c] = "read"]
      /\ groups' = [groups EXCEPT ![c] = Parse(site)]
  BY DEF Respond, Goto
<1>3. RobotsTypeOK'
  BY <1>1, <1>2 DEF RobotsTypeOK
<1>4. ReadsAreRecent'
  <2>1. groups' = [d \in Checks |-> groups'[d]]
    BY <1>1, <1>2 DEF ReadsAreRecent
  <2>2. ASSUME NEW d \in Checks, checkPc'[d] = "read"
        PROVE  \E f \in Files : groups'[d] = Parse(f) /\ gone'[f] <= asked'[d]
    <3>1. CASE d = c
      BY <1>1, <1>2, <3>1 DEF ReadsAreRecent
    <3>2. CASE d # c
      BY <1>1, <1>2, <2>2, <3>2 DEF ReadsAreRecent, RobotsTypeOK
    <3> QED BY <3>1, <3>2
  <2> QED BY <2>1, <2>2 DEF ReadsAreRecent
<1>5. CacheIsRecent'
  BY <1>1, <1>2 DEF CacheIsRecent, Long
<1> QED BY <1>1, <1>2, <1>3, <1>4, <1>5 DEF RobotsIInv

LEMMA StoreKeeps ==
  ASSUME RobotsIInv, NEW c \in Checks, Store(c)
  PROVE  RobotsIInv'
<1>1. /\ RobotsTypeOK /\ gone[site] = 0 /\ ReadsAreRecent
      /\ TTL \in Nat /\ Timeout \in Nat
      /\ asked[c] \in 0..Timeout
  BY RobotsAssumption DEF RobotsIInv, RobotsTypeOK
<1>2. /\ UNCHANGED <<site, gone, path>>
      /\ cache' = [groups |-> groups[c], left |-> TTL]
      /\ checkPc' = [checkPc EXCEPT ![c] = "answered"]
      /\ asked' = [asked EXCEPT ![c] = 0]
      /\ groups' = [groups EXCEPT ![c] = << >>]
      /\ answer' = [answer EXCEPT ![c] =
            [allowed |-> IsAllowed(groups[c], path[c]), failed |-> FALSE]]
  BY DEF Store, Answer, Goto
<1>3. RobotsTypeOK'
  <2>1. IsAllowed(groups[c], path[c]) \in BOOLEAN
    BY DEF IsAllowed
  <2>2. answer' \in [Checks -> [allowed : BOOLEAN, failed : BOOLEAN]]
    BY <1>1, <1>2, <2>1 DEF RobotsTypeOK
  <2> QED BY <1>1, <1>2, <2>2 DEF RobotsTypeOK
<1>4. ReadsAreRecent'
  <2>1. groups' = [d \in Checks |-> groups'[d]]
    BY <1>1, <1>2 DEF ReadsAreRecent
  <2>2. ASSUME NEW d \in Checks, checkPc'[d] = "read"
        PROVE  \E f \in Files : groups'[d] = Parse(f) /\ gone'[f] <= asked'[d]
    <3>1. d # c /\ checkPc[d] = "read"
      BY <1>1, <1>2, <2>2 DEF RobotsTypeOK
    <3> QED BY <1>1, <1>2, <3>1 DEF ReadsAreRecent, RobotsTypeOK
  <2> QED BY <2>1, <2>2 DEF ReadsAreRecent
<1>5. CacheIsRecent'
  <2>1. PICK f \in Files : groups[c] = Parse(f) /\ gone[f] <= asked[c]
    BY <1>1 DEF Store, ReadsAreRecent
  <2>2. gone[f] + TTL <= Long
    BY <1>1, <2>1 DEF Long, RobotsTypeOK
  <2> QED BY <1>2, <2>1, <2>2 DEF CacheIsRecent, Long
<1> QED BY <1>1, <1>2, <1>3, <1>4, <1>5 DEF RobotsIInv

LEMMA PublishKeeps ==
  ASSUME RobotsIInv, NEW f \in Files, Publish(f)
  PROVE  RobotsIInv'
<1>1. /\ RobotsTypeOK /\ gone[site] = 0 /\ ReadsAreRecent /\ CacheIsRecent
      /\ Long \in Nat
  BY RobotsAssumption DEF RobotsIInv, Long
<1>2. /\ site' = f /\ gone' = [gone EXCEPT ![f] = 0]
      /\ UNCHANGED <<cache, checkPc, asked, path, groups, answer>>
  BY DEF Publish
<1>3. gone' \in [Files -> 0..Long] /\ \A g \in Files : gone'[g] <= gone[g]
  BY <1>1, <1>2 DEF RobotsTypeOK
<1>4. RobotsTypeOK' /\ gone'[site'] = 0
  BY <1>1, <1>2, <1>3 DEF RobotsTypeOK, Long
<1>5. ReadsAreRecent'
  <2>1. \A d \in Checks : asked[d] \in Nat
    BY <1>1, RobotsAssumption DEF RobotsTypeOK
  <2> QED BY <1>1, <1>2, <1>3, <2>1 DEF ReadsAreRecent, RobotsTypeOK
<1>6. CacheIsRecent'
  <2>1. cache.left \in Nat
    BY <1>1, RobotsAssumption DEF RobotsTypeOK
  <2>2. ASSUME cache.left > 0
        PROVE  \E g \in Files : cache.groups = Parse(g) /\ gone'[g] + cache.left <= Long
    <3>1. PICK g \in Files : cache.groups = Parse(g) /\ gone[g] + cache.left <= Long
      BY <1>1, <2>2 DEF CacheIsRecent
    <3>2. gone[g] \in Nat /\ gone'[g] \in Nat /\ gone'[g] <= gone[g]
      BY <1>1, <1>3 DEF RobotsTypeOK
    <3> QED BY <1>1, <2>1, <3>1, <3>2
  <2> QED BY <1>1, <1>2, <2>2 DEF CacheIsRecent, Long
<1> QED BY <1>4, <1>5, <1>6 DEF RobotsIInv

LEMMA TickKeeps ==
  ASSUME RobotsIInv, Tick
  PROVE  RobotsIInv'
<1>1. /\ RobotsTypeOK /\ gone[site] = 0 /\ ReadsAreRecent /\ CacheIsRecent
      /\ Long \in Nat /\ Timeout \in Nat /\ TTL \in Nat /\ cache.left \in 0..TTL
  BY RobotsAssumption DEF RobotsIInv, Long, RobotsTypeOK
<1>2. UNCHANGED <<site, checkPc, path, groups, answer>>
  BY DEF Tick
<1>3. /\ gone' \in [Files -> 0..Long] /\ gone'[site] = 0
      /\ \A f \in Files : gone'[f] <= gone[f] + 1
  <2>1. \A f \in Files : gone[f] \in Nat /\ gone[f] + 1 \in Nat
    BY <1>1 DEF RobotsTypeOK
  <2>2. \A f \in Files : Min({gone[f] + 1, Long}) =
                         IF gone[f] + 1 <= Long THEN gone[f] + 1 ELSE Long
    BY <1>1, <2>1, SmallerOfTwo
  <2>3. gone' = [f \in Files |-> IF f = site THEN 0
                  ELSE IF gone[f] + 1 <= Long THEN gone[f] + 1 ELSE Long]
    BY <2>2 DEF Tick
  <2>4. site \in Files
    BY <1>1 DEF RobotsTypeOK
  <2> QED BY <1>1, <2>1, <2>3, <2>4
<1>4. asked' \in [Checks -> 0..Timeout]
  BY <1>1 DEF Tick, RobotsTypeOK
<1>5. \/ cache.left > 1 /\ cache' = [cache EXCEPT !.left = cache.left - 1]
      \/ cache' = NotCached
  BY DEF Tick
<1>6. cache'.left \in 0..TTL
  BY <1>1, <1>5 DEF NotCached, CacheIsRecent
<1>7. RobotsTypeOK'
  BY <1>1, <1>2, <1>3, <1>4, <1>6 DEF RobotsTypeOK, Long
<1>8. ReadsAreRecent'
  <2>1. ASSUME NEW c \in Checks, checkPc[c] = "read"
        PROVE  \E f \in Files : groups[c] = Parse(f) /\ gone'[f] <= asked'[c]
    <3>1. PICK f \in Files : groups[c] = Parse(f) /\ gone[f] <= asked[c]
      BY <1>1, <2>1 DEF ReadsAreRecent
    <3>2. asked'[c] = asked[c] + 1
      BY <2>1 DEF Tick, Waiting
    <3>3. gone[f] \in Nat /\ gone'[f] \in Nat /\ asked[c] \in Nat
          /\ gone'[f] <= gone[f] + 1
      BY <1>1, <1>3 DEF RobotsTypeOK
    <3> QED BY <3>1, <3>2, <3>3
  <2> QED BY <1>1, <1>2, <2>1 DEF ReadsAreRecent
<1>9. CacheIsRecent'
  <2>1. CASE cache' = NotCached
    BY <2>1 DEF CacheIsRecent, NotCached
  <2>2. CASE cache.left > 1 /\ cache' = [cache EXCEPT !.left = cache.left - 1]
    <3>1. cache' = [groups |-> cache.groups, left |-> cache.left - 1]
      BY <1>1, <2>2 DEF CacheIsRecent
    <3>2. PICK f \in Files : cache.groups = Parse(f) /\ gone[f] + cache.left <= Long
      BY <1>1, <2>2 DEF CacheIsRecent
    <3>3. gone[f] \in Nat /\ gone'[f] \in Nat /\ gone'[f] <= gone[f] + 1
      BY <1>1, <1>3 DEF RobotsTypeOK
    <3>4. gone'[f] + (cache.left - 1) <= Long
      BY <1>1, <3>2, <3>3
    <3> QED BY <3>1, <3>2, <3>4 DEF CacheIsRecent, Long
  <2> QED BY <1>5, <2>1, <2>2
<1> QED BY <1>2, <1>3, <1>7, <1>8, <1>9 DEF RobotsIInv

-----------------------------------------------------------------------------
\* RobotsIInv holds in every reachable state, whichever steps of concurrent calls
\* of Check come between.
THEOREM RobotsInvariant == RobotsSpec => []RobotsIInv
<1>1. RobotsInit => RobotsIInv
  BY InitRobots
<1>2. RobotsIInv /\ [RobotsNext]_robotsVars => RobotsIInv'
  <2>1. ASSUME RobotsIInv, RobotsNext PROVE RobotsIInv'
    BY <2>1, CallKeeps, RespondKeeps, StoreKeeps, PublishKeeps, TickKeeps DEF RobotsNext
  <2>2. ASSUME RobotsIInv, UNCHANGED robotsVars PROVE RobotsIInv'
    BY <2>2 DEF robotsVars, RobotsIInv, RobotsTypeOK, ReadsAreRecent, CacheIsRecent, Long
  <2> QED BY <2>1, <2>2
<1> QED BY <1>1, <1>2, PTL DEF RobotsSpec

\* The calls of Check on a domain, its entry and the site keep their types.
THEOREM RobotsTypeCorrect == RobotsSpec => []RobotsTypeOK
<1>1. RobotsIInv => RobotsTypeOK
  BY DEF RobotsIInv
<1> QED BY <1>1, RobotsInvariant, PTL

\* However many calls miss at once, an answer is that of a file which the site
\* served less than one lifetime and one timeout before.
THEOREM AnswersAreRecent == RobotsSpec => AnswersFollowSite
<1>1. ASSUME RobotsIInv, RobotsNext, NEW c \in Checks PROVE AnswerFollows(c)
  <2> SUFFICES ASSUME checkPc[c] # "answered", checkPc'[c] = "answered",
                      ~ answer'[c].failed
               PROVE  \E f \in Files : /\ gone[f] < TTL + Timeout
                                      /\ answer'[c].allowed = Allowed[f][path[c]]
    BY DEF AnswerFollows
  <2>1. /\ RobotsTypeOK /\ ReadsAreRecent /\ CacheIsRecent
        /\ TTL \in Nat \ {0} /\ Timeout \in Nat /\ path[c] \in Paths
        /\ asked[c] \in 0..Timeout /\ cache.left \in 0..TTL
        /\ \A f \in Files : gone[f] \in Nat
    BY <1>1, RobotsAssumption DEF RobotsIInv, RobotsTypeOK, Long
  <2>2. Hit(c) \/ Store(c)
    <3>1. ASSUME NEW d \in Checks, NEW place, checkPc' = [checkPc EXCEPT ![d] = place]
          PROVE  d = c /\ place = "answered"
      BY <2>1, <3>1 DEF RobotsTypeOK
    <3>2. ASSUME NEW d \in Checks, NEW b, Answer(d, b, TRUE) PROVE FALSE
      <4>1. d = c
        BY <3>1, <3>2 DEF Answer, Goto
      <4> QED BY <2>1, <3>2, <4>1 DEF Answer, RobotsTypeOK
    <3>3. ASSUME NEW d \in Checks,
                 (\E p \in Paths : Check(d, p)) \/ Miss(d) \/ Respond(d) \/ Done(d)
          PROVE  FALSE
      <4>1. \E place \in {"lookup", "guard", "read", "idle"} :
              checkPc' = [checkPc EXCEPT ![d] = place]
        BY <3>3 DEF Check, Miss, Respond, Done, Goto
      <4> QED BY <3>1, <4>1
    <3>4. ASSUME NEW d \in Checks, Guard(d) \/ Fail(d) PROVE FALSE
      <4>1. Answer(d, FALSE, TRUE) \/ Answer(d, TRUE, TRUE) \/ Goto(d, "ask")
        BY <3>4 DEF Guard, Fail
      <4> QED BY <3>1, <3>2, <4>1 DEF Goto
    <3>5. ASSUME NEW d \in Checks, Hit(d) \/ Store(d) PROVE d = c
      BY <3>1, <3>5 DEF Hit, Store, Answer, Goto
    <3>6. ~ Tick /\ ~ \E f \in Files : Publish(f)
      BY DEF Tick, Publish
    <3> QED BY <1>1, <3>3, <3>4, <3>5, <3>6 DEF RobotsNext
  <2>3. CASE Hit(c)
    <3>1. PICK f \in Files : cache.groups = Parse(f) /\ gone[f] + cache.left <= Long
      BY <2>1, <2>3 DEF Hit, CacheIsRecent
    <3>2. gone[f] < TTL + Timeout
      BY <2>1, <2>3, <3>1 DEF Hit, Long
    <3>3. answer'[c].allowed = IsAllowed(Parse(f), path[c])
      BY <2>1, <2>3, <3>1 DEF Hit, Answer, RobotsTypeOK
    <3> QED BY <2>1, <3>2, <3>3 DEF Allowed
  <2>4. CASE Store(c)
    <3>1. PICK f \in Files : groups[c] = Parse(f) /\ gone[f] <= asked[c]
      BY <2>1, <2>4 DEF Store, ReadsAreRecent
    <3>2. gone[f] < TTL + Timeout
      BY <2>1, <3>1
    <3>3. answer'[c].allowed = IsAllowed(Parse(f), path[c])
      BY <2>1, <2>4, <3>1 DEF Store, Answer, RobotsTypeOK
    <3> QED BY <2>1, <3>2, <3>3 DEF Allowed
  <2> QED BY <2>2, <2>3, <2>4
<1>2. RobotsIInv /\ [RobotsNext]_robotsVars =>
        [\A c \in Checks : AnswerFollows(c)]_robotsVars
  BY <1>1
<1> QED BY <1>2, RobotsInvariant, PTL DEF RobotsSpec, AnswersFollowSite
=============================================================================
