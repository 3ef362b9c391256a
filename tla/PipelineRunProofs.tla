-------------------------- MODULE PipelineRunProofs -------------------------
(***************************************************************************)
(* What PipelineRun guarantees for all URLs, derivations, options and      *)
(* requests: what is fetched and returned is allowed, fallbacks do not     *)
(* nest, and the cache names what it holds.                                *)
(***************************************************************************)
EXTENDS PipelineRun, SequenceTheorems, TLAPS

\* What a fallback of u asks for.
Derived(u) == {Twin[u], LLMs[u], Archive[u]}

\* A page that a call for u may return under the options o.
Answers(o, u, page) ==
  /\ page \in Pages
  /\ page.from \in Stands[u]
  /\ page.shape = o.shape
  /\ ~o.private => page.final \notin Private

\* And one that it may store under the key of u.
Stores(o, u, page) ==
  /\ Answers(o, u, page)
  /\ page.from # u => page.long

\* A call past the guard is for a URL that the guard lets pass; one that fetches
\* is for one that robots.txt allows; one that has asked the archive is not for
\* the archive; nested calls have no fallbacks.
CallInv(o, c) ==
  /\ c.page # NoPage <=> c.pc \in {"fallback", "twin", "store"}
  /\ c.page # NoPage => Stores(o, c.url, c.page)
  /\ c.pc # "guard" /\ ~o.private => c.url \notin Private
  /\ c.pc = "fetch" /\ o.robots => c.url \notin Disallowed
  /\ c.pc = "archive" => c.url \notin Archived
  /\ c.pc \in {"fallback", "twin"} => ~c.nested /\ c.todo \in Seq(Derived(c.url))

\* Call b is one that a waits for.
WaitsFor(a, b) ==
  \/ a.pc = "twin" /\ b.url \in Derived(a.url)
  \/ a.pc = "archive" /\ b.url = Archive[a.url]

StackInv(o, s) ==
  /\ s \in Seq(Call)
  /\ \A i \in 1..Len(s) : CallInv(o, s[i]) /\ (s[i].nested <=> i > 1)
  /\ \A i \in 1..(Len(s) - 1) : WaitsFor(s[i], s[i + 1])

\* A page is handed to a call that waits for it, or to the caller of Run.
ResultInv(o, s, page) ==
  page # NoPage =>
    /\ ~o.private => page.final \notin Private
    /\ s # <<>> => s[Len(s)].pc \in {"twin", "archive"} /\ Answers(o, s[Len(s)].url, page)

RequestsInv ==
  /\ opts \in [Requests -> Options]
  /\ calls \in [Requests -> Seq(Call)]
  /\ result \in [Requests -> Pages \union {NoPage}]
  /\ \A r \in Requests : StackInv(opts[r], calls[r]) /\ ResultInv(opts[r], calls[r], result[r])

CacheInv ==
  /\ cache \in [CacheKeys -> Pages \union {NoPage}]
  /\ KeysNameContent

SentInv ==
  /\ sent \in [by : Requests, url : URLs] \union {NoPage}
  /\ FetchesAllowed
  /\ runs \in 0..MaxRuns

PipelineIInv == RequestsInv /\ CacheInv /\ SentInv

-----------------------------------------------------------------------------
(* What derives from a URL.                                                *)

LEMMA DerivedIsURL ==
  ASSUME NEW u \in URLs
  PROVE  Derived(u) \subseteq URLs /\ Archive[u] \in Archived /\ Archived \subseteq URLs
BY PipelineAssumption DEF Derived

LEMMA StandsForItself ==
  ASSUME NEW u \in URLs
  PROVE  u \in Stands[u]
BY DEF Stands

LEMMA StandsThrough ==
  ASSUME NEW u \in URLs, NEW v \in Derived(u), NEW w \in Stands[v]
  PROVE  w \in Stands[u]
<1>1. v \in URLs
  BY DerivedIsURL
<1>2. w \in URLs /\ \A S \in SUBSET URLs : v \in S /\ Closed(S) => w \in S
  BY <1>1 DEF Stands
<1>3. ASSUME NEW S \in SUBSET URLs, u \in S, Closed(S) PROVE w \in S
  <2>1. v \in S
    BY <1>3 DEF Closed, Derived
  <2> QED  BY <1>2, <1>3, <2>1
<1> QED  BY <1>2, <1>3 DEF Stands

\* A page for what derives from u answers for u.
LEMMA AnswersThrough ==
  ASSUME NEW o \in Options, NEW u \in URLs, NEW v \in Derived(u), NEW page, Answers(o, v, page)
  PROVE  Answers(o, u, page)
BY StandsThrough DEF Answers

-----------------------------------------------------------------------------
(* Stacks of calls.                                                        *)

LEMMA TopOfStack ==
  ASSUME NEW o, NEW s, StackInv(o, s), s # << >>
  PROVE  /\ Len(s) \in Nat /\ Len(s) >= 1 /\ Len(s) \in 1..Len(s)
         /\ s[Len(s)] \in Call /\ CallInv(o, s[Len(s)])
<1>1. s \in Seq(Call)
  BY DEF StackInv
<1>2. Len(s) \in Nat \ {0}
  BY <1>1, EmptySeq
<1>3. Len(s) \in 1..Len(s)
  BY <1>2
<1>4. s[Len(s)] \in Call
  BY <1>1, <1>3, ElementOfSeq
<1> QED  BY <1>2, <1>3, <1>4 DEF StackInv

LEMMA NewCallIsCall ==
  ASSUME NEW o \in Options, NEW u \in URLs, NEW nested \in BOOLEAN
  PROVE  /\ NewCall(o, u, nested) \in Call
         /\ NewCall(o, u, nested).url = u
         /\ NewCall(o, u, nested).nested = nested
         /\ CallInv(o, NewCall(o, u, nested))
<1>1. o.cache \in BOOLEAN
  BY PipelineAssumption
<1> QED  BY <1>1 DEF NewCall, Call, CallInv

\* The call on top goes on.
LEMMA BecomeKeeps ==
  ASSUME NEW o, NEW s, StackInv(o, s), s # << >>,
         NEW c \in Call, CallInv(o, c), c.url = s[Len(s)].url, c.nested = s[Len(s)].nested
  PROVE  StackInv(o, [s EXCEPT ![Len(s)] = c])
<1> DEFINE t == [s EXCEPT ![Len(s)] = c]
<1>1. s \in Seq(Call) /\ Len(s) \in Nat /\ Len(s) \in 1..Len(s)
  BY TopOfStack DEF StackInv
<1>2. /\ t \in Seq(Call) /\ Len(t) = Len(s)
      /\ \A j \in 1..Len(s) : t[j] = IF j = Len(s) THEN c ELSE s[j]
  BY <1>1, ExceptSeq
<1> HIDE DEF t
<1>3. ASSUME NEW i \in 1..Len(t) PROVE CallInv(o, t[i]) /\ (t[i].nested <=> i > 1)
  BY <1>1, <1>2 DEF StackInv
<1>4. ASSUME NEW i \in 1..(Len(t) - 1) PROVE WaitsFor(t[i], t[i + 1])
  <2>1. i \in 1..Len(s) /\ i + 1 \in 1..Len(s) /\ i # Len(s) /\ i \in 1..(Len(s) - 1)
    BY <1>1, <1>2
  <2>2. t[i] = s[i] /\ t[i + 1].url = s[i + 1].url
    BY <1>2, <2>1
  <2>3. WaitsFor(s[i], s[i + 1])
    BY <2>1 DEF StackInv
  <2> QED  BY <2>2, <2>3 DEF WaitsFor
<1>5. StackInv(o, t)
  BY <1>2, <1>3, <1>4 DEF StackInv
<1> QED  BY <1>5 DEF t

\* It calls Run for u.
LEMMA PushKeeps ==
  ASSUME NEW o \in Options, NEW s, StackInv(o, s), s # << >>, NEW u \in URLs,
         WaitsFor(s[Len(s)], NewCall(o, u, TRUE))
  PROVE  StackInv(o, Append(s, NewCall(o, u, TRUE)))
<1> DEFINE new == NewCall(o, u, TRUE)
           t == Append(s, new)
<1>1. s \in Seq(Call) /\ Len(s) \in Nat /\ Len(s) >= 1
  BY TopOfStack DEF StackInv
<1>2. new \in Call /\ new.nested = TRUE /\ CallInv(o, new)
  BY NewCallIsCall
<1>3. /\ t \in Seq(Call) /\ Len(t) = Len(s) + 1
      /\ \A j \in 1..Len(s) : t[j] = s[j]
      /\ t[Len(s) + 1] = new
  BY <1>1, <1>2, AppendProperties
<1> HIDE DEF new, t
<1>4. ASSUME NEW i \in 1..Len(t) PROVE CallInv(o, t[i]) /\ (t[i].nested <=> i > 1)
  <2>1. CASE i \in 1..Len(s)
    BY <1>3, <2>1 DEF StackInv
  <2>2. CASE i = Len(s) + 1
    BY <1>1, <1>2, <1>3, <2>2
  <2> QED  BY <1>1, <1>3, <2>1, <2>2
<1>5. ASSUME NEW i \in 1..(Len(t) - 1) PROVE WaitsFor(t[i], t[i + 1])
  <2>1. CASE i \in 1..(Len(s) - 1)
    BY <1>1, <1>3, <2>1 DEF StackInv
  <2>2. CASE i = Len(s)
    <3>1. t[Len(s)] = s[Len(s)] /\ t[Len(s) + 1] = new
      BY <1>1, <1>3
    <3>2. WaitsFor(s[Len(s)], new)
      BY DEF new
    <3> QED  BY <2>2, <3>1, <3>2
  <2> QED  BY <1>1, <1>3, <2>1, <2>2
<1>6. StackInv(o, t)
  BY <1>3, <1>4, <1>5 DEF StackInv
<1> QED  BY <1>6 DEF t, new

\* It returns no page or one that answers for its URL.
LEMMA PopKeeps ==
  ASSUME NEW o \in Options, NEW s, StackInv(o, s), s # << >>,
         NEW page, page # NoPage => Answers(o, s[Len(s)].url, page)
  PROVE  /\ StackInv(o, SubSeq(s, 1, Len(s) - 1))
         /\ ResultInv(o, SubSeq(s, 1, Len(s) - 1), page)
<1> DEFINE t == SubSeq(s, 1, Len(s) - 1)
<1>1. s \in Seq(Call) /\ Len(s) \in Nat /\ Len(s) >= 1
  BY TopOfStack DEF StackInv
<1>2. \A i \in 1..(Len(s) - 1) : s[i] \in Call
  BY <1>1, ElementOfSeq
<1>3. /\ t \in Seq(Call) /\ Len(t) = Len(s) - 1
      /\ \A i \in 1..(Len(s) - 1) : t[i] = s[i]
  <2> DEFINE n == Len(s) - 1
  <2>1. n \in Nat /\ 1 \in Int /\ n \in Int
    BY <1>1
  <2> HIDE DEF n
  <2>2. /\ t \in Seq(Call)
        /\ Len(t) = IF 1 <= n THEN n - 1 + 1 ELSE 0
        /\ \A i \in 1..(n - 1 + 1) : t[i] = s[1 + i - 1]
    BY <1>2, <2>1, SubSeqProperties DEF n, t
  <2>3. /\ (IF 1 <= n THEN n - 1 + 1 ELSE 0) = n
        /\ \A i \in 1..n : i \in 1..(n - 1 + 1) /\ 1 + i - 1 = i
    BY <2>1
  <2> HIDE DEF t
  <2>4. t \in Seq(Call) /\ Len(t) = n /\ \A i \in 1..n : t[i] = s[i]
    BY <2>2, <2>3
  <2> QED  BY <2>4 DEF n
<1> HIDE DEF t
<1>4. StackInv(o, t)
  BY <1>1, <1>3 DEF StackInv
<1>5. ASSUME page # NoPage, t # << >>
      PROVE  t[Len(t)].pc \in {"twin", "archive"} /\ Answers(o, t[Len(t)].url, page)
  <2>1. Len(t) \in 1..(Len(s) - 1)
    BY <1>1, <1>3, <1>5, EmptySeq
  <2>2. t[Len(t)] = s[Len(t)] /\ s[Len(t)] \in Call /\ Len(t) + 1 = Len(s)
    BY <1>1, <1>2, <1>3, <2>1
  <2>3. WaitsFor(s[Len(t)], s[Len(s)])
    BY <2>1, <2>2 DEF StackInv
  <2>4. s[Len(t)].url \in URLs /\ s[Len(s)].url \in Derived(s[Len(t)].url)
    BY <2>2, <2>3 DEF WaitsFor, Derived, Call
  <2>5. Answers(o, s[Len(t)].url, page)
    BY <1>5, <2>4, AnswersThrough
  <2> QED  BY <2>2, <2>3, <2>5 DEF WaitsFor
<1>6. page # NoPage /\ ~o.private => page.final \notin Private
  BY DEF Answers
<1> QED  BY <1>4, <1>5, <1>6 DEF t, ResultInv

-----------------------------------------------------------------------------
(* Requests.                                                               *)

LEMMA TopOfRequest ==
  ASSUME RequestsInv, NEW r \in Requests, calls[r] # << >>
  PROVE  /\ opts[r] \in Options /\ StackInv(opts[r], calls[r])
         /\ Top(r) = calls[r][Len(calls[r])]
         /\ Top(r) \in Call /\ CallInv(opts[r], Top(r))
         /\ ResultInv(opts[r], calls[r], result[r])
         /\ Top(r).pc \notin {"twin", "archive"} => result[r] = NoPage
<1>1. StackInv(opts[r], calls[r]) /\ ResultInv(opts[r], calls[r], result[r]) /\ opts[r] \in Options
  BY DEF RequestsInv
<1>2. Top(r) \in Call /\ CallInv(opts[r], Top(r))
  BY <1>1, TopOfStack DEF Top
<1>3. Top(r).pc \notin {"twin", "archive"} => result[r] = NoPage
  BY <1>1 DEF ResultInv, Top
<1> QED  BY <1>1, <1>2, <1>3 DEF Top

\* The other requests are not touched.
LEMMA OneRequest ==
  ASSUME RequestsInv, NEW r \in Requests, NEW s, NEW page \in Pages \union {NoPage},
         calls' = [calls EXCEPT ![r] = s], result' = [result EXCEPT ![r] = page],
         UNCHANGED opts,
         StackInv(opts[r], s), ResultInv(opts[r], s, page)
  PROVE  RequestsInv'
<1>1. s \in Seq(Call)
  BY DEF StackInv
<1>2. /\ opts' \in [Requests -> Options]
      /\ calls' \in [Requests -> Seq(Call)]
      /\ result' \in [Requests -> Pages \union {NoPage}]
  BY <1>1 DEF RequestsInv
<1>3. ASSUME NEW q \in Requests
      PROVE  StackInv(opts[q]', calls[q]') /\ ResultInv(opts[q]', calls[q]', result[q]')
  <2>1. calls[q]' = (IF q = r THEN s ELSE calls[q]) /\ result[q]' = (IF q = r THEN page ELSE result[q])
    BY DEF RequestsInv
  <2>2. opts[q]' = opts[q]
    OBVIOUS
  <2>3. StackInv(opts[q], calls[q]) /\ ResultInv(opts[q], calls[q], result[q])
    BY DEF RequestsInv
  <2> QED  BY <2>1, <2>2, <2>3
<1> QED  BY <1>2, <1>3 DEF RequestsInv, StackInv, ResultInv, CallInv, WaitsFor, Answers, Stores

LEMMA GoesOn ==
  ASSUME RequestsInv, NEW r \in Requests, calls[r] # << >>,
         NEW c \in Call, CallInv(opts[r], c), c.url = Top(r).url, c.nested = Top(r).nested,
         Become(r, c), UNCHANGED opts,
         \/ UNCHANGED result /\ result[r] = NoPage
         \/ result' = [result EXCEPT ![r] = NoPage]
  PROVE  RequestsInv'
<1> DEFINE s == [calls[r] EXCEPT ![Len(calls[r])] = c]
<1>1. StackInv(opts[r], s)
  BY TopOfRequest, BecomeKeeps
<1>2. calls' = [calls EXCEPT ![r] = s]
  BY DEF Become
<1>3. result' = [result EXCEPT ![r] = NoPage]
  BY DEF RequestsInv
<1> HIDE DEF s
<1>4. ResultInv(opts[r], s, NoPage)
  BY DEF ResultInv
<1> QED  BY <1>1, <1>2, <1>3, <1>4, OneRequest

LEMMA CallsFallback ==
  ASSUME RequestsInv, NEW r \in Requests, calls[r] # << >>, result[r] = NoPage,
         NEW u \in URLs, NEW place, NEW list, NEW c \in Call, CallInv(opts[r], c),
         c = [Top(r) EXCEPT !.pc = place, !.todo = list],
         WaitsFor(c, NewCall(opts[r], u, TRUE)),
         CallFallback(r, u, place, list), UNCHANGED <<opts, result>>
  PROVE  RequestsInv'
<1> DEFINE waiting == [calls[r] EXCEPT ![Len(calls[r])] = c]
           s == Append(waiting, NewCall(opts[r], u, TRUE))
<1>1. c.url = Top(r).url /\ c.nested = Top(r).nested
  BY TopOfRequest DEF Call
<1>2. StackInv(opts[r], waiting)
  BY <1>1, TopOfRequest, BecomeKeeps
<1>3. /\ calls[r] \in Seq(Call) /\ Len(calls[r]) \in 1..Len(calls[r])
  BY TopOfRequest, TopOfStack DEF StackInv
<1>4. waiting # << >> /\ Len(waiting) = Len(calls[r]) /\ waiting[Len(waiting)] = c
  <2>1. Len(waiting) = Len(calls[r]) /\ waiting[Len(calls[r])] = c
    BY <1>3, ExceptSeq
  <2>2. Len(waiting) # 0
    BY <1>3, <2>1
  <2> QED  BY <2>1, <2>2
<1>5. StackInv(opts[r], s)
  <2> HIDE DEF waiting
  <2> QED  BY <1>2, <1>4, PushKeeps, TopOfRequest
<1>6. calls' = [calls EXCEPT ![r] = s]
  BY <1>3 DEF CallFallback, Top
<1>7. result' = [result EXCEPT ![r] = NoPage]
  BY DEF RequestsInv
<1> HIDE DEF s
<1>8. ResultInv(opts[r], s, NoPage)
  BY DEF ResultInv
<1> QED  BY <1>5, <1>6, <1>7, <1>8, OneRequest

LEMMA Returns ==
  ASSUME RequestsInv, NEW r \in Requests, calls[r] # << >>,
         NEW page \in Pages \union {NoPage}, page # NoPage => Answers(opts[r], Top(r).url, page),
         Return(r, page), UNCHANGED opts
  PROVE  RequestsInv'
<1> DEFINE s == SubSeq(calls[r], 1, Len(calls[r]) - 1)
<1>1. StackInv(opts[r], s) /\ ResultInv(opts[r], s, page)
  BY TopOfRequest, PopKeeps
<1>2. calls' = [calls EXCEPT ![r] = s] /\ result' = [result EXCEPT ![r] = page]
  BY DEF Return
<1> HIDE DEF s
<1> QED  BY <1>1, <1>2, OneRequest

-----------------------------------------------------------------------------
(* The cache, and what is sent.                                            *)

LEMMA CacheStays ==
  ASSUME CacheInv, UNCHANGED cache
  PROVE  CacheInv'
BY DEF CacheInv, KeysNameContent

LEMMA NothingSent ==
  ASSUME SentInv, sent' = NoPage, runs' \in 0..MaxRuns
  PROVE  SentInv'
BY DEF SentInv, FetchesAllowed

LEMMA Sends ==
  ASSUME SentInv, NEW r \in Requests, NEW u \in URLs, Asks(r, u), MayFetch(r, u),
         UNCHANGED <<opts, runs>>
  PROVE  SentInv'
<1>1. sent' = [by |-> r, url |-> u] /\ sent'.by = r /\ sent'.url = u
  BY DEF Asks
<1>2. sent' \in [by : Requests, url : URLs]
  BY <1>1
<1>3. FetchesAllowed'
  BY <1>1 DEF FetchesAllowed, MayFetch
<1> QED  BY <1>2, <1>3 DEF SentInv

\* A call that fetches may.
LEMMA TopMayFetch ==
  ASSUME RequestsInv, NEW r \in Requests, At(r, "fetch")
  PROVE  Top(r).url \in URLs /\ MayFetch(r, Top(r).url)
<1>1. calls[r] # << >> /\ Top(r).pc = "fetch"
  BY DEF At
<1>2. Top(r) \in Call /\ CallInv(opts[r], Top(r))
  BY <1>1, TopOfRequest
<1> QED  BY <1>1, <1>2 DEF CallInv, MayFetch, Call

-----------------------------------------------------------------------------
(* Every action preserves the invariant.                                   *)

LEMMA SingleCall ==
  ASSUME NEW c \in Call
  PROVE  <<c>> \in Seq(Call) /\ Len(<<c>>) = 1 /\ <<c>>[1] = c
OBVIOUS

LEMMA BeginKeeps ==
  ASSUME PipelineIInv, NEW r \in Requests, Begin(r)
  PROVE  PipelineIInv'
<1>1. PICK o \in Options, u \in Requested :
        opts' = [opts EXCEPT ![r] = o] /\ calls' = [calls EXCEPT ![r] = <<NewCall(o, u, FALSE)>>]
  BY DEF Begin
<1> DEFINE s == <<NewCall(o, u, FALSE)>>
<1>2. /\ NewCall(o, u, FALSE) \in Call /\ CallInv(o, NewCall(o, u, FALSE))
      /\ NewCall(o, u, FALSE).nested = FALSE
  BY NewCallIsCall, PipelineAssumption
<1>3. s \in Seq(Call) /\ Len(s) = 1 /\ s[1] = NewCall(o, u, FALSE)
  BY <1>2, SingleCall
<1> HIDE DEF s
<1>4. StackInv(o, s) /\ ResultInv(o, s, NoPage)
  <2>1. \A i \in 1..Len(s) : i = 1
    BY <1>3
  <2>2. \A i \in 1..(Len(s) - 1) : FALSE
    BY <1>3
  <2> DEFINE new == NewCall(o, u, FALSE)
  <2>3. CallInv(o, new) /\ ~new.nested
    BY <1>2
  <2>4. s[1] = new
    BY <1>3
  <2> HIDE DEF new
  <2>5. ASSUME NEW i \in 1..Len(s) PROVE CallInv(o, s[i]) /\ (s[i].nested <=> i > 1)
    <3>1. i = 1
      BY <2>1
    <3>2. s[i] = new /\ ~(i > 1)
      BY <2>4, <3>1
    <3> QED  BY <2>3, <3>2
  <2> QED  BY <1>3, <2>2, <2>5 DEF StackInv, ResultInv
<1>5. RequestsInv'
  <2>1. /\ opts' \in [Requests -> Options]
        /\ calls' \in [Requests -> Seq(Call)]
        /\ result' = [result EXCEPT ![r] = NoPage]
        /\ result' \in [Requests -> Pages \union {NoPage}]
    BY <1>1, <1>3 DEF RequestsInv, PipelineIInv, Begin, s
  <2>2. ASSUME NEW q \in Requests
        PROVE  StackInv(opts[q]', calls[q]') /\ ResultInv(opts[q]', calls[q]', result[q]')
    <3>1. CASE q = r
      <4>1. opts[q]' = o /\ calls[q]' = s /\ result[q]' = NoPage
        BY <1>1, <2>1, <3>1 DEF RequestsInv, PipelineIInv, s
      <4> QED  BY <1>4, <4>1
    <3>2. CASE q # r
      <4>1. opts[q]' = opts[q] /\ calls[q]' = calls[q] /\ result[q]' = result[q]
        BY <1>1, <2>1, <3>2 DEF RequestsInv, PipelineIInv, s
      <4>2. StackInv(opts[q], calls[q]) /\ ResultInv(opts[q], calls[q], result[q])
        BY DEF RequestsInv, PipelineIInv
      <4> QED  BY <4>1, <4>2
    <3> QED  BY <3>1, <3>2
  <2> QED  BY <2>1, <2>2 DEF RequestsInv, StackInv, ResultInv, CallInv, WaitsFor, Answers, Stores
<1>6. SentInv'
  <2>1. runs' \in 0..MaxRuns
    BY PipelineAssumption DEF Begin, PipelineIInv, SentInv
  <2> QED  BY <2>1, NothingSent DEF Begin, PipelineIInv
<1>7. CacheInv'
  BY CacheStays DEF Begin, PipelineIInv
<1> QED  BY <1>5, <1>6, <1>7 DEF PipelineIInv

LEMMA GuardKeeps ==
  ASSUME PipelineIInv, NEW r \in Requests, Guard(r)
  PROVE  PipelineIInv'
<1>1. RequestsInv /\ calls[r] # << >> /\ Top(r).pc = "guard" /\ UNCHANGED opts
  BY DEF PipelineIInv, Guard, At
<1>2. Top(r) \in Call /\ CallInv(opts[r], Top(r)) /\ result[r] = NoPage
  BY <1>1, TopOfRequest
<1>3. RequestsInv'
  <2>1. CASE /\ ~opts[r].private => Top(r).url \notin Private
             /\ MoveTo(r, "lookup") /\ UNCHANGED result
    <3> DEFINE c == [Top(r) EXCEPT !.pc = "lookup"]
    <3>1. /\ c \in Call /\ c.url = Top(r).url /\ c.nested = Top(r).nested
          /\ c.page = Top(r).page /\ c.pc = "lookup"
      BY <1>2 DEF Call
    <3>2. Become(r, c)
      BY <2>1 DEF MoveTo
    <3> HIDE DEF c
    <3>3. CallInv(opts[r], c)
      BY <1>1, <1>2, <2>1, <3>1 DEF CallInv
    <3> QED  BY <1>1, <1>2, <2>1, <3>1, <3>2, <3>3, GoesOn
  <2>2. CASE Return(r, NoPage)
    BY <1>1, <2>2, Returns
  <2> QED  BY <2>1, <2>2 DEF Guard
<1>4. CacheInv' /\ SentInv'
  BY CacheStays, NothingSent DEF Guard, PipelineIInv, SentInv
<1> QED  BY <1>3, <1>4 DEF PipelineIInv

\* A hit gives what may be stored for the URL.
LEMMA HitAnswers ==
  ASSUME PipelineIInv, NEW r \in Requests, Hit(r)
  PROVE  Stores(opts[r], Top(r).url, cache[Key(r)]) /\ cache[Key(r)] \in Pages
<1>1. RequestsInv /\ calls[r] # << >> /\ Top(r).pc = "lookup"
  BY DEF PipelineIInv, Hit, At
<1>2. Top(r) \in Call /\ CallInv(opts[r], Top(r)) /\ opts[r] \in Options
  BY <1>1, TopOfRequest
<1> DEFINE page == cache[Key(r)]
<1>3. Key(r) \in CacheKeys /\ Key(r).url = Top(r).url /\ Key(r).shape = opts[r].shape
  BY <1>2 DEF Key, CacheKeys, Shapes, Call
<1>4. /\ page \in Pages /\ page.from \in Stands[Top(r).url] /\ page.shape = opts[r].shape
      /\ page.from # Top(r).url => page.long
  BY <1>3 DEF PipelineIInv, CacheInv, KeysNameContent, Hit, Servable
<1>5. ~opts[r].private => page.final \notin Private
  BY <1>1, <1>2 DEF Hit, Servable, CallInv
<1> QED  BY <1>4, <1>5 DEF Stores, Answers

LEMMA HitKeeps ==
  ASSUME PipelineIInv, NEW r \in Requests, Hit(r)
  PROVE  PipelineIInv'
<1>1. /\ RequestsInv /\ calls[r] # << >> /\ UNCHANGED opts
      /\ Return(r, cache[Key(r)])
  BY DEF PipelineIInv, Hit, At
<1>2. Answers(opts[r], Top(r).url, cache[Key(r)]) /\ cache[Key(r)] \in Pages
  BY HitAnswers DEF Stores
<1>3. RequestsInv'
  BY <1>1, <1>2, Returns
<1>4. CacheInv' /\ SentInv'
  BY CacheStays, NothingSent DEF Hit, PipelineIInv, SentInv
<1> QED  BY <1>3, <1>4 DEF PipelineIInv

LEMMA LookupEnds ==
  ASSUME PipelineIInv, NEW r \in Requests, HitRefused(r) \/ Miss(r)
  PROVE  PipelineIInv'
<1>1. RequestsInv /\ calls[r] # << >> /\ Top(r).pc = "lookup" /\ UNCHANGED <<opts, result>>
  BY DEF PipelineIInv, HitRefused, Miss, At
<1>2. Top(r) \in Call /\ CallInv(opts[r], Top(r)) /\ result[r] = NoPage
  BY <1>1, TopOfRequest
<1>3. PICK caching \in BOOLEAN :
        Become(r, [Top(r) EXCEPT !.pc = "robots", !.caching = caching])
  <2>1. CASE HitRefused(r)
    BY <2>1 DEF HitRefused
  <2>2. CASE Miss(r)
    <3>1. Top(r).caching \in BOOLEAN
      BY <1>2 DEF Call
    <3>2. [Top(r) EXCEPT !.pc = "robots"] = [Top(r) EXCEPT !.pc = "robots", !.caching = Top(r).caching]
      BY <1>2 DEF Call
    <3> QED  BY <2>2, <3>1, <3>2 DEF Miss, MoveTo
  <2> QED  BY <2>1, <2>2
<1> DEFINE c == [Top(r) EXCEPT !.pc = "robots", !.caching = caching]
<1>4. /\ c \in Call /\ c.url = Top(r).url /\ c.nested = Top(r).nested
      /\ c.page = Top(r).page /\ c.pc = "robots"
  BY <1>2 DEF Call
<1> HIDE DEF c
<1>5. CallInv(opts[r], c)
  BY <1>1, <1>2, <1>4 DEF CallInv
<1>6. RequestsInv'
  BY <1>1, <1>2, <1>3, <1>4, <1>5, GoesOn DEF c
<1>7. CacheInv' /\ SentInv'
  BY CacheStays, NothingSent DEF HitRefused, Miss, PipelineIInv, SentInv
<1> QED  BY <1>6, <1>7 DEF PipelineIInv

LEMMA AskRobotsKeeps ==
  ASSUME PipelineIInv, NEW r \in Requests, AskRobots(r)
  PROVE  PipelineIInv'
<1>1. RequestsInv /\ calls[r] # << >> /\ Top(r).pc = "robots" /\ UNCHANGED opts
  BY DEF PipelineIInv, AskRobots, At
<1>2. Top(r) \in Call /\ CallInv(opts[r], Top(r)) /\ result[r] = NoPage
  BY <1>1, TopOfRequest
<1>3. RequestsInv'
  <2>1. CASE opts[r].robots /\ Top(r).url \in Disallowed
    BY <1>1, <2>1, Returns DEF AskRobots
  <2>2. CASE ~(opts[r].robots /\ Top(r).url \in Disallowed)
    <3> DEFINE c == [Top(r) EXCEPT !.pc = "fetch"]
    <3>1. /\ c \in Call /\ c.url = Top(r).url /\ c.nested = Top(r).nested
          /\ c.page = Top(r).page /\ c.pc = "fetch"
      BY <1>2 DEF Call
    <3>2. Become(r, c) /\ UNCHANGED result
      BY <2>2 DEF AskRobots, MoveTo
    <3> HIDE DEF c
    <3>3. CallInv(opts[r], c)
      BY <1>1, <1>2, <2>2, <3>1 DEF CallInv
    <3> QED  BY <1>1, <1>2, <3>1, <3>2, <3>3, GoesOn
  <2> QED  BY <2>1, <2>2
<1>4. CacheInv' /\ SentInv'
  BY CacheStays, NothingSent DEF AskRobots, PipelineIInv, SentInv
<1> QED  BY <1>3, <1>4 DEF PipelineIInv

\* A search for the missing page, from a call without a page.
LEMMA SearchKeeps ==
  ASSUME RequestsInv, NEW r \in Requests, calls[r] # << >>, result[r] = NoPage,
         Top(r).pc \in {"fetch", "archive", "probe", "sitemaps"},
         NEW place \in {"probe", "sitemaps"}, NEW list \in Seq(URLs),
         Search(r, place, list), UNCHANGED <<opts, result>>
  PROVE  RequestsInv'
<1>1. Top(r) \in Call /\ CallInv(opts[r], Top(r))
  BY TopOfRequest
<1> DEFINE c == [Top(r) EXCEPT !.pc = place, !.todo = list]
<1>2. /\ c \in Call /\ c.url = Top(r).url /\ c.nested = Top(r).nested
      /\ c.page = Top(r).page /\ c.pc = place
  BY <1>1 DEF Call
<1>3. Become(r, c)
  BY DEF Search
<1> HIDE DEF c
<1>4. CallInv(opts[r], c)
  BY <1>1, <1>2 DEF CallInv
<1> QED  BY <1>2, <1>3, <1>4, GoesOn

LEMMA FetchFailsKeeps ==
  ASSUME PipelineIInv, NEW r \in Requests, FetchFails(r)
  PROVE  PipelineIInv'
<1>1. /\ RequestsInv /\ At(r, "fetch") /\ calls[r] # << >> /\ UNCHANGED <<cache, opts, runs>>
      /\ Return(r, NoPage) /\ Asks(r, Top(r).url)
  BY DEF PipelineIInv, FetchFails, At
<1>2. RequestsInv'
  BY <1>1, Returns
<1>3. SentInv'
  BY <1>1, TopMayFetch, Sends DEF PipelineIInv
<1> QED  BY <1>1, <1>2, <1>3, CacheStays DEF PipelineIInv

LEMMA FetchRefusedKeeps ==
  ASSUME PipelineIInv, NEW r \in Requests, FetchRefused(r)
  PROVE  PipelineIInv'
<1>1. /\ RequestsInv /\ At(r, "fetch") /\ calls[r] # << >> /\ Top(r).pc = "fetch"
      /\ UNCHANGED <<cache, opts, runs>> /\ Asks(r, Top(r).url)
  BY DEF PipelineIInv, FetchRefused, At
<1>2. /\ Top(r) \in Call /\ CallInv(opts[r], Top(r)) /\ opts[r] \in Options /\ result[r] = NoPage
      /\ Top(r).url \in URLs
  BY <1>1, TopOfRequest DEF Call
<1>3. RequestsInv'
  <2>1. CASE Return(r, NoPage)
    BY <1>1, <2>1, Returns
  <2>2. CASE /\ opts[r].wayback /\ Top(r).url \notin Archived
             /\ CallFallback(r, Archive[Top(r).url], "archive", << >>) /\ UNCHANGED result
    <3> DEFINE c == [Top(r) EXCEPT !.pc = "archive", !.todo = << >>]
    <3>1. /\ c \in Call /\ c.url = Top(r).url /\ c.page = Top(r).page /\ c.pc = "archive"
      BY <1>2, EmptySeq DEF Call
    <3>2. CallInv(opts[r], c)
      <4> HIDE DEF c
      <4> QED  BY <1>1, <1>2, <2>2, <3>1 DEF CallInv
    <3>3. Archive[Top(r).url] \in URLs
      BY <1>2, PipelineAssumption
    <3>4. NewCall(opts[r], Archive[Top(r).url], TRUE).url = Archive[Top(r).url]
      BY <1>2, <3>3, NewCallIsCall
    <3>5. WaitsFor(c, NewCall(opts[r], Archive[Top(r).url], TRUE))
      <4> HIDE DEF c
      <4> QED  BY <3>1, <3>4 DEF WaitsFor
    <3> QED  BY <1>1, <1>2, <2>2, <3>1, <3>2, <3>3, <3>5, CallsFallback
  <2>3. CASE Search(r, "probe", Ancestors[Top(r).url]) /\ UNCHANGED result
    <3>1. Ancestors[Top(r).url] \in Seq(URLs)
      BY <1>2, PipelineAssumption
    <3> QED  BY <1>1, <1>2, <2>3, <3>1, SearchKeeps
  <2> QED  BY <2>1, <2>2, <2>3 DEF FetchRefused
<1>4. SentInv'
  BY <1>1, TopMayFetch, Sends DEF PipelineIInv
<1> QED  BY <1>1, <1>3, <1>4, CacheStays DEF PipelineIInv

LEMMA ArchiveAnswersKeeps ==
  ASSUME PipelineIInv, NEW r \in Requests, ArchiveAnswers(r)
  PROVE  PipelineIInv'
<1>1. RequestsInv /\ calls[r] # << >> /\ Top(r).pc = "archive" /\ UNCHANGED opts
  BY DEF PipelineIInv, ArchiveAnswers, At
<1>2. Top(r) \in Call /\ ResultInv(opts[r], calls[r], result[r])
  BY <1>1, TopOfRequest
<1>3. RequestsInv'
  <2>1. CASE result[r] # NoPage
    <3>1. Answers(opts[r], Top(r).url, result[r]) /\ result[r] \in Pages
      BY <1>1, <1>2, <2>1 DEF ResultInv, Top, Answers
    <3> QED  BY <1>1, <2>1, <3>1, Returns DEF ArchiveAnswers
  <2>2. CASE result[r] = NoPage
    <3>1. Ancestors[Top(r).url] \in Seq(URLs)
      BY <1>2, PipelineAssumption DEF Call
    <3>2. Search(r, "probe", Ancestors[Top(r).url]) /\ UNCHANGED result
      BY <2>2 DEF ArchiveAnswers
    <3> QED  BY <1>1, <2>2, <3>1, <3>2, SearchKeeps
  <2> QED  BY <2>1, <2>2
<1>4. CacheInv' /\ SentInv'
  BY CacheStays, NothingSent DEF ArchiveAnswers, PipelineIInv, SentInv
<1> QED  BY <1>3, <1>4 DEF PipelineIInv

LEMMA FallbacksAreDerived ==
  ASSUME NEW r \in Requests, NEW u \in URLs
  PROVE  Fallbacks(r, u) \in Seq(Derived(u)) /\ Fallbacks(r, u) \in Seq(URLs)
<1>1. Twin[u] \in Derived(u) /\ LLMs[u] \in Derived(u) /\ Archive[u] \in Derived(u)
  BY DEF Derived
<1>2. Fallbacks(r, u) \in Seq(Derived(u))
  BY <1>1 DEF Fallbacks
<1> QED  BY <1>2, DerivedIsURL, SeqMonotonic

LEMMA FetchPageKeeps ==
  ASSUME PipelineIInv, NEW r \in Requests, FetchPage(r)
  PROVE  PipelineIInv'
<1>1. /\ RequestsInv /\ At(r, "fetch") /\ calls[r] # << >> /\ Top(r).pc = "fetch"
      /\ UNCHANGED <<cache, opts, result, runs>> /\ Asks(r, Top(r).url)
  BY DEF PipelineIInv, FetchPage, At
<1> DEFINE u == Top(r).url
<1>2. /\ Top(r) \in Call /\ CallInv(opts[r], Top(r)) /\ opts[r] \in Options /\ result[r] = NoPage
      /\ u \in URLs
  BY <1>1, TopOfRequest DEF Call
<1> DEFINE Page(final, long) == [from |-> u, final |-> final, shape |-> opts[r].shape, long |-> long]
<1>3. PICK final \in Redirects(r, u), long \in BOOLEAN, thin \in BOOLEAN :
        Become(r, IF thin /\ ~Top(r).nested
                    THEN [Keep(Top(r), Page(final, long)) EXCEPT !.pc = "fallback",
                                                                 !.todo = Fallbacks(r, u)]
                    ELSE [Keep(Top(r), Page(final, long)) EXCEPT !.pc = "store"])
  BY DEF FetchPage
<1> DEFINE page == Page(final, long)
<1>4. final \in URLs /\ (~opts[r].private => final \notin Private)
  BY <1>2, PipelineAssumption DEF Redirects
<1>5. page \in Pages /\ page # NoPage
  BY <1>2, <1>4, NoneAssumption DEF Pages, Shapes
<1>6. page.from = u /\ page.final = final /\ page.shape = opts[r].shape
  OBVIOUS
<1> HIDE DEF page
<1>7. Stores(opts[r], u, page)
  BY <1>2, <1>4, <1>5, <1>6, StandsForItself DEF Stores, Answers
<1>8. RequestsInv'
  <2>1. CASE thin /\ ~Top(r).nested
    <3> DEFINE c == [Keep(Top(r), page) EXCEPT !.pc = "fallback", !.todo = Fallbacks(r, u)]
    <3>1. /\ c \in Call /\ c.url = u /\ c.nested = Top(r).nested
          /\ c.page = page /\ c.pc = "fallback" /\ c.todo = Fallbacks(r, u)
      BY <1>2, <1>5, FallbacksAreDerived DEF Call, Keep
    <3>2. Become(r, c)
      BY <1>3, <2>1 DEF page
    <3> HIDE DEF c
    <3>3. CallInv(opts[r], c)
      BY <1>1, <1>2, <1>5, <1>7, <2>1, <3>1, FallbacksAreDerived DEF CallInv
    <3> QED  BY <1>1, <1>2, <3>1, <3>2, <3>3, GoesOn
  <2>2. CASE ~(thin /\ ~Top(r).nested)
    <3> DEFINE c == [Keep(Top(r), page) EXCEPT !.pc = "store"]
    <3>1. /\ c \in Call /\ c.url = u /\ c.nested = Top(r).nested
          /\ c.page = page /\ c.pc = "store"
      BY <1>2, <1>5 DEF Call, Keep
    <3>2. Become(r, c)
      BY <1>3, <2>2 DEF page
    <3> HIDE DEF c
    <3>3. CallInv(opts[r], c)
      BY <1>1, <1>2, <1>5, <1>7, <3>1 DEF CallInv
    <3> QED  BY <1>1, <1>2, <3>1, <3>2, <3>3, GoesOn
  <2> QED  BY <2>1, <2>2
<1>9. SentInv'
  BY <1>1, TopMayFetch, Sends DEF PipelineIInv
<1> QED  BY <1>1, <1>8, <1>9, CacheStays DEF PipelineIInv

LEMMA TryFallbackKeeps ==
  ASSUME PipelineIInv, NEW r \in Requests, TryFallback(r)
  PROVE  PipelineIInv'
<1>1. /\ RequestsInv /\ calls[r] # << >> /\ Top(r).pc = "fallback"
      /\ UNCHANGED <<cache, opts, result, runs>>
  BY DEF PipelineIInv, TryFallback, At
<1>2. /\ Top(r) \in Call /\ CallInv(opts[r], Top(r)) /\ opts[r] \in Options /\ result[r] = NoPage
      /\ Top(r).url \in URLs
  BY <1>1, TopOfRequest DEF Call
<1>3. RequestsInv'
  <2>1. CASE Top(r).todo = << >>
    <3> DEFINE c == [Top(r) EXCEPT !.pc = "store"]
    <3>1. /\ c \in Call /\ c.url = Top(r).url /\ c.nested = Top(r).nested
          /\ c.page = Top(r).page /\ c.pc = "store"
      BY <1>2 DEF Call
    <3>2. Become(r, c)
      BY <2>1 DEF TryFallback, MoveTo
    <3> HIDE DEF c
    <3>3. CallInv(opts[r], c)
      BY <1>1, <1>2, <3>1 DEF CallInv
    <3> QED  BY <1>1, <1>2, <3>1, <3>2, <3>3, GoesOn
  <2>2. CASE Top(r).todo # << >>
    <3> DEFINE u == Head(Top(r).todo)
    <3>1. Top(r).todo \in Seq(Derived(Top(r).url)) /\ ~Top(r).nested
      BY <1>1, <1>2 DEF CallInv
    <3>2. u \in Derived(Top(r).url) /\ Rest(r) \in Seq(Derived(Top(r).url))
      BY <2>2, <3>1, HeadTailProperties DEF Rest
    <3>3. u \in URLs /\ Rest(r) \in Seq(URLs)
      BY <1>2, <3>2, DerivedIsURL, SeqMonotonic
    <3>4. CallFallback(r, u, "twin", Rest(r))
      BY <2>2 DEF TryFallback
    <3> HIDE DEF u
    <3> DEFINE c == [Top(r) EXCEPT !.pc = "twin", !.todo = Rest(r)]
    <3>5. /\ c \in Call /\ c.url = Top(r).url /\ c.nested = Top(r).nested
          /\ c.page = Top(r).page /\ c.pc = "twin" /\ c.todo = Rest(r)
      BY <1>2, <3>3 DEF Call
    <3>6. CallInv(opts[r], c)
      <4> HIDE DEF c
      <4> QED  BY <1>1, <1>2, <3>1, <3>2, <3>5 DEF CallInv
    <3>7. NewCall(opts[r], u, TRUE).url = u
      BY <1>2, <3>3, NewCallIsCall
    <3>8. WaitsFor(c, NewCall(opts[r], u, TRUE))
      <4> HIDE DEF c
      <4> QED  BY <3>2, <3>5, <3>7 DEF WaitsFor
    <3> QED  BY <1>1, <1>2, <3>3, <3>4, <3>5, <3>6, <3>8, CallsFallback
  <2> QED  BY <2>1, <2>2
<1>4. CacheInv' /\ SentInv'
  BY CacheStays, NothingSent DEF TryFallback, PipelineIInv, SentInv
<1> QED  BY <1>3, <1>4 DEF PipelineIInv

LEMMA FallbackAnswersKeeps ==
  ASSUME PipelineIInv, NEW r \in Requests, FallbackAnswers(r)
  PROVE  PipelineIInv'
<1>1. /\ RequestsInv /\ calls[r] # << >> /\ Top(r).pc = "twin"
      /\ UNCHANGED <<cache, opts, runs>> /\ result' = [result EXCEPT ![r] = NoPage]
  BY DEF PipelineIInv, FallbackAnswers, At
<1>2. /\ Top(r) \in Call /\ CallInv(opts[r], Top(r))
      /\ ResultInv(opts[r], calls[r], result[r])
  BY <1>1, TopOfRequest
<1>3. RequestsInv'
  <2>1. CASE result[r] = NoPage
    <3> DEFINE c == [Top(r) EXCEPT !.pc = "fallback"]
    <3>1. /\ c \in Call /\ c.url = Top(r).url /\ c.nested = Top(r).nested
          /\ c.page = Top(r).page /\ c.pc = "fallback" /\ c.todo = Top(r).todo
      BY <1>2 DEF Call
    <3>2. Become(r, c)
      BY <2>1 DEF FallbackAnswers, Better
    <3> HIDE DEF c
    <3>3. CallInv(opts[r], c)
      BY <1>1, <1>2, <3>1 DEF CallInv
    <3> QED  BY <1>1, <3>1, <3>2, <3>3, GoesOn
  <2>2. CASE result[r] # NoPage /\ Better(result[r])
    <3>1. Stores(opts[r], Top(r).url, result[r]) /\ result[r] \in Pages
      BY <1>1, <1>2, <2>2 DEF ResultInv, Top, Better, Stores, Answers
    <3> DEFINE c == [Keep(Top(r), result[r]) EXCEPT !.pc = "store"]
    <3>2. /\ c \in Call /\ c.url = Top(r).url /\ c.nested = Top(r).nested
          /\ c.page = result[r] /\ c.pc = "store"
      BY <1>2, <3>1 DEF Call, Keep
    <3>3. Become(r, c)
      BY <2>2 DEF FallbackAnswers
    <3> HIDE DEF c
    <3>4. CallInv(opts[r], c)
      BY <1>1, <1>2, <2>2, <3>1, <3>2 DEF CallInv
    <3> QED  BY <1>1, <3>2, <3>3, <3>4, GoesOn
  <2>3. CASE result[r] # NoPage /\ ~Better(result[r])
    <3> DEFINE c == [Top(r) EXCEPT !.pc = "store"]
    <3>1. /\ c \in Call /\ c.url = Top(r).url /\ c.nested = Top(r).nested
          /\ c.page = Top(r).page /\ c.pc = "store"
      BY <1>2 DEF Call
    <3>2. Become(r, c)
      BY <2>3 DEF FallbackAnswers
    <3> HIDE DEF c
    <3>3. CallInv(opts[r], c)
      BY <1>1, <1>2, <3>1 DEF CallInv
    <3> QED  BY <1>1, <3>1, <3>2, <3>3, GoesOn
  <2> QED  BY <2>1, <2>2, <2>3
<1>4. CacheInv' /\ SentInv'
  BY CacheStays, NothingSent DEF FallbackAnswers, PipelineIInv, SentInv
<1> QED  BY <1>3, <1>4 DEF PipelineIInv

LEMMA StoreKeeps ==
  ASSUME PipelineIInv, NEW r \in Requests, Store(r)
  PROVE  PipelineIInv'
<1>1. RequestsInv /\ calls[r] # << >> /\ Top(r).pc = "store" /\ UNCHANGED opts
  BY DEF PipelineIInv, Store, At
<1>2. /\ Top(r) \in Call /\ CallInv(opts[r], Top(r)) /\ opts[r] \in Options
  BY <1>1, TopOfRequest
<1> DEFINE page == Top(r).page
<1>3. Stores(opts[r], Top(r).url, page) /\ page \in Pages
  BY <1>1, <1>2 DEF CallInv, Stores, Answers
<1>4. RequestsInv'
  BY <1>1, <1>3, Returns DEF Store, Stores
<1>5. CacheInv'
  <2>1. CASE cache' = [cache EXCEPT ![Key(r)] = page]
    <3>1. Key(r) \in CacheKeys /\ Key(r).url = Top(r).url /\ Key(r).shape = opts[r].shape
      BY <1>2 DEF Key, CacheKeys, Shapes, Call
    <3>2. cache \in [CacheKeys -> Pages \union {NoPage}] /\ KeysNameContent
      BY DEF PipelineIInv, CacheInv
    <3> HIDE DEF page
    <3>3. cache' \in [CacheKeys -> Pages \union {NoPage}]
      BY <1>3, <2>1, <3>2
    <3>4. ASSUME NEW k \in CacheKeys, cache'[k] # NoPage
          PROVE  /\ cache'[k].from \in Stands[k.url] /\ cache'[k].shape = k.shape
                 /\ cache'[k].from # k.url => cache'[k].long
      <4>1. CASE k = Key(r)
        <5>1. cache'[k] = page
          BY <2>1, <3>1, <3>2, <4>1
        <5> QED  BY <1>3, <3>1, <4>1, <5>1 DEF Stores, Answers
      <4>2. CASE k # Key(r)
        <5>1. cache'[k] = cache[k]
          BY <2>1, <3>2, <4>2
        <5> QED  BY <3>2, <3>4, <5>1 DEF KeysNameContent
      <4> QED  BY <4>1, <4>2
    <3> QED  BY <3>3, <3>4 DEF CacheInv, KeysNameContent
  <2>2. CASE UNCHANGED cache
    BY <2>2, CacheStays DEF PipelineIInv
  <2> QED  BY <2>1, <2>2 DEF Store
<1>6. SentInv'
  BY NothingSent DEF Store, PipelineIInv, SentInv
<1> QED  BY <1>4, <1>5, <1>6 DEF PipelineIInv

\* The head of what a search has still to try is a URL.
LEMMA SearchedIsURL ==
  ASSUME NEW r \in Requests, Top(r) \in Call, Top(r).todo # << >>
  PROVE  Head(Top(r).todo) \in URLs /\ Rest(r) \in Seq(URLs)
<1>1. Top(r).todo \in Seq(URLs)
  BY DEF Call
<1> QED  BY <1>1, HeadTailProperties DEF Rest

LEMMA ProbeEndsKeeps ==
  ASSUME PipelineIInv, NEW r \in Requests, ProbeEnds(r)
  PROVE  PipelineIInv'
<1>1. RequestsInv'
  BY Returns DEF ProbeEnds, At, PipelineIInv
<1>2. CacheInv' /\ SentInv'
  BY CacheStays, NothingSent DEF ProbeEnds, PipelineIInv, SentInv
<1> QED  BY <1>1, <1>2 DEF PipelineIInv

LEMMA ProbeKeeps ==
  ASSUME PipelineIInv, NEW r \in Requests, Probe(r)
  PROVE  PipelineIInv'
<1>1. /\ RequestsInv /\ calls[r] # << >> /\ Top(r).pc = "probe" /\ UNCHANGED <<cache, opts, runs>>
      /\ MayFetch(r, Head(Top(r).todo)) /\ Asks(r, Head(Top(r).todo))
  BY DEF PipelineIInv, Probe, At
<1>2. Top(r) \in Call /\ result[r] = NoPage
  BY <1>1, TopOfRequest
<1>3. Head(Top(r).todo) \in URLs /\ Rest(r) \in Seq(URLs)
  BY <1>2, SearchedIsURL DEF Probe
<1>4. RequestsInv'
  <2>1. CASE Search(r, "probe", Rest(r)) /\ UNCHANGED result
    BY <1>1, <1>2, <1>3, <2>1, SearchKeeps
  <2>2. CASE Return(r, NoPage)
    BY <1>1, <2>2, Returns
  <2>3. CASE Search(r, "sitemaps", Sitemaps) /\ UNCHANGED result
    <3>1. Sitemaps \in Seq(URLs)
      BY PipelineAssumption
    <3> QED  BY <1>1, <1>2, <2>3, <3>1, SearchKeeps
  <2> QED  BY <2>1, <2>2, <2>3 DEF Probe
<1>5. SentInv'
  BY <1>1, <1>3, Sends DEF PipelineIInv
<1> QED  BY <1>1, <1>4, <1>5, CacheStays DEF PipelineIInv

LEMMA SkipSitemapKeeps ==
  ASSUME PipelineIInv, NEW r \in Requests, SkipSitemap(r)
  PROVE  PipelineIInv'
<1>1. /\ RequestsInv /\ calls[r] # << >> /\ Top(r).pc = "sitemaps" /\ UNCHANGED opts
  BY DEF PipelineIInv, SkipSitemap, At
<1>2. Top(r) \in Call /\ result[r] = NoPage
  BY <1>1, TopOfRequest
<1>3. RequestsInv'
  <2>1. CASE Top(r).todo = << >>
    BY <1>1, <2>1, Returns DEF SkipSitemap
  <2>2. CASE Top(r).todo # << >>
    <3>1. Rest(r) \in Seq(URLs)
      BY <1>2, <2>2, SearchedIsURL
    <3>2. Search(r, "sitemaps", Rest(r)) /\ UNCHANGED result
      BY <2>2 DEF SkipSitemap
    <3> QED  BY <1>1, <1>2, <3>1, <3>2, SearchKeeps
  <2> QED  BY <2>1, <2>2
<1>4. CacheInv' /\ SentInv'
  BY CacheStays, NothingSent DEF SkipSitemap, PipelineIInv, SentInv
<1> QED  BY <1>3, <1>4 DEF PipelineIInv

LEMMA FetchSitemapKeeps ==
  ASSUME PipelineIInv, NEW r \in Requests, FetchSitemap(r)
  PROVE  PipelineIInv'
<1>1. /\ RequestsInv /\ calls[r] # << >> /\ Top(r).pc = "sitemaps"
      /\ UNCHANGED <<cache, opts, result, runs>>
      /\ MayFetch(r, Head(Top(r).todo)) /\ Asks(r, Head(Top(r).todo))
  BY DEF PipelineIInv, FetchSitemap, At
<1>2. Top(r) \in Call /\ result[r] = NoPage
  BY <1>1, TopOfRequest
<1>3. Head(Top(r).todo) \in URLs /\ Rest(r) \in Seq(URLs) /\ << >> \in Seq(URLs)
  BY <1>2, SearchedIsURL, EmptySeq DEF FetchSitemap
<1>4. PICK list \in Seq(URLs) : Search(r, "sitemaps", list)
  BY <1>3 DEF FetchSitemap
<1>5. RequestsInv'
  BY <1>1, <1>2, <1>4, SearchKeeps
<1>6. SentInv'
  BY <1>1, <1>3, Sends DEF PipelineIInv
<1> QED  BY <1>1, <1>5, <1>6, CacheStays DEF PipelineIInv

-----------------------------------------------------------------------------
(* The theorems.                                                           *)

\* PipelineIInv holds in every reachable state: what Run has checked of a URL
\* it remembers by its place, and a call that waits knows what for.
THEOREM PipelineInvariant == PipelineSpec => []PipelineIInv
<1>1. PipelineInit => PipelineIInv
  <2> SUFFICES ASSUME PipelineInit PROVE PipelineIInv
    OBVIOUS
  <2>1. << >> \in Seq(Call) /\ Len(<< >>) = 0
    BY EmptySeq
  <2>2. \A o : StackInv(o, << >>) /\ ResultInv(o, << >>, NoPage)
    BY <2>1 DEF StackInv, ResultInv
  <2>3. (CHOOSE o \in Options : TRUE) \in Options
    BY PipelineAssumption
  <2>4. RequestsInv
    BY <2>1, <2>2, <2>3 DEF PipelineInit, RequestsInv
  <2>5. CacheInv /\ SentInv
    BY PipelineAssumption DEF PipelineInit, CacheInv, KeysNameContent, SentInv, FetchesAllowed
  <2> QED  BY <2>4, <2>5 DEF PipelineIInv
<1>2. PipelineIInv /\ [PipelineNext]_pipelineVars => PipelineIInv'
  <2> SUFFICES ASSUME PipelineIInv, [PipelineNext]_pipelineVars PROVE PipelineIInv'
    OBVIOUS
  <2>1. CASE PipelineNext
    <3>1. PICK r \in Requests : Begin(r) \/ Proceed(r)
      BY <2>1 DEF PipelineNext
    <3> QED
      BY <3>1, BeginKeeps, GuardKeeps, HitKeeps, LookupEnds, AskRobotsKeeps, FetchFailsKeeps,
         FetchRefusedKeeps, ArchiveAnswersKeeps, FetchPageKeeps, TryFallbackKeeps,
         FallbackAnswersKeeps, StoreKeeps, ProbeEndsKeeps, ProbeKeeps, SkipSitemapKeeps,
         FetchSitemapKeeps
      DEF Proceed
  <2>2. CASE UNCHANGED pipelineVars
    <3>1. UNCHANGED <<cache, opts, calls, result, sent, runs>>
      BY <2>2 DEF pipelineVars
    <3>2. RequestsInv'
      BY <3>1 DEF PipelineIInv, RequestsInv, StackInv, ResultInv, CallInv, WaitsFor, Answers, Stores
    <3>3. CacheInv' /\ SentInv'
      BY <3>1, CacheStays DEF PipelineIInv, SentInv, FetchesAllowed
    <3> QED  BY <3>2, <3>3 DEF PipelineIInv
  <2> QED  BY <2>1, <2>2
<1> QED  BY <1>1, <1>2, PTL DEF PipelineSpec

\* The state of the pipeline is well typed; a call has a page from the time it
\* is fetched until it returns.
THEOREM PipelineTypeCorrect == PipelineSpec => []PipelineTypeOK
<1>1. PipelineIInv => PipelineTypeOK
  BY DEF PipelineIInv, RequestsInv, CacheInv, SentInv, StackInv, CallInv, PipelineTypeOK
<1> QED  BY <1>1, PipelineInvariant, PTL

\* The pipeline fetches only what the options of the request allow, whatever
\* the URL derives from (Run, probeAncestors and the sitemap search).
THEOREM FetchedIsAllowed == PipelineSpec => []FetchesAllowed
<1>1. PipelineIInv => FetchesAllowed
  BY DEF PipelineIInv, SentInv
<1> QED  BY <1>1, PipelineInvariant, PTL

\* A request without AllowPrivate gets no page that came from a private host,
\* whoever has stored it.
THEOREM ReturnedIsAllowed == PipelineSpec => []PagesAllowed
<1>1. PipelineIInv => PagesAllowed
  BY DEF PipelineIInv, RequestsInv, ResultInv, PagesAllowed
<1> QED  BY <1>1, PipelineInvariant, PTL

\* An entry of the cache is for its URL or what stands for it, and for the
\* options in its key (Run, CacheKey).
THEOREM CacheNamesContent == PipelineSpec => []KeysNameContent
<1>1. PipelineIInv => KeysNameContent
  BY DEF PipelineIInv, CacheInv
<1> QED  BY <1>1, PipelineInvariant, PTL

\* A stack of four needs three calls that wait: the second is nested, so it
\* waits for the archive, and the third cannot wait.
LEMMA StackOfThree ==
  ASSUME NEW o, NEW s, StackInv(o, s)
  PROVE  Len(s) <= 3
<1> SUFFICES ASSUME Len(s) > 3 PROVE FALSE
  BY LenProperties DEF StackInv
<1>1. Len(s) \in Nat /\ \A i \in 1..Len(s) : s[i] \in Call
  BY LenProperties, ElementOfSeq DEF StackInv
<1>2. WaitsFor(s[2], s[3]) /\ WaitsFor(s[3], s[4])
  <2>1. 2 \in 1..(Len(s) - 1) /\ 3 \in 1..(Len(s) - 1) /\ 2 + 1 = 3 /\ 3 + 1 = 4
    BY <1>1
  <2>2. \A i \in 1..(Len(s) - 1) : WaitsFor(s[i], s[i + 1])
    BY DEF StackInv
  <2>3. WaitsFor(s[2], s[2 + 1]) /\ WaitsFor(s[3], s[3 + 1])
    BY <2>1, <2>2
  <2> QED  BY <2>1, <2>3
<1>3. 2 \in 1..Len(s) /\ 3 \in 1..Len(s) /\ 2 > 1 /\ 3 > 1
  BY <1>1
<1>4. /\ CallInv(o, s[2]) /\ s[2].nested /\ s[2] \in Call
      /\ CallInv(o, s[3]) /\ s[3].nested
  BY <1>1, <1>3 DEF StackInv
<1>5. s[2].pc = "archive" /\ s[3].url = Archive[s[2].url]
  BY <1>2, <1>4 DEF WaitsFor, CallInv
<1>6. s[3].url \in Archived
  BY <1>4, <1>5, DerivedIsURL DEF Call
<1> QED  BY <1>2, <1>4, <1>6 DEF WaitsFor, CallInv

\* Fallbacks nest no deeper than the archive of a fallback (fetchAndProcess).
THEOREM NestingIsBounded == PipelineSpec => []NestingBounded
<1>1. PipelineIInv => NestingBounded
  BY StackOfThree DEF PipelineIInv, RequestsInv, NestingBounded
<1> QED  BY <1>1, PipelineInvariant, PTL

-----------------------------------------------------------------------------
(* What requests do for their callers: the contract.                       *)

\* What a call has still to try is what its place accounts for, and so is what
\* it may do with the cache and the archive.
CallAsks(o, c) ==
  /\ c.caching => o.cache
  /\ c.pc = "archive" => o.wayback
  /\ c.pc \in {"fallback", "twin"} => c.todo \in Seq(Contract!Own(o, c.url))
  /\ c.pc = "probe" => c.todo \in Seq(Contract!Elements(Ancestors[c.url]))
  /\ c.pc = "sitemaps" => o.robots /\ c.todo \in Seq(Contract!Elements(Sitemaps))

StackAsks(o, s) ==
  \A i \in 1..Len(s) : CallAsks(o, s[i]) /\ s[i].url \in Contract!Own(o, s[1].url)

AsksInv == \A r \in Requests : StackAsks(opts[r], calls[r])

LEMMA OwnURLs ==
  ASSUME NEW o, NEW u \in URLs
  PROVE  /\ u \in Contract!Own(o, u) /\ Twin[u] \in Contract!Own(o, u)
         /\ LLMs[u] \in Contract!Own(o, u)
         /\ \A v \in Contract!Own(o, u) :
              /\ v \in URLs
              /\ o.wayback /\ v \notin Archived => Archive[v] \in Contract!Own(o, u)
<1> DEFINE derived == {u, Twin[u], LLMs[u]}
<1>1. derived \subseteq URLs
  BY PipelineAssumption
<1>2. Contract!Own(o, u) =
        derived \union {Archive[v] : v \in IF o.wayback THEN derived \ Archived ELSE {}}
  BY DEF Contract!Own
<1>3. ASSUME NEW v \in Contract!Own(o, u) PROVE v \in derived \/ v \in Archived
  BY <1>1, <1>2, PipelineAssumption
<1>4. Archived \subseteq URLs
  BY PipelineAssumption
<1> QED  BY <1>1, <1>2, <1>3, <1>4

LEMMA FallbacksAreOwn ==
  ASSUME NEW r \in Requests, NEW u \in URLs
  PROVE  Fallbacks(r, u) \in Seq(Contract!Own(opts[r], u))
<1>1. /\ u \in Contract!Own(opts[r], u) /\ Twin[u] \in Contract!Own(opts[r], u)
      /\ LLMs[u] \in Contract!Own(opts[r], u)
      /\ opts[r].wayback /\ u \notin Archived => Archive[u] \in Contract!Own(opts[r], u)
  BY OwnURLs
<1> DEFINE S == Contract!Own(opts[r], u)
<1> HIDE DEF S
<1>2. Twin[u] \in S /\ LLMs[u] \in S /\ (opts[r].wayback /\ u \notin Archived => Archive[u] \in S)
  BY <1>1 DEF S
<1>3. Fallbacks(r, u) \in Seq(S)
  BY <1>2 DEF Fallbacks
<1> QED  BY <1>3 DEF S

\* A sequence is one of its own elements.
LEMMA SeqOfElements ==
  ASSUME NEW s \in Seq(URLs)
  PROVE  s \in Seq(Contract!Elements(s))
<1>1. Len(s) \in Nat /\ s \in [1..Len(s) -> URLs]
  BY LenProperties
<1>2. s \in [1..Len(s) -> Contract!Elements(s)]
  BY <1>1 DEF Contract!Elements
<1> QED  BY <1>1, <1>2, SeqDef

LEMMA AskBecome ==
  ASSUME NEW o, NEW s, StackInv(o, s), s # << >>, StackAsks(o, s),
         NEW c \in Call, c.url = s[Len(s)].url, CallAsks(o, c),
         NEW t, t = [s EXCEPT ![Len(s)] = c]
  PROVE  StackAsks(o, t) /\ t # << >> /\ t[1].url = s[1].url
<1>1. s \in Seq(Call) /\ Len(s) \in Nat /\ Len(s) >= 1 /\ Len(s) \in 1..Len(s) /\ 1 \in 1..Len(s)
  BY TopOfStack DEF StackInv
<1>2. /\ t \in Seq(Call) /\ Len(t) = Len(s)
      /\ \A j \in 1..Len(s) : t[j] = IF j = Len(s) THEN c ELSE s[j]
  BY <1>1, ExceptSeq
<1>3. t # << >>
  BY <1>1, <1>2, EmptySeq
<1>4. \A j \in 1..Len(s) : t[j].url = s[j].url
  BY <1>1, <1>2
<1>5. StackAsks(o, t)
  BY <1>1, <1>2, <1>4 DEF StackAsks
<1>6. t[1].url = s[1].url
  BY <1>1, <1>4
<1> QED  BY <1>3, <1>5, <1>6

LEMMA AskPush ==
  ASSUME NEW o \in Options, NEW s, StackInv(o, s), s # << >>, StackAsks(o, s),
         NEW u \in Contract!Own(o, s[1].url), u \in URLs
  PROVE  LET t == Append(s, NewCall(o, u, TRUE))
         IN  StackAsks(o, t) /\ t # << >> /\ t[1].url = s[1].url
<1> DEFINE new == NewCall(o, u, TRUE)
           t == Append(s, new)
<1>1. s \in Seq(Call) /\ Len(s) \in Nat /\ Len(s) >= 1 /\ 1 \in 1..Len(s)
  BY TopOfStack DEF StackInv
<1>2. new \in Call /\ new.url = u
  BY NewCallIsCall
<1>3. CallAsks(o, new)
  BY DEF NewCall, CallAsks
<1>4. /\ t \in Seq(Call) /\ Len(t) = Len(s) + 1
      /\ \A j \in 1..Len(s) : t[j] = s[j]
      /\ t[Len(s) + 1] = new
  <2> HIDE DEF new
  <2> QED  BY <1>1, <1>2, AppendProperties
<1> HIDE DEF new, t
<1>5. t # << >>
  BY <1>1, <1>4, EmptySeq
<1>6. t[1] = s[1]
  BY <1>1, <1>4
<1>7. ASSUME NEW i \in 1..Len(t)
      PROVE  CallAsks(o, t[i]) /\ t[i].url \in Contract!Own(o, s[1].url)
  <2>1. CASE i \in 1..Len(s)
    BY <1>4, <2>1 DEF StackAsks
  <2>2. CASE i = Len(s) + 1
    BY <1>2, <1>3, <1>4, <2>2
  <2> QED  BY <1>1, <1>4, <2>1, <2>2
<1> QED  BY <1>5, <1>6, <1>7 DEF StackAsks, t, new

LEMMA AskPop ==
  ASSUME NEW o, NEW s, StackInv(o, s), s # << >>, StackAsks(o, s)
  PROVE  LET t == SubSeq(s, 1, Len(s) - 1)
         IN  /\ StackAsks(o, t)
             /\ IF Len(s) = 1 THEN t = << >> ELSE t # << >> /\ t[1] = s[1]
<1> DEFINE n == Len(s) - 1
           t == SubSeq(s, 1, n)
<1>1. s \in Seq(Call) /\ Len(s) \in Nat /\ Len(s) >= 1
  BY TopOfStack DEF StackInv
<1>2. n \in Nat /\ \A i \in 1..n : s[i] \in Call
  BY <1>1, ElementOfSeq
<1>3. t \in Seq(Call) /\ Len(t) = n /\ \A i \in 1..n : t[i] = s[i]
  <2> HIDE DEF n
  <2>1. /\ t \in Seq(Call)
        /\ Len(t) = IF 1 <= n THEN n - 1 + 1 ELSE 0
        /\ \A i \in 1..(n - 1 + 1) : t[i] = s[1 + i - 1]
    BY <1>1, <1>2, SubSeqProperties
  <2> HIDE DEF t
  <2> QED  BY <1>2, <2>1
<1> HIDE DEF t
<1>4. CASE n = 0
  <2>1. t = << >>
    BY <1>3, <1>4, EmptySeq
  <2>2. StackAsks(o, t)
    BY <1>3, <1>4 DEF StackAsks
  <2> QED  BY <1>1, <1>4, <2>1, <2>2 DEF t
<1>5. CASE n # 0
  <2>1. 1 \in 1..n /\ t[1] = s[1] /\ t # << >> /\ Len(s) # 1
    BY <1>2, <1>3, <1>5, EmptySeq
  <2>2. \A i \in 1..n : i \in 1..Len(s)
    BY <1>1, <1>2
  <2>3. StackAsks(o, t)
    BY <1>3, <2>1, <2>2 DEF StackAsks
  <2> QED  BY <2>1, <2>3 DEF t
<1> QED  BY <1>4, <1>5

LEMMA AsksOfOne ==
  ASSUME RequestsInv, AsksInv, NEW r \in Requests, NEW s,
         calls' = [calls EXCEPT ![r] = s], UNCHANGED opts, StackAsks(opts[r], s)
  PROVE  AsksInv'
<1>1. ASSUME NEW q \in Requests PROVE StackAsks(opts[q]', calls[q]')
  <2>1. calls[q]' = (IF q = r THEN s ELSE calls[q]) /\ opts[q]' = opts[q]
    BY DEF RequestsInv
  <2>2. StackAsks(opts[q], calls[q])
    BY DEF AsksInv
  <2> QED  BY <2>1, <2>2
<1> QED  BY <1>1 DEF AsksInv, StackAsks, CallAsks

\* What the contract says of a request that has a call.
LEMMA ActiveRequest ==
  ASSUME RequestsInv, AsksInv, NEW r \in Requests, calls[r] # << >>
  PROVE  /\ Contract!Active(r)
         /\ request[r].url = calls[r][1].url /\ request[r].options = opts[r]
         /\ calls[r][1].url \in URLs /\ opts[r] \in Options
         /\ StackAsks(opts[r], calls[r])
         /\ CallAsks(opts[r], Top(r)) /\ Top(r).url \in URLs
         /\ Top(r).url \in Contract!Own(opts[r], calls[r][1].url)
<1>1. /\ opts[r] \in Options /\ calls[r] \in Seq(Call) /\ StackInv(opts[r], calls[r])
      /\ StackAsks(opts[r], calls[r])
  BY DEF RequestsInv, AsksInv
<1>2. /\ Len(calls[r]) \in Nat /\ Len(calls[r]) >= 1 /\ Len(calls[r]) \in 1..Len(calls[r])
      /\ 1 \in 1..Len(calls[r])
  BY <1>1, TopOfStack
<1>3. calls[r][1] \in Call /\ Top(r) \in Call
  BY <1>1, <1>2, ElementOfSeq DEF Top
<1>4. CallAsks(opts[r], Top(r)) /\ Top(r).url \in Contract!Own(opts[r], calls[r][1].url)
  BY <1>1, <1>2 DEF StackAsks, Top
<1>5. request[r] = [url |-> calls[r][1].url, options |-> opts[r]]
  BY DEF request
<1>6. request[r] # NoPage
  BY <1>1, <1>3, <1>5, NoneAssumption DEF Call
<1> QED  BY <1>1, <1>3, <1>4, <1>5, <1>6 DEF Contract!Active, Call

\* A request whose stack does not become empty goes on.
LEMMA StepGoesOn ==
  ASSUME RequestsInv, NEW r \in Requests, calls[r] # << >>, UNCHANGED opts,
         NEW s, s # << >>, s[1].url = calls[r][1].url, calls' = [calls EXCEPT ![r] = s],
         NEW page, result' = [result EXCEPT ![r] = page]
  PROVE  Contract!GoesOn
<1>1. ASSUME NEW q \in Requests
      PROVE  /\ calls'[q] = << >> <=> calls[q] = << >>
             /\ calls[q] # << >> => calls'[q][1].url = calls[q][1].url
             /\ calls[q] = << >> => result'[q] = result[q]
  BY DEF RequestsInv
<1>2. request' = request /\ answer' = answer
  BY <1>1 DEF request, answer
<1> QED  BY <1>2 DEF Contract!GoesOn

\* One whose stack does ends with the page that was returned last.
LEMMA StepEnds ==
  ASSUME RequestsInv, AsksInv, NEW r \in Requests, calls[r] # << >>, UNCHANGED opts,
         calls' = [calls EXCEPT ![r] = << >>],
         NEW page, result' = [result EXCEPT ![r] = page],
         page # NoPage => Contract!MayEnd(opts[r], calls[r][1].url, page)
  PROVE  Contract!Ends(r) /\ answer'[r] = page
<1>1. ASSUME NEW q \in Requests
      PROVE  /\ calls'[q] = (IF q = r THEN << >> ELSE calls[q])
             /\ result'[q] = (IF q = r THEN page ELSE result[q])
  BY DEF RequestsInv
<1>2. /\ request' = [request EXCEPT ![r] = NoPage]
      /\ answer' = [answer EXCEPT ![r] = page]
      /\ answer'[r] = page
  BY <1>1 DEF request, answer
<1>3. request[r].url = calls[r][1].url /\ request[r].options = opts[r]
  BY ActiveRequest
<1> QED  BY <1>2, <1>3 DEF Contract!Ends

LEMMA TopBecomes ==
  ASSUME RequestsInv, AsksInv, NEW r \in Requests, calls[r] # << >>,
         NEW c \in Call, c.url = Top(r).url, CallAsks(opts[r], c),
         NEW t, t = [calls[r] EXCEPT ![Len(calls[r])] = c]
  PROVE  StackAsks(opts[r], t) /\ t # << >> /\ t[1].url = calls[r][1].url
<1>1. StackInv(opts[r], calls[r]) /\ StackAsks(opts[r], calls[r])
  BY TopOfRequest, ActiveRequest
<1>2. c.url = calls[r][Len(calls[r])].url
  BY DEF Top
<1> QED  BY <1>1, <1>2, AskBecome

LEMMA CallGoesOn ==
  ASSUME RequestsInv, AsksInv, NEW r \in Requests, calls[r] # << >>, UNCHANGED opts,
         NEW c \in Call, c.url = Top(r).url, CallAsks(opts[r], c), Become(r, c),
         NEW page, result' = [result EXCEPT ![r] = page]
  PROVE  AsksInv' /\ Contract!GoesOn
<1> DEFINE s == [calls[r] EXCEPT ![Len(calls[r])] = c]
<1>1. StackAsks(opts[r], s) /\ s # << >> /\ s[1].url = calls[r][1].url
  BY TopBecomes
<1>2. calls' = [calls EXCEPT ![r] = s]
  BY DEF Become
<1> HIDE DEF s
<1> QED  BY <1>1, <1>2, AsksOfOne, StepGoesOn

LEMMA CallAsksFallback ==
  ASSUME RequestsInv, AsksInv, NEW r \in Requests, calls[r] # << >>, UNCHANGED opts,
         NEW u \in Contract!Own(opts[r], calls[r][1].url), u \in URLs,
         NEW place, NEW list, NEW c \in Call, CallInv(opts[r], c), CallAsks(opts[r], c),
         c = [Top(r) EXCEPT !.pc = place, !.todo = list],
         CallFallback(r, u, place, list), UNCHANGED result
  PROVE  AsksInv' /\ Contract!GoesOn
<1> DEFINE waiting == [calls[r] EXCEPT ![Len(calls[r])] = c]
           s == Append(waiting, NewCall(opts[r], u, TRUE))
<1>1. /\ StackInv(opts[r], calls[r]) /\ StackAsks(opts[r], calls[r]) /\ opts[r] \in Options
      /\ Top(r) \in Call
  BY TopOfRequest, ActiveRequest
<1>2. c.url = Top(r).url /\ c.nested = Top(r).nested
  BY <1>1 DEF Call
<1>3. StackAsks(opts[r], waiting) /\ waiting # << >> /\ waiting[1].url = calls[r][1].url
  BY <1>2, TopBecomes
<1>4. StackInv(opts[r], waiting)
  BY <1>1, <1>2, BecomeKeeps DEF Top
<1>5. calls[r] \in Seq(Call) /\ Len(calls[r]) \in 1..Len(calls[r])
  BY <1>1, TopOfStack DEF StackInv
<1>6. calls' = [calls EXCEPT ![r] = s]
  BY <1>5 DEF CallFallback, Top
<1>7. result' = [result EXCEPT ![r] = result[r]]
  BY DEF RequestsInv
<1> HIDE DEF waiting
<1>8. StackAsks(opts[r], s) /\ s # << >> /\ s[1].url = calls[r][1].url
  BY <1>1, <1>3, <1>4, AskPush
<1> HIDE DEF s
<1> QED  BY <1>6, <1>7, <1>8, AsksOfOne, StepGoesOn

LEMMA CallReturns ==
  ASSUME RequestsInv, AsksInv, NEW r \in Requests, calls[r] # << >>, UNCHANGED opts,
         NEW page, page # NoPage => Contract!MayEnd(opts[r], Top(r).url, page),
         Return(r, page)
  PROVE  AsksInv' /\ (Contract!GoesOn \/ (Contract!Ends(r) /\ answer'[r] = page))
<1> DEFINE s == SubSeq(calls[r], 1, Len(calls[r]) - 1)
<1>1. StackInv(opts[r], calls[r]) /\ StackAsks(opts[r], calls[r])
  BY TopOfRequest, ActiveRequest
<1>2. /\ StackAsks(opts[r], s)
      /\ IF Len(calls[r]) = 1 THEN s = << >> ELSE s # << >> /\ s[1] = calls[r][1]
  BY <1>1, AskPop
<1>3. calls' = [calls EXCEPT ![r] = s] /\ result' = [result EXCEPT ![r] = page]
  BY DEF Return
<1> HIDE DEF s
<1>4. AsksInv'
  BY <1>2, <1>3, AsksOfOne
<1>5. CASE Len(calls[r]) = 1
  <2>1. Top(r).url = calls[r][1].url
    BY <1>5 DEF Top
  <2> QED  BY <1>2, <1>3, <1>4, <1>5, <2>1, StepEnds
<1>6. CASE Len(calls[r]) # 1
  BY <1>2, <1>3, <1>4, <1>6, StepGoesOn
<1> QED  BY <1>5, <1>6

\* A step that neither fetches nor stores.
LEMMA StepWorks ==
  ASSUME RequestsInv, AsksInv, NEW r \in Requests, calls[r] # << >>,
         sent' = NoPage, UNCHANGED cache, Contract!GoesOn \/ Contract!Ends(r)
  PROVE  Contract!Works(r)
BY ActiveRequest DEF Contract!Works

\* And one that does: it has no page then.
LEMMA StepFetches ==
  ASSUME RequestsInv, AsksInv, NEW r \in Requests, calls[r] # << >>,
         NEW u \in Contract!MayAsk(opts[r], calls[r][1].url), Asks(r, u),
         UNCHANGED cache, Contract!GoesOn \/ (Contract!Ends(r) /\ answer'[r] = NoPage)
  PROVE  Contract!Fetches(r)
<1>1. /\ Contract!Active(r)
      /\ request[r].url = calls[r][1].url /\ request[r].options = opts[r]
  BY ActiveRequest
<1>2. u \in Contract!MayAsk(request[r].options, request[r].url)
  BY <1>1
<1>3. sent' = [by |-> r, url |-> u]
  BY DEF Asks
<1> QED  BY <1>1, <1>2, <1>3 DEF Contract!Fetches

\* The page of a call may be asked for, and so may where it is looked for.
LEMMA TopMayBeAsked ==
  ASSUME RequestsInv, AsksInv, NEW r \in Requests, At(r, "fetch")
  PROVE  Top(r).url \in Contract!MayAsk(opts[r], calls[r][1].url)
<1>1. calls[r] # << >>
  BY DEF At
<1>2. MayFetch(r, Top(r).url)
  BY TopMayFetch
<1>3. Top(r).url \in Contract!Own(opts[r], calls[r][1].url)
  BY <1>1, ActiveRequest
<1> QED  BY <1>2, <1>3 DEF Contract!MayAsk, Contract!Allowed, MayFetch

LEMMA SearchedMayBeAsked ==
  ASSUME RequestsInv, AsksInv, NEW r \in Requests, calls[r] # << >>,
         Top(r).pc \in {"probe", "sitemaps"}, Top(r).todo # << >>,
         MayFetch(r, Head(Top(r).todo))
  PROVE  Head(Top(r).todo) \in Contract!MayAsk(opts[r], calls[r][1].url)
<1> DEFINE v == Head(Top(r).todo)
<1>1. CallAsks(opts[r], Top(r)) /\ Top(r).url \in Contract!Own(opts[r], calls[r][1].url)
  BY ActiveRequest
<1>2. \/ v \in Contract!Elements(Ancestors[Top(r).url])
      \/ opts[r].robots /\ v \in Contract!Elements(Sitemaps)
  BY <1>1, HeadTailProperties DEF CallAsks
<1> HIDE DEF v
<1>3. v \in Contract!Searched(opts[r], calls[r][1].url)
  <2> DEFINE own == Contract!Own(opts[r], calls[r][1].url)
             found(w) == Contract!Elements(Ancestors[w])
             listed == Contract!Elements(Sitemaps)
  <2>1. Contract!Searched(opts[r], calls[r][1].url) =
          (UNION {found(w) : w \in own}) \union IF opts[r].robots THEN listed ELSE {}
    BY DEF Contract!Searched
  <2>2. Top(r).url \in own /\ (v \in found(Top(r).url) \/ (opts[r].robots /\ v \in listed))
    BY <1>1, <1>2
  <2> HIDE DEF own, found, listed
  <2>3. v \in (UNION {found(w) : w \in own}) \union IF opts[r].robots THEN listed ELSE {}
    BY <2>2
  <2> QED  BY <2>1, <2>3
<1>4. Contract!Allowed(opts[r], v)
  BY DEF Contract!Allowed, MayFetch, v
<1> QED  BY <1>3, <1>4 DEF Contract!MayAsk, v

\* A page that may be stored for a URL may also be given for it.
LEMMA StoredMayBeGiven ==
  ASSUME NEW o, NEW u, NEW page, Stores(o, u, page)
  PROVE  Contract!MayEnd(o, u, page) /\ Contract!MayStore(o, u, page)
BY DEF Stores, Answers, Contract!MayEnd, Contract!MayStore, Contract!Answers

-----------------------------------------------------------------------------
(* Every action is one of the contract's.                                  *)

LEMMA BeginAsks ==
  ASSUME PipelineIInv, AsksInv, NEW r \in Requests, Begin(r)
  PROVE  AsksInv' /\ Contract!Ask(r)
<1>1. PICK o \in Options, u \in Requested :
        opts' = [opts EXCEPT ![r] = o] /\ calls' = [calls EXCEPT ![r] = <<NewCall(o, u, FALSE)>>]
  BY DEF Begin
<1> DEFINE new == NewCall(o, u, FALSE)
           s == <<new>>
<1>2. new \in Call /\ new.url = u /\ u \in URLs
  BY NewCallIsCall, PipelineAssumption
<1>3. CallAsks(o, new)
  BY DEF NewCall, CallAsks
<1>4. s \in Seq(Call) /\ Len(s) = 1 /\ s[1] = new
  BY <1>2, SingleCall
<1> HIDE DEF new, s
<1>5. s # << >>
  <2>1. Len(s) # 0 /\ Len(<< >>) = 0
    BY <1>4, EmptySeq
  <2> QED  BY <2>1
<1>6. StackAsks(o, s)
  BY <1>2, <1>3, <1>4, OwnURLs DEF StackAsks
<1>7. RequestsInv /\ calls[r] = << >> /\ result' = [result EXCEPT ![r] = NoPage]
  BY DEF PipelineIInv, Begin
<1>8. ASSUME NEW q \in Requests
      PROVE  /\ calls'[q] = (IF q = r THEN s ELSE calls[q])
             /\ opts'[q] = (IF q = r THEN o ELSE opts[q])
             /\ result'[q] = (IF q = r THEN NoPage ELSE result[q])
  BY <1>1, <1>7 DEF RequestsInv, s, new
<1>9. AsksInv'
  <2>1. ASSUME NEW q \in Requests PROVE StackAsks(opts[q]', calls[q]')
    <3>1. CASE q = r
      BY <1>6, <1>8, <3>1
    <3>2. CASE q # r
      BY <1>8, <3>2 DEF AsksInv
    <3> QED  BY <3>1, <3>2
  <2> QED  BY <2>1 DEF AsksInv, StackAsks, CallAsks
<1>10. /\ request' = [request EXCEPT ![r] = [url |-> u, options |-> o]]
       /\ answer' = [answer EXCEPT ![r] = NoPage]
       /\ request[r] = NoPage
  BY <1>2, <1>4, <1>5, <1>7, <1>8 DEF request, answer
<1>11. sent' = NoPage /\ UNCHANGED cache
  BY DEF Begin
<1> QED  BY <1>9, <1>10, <1>11 DEF Contract!Ask, Contract!Active

LEMMA GuardWorks ==
  ASSUME PipelineIInv, AsksInv, NEW r \in Requests, Guard(r)
  PROVE  AsksInv' /\ Contract!Works(r)
<1>1. /\ RequestsInv /\ calls[r] # << >> /\ Top(r).pc = "guard"
      /\ sent' = NoPage /\ UNCHANGED <<cache, opts>>
  BY DEF PipelineIInv, Guard, At
<1>2. Top(r) \in Call /\ CallAsks(opts[r], Top(r)) /\ result \in [Requests -> Pages \union {NoPage}]
  BY <1>1, TopOfRequest, ActiveRequest DEF RequestsInv
<1>3. AsksInv' /\ (Contract!GoesOn \/ Contract!Ends(r))
  <2>1. CASE MoveTo(r, "lookup") /\ UNCHANGED result
    <3> DEFINE c == [Top(r) EXCEPT !.pc = "lookup"]
    <3>1. c \in Call /\ c.url = Top(r).url /\ c.caching = Top(r).caching /\ c.pc = "lookup"
      BY <1>2 DEF Call
    <3>2. Become(r, c) /\ result' = [result EXCEPT ![r] = result[r]]
      BY <1>2, <2>1 DEF MoveTo
    <3> HIDE DEF c
    <3>3. CallAsks(opts[r], c)
      BY <1>2, <3>1 DEF CallAsks
    <3> QED  BY <1>1, <3>1, <3>2, <3>3, CallGoesOn
  <2>2. CASE Return(r, NoPage)
    BY <1>1, <2>2, CallReturns
  <2> QED  BY <2>1, <2>2 DEF Guard
<1> QED  BY <1>1, <1>3, StepWorks

LEMMA HitWorks ==
  ASSUME PipelineIInv, AsksInv, NEW r \in Requests, Hit(r)
  PROVE  AsksInv' /\ Contract!Works(r)
<1>1. /\ RequestsInv /\ calls[r] # << >> /\ Return(r, cache[Key(r)])
      /\ sent' = NoPage /\ UNCHANGED <<cache, opts>>
  BY DEF PipelineIInv, Hit, At
<1>2. Contract!MayEnd(opts[r], Top(r).url, cache[Key(r)])
  BY HitAnswers, StoredMayBeGiven
<1>3. AsksInv' /\ (Contract!GoesOn \/ Contract!Ends(r))
  BY <1>1, <1>2, CallReturns
<1> QED  BY <1>1, <1>3, StepWorks

LEMMA LookupWorks ==
  ASSUME PipelineIInv, AsksInv, NEW r \in Requests, HitRefused(r) \/ Miss(r)
  PROVE  AsksInv' /\ Contract!Works(r)
<1>1. /\ RequestsInv /\ calls[r] # << >>
      /\ sent' = NoPage /\ UNCHANGED <<cache, opts, result>>
  BY DEF PipelineIInv, HitRefused, Miss, At
<1>2. Top(r) \in Call /\ CallAsks(opts[r], Top(r)) /\ result \in [Requests -> Pages \union {NoPage}]
  BY <1>1, TopOfRequest, ActiveRequest DEF RequestsInv
<1>3. PICK caching \in {FALSE, Top(r).caching} :
        Become(r, [Top(r) EXCEPT !.pc = "robots", !.caching = caching])
  <2>1. [Top(r) EXCEPT !.pc = "robots"] = [Top(r) EXCEPT !.pc = "robots", !.caching = Top(r).caching]
    BY <1>2 DEF Call
  <2> QED  BY <2>1 DEF HitRefused, Miss, MoveTo
<1> DEFINE c == [Top(r) EXCEPT !.pc = "robots", !.caching = caching]
<1>4. c \in Call /\ c.url = Top(r).url /\ c.caching = caching /\ c.pc = "robots"
  BY <1>2 DEF Call
<1>5. Become(r, c) /\ result' = [result EXCEPT ![r] = result[r]]
  BY <1>1, <1>2, <1>3
<1> HIDE DEF c
<1>6. CallAsks(opts[r], c)
  BY <1>2, <1>4 DEF CallAsks
<1>7. AsksInv' /\ Contract!GoesOn
  BY <1>1, <1>4, <1>5, <1>6, CallGoesOn
<1> QED  BY <1>1, <1>7, StepWorks

LEMMA AskRobotsWorks ==
  ASSUME PipelineIInv, AsksInv, NEW r \in Requests, AskRobots(r)
  PROVE  AsksInv' /\ Contract!Works(r)
<1>1. /\ RequestsInv /\ calls[r] # << >>
      /\ sent' = NoPage /\ UNCHANGED <<cache, opts>>
  BY DEF PipelineIInv, AskRobots, At
<1>2. Top(r) \in Call /\ CallAsks(opts[r], Top(r)) /\ result \in [Requests -> Pages \union {NoPage}]
  BY <1>1, TopOfRequest, ActiveRequest DEF RequestsInv
<1>3. AsksInv' /\ (Contract!GoesOn \/ Contract!Ends(r))
  <2>1. CASE Return(r, NoPage)
    BY <1>1, <2>1, CallReturns
  <2>2. CASE MoveTo(r, "fetch") /\ UNCHANGED result
    <3> DEFINE c == [Top(r) EXCEPT !.pc = "fetch"]
    <3>1. c \in Call /\ c.url = Top(r).url /\ c.caching = Top(r).caching /\ c.pc = "fetch"
      BY <1>2 DEF Call
    <3>2. Become(r, c) /\ result' = [result EXCEPT ![r] = result[r]]
      BY <1>2, <2>2 DEF MoveTo
    <3> HIDE DEF c
    <3>3. CallAsks(opts[r], c)
      BY <1>2, <3>1 DEF CallAsks
    <3> QED  BY <1>1, <3>1, <3>2, <3>3, CallGoesOn
  <2> QED  BY <2>1, <2>2 DEF AskRobots
<1> QED  BY <1>1, <1>3, StepWorks

\* Looking for a missing page, in what the place accounts for.
LEMMA SearchGoesOn ==
  ASSUME RequestsInv, AsksInv, NEW r \in Requests, calls[r] # << >>,
         NEW place \in {"probe", "sitemaps"}, NEW list \in Seq(URLs),
         place = "probe" => list \in Seq(Contract!Elements(Ancestors[Top(r).url])),
         place = "sitemaps" => opts[r].robots /\ list \in Seq(Contract!Elements(Sitemaps)),
         Search(r, place, list), UNCHANGED <<opts, result>>
  PROVE  AsksInv' /\ Contract!GoesOn
<1>1. Top(r) \in Call /\ CallAsks(opts[r], Top(r)) /\ result \in [Requests -> Pages \union {NoPage}]
  BY TopOfRequest, ActiveRequest DEF RequestsInv
<1> DEFINE c == [Top(r) EXCEPT !.pc = place, !.todo = list]
<1>2. /\ c \in Call /\ c.url = Top(r).url /\ c.caching = Top(r).caching
      /\ c.pc = place /\ c.todo = list
  BY <1>1 DEF Call
<1>3. Become(r, c) /\ result' = [result EXCEPT ![r] = result[r]]
  BY <1>1 DEF Search
<1> HIDE DEF c
<1>4. CallAsks(opts[r], c)
  BY <1>1, <1>2 DEF CallAsks
<1> QED  BY <1>2, <1>3, <1>4, CallGoesOn

\* At first that is all the place accounts for.
LEMMA ProbeGoesOn ==
  ASSUME RequestsInv, AsksInv, NEW r \in Requests, calls[r] # << >>,
         Search(r, "probe", Ancestors[Top(r).url]), UNCHANGED <<opts, result>>
  PROVE  AsksInv' /\ Contract!GoesOn
<1>1. Top(r).url \in URLs
  BY ActiveRequest
<1>2. Ancestors[Top(r).url] \in Seq(URLs)
  BY <1>1, PipelineAssumption
<1>3. Ancestors[Top(r).url] \in Seq(Contract!Elements(Ancestors[Top(r).url]))
  BY <1>2, SeqOfElements
<1> QED  BY <1>2, <1>3, SearchGoesOn

LEMMA FetchFailsFetches ==
  ASSUME PipelineIInv, AsksInv, NEW r \in Requests, FetchFails(r)
  PROVE  AsksInv' /\ Contract!Fetches(r)
<1>1. /\ RequestsInv /\ At(r, "fetch") /\ calls[r] # << >> /\ UNCHANGED <<cache, opts>>
      /\ Return(r, NoPage) /\ Asks(r, Top(r).url)
  BY DEF PipelineIInv, FetchFails, At
<1>2. AsksInv' /\ (Contract!GoesOn \/ (Contract!Ends(r) /\ answer'[r] = NoPage))
  BY <1>1, CallReturns
<1> QED  BY <1>1, <1>2, TopMayBeAsked, StepFetches

LEMMA FetchRefusedFetches ==
  ASSUME PipelineIInv, AsksInv, NEW r \in Requests, FetchRefused(r)
  PROVE  AsksInv' /\ Contract!Fetches(r)
<1>1. /\ RequestsInv /\ At(r, "fetch") /\ calls[r] # << >> /\ Top(r).pc = "fetch"
      /\ UNCHANGED <<cache, opts, runs>> /\ Asks(r, Top(r).url)
  BY DEF PipelineIInv, FetchRefused, At
<1>2. /\ Top(r) \in Call /\ CallInv(opts[r], Top(r)) /\ CallAsks(opts[r], Top(r))
      /\ Top(r).url \in URLs /\ calls[r][1].url \in URLs
      /\ Top(r).url \in Contract!Own(opts[r], calls[r][1].url)
  BY <1>1, TopOfRequest, ActiveRequest
<1>3. AsksInv' /\ (Contract!GoesOn \/ (Contract!Ends(r) /\ answer'[r] = NoPage))
  <2>1. CASE Return(r, NoPage)
    BY <1>1, <2>1, CallReturns
  <2>2. CASE /\ opts[r].wayback /\ Top(r).url \notin Archived
             /\ CallFallback(r, Archive[Top(r).url], "archive", << >>) /\ UNCHANGED result
    <3> DEFINE c == [Top(r) EXCEPT !.pc = "archive", !.todo = << >>]
    <3>1. /\ c \in Call /\ c.url = Top(r).url /\ c.page = Top(r).page /\ c.pc = "archive"
          /\ c.caching = Top(r).caching
      BY <1>2, EmptySeq DEF Call
    <3>2. CallInv(opts[r], c) /\ CallAsks(opts[r], c)
      <4> HIDE DEF c
      <4> QED  BY <1>1, <1>2, <2>2, <3>1 DEF CallInv, CallAsks
    <3>3. /\ Archive[Top(r).url] \in URLs
          /\ Archive[Top(r).url] \in Contract!Own(opts[r], calls[r][1].url)
      BY <1>2, <2>2, OwnURLs
    <3> QED  BY <1>1, <2>2, <3>1, <3>2, <3>3, CallAsksFallback
  <2>3. CASE Search(r, "probe", Ancestors[Top(r).url]) /\ UNCHANGED result
    BY <1>1, <2>3, ProbeGoesOn
  <2> QED  BY <2>1, <2>2, <2>3 DEF FetchRefused
<1> QED  BY <1>1, <1>3, TopMayBeAsked, StepFetches

LEMMA ArchiveAnswersWorks ==
  ASSUME PipelineIInv, AsksInv, NEW r \in Requests, ArchiveAnswers(r)
  PROVE  AsksInv' /\ Contract!Works(r)
<1>1. /\ RequestsInv /\ calls[r] # << >> /\ Top(r).pc = "archive"
      /\ sent' = NoPage /\ UNCHANGED <<cache, opts>>
  BY DEF PipelineIInv, ArchiveAnswers, At
<1>2. /\ CallInv(opts[r], Top(r)) /\ CallAsks(opts[r], Top(r))
      /\ ResultInv(opts[r], calls[r], result[r])
  BY <1>1, TopOfRequest, ActiveRequest
<1>3. AsksInv' /\ (Contract!GoesOn \/ Contract!Ends(r))
  <2>1. CASE result[r] # NoPage
    <3>1. Answers(opts[r], Top(r).url, result[r])
      BY <1>1, <1>2, <2>1 DEF ResultInv, Top
    <3>2. Contract!MayEnd(opts[r], Top(r).url, result[r])
      BY <1>1, <1>2, <3>1 DEF CallInv, CallAsks, Answers, Contract!MayEnd, Contract!Answers
    <3>3. Return(r, result[r])
      BY <2>1 DEF ArchiveAnswers
    <3> QED  BY <1>1, <3>2, <3>3, CallReturns
  <2>2. CASE result[r] = NoPage
    <3>1. Search(r, "probe", Ancestors[Top(r).url]) /\ UNCHANGED result
      BY <2>2 DEF ArchiveAnswers
    <3> QED  BY <1>1, <3>1, ProbeGoesOn
  <2> QED  BY <2>1, <2>2
<1> QED  BY <1>1, <1>3, StepWorks

LEMMA FetchPageFetches ==
  ASSUME PipelineIInv, AsksInv, NEW r \in Requests, FetchPage(r)
  PROVE  AsksInv' /\ Contract!Fetches(r)
<1>1. /\ RequestsInv /\ At(r, "fetch") /\ calls[r] # << >>
      /\ UNCHANGED <<cache, opts, result>> /\ Asks(r, Top(r).url)
  BY DEF PipelineIInv, FetchPage, At
<1> DEFINE u == Top(r).url
<1>2. /\ Top(r) \in Call /\ CallAsks(opts[r], Top(r)) /\ opts[r] \in Options /\ u \in URLs
      /\ result \in [Requests -> Pages \union {NoPage}]
  BY <1>1, TopOfRequest, ActiveRequest DEF RequestsInv
<1>3. PICK final \in Redirects(r, u), long \in BOOLEAN, thin \in BOOLEAN :
        LET page == [from |-> u, final |-> final, shape |-> opts[r].shape, long |-> long]
        IN  Become(r, IF thin /\ ~Top(r).nested
                        THEN [Keep(Top(r), page) EXCEPT !.pc = "fallback",
                                                        !.todo = Fallbacks(r, u)]
                        ELSE [Keep(Top(r), page) EXCEPT !.pc = "store"])
  BY DEF FetchPage
<1> DEFINE page == [from |-> u, final |-> final, shape |-> opts[r].shape, long |-> long]
<1>4. final \in URLs
  BY <1>2, PipelineAssumption DEF Redirects
<1>5. page \in Pages
  BY <1>2, <1>4 DEF Pages, Shapes
<1> HIDE DEF page
<1>6. result' = [result EXCEPT ![r] = result[r]]
  BY <1>1, <1>2
<1>7. AsksInv' /\ Contract!GoesOn
  <2>1. CASE thin /\ ~Top(r).nested
    <3> DEFINE c == [Keep(Top(r), page) EXCEPT !.pc = "fallback", !.todo = Fallbacks(r, u)]
    <3>1. /\ c \in Call /\ c.url = u /\ c.caching = Top(r).caching
          /\ c.pc = "fallback" /\ c.todo = Fallbacks(r, u)
      BY <1>2, <1>5, FallbacksAreDerived DEF Call, Keep
    <3>2. Become(r, c)
      BY <1>3, <2>1 DEF page
    <3>3. Fallbacks(r, u) \in Seq(Contract!Own(opts[r], u))
      BY <1>2, FallbacksAreOwn
    <3> HIDE DEF c
    <3>4. CallAsks(opts[r], c)
      BY <1>2, <3>1, <3>3 DEF CallAsks
    <3> QED  BY <1>1, <1>6, <3>1, <3>2, <3>4, CallGoesOn
  <2>2. CASE ~(thin /\ ~Top(r).nested)
    <3> DEFINE c == [Keep(Top(r), page) EXCEPT !.pc = "store"]
    <3>1. c \in Call /\ c.url = u /\ c.caching = Top(r).caching /\ c.pc = "store"
      BY <1>2, <1>5 DEF Call, Keep
    <3>2. Become(r, c)
      BY <1>3, <2>2 DEF page
    <3> HIDE DEF c
    <3>3. CallAsks(opts[r], c)
      BY <1>2, <3>1 DEF CallAsks
    <3> QED  BY <1>1, <1>6, <3>1, <3>2, <3>3, CallGoesOn
  <2> QED  BY <2>1, <2>2
<1> QED  BY <1>1, <1>7, TopMayBeAsked, StepFetches

LEMMA TryFallbackWorks ==
  ASSUME PipelineIInv, AsksInv, NEW r \in Requests, TryFallback(r)
  PROVE  AsksInv' /\ Contract!Works(r)
<1>1. /\ RequestsInv /\ calls[r] # << >> /\ Top(r).pc = "fallback"
      /\ sent' = NoPage /\ UNCHANGED <<cache, opts, result>>
  BY DEF PipelineIInv, TryFallback, At
<1>2. /\ Top(r) \in Call /\ CallInv(opts[r], Top(r)) /\ CallAsks(opts[r], Top(r))
      /\ Top(r).url \in URLs
      /\ result \in [Requests -> Pages \union {NoPage}]
      /\ StackInv(opts[r], calls[r])
  BY <1>1, TopOfRequest, ActiveRequest DEF RequestsInv
<1>3. AsksInv' /\ Contract!GoesOn
  <2>1. CASE Top(r).todo = << >>
    <3> DEFINE c == [Top(r) EXCEPT !.pc = "store"]
    <3>1. c \in Call /\ c.url = Top(r).url /\ c.caching = Top(r).caching /\ c.pc = "store"
      BY <1>2 DEF Call
    <3>2. Become(r, c) /\ result' = [result EXCEPT ![r] = result[r]]
      BY <1>1, <1>2, <2>1 DEF TryFallback, MoveTo
    <3> HIDE DEF c
    <3>3. CallAsks(opts[r], c)
      BY <1>2, <3>1 DEF CallAsks
    <3> QED  BY <1>1, <3>1, <3>2, <3>3, CallGoesOn
  <2>2. CASE Top(r).todo # << >>
    <3> DEFINE u == Head(Top(r).todo)
               own == Contract!Own(opts[r], Top(r).url)
    <3>1. /\ Top(r).todo \in Seq(Derived(Top(r).url)) /\ ~Top(r).nested
          /\ Top(r).todo \in Seq(own) /\ Top(r).todo \in Seq(URLs)
      BY <1>1, <1>2 DEF CallInv, CallAsks, Call
    <3> HIDE DEF own
    <3>2. /\ Rest(r) \in Seq(Derived(Top(r).url)) /\ Rest(r) \in Seq(own) /\ Rest(r) \in Seq(URLs)
          /\ u \in own /\ u \in URLs
      BY <2>2, <3>1, HeadTailProperties DEF Rest
    <3>3. CallFallback(r, u, "twin", Rest(r))
      BY <2>2 DEF TryFallback
    <3> HIDE DEF u
    <3> DEFINE c == [Top(r) EXCEPT !.pc = "twin", !.todo = Rest(r)]
    <3>4. /\ c \in Call /\ c.url = Top(r).url /\ c.nested = Top(r).nested
          /\ c.caching = Top(r).caching
          /\ c.page = Top(r).page /\ c.pc = "twin" /\ c.todo = Rest(r)
      BY <1>2, <3>2 DEF Call
    <3>5. CallInv(opts[r], c) /\ CallAsks(opts[r], c)
      <4> HIDE DEF c
      <4> QED  BY <1>1, <1>2, <3>1, <3>2, <3>4 DEF CallInv, CallAsks, own
    <3>6. Top(r).url = calls[r][1].url
      <4>1. Len(calls[r]) \in Nat /\ Len(calls[r]) >= 1 /\ Len(calls[r]) \in 1..Len(calls[r])
        BY <1>1, <1>2, TopOfStack
      <4>2. calls[r][Len(calls[r])].nested <=> Len(calls[r]) > 1
        BY <1>2, <4>1 DEF StackInv
      <4>3. ~calls[r][Len(calls[r])].nested
        BY <3>1 DEF Top
      <4>4. ~(Len(calls[r]) > 1)
        BY <4>2, <4>3, Zenon
      <4>5. Len(calls[r]) = 1
        <5> DEFINE n == Len(calls[r])
        <5>1. n \in Nat /\ n >= 1 /\ ~(n > 1)
          BY <4>1, <4>4
        <5> HIDE DEF n
        <5>2. n = 1
          BY <5>1
        <5> QED  BY <5>2 DEF n
      <4> QED  BY <4>5 DEF Top
    <3>7. u \in Contract!Own(opts[r], calls[r][1].url)
      BY <3>2, <3>6 DEF own
    <3> QED  BY <1>1, <3>2, <3>3, <3>4, <3>5, <3>7, CallAsksFallback
  <2> QED  BY <2>1, <2>2
<1> QED  BY <1>1, <1>3, StepWorks

LEMMA FallbackAnswersWorks ==
  ASSUME PipelineIInv, AsksInv, NEW r \in Requests, FallbackAnswers(r)
  PROVE  AsksInv' /\ Contract!Works(r)
<1>1. /\ RequestsInv /\ calls[r] # << >> /\ Top(r).pc = "twin"
      /\ sent' = NoPage /\ UNCHANGED <<cache, opts>> /\ result' = [result EXCEPT ![r] = NoPage]
  BY DEF PipelineIInv, FallbackAnswers, At
<1>2. /\ Top(r) \in Call /\ CallAsks(opts[r], Top(r))
      /\ result \in [Requests -> Pages \union {NoPage}]
  BY <1>1, TopOfRequest, ActiveRequest DEF RequestsInv
<1>3. PICK page \in Pages \union {NoPage}, place \in {"fallback", "store"} :
        Become(r, [Keep(Top(r), page) EXCEPT !.pc = place])
  <2>1. Top(r).page \in Pages \union {NoPage} /\ result[r] \in Pages \union {NoPage}
    BY <1>2 DEF Call
  <2>2. \A place : [Keep(Top(r), Top(r).page) EXCEPT !.pc = place] = [Top(r) EXCEPT !.pc = place]
    BY <1>2 DEF Keep, Call
  <2> QED  BY <2>1, <2>2 DEF FallbackAnswers
<1> DEFINE c == [Keep(Top(r), page) EXCEPT !.pc = place]
<1>4. /\ c \in Call /\ c.url = Top(r).url /\ c.caching = Top(r).caching
      /\ c.pc = place /\ c.todo = Top(r).todo
  BY <1>2 DEF Call, Keep
<1>5. Become(r, c)
  BY <1>3
<1> HIDE DEF c
<1>6. CallAsks(opts[r], c)
  BY <1>1, <1>2, <1>4 DEF CallAsks
<1>7. AsksInv' /\ Contract!GoesOn
  BY <1>1, <1>4, <1>5, <1>6, CallGoesOn
<1> QED  BY <1>1, <1>7, StepWorks

LEMMA StoreWorks ==
  ASSUME PipelineIInv, AsksInv, NEW r \in Requests, Store(r)
  PROVE  AsksInv' /\ Contract!Works(r)
<1>1. /\ RequestsInv /\ calls[r] # << >> /\ Top(r).pc = "store"
      /\ Return(r, Top(r).page) /\ sent' = NoPage /\ UNCHANGED opts
  BY DEF PipelineIInv, Store, At
<1>2. /\ Top(r) \in Call /\ CallInv(opts[r], Top(r)) /\ CallAsks(opts[r], Top(r))
      /\ opts[r] \in Options /\ Top(r).url \in URLs
      /\ Top(r).url \in Contract!Own(opts[r], calls[r][1].url)
  BY <1>1, TopOfRequest, ActiveRequest
<1> DEFINE page == Top(r).page
<1>3. Contract!MayEnd(opts[r], Top(r).url, page) /\ Contract!MayStore(opts[r], Top(r).url, page)
  BY <1>1, <1>2, StoredMayBeGiven DEF CallInv
<1>4. AsksInv' /\ (Contract!GoesOn \/ Contract!Ends(r))
  BY <1>1, <1>3, CallReturns
<1>5. /\ Contract!Active(r)
      /\ request[r].url = calls[r][1].url /\ request[r].options = opts[r]
  BY <1>1, ActiveRequest
<1>6. UNCHANGED cache \/ Contract!Puts(r)
  <2>1. CASE Top(r).caching /\ cache' = [cache EXCEPT ![Key(r)] = page]
    <3>1. Key(r) \in CacheKeys /\ Key(r) = [url |-> Top(r).url, shape |-> opts[r].shape]
      BY <1>2 DEF Key, CacheKeys, Shapes
    <3> HIDE DEF page
    <3>2. cache'[Key(r)] = page /\ cache' = [cache EXCEPT ![Key(r)] = cache'[Key(r)]]
      BY <2>1, <3>1 DEF PipelineIInv, CacheInv
    <3>3. opts[r].cache
      BY <1>2, <2>1 DEF CallAsks
    <3> QED  BY <1>2, <1>3, <1>5, <3>1, <3>2, <3>3 DEF Contract!Puts
  <2>2. CASE UNCHANGED cache
    BY <2>2
  <2> QED  BY <2>1, <2>2 DEF Store
<1> QED  BY <1>1, <1>4, <1>5, <1>6 DEF Contract!Works

LEMMA ProbeEndsWorks ==
  ASSUME PipelineIInv, AsksInv, NEW r \in Requests, ProbeEnds(r)
  PROVE  AsksInv' /\ Contract!Works(r)
<1>1. /\ RequestsInv /\ calls[r] # << >> /\ Return(r, NoPage)
      /\ sent' = NoPage /\ UNCHANGED <<cache, opts>>
  BY DEF PipelineIInv, ProbeEnds, At
<1>2. AsksInv' /\ (Contract!GoesOn \/ Contract!Ends(r))
  BY <1>1, CallReturns
<1> QED  BY <1>1, <1>2, StepWorks

\* What is left to look at is still accounted for.
LEMMA RestOfSearch ==
  ASSUME RequestsInv, AsksInv, NEW r \in Requests, calls[r] # << >>, Top(r).todo # << >>
  PROVE  /\ Rest(r) \in Seq(URLs)
         /\ Top(r).pc = "probe" => Rest(r) \in Seq(Contract!Elements(Ancestors[Top(r).url]))
         /\ Top(r).pc = "sitemaps" => opts[r].robots /\ Rest(r) \in Seq(Contract!Elements(Sitemaps))
<1>1. Top(r) \in Call /\ CallAsks(opts[r], Top(r))
  BY TopOfRequest, ActiveRequest
<1>2. Rest(r) \in Seq(URLs)
  BY <1>1, SearchedIsURL
<1>3. CASE Top(r).pc = "probe"
  BY <1>1, <1>2, <1>3, HeadTailProperties DEF CallAsks, Rest
<1>4. CASE Top(r).pc = "sitemaps"
  BY <1>1, <1>2, <1>4, HeadTailProperties DEF CallAsks, Rest
<1> QED  BY <1>2, <1>3, <1>4

LEMMA ProbeFetches ==
  ASSUME PipelineIInv, AsksInv, NEW r \in Requests, Probe(r)
  PROVE  AsksInv' /\ Contract!Fetches(r)
<1>1. /\ RequestsInv /\ calls[r] # << >> /\ Top(r).pc = "probe" /\ UNCHANGED <<cache, opts>>
      /\ Top(r).todo # << >>
      /\ MayFetch(r, Head(Top(r).todo)) /\ Asks(r, Head(Top(r).todo))
  BY DEF PipelineIInv, Probe, At
<1>2. Head(Top(r).todo) \in Contract!MayAsk(opts[r], calls[r][1].url)
  BY <1>1, SearchedMayBeAsked
<1>3. AsksInv' /\ (Contract!GoesOn \/ (Contract!Ends(r) /\ answer'[r] = NoPage))
  <2>1. CASE Search(r, "probe", Rest(r)) /\ UNCHANGED result
    BY <1>1, <2>1, RestOfSearch, SearchGoesOn
  <2>2. CASE Return(r, NoPage)
    BY <1>1, <2>2, CallReturns
  <2>3. CASE opts[r].robots /\ Search(r, "sitemaps", Sitemaps) /\ UNCHANGED result
    <3>1. Sitemaps \in Seq(URLs)
      BY PipelineAssumption
    <3>2. Sitemaps \in Seq(Contract!Elements(Sitemaps))
      BY <3>1, SeqOfElements
    <3> QED  BY <1>1, <2>3, <3>1, <3>2, SearchGoesOn
  <2> QED  BY <2>1, <2>2, <2>3 DEF Probe
<1> QED  BY <1>1, <1>2, <1>3, StepFetches

LEMMA SkipSitemapWorks ==
  ASSUME PipelineIInv, AsksInv, NEW r \in Requests, SkipSitemap(r)
  PROVE  AsksInv' /\ Contract!Works(r)
<1>1. /\ RequestsInv /\ calls[r] # << >> /\ Top(r).pc = "sitemaps"
      /\ sent' = NoPage /\ UNCHANGED <<cache, opts>>
  BY DEF PipelineIInv, SkipSitemap, At
<1>2. AsksInv' /\ (Contract!GoesOn \/ Contract!Ends(r))
  <2>1. CASE Top(r).todo = << >>
    BY <1>1, <2>1, CallReturns DEF SkipSitemap
  <2>2. CASE Top(r).todo # << >>
    <3>1. Search(r, "sitemaps", Rest(r)) /\ UNCHANGED result
      BY <2>2 DEF SkipSitemap
    <3> QED  BY <1>1, <2>2, <3>1, RestOfSearch, SearchGoesOn
  <2> QED  BY <2>1, <2>2
<1> QED  BY <1>1, <1>2, StepWorks

LEMMA FetchSitemapFetches ==
  ASSUME PipelineIInv, AsksInv, NEW r \in Requests, FetchSitemap(r)
  PROVE  AsksInv' /\ Contract!Fetches(r)
<1>1. /\ RequestsInv /\ calls[r] # << >> /\ Top(r).pc = "sitemaps"
      /\ Top(r).todo # << >> /\ UNCHANGED <<cache, opts, result>>
      /\ MayFetch(r, Head(Top(r).todo)) /\ Asks(r, Head(Top(r).todo))
  BY DEF PipelineIInv, FetchSitemap, At
<1>2. Head(Top(r).todo) \in Contract!MayAsk(opts[r], calls[r][1].url)
  BY <1>1, SearchedMayBeAsked
<1>3. PICK list \in {<< >>, Rest(r)} : Search(r, "sitemaps", list)
  BY DEF FetchSitemap
<1>4. list \in Seq(URLs) /\ opts[r].robots /\ list \in Seq(Contract!Elements(Sitemaps))
  BY <1>1, RestOfSearch, EmptySeq
<1>5. AsksInv' /\ Contract!GoesOn
  BY <1>1, <1>3, <1>4, SearchGoesOn
<1> QED  BY <1>1, <1>2, <1>5, StepFetches

-----------------------------------------------------------------------------
\* Run keeps the contract for any number of requests, URLs and options: every
\* step of a call, nested or not, is one the contract allows its request, or none.
THEOREM RequestsKeepTheContract == PipelineSpec => RequestsKeepContract
<1>1. PipelineInit => AsksInv /\ Contract!Init
  <2> SUFFICES ASSUME PipelineInit PROVE AsksInv /\ Contract!Init
    OBVIOUS
  <2>1. \A o : StackAsks(o, << >>)
    BY EmptySeq DEF StackAsks
  <2>2. AsksInv
    BY <2>1 DEF PipelineInit, AsksInv
  <2> QED  BY <2>2 DEF PipelineInit, Contract!Init, request, answer
<1>2. PipelineIInv /\ AsksInv /\ [PipelineNext]_pipelineVars
        => AsksInv' /\ [Contract!Next]_(Contract!contractVars)
  <2> SUFFICES ASSUME PipelineIInv, AsksInv, [PipelineNext]_pipelineVars
               PROVE  AsksInv' /\ [Contract!Next]_(Contract!contractVars)
    OBVIOUS
  <2>1. CASE PipelineNext
    <3>1. PICK r \in Requests : Begin(r) \/ Proceed(r)
      BY <2>1 DEF PipelineNext
    <3>2. AsksInv' /\ (Contract!Ask(r) \/ Contract!Works(r) \/ Contract!Fetches(r))
      BY <3>1, BeginAsks, GuardWorks, HitWorks, LookupWorks, AskRobotsWorks, FetchFailsFetches,
         FetchRefusedFetches, ArchiveAnswersWorks, FetchPageFetches, TryFallbackWorks,
         FallbackAnswersWorks, StoreWorks, ProbeEndsWorks, ProbeFetches, SkipSitemapWorks,
         FetchSitemapFetches
      DEF Proceed
    <3> QED  BY <3>2 DEF Contract!Next
  <2>2. CASE UNCHANGED pipelineVars
    <3>1. UNCHANGED <<cache, opts, calls, result, sent>>
      BY <2>2 DEF pipelineVars
    <3>2. AsksInv'
      BY <3>1 DEF AsksInv, StackAsks, CallAsks
    <3>3. UNCHANGED Contract!contractVars
      BY <3>1 DEF Contract!contractVars, request, answer
    <3> QED  BY <3>2, <3>3
  <2> QED  BY <2>1, <2>2
<1>3. PipelineSpec => []AsksInv
  BY <1>1, <1>2, PipelineInvariant, PTL DEF PipelineSpec
<1> QED
  BY <1>1, <1>2, <1>3, PipelineInvariant, PTL DEF PipelineSpec, RequestsKeepContract, Contract!Spec
=============================================================================
