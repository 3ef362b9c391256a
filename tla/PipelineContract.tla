-------------------------- MODULE PipelineContract --------------------------
(***************************************************************************)
(* What a request to the pipeline promises its caller, the sites it visits *)
(* and the requests it shares the cache with, told without the calls of    *)
(* Run: a request asks for URLs that its own URL and its options account   *)
(* for, may leave pages in the cache, and ends with a page or without one. *)
(* The comments of pipeline.go:60-70 and 125-128 and of fallback.go:60-66  *)
(* as a state machine.                                                     *)
(***************************************************************************)
EXTENDS Naturals, Sequences

CONSTANTS
  Requests, Requested, Options,  \* who asks, for what and how
  Twin, LLMs, Archive,           \* what derives from a URL
  Archived,                      \* URLs of the archive, which has no archive
  Ancestors, Sitemaps,           \* where a missing page is looked for
  Private, Disallowed,           \* URLs not for every request
  CacheKeys, Pages,
  Stands,    \* the URLs whose content may stand for that of a URL
  Nothing    \* no request, no page

VARIABLES
  request,   \* what each request is for and how, while it is one
  answer,    \* the page of a request that has ended, until the next
  cache,
  sent       \* the URL that the last step asked for, if any, and on whose behalf

contractVars == <<request, answer, cache, sent>>

Init ==
  /\ request = [r \in Requests |-> Nothing]
  /\ answer = [r \in Requests |-> Nothing]
  /\ cache = [k \in CacheKeys |-> Nothing]
  /\ sent = Nothing

-----------------------------------------------------------------------------
(* What a request for u with the options o accounts for.                   *)

\* The pages it may make: of u, of what its fallbacks derive from it, and with
\* the archive as a fallback of what the archive has of those.
Own(o, u) ==
  LET derived == {u, Twin[u], LLMs[u]}
  IN  derived \union {Archive[v] : v \in IF o.wayback THEN derived \ Archived ELSE {}}

Elements(s) == {s[i] : i \in 1..Len(s)}

\* The pages it may look at for links to a missing one.
Searched(o, u) ==
  (UNION {Elements(Ancestors[v]) : v \in Own(o, u)})
    \union IF o.robots THEN Elements(Sitemaps) ELSE {}

Allowed(o, u) == (~o.private => u \notin Private) /\ (o.robots => u \notin Disallowed)

MayAsk(o, u) == {v \in Own(o, u) \union Searched(o, u) : Allowed(o, v)}

\* A page that may be given for u, wherever it comes from: it is u's or stands
\* for it, is made with these options, and does not come from a private host
\* unless the options allow that.
Answers(o, u, page) ==
  /\ page \in Pages
  /\ page.from \in Stands[u]
  /\ page.shape = o.shape
  /\ ~o.private => page.final \notin Private

\* A page of another URL replaces a thin one, for which it has to be long, or,
\* from the archive, a missing one.
MayEnd(o, u, page) ==
  /\ Answers(o, u, page)
  /\ page.from = u \/ page.long \/ (o.wayback /\ u \notin Archived)

MayStore(o, u, page) ==
  /\ Answers(o, u, page)
  /\ page.from = u \/ page.long

-----------------------------------------------------------------------------
Active(r) == request[r] # Nothing

Ask(r) ==
  /\ ~Active(r)
  /\ \E u \in Requested, o \in Options :
       request' = [request EXCEPT ![r] = [url |-> u, options |-> o]]
  /\ answer' = [answer EXCEPT ![r] = Nothing]
  /\ sent' = Nothing
  /\ UNCHANGED cache

GoesOn == UNCHANGED <<request, answer>>

Ends(r) ==
  /\ request' = [request EXCEPT ![r] = Nothing]
  /\ answer' = [answer EXCEPT ![r] = answer'[r]]
  /\ answer'[r] # Nothing => MayEnd(request[r].options, request[r].url, answer'[r])

\* A request with NoCache leaves the cache alone; others put what they make under
\* the URL they make it for and their own options.
Puts(r) ==
  /\ request[r].options.cache
  /\ \E u \in Own(request[r].options, request[r].url) :
       LET k == [url |-> u, shape |-> request[r].options.shape]
       IN  /\ cache' = [cache EXCEPT ![k] = cache'[k]]
           /\ MayStore(request[r].options, u, cache'[k])

Works(r) ==
  /\ Active(r)
  /\ sent' = Nothing
  /\ UNCHANGED cache \/ Puts(r)
  /\ GoesOn \/ Ends(r)

\* A request that has just asked for a page has none yet: it ends without one.
Fetches(r) ==
  /\ Active(r)
  /\ \E u \in MayAsk(request[r].options, request[r].url) : sent' = [by |-> r, url |-> u]
  /\ UNCHANGED cache
  /\ GoesOn \/ (Ends(r) /\ answer'[r] = Nothing)

Next == \E r \in Requests : Ask(r) \/ Works(r) \/ Fetches(r)

Spec == Init /\ [][Next]_contractVars
=============================================================================
