---------------------------- MODULE PipelineRun -----------------------------
(***************************************************************************)
(* Run of internal/pipeline/pipeline.go with the fallbacks of fallback.go  *)
(* and the recovery search after an error of the client: in which order it *)
(* asks the SSRF guard, the cache and robots.txt, what it fetches, what it *)
(* stores under which key and what it returns.  Fallbacks call Run again,  *)
(* so a request is a stack of calls.  Requests run concurrently and share  *)
(* the cache.                                                              *)
(*                                                                         *)
(* Parsing, extraction and rendering are a choice of the environment: they *)
(* fail, or give a page that is thin or not, and long or not.  Expiry and  *)
(* failures of the cache are misses and lost Puts at any time (CacheStore  *)
(* has their reasons).                                                     *)
(***************************************************************************)
EXTENDS Naturals, Sequences

CONSTANTS
  Requests,    \* goroutines that call Run
  URLs,
  Requested,   \* URLs that callers ask for
  Twin,        \* deriveMDTwinURL, as functions on URLs
  LLMs,        \* deriveLLMsTxtURL
  Archive,     \* archive.RewriteURL
  Archived,    \* URLs of the archive (isWaybackURL)
  Ancestors,   \* the URLs probeAncestors tries in turn, the root last
  Sitemaps,    \* the sequence of sitemaps that robots.txt names
  Private,     \* URLs of hosts with private addresses
  Disallowed,  \* URLs for which the robots checker answers no
  Options,     \* combinations of options that callers use
  MaxRuns,     \* bound: requests in a behaviour
  NoPage         \* no page: an error, a miss

ASSUME PipelineAssumption ==
  /\ Requested \subseteq URLs /\ Archived \subseteq URLs
  /\ Private \subseteq URLs /\ Disallowed \subseteq URLs
  /\ Twin \in [URLs -> URLs] /\ LLMs \in [URLs -> URLs]
  /\ Archive \in [URLs -> Archived]
  /\ Ancestors \in [URLs -> Seq(URLs)] /\ Sitemaps \in Seq(URLs)
  /\ Options # {}
  /\ \A o \in Options : {o.private, o.robots, o.wayback, o.cache} \subseteq BOOLEAN
  /\ MaxRuns \in Nat

\* o.private is AllowPrivate; o.robots is Robots, which comes with a checker;
\* o.cache is not NoCache; o.shape stands for the options CacheKey writes into
\* the key.
Shapes == {o.shape : o \in Options}
CacheKeys == [url : URLs, shape : Shapes]

\* A page and what is known of it: whose content it is, where redirects led,
\* whether its output reaches CharThreshold.  NoPage is an error or a miss.
Pages == [from : URLs, final : URLs, shape : Shapes, long : BOOLEAN]

\* NoPage is no page, and no request either.
ASSUME NoneAssumption == NoPage \notin Pages /\ NoPage \notin [url : URLs, options : Options]

VARIABLES
  cache,   \* what Get finds
  opts,    \* options of each request
  calls,   \* the stack of each request: Run and the Runs its fallbacks make
  result,  \* what the last call returned, until its caller has taken it
  sent,    \* what the last step gave to Client.Fetch: for whom and which URL
  runs     \* requests so far

pipelineVars == <<cache, opts, calls, result, sent, runs>>

\* A call of Run; todo are the URLs a fallback or a search has still to try.
Call == [url : URLs, nested : BOOLEAN, caching : BOOLEAN, page : Pages \union {NoPage},
         todo : Seq(URLs),
         pc : {"guard", "lookup", "robots", "fetch", "fallback", "twin", "archive",
               "probe", "sitemaps", "store"}]

\* A call has a page from the time it is fetched until it returns.
PipelineTypeOK ==
  /\ cache \in [CacheKeys -> Pages \union {NoPage}]
  /\ opts \in [Requests -> Options]
  /\ calls \in [Requests -> Seq(Call)]
  /\ \A r \in Requests : \A i \in 1..Len(calls[r]) :
       calls[r][i].page # NoPage <=> calls[r][i].pc \in {"fallback", "twin", "store"}
  /\ result \in [Requests -> Pages \union {NoPage}]
  /\ sent \in [by : Requests, url : URLs] \union {NoPage}
  /\ runs \in 0..MaxRuns

\* Whose options a request has before it is one does not matter.
PipelineInit ==
  /\ cache = [k \in CacheKeys |-> NoPage]
  /\ opts = [r \in Requests |-> CHOOSE o \in Options : TRUE]
  /\ calls = [r \in Requests |-> <<>>]
  /\ result = [r \in Requests |-> NoPage]
  /\ sent = NoPage
  /\ runs = 0

-----------------------------------------------------------------------------
(* Calls and returns.                                                      *)

Top(r) == calls[r][Len(calls[r])]
At(r, place) == calls[r] # <<>> /\ Top(r).pc = place

\* A call of Run with the options of the request; o is shared by nested calls.
NewCall(o, u, nested) ==
  [url |-> u, nested |-> nested, caching |-> o.cache, page |-> NoPage,
   todo |-> <<>>, pc |-> "guard"]

\* What the call on top of the stack becomes.
Become(r, call) == calls' = [calls EXCEPT ![r][Len(calls[r])] = call]
MoveTo(r, place) == Become(r, [Top(r) EXCEPT !.pc = place])
Search(r, place, list) == Become(r, [Top(r) EXCEPT !.pc = place, !.todo = list])

\* Mutant: fetchAndProcess does not set DisableFallback.
CallFallbackAgain(r, u, place, rest) ==
  calls' = [calls EXCEPT ![r] =
              Append([@ EXCEPT ![Len(@)].pc = place, ![Len(@)].todo = rest],
                     NewCall(opts[r], u, FALSE))]

\* fetchAndProcess for u; the caller goes on at place with rest to try.
CallFallback(r, u, place, rest) ==
  calls' = [calls EXCEPT ![r] =
              Append([@ EXCEPT ![Len(@)].pc = place, ![Len(@)].todo = rest],
                     NewCall(opts[r], u, TRUE))]

\* Mutant: what has been tried is tried again.
RestAgain(r) == Top(r).todo

Rest(r) == Tail(Top(r).todo)

Return(r, page) ==
  /\ calls' = [calls EXCEPT ![r] = SubSeq(@, 1, Len(@) - 1)]
  /\ result' = [result EXCEPT ![r] = page]

Begin(r) ==
  /\ calls[r] = <<>>
  /\ runs < MaxRuns
  /\ runs' = runs + 1
  /\ \E o \in Options, u \in Requested :
       /\ opts' = [opts EXCEPT ![r] = o]
       /\ calls' = [calls EXCEPT ![r] = <<NewCall(o, u, FALSE)>>]
  /\ result' = [result EXCEPT ![r] = NoPage]
  /\ sent' = NoPage
  /\ UNCHANGED cache

-----------------------------------------------------------------------------
(* One call, from the guard to the fetch.                                  *)

\* Mutant: robots.txt is not asked.
MayFetchUnasked(r, u) == ~opts[r].private => u \notin Private

\* CheckSSRF and the robots checker let the request fetch u.  Either may also
\* refuse for reasons of its own, a name that is not resolved for one.
MayFetch(r, u) ==
  /\ ~opts[r].private => u \notin Private
  /\ opts[r].robots => u \notin Disallowed

Guard(r) ==
  /\ At(r, "guard")
  /\ \/ /\ ~opts[r].private => Top(r).url \notin Private
        /\ MoveTo(r, "lookup")
        /\ UNCHANGED result
     \/ ~opts[r].private /\ Return(r, NoPage)
  /\ sent' = NoPage
  /\ UNCHANGED <<cache, opts, runs>>

Key(r) == [url |-> Top(r).url, shape |-> opts[r].shape]

\* Mutant: the redirect target of a hit is not checked again.
ServableUnchecked(r, page) == page # NoPage

\* A hit whose redirect target passes the guard, if the request has one.
Servable(r, page) ==
  /\ page # NoPage
  /\ ~opts[r].private => page.final = Top(r).url \/ page.final \notin Private

Hit(r) ==
  /\ At(r, "lookup")
  /\ Top(r).caching
  /\ Servable(r, cache[Key(r)])
  /\ Return(r, cache[Key(r)])
  /\ sent' = NoPage
  /\ UNCHANGED <<cache, opts, runs>>

\* The guard refuses the redirect target: the call does without the cache, also
\* when it has a page.
HitRefused(r) ==
  /\ At(r, "lookup")
  /\ Top(r).caching
  /\ cache[Key(r)] # NoPage
  /\ ~opts[r].private /\ cache[Key(r)].final # Top(r).url
  /\ Become(r, [Top(r) EXCEPT !.pc = "robots", !.caching = FALSE])
  /\ sent' = NoPage
  /\ UNCHANGED <<cache, opts, result, runs>>

Miss(r) ==
  /\ At(r, "lookup")
  /\ MoveTo(r, "robots")
  /\ sent' = NoPage
  /\ UNCHANGED <<cache, opts, result, runs>>

AskRobots(r) ==
  /\ At(r, "robots")
  /\ IF opts[r].robots /\ Top(r).url \in Disallowed
       THEN Return(r, NoPage)
       ELSE MoveTo(r, "fetch") /\ UNCHANGED result
  /\ sent' = NoPage
  /\ UNCHANGED <<cache, opts, runs>>

\* Client.Fetch: the guard of the client holds for redirects too.
Redirects(r, u) == {f \in {u} \union Private : ~opts[r].private => f \notin Private}
Asks(r, u) == sent' = [by |-> r, url |-> u]

\* The fetch fails, or the page cannot be parsed, selected from or rendered.
FetchFails(r) ==
  /\ At(r, "fetch")
  /\ Asks(r, Top(r).url)
  /\ Return(r, NoPage)
  /\ UNCHANGED <<cache, opts, runs>>

\* A status from 400 up.  The archive is asked for what is not found (404 and
\* 410); after errors of the client, and an archive that does not help, the
\* ancestors are probed.
FetchRefused(r) ==
  /\ At(r, "fetch")
  /\ Asks(r, Top(r).url)
  /\ \E status \in {"not found", "client error", "server error"} :
       CASE status = "server error" -> Return(r, NoPage)
         [] status = "not found" /\ opts[r].wayback /\ Top(r).url \notin Archived ->
              CallFallback(r, Archive[Top(r).url], "archive", <<>>) /\ UNCHANGED result
         [] OTHER -> Search(r, "probe", Ancestors[Top(r).url]) /\ UNCHANGED result
  /\ UNCHANGED <<cache, opts, runs>>

\* The snapshot is returned as it is; the call does not store it.
ArchiveAnswers(r) ==
  /\ At(r, "archive")
  /\ IF result[r] # NoPage
       THEN Return(r, result[r])
       ELSE Search(r, "probe", Ancestors[Top(r).url]) /\ UNCHANGED result
  /\ sent' = NoPage
  /\ UNCHANGED <<cache, opts, runs>>

-----------------------------------------------------------------------------
(* A page: fallbacks of a thin one, and the cache.                         *)

\* Mutant: the archive is a fallback for requests that do not want it as well.
FallbacksAlways(r, u) ==
  IF u \notin Archived THEN <<Twin[u], LLMs[u], Archive[u]>> ELSE <<Twin[u], LLMs[u]>>

\* What tryFallback tries for u.
Fallbacks(r, u) ==
  IF opts[r].wayback /\ u \notin Archived THEN <<Twin[u], LLMs[u], Archive[u]>>
                                          ELSE <<Twin[u], LLMs[u]>>

Keep(call, page) == [call EXCEPT !.page = page]

FetchPage(r) ==
  /\ At(r, "fetch")
  /\ Asks(r, Top(r).url)
  /\ \E final \in Redirects(r, Top(r).url), long, thin \in BOOLEAN :
       LET page == [from |-> Top(r).url, final |-> final, shape |-> opts[r].shape,
                    long |-> long]
       IN  Become(r, IF thin /\ ~Top(r).nested
                       THEN [Keep(Top(r), page) EXCEPT !.pc = "fallback",
                                                       !.todo = Fallbacks(r, Top(r).url)]
                       ELSE [Keep(Top(r), page) EXCEPT !.pc = "store"])
  /\ UNCHANGED <<cache, opts, result, runs>>

TryFallback(r) ==
  /\ At(r, "fallback")
  /\ IF Top(r).todo = <<>>
       THEN MoveTo(r, "store")
       ELSE CallFallback(r, Head(Top(r).todo), "twin", Rest(r))
  /\ sent' = NoPage
  /\ UNCHANGED <<cache, opts, result, runs>>

\* Mutant: a short page replaces the thin one as well.
BetterAny(page) == page # NoPage

Better(page) == page # NoPage /\ page.long

\* The first fallback that gives a page ends the search, long enough or not.
FallbackAnswers(r) ==
  /\ At(r, "twin")
  /\ Become(r, CASE result[r] = NoPage -> [Top(r) EXCEPT !.pc = "fallback"]
                 [] Better(result[r]) -> [Keep(Top(r), result[r]) EXCEPT !.pc = "store"]
                 [] OTHER -> [Top(r) EXCEPT !.pc = "store"])
  /\ result' = [result EXCEPT ![r] = NoPage]
  /\ sent' = NoPage
  /\ UNCHANGED <<cache, opts, runs>>

\* Put under the key of this call, if it has a cacher and the Put succeeds.
Store(r) ==
  /\ At(r, "store")
  /\ \/ Top(r).caching /\ cache' = [cache EXCEPT ![Key(r)] = Top(r).page]
     \/ UNCHANGED cache
  /\ Return(r, Top(r).page)
  /\ sent' = NoPage
  /\ UNCHANGED <<opts, runs>>

-----------------------------------------------------------------------------
(* The recovery search.  Its hints go into the error, so the call returns  *)
(* none of what it finds.                                                  *)

\* An ancestor that may not or cannot be fetched ends the search, as does the
\* lack of one.
ProbeEnds(r) ==
  /\ At(r, "probe")
  /\ Return(r, NoPage)
  /\ sent' = NoPage
  /\ UNCHANGED <<cache, opts, runs>>

\* An ancestor answers: with an error the next is probed; with links that look
\* like the missing page the search ends; without, the sitemaps are asked for.
Probe(r) ==
  /\ At(r, "probe")
  /\ Top(r).todo # <<>>
  /\ MayFetch(r, Head(Top(r).todo))
  /\ Asks(r, Head(Top(r).todo))
  /\ \/ Search(r, "probe", Rest(r)) /\ UNCHANGED result
     \/ Return(r, NoPage)
     \/ opts[r].robots /\ Search(r, "sitemaps", Sitemaps) /\ UNCHANGED result
  /\ UNCHANGED <<cache, opts, runs>>

\* A sitemap that may not or cannot be fetched is passed over.
SkipSitemap(r) ==
  /\ At(r, "sitemaps")
  /\ IF Top(r).todo = <<>>
       THEN Return(r, NoPage)
       ELSE Search(r, "sitemaps", Rest(r)) /\ UNCHANGED result
  /\ sent' = NoPage
  /\ UNCHANGED <<cache, opts, runs>>

\* Enough entries end the search.
FetchSitemap(r) ==
  /\ At(r, "sitemaps")
  /\ Top(r).todo # <<>>
  /\ MayFetch(r, Head(Top(r).todo))
  /\ Asks(r, Head(Top(r).todo))
  /\ \E enough \in BOOLEAN :
       Search(r, "sitemaps", IF enough THEN <<>> ELSE Rest(r))
  /\ UNCHANGED <<cache, opts, result, runs>>

-----------------------------------------------------------------------------
Proceed(r) ==
  \/ Guard(r) \/ Hit(r) \/ HitRefused(r) \/ Miss(r) \/ AskRobots(r)
  \/ FetchFails(r) \/ FetchRefused(r) \/ ArchiveAnswers(r)
  \/ FetchPage(r) \/ TryFallback(r) \/ FallbackAnswers(r) \/ Store(r)
  \/ ProbeEnds(r) \/ Probe(r) \/ SkipSitemap(r) \/ FetchSitemap(r)

PipelineNext == \E r \in Requests : Begin(r) \/ Proceed(r)

PipelineSpec == PipelineInit /\ [][PipelineNext]_pipelineVars

\* Every call goes on: the client, the resolver and robots.txt have timeouts.
PipelineFairness == \A r \in Requests : WF_pipelineVars(Proceed(r))

FairPipelineSpec == PipelineSpec /\ PipelineFairness
-----------------------------------------------------------------------------
(* Properties.                                                             *)

\* Whatever it derives a URL from, a fallback, an ancestor, a sitemap or the
\* request itself, the pipeline fetches only what the request's options allow:
\* no private host without AllowPrivate, nothing robots.txt disallows with
\* Robots (pipeline.go:103).
FetchesAllowed ==
  sent # NoPage =>
    /\ ~opts[sent.by].private => sent.url \notin Private
    /\ opts[sent.by].robots => sent.url \notin Disallowed

\* A request without AllowPrivate never gets a page that came from a private
\* host, not even one that a request with AllowPrivate left in the cache under
\* a public URL.
PagesAllowed ==
  \A r \in Requests :
    result[r] # NoPage /\ ~opts[r].private => result[r].final \notin Private

\* Fallbacks do not nest beyond the archive of a fallback ("prevents
\* recursion", pipeline.go:68).
NestingBounded == \A r \in Requests : Len(calls[r]) <= 3

\* What a URL's content may be replaced by: what derives from it in any number
\* of steps, for a fallback may hit an entry that has a fallback's content.
Closed(S) == \A u \in S : {Twin[u], LLMs[u], Archive[u]} \subseteq S
Stands ==
  [u \in URLs |-> {v \in URLs : \A S \in SUBSET URLs : u \in S /\ Closed(S) => v \in S}]

\* An entry holds the content of its URL or of one that stands for it, made with
\* the options in its key, and another's only where that is long enough to
\* replace a thin page.
KeysNameContent ==
  \A k \in CacheKeys :
    cache[k] # NoPage =>
      /\ cache[k].from \in Stands[k.url]
      /\ cache[k].shape = k.shape
      /\ cache[k].from # k.url => cache[k].long

\* The key distinguishes "requests that would produce different results"
\* (pipeline.go:126): a request without the archive as a fallback gets nothing
\* from the archive.
ResultsFollowOptions ==
  \A r \in Requests : result[r] # NoPage /\ ~opts[r].wayback => result[r].from \notin Archived

\* The requests as their callers see them: a stack of calls is a request for the
\* URL of its first call; what is returned to it is its answer when the stack is
\* empty.
request ==
  [r \in Requests |-> IF calls[r] = <<>> THEN NoPage
                      ELSE [url |-> calls[r][1].url, options |-> opts[r]]]
answer == [r \in Requests |-> IF calls[r] = <<>> THEN result[r] ELSE NoPage]

Contract == INSTANCE PipelineContract WITH Nothing <- NoPage

\* Through all nested calls, a request asks only for what its URL and options
\* account for (the comment of tryFallback, fallback.go:60-66, says what it tries),
\* leaves in the cache only what others may be given, nothing with NoCache, and
\* ends with a page that may be given for its URL.
RequestsKeepContract == Contract!Spec

\* Every request returns, through all fallbacks and searches.
RunReturns == \A r \in Requests : calls[r] # <<>> ~> calls[r] = <<>>
=============================================================================
