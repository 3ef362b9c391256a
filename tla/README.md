# Verification of symaira-fetch

symfetch fetches a URL, extracts what matters of the page for an agent and returns it as Markdown,
JSON, text or HTML; a command line, an MCP server and an HTTP server share one pipeline. This
directory models the parts of it that keep state and act concurrently, checks the models with TLC
and proves the properties that matter most with TLAPS. Paths are relative to the repository;
`fetch/` stands for `internal/fetch/` and so on.

## 1. The system

| Component | State it keeps | Operations | Works with |
|---|---|---|---|
| Circuit breakers and limiter, `fetch/backoff.go` | per host: state, one counter, two instants; a map of breakers, time of the last clean-up | `Allow`, `RecordSuccess`, `RecordFailure`, `CleanupStale` | shared by all goroutines that fetch with one client |
| Clients, `fetch/honest.go`, `azuretls.go`, `client.go` | per call: attempt, contexts; per client: pools of proxy clients and sessions | `Fetch` (retry loop), `getProxyClient`, `getProxySession`, `Close` | breakers, SSRF guard, the network |
| SSRF guard, `fetch/guard.go` | none | `CheckSSRF`, `ControlSSRF` | asked by clients, pipeline, robots |
| Response cache, `cache/` | files of body and meta per key, an index file, an index in memory, times of the last eviction and save | `New`, `Get`, `Put`, eviction | one directory for all objects and processes |
| Batch pool, `batch/pool.go`, `adaptive.go` | semaphores and results per batch; target concurrency per host | `RunBatch`; `GetConcurrency`, `RecordSuccess`, `RecordFailure`, `Reset` | runs the pipeline once per URL |
| Pipeline, `pipeline/` | per call only | `Run`, `RunRaw`: cache, SSRF, robots, fetch, fallbacks, render, store | everything above and below |
| robots.txt, `robots/` | rules per domain with expiry | `Check`, `Sitemaps`, `parse`, `isAllowed` | asked by the pipeline |
| Web archive, `archive/` | none | URL rewriting, CDX queries | fallback of the pipeline, MCP |
| Extraction: `dom/`, `semantic/`, `relevance/`, `agentdom/`, `render/` | none between calls | pure functions on a tree or a text | pipeline |
| HTTP server, `httpserver/` | listener, client, running handlers | `Start`, `HandleFetch`, shutdown | pipeline, `fetch.Client` |
| MCP server, `mcp/`, `apicommon/` | client, engine, adaptive pool | `fetch_url`, `fetch_batch`, Wayback tools | pipeline, batch pool |
| Command line and configuration, `cmd/symfetch`, `config/` | none | flags, loops over URLs | pipeline, batch pool |

### What is hard, and what makes each part correct

* **Breakers and retry loops.** Requests to one host share a breaker while each goes through its
  own attempts, timers and contexts. Outcomes arrive late, after the circuit has opened, recovered
  or been dropped by the clean-up. Correct means: the circuit opens, recovers and closes exactly as
  its configuration says whatever the interleaving; an open circuit lets nothing through and does
  not stay open for ever; a transient failure is retried as long as retries are left; every `Fetch`
  returns.
* **Cache.** A `Put` is four file operations for the entry and two for the index, over names that
  other objects use; the process may die in between, an operation may be refused, and a readable
  index is believed at the next start. Correct means: a hit never shows a new meta with an older or
  half-written body, no space is lost sight of, what was stored last survives the eviction it
  causes, the limit on the size is kept.
* **Batch pool.** Two layers of semaphores, cancellation at any moment, a feedback loop on the size
  of one layer. Correct means: limits are kept, every URL has its result in its place, nothing is
  stuck, the feedback stays within its bounds and can recover.
* **Pipeline.** Every URL that is fetched, also those of fallbacks and recovery probes, passes the
  checks that guard the first one; what is cached under a key is what the key describes.
* **Proxy pools.** A map and a list of keys, changed together at the limit, when a proxy cannot be
  used and by `Close`, while requests hold entries. Correct means: the two agree, what is evicted is
  the oldest, and a client made for one guard is never given to a request with another.
* **robots.txt.** Rules are grouped and matched as RFC 9309 says, or it is known where not.
  Concurrent misses of one domain all ask the site, and store in whatever order the answers come.
  Correct means: no answer is older than a lifetime and a timeout, and a failure is not remembered.
* **HTTP server.** A signal, an error of the listener, the deadline of the shutdown and handlers
  whose clients are slow meet in any order. Correct means: the server stops when it is told to, a
  shutdown without error cut nobody off, nothing is fetched that a guard should have refused.
* **Algorithms.** Cuts, offsets, distances, rankings at their boundaries; three entrances that read
  the same arguments with code of their own.

## 2. Modules

| Module | What it is | Code |
|---|---|---|
| `CircuitBreaker` | one breaker as a record and its methods as functions of it | `fetch/backoff.go` |
| `BreakerContract` | abstract specification: what one breaker promises to the calls of its host | comments and `CircuitBreakerConfig` of `fetch/backoff.go` |
| `RetryFetch` | the limiter and the retry loops of both clients, goroutine by goroutine | `fetch/backoff.go`, `honest.go`, `azuretls.go`, `client.go` |
| `RetryFetchMC` | symmetry for TLC | |
| `RetryFetchProofs` | theorems about `RetryFetch` | |
| `CacheStore` | Cache objects, their indexes, the directory and the file operations | `cache/cache.go`, `index.go` |
| `CacheStoreMC` | symmetry for TLC | |
| `CacheStoreProofs` | theorems about `CacheStore`, and the lemmas about sums they need | |
| `AdaptivePool` | one host's statistics as a record and the methods as functions of it | `batch/adaptive.go` |
| `BatchPool` | batches, their goroutines and semaphores, sharing one adaptive pool | `batch/pool.go` |
| `BatchPoolMC` | symmetry for TLC | |
| `BatchPoolProofs` | theorems about `BatchPool` | |
| `PipelineRun` | requests as stacks of calls of `Run`, sharing a cache | `pipeline/pipeline.go`, `fallback.go` |
| `PipelineContract` | abstract specification: what requests fetch, answer and keep, whatever work is done inside | comments of `pipeline.go`, `fallback.go` |
| `PipelineSite` | a site with its derived URLs, combinations of options | |
| `PipelineRunMC` | symmetry for TLC | |
| `PipelineRunProofs` | theorems about `PipelineRun` | |
| `PipelineCacheMC` | the pipeline over an ideal cache, and a Cache object on its files | |
| `ProxyPools` | the pools of both clients and the requests that hold their entries | `fetch/honest.go`, `azuretls.go` |
| `ProxyPoolsProofs` | theorems about `ProxyPools` | |
| `RobotsRules` | parsing, grouping and matching; two readings of the same lines, the code's and that of RFC 9309 | `robots/robots.go` |
| `RobotsChecker` | concurrent `Check`s of one domain, the cache, a site that changes its file | `robots/robots.go` |
| `RobotsCheckerProofs` | theorems about `RobotsChecker` | |
| `HTTPServer` | `Start`, its listener, signal and shutdown, and the handlers | `httpserver/server.go` |
| `HTTPServerProofs` | theorems about `HTTPServer` | |
| `Endpoints` | the arguments of `fetch_url`, `fetch_batch` and `POST /fetch` | `mcp/tools.go`, `mcp/args.go`, `httpserver/server.go` |
| `Truncation` | the window, the stored text and the offset | `pipeline/truncate.go` |
| `Selection` | what a loop with a condition collects from a list | |
| `Relevance` | sections, ranking, joining; the filter of JSON content | `relevance/relevance.go`, `pipeline/pipeline.go` |
| `Candidates` | the links that recovery suggests, their URLs, scores, order | `pipeline/pipeline.go` |
| `AgentDOM` | the filter, the best block, the agent's document | `dom/filter.go`, `semantic/score.go`, `classify.go`, `agentdom/builder.go` |
| `LivenessMC` | pipeline, fetches, batches and the HTTP server, each under its fairness | |
| `SharedStateMC` | two Cache objects, a proxy pool, a robots Checker, two batches with one adaptive pool | |
| `AlgorithmsMC` | every small input of the pure algorithms | |
| `AlgorithmsProofs` | theorems about `RobotsRules`, `Candidates`, `Truncation`, `Endpoints`, `Relevance` and `AgentDOM` | |

Operators whose comment begins with "Mutant" are deliberately wrong variants of the definition that
follows them; nothing uses them except the check that each property can fail.

### RetryFetch

`pc[r]` is the place of goroutine `r` in `doFetchWithRetry`: before `Allow` (`gate`), in `hc.Do`
or `session.Do` (`sent`, or `doomed` when the context was done already), in `io.ReadAll`
(`reading`), in the `select` on the delay (`backoff`), or outside (`done`). `attempt`, `expired`
and `cancelled` are the loop variable and the two contexts; the honest client has one deadline for
all attempts and waits for the outer context only, the azure client has a timeout per attempt and
looks at its context only in the `select`. `result` is what `Fetch` returned.

`known` and `breakers` are the limiter's map. The methods hold its mutex, so each is part of one
step; all else interleaves. `Gate` is `Allow` with the clean-up it may make; `Error`,
`HonestRetryStatus`, `HonestRead`, `AzureResponse` and `AzureTooLarge` are the ends of an attempt
with what they record, `HonestReadFails` and `AzureRefused` those that record nothing. Instants
appear as ages in ticks that stop growing beyond the bound they are compared with (`Older`), which
loses nothing because the code only compares them. Delays are not measured: a timer fires at some
time (`BackoffOver`), which covers every value of `BackoffDelay` and `Retry-After`.

### CacheStore

`disk` and `tmp` give the content of each final and each temporary name; `index[c]`, `dirty[c]`,
`evictDue[c]` and `saveDue[c]` are the memory of object `c`. `pc[c]` says which file operation of
`Put`, `save`, `evictIfOverSize` or `New` comes next. A content is the number of the `Put` that
wrote it, or an index, or `Torn`: truncated, or a mixture of two writers. `fd[c]` follows the file
that `c` has open when another object renames it (`FollowRename`) or removes it, so two objects
writing one temporary name behave as on a POSIX file system. `Crash` and `Quit` lose the memory;
`Refused` is an open, a write or a rename that fails, with the code's two reactions: `Put` returns,
`save` is ignored. A removal may be refused as well (`RemoveFile`); the code does not ask, and
`EvictMeta` takes the entry out of the index whatever has become of its files. All of these count as
`interruptions`, like crashes. `Space(k)` is what the files of `k` take, the body without a meta
included, which a scan does not see.
A power failure that loses renamed files is not modelled (the code does not sync).

### BatchPool

`itemPc[b][i]` is the place of the goroutine of item `i`: waiting for the batch (`global`), before the
look at the context (`check`), waiting for its host (`host`), in `pipeline.Run` (`run`) or ended
(`done`). A buffered channel is the number of its tokens and, for a host, the size it was made with
(`hostSems[b][h]`); which host an item goes to is chosen when its goroutine first looks it up.
`FinishItem` is what follows `pipeline.Run`: the record in the adaptive pool, the result and both
deferred receives; these are one step because nothing in between is read by others and the receives
only let others go on. A result is zero, as `RunBatch` makes it, or written. `stats` belongs to the
adaptive pool and is shared by all batches, as in the
MCP handler; `Reset` may come at any time. Sums of latency are written and never read, and left out.

### PipelineRun

`calls[r]` is the stack of request `r`: `Run`, and the `Run`s that `fetchAndProcess` makes for a
twin, `llms.txt` or a snapshot. A call's `pc` is its place in `Run` (`guard`, `lookup`, `robots`,
`fetch`, `store`), in `tryFallback` (`fallback`, or `twin` while a nested call runs), in the archive
branch (`archive`), or in the search of `probeAncestors` and `findCandidatesFromSitemaps`; `todo` is
what the loop it is in has left, `caching` whether it still has its cacher, `page` its own page.
URLs are values, and what the code derives from them (`Twin`, `LLMs`, `Archive`, `Ancestors`) is
given by constants. `sent` is what the last step handed to `Client.Fetch`, which is what the
properties about guards look at. Parsing, extraction and rendering either fail or give a page that
is thin or not and long or not. Addresses and the answers of robots.txt do not change during a
behaviour; either check may also fail. The cache is a function of keys whose Puts may be lost and
whose entries may expire, which is what `CacheStore` shows in detail.

### ProxyPools

`sessions` and `order` are the map and the list of keys; an entry is its identity, numbered as made,
and whether connections through it are checked by the SSRF guard. `honest` says which pool it is:
the honest one keys by proxy and guard and falls back to a client without a proxy; the azure one keys
by proxy, closes the session it evicts, and hands out nil when the proxy is refused. Both look up,
evict and insert under one mutex, so a call is one action: `GetFromPool`, `GetNew` or `GetRefused`.
`uses[u]` is what request `u` goes out with until `Finish`; `closed` the sessions that were closed.

### RobotsRules and RobotsChecker

A file is the sequence of the lines that `parse` keeps; groups, rules and their order are as in the
code. Patterns and paths are sequences of characters, matched by prefix as `matchPath` does; of an
agent's name there is how well it matches ours. Two readings of the same lines have no groups of the
parser's: `Reads` is the one the code turns out to make of every file, where rules without a value
are not there and one group counts; `StandardAllows` is that of RFC 9309, with all groups that name
us joined, rules without a value between groups, and a matcher of its own in which `*` may stand
anywhere and `$` at the end. `Departs` lists the five forms of file on which the two can differ.
`RobotsChecker` adds calls of `Check`: `checkPc[c]` is the
lookup, the guard, the request on its way, and the answer read but not stored; each touch of the cache
is one step because it holds the lock. `site` is what the site serves; `gone[f]` how long ago it
last served `f`; an entry has the time it has left. The clock stops for a request that is at its
timeout, and for steps that take no time.

### HTTPServer and Endpoints

`main` is `Start` (`new`, `serving` in its `select`, `shutdown`, `returned`) and then the command
(`exited`). `listener` is the goroutine of `ListenAndServe`, `signalled` the context of
`NotifyContext`, `client` the `fetch.Client` with its deferred `Close`. `handler[r]` is a call of
`HandleFetch`: reading the body, checking what it says, fetching; `lost` when the process ends under
it. `answer[r]` is the status. `Endpoints` has what each entrance does with the arguments: which JSON
types a reader takes, which values are refused, defaults, limits, and the options that reach the
pipeline; a value is its type and what it counts.

### Truncation, Relevance, Candidates, AgentDOM

Operators and folds, one for each function. A text is the widths of its runes, so cuts by bytes and
by runes differ; a page is a sequence of lines, a score any number (the arithmetic of BM25 is left
out), and the orders an unstable sort may leave are a set; a link is the form of its `href`, its last
segment, its title, and where it really leads. A parsed page is the sequence of its nodes in document
order with their depths, so that what is below a node is a range and the walks of the code are folds;
a tag stands for those the code treats alike, and a rune is known by the node it comes from. Scores are
exact numbers instead of floating-point ones; those of recovery are rounded down to 1/600, so that of two
long segments whose similarities differ by less neither is the better.

`LivenessMC`, `SharedStateMC`, `PipelineCacheMC` and `AlgorithmsMC` check several components in one
run: a behaviour picks one (`part`), the others stay in their initial states.

## 3. Runs

| Run | What it checks | Instance |
|---|---|---|
| `fetch_safety` | types; counters below thresholds; `BreakersKeepContract`; `OpenAdmitsNothing`; `HonestRetriesTransient` | 2 hosts, 2 requests, both clients, 1 retry, thresholds 2 and 2, all events |
| `liveness` | `RunReturns`; `FetchReturns`, `OpenIsProbed`; `BatchReturns`; `TypeOK` of `HTTPServer`, `ServerReturns`, `ShutdownIsGraceful`, `FetchIsAuthorized` | 2 requests for one page, one after the other; 1 host, 2 fetches, thresholds 2 and 1; 1 batch of 3 items; a server with 2 requests; fairness |
| `host_503` | `FailingHostOpens`: violated, see findings | defaults: 3 retries, thresholds 5 and 2 |
| `shared_state` | types; `NoTmpLeft`; `PoolHoldsYoungest`, `ClosedWhenOld`, `GuardFollowsRequest`; `AnswersFollowSite`; `WithinLimits`, `TokensAreOwned`, `OutcomesComplete`, `TargetInBounds` | 2 objects, 2 keys, 2 Puts; 2 requests, 4 proxies, one bad, a pool of 2; 2 Checks, 3 files, lifetime 2, timeout 1; 2 batches at a time, 3 items, 2 hosts, 2 workers, targets 1 to 2 |
| `cache_limit` | `LimitIsKept`: violated, see findings | 2 objects, 3 keys, 3 Puts |
| `batch_cancel` | `EveryItemHasOutcome`: violated, see findings | 1 batch of 3 items |
| `pipeline` | `FetchesAllowed`, `PagesAllowed`, `NestingBounded`, `KeysNameContent`, `RequestsKeepContract`; `ServedIsSound`, `UndercountBounded`, `TotalIsSum`, `PutIsServed` | 2 requests at a time for a page or its twin, three combinations of options; 1 Cache object, 3 keys, 3 Puts, 2 crashes or refusals, removals included |
| `algorithms` | `RobotsMeaningIsKnown`, `TailIsFound`, `QueriesKeepBest`, `DistancesAreLeast`, `BestAreSuggested`, `PagesAreOutlined`, `ArgumentsMeanTheSame` | every file of 4 lines with six patterns, text of 6 runes of 1 to 4 bytes, page of 4 lines, 5 scores, words of 6 letters in all, 4 links, page tree of 4 nodes, 4 arguments |
| `robots_standard` | `RobotsFollowStandard`: violated, see findings | the same inputs |
| `truncate_head` | `HeadIsWhole`: violated, see findings | the same inputs |
| `recovery_links` | `SuggestionsAreLinks`: violated, see findings | the same inputs |
| `cache_options` | `ResultsFollowOptions`: violated, see findings | 2 requests for one page, one after the other |

Bounds. For the breakers, two requests are enough for an outcome to arrive late, two failures to
open and two successes to close exercise every count below, at and above a threshold, and two hosts
let the clean-up of one meet the calls of another; the theorems remove these bounds. Requests start
over without limit, so nothing bounds the length of a behaviour there. In the cache, sizes and the
limit are such that two entries fit and the third evicts, three keys and three Puts bring an
eviction with a reload before or after it, and two interruptions allow one in the recovery from the
other. In `shared_state`, where there are two Puts in all, the first has the larger body, so that
the second is over the limit and the eviction it makes has room for it. In a batch, three items on two
workers make one wait for a slot, and a host with a channel of one or two makes another wait for
that; two batches meet in the adaptive pool. A pool of two with three good proxies evicts twice, and `MaxCreated` lets it do so again after a
`Close`. Two `Check`s are enough for a late answer to replace a newer one, and a lifetime longer than
the timeout tells the two apart. One server request is enough to hold up a shutdown, the second can
arrive after it. For the algorithms, four lines hold each of the five forms of `Departs` and a
rule that shows the difference, six runes every mixture of widths around a cut for limits 1 to 5, four
lines two headings with and without text, four links more than are suggested, four nodes a form with a field and two texts, so that
budgets of 2, 3 and 5 runes end in each of them (0 is none), four arguments two that interact with the URL and the
format. The pipeline has one page
with everything that derives from it, and its twin, which is asked for in its own right and has a twin
of its own, so that a fallback may hit what another fallback has left. There is a redirect target and a
sitemap on a private host, a fallback and a sitemap that robots.txt disallows, a sitemap that may be
fetched, and two requests, at once or one after the other, so that each can find in the cache what the
other stored under other options. For liveness one request after the other is enough, because a call
waits for no other request, and so is one batch, because a batch waits for no other. `MaxRuns` bounds
the requests; the runs with the pipeline do not look for deadlocks, because the program rests when
nobody asks for anything. `MaxPuts`, `MaxBatches` and `MaxInterruptions` stop the growth of the state; when they are used up an object can still be
closed and opened and a host reset, so those runs do not end in a deadlock.

Fairness. `FairSpec` has weak fairness of each goroutine's own steps: the Go scheduler runs every
goroutine that can run, every `Do` ends because each attempt (azure) or the whole loop (honest) has
a timeout, and every timer fires. It has weak fairness of the clock. Nothing obliges a caller to
fetch or to cancel, or a host to answer well. `SteadySpec`, for `host_503`, adds that callers go on
fetching. For batches it has weak fairness of every goroutine
and of the return of `RunBatch`: the channels wake a waiting sender when there is room, and
`pipeline.Run` returns because the client has timeouts. Nobody is obliged to start or to cancel a
batch. In the pipeline every call goes on, for the same reason and because the resolver and the
robots checker have timeouts. In the HTTP server the `select` of `Start` goes on when one of its
channels is ready, `Shutdown` when its deadline has passed or its handlers are gone, and a handler
that has its body, because the context of a fetch has a deadline. A handler that reads its body has
no fairness: nothing in the code bounds that wait (`ReadHeaderTimeout` covers the header only).
`PartSpec` of `LivenessMC` conjoins the four; in a behaviour of one component no fair action of
the others is enabled, so they ask for nothing.

## 4. Findings

* `host_503`. The last attempt of a `Fetch` that still gets a 503 is recorded as a success
  (`fetch/honest.go:261`), so a host that answers nothing but 503 never has its circuit opened with
  the default configuration: three failures, one success, for ever.
* `cache_limit`. Two Cache objects on one directory overwrite each other's index; entries that are
  lost from it are never evicted, so the maximum size (`README.md:213`) is not kept.
* `batch_cancel`. A goroutine that finds its context done returns without writing its result
  (`batch/pool.go:82`), so the caller gets zero `Result`s, without URL and without error, for the
  items a timeout has cut off.
* `robots_standard`. The package implements RFC 9309 by its comment (`robots/robots.go:1`), but
  `matchPath` takes `$` and a `*` inside a pattern for letters: a `Disallow: /$` leaves the root page
  allowed. The other ways in which a file can mean something else are those of `Departs`: a `Sitemap`
  before the first agent opens a group for everyone, which that agent joins; rules without a value do
  not keep two groups apart; of the groups that name us only one counts; a name that is a part of ours
  counts as ours.
* `truncate_head`. `truncateTo` "returns the first n runes" (`pipeline/truncate.go:125`), but takes
  `len(string(s[i]))`, which is at most 2, for the width of the last one: of a rune of three or four
  bytes the rest is lost.
* `recovery_links`. A link on an ancestor page whose `href` is a whole URL, or has a query, is
  suggested as another URL: the `href` is taken for a path (`pipeline/pipeline.go:627`), so scheme and
  query become part of the path of the ancestor's host.
* `cache_options`. The key of the cache leaves out `WaybackFallback` and `WaybackTimestamp`
  (`pipeline/pipeline.go:135`), but a fallback is stored under the key of the page it stands for. A
  request that does not want the archive is served the snapshot that one with it has left.

Other disagreements, which the models contain and no run is spent on:

* After a single failure the target of a host stops growing: `RecordSuccess` raises it only when
  `errorCount` is 0, and only a second failure sets it back to 0 (`batch/adaptive.go:71`);
  `batch/adaptive_test.go:131` expects five more successes to be enough.
* The azure client, which serves every profile but `honest`, never asks `IsTransientError`
  (`fetch/azuretls.go:204`); a 503 is not retried although `WithRetry` promises retries "for transient
  errors" (`fetch/client.go:162`).
* With a limit of one character the head still has one (`pipeline/truncate.go:72`) and so has the tail:
  the window has two, although the limit is a "character budget" (`pipeline/truncate.go:25`).
* `Builder.walk` enters containers "so nested interactive elements are not missed"
  (`agentdom/builder.go:48`), but no paragraph, list item or table cell, and of a form only the direct
  children: links and fields inside those get no id and are in no list. Text directly in a `div` is in
  no element.
* A batch with one URL of another scheme is refused as a whole, and items that are empty or no strings
  are dropped, so results are not in the places of the URLs (`mcp/tools.go:226`), although the tool
  says that one failure does not abort the batch.
* A query rewrites every heading as one of level two and drops blank lines
  (`relevance/relevance.go:226`); a JSON or Markdown query keeps sections whose score is zero.
* A proxy that does not parse is replaced by no proxy at all (`fetch/honest.go:150`); one that the
  azure client refuses gives a nil session, on which the next call panics (`fetch/azuretls.go:131`,
  `:164`).

## 5. Proofs

`RetryFetchProofs` proves for any hosts, requests, retries, thresholds and clock bounds that satisfy
`BreakerAssumption` and `FetchAssumption` (positive thresholds, natural numbers elsewhere, known
clients and events):

* `Inductive`: `Spec => []IInv`. `IInv` is the type invariant, the two invariants that are checked,
  and what they need to be inductive: a request backs off only with a retry left (else `BackoffOver`
  could pass `MaxRetries`), and reads the body of a transient response only when none is (else
  `HonestRead` could return one early). The argument goes action by action; lemmas say that each
  function of `CircuitBreaker` preserves the type of a breaker and its count below the thresholds.
* `TypeCorrect`, `CountersStayBelow`, `HonestRetries`: the parts of `IInv`.
* `Refinement`: `Spec => BreakersKeepContract`. For each host the mapping takes the calls in flight
  to be the requests on the wire, and splits the one counter in two by the state. Each action is
  mapped to an action of the contract for the host it is about (`Gate` to `Admit` or `Probe`, the
  ends of attempts to `Settle`, `Tick` to `Wait`, the clean-up to `Forget`) and to `Forget` or a
  stutter for the others.
* `OpenCircuitRejects`: the action property `OpenAdmitsNothing`.

`BatchPoolProofs` proves for any batches, finite set of items, hosts, limits and thresholds that
satisfy `AdaptiveAssumption` and `BatchAssumption`:

* `BatchInvariant`: `BatchSpec => []IInv`. To the invariants that are checked `IInv` adds that a
  goroutine has its host exactly while it waits for it or runs, that a channel has no more tokens
  than its size and a size within `HostLimit`, and that only a cancelled batch has goroutines that
  ended without a result. The tokens are cardinalities of sets of goroutines; lemmas say how these
  sets change when one goroutine moves (`SlotsAfterMove`, `RunningAfterMove`), and the step of every
  action then follows with `OneMore` or `OneLess`.
* `BatchTypeCorrect`, `BatchTokensOwned`, `BatchTargetInBounds`, `BatchOutcomesComplete`: parts or
  consequences of `IInv`. `BatchWithinLimits`: the pipelines that run are among the goroutines that
  hold tokens, and tokens are bounded by sizes.

`ProxyPoolsProofs` proves for any requests, proxies and pool size that satisfy `ProxyAssumption`:

* `PoolInvariant`: `Spec => []PoolIInv`, which adds to `PoolTypeOK` and `PoolHoldsYoungest` that the
  list has no key twice and that the map has no key outside the list.
* `PoolTypeCorrect`, `PoolAgrees` (the map, the list and the ages agree, so an eviction
  never takes the head of an empty list), `PoolGuards` (`GuardFollowsRequest`; its invariant adds that
  every entry under a key has the guard of the key) and `PoolClosesOld` (`ClosedWhenOld`, from the ages:
  what is evicted is the head of a full list).

`HTTPServerProofs` proves for any set of requests:

* `ServerInvariant`: `Spec => []ServerIInv`. It relates the place of `Start` to its listener, its
  client and what it returned (`MainInv`), and the stage of each handler to what its request may have
  (`CallInv`): a handler past its checks has a call that passed them, and none is left when `Start`
  returned without an error.
* `ServerTypeCorrect`, `ShutdownGraceful` (`ShutdownIsGraceful`), `FetchAuthorized`
  (`FetchIsAuthorized`): consequences of it.

`PipelineRunProofs` proves for any URLs, any way URLs derive from each other, any options and any
requests that satisfy `PipelineAssumption` (derived URLs are URLs, snapshots are in the archive, there
are options to choose) and `NoneAssumption` (no page is the value that stands for none):

* `PipelineInvariant`: `PipelineSpec => []PipelineIInv`. The types say nothing of what a call has
  checked, so `CallInv` ties it to its place: a call past `guard` is for a URL the guard passed, one that
  fetches is for one robots.txt allowed, one with a page has one that may be stored under its
  key, and only an outer call has fallbacks. `StackInv` says which call waits for which (`WaitsFor`), so that the page
  of a nested call (`ResultInv`) answers the call that takes it; that a page may stand for a URL
  through several fallbacks (`StandsThrough`) is where the closure in `Stands` is needed.
* `RequestsKeepTheContract`: `PipelineSpec => RequestsKeepContract`, the refinement of
  `PipelineContract` by the stack of calls. The mapping shows of a request the outermost call only:
  what it was asked, and what it answers once its stack is one finished call; cache and requests sent
  are the code's. The nested calls become steps of one request (`Works`, `Fetches`), so the theorem says
  that none of them fetches what the outermost options do not allow, stores a page under a key it
  does not belong to, or answers for another request. It needs a second invariant, `AsksInv`: every call on a stack was
  made from the outermost one, for the URL itself, for one that a fallback may try, or for the archive, and with
  its options less the fallbacks. One lemma per action maps the action to a step of the contract.
* `FetchedIsAllowed`, `ReturnedIsAllowed`, `CacheNamesContent` (`FetchesAllowed`, `PagesAllowed`,
  `KeysNameContent`): parts of it. `NestingIsBounded`: in a stack of three the last call is for
  the archive, and such a call waits for no other.

`CacheStoreProofs` proves for any finite set of keys, sizes and bounds that satisfy `CacheAssumption`
and `ContentAssumption` (the contents of files can be told apart):

* `StoreInvariant`: `Spec => []StoreIInv`, for any number of objects on the directory. It adds to the
  types that a `Put` writes files of its own key, that between the two removals of an eviction the
  eviction is not over (else a negative total could not be excluded), that the index that is being
  written has the sum of its entries too, and that every temporary file has a writer until something is
  interrupted. `StoreTypeCorrect`, `TotalsAreExact` (`TotalIsSum`) and `TmpFilesAreGone` (`NoTmpLeft`)
  follow.
* `AloneInvariant`: for one object (`Caches = {c}`), `Spec => [](StoreIInv /\ AloneInv)`: its
  temporary file is its own, the body of a `Put` is in place before its meta is written, final
  files are whole; the keys that take more space than an index says, the key of a running `Put` aside,
  are no more than the crashes and the refused operations (`CountsHold`, for the index in memory, the
  one on disk and a scan (`Unseen`), since the next start may take any; the key of a body that an
  eviction has failed to remove (`Left`) is among them before it leaves the index); and a `Put` keeps the youngest entry until it returns
  (`PutIsPlaced`), so eviction takes it last. `ServedPairsAreSound` (`ServedIsSound`),
  `UndercountsAreInterruptions` (`UndercountBounded`) and `PutsAreServed` (`PutIsServed`) follow. The
  hypothesis is needed: two objects write each other's temporary files, and the run `cache_limit` shows one of the
  consequences.
* The totals need that the sum of a function changes with one of its values (`SumOfUpdate`) and that
  only finitely many terms count. The sum is computed by recursion on sets, and the library's induction
  theorems are out of reach, so these lemmas take a minimal counterexample, whose existence `WFMin`
  gives, instead.

`RobotsCheckerProofs` proves for any files, calls and paths that satisfy `RobotsAssumption` (a
lifetime above zero):

* `RobotsInvariant`: `RobotsSpec => []RobotsIInv`. What a call has parsed is a file that the site has
  served since the call asked for it (`ReadsAreRecent`), and what is cached has aged by what it has
  lost of its lifetime, whoever stored it over what (`CacheIsRecent`). `RobotsTypeCorrect` and the action property
  `AnswersAreRecent` (`AnswersFollowSite`) follow.

`AlgorithmsProofs` proves about pure functions, for inputs of every size:

* `RobotsReadsEveryFile`: for every file and every path, `IsAllowed(Parse(file), path)` is
  `Reads(file, path)`; agents match with any specificity (`SpecificityAssumption`), patterns are any
  sequences of characters (`PatternAssumption`). `Parse` is a fold over the lines: `ParseGroups` says,
  by a minimal counterexample among the lengths of files, that every line that belongs to a group was
  put into the group of its number and no other; the group the code chooses has exactly the rules
  that stand with the first of the best names (`RuleOfGroup`).
* `RobotsDepartAsListed`: for every file and every path where `IsAllowed` and `StandardAllows` differ,
  the file has one of the five forms of `Departs`. Two parts: a pattern without `*` inside and `$` at
  its end matches a path in the one way exactly when in the other (`PlainMatches`), and without the
  other four forms the same rules count (`DeparturesAreKnown`). `RobotsStayKnown` makes the invariant
  `RobotsMeaningIsKnown` of both theorems. That the two do differ is the run `robots_standard`.
* `LevenshteinIsLeast`: for any two words `Levenshtein` is the cost of the cheapest alignment.
  `LevenshteinFillsTable` unfolds the fold over rows and the recursion along a row into a table;
  every entry is the least cost for two prefixes (`TableIsCheapest`), because an alignment leaves out one
  of the last letters or pairs them with each other (`WithinSplits`). `WordsKeepDistance` is the
  invariant `DistancesAreLeast`.
* `TailOfAnyText`: for every text of runes of 1 to 4 bytes, every limit and every cap on the file,
  `OffsetFindsTail`. `HeadEndsNarrow`: the head of a text that is cut is its first runes, whole
  (`HeadIsFirst`), exactly when the last of them has one or two bytes; the run `truncate_head` shows
  one that has three. `BytesOf` flattens a sequence of pieces. `FlattenSeq` is recursive, so `FlattenTable` states it as a table of the prefixes, which exists
  (`FlattenTableExists`) and is unique (`FlattenTablesAgree`); one piece more is appended at the end
  (`FlattenOneMore`). From that `BytesAre` says at which byte each rune begins, `StartsAgree` that
  these are the starts `StartOf` counts, and the cuts of the head, the tail and the stored file, each
  the largest that fits, fall on them (`OffsetFinds`). `TailsStayFound` is the invariant `TailIsFound`.
* `EntrancesTakeTheSame`: `OptionsAgree(args)`, the half of `ArgumentsMeanTheSame` that is about
  arguments of one URL, for all arguments. `BatchTakesTheSame` is the other half, for all lists of
  values: the URLs of a batch are those `fetch_url` would take, none more often, in their order.
  `ArgumentsAgree` is the invariant.
* `QueryKeepsTheBest`: `QueryKeepsBest` for every page, all scores and every limit. `PagesLoseNothing`
  takes the fold of `SplitMarkdownSections` line by line: what is saved and what is open together say
  what has been read. Joined in another order the sections have the same lines, since `FlattenSeq`
  holds its cells, each once, and an order moves them (`FlattenPermuted`). `FilterKeepsTheBest` is
  `FilterKeepsOrder`: a stable order exists (`StableOrderExists` reads the rank of each element
  backwards), and `Selected` gives the chosen places in their order (`SelectedPlaces`).
  `QueriesKeepTheBest` is the invariant `QueriesKeepBest`.
* `SuggestionsAreBest`: `CandidatesAreBest` for every page, sitemaps and segment. `InsertionSorts`:
  after each insertion the candidates are those inserted so far and strictly in rank, because a
  candidate goes behind all with no lower score and its link comes after all theirs. The assumption is
  that there is a positive number of suggestions (`CandidatesAssumption`; the code has 3, and 1000
  entries of sitemaps). `SuggestionsStayBest` is the invariant `BestAreSuggested`.
* `BestBlocksAreBest`: `BestBlockIsBest` for every page, threshold and order the sort may leave. Sums
  over sets of nodes are recursive in the library; `TotalIs` reads each from a table of the subsets
  (`SumTableExists`, `SumTablesAgree`), from which `TotalWithout` takes one element away.
* `DocumentsAreConsistent`: `DocumentIsConsistent` for every page whose nodes have different names, any
  part of it and any budget. The builder's accounts are the invariant of its folds: ids have been given
  up to the counter, every interactive element but the form that is being filled is listed
  (`Numbered`), and what has been spent is the sum of the runes of the texts, of which none is cut before
  the budget is spent (`Spent`). `ElementIsAdded` keeps them over a form and its fields. No element is
  made twice, because all below an element counts as built (`MadeOf`), the walk goes in document
  order, and what lies between a node that is still to come and one that is built is built too
  (`Outlining`). That nothing hidden appears is `FilterLeaves`. `PagesStayOutlined` is the invariant
  `PagesAreOutlined`. The bounds on text are natural numbers (`AgentDOMAssumption`; the code has
  20 and 2000).

Only model-checked: liveness (`RunReturns`, `FetchReturns`, `OpenIsProbed`, `BatchReturns`,
`ServerReturns`), which is outside the prover's reach. The parts of the type invariant
`PartTypeOK` of `SharedStateMC` are theorems of the components. The runs marked as violated are
TLC's.

## 6. Plan

The breakers, the cache, the batch pool, the pipeline, the proxy pools, robots.txt, the HTTP server
and the algorithms are modelled, and every safety invariant and action property that a run
checks is proved. What could come next is named in the next section.

## 7. Not modelled

HTML parsing, which attributes and class names count, data islands, and the renderers: the library's
work, lists of words, and formatting. The tokenizer and the BM25 formula. Charset handling and the
web archive: library calls and URL formatting. The MCP protocol, which is the library's. Flags and
configuration, read once at start. The lengths of delays. Reads of a stored file that another
request is rewriting, and a power failure that loses what was renamed: the code promises nothing
there. `PROJECT.json` lists every component with its status, every hazard with the properties that
watch it, and the lines each definition models.
