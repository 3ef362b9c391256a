----------------------------- MODULE LivenessMC -----------------------------
(* The components whose calls must come to an end: a behaviour is one of the *)
(* pipeline, of fetches, of batches, or of the HTTP server.  The others      *)
(* never leave their initial state, in which no step of their own is enabled *)
(* that fairness asks of them.                                               *)
EXTENDS HTTPServer, PipelineSite

CONSTANTS
  Requests, URLs, Requested, Twin, LLMs, Archive, Archived, Ancestors, Sitemaps,
  Private, Disallowed, Options, MaxRuns, NoPage,
  Hosts, Fetchers, Clients, MaxRetries, FailureThreshold, SuccessThreshold,
  RecoveryTimeout, StaleAge, CleanupThreshold, CleanupInterval, Events,
  Batches, Items, BatchHosts, Workers, PerHost, Adaptive, MaxBatches, NoHost,
  MinPerHost, MaxPerHost, GrowAfter, ShrinkAfter

VARIABLES
  part,  \* the component of this behaviour
  cache, opts, calls, result, sent, runs,
  known, breakers, sinceCleanup, fetchClient, fetchPc, fetchHost, attempt, expired,
  fetchCancelled, fetchResult,
  stats, phase, cancelled, host, itemPc, globalSem, hostSems, results, started

Pipeline == INSTANCE PipelineRun
Fetch == INSTANCE RetryFetch WITH
  Requests <- Fetchers, client <- fetchClient, pc <- fetchPc, host <- fetchHost,
  cancelled <- fetchCancelled, result <- fetchResult
Batch == INSTANCE BatchPool WITH Hosts <- BatchHosts

runVars == <<cache, opts, calls, result, sent, runs>>
fetchVars ==
  <<known, breakers, sinceCleanup, fetchClient, fetchPc, fetchHost, attempt, expired,
    fetchCancelled, fetchResult>>
batchVars == <<stats, phase, cancelled, host, itemPc, globalSem, hostSems, results, started>>
partVars == <<part, runVars, fetchVars, batchVars, serverVars>>

PartInit ==
  /\ part \in {"pipeline", "fetch", "batch", "server"}
  /\ Init /\ Pipeline!PipelineInit /\ Fetch!Init /\ Batch!BatchInit
  /\ part # "fetch" => fetchClient = "honest"

PartNext ==
  /\ \/ part = "pipeline" /\ Pipeline!PipelineNext /\ UNCHANGED <<fetchVars, batchVars, serverVars>>
     \/ part = "fetch" /\ Fetch!Next /\ UNCHANGED <<runVars, batchVars, serverVars>>
     \/ part = "batch" /\ Batch!BatchNext /\ UNCHANGED <<runVars, fetchVars, serverVars>>
     \/ part = "server" /\ Next /\ UNCHANGED <<runVars, fetchVars, batchVars>>
  /\ UNCHANGED part

PartSpec ==
  PartInit /\ [][PartNext]_partVars
    /\ Fairness /\ Pipeline!PipelineFairness /\ Fetch!Fairness /\ Batch!BatchFairness

-----------------------------------------------------------------------------
\* Every Run returns, through all fallbacks and searches (Run,
\* pipeline/pipeline.go).
RunReturns == Pipeline!RunReturns

\* Every Fetch returns, whatever the server and the caller do (Client.Fetch,
\* fetch/honest.go and azuretls.go).
FetchReturns == Fetch!FetchReturns

\* A circuit that requests keep asking for does not stay open for ever
\* (HostRateLimiter.Allow, fetch/backoff.go).
OpenIsProbed == Fetch!OpenIsProbed

\* Every batch that is started returns (RunBatch, batch/pool.go).
BatchReturns == Batch!BatchReturns
=============================================================================
