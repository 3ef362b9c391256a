----------------------------- MODULE HTTPServer -----------------------------
(***************************************************************************)
(* The HTTP server of internal/httpserver/server.go: the life of Start     *)
(* (the guard on the address, the goroutine of ListenAndServe, the signal, *)
(* Shutdown and its timeout, the deferred Close of the client) and the     *)
(* handlers of POST /fetch that run beside it.                             *)
(*                                                                         *)
(* net/http runs a handler per request on an open listener, or on an idle  *)
(* connection that Shutdown has not closed yet.  Shutdown waits for the    *)
(* handlers without cancelling them and gives up after its timeout.  When  *)
(* Start has returned, the process ends and takes the handlers with it.    *)
(***************************************************************************)
EXTENDS Naturals

CONSTANTS Calls   \* requests a client may send to POST /fetch

VARIABLES
  config,    \* what Start was called with: a loopback address, a token
  main,      \* where Start is
  returned,  \* what it returned
  listener,  \* the socket of ListenAndServe
  signalled, \* the context of signal.NotifyContext is done
  client,    \* the fetch client, shared by the handlers
  call,      \* what each request asks for
  handler,   \* where its handler is
  answer     \* the status it answered with, 0 before

serverVars ==
  <<config, main, returned, listener, signalled, client, call, handler, answer>>

\* A request, by what HandleFetch tells apart.
CallKinds == [authorized : BOOLEAN, private : BOOLEAN]
NoCall == [authorized |-> FALSE, private |-> FALSE]

\* Mutant: passes on the status of the origin.
ErrorToStatusOfOrigin(err) ==
  CASE err = "blocked" -> 400 [] err = "deadline" -> 504 [] err = "status" -> 503 [] OTHER -> 500

\* errorToStatus of the errors of a fetch.
ErrorToStatus(err) ==
  CASE err = "blocked"  -> 400   \* pipeline.BlockedError, also when wrapped
    [] err = "deadline" -> 504
    [] err = "status"   -> 502   \* FetchError of a status of 400 or more
    [] OTHER            -> 500   \* the rest, a cancelled context among it

FetchErrors == {"blocked", "deadline", "status", "other"}
Stages == {"reading", "checking", "fetching"}
InHandler(r) == handler[r] \in Stages
InFetch(r) == handler[r] = "fetching"

TypeOK ==
  /\ config \in [local : BOOLEAN, token : BOOLEAN]
  /\ main \in {"new", "serving", "shutdown", "returned", "exited"}
  /\ returned \in {"", "nil", "error"}
  /\ listener \in {"none", "starting", "open", "failed", "closed"}
  /\ signalled \in BOOLEAN
  /\ client \in {"none", "open", "closed"}
  /\ call \in [Calls -> CallKinds]
  /\ handler \in [Calls -> Stages \union {"idle", "answered", "lost"}]
  /\ answer \in [Calls -> {0, 200, 400, 401, 413, 500, 502, 504}]

Init ==
  /\ config = [local |-> FALSE, token |-> FALSE]
  /\ main = "new"
  /\ returned = ""
  /\ listener = "none"
  /\ signalled = FALSE
  /\ client = "none"
  /\ call = [r \in Calls |-> NoCall]
  /\ handler = [r \in Calls |-> "idle"]
  /\ answer = [r \in Calls |-> 0]

-----------------------------------------------------------------------------
\* Start returns v; its deferred call closes the client, if there is one.
Return(v) ==
  /\ main' = "returned"
  /\ returned' = v
  /\ client' = IF client = "open" THEN "closed" ELSE client

\* fetch.New refuses the proxy.
ClientFails ==
  /\ main = "new"
  /\ Return("error")
  /\ UNCHANGED <<config, listener, signalled, call, handler, answer>>

\* Mutant: asks no token for any address.
StartAnywhere(local, token) ==
  /\ main = "new"
  /\ config' = [local |-> local, token |-> token]
  /\ main' = "serving" /\ client' = "open" /\ listener' = "starting"
  /\ UNCHANGED <<returned, signalled, call, handler, answer>>

\* An address that is not loopback is refused without a token; otherwise the
\* goroutine of ListenAndServe is started.
Start(local, token) ==
  /\ main = "new"
  /\ config' = [local |-> local, token |-> token]
  /\ IF ~local /\ ~token
     THEN /\ main' = "returned" /\ returned' = "error" /\ client' = "closed"
          /\ listener' = listener
     ELSE /\ main' = "serving" /\ client' = "open" /\ listener' = "starting"
          /\ returned' = returned
  /\ UNCHANGED <<signalled, call, handler, answer>>

Listen ==
  /\ listener = "starting"
  /\ main = "serving"
  /\ listener' = "open"
  /\ UNCHANGED <<config, main, returned, signalled, client, call, handler, answer>>

\* The address cannot be bound, or Accept fails for good: the error waits in
\* errCh.
ListenFails ==
  /\ listener \in {"starting", "open"}
  /\ main = "serving"
  /\ listener' = "failed"
  /\ UNCHANGED <<config, main, returned, signalled, client, call, handler, answer>>

Signal ==
  /\ main = "serving"
  /\ ~signalled
  /\ signalled' = TRUE
  /\ UNCHANGED <<config, main, returned, listener, client, call, handler, answer>>

\* The select of Start: the signal.  Shutdown closes the listener, and
\* ListenAndServe, even when it has not begun, ends with ErrServerClosed.
SelectSignal ==
  /\ main = "serving"
  /\ signalled
  /\ main' = "shutdown"
  /\ listener' = "closed"
  /\ UNCHANGED <<config, returned, signalled, client, call, handler, answer>>

\* The select of Start: an error of ListenAndServe.
SelectError ==
  /\ main = "serving"
  /\ listener = "failed"
  /\ Return("error")
  /\ UNCHANGED <<config, listener, signalled, call, handler, answer>>

\* Mutant: Close instead of Shutdown, which waits for no handler.
ShutdownAtOnce ==
  /\ main = "shutdown"
  /\ Return("nil")
  /\ UNCHANGED <<config, listener, signalled, call, handler, answer>>

ShutdownDone ==
  /\ main = "shutdown"
  /\ \A r \in Calls : ~InHandler(r)
  /\ Return("nil")
  /\ UNCHANGED <<config, listener, signalled, call, handler, answer>>

\* Mutant: Shutdown with a context that has no deadline.
ShutdownWaits ==
  /\ main = "shutdown"
  /\ \A r \in Calls : ~InHandler(r)
  /\ Return("error")
  /\ UNCHANGED <<config, listener, signalled, call, handler, answer>>

\* Ten seconds have passed and a handler still runs.
ShutdownTimesOut ==
  /\ main = "shutdown"
  /\ \E r \in Calls : InHandler(r)
  /\ Return("error")
  /\ UNCHANGED <<config, listener, signalled, call, handler, answer>>

\* The command ends, and the process with it.
Exit ==
  /\ main = "returned"
  /\ main' = "exited"
  /\ handler' = [r \in Calls |-> IF InHandler(r) THEN "lost" ELSE handler[r]]
  /\ UNCHANGED <<config, returned, listener, signalled, client, call, answer>>

-----------------------------------------------------------------------------
\* A new connection, or an idle one that Shutdown has not closed yet.
Connected == listener = "open" \/ main = "shutdown"

\* A handler goes on, or answers (then "answered") with a status.
HandlerStep(r, from, to, status) ==
  /\ handler[r] = from
  /\ main # "exited"
  /\ handler' = [handler EXCEPT ![r] = to]
  /\ answer' = [answer EXCEPT ![r] = status]
  /\ UNCHANGED <<config, main, returned, listener, signalled, client, call>>

\* HandleFetch begins: with a token given, the request must carry it.
HandleFetch(r, k) ==
  /\ Connected
  /\ handler[r] = "idle"
  /\ call' = [call EXCEPT ![r] = k]
  /\ IF config.token /\ ~k.authorized
     THEN /\ handler' = [handler EXCEPT ![r] = "answered"]
          /\ answer' = [answer EXCEPT ![r] = 401]
     ELSE /\ handler' = [handler EXCEPT ![r] = "reading"]
          /\ UNCHANGED answer
  /\ UNCHANGED <<config, main, returned, listener, signalled, client>>

\* The body comes from the client at its own pace, with no deadline.
BodyRefused(r) ==  \* too large, or no JSON, no URL, another scheme
  \E status \in {413, 400} : HandlerStep(r, "reading", "answered", status)
BodyRead(r) == HandlerStep(r, "reading", "checking", 0)

\* CheckSSRF of the URL, then the format, then the fetch.
CheckFails(r) ==
  /\ call[r].private
  /\ HandlerStep(r, "checking", "answered", 400)

FormatRefused(r) ==
  /\ ~call[r].private
  /\ HandlerStep(r, "checking", "answered", 400)

CheckPasses(r) ==
  /\ ~call[r].private
  /\ HandlerStep(r, "checking", "fetching", 0)

\* handleRawFetch and pipeline.Run end, at the latest when their context does.
FetchEnds(r) ==
  \E status \in {200} \union {ErrorToStatus(err) : err \in FetchErrors} :
    HandlerStep(r, "fetching", "answered", status)

Handler(r) ==
  \/ BodyRefused(r) \/ BodyRead(r)
  \/ CheckFails(r) \/ FormatRefused(r) \/ CheckPasses(r)
  \/ FetchEnds(r)

Next ==
  \/ ClientFails
  \/ \E local, token \in BOOLEAN : Start(local, token)
  \/ Listen \/ ListenFails \/ Signal
  \/ SelectSignal \/ SelectError
  \/ ShutdownDone \/ ShutdownTimesOut \/ Exit
  \/ \E r \in Calls : Handler(r) \/ \E k \in CallKinds : HandleFetch(r, k)

Spec == Init /\ [][Next]_serverVars

\* The select, the timer of Shutdown, and a handler once it has its body: the
\* deadline of fetchCtx bounds the fetch.  Nothing bounds the body.
Fairness ==
  /\ WF_serverVars(SelectSignal \/ SelectError)
  /\ WF_serverVars(ShutdownDone \/ ShutdownTimesOut)
  /\ \A r \in Calls : WF_serverVars(handler[r] # "reading" /\ Handler(r))

FairSpec == Spec /\ Fairness

-----------------------------------------------------------------------------
\* A graceful shutdown is one: when Start returns without an error, no handler
\* was running with the client closed under it, and none is cut off by the end
\* of the process.
ShutdownIsGraceful ==
  /\ returned = "nil" => \A r \in Calls : ~InHandler(r) /\ handler[r] # "lost"
  /\ client = "closed" /\ (\E r \in Calls : InFetch(r)) => returned = "error"

\* A listener that the network reaches fetches only for requests that carry
\* its token, and no request has it fetch a private address: the guard of
\* Start and those of HandleFetch together.  Only a fetch gives the statuses
\* 200 and 500 and more.
FetchIsAuthorized ==
  \A r \in Calls : InFetch(r) \/ answer[r] \in {200, 500, 502, 504} =>
    /\ ~call[r].private
    /\ config.local \/ call[r].authorized

\* A server that is told to stop does, even when a client never sends the
\* body that a handler waits for; and a fetch that has begun ends.
ServerReturns ==
  /\ signalled ~> main \in {"returned", "exited"}
  /\ \A r \in Calls : InFetch(r) ~> ~InFetch(r)
=============================================================================
