-------------------------- MODULE HTTPServerProofs --------------------------
(***************************************************************************)
(* What HTTPServer guarantees for any number of requests: a shutdown       *)
(* without error is graceful, and what is fetched was asked for by someone *)
(* who may.                                                                *)
(***************************************************************************)
EXTENDS HTTPServer, TLAPS

\* Only a fetch gives these.
Fetched == {200, 500, 502, 504}
Protected == config.local \/ config.token

\* Where Start is, and what that says of the listener, the client and the
\* result.
MainInv ==
  /\ main = "new" => listener = "none" /\ \A r \in Calls : handler[r] = "idle"
  /\ listener \in {"starting", "open"} \/ main \in {"serving", "shutdown"} => Protected
  /\ main = "shutdown" => listener = "closed"
  /\ client = "closed" => returned # ""
  /\ returned # "" => main \in {"returned", "exited"}
  /\ \A r \in Calls : handler[r] = "lost" => main = "exited"
  /\ returned = "nil" =>
       listener = "closed" /\ \A r \in Calls : ~InHandler(r) /\ handler[r] # "lost"

\* What a call has passed when its handler is where it is.
CallInv(r) ==
  /\ handler[r] # "idle" => Protected
  /\ InHandler(r) => (config.token => call[r].authorized)
  /\ InFetch(r) \/ answer[r] \in Fetched =>
       /\ handler[r] # "idle"
       /\ ~call[r].private
       /\ config.token => call[r].authorized

ServerIInv == TypeOK /\ MainInv /\ \A r \in Calls : CallInv(r)

USE DEF InHandler, InFetch, Stages

LEMMA StatusIsTyped ==
  \A err \in FetchErrors : ErrorToStatus(err) \in {400, 500, 502, 504}
BY DEF FetchErrors, ErrorToStatus

LEMMA InitHolds == Init => ServerIInv
<1> SUFFICES ASSUME Init PROVE ServerIInv  OBVIOUS
<1>1. TypeOK
  BY DEF Init, TypeOK, CallKinds, NoCall
<1>2. MainInv
  BY DEF Init, MainInv
<1>3. ASSUME NEW r \in Calls PROVE CallInv(r)
  <2>1. handler[r] = "idle" /\ answer[r] = 0
    BY DEF Init
  <2> QED  BY <2>1 DEF CallInv, Fetched
<1> QED  BY <1>1, <1>2, <1>3 DEF ServerIInv

\* A step of Start, of the listener or of the signal leaves the calls alone.
LEMMA CallsStay ==
  ASSUME ServerIInv, UNCHANGED <<config, call, handler, answer>>
  PROVE  \A r \in Calls : CallInv(r)'
BY DEF ServerIInv, CallInv, Protected

LEMMA ClientFailsKeeps == ServerIInv /\ ClientFails => ServerIInv'
<1> SUFFICES ASSUME ServerIInv, ClientFails PROVE ServerIInv'  OBVIOUS
<1>1. TypeOK'
  BY DEF ServerIInv, TypeOK, ClientFails, Return
<1>2. MainInv'
  BY DEF ServerIInv, TypeOK, MainInv, ClientFails, Return, Protected
<1> QED  BY <1>1, <1>2, CallsStay DEF ServerIInv, ClientFails

LEMMA StartKeeps ==
  ASSUME ServerIInv, NEW local \in BOOLEAN, NEW token \in BOOLEAN, Start(local, token)
  PROVE  ServerIInv'
<1>1. /\ \A r \in Calls : handler[r] = "idle"
      /\ UNCHANGED <<signalled, call, handler, answer>>
      /\ config' = [local |-> local, token |-> token]
      /\ main = "new" /\ listener = "none" /\ returned = ""
  BY DEF ServerIInv, MainInv, Start
<1>2. config' \in [local : BOOLEAN, token : BOOLEAN]
  BY <1>1
<1>3. ASSUME NEW r \in Calls PROVE CallInv(r)'
  BY <1>1 DEF ServerIInv, CallInv
<1>4. CASE ~local /\ ~token
  <2>1. main' = "returned" /\ returned' = "error" /\ client' = "closed" /\ listener' = listener
    BY <1>4 DEF Start
  <2>2. TypeOK'
    BY <1>1, <1>2, <2>1 DEF ServerIInv, TypeOK
  <2>3. MainInv'
    BY <1>1, <2>1 DEF MainInv
  <2> QED  BY <1>3, <2>2, <2>3 DEF ServerIInv
<1>5. CASE local \/ token
  <2>1. main' = "serving" /\ client' = "open" /\ listener' = "starting" /\ returned' = returned
    BY <1>5 DEF Start
  <2>2. TypeOK'
    BY <1>1, <1>2, <2>1 DEF ServerIInv, TypeOK
  <2>3. Protected'
    BY <1>1, <1>5 DEF Protected
  <2>4. MainInv'
    BY <1>1, <2>1, <2>3 DEF MainInv
  <2> QED  BY <1>3, <2>2, <2>4 DEF ServerIInv
<1> QED  BY <1>4, <1>5

LEMMA ListenKeeps == ServerIInv /\ Listen => ServerIInv'
<1> SUFFICES ASSUME ServerIInv, Listen PROVE ServerIInv'  OBVIOUS
<1>1. TypeOK'
  BY DEF ServerIInv, TypeOK, Listen
<1>2. Protected' <=> Protected
  BY DEF Listen, Protected
<1>3. MainInv'
  BY <1>2 DEF ServerIInv, MainInv, Listen
<1> QED  BY <1>1, <1>3, CallsStay DEF ServerIInv, Listen

LEMMA ListenFailsKeeps == ServerIInv /\ ListenFails => ServerIInv'
<1> SUFFICES ASSUME ServerIInv, ListenFails PROVE ServerIInv'  OBVIOUS
<1>1. TypeOK'
  BY DEF ServerIInv, TypeOK, ListenFails
<1>2. Protected' <=> Protected
  BY DEF ListenFails, Protected
<1>3. MainInv'
  BY <1>2 DEF ServerIInv, MainInv, ListenFails
<1> QED  BY <1>1, <1>3, CallsStay DEF ServerIInv, ListenFails

LEMMA SignalKeeps == ServerIInv /\ Signal => ServerIInv'
<1> SUFFICES ASSUME ServerIInv, Signal PROVE ServerIInv'  OBVIOUS
<1>1. TypeOK'
  BY DEF ServerIInv, TypeOK, Signal
<1>2. Protected' <=> Protected
  BY DEF Signal, Protected
<1>3. MainInv'
  BY <1>2 DEF ServerIInv, MainInv, Signal
<1> QED  BY <1>1, <1>3, CallsStay DEF ServerIInv, Signal

LEMMA SelectSignalKeeps == ServerIInv /\ SelectSignal => ServerIInv'
<1> SUFFICES ASSUME ServerIInv, SelectSignal PROVE ServerIInv'  OBVIOUS
<1>1. TypeOK'
  BY DEF ServerIInv, TypeOK, SelectSignal
<1>2. Protected' <=> Protected
  BY DEF SelectSignal, Protected
<1>3. MainInv'
  BY <1>2 DEF ServerIInv, MainInv, SelectSignal
<1> QED  BY <1>1, <1>3, CallsStay DEF ServerIInv, SelectSignal

LEMMA SelectErrorKeeps == ServerIInv /\ SelectError => ServerIInv'
<1> SUFFICES ASSUME ServerIInv, SelectError PROVE ServerIInv'  OBVIOUS
<1>1. TypeOK'
  BY DEF ServerIInv, TypeOK, SelectError, Return
<1>2. Protected' <=> Protected
  BY DEF SelectError, Protected
<1>3. MainInv'
  BY <1>2 DEF ServerIInv, MainInv, SelectError, Return
<1> QED  BY <1>1, <1>3, CallsStay DEF ServerIInv, SelectError

LEMMA ShutdownDoneKeeps == ServerIInv /\ ShutdownDone => ServerIInv'
<1> SUFFICES ASSUME ServerIInv, ShutdownDone PROVE ServerIInv'  OBVIOUS
<1>1. TypeOK'
  BY DEF ServerIInv, TypeOK, ShutdownDone, Return
<1>2. Protected' <=> Protected
  BY DEF ShutdownDone, Protected
<1>3. MainInv'
  BY <1>2 DEF ServerIInv, MainInv, ShutdownDone, Return
<1> QED  BY <1>1, <1>3, CallsStay DEF ServerIInv, ShutdownDone

LEMMA ShutdownTimesOutKeeps == ServerIInv /\ ShutdownTimesOut => ServerIInv'
<1> SUFFICES ASSUME ServerIInv, ShutdownTimesOut PROVE ServerIInv'  OBVIOUS
<1>1. TypeOK'
  BY DEF ServerIInv, TypeOK, ShutdownTimesOut, Return
<1>2. Protected' <=> Protected
  BY DEF ShutdownTimesOut, Protected
<1>3. MainInv'
  BY <1>2 DEF ServerIInv, MainInv, ShutdownTimesOut, Return
<1> QED  BY <1>1, <1>3, CallsStay DEF ServerIInv, ShutdownTimesOut

\* A step that leaves Start and the client where they are.
LEMMA TypesStay ==
  ASSUME TypeOK, UNCHANGED <<config, returned, listener, signalled, client>>,
         main' \in {"new", "serving", "shutdown", "returned", "exited"},
         call' \in [Calls -> CallKinds],
         handler' \in [Calls -> Stages \union {"idle", "answered", "lost"}],
         answer' \in [Calls -> {0, 200, 400, 401, 413, 500, 502, 504}]
  PROVE  TypeOK'
<1>1. config' \in [local : BOOLEAN, token : BOOLEAN] /\ signalled' \in BOOLEAN
  BY DEF TypeOK
<1>2. /\ returned' \in {"", "nil", "error"}
      /\ listener' \in {"none", "starting", "open", "failed", "closed"}
      /\ client' \in {"none", "open", "closed"}
  BY DEF TypeOK
<1> QED  BY <1>1, <1>2 DEF TypeOK

LEMMA ExitKeeps == ServerIInv /\ Exit => ServerIInv'
<1> SUFFICES ASSUME ServerIInv, Exit PROVE ServerIInv'  OBVIOUS
<1>1. \A r \in Calls : handler'[r] = IF InHandler(r) THEN "lost" ELSE handler[r]
  BY DEF Exit
<1>2. TypeOK'
  <2>1. handler' \in [Calls -> Stages \union {"idle", "answered", "lost"}]
    <3>1. handler \in [Calls -> Stages \union {"idle", "answered", "lost"}]
      BY DEF ServerIInv, TypeOK
    <3> QED  BY <3>1 DEF Exit
  <2>2. main' = "exited" /\ UNCHANGED <<config, returned, listener, signalled, client, call, answer>>
    BY DEF Exit
  <2>3. /\ call' \in [Calls -> CallKinds]
        /\ answer' \in [Calls -> {0, 200, 400, 401, 413, 500, 502, 504}]
    BY <2>2 DEF ServerIInv, TypeOK
  <2> QED  BY <2>1, <2>2, <2>3, TypesStay DEF ServerIInv
<1>3. Protected' <=> Protected
  BY DEF Exit, Protected
<1>4. MainInv'
  <2>1. main = "returned" /\ main' = "exited" /\ UNCHANGED <<listener, client, returned>>
    BY DEF Exit
  <2> QED  BY <1>1, <1>3, <2>1 DEF ServerIInv, MainInv
<1>5. ASSUME NEW r \in Calls PROVE CallInv(r)'
  BY <1>1, <1>3, <1>5 DEF ServerIInv, CallInv, Exit
<1> QED  BY <1>2, <1>4, <1>5 DEF ServerIInv

-----------------------------------------------------------------------------
(* The handlers. *)

\* A request may arrive only while nothing has been returned without error, and
\* only at a listener that Start has let through.
LEMMA ConnectedIsProtected ==
  ServerIInv /\ Connected => Protected /\ returned # "nil" /\ main # "new"
BY DEF ServerIInv, MainInv, Connected

LEMMA HandleFetchKeeps ==
  ASSUME ServerIInv, NEW r \in Calls, NEW k \in CallKinds, HandleFetch(r, k)
  PROVE  ServerIInv'
<1>1. /\ UNCHANGED <<config, main, returned, listener, signalled, client>>
      /\ Connected /\ handler[r] = "idle"
      /\ call' = [call EXCEPT ![r] = k]
      /\ \/ /\ config.token /\ ~k.authorized
            /\ handler' = [handler EXCEPT ![r] = "answered"]
            /\ answer' = [answer EXCEPT ![r] = 401]
         \/ /\ ~(config.token /\ ~k.authorized)
            /\ handler' = [handler EXCEPT ![r] = "reading"]
            /\ answer' = answer
  BY DEF HandleFetch
<1>2. Protected /\ returned # "nil" /\ main # "new" /\ (Protected' <=> Protected)
  BY <1>1, ConnectedIsProtected DEF Protected
<1>3. /\ call \in [Calls -> CallKinds]
      /\ handler \in [Calls -> Stages \union {"idle", "answered", "lost"}]
      /\ answer \in [Calls -> {0, 200, 400, 401, 413, 500, 502, 504}]
  BY DEF ServerIInv, TypeOK
<1>4. /\ call' \in [Calls -> CallKinds]
      /\ handler' \in [Calls -> Stages \union {"idle", "answered", "lost"}]
      /\ answer' \in [Calls -> {0, 200, 400, 401, 413, 500, 502, 504}]
  BY <1>1, <1>3
<1>5. TypeOK'
  <2>1. UNCHANGED <<config, main, returned, listener, signalled, client>>
    BY <1>1
  <2>2. main' \in {"new", "serving", "shutdown", "returned", "exited"}
    BY <2>1 DEF ServerIInv, TypeOK
  <2> QED  BY <1>4, <2>1, <2>2, TypesStay DEF ServerIInv
<1>6. \A q \in Calls : handler'[q] = "lost" => handler[q] = "lost"
  BY <1>1, <1>3
<1>7. MainInv'
  BY <1>1, <1>2, <1>6 DEF ServerIInv, MainInv
<1>8. ASSUME NEW q \in Calls PROVE CallInv(q)'
  <2>1. CASE q # r
    <3>1. handler'[q] = handler[q] /\ answer'[q] = answer[q] /\ call'[q] = call[q] /\ config' = config
      BY <1>1, <1>3, <2>1
    <3> QED  BY <1>2, <3>1 DEF ServerIInv, CallInv
  <2>2. CASE q = r
    <3>1. call'[q] = k /\ config' = config /\ handler'[q] \in {"answered", "reading"}
      BY <1>1, <1>3, <2>2
    <3>2. handler'[q] = "reading" => (config.token => k.authorized)
      BY <1>1, <1>3, <2>2
    <3>3. answer[r] \notin Fetched
      BY <1>1 DEF ServerIInv, CallInv
    <3>4. answer'[q] \notin Fetched
      BY <1>1, <1>3, <2>2, <3>3 DEF Fetched
    <3> QED  BY <1>2, <3>1, <3>2, <3>4 DEF CallInv
  <2> QED  BY <2>1, <2>2
<1> QED  BY <1>5, <1>7, <1>8 DEF ServerIInv

\* A handler that goes on from a stage it is in to a later one, or answers.
LEMMA HandlerStepKeeps ==
  ASSUME ServerIInv, NEW r \in Calls,
         NEW from \in Stages, NEW to \in Stages \union {"answered"},
         NEW status \in {0, 200, 400, 401, 413, 500, 502, 504},
         HandlerStep(r, from, to, status),
         to = "fetching" => ~call[r].private,
         status \in Fetched => from = "fetching"
  PROVE  ServerIInv'
<1>1. /\ UNCHANGED <<config, main, returned, listener, signalled, client, call>>
      /\ handler[r] = from /\ InHandler(r)
      /\ handler' = [handler EXCEPT ![r] = to]
      /\ answer' = [answer EXCEPT ![r] = status]
  BY DEF HandlerStep
<1>2. /\ handler \in [Calls -> Stages \union {"idle", "answered", "lost"}]
      /\ answer \in [Calls -> {0, 200, 400, 401, 413, 500, 502, 504}]
      /\ to \in Stages \union {"idle", "answered", "lost"}
  BY DEF ServerIInv, TypeOK
<1>3. /\ handler' \in [Calls -> Stages \union {"idle", "answered", "lost"}]
      /\ answer' \in [Calls -> {0, 200, 400, 401, 413, 500, 502, 504}]
  BY <1>1, <1>2
<1>4. TypeOK'
  <2>1. UNCHANGED <<config, main, returned, listener, signalled, client, call>>
    BY <1>1
  <2>2. /\ main' \in {"new", "serving", "shutdown", "returned", "exited"}
        /\ call' \in [Calls -> CallKinds]
    BY <2>1 DEF ServerIInv, TypeOK
  <2> QED  BY <1>3, <2>1, <2>2, TypesStay DEF ServerIInv
<1>5. Protected /\ (Protected' <=> Protected)
  BY <1>1 DEF Protected, ServerIInv, CallInv
<1>6. returned # "nil" /\ main # "new"
  <2>1. handler[r] \in Stages
    BY <1>1
  <2> QED  BY <2>1 DEF ServerIInv, MainInv
<1>7. \A q \in Calls : handler'[q] = "lost" => handler[q] = "lost"
  BY <1>1, <1>2
<1>8. MainInv'
  BY <1>1, <1>5, <1>6, <1>7 DEF ServerIInv, MainInv
<1>9. ASSUME NEW q \in Calls PROVE CallInv(q)'
  <2>1. CASE q # r
    <3>1. handler'[q] = handler[q] /\ answer'[q] = answer[q]
      BY <1>1, <1>2, <2>1
    <3> QED  BY <1>1, <1>5, <3>1 DEF ServerIInv, CallInv
  <2>2. CASE q = r
    <3>1. handler'[q] = to /\ answer'[q] = status
      BY <1>1, <1>2, <2>2
    <3>2. /\ config.token => call[r].authorized
          /\ from = "fetching" => ~call[r].private
      BY <1>1 DEF ServerIInv, CallInv
    <3> QED  BY <1>1, <1>5, <2>2, <3>1, <3>2 DEF CallInv
  <2> QED  BY <2>1, <2>2
<1> QED  BY <1>4, <1>8, <1>9 DEF ServerIInv

LEMMA HandlerKeeps ==
  ASSUME ServerIInv, NEW r \in Calls, Handler(r) PROVE ServerIInv'
<1>1. CASE BodyRefused(r)
  <2>1. PICK status \in {413, 400} : HandlerStep(r, "reading", "answered", status)
    BY <1>1 DEF BodyRefused
  <2>2. status \notin Fetched
    BY DEF Fetched
  <2> QED  BY <2>1, <2>2, HandlerStepKeeps
<1>2. CASE BodyRead(r)
  BY <1>2, HandlerStepKeeps DEF BodyRead, Fetched
<1>3. CASE CheckFails(r)
  BY <1>3, HandlerStepKeeps DEF CheckFails, Fetched
<1>4. CASE FormatRefused(r)
  BY <1>4, HandlerStepKeeps DEF FormatRefused, Fetched
<1>5. CASE CheckPasses(r)
  BY <1>5, HandlerStepKeeps DEF CheckPasses, Fetched
<1>6. CASE FetchEnds(r)
  <2>1. PICK status \in {200} \union {ErrorToStatus(err) : err \in FetchErrors} :
               HandlerStep(r, "fetching", "answered", status)
    BY <1>6 DEF FetchEnds
  <2>2. status \in {0, 200, 400, 401, 413, 500, 502, 504}
    BY StatusIsTyped
  <2> QED  BY <2>1, <2>2, HandlerStepKeeps
<1> QED  BY <1>1, <1>2, <1>3, <1>4, <1>5, <1>6 DEF Handler

LEMMA NextKeeps == ServerIInv /\ [Next]_serverVars => ServerIInv'
<1> SUFFICES ASSUME ServerIInv, [Next]_serverVars PROVE ServerIInv'  OBVIOUS
<1>1. CASE UNCHANGED serverVars
  <2>1. TypeOK'
    <3>1. UNCHANGED <<config, returned, listener, signalled, client>>
      BY <1>1 DEF serverVars
    <3>2. /\ main' \in {"new", "serving", "shutdown", "returned", "exited"}
          /\ call' \in [Calls -> CallKinds]
      BY <1>1 DEF serverVars, ServerIInv, TypeOK
    <3>3. /\ handler' \in [Calls -> Stages \union {"idle", "answered", "lost"}]
          /\ answer' \in [Calls -> {0, 200, 400, 401, 413, 500, 502, 504}]
      BY <1>1 DEF serverVars, ServerIInv, TypeOK
    <3> QED  BY <3>1, <3>2, <3>3, TypesStay DEF ServerIInv
  <2>2. Protected' <=> Protected
    BY <1>1 DEF serverVars, Protected
  <2>3. MainInv'
    BY <1>1, <2>2 DEF serverVars, ServerIInv, MainInv
  <2> QED  BY <1>1, <2>1, <2>3, CallsStay DEF serverVars, ServerIInv
<1> QED
  BY <1>1, ClientFailsKeeps, StartKeeps, ListenKeeps, ListenFailsKeeps, SignalKeeps,
     SelectSignalKeeps, SelectErrorKeeps, ShutdownDoneKeeps, ShutdownTimesOutKeeps, ExitKeeps,
     HandleFetchKeeps, HandlerKeeps DEF Next

-----------------------------------------------------------------------------
\* The inductive invariant: where Start is, and what each call has passed.
THEOREM ServerInvariant == Spec => []ServerIInv
BY InitHolds, NextKeeps, PTL DEF Spec

\* The state of the server is well typed.
THEOREM ServerTypeCorrect == Spec => []TypeOK
<1>1. ServerIInv => TypeOK  BY DEF ServerIInv
<1> QED  BY <1>1, ServerInvariant, PTL

\* When Start returns without an error no handler was running or is cut off,
\* and the client is never closed under a fetch without one.
THEOREM ShutdownGraceful == Spec => []ShutdownIsGraceful
<1>1. ServerIInv => ShutdownIsGraceful
  <2> SUFFICES ASSUME ServerIInv PROVE ShutdownIsGraceful  OBVIOUS
  <2>1. returned \in {"", "nil", "error"}
    BY DEF ServerIInv, TypeOK
  <2>2. returned = "nil" => \A r \in Calls : ~InHandler(r) /\ handler[r] # "lost"
    BY DEF ServerIInv, MainInv
  <2>3. client = "closed" => returned # ""
    BY DEF ServerIInv, MainInv
  <2> QED  BY <2>1, <2>2, <2>3 DEF ShutdownIsGraceful
<1> QED  BY <1>1, ServerInvariant, PTL

\* Whatever arrives and whenever the server stops: nothing is fetched from a
\* private address, nor for a request without the token on an address that
\* others reach.
THEOREM FetchAuthorized == Spec => []FetchIsAuthorized
<1>1. ServerIInv => FetchIsAuthorized
  <2> SUFFICES ASSUME ServerIInv, NEW r \in Calls, InFetch(r) \/ answer[r] \in Fetched
      PROVE  ~call[r].private /\ (config.local \/ call[r].authorized)
    BY DEF FetchIsAuthorized, Fetched
  <2>1. Protected /\ ~call[r].private /\ (config.token => call[r].authorized)
    BY DEF ServerIInv, CallInv
  <2> QED  BY <2>1 DEF Protected
<1> QED  BY <1>1, ServerInvariant, PTL
=============================================================================
