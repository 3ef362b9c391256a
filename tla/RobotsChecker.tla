---------------------------- MODULE RobotsChecker ---------------------------
(***************************************************************************)
(* The Checker of internal/robots/robots.go on one domain: Check looks the *)
(* domain up in the cache, and on a miss asks the site for its robots.txt  *)
(* and stores what it parsed.  Nothing joins the requests that miss at the *)
(* same time: each asks, and each stores when its answer has come.         *)
(*                                                                         *)
(* Time is counted in ticks.  An entry is used while it is younger than    *)
(* TTL; the http.Client gives up Timeout after it has asked.  A 404 is     *)
(* stored as a file without groups, so it is the file without lines.       *)
(***************************************************************************)
EXTENDS RobotsRules

CONSTANTS
  Checks,   \* calls of Check that may run at the same time
  Files,    \* what the site's robots.txt may be
  Paths,    \* paths of the URLs checked
  TTL,      \* DefaultTTL
  Timeout   \* client.Timeout

ASSUME RobotsAssumption ==
  /\ TTL \in Nat \ {0}
  /\ Timeout \in Nat
  /\ Paths # {}

VARIABLES
  site,    \* the file the site serves now
  gone,    \* per file, the time since the site served it, as far as it matters
  cache,   \* the entry of the domain: groups, and the time until expiresAt
  checkPc, \* where each call is
  asked,   \* the time since it asked the site
  path,    \* the path it checks
  groups,  \* what it has parsed
  answer   \* what it returned, and whether it went on without the file

robotsVars == <<site, gone, cache, checkPc, asked, path, groups, answer>>

NotCached == [groups |-> << >>, left |-> 0]
NoAnswer == [allowed |-> TRUE, failed |-> TRUE]
Long == TTL + Timeout
AnyPath == CHOOSE p \in Paths : TRUE
Allowed == [f \in Files |-> [p \in Paths |-> IsAllowed(Parse(f), p)]]

RobotsTypeOK ==
  /\ site \in Files
  /\ gone \in [Files -> 0..Long]
  /\ cache.left \in 0..TTL
  /\ checkPc \in [Checks -> {"idle", "lookup", "guard", "ask", "read", "answered"}]
  /\ asked \in [Checks -> 0..Timeout]
  /\ path \in [Checks -> Paths]
  /\ answer \in [Checks -> [allowed : BOOLEAN, failed : BOOLEAN]]

RobotsInit ==
  /\ site \in Files
  /\ gone = [f \in Files |-> IF f = site THEN 0 ELSE Long]
  /\ cache = NotCached
  /\ checkPc = [c \in Checks |-> "idle"]
  /\ asked = [c \in Checks |-> 0]
  /\ path = [c \in Checks |-> AnyPath]
  /\ groups = [c \in Checks |-> << >>]
  /\ answer = [c \in Checks |-> NoAnswer]

-----------------------------------------------------------------------------
Goto(c, to) == checkPc' = [checkPc EXCEPT ![c] = to]
Answer(c, allowed, failed) ==
  /\ Goto(c, "answered")
  /\ asked' = [asked EXCEPT ![c] = 0]
  /\ groups' = [groups EXCEPT ![c] = << >>]
  /\ answer' = [answer EXCEPT ![c] = [allowed |-> allowed, failed |-> failed]]

Check(c, p) ==
  /\ checkPc[c] = "idle"
  /\ path' = [path EXCEPT ![c] = p]
  /\ Goto(c, "lookup")
  /\ UNCHANGED <<site, gone, cache, asked, groups, answer>>

\* Under the read lock: an entry that has not expired answers.
Hit(c) ==
  /\ checkPc[c] = "lookup"
  /\ cache.left > 0
  /\ Answer(c, IsAllowed(cache.groups, path[c]), FALSE)
  /\ UNCHANGED <<site, gone, cache, path>>

Miss(c) ==
  /\ checkPc[c] = "lookup"
  /\ cache.left = 0
  /\ Goto(c, "guard")
  /\ UNCHANGED <<site, gone, cache, asked, path, groups, answer>>

\* CheckSSRF: a private address is not allowed, a name that does not resolve is.
Guard(c) ==
  /\ checkPc[c] = "guard"
  /\ \/ Answer(c, FALSE, TRUE)
     \/ Answer(c, TRUE, TRUE)
     \/ Goto(c, "ask") /\ UNCHANGED <<asked, groups, answer>>
  /\ UNCHANGED <<site, gone, cache, path>>

\* The site answers 200 or 404; the call reads and parses the body.
Respond(c) ==
  /\ checkPc[c] = "ask"
  /\ Goto(c, "read")
  /\ groups' = [groups EXCEPT ![c] = Parse(site)]
  /\ UNCHANGED <<site, gone, cache, asked, path, answer>>

\* Under the lock the entry is replaced, whatever it has become meanwhile.
Store(c) ==
  /\ checkPc[c] = "read"
  /\ cache' = [groups |-> groups[c], left |-> TTL]
  /\ Answer(c, IsAllowed(groups[c], path[c]), FALSE)
  /\ UNCHANGED <<site, gone, path>>

\* Mutant: stores the failure as a file without groups.
FailStored(c) ==
  /\ checkPc[c] \in {"ask", "read"}
  /\ cache' = [groups |-> << >>, left |-> TTL]
  /\ Answer(c, TRUE, TRUE)
  /\ UNCHANGED <<site, gone, path>>

\* The transport, the context, the status or the body fails: the URL is
\* allowed, and nothing is stored.
Fail(c) ==
  /\ checkPc[c] \in {"ask", "read"}
  /\ Answer(c, TRUE, TRUE)
  /\ UNCHANGED <<site, gone, cache, path>>

\* The caller takes the answer.
Done(c) ==
  /\ checkPc[c] = "answered"
  /\ Goto(c, "idle")
  /\ path' = [path EXCEPT ![c] = AnyPath]
  /\ answer' = [answer EXCEPT ![c] = NoAnswer]
  /\ UNCHANGED <<site, gone, cache, asked, groups>>

Publish(f) ==
  /\ f # site
  /\ site' = f
  /\ gone' = [gone EXCEPT ![f] = 0]
  /\ UNCHANGED <<cache, checkPc, asked, path, groups, answer>>

\* Time passes, for a call that waits no further than its timeout.
Waiting(c) == checkPc[c] \in {"ask", "read"}
Tick ==
  /\ \A c \in Checks : Waiting(c) => asked[c] < Timeout
  /\ gone' = [f \in Files |-> IF f = site THEN 0 ELSE Min({gone[f] + 1, Long})]
  /\ cache' = IF cache.left > 1 THEN [cache EXCEPT !.left = @ - 1] ELSE NotCached
  /\ asked' = [c \in Checks |-> IF Waiting(c) THEN asked[c] + 1 ELSE 0]
  /\ UNCHANGED <<site, checkPc, path, groups, answer>>

RobotsNext ==
  \/ \E c \in Checks :
       \/ \E p \in Paths : Check(c, p)
       \/ Hit(c) \/ Miss(c) \/ Guard(c) \/ Respond(c) \/ Store(c) \/ Fail(c) \/ Done(c)
  \/ \E f \in Files : Publish(f)
  \/ Tick

RobotsSpec == RobotsInit /\ [][RobotsNext]_robotsVars

-----------------------------------------------------------------------------
\* An answer that is given in this step is that of a file the site served less
\* than one lifetime and one timeout ago, or the call had no file to go by.
AnswerFollows(c) ==
  checkPc[c] # "answered" /\ checkPc'[c] = "answered" =>
    \/ answer'[c].failed
    \/ \E f \in Files : /\ gone[f] < TTL + Timeout
                        /\ answer'[c].allowed = Allowed[f][path[c]]

\* Concurrent misses overwrite each other, an older answer a newer one, and
\* each time with a full TTL.  Yet no answer is older than that.
AnswersFollowSite == [][\A c \in Checks : AnswerFollows(c)]_robotsVars
=============================================================================
