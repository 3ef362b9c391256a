---------------------------- MODULE SharedStateMC ---------------------------
(* The objects that concurrent requests or processes share; a behaviour is   *)
(* one of them: Cache objects on one directory, a pool of proxy clients, the *)
(* Checker of robots.txt, or batches with their feedback.                    *)
EXTENDS CacheStore, ProxyPools, RobotsChecker, BatchPool, TLC

VARIABLE part  \* the object of this behaviour

partVars == <<part, vars, proxyVars, robotsVars, batchVars>>

\* The first Put has the largest body: the eviction that takes it makes room.
PartInit ==
  /\ part \in {"cache", "proxy", "robots", "batch"}
  /\ Init /\ PoolInit /\ RobotsInit /\ BatchInit
  /\ bodySize = [n \in PutNumber |-> IF n = 1 THEN Max(BodySizes) ELSE Min(BodySizes)]
  /\ part # "cache" => key = [c \in Caches |-> CHOOSE k \in Keys : TRUE]
  /\ part # "proxy" => honest
  /\ part # "robots" => site = CHOOSE f \in Files : TRUE

PartNext ==
  /\ UNCHANGED part
  /\ \/ part = "cache" /\ Next /\ UNCHANGED <<proxyVars, robotsVars, batchVars>>
     \/ part = "proxy" /\ PoolNext /\ UNCHANGED <<vars, robotsVars, batchVars>>
     \/ part = "robots" /\ RobotsNext /\ UNCHANGED <<vars, proxyVars, batchVars>>
     \/ part = "batch" /\ BatchNext /\ UNCHANGED <<vars, proxyVars, robotsVars>>

PartSpec == PartInit /\ [][PartNext]_partVars

-----------------------------------------------------------------------------
\* The state is well typed.
PartTypeOK == TypeOK /\ PoolTypeOK /\ RobotsTypeOK /\ BatchTypeOK

\* Nothing tells Cache objects, users or batches, hosts, or items, apart.
Symmetry ==
  Permutations(Caches \union Users \union Batches)
    \union Permutations(Hosts) \union Permutations(Items)

-----------------------------------------------------------------------------
\* Values of the constants.
RobotsAgents == {"*", "our", "other"}
RobotsSpecificity == [a \in RobotsAgents |-> CASE a = "*" -> 0 [] a = "our" -> 3 [] OTHER -> -1]

Root == <<"/">>
Below == <<"/", "a", "*">>
Agent(a) == [key |-> "user-agent", value |-> a]
Allow(p) == [key |-> "allow", value |-> p]
Disallow(p) == [key |-> "disallow", value |-> p]

\* No file (a 404), one that allows a part, one that disallows it to us.
RobotsFiles ==
  {<< >>,
   <<Agent("*"), Disallow(Root), Allow(Below)>>,
   <<Agent("*"), Allow(Root), Agent("our"), Disallow(Below)>>}
RobotsPaths == {<<"/", "a">>, <<"/", "b">>}
=============================================================================
