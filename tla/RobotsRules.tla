----------------------------- MODULE RobotsRules ----------------------------
(***************************************************************************)
(* internal/robots/robots.go: how a robots.txt is parsed into groups, and  *)
(* what the groups allow our user agent.  A file is the sequence of its    *)
(* lines that parse keeps, each with its key and its value; patterns and   *)
(* paths are sequences of characters, without percent-encoding; of an      *)
(* agent's name the model keeps how well it matches ours.                  *)
(*                                                                         *)
(* Two readings of the same lines that use none of the parser's groups:    *)
(* Reads, the one the code turns out to make of every file, and            *)
(* StandardAllows, that of RFC 9309, with a matcher of its own.  Departs   *)
(* names the files on which the two can differ.                            *)
(***************************************************************************)
EXTENDS Integers, SequencesExt

CONSTANTS
  Agents,       \* values of user-agent lines, in lower case
  Token,        \* the name of our user agent
  Specificity,  \* 0 for "*", the length of a name that ours contains,
                \*   -1 for any other
  Chars,        \* characters of patterns
  Patterns,     \* values of rules
  SitemapURLs   \* values of sitemap lines

ASSUME SpecificityAssumption ==
  /\ {"*", Token} \subseteq Agents
  /\ Specificity \in [Agents -> {-1} \union Nat]
  /\ Specificity["*"] = 0
  /\ Specificity[Token] > 0

ASSUME PatternAssumption == Patterns \subseteq Seq(Chars)

\* The lines parse does not skip.
Lines ==
  [key : {"user-agent"}, value : Agents]
    \union [key : {"allow", "disallow"}, value : Patterns]
    \union [key : {"sitemap"}, value : SitemapURLs]

IsRule(line) == line.key \in {"allow", "disallow"}
HasValue(line) == line.value # << >>

-----------------------------------------------------------------------------
NewGroup(agents) == [agents |-> agents, rules |-> << >>, sitemaps |-> << >>]

\* parse keeps "current", always the last group, or nil before the first.
ToLast(groups, Change(_)) ==
  IF groups = << >> THEN groups ELSE Append(Front(groups), Change(Last(groups)))

AddAgent(groups, agent) ==
  LET open == IF groups # << >> /\ Last(groups).rules = << >>
              THEN groups ELSE Append(groups, NewGroup(<< >>))
  IN  ToLast(open, LAMBDA g : [g EXCEPT !.agents = Append(@, agent)])

AddRule(groups, line) ==
  IF HasValue(line)
  THEN ToLast(groups, LAMBDA g : [g EXCEPT !.rules = Append(@,
         [path |-> line.value, allowed |-> line.key = "allow"])])
  ELSE groups

\* A sitemap before any agent opens a group for everyone.
AddSitemap(groups, url) ==
  LET open == IF groups = << >> THEN <<NewGroup(<<"*">>)>> ELSE groups
  IN  ToLast(open, LAMBDA g : [g EXCEPT !.sitemaps = Append(@, url)])

ParseLine(groups, line) ==
  CASE line.key = "user-agent" -> AddAgent(groups, line.value)
    [] IsRule(line)            -> AddRule(groups, line)
    [] line.key = "sitemap"    -> AddSitemap(groups, line.value)

Parse(file) == FoldLeft(ParseLine, << >>, file)

\* matchPath: a trailing "*" is dropped, the rest is a prefix.
WithoutStar(pattern) ==
  IF pattern # << >> /\ Last(pattern) = "*" THEN Front(pattern) ELSE pattern
MatchPath(pattern, path) == IsPrefix(WithoutStar(pattern), path)

\* Mutant: does not count the "*".
RuleLenOfPrefix(rule) == Len(WithoutStar(rule.path))

\* len(r.path), the "*" included.
RuleLen(rule) == Len(rule.path)

\* The first group that has the most specific matching agent.
BestGroup(groups) ==
  LET Fit(g) == Max({-1} \union {Specificity[a] : a \in ToSet(g.agents)})
      best == {i \in DOMAIN groups : Fit(groups[i]) >= 0
                 /\ \A j \in DOMAIN groups : Fit(groups[j]) <= Fit(groups[i])}
  IN  IF best = {} THEN NewGroup(<< >>) ELSE groups[Min(best)]

\* The longest matching rule decides, an allow among equals; none allows.
IsAllowed(groups, path) ==
  LET matching == {r \in ToSet(BestGroup(groups).rules) : MatchPath(r.path, path)}
      longest == {r \in matching : \A s \in matching : RuleLen(s) <= RuleLen(r)}
  IN  matching = {} \/ \E r \in longest : r.allowed

\* Checker.Sitemaps: those of every group, once for each of its agents that
\* matches.
SitemapsOf(groups) ==
  LET OfGroup(g) == FlattenSeq([i \in DOMAIN g.agents |->
        IF Specificity[g.agents[i]] >= 0 THEN g.sitemaps ELSE << >>])
  IN  FlattenSeq([i \in DOMAIN groups |-> OfGroup(groups[i])])

-----------------------------------------------------------------------------
\* Readings of the lines.  A rule stands in the group of a name above it when no
\* new group begins between them: a name after a rule.
Together(names, rules, i, j) ==
  i < j /\ ~\E k \in rules, l \in names : i < k /\ k < l /\ l < j

\* Of the rules that match, the longest decides, an allow among equals.
Decision(file, mine) ==
  LET longest == {j \in mine : \A k \in mine : Len(file[k].value) <= Len(file[j].value)}
  IN  mine = {} \/ \E j \in longest : file[j].key = "allow"

AgentLines(file) == {i \in DOMAIN file : file[i].key = "user-agent"}
RuleLines(file) == {i \in DOMAIN file : IsRule(file[i])}
Valued(file) == {i \in RuleLines(file) : HasValue(file[i])}

\* The lines that name a group: those of agents, and a sitemap that comes before
\* them all, which names everyone.
OpensForAll(file, i) ==
  file[i].key = "sitemap"
    /\ \A k \in DOMAIN file : k < i => file[k].key \notin {"user-agent", "sitemap"}
Named(file) == AgentLines(file) \union {i \in DOMAIN file : OpensForAll(file, i)}
Nearness(line) == Specificity[IF line.key = "sitemap" THEN "*" ELSE line.value]

\* What the code makes of a file: rules without a value are not there, and one
\* group counts, that of the first of the names that match best.
Reads(file, path) ==
  LET first == {i \in Named(file) :
        /\ Nearness(file[i]) >= 0
        /\ \A k \in Named(file) :
             /\ Nearness(file[k]) <= Nearness(file[i])
             /\ k < i => Nearness(file[k]) < Nearness(file[i])}
  IN  Decision(file, {j \in Valued(file) :
        /\ \E i \in first : Together(Named(file), Valued(file), i, j)
        /\ MatchPath(file[j].value, path)})

\* RFC 9309, 2.2.2: "*" stands for any characters, "$" for the end of the path.
\* Each character of the pattern matches up to a place in the path.
StandardMatches(pattern, path) ==
  LET anchored == pattern # << >> /\ Last(pattern) = "$"
      glob == IF anchored THEN Front(pattern) ELSE pattern
  IN  \E place \in [0..Len(glob) -> 0..Len(path)] :
        /\ place[0] = 0
        /\ \A i \in 1..Len(glob) :
             IF glob[i] = "*"
             THEN place[i - 1] <= place[i]
             ELSE place[i] = place[i - 1] + 1 /\ path[place[i]] = glob[i]
        /\ anchored => place[Len(glob)] = Len(path)

\* RFC 9309, 2.2.1: the groups that name us count, all together, or if there is
\* none those that name everyone.
StandardAllows(file, path) ==
  LET ours == {i \in AgentLines(file) : file[i].value = Token}
      counts == IF ours # {} THEN ours ELSE {i \in AgentLines(file) : file[i].value = "*"}
  IN  Decision(file, {j \in RuleLines(file) :
        /\ HasValue(file[j])
        /\ \E i \in counts : Together(AgentLines(file), RuleLines(file), i, j)
        /\ StandardMatches(file[j].value, path)})

\* Where the code leaves the standard: a sitemap stands before the first agent;
\* only rules without a value keep two groups apart; an agent that matches comes
\* back in another group; a name is a part of ours; a pattern has a "*" inside
\* or a "$" at its end.
SitemapComesFirst(file) ==
  \E i \in DOMAIN file : file[i].key = "sitemap" /\ \A k \in AgentLines(file) : i < k
GroupsMerge(file) ==
  \E i, j \in AgentLines(file) :
    /\ \E k \in RuleLines(file) : i < k /\ k < j
    /\ ~\E k \in Valued(file) : i < k /\ k < j
AgentComesBack(file) ==
  \E i, j \in AgentLines(file) :
    /\ \E k \in RuleLines(file) : i < k /\ k < j
    /\ file[i].value = file[j].value /\ Nearness(file[i]) >= 0
NamedInPart(file) ==
  \E i \in AgentLines(file) : file[i].value \notin {"*", Token} /\ Nearness(file[i]) >= 0
BeyondPrefix(pattern) ==
  \E i \in DOMAIN pattern :
    \/ pattern[i] = "*" /\ i # Len(pattern)
    \/ pattern[i] = "$" /\ i = Len(pattern)

Departs(file) ==
  \/ SitemapComesFirst(file) \/ GroupsMerge(file) \/ AgentComesBack(file)
  \/ NamedInPart(file) \/ \E j \in RuleLines(file) : BeyondPrefix(file[j].value)
=============================================================================
