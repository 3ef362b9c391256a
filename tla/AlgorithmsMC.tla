---------------------------- MODULE AlgorithmsMC ----------------------------
(* The algorithms of the pipeline on all small inputs: an input grows by one *)
(* element at a time, and in every state the algorithm of this behaviour is  *)
(* compared with what it should compute.                                     *)
EXTENDS RobotsRules, Truncation, Relevance, Candidates, Endpoints, AgentDOM

CONSTANTS
  MaxLength  \* of an input, for each part

VARIABLES
  part,  \* the algorithm of this behaviour
  input  \* a sequence over the alphabet of the part

-----------------------------------------------------------------------------
\* Values of the constants, and the elements of which inputs are made.
RobotsAgents == {"*", "our", "part", "other"}
RobotsSpecificity ==
  [a \in RobotsAgents |-> CASE a = "*" -> 0 [] a = "our" -> 3 [] a = "part" -> 2 [] OTHER -> -1]
RobotsPatterns ==
  {<< >>, <<"/">>, <<"/", "a">>, <<"/", "*">>, <<"/", "*", "a">>, <<"/", "$">>}
RobotsPaths == {<<"/">>, <<"/", "a">>, <<"/", "b", "a">>}

PageLines ==
  [kind : {"heading"}, says : {"A", NoHeading}] \union [kind : {"text"}, says : {"x", "y"}]
    \union [kind : {"blank"}, says : {NoHeading}]

Target == <<"a", "b", "c">>
Link(form, leads, slug, title) == [form |-> form, leads |-> leads, slug |-> slug, title |-> title]
PageLinks ==
  {Link("path", "exact", <<"a", "b", "c">>, << >>),
   Link("path", "prefix", <<"a", "b", "c", "d">>, << >>),
   Link("path", "near", <<"a", "x", "c">>, << >>),
   Link("path", "titled", <<"x">>, <<"x", "a", "b", "c">>),
   Link("path", "far", <<"x", "y">>, << >>),
   Link("whole", "inside", <<"x", "a", "b", "c", "x">>, << >>),
   Link("whole", "same", <<"a", "b", "c">>, << >>),
   Link("script", "none", <<"a", "b", "c">>, << >>)}

PageNodes ==
  [tag : {"p", "div", "section", "form", "a", "script"}, depth : 1..3, runes : {0}]
    \union [tag : {"text"}, depth : 1..4, runes : {2}]

Given(name, type, v) == [name |-> name, value |-> Value(type, v)]
Arguments ==
  {Given("url", "text", 0), Given("url", "text", 1), Given("url", "text", 2), Given("url", "number", 1),
   Given("format", "text", 1), Given("format", "text", 2), Given("format", "null", 0),
   Given("max_chars", "number", 500001), Given("max_chars", "digits", 7), Given("max_chars", "bool", 1),
   Given("top_k", "number", -1), Given("top_k", "fraction", 2), Given("char_limit", "number", 0),
   Given("timeout_seconds", "number", 121), Given("timeout_seconds", "digits", -1),
   Given("raw", "bool", 1), Given("raw", "truth", 1), Given("raw", "text", 1), Given("raw", "null", 0),
   Given("wayback_fallback", "truth", 0), Given("wayback_timestamp", "digits", 1),
   Given("concurrency", "digits", 9), Given("concurrency", "null", 0)}

Alphabet ==
  [robots   |-> Lines,
   content  |-> 1..4,
   sections |-> PageLines,
   scores   |-> 0..2,
   words    |-> {"a", "b"},
   links    |-> PageLinks,
   pages    |-> PageNodes,
   arguments |-> Arguments]
LongestInput ==
  [robots |-> 4, content |-> 6, sections |-> 4, scores |-> 5, words |-> 6, links |-> 4, pages |-> 4,
   arguments |-> 4]

Init == part \in DOMAIN Alphabet /\ input = << >>

Next ==
  /\ Len(input) < MaxLength[part]
  /\ \E x \in Alphabet[part] :
       /\ part = "pages" => IsTree(Append(input, x))
       /\ input' = Append(input, x)
  /\ UNCHANGED part

Spec == Init /\ [][Next]_<<part, input>>

-----------------------------------------------------------------------------
Before(n) == SubSeq(input, 1, n)
Between(m, n) == SubSeq(input, m + 1, n)
After(n) == Between(n, Len(input))
Cuts == 0..Len(input)

\* What the code makes of a robots.txt can be read off its lines, and is what
\* RFC 9309 says unless the file has one of the five forms of Departs (parse,
\* isAllowed and matchPath, robots.go).
RobotsMeaningIsKnown ==
  part = "robots" =>
    \A path \in RobotsPaths :
      /\ IsAllowed(Parse(input), path) = Reads(input, path)
      /\ IsAllowed(Parse(input), path) # StandardAllows(input, path) => Departs(input)

\* Of every robots.txt the code makes what the standard says: "per the Robots
\* Exclusion Protocol (RFC 9309)" (robots.go:1-2).
RobotsFollowStandard ==
  part = "robots" =>
    \A path \in RobotsPaths : IsAllowed(Parse(input), path) = StandardAllows(input, path)

\* Of a text that is cut the tail is whole, and the footer's offset finds it in
\* the stored file (TruncateAndStore, truncate.go).
TailIsFound ==
  part = "content" =>
    \A limit \in 1..5, maxStored \in 0..12 : OffsetFindsTail(input, limit, maxStored)

\* So is its head: "returns the first n runes of s" (truncate.go:125).
HeadIsWhole == part = "content" => \A limit \in 1..5 : HeadIsFirst(input, limit)

\* A page loses nothing by being split and joined, and a query keeps the best
\* of it and says what it leaves out; of a JSON document it keeps the best
\* elements in their order (relevance.go).
QueriesKeepBest ==
  /\ part = "sections" =>
       /\ SplitLosesNothing(input)
       /\ \A scores \in [DOMAIN SplitMarkdownSections(input) -> 0..1], topK \in 0..2 :
            QueryKeepsBest(input, scores, topK)
  /\ part = "scores" => \A topK \in -1..4 : FilterKeepsOrder(input, topK)

\* levenshtein gives the edit distance (pipeline.go).
DistancesAreLeast == part = "words" => \A n \in Cuts : DistanceIsLeast(Before(n), After(n))

\* The best links are suggested, those of sitemaps when the page has none
\* (pipeline.go); the input is cut into a page and two sitemaps.
BestAreSuggested ==
  part = "links" =>
    \A m, n \in Cuts : m <= n => CandidatesAreBest(Before(m), <<Between(m, n), After(n)>>, Target)

\* The best block is chosen, and the document made of it, or of what a selector
\* chooses, is consistent (semantic/score.go, agentdom/builder.go).
PagesAreOutlined ==
  part = "pages" =>
    LET page == [i \in DOMAIN input |->
                   Node(i, input[i].tag, input[i].depth, input[i].runes)]
        filtered == Filter(page)
    IN  /\ \A charThreshold \in {0, 2, 3, 4, 6} : BestBlockIsBest(filtered, charThreshold)
        /\ \A best \in 0..Len(filtered), maxChars \in {0, 2, 3, 5} :
             DocumentIsConsistent(page, best, maxChars)

\* What is suggested can be reached: "to suggest nearest reachable
\* alternatives" (README.md:38).
SuggestionsAreLinks ==
  part = "links" => \A n \in Cuts : SuggestionsLead(Before(n), <<After(n)>>, Target)

\* The tools and POST /fetch treat the same arguments alike (mcp/tools.go,
\* httpserver/server.go).
ArgumentsMeanTheSame ==
  part = "arguments" =>
    LET Latest(name) == CHOOSE i \in DOMAIN input :
          input[i].name = name /\ \A j \in DOMAIN input : input[j].name = name => j <= i
        given == {input[i].name : i \in DOMAIN input}
    IN  EntrancesAgree([name \in given |-> input[Latest(name)].value],
                       [i \in DOMAIN input |-> input[i].value])
=============================================================================
