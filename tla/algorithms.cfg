\* The algorithms on all inputs up to a length: the run ends at the longest.
SPECIFICATION Spec
CONSTANTS
  Agents <- RobotsAgents
  Token = "our"
  Specificity <- RobotsSpecificity
  Chars = {"/", "a", "b", "*", "$"}
  Patterns <- RobotsPatterns
  SitemapURLs = {s1}
  MaxSitemapEntries = 2
  TopN = 3
  MinBlockText = 1
  MaxTextRunes = 3
  MaxLength <- LongestInput
INVARIANTS RobotsMeaningIsKnown TailIsFound QueriesKeepBest DistancesAreLeast
INVARIANTS BestAreSuggested PagesAreOutlined ArgumentsMeanTheSame
CHECK_DEADLOCK FALSE
