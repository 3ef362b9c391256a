\* A robots.txt that the code reads otherwise than RFC 9309.
SPECIFICATION Spec
CONSTANTS
  Agents <- RobotsAgents
  Token = "our"
  Specificity <- RobotsSpecificity
  Chars = {"/", "a", "b", "*", "$"}
  Patterns <- RobotsPatterns
  SitemapURLs = {s1}
  MaxSitemapEntries = 2
  TopN = 3
  MinBlockText = 1
  MaxTextRunes = 3
  MaxLength <- LongestInput
INVARIANT RobotsFollowStandard
CHECK_DEADLOCK FALSE
