\* A window whose head loses bytes of its last rune.
SPECIFICATION Spec
CONSTANTS
  Agents <- RobotsAgents
  Token = "our"
  Specificity <- RobotsSpecificity
  Chars = {"/", "a", "b", "*", "$"}
  Patterns <- RobotsPatterns
  SitemapURLs = {s1}
  MaxSitemapEntries = 2
  TopN = 3
  MinBlockText = 1
  MaxTextRunes = 3
  MaxLength <- LongestInput
INVARIANT HeadIsWhole
CHECK_DEADLOCK FALSE
