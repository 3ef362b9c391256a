\* A link of the page is suggested as another URL when its href is not a path.
SPECIFICATION Spec
CONSTANTS
  Agents <- RobotsAgents
  Token = "our"
  Specificity <- RobotsSpecificity
  Chars = {"/", "a", "b", "*", "$"}
  Patterns <- RobotsPatterns
  SitemapURLs = {s1}
  MaxSitemapEntries = 2
  TopN = 3
  MinBlockText = 1
  MaxTextRunes = 3
  MaxLength <- LongestInput
INVARIANT SuggestionsAreLinks
CHECK_DEADLOCK FALSE
