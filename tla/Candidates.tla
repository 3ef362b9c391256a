----------------------------- MODULE Candidates -----------------------------
(***************************************************************************)
(* The ranking of recovery candidates in internal/pipeline/pipeline.go:    *)
(* the links of an ancestor page, or of the sitemaps, are compared with    *)
(* the segment that was not found, and the three best are suggested.  A    *)
(* segment or a title is a sequence of letters.                            *)
(***************************************************************************)
EXTENDS Selection

CONSTANTS
  MaxSitemapEntries, \* maxSitemapEntries
  TopN               \* candidates suggested, 3

ASSUME CandidatesAssumption == MaxSitemapEntries \in Nat /\ TopN \in Nat \ {0}

\* Mutant: the first column stays 0.
NextRowFromZero(previous, i, a, b) ==
  LET row[j \in 0..Len(b)] ==
        IF j = 0 THEN 0
        ELSE Min({row[j-1] + 1, previous[j] + 1,
                  previous[j-1] + (IF a[i] = b[j] THEN 0 ELSE 1)})
  IN  row

\* levenshtein, row after row of the table: row i from row i - 1.
NextRow(previous, i, a, b) ==
  LET row[j \in 0..Len(b)] ==
        IF j = 0 THEN i
        ELSE Min({row[j-1] + 1, previous[j] + 1,
                  previous[j-1] + (IF a[i] = b[j] THEN 0 ELSE 1)})
  IN  row

Levenshtein(a, b) ==
  LET rows == FoldLeft(LAMBDA row, i : NextRow(row, i, a, b),
                       [j \in 0..Len(b) |-> j], [i \in DOMAIN a |-> i])
  IN  IF a = << >> THEN Len(b) ELSE IF b = << >> THEN Len(a) ELSE rows[Len(b)]

\* fuzzyScore in units of 1/600, rounded down: 1, 0.8, 0.7, 0.6, or nine tenths
\* of a similarity of 0.6 or more.
ContainsText(s, t) == \E i \in 0..Len(s) : IsPrefix(t, SubSeq(s, i + 1, Len(s)))
Longer(a, b) == IF Len(a) > Len(b) THEN Len(a) ELSE Len(b)
Similar(a, b) == Longer(a, b) - Levenshtein(a, b)

FuzzyScore(target, slug, title) ==
  CASE target = << >> \/ slug = << >>                      -> 0
    [] target = slug                                        -> 600
    [] target # slug /\ (IsPrefix(target, slug) \/ IsSuffix(target, slug)) -> 480
    [] OTHER ->
        IF Len(target) >= 3 /\ ContainsText(slug, target) THEN 420
        ELSE IF Len(target) >= 3 /\ ContainsText(title, target) THEN 360
        ELSE IF 10 * Similar(target, slug) >= 6 * Longer(target, slug)
        THEN (540 * Similar(target, slug)) \div Longer(target, slug)
        ELSE 0

-----------------------------------------------------------------------------
\* A link as the page or the sitemap has it: the form of its href or loc, the
\* last segment of the path, the title; leads is where a browser goes.
Forms == {"path",      \* a path, relative or from the root
          "whole",     \* a URL with its scheme
          "query",     \* a path with a query or a fragment
          "fragment",  \* a fragment alone, or nothing
          "script"}    \* javascript:, data:, vbscript:
IsSafeHref(link) == link.form \notin {"fragment", "script"}

\* The href of a page is taken for a path whatever it is, and resolved against
\* the ancestor: a scheme or a query becomes part of the path.
FromPage(page) ==
  LET safe == Selected(page, {i \in DOMAIN page : IsSafeHref(page[i])})
  IN  [i \in DOMAIN safe |->
         [url |-> IF safe[i].form = "path" THEN safe[i].leads ELSE "elsewhere",
          slug |-> safe[i].slug, title |-> safe[i].title]]

\* A sitemap gives whole URLs, and no titles.
FromSitemap(sitemap) ==
  LET whole == Selected(sitemap,
                 {i \in DOMAIN sitemap : IsSafeHref(sitemap[i]) /\ sitemap[i].form = "whole"})
  IN  [i \in DOMAIN whole |-> [url |-> whole[i].leads, slug |-> whole[i].slug, title |-> << >>]]

\* Sitemap after sitemap, until there are enough entries.
FromSitemaps(sitemaps) ==
  LET More(links, sitemap) ==
        IF Len(links) >= MaxSitemapEntries THEN links ELSE links \o FromSitemap(sitemap)
      all == FoldLeft(More, << >>, sitemaps)
  IN  SubSeq(all, 1, Min({MaxSitemapEntries, Len(all)}))

\* Mutant: after the last that has a higher score.
InsertBeforeEquals(sorted, c) ==
  LET higher == {n \in DOMAIN sorted : sorted[n].score > c.score}
  IN  InsertAt(sorted, Max(higher \union {0}) + 1, c)

\* sortCandidates inserts each after the last that has no lower score.
Insert(sorted, c) ==
  LET notLower == {n \in DOMAIN sorted : sorted[n].score >= c.score}
  IN  InsertAt(sorted, Max(notLower \union {0}) + 1, c)

RankCandidates(links, target) ==
  LET scored == [i \in DOMAIN links |->
        [link |-> i, url |-> links[i].url,
         score |-> FuzzyScore(target, links[i].slug, links[i].title)]]
      sorted == FoldLeft(Insert, << >>,
                  Selected(scored, {i \in DOMAIN scored : scored[i].score > 0}))
  IN  SubSeq(sorted, 1, Min({TopN, Len(sorted)}))

\* The candidates of RecoveryHints: the sitemaps only when the page has none.
FindCandidates(page, sitemaps, target) ==
  LET found == RankCandidates(FromPage(page), target)
  IN  IF found # << >> THEN found ELSE RankCandidates(FromSitemaps(sitemaps), target)

-----------------------------------------------------------------------------
\* An alignment of a and b pairs letters in order; it costs the letters left
\* over and the pairs that differ.
Alignments(a, b) ==
  {m \in SUBSET ((DOMAIN a) \X (DOMAIN b)) :
     \A p, q \in m : p # q => (p[1] < q[1] /\ p[2] < q[2]) \/ (q[1] < p[1] /\ q[2] < p[2])}
Cost(a, b, m) ==
  Len(a) + Len(b) - 2 * Cardinality(m) + Cardinality({p \in m : a[p[1]] # b[p[2]]})

\* The table that is filled row by row ends with the edit distance: the cost of
\* the cheapest alignment.
DistanceIsLeast(a, b) ==
  /\ \E m \in Alignments(a, b) : Cost(a, b, m) = Levenshtein(a, b)
  /\ \A m \in Alignments(a, b) : Cost(a, b, m) >= Levenshtein(a, b)

\* The suggestions are the best of the links, of equals the first on the page,
\* none of them without a score; and where the links have none to offer the
\* sitemaps are asked.
CandidatesAreBest(page, sitemaps, target) ==
  LET Score(links, i) == FuzzyScore(target, links[i].slug, links[i].title)
      Scored(links) == {i \in DOMAIN links : Score(links, i) > 0}
      links == IF Scored(FromPage(page)) # {} THEN FromPage(page) ELSE FromSitemaps(sitemaps)
      Before(i, j) == Score(links, i) > Score(links, j) \/ (Score(links, i) = Score(links, j) /\ i < j)
      found == FindCandidates(page, sitemaps, target)
      chosen == {found[n].link : n \in DOMAIN found}
  IN  /\ Len(found) = Min({TopN, Cardinality(Scored(links))})
      /\ chosen \subseteq Scored(links)
      /\ \A n \in 2..Len(found) : Before(found[n-1].link, found[n].link)
      /\ \A i \in chosen, j \in Scored(links) \ chosen : Before(i, j)

\* "probes ancestor paths and sitemaps to suggest nearest reachable
\* alternatives" (README.md:38): each suggestion is where some link leads.
SuggestionsLead(page, sitemaps, target) ==
  LET links == ToSet(page) \union UNION {ToSet(sitemaps[i]) : i \in DOMAIN sitemaps}
      found == FindCandidates(page, sitemaps, target)
  IN  \A n \in DOMAIN found : \E l \in links : found[n].url = l.leads
=============================================================================
