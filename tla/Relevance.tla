----------------------------- MODULE Relevance ------------------------------
(***************************************************************************)
(* internal/relevance/relevance.go and applyRelevanceFilter of             *)
(* internal/pipeline/pipeline.go: a page is split at its headings, its     *)
(* sections are ranked against the query, the best are put together again; *)
(* the elements of a JSON document are filtered in place.                  *)
(*                                                                         *)
(* A line is a heading (any trimmed line that begins with #, also one of a *)
(* code block), a text or a blank line, with what is said in it.  The BM25 *)
(* scores are any numbers.                                                 *)
(***************************************************************************)
EXTENDS Selection

Line(kind, says) == [kind |-> kind, says |-> says]
NoHeading == ""   \* of the text before the first heading, and of "#" alone

\* raw: the section has a line that is not blank, its heading included.
Section(heading, text, raw) == [heading |-> heading, text |-> text, raw |-> raw]

\* The section that is open is dropped if nothing is in it.
Save(state) ==
  IF state.open.raw \/ state.open.heading # NoHeading
  THEN Append(state.sections, state.open) ELSE state.sections

SplitLine(state, line) ==
  CASE line.kind = "heading" ->
         [sections |-> Save(state), open |-> Section(line.says, << >>, TRUE)]
    [] line.kind = "text" ->
         [state EXCEPT !.open.text = Append(@, line.says), !.open.raw = TRUE]
    [] line.kind = "blank" -> state

\* The last section is kept, empty or not.
SplitMarkdownSections(page) ==
  LET end == FoldLeft(SplitLine,
               [sections |-> << >>, open |-> Section(NoHeading, << >>, FALSE)], page)
  IN  Append(end.sections, end.open)

\* Mutant: ascending.
SortedAscending(order, scores) ==
  \A i, j \in DOMAIN order : i < j => scores[order[i]] <= scores[order[j]]

\* The orders in which the scores, one for each item, do not increase.  Among
\* equals sort.Slice leaves any order, sort.SliceStable the order there was.
Sorted(order, scores) ==
  \A i, j \in DOMAIN order : i < j => scores[order[i]] >= scores[order[j]]

Stable(order, scores) ==
  \A i, j \in DOMAIN order :
    i < j /\ scores[order[i]] = scores[order[j]] => order[i] < order[j]

Limit(topK, n) == IF topK > 0 /\ topK < n THEN topK ELSE n

\* The possible results of RankSections, as indexes of the sections.
RankSections(scores, topK) ==
  {SubSeq(order, 1, Limit(topK, Len(scores))) :
     order \in {o \in SetToSeqs(DOMAIN scores) : Sorted(o, scores)}}

\* The result of FilterJSONContent, as indexes of the items.
FilterJSONContent(scores, topK) ==
  LET order == CHOOSE o \in SetToSeqs(DOMAIN scores) :
                 Sorted(o, scores) /\ Stable(o, scores)
      keep == ToSet(SubSeq(order, 1, Limit(topK, Len(scores))))
  IN  Selected([i \in DOMAIN scores |-> i], keep)

\* A heading, of whatever level, comes back as one of level two, then the text
\* of its section; after the last section, the number of those left out.
SectionLines(s) ==
  (IF s.heading # NoHeading THEN <<Line("heading", s.heading)>> ELSE << >>)
    \o [i \in DOMAIN s.text |-> Line("text", s.text[i])]

ReassembleMarkdown(ranked, total) ==
  FlattenSeq([i \in DOMAIN ranked |-> SectionLines(ranked[i])])
    \o (IF total > Len(ranked) THEN <<Line("omitted", total - Len(ranked))>> ELSE << >>)

\* applyRelevanceFilter of a Markdown page with a query: the possible outputs.
Filtered(page, scores, topK) ==
  LET sections == SplitMarkdownSections(page)
  IN  {ReassembleMarkdown([i \in DOMAIN order |-> sections[order[i]]], Len(sections)) :
         order \in RankSections(scores, topK)}

-----------------------------------------------------------------------------
Says(lines) ==
  Selected(lines, {i \in DOMAIN lines : lines[i].kind # "blank" /\ lines[i].says # NoHeading})

\* Splitting and joining alone lose no line that says something and keep the
\* order: not the text before the first heading, nor a section that has no
\* text, nor the last one.
SplitLosesNothing(page) ==
  LET sections == SplitMarkdownSections(page)
  IN  ReassembleMarkdown(sections, Len(sections)) = Says(page)

\* However ties fall, what a query keeps has no less to do with it than what
\* it leaves out, the note counts exactly the sections left out, and without a
\* limit every line is still there, in another order at most.
QueryKeepsBest(page, scores, topK) ==
  LET sections == SplitMarkdownSections(page)
      Count(out) == IF out # << >> /\ Last(out).kind = "omitted" THEN Last(out).says ELSE 0
  IN  /\ \A order \in RankSections(scores, topK) :
           /\ IsInjective(order)
           /\ \A i \in ToSet(order), j \in DOMAIN scores \ ToSet(order) : scores[i] >= scores[j]
      /\ \A out \in Filtered(page, scores, topK) :
           /\ Count(out) = Len(sections) - Limit(topK, Len(sections))
           /\ Count(out) = 0 => (ToSet(out) = ToSet(Says(page)) /\ Len(out) = Len(Says(page)))

\* The JSON filter keeps as many, the best, and of equals the first, in the
\* order of the document ("Returns items in their original order after
\* filtering", relevance.go:265).
FilterKeepsOrder(scores, topK) ==
  LET kept == FilterJSONContent(scores, topK)
  IN  /\ Len(kept) = Limit(topK, Len(scores))
      /\ \A i, j \in DOMAIN kept : i < j => kept[i] < kept[j]
      /\ \A i \in ToSet(kept), j \in DOMAIN scores \ ToSet(kept) :
           scores[i] > scores[j] \/ (scores[i] = scores[j] /\ i < j)
=============================================================================
