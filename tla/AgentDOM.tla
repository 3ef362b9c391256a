------------------------------ MODULE AgentDOM -------------------------------
(***************************************************************************)
(* What the pipeline makes of a parsed page: Filter of internal/dom, the   *)
(* choice of the best block and the categories of internal/semantic, the   *)
(* Builder of internal/agentdom.                                           *)
(*                                                                         *)
(* A page is the sequence of its nodes below the root in document order,   *)
(* each with its depth.  A tag stands for those that the code treats       *)
(* alike: "a" has an href, "script" is all that is dropped, hidden         *)
(* elements included.  A rune is known by the name of its node.            *)
(***************************************************************************)
EXTENDS Integers, Selection

CONSTANTS
  MinBlockText,  \* a block has more runes than this to be scored (20)
  MaxTextRunes   \* defaultMaxTextRunes: of one element

ASSUME AgentDOMAssumption == MinBlockText \in Nat /\ MaxTextRunes \in Nat

Node(name, tag, depth, runes) ==
  [name |-> name, tag |-> tag, depth |-> depth, runes |-> runes]

IsTree(page) ==
  \A i \in DOMAIN page :
    IF i = 1 THEN page[i].depth = 1
    ELSE page[i].depth \in 1..(page[i - 1].depth + (IF page[i - 1].tag = "text" THEN 0 ELSE 1))

\* Nodes i and below; 0 is the root.
Subtree(page, i) ==
  {j \in DOMAIN page : i <= j /\ \A k \in i + 1..j : i = 0 \/ page[k].depth > page[i].depth}
TextNodes(page, i) == {j \in Subtree(page, i) : page[j].tag = "text"}
Children(page, i) == {j \in Subtree(page, i) : page[j].depth = page[i].depth + 1}
InOrder(page, S) == Selected([i \in DOMAIN page |-> i], S)

-----------------------------------------------------------------------------
(* dom.Filter.                                                             *)

\* What shouldDrop drops, and what is below.
Dropped(page) == UNION {Subtree(page, i) : i \in {j \in DOMAIN page : page[j].tag = "script"}}

\* Mutant: what is below a dropped element moves up.
FilterNodes(page) == Selected(page, {i \in DOMAIN page : page[i].tag # "script"})

Filter(page) == Selected(page, DOMAIN page \ Dropped(page))

-----------------------------------------------------------------------------
(* semantic.BestBlock.                                                     *)

RunesOf(page, S) == MapThenSumSet(LAMBDA i : page[i].runes, S)
CountText(page, i) == RunesOf(page, TextNodes(page, i))

\* The text below links, which do not nest.
CountLinkText(page, i) ==
  RunesOf(page, UNION {TextNodes(page, j) : j \in {k \in Subtree(page, i) : page[k].tag = "a"}})

\* classWeight in tenths: a section stands for blocks whose class or id speaks
\* for them, a div for those against.
Weight(tag) == CASE tag = "section" -> 15 [] tag = "div" -> 3 [] OTHER -> 10

\* text * (1 - link density) * weight
Score(page, i) == (CountText(page, i) - CountLinkText(page, i)) * Weight(page[i].tag)

Blocks(page) ==
  {i \in DOMAIN page :
     page[i].tag \in {"p", "div", "section"} /\ CountText(page, i) > MinBlockText}

\* ScoreBlocks: the orders that sort.Slice may leave.
ScoreBlocks(page) ==
  {order \in SetToSeqs(Blocks(page)) :
     \A m, n \in DOMAIN order : m < n => Score(page, order[m]) >= Score(page, order[n])}

\* The node for one such order, 0 for the root.
BestBlock(page, order, charThreshold) ==
  IF order # << >> /\ CountText(page, order[1]) >= charThreshold THEN order[1]
  ELSE LET loose == {m \in DOMAIN order : CountText(page, order[m]) >= charThreshold \div 2}
       IN  IF loose = {} THEN 0 ELSE order[Min(loose)]

-----------------------------------------------------------------------------
(* agentdom.Builder.                                                       *)

Space    == 0
Ellipsis == -1

\* ClassifyNode; a section is text that isContainerTag.
Category(tag) ==
  CASE tag = "a"                 -> "link"
    [] tag = "form"              -> "form"
    [] tag \in {"p", "section"}  -> "text"
    [] OTHER                     -> ""
Interactive(node) == Category(node.tag) \in {"link", "form"}

\* The bound is on the runes of the texts, not on the spaces between.
CollectText(state, node) ==
  LET kept  == IF node.runes > state.remaining THEN state.remaining ELSE node.runes
      space == IF kept = node.runes THEN <<Space>> ELSE << >>
  IN  IF state.remaining = 0 THEN state
      ELSE [text |-> state.text \o [n \in 1..kept |-> node.name] \o space,
            remaining |-> state.remaining - kept]

\* extractText, then compressWhitespace.
Trim(text) == IF text # << >> /\ Last(text) = Space THEN Front(text) ELSE text
ExtractText(page, i) ==
  Trim(FoldLeft(CollectText, [text |-> << >>, remaining |-> MaxTextRunes],
                Selected(page, TextNodes(page, i))).text)

NewBuilder(maxChars) ==
  [counter |-> 0, elements |-> << >>, interactive |-> << >>,
   maxChars |-> maxChars, charsSeen |-> 0, truncated |-> FALSE]

\* consumeChars: what is left of a text, and what the builder is then.  A
\* budget of 0 is none.
Consumed(b, text) ==
  LET remaining == b.maxChars - b.charsSeen
  IN  IF b.maxChars = 0 \/ Len(text) <= remaining THEN text
      ELSE IF remaining = 0 THEN << >>
      ELSE Append(SubSeq(text, 1, remaining), Ellipsis)
Consume(b, text) ==
  LET remaining == b.maxChars - b.charsSeen
  IN  IF b.maxChars = 0 THEN b
      ELSE IF Len(text) > remaining THEN [b EXCEPT !.truncated = TRUE, !.charsSeen = b.maxChars]
      ELSE [b EXCEPT !.charsSeen = @ + Len(text)]

\* buildElement for node i without the children of a form: what the builder is
\* after it, and the element.
Counted(b, page, i) ==
  [Consume(b, ExtractText(page, i)) EXCEPT !.counter = @ + (IF Interactive(page[i]) THEN 1 ELSE 0)]
Element(b, page, i) ==
  [id       |-> IF Interactive(page[i]) THEN b.counter + 1 ELSE 0,
   node     |-> page[i].name,
   text     |-> Consumed(b, ExtractText(page, i)),
   children |-> << >>]

List(b, el) == IF el.id = 0 THEN b ELSE [b EXCEPT !.interactive = Append(@, el)]
Add(b, el) == List([b EXCEPT !.elements = Append(@, el)], el)

\* Of a form: those of its children that have a category, not what is below.
Fields(page, i) ==
  {c \in Children(page, i) : page[i].tag = "form" /\ Category(page[c].tag) \notin {"", "form"}}

AddField(state, el, after) == [b |-> List(after, el), children |-> Append(state.children, el)]
Complete(state, el) == Add(state.b, [el EXCEPT !.children = state.children])

\* A form is counted before its fields and listed after them.
AddElement(b, page, i) ==
  Complete(FoldLeft(LAMBDA state, c : AddField(state, Element(state.b, page, c), Counted(state.b, page, c)),
                    [b |-> Counted(b, page, i), children |-> << >>],
                    InOrder(page, Fields(page, i))),
           Element(b, page, i))

\* walk: containers and nodes without a category are entered, elements not.
Walk(state, page, i) ==
  IF state.b.truncated \/ i \in state.built \/ page[i].tag = "section" \/ Category(page[i].tag) = ""
  THEN state
  ELSE [b |-> AddElement(state.b, page, i), built |-> state.built \union Subtree(page, i)]

Build(page, best, maxChars) ==
  FoldLeft(LAMBDA state, i : Walk(state, page, i),
           [b |-> NewBuilder(maxChars), built |-> {}], InOrder(page, Subtree(page, best))).b

-----------------------------------------------------------------------------
(* Properties.                                                             *)

\* The strict and the loose threshold of BestBlock come to one: it is the block
\* of the highest score among those with half the text wanted, and the root if
\* there are none.
BestBlockIsBest(page, charThreshold) ==
  LET Enough(i) == CountText(page, i) >= charThreshold \div 2
      IsBest(best) ==
        IF best = 0 THEN \A i \in Blocks(page) : ~Enough(i)
        ELSE /\ best \in Blocks(page) /\ Enough(best)
             /\ \A i \in Blocks(page) : Enough(i) => Score(page, i) <= Score(page, best)
  IN  \A order \in ScoreBlocks(page) : IsBest(BestBlock(page, order, charThreshold))

\* The elements of a document; those whose text is cut; the runes of a text
\* without the mark.
Elements(top) == top \union UNION {Range(el.children) : el \in top}

IsCut(el) == Ellipsis \in Range(el.text)
RunesIn(el) == Len(el.text) - (IF IsCut(el) THEN 1 ELSE 0)

\* The agent's ids count the interactive elements, and each is listed once;
\* nothing that is hidden is in the document; it has no more runes than the
\* budget, if there is one, and only the text at which the budget ends is marked as cut.
Consistent(b, elements, hidden) ==
  /\ {el.id : el \in Range(b.interactive)} = 1..Len(b.interactive)
  /\ Range(b.interactive) = {el \in elements : el.id # 0}
  /\ \A el \in elements : ({el.node} \union Range(el.text)) \intersect hidden = {}
  /\ b.maxChars = 0 \/ MapThenSumSet(RunesIn, elements) <= b.maxChars
  /\ \A el \in elements :
       IsCut(el) => /\ \A other \in elements : IsCut(other) => other = el
                    /\ MapThenSumSet(RunesIn, elements) = b.maxChars

\* The document made of any part of a page, of what Filter leaves of it, is
\* consistent (document.go:13-36, filter.go:33).
DocumentIsConsistent(page, best, maxChars) ==
  \A b \in {Build(Filter(page), best, maxChars)} :
    Consistent(b, Elements(Range(b.elements)), {page[i].name : i \in Dropped(page)})
=============================================================================
