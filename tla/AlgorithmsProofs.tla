-------------------------- MODULE AlgorithmsProofs --------------------------
(* Proofs about the algorithms: on which files robots.go can depart from RFC  *)
(* 9309, that levenshtein computes the edit distance, which part of a text    *)
(* that is cut is kept whole, that the entrances for agents take the same     *)
(* arguments, that a query keeps the best sections of a page, that the best   *)
(* links are suggested, and that a page is outlined within its budget, for    *)
(* inputs of every size.                                                      *)
(* Inductions are by a minimal counterexample (WFMin).                        *)
EXTENDS AlgorithmsMC, FunctionTheorems, FiniteSetTheorems, SequenceTheorems, NaturalsInduction,
        WellFoundedInduction, TLAPS

-----------------------------------------------------------------------------
(* Least and greatest elements.                                             *)

LEMMA LeastNatural ==
  ASSUME NEW T \in SUBSET Nat, T # {}
  PROVE  \E n \in T : \A m \in T : n <= m
<1>1. PICK n \in T : \A m \in T : <<m, n>> \notin OpToRel(<, Nat)
  BY NatLessThanWellFounded, WFMin
<1>2. ASSUME NEW m \in T, m < n PROVE FALSE
  BY <1>1, <1>2 DEF OpToRel
<1>3. ASSUME NEW m \in T PROVE n <= m
  <2>1. n \in Nat /\ m \in Nat /\ ~ m < n
    BY <1>1, <1>2, <1>3
  <2> QED BY <2>1
<1> QED BY <1>1, <1>3

\* A set of subsets of a finite set has a minimal element.
LEMMA SmallestSubset ==
  ASSUME NEW S, IsFiniteSet(S), NEW bad \in SUBSET (SUBSET S), bad # {}
  PROVE  \E T \in bad : \A U \in SUBSET T : U # T => U \notin bad
<1>1. IsWellFoundedOn(StrictSubsetOrdering(S), FiniteSubsetsOf(S))
  BY FS_StrictSubsetOrderingWellFounded
<1>2. FiniteSubsetsOf(S) = SUBSET S
  BY FS_FiniteSubsetsOfFinite
<1>3. PICK T \in bad : \A U \in bad : <<U, T>> \notin StrictSubsetOrdering(S)
  BY <1>1, <1>2, WFMin
<1>4. ASSUME NEW U \in SUBSET T, U # T, U \in bad PROVE FALSE
  <2>1. U \in SUBSET S /\ T \in SUBSET S
    BY <1>3, <1>4
  <2>2. <<U, T>> \in StrictSubsetOrdering(S)
    BY <1>4, <2>1 DEF StrictSubsetOrdering
  <2> QED BY <1>3, <1>4, <2>2
<1> QED BY <1>3, <1>4

LEMMA MaxOfFinite ==
  ASSUME NEW S \in SUBSET Int, IsFiniteSet(S), S # {}
  PROVE  Max(S) \in S /\ \A x \in S : x <= Max(S)
<1> DEFINE HasMax(T) == \E m \in T : \A x \in T : m >= x
           bad == {T \in SUBSET S : T # {} /\ ~ HasMax(T)}
<1>1. SUFFICES HasMax(S)
  BY DEF Max
<1>2. SUFFICES ASSUME bad # {} PROVE FALSE
  OBVIOUS
<1>3. bad \in SUBSET (SUBSET S)
  OBVIOUS
<1>4. PICK T \in bad : \A U \in SUBSET T : U # T => U \notin bad
  <2> HIDE DEF bad
  <2> QED BY <1>2, <1>3, SmallestSubset
<1>5. T \in SUBSET Int /\ T # {} /\ ~ HasMax(T)
  BY <1>4
<1>6. PICK t \in T : TRUE
  BY <1>5
<1>7. T \ {t} \notin bad /\ T \ {t} \in SUBSET S
  BY <1>4, <1>6
<1>8. CASE T \ {t} = {}
  BY <1>5, <1>6, <1>8
<1>9. CASE T \ {t} # {}
  <2>1. PICK m \in T \ {t} : \A x \in T \ {t} : m >= x
    BY <1>7, <1>9
  <2>2. t \in Int /\ m \in Int /\ \A x \in T : x = t \/ m >= x
    BY <1>5, <1>6, <2>1
  <2> QED BY <1>5, <1>6, <2>1, <2>2
<1> QED BY <1>8, <1>9

LEMMA MaxOfInterval ==
  ASSUME NEW n \in Nat, n # 0
  PROVE  Max(1..n) = n
<1>1. n \in 1..n /\ \A y \in 1..n : n >= y
  OBVIOUS
<1>2. \A x \in 1..n : (\A y \in 1..n : x >= y) => x = n
  OBVIOUS
<1> QED BY <1>1, <1>2 DEF Max

-----------------------------------------------------------------------------
(* FoldLeft, as the algorithms use it.                                       *)

\* What is folded: the lines of a robots.txt, the rows of levenshtein's table,
\* the lines of a page, the sitemaps, the candidates; the texts of an element,
\* the fields of a form, the nodes of a page.
OfLines      == [what |-> "lines"]
OfRows(a, b) == [what |-> "rows", a |-> a, b |-> b]
OfPage       == [what |-> "page"]
OfSitemaps   == [what |-> "sitemaps"]
OfCandidates == [what |-> "candidates"]
OfTexts      == [what |-> "texts"]
OfFields(b, page, form)  == [what |-> "fields", b |-> b, page |-> page, form |-> form]
OfNodes(page, maxChars)  == [what |-> "nodes", page |-> page, maxChars |-> maxChars]

Start(fold) ==
  CASE fold.what = "rows" -> [j \in 0..Len(fold.b) |-> j]
    [] fold.what = "page" -> [sections |-> << >>, open |-> Section(NoHeading, << >>, FALSE)]
    [] fold.what = "texts" -> [text |-> << >>, remaining |-> MaxTextRunes]
    [] fold.what = "fields" -> [b |-> Counted(fold.b, fold.page, fold.form), children |-> << >>]
    [] fold.what = "nodes" -> [b |-> NewBuilder(fold.maxChars), built |-> {}]
    [] OTHER -> << >>
Step(fold, result, x) ==
  CASE fold.what = "lines"      -> ParseLine(result, x)
    [] fold.what = "rows"       -> NextRow(result, x, fold.a, fold.b)
    [] fold.what = "page"       -> SplitLine(result, x)
    [] fold.what = "sitemaps"   -> IF Len(result) >= MaxSitemapEntries THEN result
                                   ELSE result \o FromSitemap(x)
    [] fold.what = "candidates" -> Insert(result, x)
    [] fold.what = "texts"      -> CollectText(result, x)
    [] fold.what = "fields"     -> AddField(result, Element(result.b, fold.page, x),
                                            Counted(result.b, fold.page, x))
    [] fold.what = "nodes"      -> Walk(result, fold.page, x)

\* g is the table by which the library folds what seq has at the places D.
FoldTable(fold, seq, D, g) ==
  g = [s \in SUBSET D |->
         IF s = {} THEN Start(fold) ELSE Step(fold, g[s \ {Max(s)}], seq[Max(s)])]

LEMMA MaxOfLines ==
  ASSUME NEW n \in Nat, NEW s \in SUBSET (1..n), s # {}
  PROVE  Max(s) \in s
<1>1. 1 \in Int /\ n \in Int
  OBVIOUS
<1>2. IsFiniteSet(1..n)
  BY <1>1, FS_Interval
<1>3. IsFiniteSet(s)
  BY <1>2, FS_Subset
<1>4. s \in SUBSET Int
  OBVIOUS
<1> QED BY <1>3, <1>4, MaxOfFinite

Agree(f, g, D) == \A x \in D : f[x] = g[x]

\* The entries of a table depend only on what is folded into them.
LEMMA FoldTablesAgree ==
  ASSUME NEW n \in Nat, NEW S \in SUBSET (1..n), NEW T \in SUBSET S,
         NEW fold, NEW e, NEW f, NEW g, NEW h,
         FoldTable(fold, e, S, g), FoldTable(fold, f, T, h), Agree(e, f, T)
  PROVE  Agree(g, h, SUBSET T)
<1> DEFINE bad == {s \in SUBSET T : g[s] # h[s]}
<1>1. SUFFICES ASSUME bad # {} PROVE FALSE
  BY DEF Agree
<1>2. IsFiniteSet(T) /\ bad \in SUBSET (SUBSET T)
  <2>1. 1 \in Int /\ n \in Int
    OBVIOUS
  <2>2. IsFiniteSet(1..n) /\ T \in SUBSET (1..n)
    BY <2>1, FS_Interval
  <2> QED BY <2>2, FS_Subset
<1> HIDE DEF bad
<1>3. PICK s \in bad : \A u \in SUBSET s : u # s => u \notin bad
  BY <1>1, <1>2, SmallestSubset
<1>4. s \in SUBSET T /\ s \in SUBSET S /\ s \in SUBSET (1..n) /\ g[s] # h[s]
  BY <1>3 DEF bad
<1>5. /\ g[s] = IF s = {} THEN Start(fold) ELSE Step(fold, g[s \ {Max(s)}], e[Max(s)])
      /\ h[s] = IF s = {} THEN Start(fold) ELSE Step(fold, h[s \ {Max(s)}], f[Max(s)])
  BY <1>4 DEF FoldTable
<1>6. CASE s # {}
  <2>1. Max(s) \in s
    BY <1>4, <1>6, MaxOfLines
  <2>2. s \ {Max(s)} \notin bad
    BY <1>3, <2>1
  <2>3. g[s \ {Max(s)}] = h[s \ {Max(s)}] /\ e[Max(s)] = f[Max(s)]
    BY <1>4, <2>1, <2>2 DEF bad, Agree
  <2> QED BY <1>4, <1>5, <2>3
<1> QED BY <1>4, <1>5, <1>6

\* There is a table for every fold.
LEMMA FoldTableExists ==
  ASSUME NEW n \in Nat, NEW fold, NEW f
  PROVE  \E g : FoldTable(fold, f, 1..n, g)
<1> DEFINE S == 1..n
           bad == {T \in SUBSET S : ~ \E g : FoldTable(fold, f, T, g)}
<1>1. SUFFICES ASSUME bad # {} PROVE FALSE
  OBVIOUS
<1>2. IsFiniteSet(S) /\ bad \in SUBSET (SUBSET S)
  BY FS_Interval
<1>3. PICK T \in bad : \A U \in SUBSET T : U # T => U \notin bad
  <2> HIDE DEF bad, S
  <2> QED BY <1>1, <1>2, SmallestSubset
<1> DEFINE table(U) == CHOOSE g : FoldTable(fold, f, U, g)
           folded(U)  == table(U)[U]
           whole    == [s \in SUBSET T |->
                          IF s = {} THEN Start(fold)
                                    ELSE Step(fold, folded(s \ {Max(s)}), f[Max(s)])]
<1>4. T \in SUBSET S /\ ~ \E g : FoldTable(fold, f, T, g)
  BY <1>3
<1>5. ASSUME NEW U \in SUBSET T, U # T PROVE FoldTable(fold, f, U, table(U))
  <2>1. U \in SUBSET S /\ U \notin bad
    BY <1>3, <1>4, <1>5
  <2>2. \E g : FoldTable(fold, f, U, g)
    BY <2>1
  <2> QED BY <2>2
<1>6. ASSUME NEW U \in SUBSET T, U # T PROVE folded(U) = whole[U]
  <2>1. FoldTable(fold, f, U, table(U))
    BY <1>5, <1>6
  <2>2. table(U)[U] = IF U = {} THEN Start(fold)
                      ELSE Step(fold, table(U)[U \ {Max(U)}], f[Max(U)])
    BY <2>1 DEF FoldTable
  <2>3. CASE U # {}
    <3> DEFINE V == U \ {Max(U)}
    <3>1. U \in SUBSET (1..n) /\ Max(U) \in U
      BY <1>4, <1>6, <2>3, MaxOfLines
    <3>2. V \in SUBSET T /\ V # T /\ V \in SUBSET U
      BY <1>4, <1>6, <3>1
    <3>3. FoldTable(fold, f, V, table(V))
      BY <1>5, <3>2
    <3>4. table(U)[V] = table(V)[V]
      <4> HIDE DEF table, V
      <4>1. Agree(f, f, V)
        BY DEF Agree
      <4>2. Agree(table(U), table(V), SUBSET V)
        BY <2>1, <3>1, <3>2, <3>3, <4>1, FoldTablesAgree
      <4> QED BY <4>2 DEF Agree
    <3> QED BY <2>2, <2>3, <3>4
  <2> QED BY <2>2, <2>3
<1>7. ASSUME NEW s \in SUBSET T, s # {}
      PROVE  folded(s \ {Max(s)}) = whole[s \ {Max(s)}]
  <2>1. Max(s) \in s
    BY <1>4, <1>7, MaxOfLines
  <2>2. s \ {Max(s)} \in SUBSET T /\ s \ {Max(s)} # T
    BY <2>1
  <2> HIDE DEF folded, whole
  <2> QED BY <1>6, <2>2
<1>8. FoldTable(fold, f, T, whole)
  <2>1. ASSUME NEW s \in SUBSET T
        PROVE  whole[s] = IF s = {} THEN Start(fold)
                          ELSE Step(fold, whole[s \ {Max(s)}], f[Max(s)])
    <3>1. whole[s] = IF s = {} THEN Start(fold)
                     ELSE Step(fold, folded(s \ {Max(s)}), f[Max(s)])
      OBVIOUS
    <3> HIDE DEF folded, whole
    <3> QED BY <1>7, <3>1
  <2>2. whole = [s \in SUBSET T |-> whole[s]]
    OBVIOUS
  <2> HIDE DEF whole
  <2> QED BY <2>1, <2>2 DEF FoldTable
<1> QED BY <1>4, <1>8

\* What the fold of a sequence gives: of nothing its start, of a longer
\* sequence one step more.
Folded(fold, seq) == (CHOOSE g : FoldTable(fold, seq, 1..Len(seq), g))[1..Len(seq)]

LEMMA FoldedFromTable ==
  ASSUME NEW S, NEW seq \in Seq(S), NEW fold, NEW g, FoldTable(fold, seq, 1..Len(seq), g)
  PROVE  Folded(fold, seq) = g[1..Len(seq)]
<1> DEFINE D == 1..Len(seq)
           h == CHOOSE h : FoldTable(fold, seq, D, h)
<1>1. Len(seq) \in Nat
  BY LenProperties
<1>2. FoldTable(fold, seq, D, h)
  OBVIOUS
<1>3. Folded(fold, seq) = h[D]
  BY DEF Folded
<1> HIDE DEF h
<1>4. g[D] = h[D]
  <2>1. D \in SUBSET (1..Len(seq)) /\ D \in SUBSET D /\ Agree(seq, seq, D)
    BY DEF Agree
  <2> HIDE DEF D
  <2>2. Agree(g, h, SUBSET D)
    BY <1>1, <1>2, <2>1, FoldTablesAgree DEF D
  <2> QED BY <2>2 DEF Agree
<1> QED BY <1>3, <1>4

LEMMA FoldedEmpty ==
  ASSUME NEW fold
  PROVE  Folded(fold, << >>) = Start(fold)
<1>1. << >> \in Seq({}) /\ Len(<< >>) = 0
  BY EmptySeq
<1>2. PICK g : FoldTable(fold, << >>, 1..0, g)
  BY FoldTableExists
<1>3. Folded(fold, << >>) = g[1..0]
  BY <1>1, <1>2, FoldedFromTable
<1>4. g[{}] = Start(fold) /\ 1..0 = {}
  BY <1>2 DEF FoldTable
<1> QED BY <1>3, <1>4

LEMMA FoldedAppend ==
  ASSUME NEW S, NEW seq \in Seq(S), NEW x \in S, NEW fold
  PROVE  Folded(fold, Append(seq, x)) = Step(fold, Folded(fold, seq), x)
<1> DEFINE longer == Append(seq, x)
           n == Len(seq)
<1>1. /\ n \in Nat /\ longer \in Seq(S) /\ Len(longer) = n + 1
      /\ longer[n + 1] = x /\ \A i \in 1..n : longer[i] = seq[i]
  BY AppendProperties, LenProperties
<1> HIDE DEF longer
<1>2. PICK g : FoldTable(fold, longer, 1..(n + 1), g)
  <2>1. n + 1 \in Nat
    BY <1>1
  <2> QED BY <2>1, FoldTableExists
<1>3. PICK h : FoldTable(fold, seq, 1..n, h)
  BY <1>1, FoldTableExists
<1>4. Folded(fold, longer) = g[1..(n + 1)] /\ Folded(fold, seq) = h[1..n]
  BY <1>1, <1>2, <1>3, FoldedFromTable
<1>5. Max(1..(n + 1)) = n + 1 /\ (1..(n + 1)) \ {n + 1} = 1..n
      /\ 1..(n + 1) # {} /\ 1..n \in SUBSET (1..(n + 1))
  BY <1>1, MaxOfInterval
<1>6. g[1..(n + 1)] = Step(fold, g[1..n], x)
  <2>1. g[1..(n + 1)] = Step(fold, g[(1..(n + 1)) \ {Max(1..(n + 1))}],
                           longer[Max(1..(n + 1))])
    BY <1>2, <1>5 DEF FoldTable
  <2> QED BY <1>1, <1>5, <2>1
<1>7. g[1..n] = h[1..n]
  <2>1. /\ n + 1 \in Nat /\ 1..(n + 1) \in SUBSET (1..(n + 1))
        /\ 1..n \in SUBSET (1..(n + 1)) /\ Agree(longer, seq, 1..n)
    BY <1>1 DEF Agree
  <2>2. Agree(g, h, SUBSET (1..n))
    BY <1>2, <1>3, <2>1, FoldTablesAgree
  <2> QED BY <2>2 DEF Agree
<1> QED BY <1>4, <1>6, <1>7 DEF longer

\* Parse takes the lines one after the other.
LEMMA ParseIsFolded ==
  ASSUME NEW S, NEW file \in Seq(S)
  PROVE  Parse(file) = Folded(OfLines, file)
<1> DEFINE D == 1..Len(file)
           Table(g) == [s \in SUBSET D |->
                          IF s = {} THEN << >> ELSE ParseLine(g[s \ {Max(s)}], file[Max(s)])]
           table == CHOOSE g : g = Table(g)
<1>1. DOMAIN file = D /\ Len(file) \in Nat
  BY LenProperties
<1>2. Parse(file) = table[D]
  BY <1>1 DEF Parse, FoldLeft, MapThenFoldSet
<1>3. ASSUME NEW g PROVE FoldTable(OfLines, file, D, g) <=> g = Table(g)
  <2>1. Start(OfLines) = << >> /\ \A groups, line : Step(OfLines, groups, line) = ParseLine(groups, line)
    BY DEF Start, Step, OfLines
  <2> QED BY <2>1 DEF FoldTable
<1>4. \E g : FoldTable(OfLines, file, D, g)
  BY <1>1, FoldTableExists
<1>5. \E g : g = Table(g)
  <2> HIDE DEF Table
  <2> QED BY <1>3, <1>4
<1>6. table = Table(table)
  <2> HIDE DEF Table
  <2> QED BY <1>5
<1>7. FoldTable(OfLines, file, D, table)
  <2> HIDE DEF Table, table
  <2> QED BY <1>3, <1>6
<1> HIDE DEF table
<1> QED BY <1>2, <1>7, FoldedFromTable

LEMMA ParseEmpty == Parse(<< >>) = << >>
<1>1. << >> \in Seq({})
  BY EmptySeq
<1> QED BY <1>1, ParseIsFolded, FoldedEmpty DEF Start, OfLines

LEMMA ParseAppend ==
  ASSUME NEW S, NEW file \in Seq(S), NEW line \in S
  PROVE  Parse(Append(file, line)) = ParseLine(Parse(file), line)
<1>1. Append(file, line) \in Seq(S)
  BY AppendProperties
<1>2. Folded(OfLines, Append(file, line)) = Step(OfLines, Folded(OfLines, file), line)
  BY FoldedAppend
<1>3. Step(OfLines, Folded(OfLines, file), line) = ParseLine(Folded(OfLines, file), line)
  BY DEF Step, OfLines
<1> QED BY <1>1, <1>2, <1>3, ParseIsFolded

-----------------------------------------------------------------------------
(* The groups of a file.  Line i falls into group own[i], the last group     *)
(* there is once it is parsed, or into none (0) before the first group.      *)

Group == [agents   : Seq(Agents),
          rules    : Seq([path : Patterns, allowed : BOOLEAN]),
          sitemaps : Seq(SitemapURLs)]

IsValued(line) == IsRule(line) /\ HasValue(line)

\* The lines that open or join a group, and whether one more line after the file
\* names one.
Opening(file) == {i \in DOMAIN file : file[i].key \in {"user-agent", "sitemap"}}
Opens(file, line) ==
  line.key = "user-agent" \/ (line.key = "sitemap" /\ Opening(file) = {})
NameOf(line) == IF line.key = "sitemap" THEN "*" ELSE line.value

RuleBetween(file, i, j) == \E k \in Valued(file) : i < k /\ k < j
NameBetween(file, i, j) == \E k \in Named(file) : i < k /\ k <= j

\* The line is the last name up to j.
Heads(file, i, j) == i \in Named(file) /\ i <= j /\ ~ NameBetween(file, i, j)

\* The count of groups and own fit the lines: two lines that name groups share
\* one if no rule with a value comes between them, and a line is in the group of
\* the name before it.
Grouped(file, count, own) ==
  /\ own \in [1..Len(file) -> 0..count]
  /\ \A i, j \in 1..Len(file) : i <= j => own[i] <= own[j]
  /\ IF Len(file) = 0 THEN count = 0 ELSE own[Len(file)] = count
  /\ count = 0 <=> Opening(file) = {}
  /\ \A i \in Named(file) : own[i] >= 1
  /\ \A i, j \in Named(file) :
       i < j => (own[i] = own[j] <=> ~ RuleBetween(file, i, j))
  /\ \A j \in 1..Len(file) :
       own[j] >= 1 => \E i \in 1..j : Heads(file, i, j) /\ own[i] = own[j]

RuleOf(line) == [path |-> line.value, allowed |-> line.key = "allow"]
AgentsOf(file, own, g) ==
  {NameOf(file[i]) : i \in {i \in Named(file) : own[i] = g}}
RulesOf(file, own, g) ==
  {RuleOf(file[j]) : j \in {j \in Valued(file) : own[j] = g}}

\* The groups hold the agents and the rules of the lines that fall into them.
Holds(file, own, groups) ==
  \A g \in 1..Len(groups) : /\ ToSet(groups[g].agents) = AgentsOf(file, own, g)
                            /\ ToSet(groups[g].rules) = RulesOf(file, own, g)

ParsedAs(file, own, groups) ==
  /\ groups \in Seq(Group)
  /\ Grouped(file, Len(groups), own)
  /\ Holds(file, own, groups)

\* One line more.
OwnLonger(own, n, count) == [i \in 1..(n + 1) |-> IF i = n + 1 THEN count ELSE own[i]]

\* The kinds of lines.
LEMMA LineKinds ==
  ASSUME NEW line \in Lines
  PROVE  /\ line.key \in {"user-agent", "allow", "disallow", "sitemap"}
         /\ line.key = "user-agent" => line.value \in Agents
         /\ IsRule(line) => line.value \in Patterns
         /\ line.key = "sitemap" => line.value \in SitemapURLs
         /\ line.key \in {"user-agent", "sitemap"} => NameOf(line) \in Agents
BY SpecificityAssumption DEF Lines, IsRule, NameOf

\* Where the names and the rules with a value are.
LEMMA PlacesOfLines ==
  ASSUME NEW file \in Seq(Lines)
  PROVE  /\ Len(file) \in Nat /\ DOMAIN file = 1..Len(file)
         /\ Named(file) \in SUBSET (1..Len(file)) /\ Valued(file) \in SUBSET (1..Len(file))
         /\ Named(file) \in SUBSET Opening(file) /\ Opening(file) \in SUBSET (1..Len(file))
         /\ Named(file) \intersect Valued(file) = {}
         /\ \A i \in Named(file) : file[i].key \in {"user-agent", "sitemap"}
         /\ \A j \in Valued(file) : IsRule(file[j]) /\ file[j].value \in Patterns
<1>1. Len(file) \in Nat /\ DOMAIN file = 1..Len(file)
  BY LenProperties
<1>2. \A i \in 1..Len(file) : file[i] \in Lines
  BY <1>1, ElementOfSeq
<1>3. Named(file) \in SUBSET Opening(file)
  BY DEF Named, Opening, AgentLines, OpensForAll
<1>4. \A i \in Opening(file) : i \in 1..Len(file) /\ file[i].key \in {"user-agent", "sitemap"}
  BY <1>1 DEF Opening
<1>5. \A j \in Valued(file) : j \in 1..Len(file) /\ IsRule(file[j])
  BY <1>1 DEF Valued, RuleLines
<1>6. \A j \in Valued(file) : file[j].value \in Patterns
  BY <1>2, <1>5, LineKinds
<1>7. Named(file) \intersect Valued(file) = {}
  BY <1>3, <1>4, <1>5 DEF IsRule
<1> QED BY <1>1, <1>3, <1>4, <1>5, <1>6, <1>7

LEMMA LongerFile ==
  ASSUME NEW file \in Seq(Lines), NEW line \in Lines
  PROVE  LET n == Len(file)
             longer == Append(file, line)
         IN  /\ n \in Nat /\ DOMAIN file = 1..n /\ DOMAIN longer = 1..(n + 1)
             /\ longer \in Seq(Lines) /\ Len(longer) = n + 1
             /\ longer[n + 1] = line
             /\ \A i \in 1..n : longer[i] = file[i]
             /\ Named(longer) = Named(file) \union {i \in {n + 1} : Opens(file, line)}
             /\ Valued(longer) = Valued(file) \union {i \in {n + 1} : IsValued(line)}
             /\ Opening(longer) = {} <=> Opening(file) = {} /\ ~ Opens(file, line)
<1> DEFINE n == Len(file)
           longer == Append(file, line)
<1>1. /\ n \in Nat /\ DOMAIN file = 1..n /\ longer \in Seq(Lines)
      /\ Len(longer) = n + 1 /\ longer[n + 1] = line
      /\ \A i \in 1..n : longer[i] = file[i]
  BY AppendProperties, LenProperties
<1>2. DOMAIN longer = 1..(n + 1)
  BY <1>1, LenProperties
<1> HIDE DEF n, longer
<1>3. 1..(n + 1) = 1..n \union {n + 1} /\ n + 1 \notin 1..n
  BY <1>1
<1>4. AgentLines(longer) = AgentLines(file) \union {i \in {n + 1} : line.key = "user-agent"}
  BY <1>1, <1>2, <1>3 DEF AgentLines
<1>5. ASSUME NEW i \in 1..n PROVE OpensForAll(longer, i) <=> OpensForAll(file, i)
  BY <1>1, <1>2, <1>3, <1>5 DEF OpensForAll
<1>6. OpensForAll(longer, n + 1) <=> line.key = "sitemap" /\ Opening(file) = {}
  <2>1. \A k \in 1..n : k < n + 1
    BY <1>1
  <2>2. OpensForAll(longer, n + 1) <=>
          /\ line.key = "sitemap"
          /\ \A k \in 1..n : file[k].key \notin {"user-agent", "sitemap"}
    <3>1. ~ n + 1 < n + 1
      BY <1>1
    <3> QED BY <1>1, <1>2, <1>3, <2>1, <3>1 DEF OpensForAll
  <2> QED BY <1>1, <2>2 DEF Opening
<1>7. Named(longer) = Named(file) \union {i \in {n + 1} : Opens(file, line)}
  <2>1. {i \in 1..(n + 1) : OpensForAll(longer, i)} =
          {i \in 1..n : OpensForAll(file, i)}
            \union {i \in {n + 1} : line.key = "sitemap" /\ Opening(file) = {}}
    BY <1>3, <1>5, <1>6
  <2> QED BY <1>1, <1>2, <1>4, <2>1 DEF Named, Opens
<1>8. Valued(longer) = Valued(file) \union {i \in {n + 1} : IsValued(line)}
  BY <1>1, <1>2, <1>3 DEF Valued, RuleLines, IsValued
<1>9. Opening(longer) = {} <=> Opening(file) = {} /\ ~ Opens(file, line)
  <2>1. Opening(longer) = Opening(file) \union
          {i \in {n + 1} : line.key \in {"user-agent", "sitemap"}}
    BY <1>1, <1>2, <1>3 DEF Opening
  <2> QED BY <2>1 DEF Opens
<1> QED BY <1>1, <1>2, <1>7, <1>8, <1>9 DEF n, longer

\* The next line keeps the grouping, if what it does to the count of groups
\* fits the rules before it.
LEMMA GroupedLonger ==
  ASSUME NEW file \in Seq(Lines), NEW line \in Lines, NEW count \in Nat, NEW own,
         Grouped(file, count, own), NEW next \in Nat, next \in {count, count + 1},
         IF ~ Opens(file, line) THEN next = count
         ELSE next >= 1 /\ \A i \in Named(file) :
                own[i] = next <=> ~ RuleBetween(file, i, Len(file) + 1)
  PROVE  Grouped(Append(file, line), next, OwnLonger(own, Len(file), next))
<1> DEFINE n == Len(file)
           longer == Append(file, line)
           after == OwnLonger(own, n, next)
<1>1. /\ n \in Nat /\ DOMAIN file = 1..n /\ Len(longer) = n + 1
      /\ Named(longer) = Named(file) \union
           {i \in {n + 1} : Opens(file, line)}
      /\ Valued(longer) = Valued(file) \union {i \in {n + 1} : IsValued(line)}
  BY LongerFile
<1>2. Named(file) \in SUBSET (1..n) /\ Valued(file) \in SUBSET (1..n)
  BY PlacesOfLines
<1>3. own \in [1..n -> 0..count]
  BY DEF Grouped
<1>4. \A i, j \in 1..n : i <= j => own[i] <= own[j]
  BY DEF Grouped
<1>5. IF n = 0 THEN count = 0 ELSE own[n] = count
  BY DEF Grouped
<1>6. \A i \in Named(file) : own[i] >= 1
  BY DEF Grouped
<1>7. \A i, j \in Named(file) : i < j => (own[i] = own[j] <=> ~ RuleBetween(file, i, j))
  BY DEF Grouped
<1>8. \A j \in 1..n : own[j] >= 1 => \E i \in 1..j : Heads(file, i, j) /\ own[i] = own[j]
  BY DEF Grouped
<1>9. /\ after[n + 1] = next
      /\ \A i \in 1..n : after[i] = own[i] /\ own[i] \in 0..count
      /\ 1..(n + 1) = 1..n \union {n + 1}
  BY <1>1, <1>3 DEF OwnLonger
<1>10. after \in [1..(n + 1) -> 0..next]
  BY <1>1, <1>3 DEF OwnLonger
<1> HIDE DEF n, longer, after
<1>11. \A i, j \in 1..(n + 1) : i <= j => after[i] <= after[j]
  <2> SUFFICES ASSUME NEW i \in 1..(n + 1), NEW j \in 1..(n + 1), i <= j
               PROVE  after[i] <= after[j]
    OBVIOUS
  <2>1. CASE j = n + 1
    BY <1>1, <1>9, <1>10, <2>1
  <2>2. CASE j # n + 1
    <3>1. i \in 1..n /\ j \in 1..n
      BY <1>1, <2>2
    <3> QED BY <1>4, <1>9, <3>1
  <2> QED BY <2>1, <2>2
<1>12. \A i \in Named(longer) : after[i] >= 1
  <2> SUFFICES ASSUME NEW i \in Named(longer) PROVE after[i] >= 1
    OBVIOUS
  <2>1. CASE i \in Named(file)
    BY <1>2, <1>6, <1>9, <2>1
  <2>2. CASE i = n + 1 /\ Opens(file, line)
    BY <1>9, <2>2
  <2> QED BY <1>1, <2>1, <2>2
<1>13. ASSUME NEW i, NEW j \in 1..(n + 1)
       PROVE  RuleBetween(longer, i, j) <=> RuleBetween(file, i, j)
  BY <1>1, <1>2 DEF RuleBetween
<1>14. \A i, j \in Named(longer) :
         i < j => (after[i] = after[j] <=> ~ RuleBetween(longer, i, j))
  <2> SUFFICES ASSUME NEW i \in Named(longer), NEW j \in Named(longer), i < j
               PROVE  after[i] = after[j] <=> ~ RuleBetween(file, i, j)
    BY <1>1, <1>2, <1>9, <1>13
  <2>1. i \in Named(file)
    BY <1>1, <1>2
  <2>2. CASE j \in Named(file)
    BY <1>2, <1>7, <1>9, <2>1, <2>2
  <2>3. CASE j = n + 1 /\ Opens(file, line)
    BY <1>2, <1>9, <2>1, <2>3 DEF n
  <2> QED BY <1>1, <2>2, <2>3
<1>15. ASSUME NEW j \in 1..(n + 1), after[j] >= 1
       PROVE  \E i \in 1..j : Heads(longer, i, j) /\ after[i] = after[j]
  <2>1. ASSUME NEW i \in 1..n, NEW k \in 1..n, i <= k, Heads(file, i, k)
        PROVE  Heads(longer, i, k)
    BY <1>1, <1>2, <2>1 DEF Heads, NameBetween
  <2>2. CASE j \in 1..n
    <3>1. PICK i \in 1..j : Heads(file, i, j) /\ own[i] = own[j]
      BY <1>8, <1>9, <1>15, <2>2
    <3>2. i \in 1..n /\ i <= j
      BY <1>1, <2>2
    <3> QED BY <1>9, <2>1, <2>2, <3>1, <3>2
  <2>3. CASE j = n + 1 /\ Opens(file, line)
    <3>1. Heads(longer, j, j)
      BY <1>1, <1>2, <2>3 DEF Heads, NameBetween
    <3> QED BY <1>1, <2>3, <3>1
  <2>4. CASE j = n + 1 /\ ~ Opens(file, line)
    <3>1. next = count /\ count >= 1 /\ n # 0 /\ n \in 1..n /\ own[n] = count
      BY <1>1, <1>5, <1>9, <1>15, <2>4
    <3>2. PICK i \in 1..n : Heads(file, i, n) /\ own[i] = count
      BY <1>8, <3>1
    <3>3. Named(longer) = Named(file)
      BY <1>1, <2>4
    <3>4. Heads(longer, i, n + 1)
      BY <1>1, <1>2, <3>2, <3>3 DEF Heads, NameBetween
    <3>5. i \in 1..j /\ after[i] = after[j]
      BY <1>1, <1>9, <2>4, <3>1, <3>2
    <3> QED BY <2>4, <3>4, <3>5
  <2> QED BY <1>9, <2>2, <2>3, <2>4
<1>16. IF Len(longer) = 0 THEN next = 0 ELSE after[Len(longer)] = next
  BY <1>1, <1>9
<1>17. next = 0 <=> Opening(longer) = {}
  <2>1. count = 0 <=> Opening(file) = {}
    BY DEF Grouped
  <2>2. Opening(longer) = {} <=> Opening(file) = {} /\ ~ Opens(file, line)
    BY LongerFile DEF longer
  <2> QED BY <2>1, <2>2
<1> QED
  <2>1. Grouped(longer, next, after)
    BY <1>1, <1>10, <1>11, <1>12, <1>14, <1>15, <1>16, <1>17 DEF Grouped
  <2> QED BY <2>1 DEF longer, after, n

\* What the agents and the rules of a group become with one line more.
LEMMA ContentsLonger ==
  ASSUME NEW file \in Seq(Lines), NEW line \in Lines, NEW own, NEW next, NEW g
  PROVE  LET n == Len(file)
             longer == Append(file, line)
             after == OwnLonger(own, n, next)
         IN  /\ AgentsOf(longer, after, g) = AgentsOf(file, own, g) \union
                  (IF Opens(file, line) /\ next = g THEN {NameOf(line)} ELSE {})
             /\ RulesOf(longer, after, g) = RulesOf(file, own, g) \union
                  (IF IsValued(line) /\ next = g THEN {RuleOf(line)} ELSE {})
<1> DEFINE n == Len(file)
           longer == Append(file, line)
           after == OwnLonger(own, n, next)
<1>1. /\ n \in Nat /\ DOMAIN file = 1..n
      /\ longer[n + 1] = line
      /\ \A i \in 1..n : longer[i] = file[i]
      /\ Named(longer) = Named(file) \union
           {i \in {n + 1} : Opens(file, line)}
      /\ Valued(longer) = Valued(file) \union {i \in {n + 1} : IsValued(line)}
  BY LongerFile
<1>2. Named(file) \in SUBSET (1..n) /\ Valued(file) \in SUBSET (1..n)
  BY PlacesOfLines
<1>3. after[n + 1] = next /\ \A i \in 1..n : after[i] = own[i]
  BY <1>1 DEF OwnLonger
<1> HIDE DEF n, longer, after
<1>4. AgentsOf(longer, after, g) = AgentsOf(file, own, g) \union
        (IF Opens(file, line) /\ next = g THEN {NameOf(line)} ELSE {})
  BY <1>1, <1>2, <1>3 DEF AgentsOf
<1>5. RulesOf(longer, after, g) = RulesOf(file, own, g) \union
        (IF IsValued(line) /\ next = g THEN {RuleOf(line)} ELSE {})
  BY <1>1, <1>2, <1>3 DEF RulesOf
<1> QED BY <1>4, <1>5 DEF n, longer, after

LEMMA SetOfLonger ==
  ASSUME NEW S, NEW seq \in Seq(S), NEW x \in S
  PROVE  ToSet(Append(seq, x)) = ToSet(seq) \union {x}
<1>1. /\ Len(seq) \in Nat /\ DOMAIN seq = 1..Len(seq)
      /\ DOMAIN Append(seq, x) = 1..(Len(seq) + 1)
  BY AppendProperties, LenProperties
<1>2. 1..(Len(seq) + 1) = 1..Len(seq) \union {Len(seq) + 1}
  BY <1>1
<1>3. Append(seq, x)[Len(seq) + 1] = x /\ \A i \in 1..Len(seq) : Append(seq, x)[i] = seq[i]
  BY AppendProperties
<1> QED BY <1>1, <1>2, <1>3 DEF ToSet

LEMMA EmptyGroup ==
  /\ NewGroup(<< >>) \in Group
  /\ NewGroup(<< >>).agents = << >> /\ NewGroup(<< >>).rules = << >>
<1>1. /\ << >> \in Seq(Agents) /\ << >> \in Seq(SitemapURLs)
      /\ << >> \in Seq([path : Patterns, allowed : BOOLEAN])
  BY EmptySeq
<1> QED BY <1>1 DEF Group, NewGroup

\* Only the last group changes.
LEMMA LastReplaced ==
  ASSUME NEW groups \in Seq(Group), groups # << >>, NEW g \in Group
  PROVE  /\ Len(groups) \in Nat \ {0} /\ Last(groups) = groups[Len(groups)]
         /\ Last(groups) \in Group
         /\ Append(Front(groups), g) \in Seq(Group)
         /\ Len(Append(Front(groups), g)) = Len(groups)
         /\ Append(Front(groups), g)[Len(groups)] = g
         /\ \A i \in 1..Len(groups) : i # Len(groups) => Append(Front(groups), g)[i] = groups[i]
<1> DEFINE n == Len(groups)
           front == Front(groups)
<1>1. n \in Nat \ {0} /\ \A i \in 1..n : groups[i] \in Group
  BY EmptySeq, ElementOfSeq
<1>2. \A i \in 1..(n - 1) : groups[i] \in Group
  BY <1>1
<1>3. /\ front \in Seq(Group) /\ Len(front) = n - 1
      /\ \A i \in 1..(n - 1) : front[i] = groups[i]
  <2>1. 1 \in Int /\ n - 1 \in Int
    BY <1>1
  <2> HIDE DEF n
  <2>2. /\ SubSeq(groups, 1, n - 1) \in Seq(Group)
        /\ Len(SubSeq(groups, 1, n - 1)) = IF 1 <= n - 1 THEN (n - 1) - 1 + 1 ELSE 0
        /\ \A i \in 1..((n - 1) - 1 + 1) : SubSeq(groups, 1, n - 1)[i] = groups[1 + i - 1]
    BY <1>2, <2>1, SubSeqProperties
  <2>3. front = SubSeq(groups, 1, n - 1)
    BY DEF Front, n
  <2> HIDE DEF front
  <2>4. Len(front) = n - 1
    BY <1>1, <2>2, <2>3
  <2>5. ASSUME NEW i \in 1..(n - 1) PROVE front[i] = groups[i]
    <3>1. i \in 1..((n - 1) - 1 + 1) /\ 1 + i - 1 = i
      BY <1>1
    <3> QED BY <2>2, <2>3, <3>1
  <2> QED BY <2>2, <2>3, <2>4, <2>5
<1>4. Last(groups) = groups[n] /\ Last(groups) \in Group
  BY <1>1 DEF Last
<1> HIDE DEF n, front
<1>5. /\ Append(front, g) \in Seq(Group) /\ Len(Append(front, g)) = n
      /\ Append(front, g)[n] = g
      /\ \A i \in 1..(n - 1) : Append(front, g)[i] = groups[i]
  BY <1>1, <1>3, AppendProperties
<1>6. \A i \in 1..n : i # n => i \in 1..(n - 1)
  BY <1>1
<1> QED BY <1>1, <1>4, <1>5, <1>6 DEF n, front

\* A line that falls into the last group, which becomes h.
LEMMA LastGroupTakes ==
  ASSUME NEW file \in Seq(Lines), NEW line \in Lines, NEW own,
         NEW groups \in Seq(Group), groups # << >>, Holds(file, own, groups),
         NEW h \in Group,
         ToSet(h.agents) = ToSet(Last(groups).agents) \union
           (IF Opens(file, line) THEN {NameOf(line)} ELSE {}),
         ToSet(h.rules) = ToSet(Last(groups).rules) \union
           (IF IsValued(line) THEN {RuleOf(line)} ELSE {}),
         Grouped(Append(file, line), Len(groups), OwnLonger(own, Len(file), Len(groups)))
  PROVE  ParsedAs(Append(file, line), OwnLonger(own, Len(file), Len(groups)),
                  Append(Front(groups), h))
<1> DEFINE longer == Append(file, line)
           count == Len(groups)
           after == OwnLonger(own, Len(file), count)
           result == Append(Front(groups), h)
<1>1. /\ count \in Nat \ {0} /\ Last(groups) = groups[count]
      /\ result \in Seq(Group) /\ Len(result) = count /\ result[count] = h
      /\ \A i \in 1..count : i # count => result[i] = groups[i]
  BY LastReplaced
<1>2. \A g : /\ AgentsOf(longer, after, g) = AgentsOf(file, own, g) \union
                  (IF Opens(file, line) /\ count = g THEN {NameOf(line)} ELSE {})
             /\ RulesOf(longer, after, g) = RulesOf(file, own, g) \union
                  (IF IsValued(line) /\ count = g THEN {RuleOf(line)} ELSE {})
  BY ContentsLonger
<1>3. \A g \in 1..count : /\ ToSet(groups[g].agents) = AgentsOf(file, own, g)
                          /\ ToSet(groups[g].rules) = RulesOf(file, own, g)
  BY DEF Holds
<1>4. Grouped(longer, count, after)
  OBVIOUS
<1> HIDE DEF longer, count, after, result
<1>5. ASSUME NEW g \in 1..count
      PROVE  /\ ToSet(result[g].agents) = AgentsOf(longer, after, g)
             /\ ToSet(result[g].rules) = RulesOf(longer, after, g)
  <2>1. CASE g = count
    <3>1. /\ result[g] = h /\ ToSet(Last(groups).agents) = AgentsOf(file, own, g)
          /\ ToSet(Last(groups).rules) = RulesOf(file, own, g)
      BY <1>1, <1>3, <2>1
    <3>2. ToSet(result[g].agents) = AgentsOf(longer, after, g)
      BY <1>2, <2>1, <3>1
    <3>3. ToSet(result[g].rules) = RulesOf(longer, after, g)
      BY <1>2, <2>1, <3>1
    <3> QED BY <3>2, <3>3
  <2>2. CASE g # count
    <3>1. result[g] = groups[g]
      BY <1>1, <2>2
    <3>2. ToSet(result[g].agents) = AgentsOf(longer, after, g)
      BY <1>2, <1>3, <2>2, <3>1
    <3>3. ToSet(result[g].rules) = RulesOf(longer, after, g)
      BY <1>2, <1>3, <2>2, <3>1
    <3> QED BY <3>2, <3>3
  <2> QED BY <2>1, <2>2
<1>6. ParsedAs(longer, after, result)
  BY <1>1, <1>4, <1>5 DEF ParsedAs, Holds
<1> QED BY <1>6 DEF longer, after, result, count

LEMMA AgentFallsIn ==
  ASSUME NEW file \in Seq(Lines), NEW line \in Lines, line.key = "user-agent",
         NEW own, NEW groups, ParsedAs(file, own, groups)
  PROVE  \E after : ParsedAs(Append(file, line), after, ParseLine(groups, line))
<1> DEFINE n == Len(file)
           longer == Append(file, line)
           count == Len(groups)
           joins == groups # << >> /\ Last(groups).rules = << >>
           open == IF joins THEN groups ELSE Append(groups, NewGroup(<< >>))
           h == [Last(open) EXCEPT !.agents = Append(@, line.value)]
<1>1. /\ n \in Nat /\ DOMAIN file = 1..n /\ DOMAIN longer = 1..(n + 1)
      /\ longer[n + 1] = line
      /\ \A i \in 1..n : longer[i] = file[i]
      /\ Named(longer) = Named(file) \union
           {i \in {n + 1} : Opens(file, line)}
      /\ Valued(longer) = Valued(file) \union {i \in {n + 1} : IsValued(line)}
  BY LongerFile
<1>2. Named(file) \in SUBSET (1..n) /\ Valued(file) \in SUBSET (1..n)
  BY PlacesOfLines
<1>3. groups \in Seq(Group) /\ count \in Nat /\ Grouped(file, count, own)
      /\ Holds(file, own, groups) /\ own \in [1..n -> 0..count]
  BY LenProperties DEF ParsedAs, Grouped
<1>4. /\ open \in Seq(Group) /\ open # << >> /\ Len(open) \in Nat
      /\ Len(open) = IF joins THEN count ELSE count + 1
  BY <1>3, EmptyGroup, AppendProperties, LenProperties
<1>5. Holds(file, own, open)
  <2>1. CASE joins
    BY <1>3, <2>1
  <2>2. CASE ~ joins
    <3>1. AgentsOf(file, own, count + 1) = {} /\ RulesOf(file, own, count + 1) = {}
      BY <1>2, <1>3 DEF AgentsOf, RulesOf
    <3>2. /\ Len(open) = count + 1 /\ open[count + 1] = NewGroup(<< >>)
          /\ \A g \in 1..count : open[g] = groups[g]
      BY <1>3, <2>2, EmptyGroup, AppendProperties
    <3>3. ToSet(<< >>) = {}
      BY DEF ToSet
    <3>4. \A g \in 1..(count + 1) : g = count + 1 \/ g \in 1..count
      BY <1>3
    <3> HIDE DEF open, count, joins
    <3> QED BY <1>3, <3>1, <3>2, <3>3, <3>4, EmptyGroup DEF Holds, count
  <2> QED BY <2>1, <2>2
<1>6. Grouped(longer, Len(open), OwnLonger(own, n, Len(open)))
  <2>1. \A i, j \in 1..n : i <= j => own[i] <= own[j]
    BY <1>3 DEF Grouped
  <2>2. \A i \in Named(file) : own[i] >= 1
    BY <1>3 DEF Grouped
  <2>3. \A i, j \in Named(file) :
          i < j => (own[i] = own[j] <=> ~ RuleBetween(file, i, j))
    BY <1>3 DEF Grouped
  <2>4. \A j \in 1..n : own[j] >= 1 => \E i \in 1..j : Heads(file, i, j) /\ own[i] = own[j]
    BY <1>3 DEF Grouped
  <2>5. IF n = 0 THEN count = 0 ELSE own[n] = count
    BY <1>3 DEF Grouped
  <2>6. count > 0 => groups # << >> /\ Last(groups) = groups[count]
                     /\ ToSet(groups[count].rules) = RulesOf(file, own, count)
    BY <1>3, EmptySeq DEF Holds, Last
  <2>7. CASE joins
    <3>1. count > 0 /\ RulesOf(file, own, count) = {}
      <4>1. count > 0
        BY <1>3, <2>7, EmptySeq
      <4>2. ToSet(<< >>) = {}
        BY DEF ToSet
      <4> QED BY <2>6, <2>7, <4>1, <4>2
    <3>2. ASSUME NEW i \in Named(file), own[i] = count, RuleBetween(file, i, n + 1)
          PROVE  FALSE
      <4>1. PICK k \in Valued(file) : i < k /\ k < n + 1
        BY <3>2 DEF RuleBetween
      <4>2. k \in 1..n /\ i \in 1..n /\ i <= k
        BY <1>1, <1>2, <4>1
      <4>3. own[k] = count
        BY <1>3, <2>1, <3>2, <4>2
      <4> QED BY <3>1, <4>1, <4>3 DEF RulesOf
    <3>3. ASSUME NEW i \in Named(file), ~ RuleBetween(file, i, n + 1)
          PROVE  own[i] = count
      <4>1. n \in 1..n /\ own[n] = count /\ i \in 1..n
        BY <1>1, <1>2, <2>5
      <4>2. PICK l \in 1..n : Heads(file, l, n) /\ own[l] = count
        BY <2>4, <3>1, <4>1
      <4>3. l \in Named(file) /\ l >= i
        BY <1>1, <4>1, <4>2 DEF Heads, NameBetween
      <4>4. CASE l # i
        <5>1. ~ RuleBetween(file, i, l)
          BY <1>1, <1>2, <3>3, <4>2 DEF RuleBetween
        <5> QED BY <1>2, <2>3, <4>1, <4>2, <4>3, <4>4, <5>1
      <4> QED BY <4>2, <4>4
    <3>4. Len(open) = count
      BY <1>4, <2>7
    <3> HIDE DEF n, longer, count, joins, open
    <3>5. \A i \in Named(file) : own[i] = count <=> ~ RuleBetween(file, i, n + 1)
      BY <3>2, <3>3
    <3>6. count >= 1
      BY <1>3, <3>1
    <3> QED BY <1>3, <3>4, <3>5, <3>6, GroupedLonger DEF n, longer, Opens
  <2>8. CASE ~ joins
    <3>1. ASSUME NEW i \in Named(file) PROVE RuleBetween(file, i, n + 1)
      <4>1. i \in 1..n /\ own[i] >= 1 /\ own[i] <= count /\ count > 0
        BY <1>1, <1>2, <1>3, <2>2
      <4>2. groups[count].rules # << >> /\ count \in 1..count
        BY <1>3, <2>6, <2>8, <4>1
      <4>3. groups[count] \in Group
        BY <1>3, <4>2, ElementOfSeq
      <4>4. ToSet(groups[count].rules) # {}
        <5>1. groups[count].rules \in Seq([path : Patterns, allowed : BOOLEAN])
          BY <4>3 DEF Group
        <5>2. /\ Len(groups[count].rules) \in Nat \ {0}
              /\ DOMAIN groups[count].rules = 1..Len(groups[count].rules)
          BY <4>2, <5>1, EmptySeq, LenProperties
        <5>3. 1 \in DOMAIN groups[count].rules
          BY <5>2
        <5> QED BY <5>3 DEF ToSet
      <4>5. PICK k \in Valued(file) : own[k] = count
        BY <2>6, <4>1, <4>4 DEF RulesOf
      <4>6. CASE i < k
        BY <1>1, <1>2, <4>5, <4>6 DEF RuleBetween
      <4>7. CASE k < i
        <5>1. k \in 1..n /\ own[i] = count
          BY <1>2, <1>3, <2>1, <4>1, <4>5, <4>7
        <5>2. PICK l \in 1..k : Heads(file, l, k) /\ own[l] = count
          BY <2>4, <4>1, <4>5, <5>1
        <5>3. l \in Named(file) /\ l < k
          BY <1>1, <1>2, <4>5, <5>1, <5>2, PlacesOfLines DEF Heads
        <5>4. RuleBetween(file, l, i)
          BY <4>7, <5>3 DEF RuleBetween
        <5> QED BY <1>2, <2>3, <4>7, <5>1, <5>2, <5>3, <5>4
      <4>8. i # k
        BY <4>5, PlacesOfLines
      <4> QED BY <1>2, <4>1, <4>5, <4>6, <4>7, <4>8
    <3>2. ASSUME NEW i \in Named(file) PROVE own[i] # count + 1
      BY <1>2, <1>3
    <3>3. Len(open) = count + 1
      BY <1>4, <2>8
    <3> HIDE DEF n, longer, count, joins, open
    <3>4. \A i \in Named(file) : own[i] = count + 1 <=> ~ RuleBetween(file, i, n + 1)
      BY <3>1, <3>2
    <3>5. count + 1 \in Nat /\ count + 1 >= 1
      BY <1>3
    <3> QED BY <1>3, <3>3, <3>4, <3>5, GroupedLonger DEF n, longer, Opens
  <2> QED BY <2>7, <2>8
<1>7. /\ h \in Group /\ h.rules = Last(open).rules
      /\ ToSet(h.agents) = ToSet(Last(open).agents) \union {line.value}
  <2>1. Last(open) \in Group
    BY <1>4, EmptyGroup, LastReplaced
  <2>2. line.value \in Agents
    BY LineKinds
  <2> HIDE DEF open
  <2>3. Last(open).agents \in Seq(Agents)
    BY <2>1 DEF Group
  <2>4. /\ Append(Last(open).agents, line.value) \in Seq(Agents)
        /\ ToSet(Append(Last(open).agents, line.value)) =
             ToSet(Last(open).agents) \union {line.value}
    BY <2>2, <2>3, AppendProperties, SetOfLonger
  <2> QED BY <2>1, <2>4 DEF Group
<1>8. Opens(file, line) /\ NameOf(line) = line.value /\ ~ IsRule(line) /\ ~ IsValued(line)
  BY DEF Opens, NameOf, IsRule, IsValued
<1>9. ParseLine(groups, line) = Append(Front(open), h)
  <2>1. ParseLine(groups, line) = AddAgent(groups, line.value)
    BY <1>8 DEF ParseLine
  <2>2. AddAgent(groups, line.value) = ToLast(open, LAMBDA g : [g EXCEPT !.agents = Append(@, line.value)])
    BY DEF AddAgent
  <2> HIDE DEF open
  <2>3. ToLast(open, LAMBDA g : [g EXCEPT !.agents = Append(@, line.value)]) = Append(Front(open), h)
    BY <1>4 DEF ToLast
  <2> QED BY <2>1, <2>2, <2>3
<1>10. ParsedAs(longer, OwnLonger(own, n, Len(open)), Append(Front(open), h))
  <2> HIDE DEF open, h
  <2> QED BY <1>4, <1>5, <1>6, <1>7, <1>8, LastGroupTakes
<1> QED BY <1>9, <1>10

LEMMA RuleFallsIn ==
  ASSUME NEW file \in Seq(Lines), NEW line \in Lines, IsRule(line),
         NEW own, NEW groups, ParsedAs(file, own, groups)
  PROVE  \E after : ParsedAs(Append(file, line), after, ParseLine(groups, line))
<1> DEFINE longer == Append(file, line)
           count == Len(groups)
           after == OwnLonger(own, Len(file), count)
           wanted == HasValue(line)
           rule == RuleOf(line)
           h == [Last(groups) EXCEPT !.rules = Append(@, rule)]
<1>1. /\ groups \in Seq(Group) /\ count \in Nat /\ Grouped(file, count, own)
      /\ Holds(file, own, groups) /\ line.key # "user-agent" /\ line.key # "sitemap"
      /\ ~ Opens(file, line) /\ (IsValued(line) <=> wanted)
  BY LenProperties DEF ParsedAs, IsRule, IsValued, Opens
<1>2. Grouped(longer, count, after)
  <2>1. count \in {count, count + 1}
    OBVIOUS
  <2> HIDE DEF count
  <2> QED BY <1>1, <2>1, GroupedLonger
<1>3. ParseLine(groups, line) = AddRule(groups, line)
  BY <1>1 DEF ParseLine
<1>4. CASE groups = << >>
  <2>1. ParseLine(groups, line) = groups
    BY <1>3, <1>4 DEF AddRule, ToLast
  <2>2. count = 0
    BY <1>4
  <2>3. ParsedAs(longer, after, groups)
    <3> HIDE DEF after
    <3> QED BY <1>1, <1>2, <2>2 DEF ParsedAs, Holds
  <2> QED BY <2>1, <2>3
<1>5. CASE groups # << >> /\ ~ wanted
  <2>1. ParseLine(groups, line) = groups
    BY <1>3, <1>5 DEF AddRule
  <2>2. \A g : /\ AgentsOf(longer, after, g) = AgentsOf(file, own, g)
               /\ RulesOf(longer, after, g) = RulesOf(file, own, g)
    <3> TAKE g
    <3>1. /\ AgentsOf(longer, after, g) = AgentsOf(file, own, g) \union
               (IF Opens(file, line) /\ count = g THEN {NameOf(line)} ELSE {})
          /\ RulesOf(longer, after, g) = RulesOf(file, own, g) \union
               (IF IsValued(line) /\ count = g THEN {RuleOf(line)} ELSE {})
      BY ContentsLonger
    <3> HIDE DEF longer, after, wanted
    <3> QED BY <1>1, <1>5, <3>1
  <2>3. ParsedAs(longer, after, groups)
    <3> HIDE DEF longer, after
    <3> QED BY <1>1, <1>2, <2>2 DEF ParsedAs, Holds
  <2> QED BY <2>1, <2>3
<1>6. CASE groups # << >> /\ wanted
  <2>1. Last(groups) \in Group
    BY <1>1, <1>6, EmptyGroup, LastReplaced
  <2>2. rule \in [path : Patterns, allowed : BOOLEAN]
    BY LineKinds DEF RuleOf
  <2>3. Last(groups).rules \in Seq([path : Patterns, allowed : BOOLEAN])
    BY <2>1 DEF Group
  <2>4. /\ Append(Last(groups).rules, rule) \in Seq([path : Patterns, allowed : BOOLEAN])
        /\ ToSet(Append(Last(groups).rules, rule)) = ToSet(Last(groups).rules) \union {rule}
    <3> DEFINE R == [path : Patterns, allowed : BOOLEAN]
               before == Last(groups).rules
    <3>1. rule \in R /\ before \in Seq(R)
      BY <2>2, <2>3
    <3> HIDE DEF rule, R, before
    <3>2. /\ Append(before, rule) \in Seq(R)
          /\ ToSet(Append(before, rule)) = ToSet(before) \union {rule}
      BY <3>1, AppendProperties, SetOfLonger
    <3> QED BY <3>2 DEF R, before
  <2>5. /\ h \in Group /\ h.agents = Last(groups).agents
        /\ ToSet(h.rules) = ToSet(Last(groups).rules) \union {rule}
    <3> HIDE DEF rule
    <3> QED BY <2>1, <2>4 DEF Group
  <2>6. ParseLine(groups, line) = Append(Front(groups), h)
    <3>1. AddRule(groups, line) =
            ToLast(groups, LAMBDA g : [g EXCEPT !.rules = Append(@, rule)])
      BY <1>6 DEF AddRule, RuleOf
    <3>2. ToLast(groups, LAMBDA g : [g EXCEPT !.rules = Append(@, rule)]) =
            Append(Front(groups), h)
      BY <1>6 DEF ToLast
    <3> QED BY <1>3, <3>1, <3>2
  <2>7. ParsedAs(longer, after, Append(Front(groups), h))
    <3> HIDE DEF h
    <3> QED BY <1>1, <1>2, <1>6, <2>5, LastGroupTakes
  <2> QED BY <2>6, <2>7
<1> QED BY <1>4, <1>5, <1>6

\* Sequences of one.
LEMMA SingletonSeq ==
  ASSUME NEW S, NEW x \in S
  PROVE  <<x>> \in Seq(S) /\ Len(<<x>>) = 1
OBVIOUS

LEMMA FrontOfOne ==
  ASSUME NEW S, NEW x \in S
  PROVE  Front(<<x>>) = << >>
<1>1. <<x>> = Append(<< >>, x) /\ << >> \in Seq(S)
  BY EmptySeq
<1> QED BY <1>1, SingletonSeq, AppendProperties DEF Front

\* A sitemap goes to the last group; the first of a file without a group opens
\* one.
LEMMA SitemapFallsIn ==
  ASSUME NEW file \in Seq(Lines), NEW line \in Lines, line.key = "sitemap",
         NEW own, NEW groups, ParsedAs(file, own, groups)
  PROVE  \E after : ParsedAs(Append(file, line), after, ParseLine(groups, line))
<1> DEFINE n == Len(file)
           longer == Append(file, line)
           count == Len(groups)
           new == NewGroup(<<"*">>)
           open == IF groups = << >> THEN <<new>> ELSE groups
           plain == IF groups = << >> THEN <<NewGroup(<< >>)>> ELSE groups
           h == [Last(open) EXCEPT !.sitemaps = Append(@, line.value)]
           after == OwnLonger(own, n, Len(open))
<1>1. /\ groups \in Seq(Group) /\ count \in Nat /\ Grouped(file, count, own)
      /\ Holds(file, own, groups) /\ ~ IsRule(line) /\ ~ IsValued(line)
      /\ (count = 0 <=> groups = << >>)
  BY LenProperties, EmptySeq DEF ParsedAs, IsRule, IsValued
<1>2. /\ (groups = << >> <=> Opening(file) = {}) /\ (Opens(file, line) <=> groups = << >>)
      /\ NameOf(line) = "*"
  BY <1>1 DEF Grouped, Opens, NameOf
<1>3. /\ new \in Group /\ new.agents = <<"*">> /\ new.rules = << >>
      /\ << >> \in Seq(SitemapURLs) /\ new.sitemaps = << >>
  <2>1. <<"*">> \in Seq(Agents)
    <3>1. "*" \in Agents
      BY SpecificityAssumption
    <3> QED BY <3>1, SingletonSeq
  <2>2. << >> \in Seq(SitemapURLs) /\ << >> \in Seq([path : Patterns, allowed : BOOLEAN])
    BY EmptySeq
  <2> QED BY <2>1, <2>2 DEF Group, NewGroup
<1>4. /\ open \in Seq(Group) /\ open # << >> /\ Len(open) \in Nat /\ Len(open) >= 1
      /\ plain \in Seq(Group) /\ plain # << >> /\ Len(plain) = Len(open)
      /\ Front(plain) = Front(open)
      /\ Len(open) = IF groups = << >> THEN 1 ELSE count
  <2>1. CASE groups = << >>
    <3>1. /\ <<new>> \in Seq(Group) /\ Len(<<new>>) = 1
          /\ <<NewGroup(<< >>)>> \in Seq(Group) /\ Len(<<NewGroup(<< >>)>>) = 1
      BY <1>3, EmptyGroup, SingletonSeq
    <3>2. Front(<<new>>) = << >> /\ Front(<<NewGroup(<< >>)>>) = << >>
      BY <1>3, EmptyGroup, FrontOfOne
    <3> HIDE DEF new
    <3> QED BY <2>1, <3>1, <3>2
  <2>2. CASE groups # << >>
    BY <1>1, <2>2
  <2> QED BY <2>1, <2>2
<1>5. Grouped(longer, Len(open), after)
  <2>1. Len(open) \in {count, count + 1}
    BY <1>1, <1>4
  <2>2. IF ~ Opens(file, line) THEN Len(open) = count
        ELSE Len(open) >= 1 /\ \A i \in Named(file) :
               own[i] = Len(open) <=> ~ RuleBetween(file, i, n + 1)
    <3>1. Opens(file, line) => Named(file) = {}
      BY <1>2, PlacesOfLines
    <3> HIDE DEF open
    <3> QED BY <1>2, <1>4, <3>1
  <2> HIDE DEF open, count
  <2> QED BY <1>1, <1>4, <2>1, <2>2, GroupedLonger
<1>6. Holds(file, own, plain)
  <2>1. CASE groups = << >>
    <3>1. AgentsOf(file, own, 1) = {} /\ RulesOf(file, own, 1) = {}
      <4>1. own \in [1..n -> 0..0]
        BY <1>1, <2>1 DEF Grouped
      <4>2. \A i \in 1..n : own[i] # 1
        BY <4>1
      <4> QED BY <4>2, PlacesOfLines DEF AgentsOf, RulesOf
    <3>2. ToSet(<< >>) = {}
      BY DEF ToSet
    <3>3. /\ ToSet(NewGroup(<< >>).agents) = AgentsOf(file, own, 1)
          /\ ToSet(NewGroup(<< >>).rules) = RulesOf(file, own, 1)
      BY <3>1, <3>2, EmptyGroup
    <3>4. plain[1] = NewGroup(<< >>) /\ 1..Len(plain) = {1}
      BY <1>4, <2>1
    <3> HIDE DEF plain
    <3> QED BY <3>3, <3>4 DEF Holds
  <2>2. CASE groups # << >>
    BY <1>1, <2>2
  <2> QED BY <2>1, <2>2
<1>7. Last(open) \in Group
  <2> HIDE DEF open
  <2> QED BY <1>3, <1>4, LastReplaced
<1>8. /\ h \in Group /\ h.agents = Last(open).agents /\ h.rules = Last(open).rules
  <2> HIDE DEF open
  <2>1. Last(open).sitemaps \in Seq(SitemapURLs) /\ line.value \in SitemapURLs
    BY <1>7, LineKinds DEF Group
  <2>2. Append(Last(open).sitemaps, line.value) \in Seq(SitemapURLs)
    BY <2>1, AppendProperties
  <2> QED BY <1>7, <2>2 DEF Group
<1>9. /\ ToSet(h.agents) = ToSet(Last(plain).agents) \union
           (IF Opens(file, line) THEN {NameOf(line)} ELSE {})
      /\ ToSet(h.rules) = ToSet(Last(plain).rules) \union
           (IF IsValued(line) THEN {RuleOf(line)} ELSE {})
  <2>1. CASE groups = << >>
    <3>1. Last(open) = new /\ Last(plain) = NewGroup(<< >>)
      BY <2>1 DEF Last
    <3>2. ToSet(<<"*">>) = {"*"} /\ ToSet(<< >>) = {}
      BY DEF ToSet
    <3> HIDE DEF h, open, plain, new
    <3> QED BY <1>1, <1>2, <1>3, <1>8, <2>1, <3>1, <3>2, EmptyGroup
  <2>2. CASE groups # << >>
    <3>1. open = groups /\ plain = groups
      BY <2>2
    <3> HIDE DEF h, open, plain
    <3> QED BY <1>1, <1>2, <1>8, <2>2, <3>1
  <2> QED BY <2>1, <2>2
<1>10. ParseLine(groups, line) = Append(Front(plain), h)
  <2>1. ParseLine(groups, line) = AddSitemap(groups, line.value)
    BY <1>1 DEF ParseLine
  <2>2. AddSitemap(groups, line.value) =
          ToLast(open, LAMBDA g : [g EXCEPT !.sitemaps = Append(@, line.value)])
    BY DEF AddSitemap
  <2> HIDE DEF open
  <2>3. ToLast(open, LAMBDA g : [g EXCEPT !.sitemaps = Append(@, line.value)]) =
          Append(Front(open), h)
    BY <1>4 DEF ToLast
  <2> HIDE DEF plain, h
  <2> QED BY <1>4, <2>1, <2>2, <2>3
<1>11. ParsedAs(longer, after, Append(Front(plain), h))
  <2> HIDE DEF h, open, plain
  <2> QED BY <1>1, <1>4, <1>5, <1>6, <1>8, <1>9, LastGroupTakes
<1> QED BY <1>10, <1>11

\* Every file is parsed into groups that fit its lines.
LEMMA ParseGroups ==
  ASSUME NEW file \in Seq(Lines)
  PROVE  \E own : ParsedAs(file, own, Parse(file))
<1> DEFINE Good(f) == \E own : ParsedAs(f, own, Parse(f))
           bad == {n \in Nat : \E f \in Seq(Lines) : Len(f) = n /\ ~ Good(f)}
<1>1. SUFFICES ASSUME bad # {} PROVE FALSE
  BY LenProperties
<1>2. PICK n \in bad : \A m \in bad : n <= m
  <2>1. bad \in SUBSET Nat
    OBVIOUS
  <2> HIDE DEF bad
  <2> QED BY <1>1, <2>1, LeastNatural
<1>3. PICK f \in Seq(Lines) : Len(f) = n /\ ~ Good(f)
  BY <1>2
<1>4. CASE f = << >>
  <2>1. Len(f) = 0 /\ DOMAIN f = {} /\ Parse(f) = << >> /\ << >> \in Seq(Group)
    BY <1>3, <1>4, ParseEmpty, EmptySeq, LenProperties
  <2>2. Grouped(f, 0, << >>)
    <3>1. Opening(f) = {} /\ 1..Len(f) = {} /\ << >> \in [{} -> 0..0]
      BY <2>1 DEF Opening
    <3>2. Named(f) = {}
      BY <1>3, <3>1, PlacesOfLines
    <3> QED BY <2>1, <3>1, <3>2 DEF Grouped
  <2>3. Holds(f, << >>, << >>)
    BY DEF Holds
  <2>4. ParsedAs(f, << >>, << >>)
    BY <2>1, <2>2, <2>3 DEF ParsedAs
  <2> QED BY <1>3, <2>1, <2>4
<1>5. CASE f # << >>
  <2>1. PICK s \in Seq(Lines), line \in Lines : f = Append(s, line)
    BY <1>3, <1>5, SequenceEmptyOrAppend
  <2>3. Len(s) \in Nat /\ Len(f) = Len(s) + 1
    BY <2>1, AppendProperties, LenProperties
  <2>4. Len(s) \notin bad
    <3> HIDE DEF bad
    <3> QED BY <1>2, <1>3, <2>3
  <2>5. PICK own : ParsedAs(s, own, Parse(s))
    BY <2>3, <2>4
  <2>6. Parse(f) = ParseLine(Parse(s), line)
    BY <2>1, ParseAppend
  <2>7. line.key = "user-agent" \/ IsRule(line) \/ line.key = "sitemap"
    BY LineKinds DEF IsRule
  <2>8. \E after : ParsedAs(Append(s, line), after, ParseLine(Parse(s), line))
    BY <1>3, <2>1, <2>5, <2>7, AgentFallsIn, RuleFallsIn, SitemapFallsIn
  <2> QED BY <1>3, <2>1, <2>6, <2>8
<1> QED BY <1>4, <1>5

-----------------------------------------------------------------------------
(* What the groups allow.                                                    *)

LEMMA FiniteImage ==
  ASSUME NEW S, IsFiniteSet(S), NEW f
  PROVE  IsFiniteSet({f[x] : x \in S})
<1> DEFINE T == {f[x] : x \in S}
           g == [x \in S |-> f[x]]
<1>1. g \in Surjection(S, T)
  BY DEF Surjection
<1> HIDE DEF g, T
<1>2. IsFiniteSet(T)
  BY <1>1, FS_Surjection
<1> QED BY <1>2 DEF T

LEMMA MaxSpecificity ==
  ASSUME NEW S \in SUBSET Agents, IsFiniteSet(S)
  PROVE  LET m == Max({-1} \union {Specificity[a] : a \in S})
         IN  /\ m \in {-1} \union Nat
             /\ m # -1 => \E a \in S : Specificity[a] = m
             /\ \A a \in S : Specificity[a] <= m
<1> DEFINE T == {-1} \union {Specificity[a] : a \in S}
<1>1. IsFiniteSet({Specificity[a] : a \in S})
  BY FiniteImage
<1>2. IsFiniteSet({-1})
  BY FS_Singleton
<1>3. IsFiniteSet(T)
  BY <1>1, <1>2, FS_Union
<1>4. T \in SUBSET ({-1} \union Nat) /\ T \in SUBSET Int /\ T # {}
  BY SpecificityAssumption
<1>5. Max(T) \in T /\ \A x \in T : x <= Max(T)
  <2> HIDE DEF T
  <2> QED BY <1>3, <1>4, MaxOfFinite
<1> QED BY <1>4, <1>5

LEMMA AgentSetsFinite ==
  /\ \A seq \in Seq(Agents) : IsFiniteSet(ToSet(seq)) /\ ToSet(seq) \in SUBSET Agents
  /\ \A file \in Seq(Lines) :
       LET named == {NameOf(file[i]) : i \in Named(file)}
       IN  IsFiniteSet(named) /\ named \in SUBSET Agents
<1>1. ASSUME NEW S, NEW seq \in Seq(S) PROVE IsFiniteSet(DOMAIN seq)
  <2>1. DOMAIN seq = 1..Len(seq) /\ 1 \in Int /\ Len(seq) \in Int
    BY LenProperties
  <2>2. IsFiniteSet(1..Len(seq))
    BY <2>1, FS_Interval
  <2> QED BY <2>1, <2>2
<1>2. ASSUME NEW seq \in Seq(Agents)
      PROVE  IsFiniteSet(ToSet(seq)) /\ ToSet(seq) \in SUBSET Agents
  <2>1. IsFiniteSet(DOMAIN seq)
    BY <1>1
  <2>2. IsFiniteSet({seq[i] : i \in DOMAIN seq})
    BY <2>1, FiniteImage
  <2>3. \A i \in DOMAIN seq : seq[i] \in Agents
    BY LenProperties, ElementOfSeq
  <2> QED BY <2>2, <2>3 DEF ToSet
<1>3. ASSUME NEW file \in Seq(Lines)
      PROVE  LET named == {NameOf(file[i]) : i \in Named(file)}
             IN  IsFiniteSet(named) /\ named \in SUBSET Agents
  <2>1. Named(file) \in SUBSET DOMAIN file
    BY PlacesOfLines
  <2>2. IsFiniteSet(Named(file))
    BY <1>1, <2>1, FS_Subset
  <2> DEFINE name == [i \in Named(file) |-> NameOf(file[i])]
  <2>3. IsFiniteSet({NameOf(file[i]) : i \in Named(file)})
    <3>1. {name[i] : i \in Named(file)} = {NameOf(file[i]) : i \in Named(file)}
      OBVIOUS
    <3> HIDE DEF name
    <3>2. IsFiniteSet({name[i] : i \in Named(file)})
      BY <2>2, FiniteImage
    <3> QED BY <3>1, <3>2
  <2>4. \A i \in Named(file) : NameOf(file[i]) \in Agents
    <3>1. \A i \in DOMAIN file : file[i] \in Lines
      BY LenProperties, ElementOfSeq
    <3>2. \A i \in Named(file) : file[i].key \in {"user-agent", "sitemap"}
      BY PlacesOfLines
    <3> QED BY <2>1, <3>1, <3>2, LineKinds
  <2> QED BY <2>3, <2>4
<1> QED BY <1>2, <1>3

\* A rule applies to the agents of its group, and to no others.
LEMMA RuleOfGroup ==
  ASSUME NEW file \in Seq(Lines), NEW count \in Nat, NEW own, Grouped(file, count, own),
         NEW i \in Named(file), NEW j \in Valued(file)
  PROVE  Together(Named(file), Valued(file), i, j) <=> own[i] = own[j]
<1> DEFINE n == Len(file)
<1>1. n \in Nat /\ DOMAIN file = 1..n /\ own \in [1..n -> 0..count]
  BY LenProperties DEF Grouped
<1>2. /\ Named(file) \in SUBSET (1..n) /\ Valued(file) \in SUBSET (1..n)
      /\ Named(file) \intersect Valued(file) = {}
  BY PlacesOfLines
<1>3. \A k, l \in 1..n : k <= l => own[k] <= own[l]
  BY DEF Grouped
<1>4. \A k \in Named(file) : own[k] >= 1
  BY DEF Grouped
<1>5. \A k, l \in Named(file) : k < l => (own[k] = own[l] <=> ~ RuleBetween(file, k, l))
  BY DEF Grouped
<1>6. \A l \in 1..n : own[l] >= 1 => \E k \in 1..l : Heads(file, k, l) /\ own[k] = own[l]
  BY DEF Grouped
<1>7. i \in 1..n /\ j \in 1..n /\ i # j /\ own[i] \in 0..count /\ own[j] \in 0..count
  BY <1>1, <1>2
<1> HIDE DEF n
<1>8. ASSUME Together(Named(file), Valued(file), i, j) PROVE own[i] = own[j]
  <2>1. i < j /\ ~ \E k \in Valued(file), l \in Named(file) : i < k /\ k < l /\ l < j
    BY <1>8 DEF Together
  <2>2. own[j] >= 1
    BY <1>3, <1>4, <1>7, <2>1
  <2>3. PICK h \in 1..j : Heads(file, h, j) /\ own[h] = own[j]
    BY <1>6, <1>7, <2>2
  <2>4. h \in Named(file) /\ h <= j /\ h \in 1..n /\ h # j /\ i <= h
    BY <1>1, <1>2, <1>7, <2>1, <2>3 DEF Heads, NameBetween
  <2>5. CASE i < h
    <3>1. ~ RuleBetween(file, i, h)
      BY <1>7, <2>1, <2>4 DEF RuleBetween
    <3> QED BY <1>5, <2>3, <2>4, <2>5, <3>1
  <2> QED BY <1>7, <2>3, <2>4, <2>5
<1>9. ASSUME own[i] = own[j] PROVE Together(Named(file), Valued(file), i, j)
  <2>1. i < j
    <3> SUFFICES ASSUME j < i PROVE FALSE
      BY <1>7
    <3>1. PICK h \in 1..j : Heads(file, h, j) /\ own[h] = own[j]
      BY <1>4, <1>6, <1>7, <1>9
    <3>2. h \in Named(file) /\ h <= j /\ h # j
      BY <1>2, <3>1 DEF Heads
    <3>3. h < j /\ h < i /\ RuleBetween(file, h, i)
      BY <1>7, <3>1, <3>2 DEF RuleBetween
    <3> QED BY <1>5, <1>9, <3>1, <3>2, <3>3
  <2>2. ASSUME NEW k \in Valued(file), NEW l \in Named(file), i < k, k < l, l < j
        PROVE  FALSE
    <3>1. k \in 1..n /\ l \in 1..n /\ own[l] \in 0..count
      BY <1>1, <1>2
    <3>2. own[i] = own[l] /\ i < l
      BY <1>3, <1>7, <1>9, <2>2, <3>1
    <3> QED BY <1>5, <2>2, <3>2 DEF RuleBetween
  <2> QED BY <2>1, <2>2 DEF Together
<1> QED BY <1>8, <1>9

\* What the groups of any file allow can be read off its lines: the code applies
\* the rules with a value that stand in the group of the first of the best names.
THEOREM RobotsReadsEveryFile ==
  ASSUME NEW file \in Seq(Lines), NEW path
  PROVE  IsAllowed(Parse(file), path) = Reads(file, path)
<1> DEFINE groups == Parse(file)
           n == Len(file)
           named == {NameOf(file[i]) : i \in Named(file)}
           most == Max({-1} \union {Specificity[a] : a \in named})
           Fit(g) == Max({-1} \union {Specificity[a] : a \in ToSet(g.agents)})
           fittest == {i \in DOMAIN groups : Fit(groups[i]) >= 0
                        /\ \A j \in DOMAIN groups : Fit(groups[j]) <= Fit(groups[i])}
           first == {i \in Named(file) :
             /\ Nearness(file[i]) >= 0
             /\ \A k \in Named(file) :
                  /\ Nearness(file[k]) <= Nearness(file[i])
                  /\ k < i => Nearness(file[k]) < Nearness(file[i])}
           mine == {j \in Valued(file) :
             /\ \E i \in first : Together(Named(file), Valued(file), i, j)
             /\ MatchPath(file[j].value, path)}
           matching == {r \in ToSet(BestGroup(groups).rules) : MatchPath(r.path, path)}
<1>1. PICK own : ParsedAs(file, own, groups)
  BY ParseGroups
<1>2. /\ groups \in Seq(Group) /\ DOMAIN groups = 1..Len(groups) /\ Len(groups) \in Nat
      /\ Grouped(file, Len(groups), own) /\ n \in Nat /\ DOMAIN file = 1..n
  BY <1>1, LenProperties DEF ParsedAs
<1>3. \A g \in DOMAIN groups : /\ ToSet(groups[g].agents) = AgentsOf(file, own, g)
                               /\ ToSet(groups[g].rules) = RulesOf(file, own, g)
  BY <1>1, <1>2 DEF ParsedAs, Holds
<1>4. /\ Named(file) \in SUBSET (1..n) /\ Valued(file) \in SUBSET (1..n)
      /\ own \in [1..n -> 0..Len(groups)]
      /\ \A i, j \in 1..n : i <= j => own[i] <= own[j]
  BY <1>2, PlacesOfLines DEF Grouped
<1>5. \A i \in Named(file) : own[i] \in DOMAIN groups /\ own[i] \in Nat
  BY <1>2, <1>4 DEF Grouped
<1>6. \A line : Nearness(line) = Specificity[NameOf(line)]
  BY DEF Nearness, NameOf
<1>7. Reads(file, path) <=> Decision(file, mine)
  BY DEF Reads
<1>8. Decision(file, mine) <=>
        (mine = {} \/ \E j \in {j \in mine : \A k \in mine :
                     RuleLen(RuleOf(file[k])) <= RuleLen(RuleOf(file[j]))} :
                   file[j].key = "allow")
  <2> HIDE DEF mine
  <2>1. \A j \in mine : RuleLen(RuleOf(file[j])) = Len(file[j].value)
    BY DEF RuleLen, RuleOf
  <2>2. {j \in mine : \A k \in mine : Len(file[k].value) <= Len(file[j].value)} =
          {j \in mine : \A k \in mine :
             RuleLen(RuleOf(file[k])) <= RuleLen(RuleOf(file[j]))}
    BY <2>1
  <2> QED BY <2>2 DEF Decision
<1>9. IsAllowed(groups, path) <=>
        (matching = {} \/ \E r \in {r \in matching : \A s \in matching : RuleLen(s) <= RuleLen(r)} :
                         r.allowed)
  BY DEF IsAllowed
<1>10. BestGroup(groups) = IF fittest = {} THEN NewGroup(<< >>) ELSE groups[Min(fittest)]
  BY DEF BestGroup
<1>11. /\ most \in {-1} \union Nat
       /\ most # -1 => \E i \in Named(file) : Nearness(file[i]) = most
       /\ \A i \in Named(file) : Nearness(file[i]) <= most /\ Nearness(file[i]) \in Int
  <2>1. IsFiniteSet(named) /\ named \in SUBSET Agents
    BY AgentSetsFinite
  <2>2. /\ most \in {-1} \union Nat
        /\ most # -1 => \E a \in named : Specificity[a] = most
        /\ \A a \in named : Specificity[a] <= most
    <3> HIDE DEF named
    <3> QED BY <2>1, MaxSpecificity
  <2>3. \A a \in named : Specificity[a] \in Int
    BY <2>1, SpecificityAssumption
  <2> HIDE DEF most
  <2> QED BY <1>6, <2>2, <2>3
<1>12. ASSUME NEW g \in DOMAIN groups
       PROVE  /\ Fit(groups[g]) \in {-1} \union Nat
              /\ Fit(groups[g]) # -1 => \E i \in Named(file) :
                   own[i] = g /\ Nearness(file[i]) = Fit(groups[g])
              /\ \A i \in Named(file) :
                   own[i] = g => Nearness(file[i]) <= Fit(groups[g])
  <2> DEFINE S == ToSet(groups[g].agents)
  <2>1. S = AgentsOf(file, own, g)
    BY <1>3
  <2>2. IsFiniteSet(S) /\ S \in SUBSET Agents
    <3>1. groups[g] \in Group
      BY <1>2, ElementOfSeq
    <3>2. groups[g].agents \in Seq(Agents)
      BY <3>1 DEF Group
    <3> QED BY <3>2, AgentSetsFinite
  <2>3. /\ Fit(groups[g]) \in {-1} \union Nat
        /\ Fit(groups[g]) # -1 => \E a \in S : Specificity[a] = Fit(groups[g])
        /\ \A a \in S : Specificity[a] <= Fit(groups[g])
    <3> HIDE DEF S
    <3>1. LET m == Max({-1} \union {Specificity[a] : a \in S})
          IN  /\ m \in {-1} \union Nat
              /\ m # -1 => \E a \in S : Specificity[a] = m
              /\ \A a \in S : Specificity[a] <= m
      BY <2>2, MaxSpecificity
    <3> QED BY <3>1 DEF S
  <2> HIDE DEF Fit, S
  <2> QED BY <1>6, <2>1, <2>3 DEF AgentsOf
<1> HIDE DEF Fit, most, named, groups
<1>13. CASE most = -1
  <2>1. mine = {}
    BY <1>11, <1>13
  <2>2. \A g \in DOMAIN groups : ~ (Fit(groups[g]) >= 0)
    <3> SUFFICES ASSUME NEW g \in DOMAIN groups, Fit(groups[g]) >= 0 PROVE FALSE
      OBVIOUS
    <3>1. PICK i \in Named(file) : Nearness(file[i]) = Fit(groups[g])
      BY <1>12
    <3> QED BY <1>11, <1>12, <1>13, <3>1
  <2>3. fittest = {}
    BY <2>2
  <2>4. BestGroup(groups).rules = << >>
    BY <1>10, <2>3, EmptyGroup
  <2>5. matching = {}
    BY <2>4 DEF ToSet
  <2> HIDE DEF matching, mine
  <2>6. IsAllowed(groups, path) <=> Reads(file, path)
    BY <1>7, <1>8, <1>9, <2>1, <2>5
  <2> QED BY <2>6 DEF IsAllowed, Reads, Decision, groups
<1>14. CASE most # -1
  <2>1. PICK f \in Named(file) : /\ Nearness(file[f]) = most
                                /\ \A i \in Named(file) : Nearness(file[i]) = most => f <= i
    <3> DEFINE best == {i \in Named(file) : Nearness(file[i]) = most}
    <3>1. best \in SUBSET Nat /\ best # {}
      BY <1>4, <1>11, <1>14
    <3>2. \E f \in best : \A i \in best : f <= i
      <4> HIDE DEF best
      <4> QED BY <3>1, LeastNatural
    <3> QED BY <3>2
  <2> DEFINE best == own[f]
  <2>2. most \in Nat /\ best \in DOMAIN groups /\ best \in Nat /\ f \in 1..n
    BY <1>4, <1>5, <1>11, <1>14
  <2>3. first = {f}
    <3>1. f \in first
      <4> SUFFICES ASSUME NEW k \in Named(file), k < f PROVE Nearness(file[k]) < most
        BY <1>11, <2>1, <2>2
      <4>1. Nearness(file[k]) # most
        BY <1>4, <2>1
      <4> QED BY <1>11, <2>2, <4>1
    <3>2. ASSUME NEW i \in first PROVE i = f
      <4>1. i \in Named(file) /\ most <= Nearness(file[i])
        BY <2>1, <3>2
      <4>2. Nearness(file[i]) = most
        BY <1>11, <2>2, <4>1
      <4>3. f <= i /\ ~ f < i
        <5>1. f < i => Nearness(file[f]) < Nearness(file[i])
          BY <3>2
        <5> QED BY <2>1, <2>2, <4>1, <4>2, <5>1
      <4> QED BY <1>4, <4>1, <4>3
    <3> HIDE DEF first
    <3> QED BY <3>1, <3>2
  <2>4. Fit(groups[best]) = most
    <3>1. /\ Fit(groups[best]) \in {-1} \union Nat
          /\ Fit(groups[best]) # -1 => \E i \in Named(file) :
               own[i] = best /\ Nearness(file[i]) = Fit(groups[best])
          /\ most <= Fit(groups[best])
      BY <1>12, <2>1, <2>2
    <3> HIDE DEF best
    <3> QED BY <1>11, <2>2, <3>1
  <2>5. ASSUME NEW g \in DOMAIN groups
        PROVE  Fit(groups[g]) <= most /\ (Fit(groups[g]) = most => best <= g)
    <3>1. CASE Fit(groups[g]) = -1
      BY <1>14, <2>2, <3>1
    <3>2. CASE Fit(groups[g]) # -1
      <4>1. PICK i \in Named(file) :
              own[i] = g /\ Nearness(file[i]) = Fit(groups[g])
        BY <1>12, <3>2
      <4>2. Nearness(file[i]) = most => f <= i
        BY <2>1
      <4> QED BY <1>4, <1>11, <2>2, <4>1, <4>2
    <3> QED BY <3>1, <3>2
  <2>6. best \in fittest /\ \A g \in fittest : best <= g
    <3> HIDE DEF best
    <3>1. Fit(groups[best]) >= 0
      BY <2>2, <2>4
    <3>2. \A j \in DOMAIN groups : Fit(groups[j]) <= Fit(groups[best])
      BY <2>4, <2>5
    <3>3. ASSUME NEW i \in fittest PROVE best <= i
      <4>1. i \in DOMAIN groups /\ Fit(groups[best]) <= Fit(groups[i])
        BY <2>2, <3>3
      <4>2. Fit(groups[i]) = most
        BY <1>12, <2>2, <2>4, <2>5, <4>1
      <4> QED BY <2>5, <4>1, <4>2
    <3> QED BY <2>2, <3>1, <3>2, <3>3
  <2>7. BestGroup(groups) = groups[best]
    <3>1. fittest \in SUBSET Nat
      BY <1>2
    <3> HIDE DEF fittest, best
    <3>2. Min(fittest) = best
      BY <2>2, <2>6, <3>1 DEF Min
    <3> QED BY <1>10, <2>6, <3>2
  <2>8. mine = {j \in Valued(file) : own[j] = best /\ MatchPath(file[j].value, path)}
    <3> HIDE DEF best, first
    <3>1. \A j \in Valued(file) :
            Together(Named(file), Valued(file), f, j) <=> own[f] = own[j]
      BY <1>2, RuleOfGroup
    <3> QED BY <2>3, <3>1 DEF best
  <2>9. matching = {RuleOf(file[j]) : j \in mine}
    <3>1. ToSet(groups[best].rules) = RulesOf(file, own, best)
      BY <1>3, <2>2
    <3>2. \A line : RuleOf(line).path = line.value
      BY DEF RuleOf
    <3> HIDE DEF best, mine
    <3> QED BY <2>7, <2>8, <3>1, <3>2 DEF RulesOf
  <2>10. \A line : RuleOf(line).allowed = (line.key = "allow")
    BY DEF RuleOf
  <2> HIDE DEF matching, mine
  <2>11. matching = {} <=> mine = {}
    BY <2>9
  <2>12. (\E r \in {r \in matching : \A s \in matching : RuleLen(s) <= RuleLen(r)} : r.allowed)
         <=> \E j \in {j \in mine : \A k \in mine :
                       RuleLen(RuleOf(file[k])) <= RuleLen(RuleOf(file[j]))} :
               file[j].key = "allow"
    BY <2>9, <2>10
  <2>13. IsAllowed(groups, path) <=> Reads(file, path)
    BY <1>7, <1>8, <1>9, <2>11, <2>12
  <2> QED BY <2>13 DEF IsAllowed, Reads, Decision, groups
<1> QED BY <1>13, <1>14

\* A prefix agrees place by place.
LEMMA PrefixIs ==
  ASSUME NEW S, NEW s \in Seq(S), NEW T, NEW t \in Seq(T)
  PROVE  IsPrefix(s, t) <=> Len(s) <= Len(t) /\ \A i \in 1..Len(s) : s[i] = t[i]
<1> DEFINE m == Len(s)
           first == SubSeq(t, 1, m)
<1>1. m \in Nat /\ Len(t) \in Nat
  BY LenProperties
<1>2. SubSeq(s, 1, m) = s
  BY SubSeqFull
<1>3. SUFFICES ASSUME m <= Len(t) PROVE s = first <=> \A i \in 1..m : s[i] = t[i]
  BY <1>2 DEF IsPrefix
<1>4. \A i \in 1..m : t[i] \in T
  BY <1>1, <1>3, ElementOfSeq
<1> HIDE DEF first, m
<1>5. first \in Seq(T) /\ Len(first) = m /\ \A i \in 1..m : first[i] = t[i]
  <2>1. 1 \in Int /\ m \in Int /\ m - 1 + 1 = m /\ (1 <= m \/ m = 0)
        /\ \A i \in 1..m : 1 + i - 1 = i
    BY <1>1
  <2>2. /\ SubSeq(t, 1, m) \in Seq(T)
        /\ Len(SubSeq(t, 1, m)) = IF 1 <= m THEN m - 1 + 1 ELSE 0
        /\ \A i \in 1..(m - 1 + 1) : SubSeq(t, 1, m)[i] = t[1 + i - 1]
    BY <1>4, <2>1, SubSeqProperties
  <2> QED BY <2>1, <2>2 DEF first
<1>6. ASSUME \A i \in 1..m : s[i] = t[i] PROVE s = first
  <2>1. s \in Seq(S \union T) /\ first \in Seq(S \union T)
    BY <1>5
  <2> QED BY <1>5, <1>6, <2>1, SeqEqual DEF m
<1> QED BY <1>5, <1>6

\* A pattern without its last "*".
LEMMA WithoutStarIs ==
  ASSUME NEW pattern \in Seq(Chars)
  PROVE  LET n == Len(pattern)
             w == WithoutStar(pattern)
         IN  /\ n \in Nat /\ w \in Seq(Chars) /\ Len(w) \in Nat
             /\ \A i \in 1..Len(w) : w[i] = pattern[i]
             /\ Len(w) = n \/ (n # 0 /\ Len(w) = n - 1 /\ pattern[n] = "*")
             /\ n # 0 /\ pattern[n] = "*" => Len(w) = n - 1
<1> DEFINE n == Len(pattern)
           w == WithoutStar(pattern)
<1>1. n \in Nat
  BY LenProperties
<1>2. pattern = << >> <=> n = 0
  BY EmptySeq
<1>3. CASE n # 0 /\ pattern[n] = "*"
  <2>1. w = SubSeq(pattern, 1, n - 1)
    BY <1>2, <1>3 DEF WithoutStar, Front, Last
  <2>2. \A i \in 1..(n - 1) : pattern[i] \in Chars
    BY <1>1, ElementOfSeq
  <2> HIDE DEF n, w
  <2>3. /\ w \in Seq(Chars) /\ Len(w) = n - 1 /\ \A i \in 1..(n - 1) : w[i] = pattern[i]
    <3>1. 1 \in Int /\ n - 1 \in Int /\ (1 <= n - 1 \/ n - 1 = 0)
          /\ \A i \in 1..(n - 1) : 1 + i - 1 = i /\ i \in 1..((n - 1) - 1 + 1)
      BY <1>1, <1>3
    <3>2. /\ SubSeq(pattern, 1, n - 1) \in Seq(Chars)
          /\ Len(SubSeq(pattern, 1, n - 1)) = IF 1 <= n - 1 THEN (n - 1) - 1 + 1 ELSE 0
          /\ \A i \in 1..((n - 1) - 1 + 1) : SubSeq(pattern, 1, n - 1)[i] = pattern[1 + i - 1]
      BY <2>2, <3>1, SubSeqProperties
    <3> QED BY <1>1, <1>3, <2>1, <3>1, <3>2
  <2> QED BY <1>1, <1>3, <2>3 DEF n, w
<1>4. CASE ~ (n # 0 /\ pattern[n] = "*")
  <2>1. w = pattern
    BY <1>2, <1>4 DEF WithoutStar, Last
  <2> QED BY <1>1, <1>4, <2>1
<1> QED BY <1>3, <1>4

\* Of a pattern without a "*" inside and a "$" at its end the code's matcher and
\* the standard's make the same.
LEMMA PlainMatches ==
  ASSUME NEW pattern \in Seq(Chars), ~ BeyondPrefix(pattern), NEW S, NEW path \in Seq(S)
  PROVE  StandardMatches(pattern, path) <=> MatchPath(pattern, path)
<1> DEFINE n == Len(pattern)
           w == WithoutStar(pattern)
           m == Len(w)
           long == Len(path)
           Spreads(place) ==
             /\ place[0] = 0
             /\ \A i \in 1..n : IF pattern[i] = "*"
                                THEN place[i - 1] <= place[i]
                                ELSE place[i] = place[i - 1] + 1 /\ path[place[i]] = pattern[i]
<1>1. /\ n \in Nat /\ w \in Seq(Chars) /\ m \in Nat /\ \A i \in 1..m : w[i] = pattern[i]
      /\ m = n \/ (n # 0 /\ m = n - 1 /\ pattern[n] = "*")
      /\ n # 0 /\ pattern[n] = "*" => m = n - 1
  BY WithoutStarIs
<1>2. long \in Nat /\ DOMAIN pattern = 1..n
  BY LenProperties
<1>3. \A i \in 1..m : i \in 1..n /\ pattern[i] # "*"
  <2> SUFFICES ASSUME NEW i \in 1..m PROVE i \in 1..n /\ pattern[i] # "*"
    OBVIOUS
  <2>1. i \in 1..n
    BY <1>1
  <2>2. pattern[i] = "*" => i = n
    BY <1>2, <2>1 DEF BeyondPrefix
  <2> QED BY <1>1, <2>1, <2>2
<1>4. StandardMatches(pattern, path) <=> \E place \in [0..n -> 0..long] : Spreads(place)
  <2>1. ~ (pattern # << >> /\ Last(pattern) = "$")
    <3> SUFFICES ASSUME pattern # << >>, pattern[n] = "$" PROVE FALSE
      BY DEF Last
    <3>1. n \in DOMAIN pattern
      BY <1>1, <1>2, EmptySeq
    <3> QED BY <3>1 DEF BeyondPrefix
  <2> QED BY <2>1 DEF StandardMatches
<1>5. MatchPath(pattern, path) <=> m <= long /\ \A i \in 1..m : pattern[i] = path[i]
  <2>1. IsPrefix(w, path) <=> m <= long /\ \A i \in 1..m : w[i] = path[i]
    BY <1>1, PrefixIs
  <2> HIDE DEF w, m
  <2> QED BY <1>1, <2>1 DEF MatchPath, w
<1> HIDE DEF n, w, m, long
<1>6. ASSUME NEW place \in [0..n -> 0..long], Spreads(place)
      PROVE  m <= long /\ \A i \in 1..m : pattern[i] = path[i]
  <2> DEFINE bad == {i \in 0..m : place[i] # i}
  <2>1. bad = {}
    <3> SUFFICES ASSUME bad # {} PROVE FALSE
      OBVIOUS
    <3>1. bad \in SUBSET Nat
      BY <1>1
    <3>2. PICK i \in bad : \A k \in bad : i <= k
      <4> HIDE DEF bad
      <4> QED BY <3>1, LeastNatural
    <3>3. i \in 0..m /\ place[i] # i /\ i # 0
      BY <1>6, <3>2
    <3>4. i - 1 \in 0..m /\ i - 1 \notin bad /\ i \in 1..m
      BY <1>1, <3>2, <3>3
    <3>5. place[i - 1] = i - 1
      BY <3>4
    <3>6. place[i] = place[i - 1] + 1
      BY <1>3, <1>6, <3>4
    <3> QED BY <1>1, <3>3, <3>5, <3>6
  <2>2. \A i \in 0..m : place[i] = i
    BY <2>1
  <2> HIDE DEF bad
  <2>3. m <= long
    <3>1. m \in 0..m /\ m \in 0..n
      BY <1>1
    <3>2. place[m] = m /\ place[m] \in 0..long
      BY <1>6, <2>2, <3>1
    <3> QED BY <1>1, <1>2, <3>2
  <2>4. ASSUME NEW i \in 1..m PROVE pattern[i] = path[i]
    <3>1. i \in 1..n /\ pattern[i] # "*" /\ i \in 0..m
      BY <1>1, <1>3
    <3>2. place[i] = i
      BY <2>2, <3>1
    <3> QED BY <1>6, <3>1, <3>2
  <2> QED BY <2>3, <2>4
<1>7. ASSUME m <= long, \A i \in 1..m : pattern[i] = path[i]
      PROVE  \E place \in [0..n -> 0..long] : Spreads(place)
  <2> DEFINE place == [i \in 0..n |-> IF i <= m THEN i ELSE m]
  <2>1. place \in [0..n -> 0..long]
    BY <1>1, <1>2, <1>7
  <2>2. place[0] = 0
    BY <1>1
  <2>3. ASSUME NEW i \in 1..n
        PROVE  IF pattern[i] = "*"
               THEN place[i - 1] <= place[i]
               ELSE place[i] = place[i - 1] + 1 /\ path[place[i]] = pattern[i]
    <3>1. i \in 0..n /\ i - 1 \in 0..n /\ i \in Nat
      BY <1>1
    <3>2. CASE i \in 1..m
      <4>1. place[i] = i /\ place[i - 1] = i - 1
        BY <1>1, <3>1, <3>2
      <4> HIDE DEF place
      <4> QED BY <1>3, <1>7, <3>1, <3>2, <4>1
    <3>3. CASE i \notin 1..m
      <4>1. i = n /\ m = n - 1 /\ pattern[i] = "*"
        BY <1>1, <3>1, <3>3
      <4>2. place[i] = m /\ place[i - 1] = m
        BY <1>1, <3>1, <4>1
      <4> HIDE DEF place
      <4> QED BY <1>1, <4>1, <4>2
    <3> QED BY <3>2, <3>3
  <2> HIDE DEF place
  <2> QED BY <2>1, <2>2, <2>3
<1> QED BY <1>4, <1>5, <1>6, <1>7


\* On a file that departs in none of the ways listed, the code allows what the
\* standard allows.
LEMMA DeparturesAreKnown ==
  ASSUME NEW file \in Seq(Lines), NEW S, NEW path \in Seq(S), ~ Departs(file)
  PROVE  Reads(file, path) = StandardAllows(file, path)
<1> DEFINE n == Len(file)
           N == AgentLines(file)
           R == RuleLines(file)
           V == Valued(file)
           ours == {i \in N : file[i].value = Token}
           all == {i \in N : file[i].value = "*"}
           counts == IF ours # {} THEN ours ELSE all
           first == {i \in Named(file) :
             /\ Nearness(file[i]) >= 0
             /\ \A k \in Named(file) :
                  /\ Nearness(file[k]) <= Nearness(file[i])
                  /\ k < i => Nearness(file[k]) < Nearness(file[i])}
           read == {j \in V : /\ \E i \in first : Together(Named(file), V, i, j)
                              /\ MatchPath(file[j].value, path)}
           standard == {j \in R : /\ HasValue(file[j])
                                  /\ \E i \in counts : Together(N, R, i, j)
                                  /\ StandardMatches(file[j].value, path)}
<1>1. /\ n \in Nat /\ N \in SUBSET (1..n) /\ R \in SUBSET (1..n) /\ V \in SUBSET R
      /\ DOMAIN file = 1..n
      /\ \A i \in N : file[i].key = "user-agent" /\ file[i].value \in Agents
      /\ \A j \in R : IsRule(file[j]) /\ file[j].value \in Patterns
      /\ \A j \in R : j \in V <=> HasValue(file[j])
  <2>1. \A i \in 1..n : file[i] \in Lines
    BY PlacesOfLines, ElementOfSeq
  <2> QED BY <2>1, PlacesOfLines, LineKinds DEF AgentLines, RuleLines, Valued
<1>2. \A i \in N : i \notin R
  BY <1>1 DEF IsRule
<1>3. Named(file) = N
  <2> SUFFICES ASSUME NEW i \in DOMAIN file, OpensForAll(file, i) PROVE FALSE
    BY DEF Named
  <2>1. file[i].key = "sitemap"
        /\ \A k \in DOMAIN file : k < i => file[k].key \notin {"user-agent", "sitemap"}
    BY DEF OpensForAll
  <2>2. PICK k \in N : ~ i < k
    BY <2>1 DEF Departs, SitemapComesFirst
  <2>3. k \in 1..n /\ i \in 1..n /\ file[k].key = "user-agent"
    BY <1>1
  <2>4. k < i
    BY <1>1, <2>1, <2>2, <2>3
  <2> QED BY <1>1, <2>1, <2>3, <2>4
<1>4. \A i, j \in N : (\E k \in R : i < k /\ k < j) => \E k \in V : i < k /\ k < j
  BY DEF Departs, GroupsMerge
<1>5. \A i, j \in N : (\E k \in R : i < k /\ k < j)
        => file[i].value # file[j].value \/ ~ Nearness(file[i]) >= 0
  BY DEF Departs, AgentComesBack
<1>6. \A i \in N : file[i].value \in {"*", Token} \/ ~ Nearness(file[i]) >= 0
  BY DEF Departs, NamedInPart
<1>7. \A j \in R : ~ BeyondPrefix(file[j].value)
  BY DEF Departs
<1>8. \A i \in N : /\ Nearness(file[i]) = Specificity[file[i].value]
                   /\ Nearness(file[i]) \in {-1} \union Nat
  BY <1>1, SpecificityAssumption DEF Nearness
<1>9. \A j \in V : MatchPath(file[j].value, path) <=> StandardMatches(file[j].value, path)
  <2> SUFFICES ASSUME NEW j \in V
               PROVE  StandardMatches(file[j].value, path) <=> MatchPath(file[j].value, path)
    OBVIOUS
  <2>1. file[j].value \in Seq(Chars) /\ ~ BeyondPrefix(file[j].value)
    BY <1>1, <1>7, PatternAssumption
  <2> QED BY <2>1, PlainMatches
<1> HIDE DEF N, R, V, n
<1>10. \A i \in N, j \in V : Together(N, V, i, j) <=> Together(N, R, i, j)
  <2> SUFFICES ASSUME NEW i \in N, NEW j \in V
               PROVE  Together(N, V, i, j) <=> Together(N, R, i, j)
    OBVIOUS
  <2>1. Together(N, R, i, j) => Together(N, V, i, j)
    BY <1>1 DEF Together
  <2>2. ASSUME Together(N, V, i, j), NEW k \in R, NEW l \in N, i < k, k < l, l < j
        PROVE  FALSE
    BY <1>4, <2>2 DEF Together
  <2> QED BY <2>1, <2>2 DEF Together
<1>11. ASSUME counts # {}
       PROVE  \E f \in counts : first = {f} /\ \A i \in counts : f <= i
  <2>1. counts \in SUBSET N /\ counts \in SUBSET Nat
    <3>1. counts \in SUBSET N
      OBVIOUS
    <3>2. N \in SUBSET Nat
      BY <1>1
    <3> HIDE DEF counts
    <3> QED BY <3>1, <3>2
  <2>2. PICK f \in counts : \A i \in counts : f <= i
    <3> HIDE DEF counts
    <3> QED BY <1>11, <2>1, LeastNatural
  <2>3. \E s \in Nat : \A k \in N : /\ Nearness(file[k]) <= s
                                    /\ Nearness(file[k]) = s <=> k \in counts
    <3>1. CASE ours # {}
      <4>1. Specificity[Token] \in Nat
        BY SpecificityAssumption
      <4>2. ASSUME NEW k \in N
            PROVE  /\ Nearness(file[k]) <= Specificity[Token]
                   /\ Nearness(file[k]) = Specificity[Token] <=> k \in counts
        <5>1. CASE file[k].value = Token
          BY <1>8, <3>1, <4>1, <5>1
        <5>2. CASE file[k].value # Token
          BY <1>6, <1>8, <3>1, <4>1, <5>2, SpecificityAssumption
        <5> QED BY <5>1, <5>2
      <4> QED BY <4>1, <4>2
    <3>2. CASE ours = {}
      <4>1. ASSUME NEW k \in N
            PROVE  Nearness(file[k]) <= 0 /\ (Nearness(file[k]) = 0 <=> k \in counts)
        <5>1. CASE file[k].value = "*"
          BY <1>8, <3>2, <5>1, SpecificityAssumption
        <5>2. CASE file[k].value # "*"
          BY <1>6, <1>8, <3>2, <5>2
        <5> QED BY <5>1, <5>2
      <4> QED BY <4>1
    <3> QED BY <3>1, <3>2
  <2>4. PICK s \in Nat : \A k \in N : /\ Nearness(file[k]) <= s
                                      /\ Nearness(file[k]) = s <=> k \in counts
    BY <2>3
  <2> HIDE DEF counts
  <2>5. f \in first
    <3>1. f \in N /\ Nearness(file[f]) = s
      BY <2>1, <2>4
    <3>2. ASSUME NEW k \in N, k < f PROVE Nearness(file[k]) < s
      <4>1. k \notin counts /\ Nearness(file[k]) \in Int
        BY <1>8, <2>1, <2>2, <3>2
      <4> QED BY <2>4, <4>1
    <3> QED BY <1>3, <2>4, <3>1, <3>2
  <2>6. ASSUME NEW i \in first PROVE i = f
    <3>0. f \in N /\ Nearness(file[f]) = s
      BY <2>1, <2>4
    <3>1. i \in N /\ f \in N /\ s <= Nearness(file[i]) /\ Nearness(file[i]) \in Int
      <4>1. i \in N /\ Nearness(file[f]) <= Nearness(file[i])
        BY <1>3, <2>6, <3>0
      <4> QED BY <1>8, <3>0, <4>1
    <3>2. i \in counts
      BY <2>4, <3>1
    <3>3. ~ f < i
      BY <1>3, <2>4, <2>6, <3>0, <3>1, <3>2
    <3> QED BY <2>1, <2>2, <3>2, <3>3
  <2> HIDE DEF first
  <2> QED BY <2>2, <2>5, <2>6
<1>12. ASSUME counts = {} PROVE first = {}
  <2>1. \A i \in N : ~ Nearness(file[i]) >= 0
    BY <1>6, <1>12
  <2> QED BY <1>3, <2>1
<1>13. \A i \in N : \A j \in N : i \in counts /\ j \in counts =>
         file[i].value = file[j].value /\ Nearness(file[i]) >= 0
  BY <1>8, SpecificityAssumption
<1>14. counts \in SUBSET N
  OBVIOUS
<1> HIDE DEF counts, first, ours, all
<1>15. ASSUME NEW j \in V
       PROVE  (\E i \in first : Together(N, R, i, j)) <=> \E i \in counts : Together(N, R, i, j)
  <2>1. CASE counts = {}
    BY <1>12, <2>1
  <2>2. CASE counts # {}
    <3>1. PICK f \in counts : first = {f} /\ \A i \in counts : f <= i
      BY <1>11, <2>2
    <3>2. ASSUME NEW i \in counts, Together(N, R, i, j) PROVE Together(N, R, f, j)
      <4>1. f \in N /\ i \in N /\ f \in Nat /\ i \in Nat /\ j \in Nat /\ f <= i /\ i < j
        BY <1>1, <1>14, <3>1, <3>2 DEF Together
      <4>2. ASSUME NEW k \in R, NEW l \in N, f < k, k < l, l < j PROVE FALSE
        <5>1. k \in Nat /\ k # i /\ ~ i < k
          BY <1>1, <1>2, <3>2, <4>1, <4>2 DEF Together
        <5>2. k < i
          BY <4>1, <5>1
        <5> QED BY <1>5, <1>13, <4>1, <4>2, <5>2
      <4> QED BY <4>1, <4>2 DEF Together
    <3> QED BY <3>1, <3>2
  <2> QED BY <2>1, <2>2
<1>16. first \in SUBSET N
  BY <1>3 DEF first
<1>17. read = standard
  <2>1. \A j \in V : (\E i \in first : Together(Named(file), V, i, j))
                       <=> \E i \in first : Together(N, R, i, j)
    BY <1>3, <1>10, <1>16
  <2>2. standard = {j \in V : /\ \E i \in counts : Together(N, R, i, j)
                              /\ StandardMatches(file[j].value, path)}
    BY <1>1
  <2> QED BY <1>9, <1>15, <2>1, <2>2
<1>18. Reads(file, path) = Decision(file, read)
  BY DEF Reads, first, V
<1>19. StandardAllows(file, path) = Decision(file, standard)
  BY DEF StandardAllows, counts, ours, all, N, R
<1> QED BY <1>17, <1>18, <1>19

\* Where the code allows another thing than RFC 9309, the file departs from it in
\* one of the five listed ways: of no other robots.txt is the parser, the choice
\* of the group or the matcher wrong.
THEOREM RobotsDepartAsListed ==
  ASSUME NEW file \in Seq(Lines), NEW S, NEW path \in Seq(S)
  PROVE  IsAllowed(Parse(file), path) # StandardAllows(file, path) => Departs(file)
BY RobotsReadsEveryFile, DeparturesAreKnown

\* What the runs feed the parser are files.
LEMMA InputIsFile == Spec => [](part = "robots" => input \in Seq(Lines))
<1>1. Init => (part = "robots" => input \in Seq(Lines))
  BY EmptySeq DEF Init
<1>2. (part = "robots" => input \in Seq(Lines)) /\ [Next]_<<part, input>>
        => (part = "robots" => input \in Seq(Lines))'
  <2> SUFFICES ASSUME part = "robots" => input \in Seq(Lines), Next, part' = "robots"
               PROVE  input' \in Seq(Lines)
    OBVIOUS
  <2>1. part = "robots" /\ input \in Seq(Lines)
    BY DEF Next
  <2>2. PICK x \in Alphabet["robots"] : input' = Append(input, x)
    BY <2>1 DEF Next
  <2>3. x \in Lines
    BY <2>2 DEF Alphabet
  <2> QED BY <2>1, <2>2, <2>3, AppendProperties
<1> QED BY <1>1, <1>2, PTL DEF Spec

\* So the run's invariant holds however long the files grow.
THEOREM RobotsStayKnown == Spec => []RobotsMeaningIsKnown
<1>1. (part = "robots" => input \in Seq(Lines)) => RobotsMeaningIsKnown
  <2> SUFFICES ASSUME input \in Seq(Lines), NEW path \in RobotsPaths
               PROVE  /\ IsAllowed(Parse(input), path) = Reads(input, path)
                      /\ IsAllowed(Parse(input), path) # StandardAllows(input, path)
                           => Departs(input)
    BY DEF RobotsMeaningIsKnown
  <2>1. path \in Seq({"/", "a", "b"})
    <3>1. \A x \in {"/", "a", "b"} : <<x>> \in Seq({"/", "a", "b"})
      OBVIOUS
    <3>2. <<"/", "a">> \in Seq({"/", "a", "b"}) /\ <<"/", "b", "a">> \in Seq({"/", "a", "b"})
      OBVIOUS
    <3> QED BY <3>1, <3>2 DEF RobotsPaths
  <2> QED BY <2>1, RobotsReadsEveryFile, RobotsDepartAsListed
<1> QED BY <1>1, InputIsFile, PTL

-----------------------------------------------------------------------------
(* The edit distance.                                                       *)

LEMMA LeastOfThree ==
  ASSUME NEW x \in Nat, NEW y \in Nat, NEW z \in Nat
  PROVE  /\ Min({x, y, z}) \in {x, y, z}
         /\ Min({x, y, z}) <= x /\ Min({x, y, z}) <= y /\ Min({x, y, z}) <= z
<1>1. \E k \in {x, y, z} : \A l \in {x, y, z} : k <= l
  OBVIOUS
<1> QED BY <1>1 DEF Min

\* Of the places of a table for which something does not hold there is a first.
LEMMA FirstPlace ==
  ASSUME NEW m \in Nat, NEW n \in Nat, NEW bad \in SUBSET ((0..m) \X (0..n)), bad # {}
  PROVE  \E i \in 0..m, j \in 0..n :
           /\ <<i, j>> \in bad
           /\ \A k \in 0..m, l \in 0..n : k + l < i + j => <<k, l>> \notin bad
<1> DEFINE sums == {s \in Nat : \E i \in 0..m, j \in 0..n : <<i, j>> \in bad /\ s = i + j}
<1>1. sums \in SUBSET Nat /\ sums # {}
  <2>1. PICK p \in bad : TRUE
    OBVIOUS
  <2>2. PICK i \in 0..m, j \in 0..n : p = <<i, j>>
    OBVIOUS
  <2>3. i + j \in sums
    BY <2>1, <2>2
  <2> QED BY <2>3
<1>2. PICK s \in sums : \A r \in sums : s <= r
  <2> HIDE DEF sums
  <2> QED BY <1>1, LeastNatural
<1>3. PICK i \in 0..m, j \in 0..n : <<i, j>> \in bad /\ s = i + j
  BY <1>2
<1>4. ASSUME NEW k \in 0..m, NEW l \in 0..n, k + l < i + j, <<k, l>> \in bad PROVE FALSE
  <2>1. i \in Nat /\ j \in Nat /\ k \in Nat /\ l \in Nat /\ k + l \in Nat
    OBVIOUS
  <2>2. \E x \in 0..m, y \in 0..n : <<x, y>> \in bad /\ k + l = x + y
    BY <1>4
  <2>3. k + l \in sums
    BY <2>1, <2>2
  <2>4. s <= k + l
    <3> HIDE DEF sums
    <3> QED BY <1>2, <2>3
  <2> QED BY <1>3, <1>4, <2>1, <2>4
<1> QED BY <1>3, <1>4

Differs(a, b, i, j) == IF a[i] = b[j] THEN 0 ELSE 1

\* The row that follows previous has an entry for every prefix of b.
IsRow(previous, i, a, b, n, row) ==
  row = [j \in 0..n |->
           IF j = 0 THEN i
           ELSE Min({row[j-1] + 1, previous[j] + 1, previous[j-1] + Differs(a, b, i, j)})]

LEMMA RowExists ==
  ASSUME NEW previous, NEW i, NEW a, NEW b, NEW n \in Nat
  PROVE  \E row : IsRow(previous, i, a, b, n, row)
<1> DEFINE bad == {k \in 0..n : ~ \E row : IsRow(previous, i, a, b, k, row)}
<1>1. SUFFICES ASSUME bad # {} PROVE FALSE
  OBVIOUS
<1>2. PICK k \in bad : \A l \in bad : k <= l
  <2>1. bad \in SUBSET Nat
    OBVIOUS
  <2> HIDE DEF bad
  <2> QED BY <1>1, <2>1, LeastNatural
<1>3. k \in 0..n /\ ~ \E row : IsRow(previous, i, a, b, k, row)
  BY <1>2
<1>4. CASE k = 0
  <2> DEFINE row == [j \in 0..k |-> i]
  <2>1. IsRow(previous, i, a, b, k, row)
    BY <1>4 DEF IsRow
  <2> QED BY <1>3, <2>1
<1>5. CASE k > 0
  <2>1. k - 1 \in 0..n /\ k - 1 \notin bad
    <3>1. k - 1 \in 0..n /\ ~ k <= k - 1
      BY <1>3, <1>5
    <3> HIDE DEF bad
    <3> QED BY <1>2, <3>1
  <2>2. PICK short : IsRow(previous, i, a, b, k - 1, short)
    BY <2>1
  <2> DEFINE last == Min({short[k-1] + 1, previous[k] + 1, previous[k-1] + Differs(a, b, i, k)})
             row == [j \in 0..k |-> IF j = k THEN last ELSE short[j]]
  <2>3. ASSUME NEW j \in 0..k
        PROVE  row[j] = IF j = 0 THEN i
                        ELSE Min({row[j-1] + 1, previous[j] + 1,
                                  previous[j-1] + Differs(a, b, i, j)})
    <3>1. CASE j = k
      <4>1. row[j] = last /\ row[j-1] = short[k-1]
        BY <1>3, <1>5, <3>1
      <4> HIDE DEF row
      <4> QED BY <1>5, <3>1, <4>1
    <3>2. CASE j # k
      <4>1. j \in 0..(k - 1) /\ row[j] = short[j] /\ (j # 0 => row[j-1] = short[j-1])
        BY <1>3, <1>5, <3>2
      <4>2. short[j] = IF j = 0 THEN i
                       ELSE Min({short[j-1] + 1, previous[j] + 1,
                                 previous[j-1] + Differs(a, b, i, j)})
        BY <2>2, <4>1 DEF IsRow
      <4> HIDE DEF row
      <4> QED BY <4>1, <4>2
    <3> QED BY <3>1, <3>2
  <2>4. row = [j \in 0..k |-> row[j]]
    OBVIOUS
  <2>5. IsRow(previous, i, a, b, k, row)
    <3> HIDE DEF row
    <3> QED BY <2>3, <2>4 DEF IsRow
  <2> QED BY <1>3, <2>5
<1> QED BY <1>3, <1>4, <1>5

LEMMA NextRowIsRow ==
  ASSUME NEW previous, NEW i, NEW a, NEW S, NEW b \in Seq(S)
  PROVE  IsRow(previous, i, a, b, Len(b), NextRow(previous, i, a, b))
<1> DEFINE row == CHOOSE row : IsRow(previous, i, a, b, Len(b), row)
<1>1. Len(b) \in Nat
  BY LenProperties
<1>2. IsRow(previous, i, a, b, Len(b), row)
  BY <1>1, RowExists
<1>3. NextRow(previous, i, a, b) = row
  BY DEF NextRow, IsRow, Differs
<1> QED BY <1>2, <1>3

\* d is the table of distances: its entry at i and j is that of the first i
\* letters of a and the first j letters of b.
At(d, i, j) == d[i][j]
Distances(a, b, d) ==
  /\ \A j \in 0..Len(b) : At(d, 0, j) = j
  /\ \A i \in 1..Len(a) :
       /\ At(d, i, 0) = i
       /\ \A j \in 1..Len(b) :
            At(d, i, j) = Min({At(d, i, j-1) + 1, At(d, i-1, j) + 1,
                               At(d, i-1, j-1) + Differs(a, b, i, j)})

LEMMA LevenshteinFillsTable ==
  ASSUME NEW S, NEW a \in Seq(S), NEW b \in Seq(S)
  PROVE  \E d : Distances(a, b, d) /\ Levenshtein(a, b) = At(d, Len(a), Len(b))
<1> DEFINE m == Len(a)
           D == 1..m
           fold == OfRows(a, b)
           places == [i \in DOMAIN a |-> i]
           Table(g) == [s \in SUBSET D |->
                          IF s = {} THEN [j \in 0..Len(b) |-> j]
                          ELSE NextRow(g[s \ {Max(s)}], places[Max(s)], a, b)]
           h == CHOOSE g : g = Table(g)
<1>1. m \in Nat /\ Len(b) \in Nat /\ DOMAIN a = D /\ DOMAIN places = D
      /\ \A i \in D : places[i] = i
  BY LenProperties
<1>2. /\ Start(fold) = [j \in 0..Len(b) |-> j]
      /\ \A row, i : Step(fold, row, i) = NextRow(row, i, a, b)
  BY DEF Start, Step, OfRows
<1> HIDE DEF fold
<1>3. FoldTable(fold, places, D, h)
  <2>1. ASSUME NEW g PROVE FoldTable(fold, places, D, g) <=> g = Table(g)
    <3> HIDE DEF places
    <3> QED BY <1>2 DEF FoldTable
  <2>2. \E g : FoldTable(fold, places, D, g)
    <3> HIDE DEF places
    <3> QED BY <1>1, FoldTableExists
  <2> HIDE DEF Table
  <2> QED BY <2>1, <2>2
<1>4. FoldLeft(LAMBDA row, i : NextRow(row, i, a, b), [j \in 0..Len(b) |-> j], places) = h[D]
  BY <1>1 DEF FoldLeft, MapThenFoldSet
<1> DEFINE d == [i \in 0..m |-> h[1..i]]
<1>5. d[0] = [j \in 0..Len(b) |-> j]
  <2>1. 1..0 = {} /\ {} \in SUBSET D /\ 0 \in 0..m
    BY <1>1
  <2>2. h[{}] = Start(fold)
    <3> HIDE DEF places, h
    <3> QED BY <1>3, <2>1 DEF FoldTable
  <2> HIDE DEF places, h
  <2> QED BY <1>2, <2>1, <2>2
<1>6. ASSUME NEW i \in D PROVE d[i] = NextRow(d[i - 1], i, a, b)
  <2>1. /\ i \in Nat /\ i - 1 \in Nat /\ 1..i # {} /\ 1..i \in SUBSET D
        /\ i \in 0..m /\ i - 1 \in 0..m
    <3>1. i \in Nat /\ 1 <= i /\ i <= m
      BY <1>1
    <3>2. i - 1 \in Nat /\ i \in 0..m /\ i - 1 \in 0..m
      BY <1>1, <3>1
    <3>3. i \in 1..i /\ 1..i \in SUBSET (1..m)
      BY <1>1, <3>1
    <3> QED BY <3>1, <3>2, <3>3
  <2>2. Max(1..i) = i /\ (1..i) \ {i} = 1..(i - 1)
    BY <2>1, MaxOfInterval
  <2>3. h[1..i] = Step(fold, h[(1..i) \ {Max(1..i)}], places[Max(1..i)])
    <3> HIDE DEF places, h
    <3> QED BY <1>3, <2>1 DEF FoldTable
  <2>4. h[1..i] = Step(fold, h[1..(i - 1)], i)
    BY <1>1, <2>2, <2>3
  <2> HIDE DEF places, h
  <2> QED BY <1>2, <2>1, <2>4
<1>7. Distances(a, b, d)
  <2> HIDE DEF d
  <2>1. \A j \in 0..Len(b) : At(d, 0, j) = j
    BY <1>5 DEF At
  <2>2. ASSUME NEW i \in D
        PROVE  /\ At(d, i, 0) = i
               /\ \A j \in 1..Len(b) :
                    At(d, i, j) = Min({At(d, i, j-1) + 1, At(d, i-1, j) + 1, At(d, i-1, j-1) + Differs(a, b, i, j)})
    <3> DEFINE row      == d[i]
               previous == d[i - 1]
    <3>1. IsRow(previous, i, a, b, Len(b), row)
      BY <1>6, NextRowIsRow
    <3>2. /\ At(d, i, 0) = row[0]
          /\ \A j \in 1..Len(b) : /\ At(d, i, j) = row[j] /\ At(d, i, j-1) = row[j-1]
                                  /\ At(d, i-1, j) = previous[j]
                                  /\ At(d, i-1, j-1) = previous[j-1]
      BY DEF At
    <3> HIDE DEF row, previous
    <3>3. /\ row[0] = i
          /\ \A j \in 1..Len(b) :
               row[j] = Min({row[j-1] + 1, previous[j] + 1, previous[j-1] + Differs(a, b, i, j)})
      <4>1. 0 \in 0..Len(b)
        BY <1>1
      <4>2. row[0] = i
        BY <3>1, <4>1 DEF IsRow
      <4>3. ASSUME NEW j \in 1..Len(b)
            PROVE  row[j] = Min({row[j-1] + 1, previous[j] + 1,
                                 previous[j-1] + Differs(a, b, i, j)})
        <5>1. j \in 0..Len(b) /\ j # 0
          BY <1>1
        <5> QED BY <3>1, <5>1 DEF IsRow
      <4> QED BY <4>2, <4>3
    <3> QED BY <3>2, <3>3
  <2> QED BY <2>1, <2>2 DEF Distances
<1>8. Levenshtein(a, b) = At(d, m, Len(b))
  <2>1. d[m] = h[D] /\ m \in 0..m /\ 0 \in 0..Len(b) /\ Len(b) \in 0..Len(b)
    BY <1>1
  <2> HIDE DEF d, h
  <2>2. Levenshtein(a, b) =
          IF a = << >> THEN Len(b) ELSE IF b = << >> THEN m ELSE At(d, m, Len(b))
    BY <1>4, <2>1 DEF Levenshtein, At
  <2>3. CASE a = << >>
    BY <1>5, <2>1, <2>2, <2>3, EmptySeq DEF At
  <2>4. CASE a # << >> /\ b = << >>
    <3>1. Len(b) = 0 /\ m \in 1..m
      BY <1>1, <2>4, EmptySeq
    <3> QED BY <1>7, <2>2, <2>4, <3>1 DEF Distances
  <2> QED BY <2>2, <2>3, <2>4
<1> QED BY <1>7, <1>8

LEMMA DistancesAreNatural ==
  ASSUME NEW S, NEW a \in Seq(S), NEW b \in Seq(S), NEW d, Distances(a, b, d)
  PROVE  \A i \in 0..Len(a), j \in 0..Len(b) : At(d, i, j) \in Nat
<1> DEFINE m == Len(a)
           n == Len(b)
           bad == {p \in (0..m) \X (0..n) : At(d, p[1], p[2]) \notin Nat}
<1>1. m \in Nat /\ n \in Nat
  BY LenProperties
<1> HIDE DEF m, n
<1>2. SUFFICES ASSUME bad # {} PROVE FALSE
  <2>1. ASSUME NEW i \in 0..m, NEW j \in 0..n, At(d, i, j) \notin Nat PROVE <<i, j>> \in bad
    BY <2>1
  <2> QED BY <2>1 DEF m, n
<1>3. PICK i \in 0..m, j \in 0..n :
        <<i, j>> \in bad /\ \A k \in 0..m, l \in 0..n : k + l < i + j => <<k, l>> \notin bad
  <2>1. bad \in SUBSET ((0..m) \X (0..n))
    OBVIOUS
  <2> HIDE DEF bad
  <2> QED BY <1>1, <1>2, <2>1, FirstPlace
<1>4. At(d, i, j) \notin Nat
      /\ \A k \in 0..m, l \in 0..n : k + l < i + j => At(d, k, l) \in Nat
  BY <1>3
<1>5. CASE i = 0 \/ j = 0
  <2>1. At(d, i, j) = IF i = 0 THEN j ELSE i
    <3>1. i = 0 \/ i \in 1..m
      BY <1>1
    <3> QED BY <1>5, <3>1 DEF Distances, m, n
  <2> QED BY <1>1, <1>4, <2>1
<1>6. CASE i # 0 /\ j # 0
  <2>1. /\ i \in 1..m /\ j \in 1..n /\ i - 1 \in 0..m /\ j - 1 \in 0..n
        /\ i + (j - 1) < i + j /\ (i - 1) + j < i + j /\ (i - 1) + (j - 1) < i + j
    BY <1>1, <1>6
  <2>2. At(d, i, j-1) + 1 \in Nat /\ At(d, i-1, j) + 1 \in Nat /\ At(d, i-1, j-1) + Differs(a, b, i, j) \in Nat
    <3>1. At(d, i, j-1) \in Nat /\ At(d, i-1, j) \in Nat /\ At(d, i-1, j-1) \in Nat
      BY <1>4, <2>1
    <3> QED BY <3>1 DEF Differs
  <2>3. At(d, i, j) \in {At(d, i, j-1) + 1, At(d, i-1, j) + 1, At(d, i-1, j-1) + Differs(a, b, i, j)}
    <3>1. At(d, i, j) = Min({At(d, i, j-1) + 1, At(d, i-1, j) + 1, At(d, i-1, j-1) + Differs(a, b, i, j)})
      BY <2>1 DEF Distances, m, n
    <3> QED BY <2>2, <3>1, LeastOfThree
  <2> QED BY <1>4, <2>2, <2>3
<1> QED BY <1>5, <1>6

\* What an entry of the table is, once its neighbours are numbers.
LEMMA DistanceSteps ==
  ASSUME NEW S, NEW a \in Seq(S), NEW b \in Seq(S), NEW d, Distances(a, b, d),
         NEW i \in 1..Len(a), NEW j \in 1..Len(b)
  PROVE  LET left   == At(d, i, j-1) + 1
             above  == At(d, i-1, j) + 1
             corner == At(d, i-1, j-1) + Differs(a, b, i, j)
         IN  /\ At(d, i, j) \in {left, above, corner}
             /\ At(d, i, j) <= left /\ At(d, i, j) <= above /\ At(d, i, j) <= corner
<1>1. /\ Len(a) \in Nat /\ Len(b) \in Nat /\ i \in 0..Len(a) /\ j \in 0..Len(b)
      /\ i - 1 \in 0..Len(a) /\ j - 1 \in 0..Len(b)
  BY LenProperties
<1>2. At(d, i, j-1) \in Nat /\ At(d, i-1, j) \in Nat /\ At(d, i-1, j-1) \in Nat
  BY <1>1, DistancesAreNatural
<1>3. At(d, i, j-1) + 1 \in Nat /\ At(d, i-1, j) + 1 \in Nat /\ At(d, i-1, j-1) + Differs(a, b, i, j) \in Nat
  BY <1>2 DEF Differs
<1>4. At(d, i, j) = Min({At(d, i, j-1) + 1, At(d, i-1, j) + 1, At(d, i-1, j-1) + Differs(a, b, i, j)})
  BY DEF Distances
<1> QED BY <1>3, <1>4, LeastOfThree

-----------------------------------------------------------------------------
(* Alignments of prefixes.                                                  *)

\* The alignments of the first i letters of a with the first j of b, and what
\* they cost.
Within(a, b, i, j) == {p \in Alignments(a, b) : \A x \in p : x[1] <= i /\ x[2] <= j}
Unequal(a, b, p) == {x \in p : a[x[1]] # b[x[2]]}
CostWithin(a, b, i, j, p) == i + j - 2 * Cardinality(p) + Cardinality(Unequal(a, b, p))

LEMMA AlignmentsAreFinite ==
  ASSUME NEW S, NEW a \in Seq(S), NEW b \in Seq(S), NEW p \in Alignments(a, b)
  PROVE  /\ IsFiniteSet(p) /\ IsFiniteSet(Unequal(a, b, p))
         /\ Cardinality(p) \in Nat /\ Cardinality(Unequal(a, b, p)) \in Nat
         /\ p \in SUBSET ((1..Len(a)) \X (1..Len(b)))
<1>1. /\ Len(a) \in Nat /\ Len(b) \in Nat /\ DOMAIN a = 1..Len(a) /\ DOMAIN b = 1..Len(b)
  BY LenProperties
<1>2. IsFiniteSet(1..Len(a)) /\ IsFiniteSet(1..Len(b))
  BY <1>1, FS_Interval
<1>3. p \in SUBSET ((1..Len(a)) \X (1..Len(b))) /\ Unequal(a, b, p) \in SUBSET p
  BY <1>1 DEF Alignments, Unequal
<1>4. IsFiniteSet((1..Len(a)) \X (1..Len(b)))
  BY <1>2, FS_Product
<1>5. IsFiniteSet(p)
  BY <1>3, <1>4, FS_Subset
<1>6. IsFiniteSet(Unequal(a, b, p))
  BY <1>3, <1>5, FS_Subset
<1> QED BY <1>3, <1>5, <1>6, FS_CardinalityType

\* The last letters of two prefixes can be paired with each other.
LEMMA PairLast ==
  ASSUME NEW S, NEW a \in Seq(S), NEW b \in Seq(S), NEW i \in 1..Len(a), NEW j \in 1..Len(b),
         NEW p \in Within(a, b, i - 1, j - 1)
  PROVE  LET q == p \union {<<i, j>>}
         IN  /\ q \in Within(a, b, i, j)
             /\ CostWithin(a, b, i, j, q) =
                  CostWithin(a, b, i - 1, j - 1, p) + Differs(a, b, i, j)
<1> DEFINE x == <<i, j>>
           q == p \union {x}
<1>1. /\ Len(a) \in Nat /\ Len(b) \in Nat /\ i \in Nat /\ j \in Nat
      /\ DOMAIN a = 1..Len(a) /\ DOMAIN b = 1..Len(b)
  BY LenProperties
<1>2. /\ p \in Alignments(a, b) /\ p \in SUBSET ((1..Len(a)) \X (1..Len(b)))
      /\ \A y \in p : y[1] <= i - 1 /\ y[2] <= j - 1
      /\ IsFiniteSet(p) /\ IsFiniteSet(Unequal(a, b, p))
      /\ Cardinality(p) \in Nat /\ Cardinality(Unequal(a, b, p)) \in Nat
  BY AlignmentsAreFinite DEF Within
<1>3. \A y \in p : y[1] \in Nat /\ y[2] \in Nat /\ y[1] < i /\ y[2] < j
  BY <1>1, <1>2
<1>4. x \notin p /\ x \notin Unequal(a, b, p) /\ x[1] = i /\ x[2] = j
      /\ x \in (DOMAIN a) \X (DOMAIN b)
  BY <1>1, <1>3 DEF Unequal
<1> HIDE DEF x
<1>5. q \in Alignments(a, b)
  <2>1. q \in SUBSET ((DOMAIN a) \X (DOMAIN b))
    BY <1>1, <1>2, <1>4
  <2>2. ASSUME NEW y \in q, NEW z \in q, y # z
        PROVE  (y[1] < z[1] /\ y[2] < z[2]) \/ (z[1] < y[1] /\ z[2] < y[2])
    <3>1. CASE y \in p /\ z \in p
      BY <1>2, <2>2, <3>1 DEF Alignments
    <3>2. CASE y \in p /\ z = x
      BY <1>3, <1>4, <3>2
    <3>3. CASE y = x /\ z \in p
      BY <1>3, <1>4, <3>3
    <3> QED BY <2>2, <3>1, <3>2, <3>3
  <2> HIDE DEF q
  <2> QED BY <2>1, <2>2 DEF Alignments
<1>6. \A y \in q : y[1] <= i /\ y[2] <= j
  BY <1>1, <1>3, <1>4
<1>7. Cardinality(q) = Cardinality(p) + 1
  BY <1>2, <1>4, FS_AddElement
<1>8. Cardinality(Unequal(a, b, q)) = Cardinality(Unequal(a, b, p)) + Differs(a, b, i, j)
  <2>1. CASE a[i] = b[j]
    <3>1. Unequal(a, b, q) = Unequal(a, b, p)
      BY <1>4, <2>1 DEF Unequal
    <3> QED BY <1>2, <2>1, <3>1 DEF Differs
  <2>2. CASE a[i] # b[j]
    <3>1. Unequal(a, b, q) = Unequal(a, b, p) \union {x}
      BY <1>4, <2>2 DEF Unequal
    <3>2. Cardinality(Unequal(a, b, p) \union {x}) = Cardinality(Unequal(a, b, p)) + 1
      BY <1>2, <1>4, FS_AddElement
    <3> QED BY <2>2, <3>1, <3>2 DEF Differs
  <2> QED BY <2>1, <2>2
<1>9. q \in Within(a, b, i, j)
  BY <1>5, <1>6 DEF Within
<1>10. CostWithin(a, b, i, j, q) = CostWithin(a, b, i - 1, j - 1, p) + Differs(a, b, i, j)
  <2>1. Differs(a, b, i, j) \in Nat
    BY DEF Differs
  <2> HIDE DEF q
  <2> QED BY <1>1, <1>2, <1>7, <1>8, <2>1 DEF CostWithin
<1> QED BY <1>9, <1>10 DEF x

\* An alignment leaves out one of the last letters, or pairs them.
LEMMA WithinSplits ==
  ASSUME NEW S, NEW a \in Seq(S), NEW b \in Seq(S), NEW i \in 1..Len(a), NEW j \in 1..Len(b),
         NEW q \in Within(a, b, i, j)
  PROVE  \/ q \in Within(a, b, i - 1, j)
         \/ q \in Within(a, b, i, j - 1)
         \/ <<i, j>> \in q /\ q \ {<<i, j>>} \in Within(a, b, i - 1, j - 1)
<1>1. /\ q \in Alignments(a, b) /\ \A y \in q : y[1] <= i /\ y[2] <= j
      /\ q \in SUBSET ((1..Len(a)) \X (1..Len(b)))
  BY AlignmentsAreFinite DEF Within
<1>2. /\ Len(a) \in Nat /\ Len(b) \in Nat /\ i \in Nat /\ j \in Nat
  BY LenProperties
<1>3. \A y \in q : y[1] \in Nat /\ y[2] \in Nat /\ y = <<y[1], y[2]>>
  BY <1>1, <1>2
<1>4. \A y, z \in q : y # z => (y[1] < z[1] /\ y[2] < z[2]) \/ (z[1] < y[1] /\ z[2] < y[2])
  BY <1>1 DEF Alignments
<1>5. CASE \A y \in q : y[1] # i
  <2>1. \A y \in q : y[1] <= i - 1 /\ y[2] <= j
    BY <1>1, <1>2, <1>3, <1>5
  <2> QED BY <1>1, <2>1 DEF Within
<1>6. CASE \A y \in q : y[2] # j
  <2>1. \A y \in q : y[1] <= i /\ y[2] <= j - 1
    BY <1>1, <1>2, <1>3, <1>6
  <2> QED BY <1>1, <2>1 DEF Within
<1>7. ASSUME NEW y \in q, y[1] = i, NEW z \in q, z[2] = j
      PROVE  <<i, j>> \in q /\ q \ {<<i, j>>} \in Within(a, b, i - 1, j - 1)
  <2>1. y = z
    <3>1. /\ z[1] <= i /\ y[2] <= j
          /\ y[1] \in Nat /\ y[2] \in Nat /\ z[1] \in Nat /\ z[2] \in Nat
      BY <1>1, <1>3
    <3> QED BY <1>2, <1>4, <1>7, <3>1
  <2>2. y = <<i, j>>
    BY <1>3, <1>7, <2>1
  <2>3. \A x \in q \ {<<i, j>>} : x[1] <= i - 1 /\ x[2] <= j - 1
    <3> SUFFICES ASSUME NEW x \in q, x # y PROVE x[1] <= i - 1 /\ x[2] <= j - 1
      BY <2>2
    <3>1. /\ x[1] <= i /\ x[2] <= j /\ x[1] \in Nat /\ x[2] \in Nat
          /\ y[1] = i /\ y[2] = j
      BY <1>1, <1>3, <1>7, <2>1
    <3>2. (y[1] < x[1] /\ y[2] < x[2]) \/ (x[1] < y[1] /\ x[2] < y[2])
      BY <1>4, <1>7
    <3> QED BY <1>2, <3>1, <3>2
  <2>4. q \ {<<i, j>>} \in Alignments(a, b)
    BY <1>1 DEF Alignments
  <2> QED BY <1>7, <2>2, <2>3, <2>4 DEF Within
<1> QED BY <1>5, <1>6, <1>7

\* The entry of the table is the cost of the cheapest alignment of the prefixes.
CheapestWithin(a, b, d, i, j) ==
  /\ \E p \in Within(a, b, i, j) : CostWithin(a, b, i, j, p) = At(d, i, j)
  /\ \A p \in Within(a, b, i, j) : CostWithin(a, b, i, j, p) >= At(d, i, j)

\* A prefix that is empty has one alignment, which pairs nothing.
LEMMA CheapestAtEdge ==
  ASSUME NEW S, NEW a \in Seq(S), NEW b \in Seq(S), NEW d, Distances(a, b, d),
         NEW i \in 0..Len(a), NEW j \in 0..Len(b), i = 0 \/ j = 0
  PROVE  CheapestWithin(a, b, d, i, j)
<1>1. Len(a) \in Nat /\ Len(b) \in Nat /\ i \in Nat /\ j \in Nat
  BY LenProperties
<1>2. At(d, i, j) = i + j
  <2>1. i = 0 \/ i \in 1..Len(a)
    BY <1>1
  <2> QED BY <1>1, <2>1 DEF Distances
<1>3. {} \in Within(a, b, i, j)
  BY DEF Within, Alignments
<1>4. ASSUME NEW p \in Within(a, b, i, j) PROVE p = {}
  <2>1. /\ p \in SUBSET ((1..Len(a)) \X (1..Len(b)))
        /\ \A x \in p : x[1] <= i /\ x[2] <= j
    BY AlignmentsAreFinite DEF Within
  <2>2. \A x \in p : x[1] \in 1..Len(a) /\ x[2] \in 1..Len(b)
    BY <2>1
  <2> QED BY <1>1, <2>1, <2>2
<1>5. CostWithin(a, b, i, j, {}) = i + j
  <2>1. Unequal(a, b, {}) = {} /\ Cardinality({}) = 0
    BY FS_EmptySet DEF Unequal
  <2>2. CostWithin(a, b, i, j, {}) = i + j - 2 * 0 + 0
    BY <2>1 DEF CostWithin
  <2> QED BY <1>1, <2>2
<1>6. i + j \in Nat /\ i + j >= i + j
  BY <1>1
<1> QED BY <1>2, <1>3, <1>4, <1>5, <1>6 DEF CheapestWithin

\* Leaving out a letter costs one more.
LEMMA LeaveOut ==
  ASSUME NEW S, NEW a \in Seq(S), NEW b \in Seq(S), NEW i \in Nat, NEW j \in Nat,
         NEW k \in Nat, NEW l \in Nat, k <= i, l <= j, k + l + 1 = i + j,
         NEW p \in Within(a, b, k, l)
  PROVE  /\ p \in Within(a, b, i, j)
         /\ CostWithin(a, b, i, j, p) = CostWithin(a, b, k, l, p) + 1
         /\ CostWithin(a, b, k, l, p) \in Int
<1>1. /\ p \in Alignments(a, b) /\ p \in SUBSET ((1..Len(a)) \X (1..Len(b)))
      /\ \A x \in p : x[1] <= k /\ x[2] <= l
      /\ Cardinality(p) \in Nat /\ Cardinality(Unequal(a, b, p)) \in Nat
  BY AlignmentsAreFinite DEF Within
<1>2. \A x \in p : x[1] \in Int /\ x[2] \in Int
  BY <1>1
<1>3. \A x \in p : x[1] <= i /\ x[2] <= j
  BY <1>1, <1>2
<1>4. p \in Within(a, b, i, j)
  BY <1>1, <1>3 DEF Within
<1>5. CostWithin(a, b, i, j, p) = CostWithin(a, b, k, l, p) + 1
      /\ CostWithin(a, b, k, l, p) \in Int
  <2> DEFINE c == Cardinality(p)
             u == Cardinality(Unequal(a, b, p))
  <2>1. c \in Nat /\ u \in Nat
    BY <1>1
  <2>2. /\ CostWithin(a, b, i, j, p) = i + j - 2 * c + u
        /\ CostWithin(a, b, k, l, p) = k + l - 2 * c + u
    BY DEF CostWithin
  <2> HIDE DEF c, u
  <2> QED BY <2>1, <2>2
<1> QED BY <1>4, <1>5

LEMMA CheapestInside ==
  ASSUME NEW S, NEW a \in Seq(S), NEW b \in Seq(S), NEW d, Distances(a, b, d),
         NEW i \in 1..Len(a), NEW j \in 1..Len(b),
         CheapestWithin(a, b, d, i, j - 1), CheapestWithin(a, b, d, i - 1, j),
         CheapestWithin(a, b, d, i - 1, j - 1)
  PROVE  CheapestWithin(a, b, d, i, j)
<1>1. /\ Len(a) \in Nat /\ Len(b) \in Nat /\ i \in Nat /\ j \in Nat
      /\ i - 1 \in Nat /\ j - 1 \in Nat /\ i - 1 <= i /\ j - 1 <= j /\ i <= i /\ j <= j
      /\ i - 1 + j + 1 = i + j /\ i + (j - 1) + 1 = i + j
      /\ i \in 0..Len(a) /\ j \in 0..Len(b) /\ i - 1 \in 0..Len(a) /\ j - 1 \in 0..Len(b)
  BY LenProperties
<1>2. /\ At(d, i, j) \in Nat /\ At(d, i, j-1) \in Nat /\ At(d, i-1, j) \in Nat /\ At(d, i-1, j-1) \in Nat
      /\ Differs(a, b, i, j) \in Nat
  BY <1>1, DistancesAreNatural DEF Differs
<1>3. /\ \/ At(d, i, j) = At(d, i, j-1) + 1
         \/ At(d, i, j) = At(d, i-1, j) + 1
         \/ At(d, i, j) = At(d, i-1, j-1) + Differs(a, b, i, j)
      /\ At(d, i, j) <= At(d, i, j-1) + 1 /\ At(d, i, j) <= At(d, i-1, j) + 1
      /\ At(d, i, j) <= At(d, i-1, j-1) + Differs(a, b, i, j)
  BY DistanceSteps
<1>4. \E p \in Within(a, b, i, j) : CostWithin(a, b, i, j, p) = At(d, i, j)
  <2>1. CASE At(d, i, j) = At(d, i, j-1) + 1
    <3>1. PICK p \in Within(a, b, i, j - 1) : CostWithin(a, b, i, j - 1, p) = At(d, i, j-1)
      BY DEF CheapestWithin
    <3>2. /\ p \in Within(a, b, i, j)
          /\ CostWithin(a, b, i, j, p) = CostWithin(a, b, i, j - 1, p) + 1
      BY <1>1, <3>1, LeaveOut
    <3> QED BY <2>1, <3>1, <3>2
  <2>2. CASE At(d, i, j) = At(d, i-1, j) + 1
    <3>1. PICK p \in Within(a, b, i - 1, j) : CostWithin(a, b, i - 1, j, p) = At(d, i-1, j)
      BY DEF CheapestWithin
    <3>2. /\ p \in Within(a, b, i, j)
          /\ CostWithin(a, b, i, j, p) = CostWithin(a, b, i - 1, j, p) + 1
      BY <1>1, <3>1, LeaveOut
    <3> QED BY <2>2, <3>1, <3>2
  <2>3. CASE At(d, i, j) = At(d, i-1, j-1) + Differs(a, b, i, j)
    <3>1. PICK p \in Within(a, b, i - 1, j - 1) : CostWithin(a, b, i - 1, j - 1, p) = At(d, i-1, j-1)
      BY DEF CheapestWithin
    <3> QED BY <2>3, <3>1, PairLast
  <2> QED BY <1>3, <2>1, <2>2, <2>3
<1>5. ASSUME NEW p \in Within(a, b, i, j) PROVE CostWithin(a, b, i, j, p) >= At(d, i, j)
  <2>1. CASE p \in Within(a, b, i - 1, j)
    <3>1. CostWithin(a, b, i - 1, j, p) >= At(d, i-1, j)
      BY <2>1 DEF CheapestWithin
    <3>2. /\ CostWithin(a, b, i, j, p) = CostWithin(a, b, i - 1, j, p) + 1
          /\ CostWithin(a, b, i - 1, j, p) \in Int
      BY <1>1, <2>1, LeaveOut
    <3> QED BY <1>2, <1>3, <3>1, <3>2
  <2>2. CASE p \in Within(a, b, i, j - 1)
    <3>1. CostWithin(a, b, i, j - 1, p) >= At(d, i, j-1)
      BY <2>2 DEF CheapestWithin
    <3>2. /\ CostWithin(a, b, i, j, p) = CostWithin(a, b, i, j - 1, p) + 1
          /\ CostWithin(a, b, i, j - 1, p) \in Int
      BY <1>1, <2>2, LeaveOut
    <3> QED BY <1>2, <1>3, <3>1, <3>2
  <2>3. CASE <<i, j>> \in p /\ p \ {<<i, j>>} \in Within(a, b, i - 1, j - 1)
    <3> DEFINE q == p \ {<<i, j>>}
    <3>1. p = q \union {<<i, j>>}
      BY <2>3
    <3>2. CostWithin(a, b, i, j, p) = CostWithin(a, b, i - 1, j - 1, q) + Differs(a, b, i, j)
      BY <2>3, <3>1, PairLast
    <3>3. CostWithin(a, b, i - 1, j - 1, q) >= At(d, i-1, j-1)
      BY <2>3 DEF CheapestWithin
    <3>4. CostWithin(a, b, i - 1, j - 1, q) \in Int
      <4>1. q \in Alignments(a, b)
        BY <2>3 DEF Within
      <4>2. Cardinality(q) \in Nat /\ Cardinality(Unequal(a, b, q)) \in Nat
        BY <4>1, AlignmentsAreFinite
      <4> QED BY <1>1, <4>2 DEF CostWithin
    <3> QED BY <1>2, <1>3, <3>2, <3>3, <3>4
  <2> QED BY <2>1, <2>2, <2>3, WithinSplits
<1> QED BY <1>4, <1>5 DEF CheapestWithin

\* Every entry of the table, by the first place where it is not so.
LEMMA TableIsCheapest ==
  ASSUME NEW S, NEW a \in Seq(S), NEW b \in Seq(S), NEW d, Distances(a, b, d)
  PROVE  \A i \in 0..Len(a), j \in 0..Len(b) : CheapestWithin(a, b, d, i, j)
<1> DEFINE m == Len(a)
           n == Len(b)
           bad == {p \in (0..m) \X (0..n) : ~ CheapestWithin(a, b, d, p[1], p[2])}
<1>1. m \in Nat /\ n \in Nat
  BY LenProperties
<1> HIDE DEF m, n
<1>2. SUFFICES ASSUME bad # {} PROVE FALSE
  <2>1. ASSUME NEW i \in 0..m, NEW j \in 0..n, ~ CheapestWithin(a, b, d, i, j)
        PROVE  <<i, j>> \in bad
    BY <2>1
  <2> QED BY <2>1 DEF m, n
<1>3. PICK i \in 0..m, j \in 0..n :
        <<i, j>> \in bad /\ \A k \in 0..m, l \in 0..n : k + l < i + j => <<k, l>> \notin bad
  <2>1. bad \in SUBSET ((0..m) \X (0..n))
    OBVIOUS
  <2> HIDE DEF bad
  <2> QED BY <1>1, <1>2, <2>1, FirstPlace
<1>4. ~ CheapestWithin(a, b, d, i, j)
      /\ \A k \in 0..m, l \in 0..n : k + l < i + j => CheapestWithin(a, b, d, k, l)
  BY <1>3
<1>5. i # 0 /\ j # 0
  BY <1>4, CheapestAtEdge DEF m, n
<1>6. /\ i \in 1..m /\ j \in 1..n /\ i - 1 \in 0..m /\ j - 1 \in 0..n
      /\ i + (j - 1) < i + j /\ (i - 1) + j < i + j /\ (i - 1) + (j - 1) < i + j
  BY <1>1, <1>5
<1>7. /\ CheapestWithin(a, b, d, i, j - 1) /\ CheapestWithin(a, b, d, i - 1, j)
      /\ CheapestWithin(a, b, d, i - 1, j - 1)
  BY <1>4, <1>6
<1> QED BY <1>4, <1>6, <1>7, CheapestInside DEF m, n

\* levenshtein computes the edit distance of any two words: no alignment of
\* their letters is cheaper, and one costs as much.
THEOREM LevenshteinIsLeast ==
  ASSUME NEW S, NEW a \in Seq(S), NEW b \in Seq(S)
  PROVE  DistanceIsLeast(a, b)
<1> DEFINE m == Len(a)
           n == Len(b)
<1>1. PICK d : Distances(a, b, d) /\ Levenshtein(a, b) = At(d, m, n)
  BY LevenshteinFillsTable
<1>2. m \in Nat /\ n \in Nat /\ m \in 0..m /\ n \in 0..n
  BY LenProperties
<1>3. CheapestWithin(a, b, d, m, n)
  BY <1>1, <1>2, TableIsCheapest
<1>4. Within(a, b, m, n) = Alignments(a, b)
  <2>1. ASSUME NEW p \in Alignments(a, b), NEW x \in p PROVE x[1] <= m /\ x[2] <= n
    <3>1. x[1] \in 1..m /\ x[2] \in 1..n
      BY <2>1, AlignmentsAreFinite
    <3> QED BY <1>2, <3>1
  <2> QED BY <2>1 DEF Within
<1>5. \A p : Cost(a, b, p) = CostWithin(a, b, m, n, p)
  BY DEF Cost, CostWithin, Unequal
<1> QED BY <1>1, <1>3, <1>4, <1>5 DEF CheapestWithin, DistanceIsLeast

\* What the runs compare are words.
LEMMA InputIsWord == Spec => [](part = "words" => input \in Seq(Alphabet["words"]))
<1>1. Init => (part = "words" => input \in Seq(Alphabet["words"]))
  BY EmptySeq DEF Init
<1>2. (part = "words" => input \in Seq(Alphabet["words"])) /\ [Next]_<<part, input>>
        => (part = "words" => input \in Seq(Alphabet["words"]))'
  <2> SUFFICES ASSUME part = "words" => input \in Seq(Alphabet["words"]), Next, part' = "words"
               PROVE  input' \in Seq(Alphabet["words"])
    OBVIOUS
  <2>1. part = "words" /\ input \in Seq(Alphabet["words"])
    BY DEF Next
  <2>2. PICK x \in Alphabet["words"] : input' = Append(input, x)
    BY <2>1 DEF Next
  <2> QED BY <2>1, <2>2, AppendProperties
<1> QED BY <1>1, <1>2, PTL DEF Spec

\* So the run's invariant holds for words of every length.
THEOREM WordsKeepDistance == Spec => []DistancesAreLeast
<1>1. (part = "words" => input \in Seq(Alphabet["words"])) => DistancesAreLeast
  <2> SUFFICES ASSUME NEW S, input \in Seq(S), NEW k \in Cuts
               PROVE  DistanceIsLeast(Before(k), After(k))
    BY DEF DistancesAreLeast
  <2>1. Len(input) \in Nat
    BY LenProperties
  <2>2. k \in Nat /\ k <= Len(input)
    BY <2>1 DEF Cuts
  <2>3. Before(k) \in Seq(S)
    <3>1. \A i \in 1..k : input[i] \in S
      BY <2>1, <2>2, ElementOfSeq
    <3> QED BY <2>1, <2>2, <3>1, SubSeqProperties DEF Before
  <2>4. After(k) \in Seq(S)
    <3>1. \A i \in (k + 1)..Len(input) : input[i] \in S
      BY <2>1, <2>2, ElementOfSeq
    <3> QED BY <2>1, <2>2, <3>1, SubSeqProperties DEF After, Between
  <2> QED BY <2>3, <2>4, LevenshteinIsLeast
<1> QED BY <1>1, InputIsWord, PTL

-----------------------------------------------------------------------------
(* FlattenSeq, as the items of a batch and the bytes of a text use it: it     *)
(* takes one sequence after the other.                                       *)

\* f is the table by which the library flattens the first n sequences of seqs.
FlattenTable(seqs, n, f) ==
  f = [i \in 1..n |-> IF i = 1 THEN seqs[i] ELSE f[i - 1] \o seqs[i]]

LEMMA FlattenTableExists ==
  ASSUME NEW seqs, NEW n \in Nat
  PROVE  \E f : FlattenTable(seqs, n, f)
<1> DEFINE bad == {m \in Nat : ~ \E f : FlattenTable(seqs, m, f)}
<1>1. SUFFICES ASSUME bad # {} PROVE FALSE
  OBVIOUS
<1>2. PICK m \in bad : \A k \in bad : m <= k
  <2>1. bad \in SUBSET Nat
    OBVIOUS
  <2> HIDE DEF bad
  <2> QED BY <1>1, <2>1, LeastNatural
<1>3. m \in Nat /\ ~ \E f : FlattenTable(seqs, m, f)
  BY <1>2
<1>4. m # 0
  <2>1. ASSUME m = 0 PROVE FlattenTable(seqs, m, << >>)
    <3>1. 1..m = {}
      BY <2>1
    <3> QED BY <3>1 DEF FlattenTable
  <2> QED BY <1>3, <2>1
<1>5. PICK f : FlattenTable(seqs, m - 1, f)
  <2>1. m - 1 \in Nat /\ ~ m <= m - 1
    BY <1>3, <1>4
  <2>2. m - 1 \notin bad
    BY <1>2, <2>1
  <2> QED BY <2>1, <2>2
<1> DEFINE next == IF m = 1 THEN seqs[m] ELSE f[m - 1] \o seqs[m]
           g    == [i \in 1..m |-> IF i = m THEN next ELSE f[i]]
<1>6. ASSUME NEW i \in 1..m
      PROVE  g[i] = IF i = 1 THEN seqs[i] ELSE g[i - 1] \o seqs[i]
  <2>1. CASE i = m
    <3>1. g[i] = next
      BY <2>1
    <3>2. i # 1 => i - 1 \in 1..m /\ i - 1 # m
      BY <1>3
    <3>3. i # 1 => g[i - 1] = f[i - 1]
      BY <3>2
    <3> HIDE DEF g
    <3> QED BY <2>1, <3>1, <3>3
  <2>2. CASE i # m
    <3>1. i \in 1..(m - 1) /\ (i # 1 => i - 1 \in 1..m /\ i - 1 # m)
      BY <1>3, <2>2
    <3>2. g[i] = f[i] /\ (i # 1 => g[i - 1] = f[i - 1])
      BY <2>2, <3>1
    <3>3. f[i] = IF i = 1 THEN seqs[i] ELSE f[i - 1] \o seqs[i]
      BY <1>5, <3>1 DEF FlattenTable
    <3> HIDE DEF g
    <3> QED BY <3>2, <3>3
  <2> QED BY <2>1, <2>2
<1>7. FlattenTable(seqs, m, g)
  <2>1. g = [i \in 1..m |-> g[i]]
    OBVIOUS
  <2> HIDE DEF g
  <2> QED BY <1>6, <2>1 DEF FlattenTable
<1> QED BY <1>3, <1>7

LEMMA FlattenTablesAgree ==
  ASSUME NEW s, NEW t, NEW n \in Nat, NEW m \in Nat, NEW f, NEW g,
         FlattenTable(s, n, f), FlattenTable(t, m, g), n <= m, Agree(s, t, 1..n)
  PROVE  Agree(f, g, 1..n)
<1> DEFINE bad == {i \in 1..n : f[i] # g[i]}
<1>1. SUFFICES ASSUME bad # {} PROVE FALSE
  BY DEF Agree
<1>2. PICK i \in bad : \A k \in bad : i <= k
  <2>1. bad \in SUBSET Nat
    OBVIOUS
  <2> HIDE DEF bad
  <2> QED BY <1>1, <2>1, LeastNatural
<1>3. i \in 1..n /\ i \in 1..m /\ f[i] # g[i]
  BY <1>2
<1>4. i # 1 => f[i - 1] = g[i - 1]
  <2>1. i # 1 => i - 1 \in 1..n /\ ~ i <= i - 1
    BY <1>3
  <2> QED BY <1>2, <2>1
<1>5. f[i] = IF i = 1 THEN s[i] ELSE f[i - 1] \o s[i]
  BY <1>3 DEF FlattenTable
<1>6. g[i] = IF i = 1 THEN t[i] ELSE g[i - 1] \o t[i]
  BY <1>3 DEF FlattenTable
<1>7. s[i] = t[i]
  BY <1>3 DEF Agree
<1> QED BY <1>3, <1>4, <1>5, <1>6, <1>7

\* One sequence more.
LEMMA FlattenLonger ==
  ASSUME NEW T, NEW s \in Seq(T), NEW t \in Seq(T), Len(t) = Len(s) + 1,
         \A i \in 1..Len(s) : s[i] = t[i]
  PROVE  FlattenSeq(t) = IF Len(s) = 0 THEN t[1] ELSE FlattenSeq(s) \o t[Len(t)]
<1> DEFINE n == Len(s)
           m == Len(t)
           f == CHOOSE f : FlattenTable(s, n, f)
           g == CHOOSE g : FlattenTable(t, m, g)
<1>1. n \in Nat /\ m \in Nat /\ m = n + 1
  BY LenProperties
<1>2. FlattenTable(s, n, f) /\ FlattenTable(t, m, g)
  <2> HIDE DEF n, m
  <2> QED BY <1>1, FlattenTableExists
<1>3. FlattenSeq(s) = (IF n = 0 THEN s ELSE f[n]) /\ FlattenSeq(t) = g[m]
  BY <1>1 DEF FlattenSeq, FlattenTable
<1> HIDE DEF f, g
<1>4. \A i \in 1..n : f[i] = g[i]
  <2>1. n <= m /\ Agree(s, t, 1..n)
    BY <1>1 DEF Agree
  <2> HIDE DEF n, m
  <2>2. Agree(f, g, 1..n)
    BY <1>1, <1>2, <2>1, FlattenTablesAgree
  <2> QED BY <2>2 DEF Agree
<1>5. g[m] = IF m = 1 THEN t[m] ELSE g[m - 1] \o t[m]
  <2>1. m \in 1..m
    BY <1>1
  <2> HIDE DEF n, m
  <2> QED BY <1>2, <2>1 DEF FlattenTable
<1>6. n # 0 => n \in 1..n /\ m - 1 = n
  BY <1>1
<1> QED BY <1>1, <1>3, <1>4, <1>5, <1>6

LEMMA FlattenNothing ==
  ASSUME NEW T, NEW s \in Seq(T), Len(s) = 0
  PROVE  FlattenSeq(s) = << >>
BY EmptySeq DEF FlattenSeq

LEMMA FlattenOneMore ==
  ASSUME NEW U, NEW s \in Seq(Seq(U)), NEW t \in Seq(Seq(U)), Len(t) = Len(s) + 1,
         \A i \in 1..Len(s) : s[i] = t[i]
  PROVE  FlattenSeq(t) = FlattenSeq(s) \o t[Len(t)]
<1>1. Len(s) \in Nat /\ Len(t) \in 1..Len(t)
  BY LenProperties
<1>2. t[Len(t)] \in Seq(U)
  BY <1>1, ElementOfSeq
<1>3. FlattenSeq(t) = IF Len(s) = 0 THEN t[1] ELSE FlattenSeq(s) \o t[Len(t)]
  BY FlattenLonger
<1>4. CASE Len(s) = 0
  <2>1. FlattenSeq(s) = << >> /\ FlattenSeq(t) = t[Len(t)]
    <3>1. Len(t) = 1
      BY <1>4
    <3> QED BY <1>3, <1>4, <3>1, FlattenNothing
  <2> QED BY <1>2, <2>1, ConcatEmptySeq
<1> QED BY <1>3, <1>4

-----------------------------------------------------------------------------
(* What Selected collects.                                                   *)

\* The chosen places up to n; the rank of a chosen place is how many there are
\* up to it.
UpTo(places, n) == {i \in places : i <= n}
Rank(places, n) == Cardinality(UpTo(places, n))
Pieces(seq, places, n) == [i \in 1..n |-> IF i \in places THEN <<seq[i]>> ELSE << >>]

\* items are what seq has at the chosen places up to n, each at its rank.
Collected(U, seq, places, n, items) ==
  /\ items \in Seq(U)
  /\ Len(items) = Rank(places, n)
  /\ \A i \in UpTo(places, n) : Rank(places, i) \in 1..Len(items) /\ items[Rank(places, i)] = seq[i]

LEMMA PiecesAre ==
  ASSUME NEW U, NEW seq \in Seq(U), NEW places, NEW n \in 0..Len(seq)
  PROVE  /\ Pieces(seq, places, n) \in Seq(Seq(U)) /\ Len(Pieces(seq, places, n)) = n
         /\ \A i \in 1..n : Pieces(seq, places, n)[i] = IF i \in places THEN <<seq[i]>> ELSE << >>
<1>1. n \in Nat /\ n <= Len(seq)
  BY LenProperties
<1>2. ASSUME NEW i \in 1..n
      PROVE  (IF i \in places THEN <<seq[i]>> ELSE << >>) \in Seq(U)
  <2>1. seq[i] \in U
    BY <1>1, ElementOfSeq
  <2> QED BY <2>1, EmptySeq
<1>3. Pieces(seq, places, n) \in [1..n -> Seq(U)]
  BY <1>2 DEF Pieces
<1> QED BY <1>1, <1>3 DEF Pieces

LEMMA RanksAreNatural ==
  ASSUME NEW places \in SUBSET (Nat \ {0}), NEW n \in Nat
  PROVE  IsFiniteSet(UpTo(places, n)) /\ Rank(places, n) \in Nat
<1>1. IsFiniteSet(1..n)
  <2>1. 1 \in Int /\ n \in Int
    OBVIOUS
  <2> QED BY <2>1, FS_Interval
<1>2. UpTo(places, n) \in SUBSET (1..n)
  <2>1. \A i \in places : i \in Nat /\ i # 0
    OBVIOUS
  <2>2. \A i \in Nat : i # 0 /\ i <= n => i \in 1..n
    OBVIOUS
  <2> QED BY <2>1, <2>2 DEF UpTo
<1> QED BY <1>1, <1>2, FS_Subset, FS_CardinalityType DEF Rank

LEMMA RankGrows ==
  ASSUME NEW places \in SUBSET (Nat \ {0}), NEW n \in Nat, n # 0
  PROVE  /\ UpTo(places, n) = IF n \in places THEN UpTo(places, n - 1) \union {n}
                                              ELSE UpTo(places, n - 1)
         /\ Rank(places, n) = Rank(places, n - 1) + IF n \in places THEN 1 ELSE 0
         /\ Rank(places, n - 1) \in Nat
<1>1. n - 1 \in Nat /\ \A i \in Nat : i <= n <=> i <= n - 1 \/ i = n
  OBVIOUS
<1>2. n \notin UpTo(places, n - 1)
  BY DEF UpTo
<1>3. UpTo(places, n) = IF n \in places THEN UpTo(places, n - 1) \union {n}
                                        ELSE UpTo(places, n - 1)
  BY <1>1 DEF UpTo
<1>4. IsFiniteSet(UpTo(places, n - 1)) /\ Rank(places, n - 1) \in Nat
  BY <1>1, RanksAreNatural
<1>5. Cardinality(UpTo(places, n - 1) \union {n}) = Cardinality(UpTo(places, n - 1)) + 1
  BY <1>2, <1>4, FS_AddElement
<1> QED BY <1>3, <1>4, <1>5 DEF Rank

\* One place more.
LEMMA OneItemMore ==
  ASSUME NEW U, NEW seq \in Seq(U), NEW places \in SUBSET (Nat \ {0}), NEW n \in 1..Len(seq),
         Collected(U, seq, places, n - 1, FlattenSeq(Pieces(seq, places, n - 1)))
  PROVE  Collected(U, seq, places, n, FlattenSeq(Pieces(seq, places, n)))
<1> DEFINE old   == FlattenSeq(Pieces(seq, places, n - 1))
           new   == FlattenSeq(Pieces(seq, places, n))
           count == Rank(places, n - 1)
           piece == IF n \in places THEN <<seq[n]>> ELSE << >>
<1>1. n \in Nat /\ n # 0 /\ n - 1 \in 0..Len(seq) /\ n \in 0..Len(seq)
  BY LenProperties
<1>2. seq[n] \in U
  BY ElementOfSeq
<1>3. old \in Seq(U) /\ Len(old) = count /\ count \in Nat
  BY <1>1, RankGrows DEF Collected
<1>4. new = old \o piece
  <2> DEFINE s == Pieces(seq, places, n - 1)
             t == Pieces(seq, places, n)
  <2>1. /\ s \in Seq(Seq(U)) /\ t \in Seq(Seq(U)) /\ Len(s) = n - 1 /\ Len(t) = n
        /\ \A i \in 1..(n - 1) : s[i] = t[i]
        /\ t[n] = piece
    <3>1. /\ s \in Seq(Seq(U)) /\ Len(s) = n - 1
          /\ \A i \in 1..(n - 1) : s[i] = IF i \in places THEN <<seq[i]>> ELSE << >>
      BY <1>1, PiecesAre
    <3>2. /\ t \in Seq(Seq(U)) /\ Len(t) = n
          /\ \A i \in 1..n : t[i] = IF i \in places THEN <<seq[i]>> ELSE << >>
      BY <1>1, PiecesAre
    <3>3. n \in 1..n /\ \A i \in 1..(n - 1) : i \in 1..n
      BY <1>1
    <3> HIDE DEF s, t
    <3> QED BY <3>1, <3>2, <3>3
  <2> HIDE DEF s, t, piece
  <2>2. Len(t) = Len(s) + 1 /\ \A i \in 1..Len(s) : s[i] = t[i]
    BY <1>1, <2>1
  <2>3. FlattenSeq(t) = FlattenSeq(s) \o t[Len(t)]
    BY <2>1, <2>2, FlattenOneMore
  <2> QED BY <2>1, <2>3 DEF s, t
<1>5. \A i \in UpTo(places, n - 1) : Rank(places, i) \in 1..count /\ old[Rank(places, i)] = seq[i]
  BY <1>3 DEF Collected
<1> HIDE DEF old, new, count
<1>6. CASE n \in places
  <2>1. UpTo(places, n) = UpTo(places, n - 1) \union {n} /\ Rank(places, n) = count + 1
    BY <1>1, <1>6, RankGrows DEF count
  <2>2. <<seq[n]>> \in Seq(U) /\ Len(<<seq[n]>>) = 1 /\ <<seq[n]>>[1] = seq[n]
    BY <1>2
  <2>3. /\ new \in Seq(U) /\ Len(new) = count + 1
        /\ \A j \in 1..count : new[j] = old[j]
        /\ new[count + 1] = seq[n]
    <3>1. new = old \o <<seq[n]>>
      BY <1>4, <1>6
    <3>2. /\ new \in Seq(U) /\ Len(new) = count + 1
          /\ \A j \in 1..(count + 1) : new[j] = IF j <= count THEN old[j] ELSE <<seq[n]>>[j - count]
      BY <1>3, <2>2, <3>1, ConcatProperties
    <3> QED BY <1>3, <2>2, <3>2
  <2>4. ASSUME NEW i \in UpTo(places, n)
        PROVE  Rank(places, i) \in 1..(count + 1) /\ new[Rank(places, i)] = seq[i]
    <3>1. CASE i = n
      BY <1>3, <2>1, <2>3, <3>1
    <3>2. CASE i \in UpTo(places, n - 1)
      <4>1. Rank(places, i) \in 1..count /\ old[Rank(places, i)] = seq[i]
        BY <1>5, <3>2
      <4> QED BY <1>3, <2>3, <4>1
    <3> QED BY <2>1, <3>1, <3>2
  <2> QED BY <2>1, <2>3, <2>4 DEF Collected, new
<1>7. CASE n \notin places
  <2>1. UpTo(places, n) = UpTo(places, n - 1) /\ Rank(places, n) = count
    <3>1. UpTo(places, n) = UpTo(places, n - 1) /\ Rank(places, n) = Rank(places, n - 1) + 0
      BY <1>1, <1>7, RankGrows
    <3> QED BY <1>3, <3>1 DEF count
  <2>2. new = old
    BY <1>3, <1>4, <1>7, ConcatEmptySeq
  <2> QED BY <2>1, <2>2 DEF Collected, new, old, count
<1> QED BY <1>6, <1>7

LEMMA SelectedIs ==
  ASSUME NEW U, NEW seq \in Seq(U), NEW places \in SUBSET (1..Len(seq))
  PROVE  Collected(U, seq, places, Len(seq), Selected(seq, places))
<1> DEFINE bad == {n \in 0..Len(seq) : ~ Collected(U, seq, places, n, FlattenSeq(Pieces(seq, places, n)))}
<1>1. Len(seq) \in Nat /\ DOMAIN seq = 1..Len(seq) /\ places \in SUBSET (Nat \ {0})
  <2>1. Len(seq) \in Nat /\ DOMAIN seq = 1..Len(seq)
    BY LenProperties
  <2> QED BY <2>1
<1>2. 0 \notin bad
  <2>1. 0 \in 0..Len(seq) /\ UpTo(places, 0) = {}
    <3>1. \A i \in places : i \in Nat /\ i # 0
      BY <1>1
    <3>2. \A i \in Nat : i # 0 => ~ i <= 0
      OBVIOUS
    <3>3. 0 \in 0..Len(seq)
      BY <1>1
    <3> QED BY <3>1, <3>2, <3>3 DEF UpTo
  <2>2. Pieces(seq, places, 0) \in Seq(Seq(U)) /\ Len(Pieces(seq, places, 0)) = 0
    BY <2>1, PiecesAre
  <2>3. FlattenSeq(Pieces(seq, places, 0)) = << >>
    BY <2>2, FlattenNothing
  <2>4. Rank(places, 0) = 0
    BY <2>1, FS_EmptySet DEF Rank
  <2>5. Collected(U, seq, places, 0, << >>)
    BY <2>1, <2>4, EmptySeq DEF Collected
  <2> QED BY <2>3, <2>5
<1>3. bad = {}
  <2> SUFFICES ASSUME bad # {} PROVE FALSE
    OBVIOUS
  <2>1. PICK n \in bad : \A k \in bad : n <= k
    <3>1. bad \in SUBSET Nat
      BY <1>1
    <3> HIDE DEF bad
    <3> QED BY <3>1, LeastNatural
  <2>2. n \in 1..Len(seq) /\ n - 1 \in 0..Len(seq) /\ ~ n <= n - 1
    BY <1>1, <1>2, <2>1
  <2>3. n - 1 \notin bad
    BY <2>1, <2>2
  <2>4. Collected(U, seq, places, n - 1, FlattenSeq(Pieces(seq, places, n - 1)))
    BY <2>2, <2>3
  <2>5. Collected(U, seq, places, n, FlattenSeq(Pieces(seq, places, n)))
    BY <1>1, <2>2, <2>4, OneItemMore
  <2> QED BY <2>1, <2>5
<1>4. Collected(U, seq, places, Len(seq), FlattenSeq(Pieces(seq, places, Len(seq))))
  <2>1. Len(seq) \in 0..Len(seq)
    BY <1>1
  <2> QED BY <1>3, <2>1
<1>5. Selected(seq, places) = FlattenSeq(Pieces(seq, places, Len(seq)))
  BY <1>1 DEF Selected, Pieces
<1> QED BY <1>4, <1>5

\* An order on 1..n by rank: numbers that are given to the elements of a set one
\* each, from 1 on, can be read backwards.
LEMMA ReadBackwards ==
  ASSUME NEW T, IsFiniteSet(T), NEW rank \in [T -> 1..Cardinality(T)],
         \A x, y \in T : rank[x] = rank[y] => x = y
  PROVE  \E at \in [1..Cardinality(T) -> T] :
           /\ \A k \in 1..Cardinality(T) : rank[at[k]] = k
           /\ \A x \in T : at[rank[x]] = x
<1> DEFINE n == Cardinality(T)
<1>1. n \in Nat /\ 1 \in Int /\ n \in Int
  BY FS_CardinalityType
<1>2. IsFiniteSet(1..n) /\ Cardinality(1..n) = n
  BY <1>1, FS_Interval
<1> HIDE DEF n
<1>3. rank \in Injection(T, 1..n)
  BY Fun_IsInj DEF n
<1>4. rank \in Surjection(T, 1..n)
  BY <1>2, <1>3, FS_Injection DEF n
<1>5. \A k \in 1..n : \E x \in T : rank[x] = k
  BY <1>4, Fun_SurjectionProperties
<1> DEFINE at == [k \in 1..n |-> CHOOSE x \in T : rank[x] = k]
<1>6. \A k \in 1..n : at[k] \in T /\ rank[at[k]] = k
  BY <1>5
<1>7. at \in [1..n -> T]
  BY <1>6
<1>8. \A x \in T : at[rank[x]] = x
  BY <1>6 DEF n
<1> QED BY <1>6, <1>7, <1>8 DEF n

\* What is selected comes in the order of the places.
Places(seq, places, out, at) ==
  /\ at \in [1..Len(out) -> places]
  /\ \A k \in 1..Len(out) : out[k] = seq[at[k]]
  /\ \A j, k \in 1..Len(out) : j < k => at[j] < at[k]
  /\ \A i \in places : \E k \in 1..Len(out) : at[k] = i

LEMMA SelectedPlaces ==
  ASSUME NEW U, NEW seq \in Seq(U), NEW places \in SUBSET (1..Len(seq))
  PROVE  /\ Selected(seq, places) \in Seq(U)
         /\ Len(Selected(seq, places)) = Cardinality(places)
         /\ \E at : Places(seq, places, Selected(seq, places), at)
<1> DEFINE out == Selected(seq, places)
           n == Cardinality(places)
           rank == [i \in places |-> Rank(places, i)]
<1>1. Collected(U, seq, places, Len(seq), out)
  BY SelectedIs
<1>2. Len(seq) \in Nat /\ places \in SUBSET (Nat \ {0}) /\ UpTo(places, Len(seq)) = places
  <2>1. Len(seq) \in Nat
    BY LenProperties
  <2>2. \A i \in 1..Len(seq) : i \in Nat \ {0} /\ i <= Len(seq)
    BY <2>1
  <2> QED BY <2>1, <2>2 DEF UpTo
<1>3. IsFiniteSet(places) /\ n \in Nat
  <2>1. IsFiniteSet(places)
    BY <1>2, RanksAreNatural
  <2> QED BY <2>1, FS_CardinalityType
<1>4. /\ out \in Seq(U) /\ Len(out) = n
      /\ \A i \in places : Rank(places, i) \in 1..n /\ out[Rank(places, i)] = seq[i]
  BY <1>1, <1>2 DEF Collected, Rank
<1>5. ASSUME NEW i \in places, NEW j \in places, i < j
      PROVE  Rank(places, i) < Rank(places, j)
  <2>1. i \in Nat /\ j \in Nat /\ j # 0 /\ j - 1 \in Nat /\ i <= j - 1
    BY <1>2, <1>5
  <2>2. UpTo(places, i) \in SUBSET UpTo(places, j - 1)
    <3>1. \A k \in Nat : k <= i => k <= j - 1
      BY <2>1
    <3>2. \A k \in places : k \in Nat
      BY <1>2
    <3> QED BY <3>1, <3>2 DEF UpTo
  <2>3. IsFiniteSet(UpTo(places, j - 1)) /\ Rank(places, j - 1) \in Nat /\ Rank(places, i) \in Nat
    BY <1>2, <2>1, RanksAreNatural
  <2>4. Rank(places, i) <= Rank(places, j - 1)
    BY <2>2, <2>3, FS_Subset DEF Rank
  <2>5. Rank(places, j) = Rank(places, j - 1) + 1
    BY <1>2, <2>1, RankGrows
  <2> QED BY <2>3, <2>4, <2>5
<1>6. rank \in [places -> 1..n]
  BY <1>4
<1>7. \A i, j \in places : rank[i] = rank[j] => i = j
  <2> SUFFICES ASSUME NEW i \in places, NEW j \in places, rank[i] = rank[j], i # j PROVE FALSE
    OBVIOUS
  <2>1. i \in Nat /\ j \in Nat /\ (i < j \/ j < i)
    BY <1>2
  <2>2. Rank(places, i) = Rank(places, j) /\ Rank(places, i) \in Nat
    BY <1>2, <2>1, RanksAreNatural
  <2> QED BY <1>5, <2>1, <2>2
<1> HIDE DEF n, out
<1>8. PICK at \in [1..n -> places] :
        (\A k \in 1..n : rank[at[k]] = k) /\ (\A i \in places : at[rank[i]] = i)
  <2> HIDE DEF rank
  <2> QED BY <1>3, <1>6, <1>7, ReadBackwards DEF n
<1>9. \A k \in 1..n : out[k] = seq[at[k]]
  BY <1>4, <1>8
<1>10. ASSUME NEW j \in 1..n, NEW k \in 1..n, j < k PROVE at[j] < at[k]
  <2>1. at[j] \in places /\ at[k] \in places /\ at[j] \in Nat /\ at[k] \in Nat
    BY <1>2, <1>8
  <2>2. Rank(places, at[j]) = j /\ Rank(places, at[k]) = k
    BY <1>8, <2>1
  <2>3. CASE at[j] = at[k]
    BY <1>10, <2>2, <2>3
  <2>4. CASE at[k] < at[j]
    <3>1. k < j
      BY <1>5, <2>1, <2>2, <2>4
    <3> QED BY <1>3, <1>10, <3>1
  <2> QED BY <2>1, <2>3, <2>4
<1>11. \A i \in places : \E k \in 1..n : at[k] = i
  BY <1>6, <1>8
<1>12. Places(seq, places, out, at)
  BY <1>4, <1>8, <1>9, <1>10, <1>11 DEF Places
<1> QED BY <1>4, <1>12 DEF out, n

-----------------------------------------------------------------------------
(* The bytes of a text and the window of a long one.                         *)

Widths == Nat \ {0}
Byte == Nat \X Nat

LEMMA RuneIs ==
  ASSUME NEW text \in Seq(Widths), NEW i \in 1..Len(text)
  PROVE  /\ RuneOf(text, i) \in Seq(Byte) /\ Len(RuneOf(text, i)) = text[i]
         /\ \A b \in 1..text[i] : RuneOf(text, i)[b] = <<i, b>>
         /\ text[i] \in Nat /\ text[i] >= 1 /\ i \in Nat
<1>1. text[i] \in Nat /\ text[i] # 0 /\ i \in Nat
  BY ElementOfSeq, LenProperties DEF Widths
<1>2. \A b \in 1..text[i] : <<i, b>> \in Byte
  BY <1>1 DEF Byte
<1>3. RuneOf(text, i) \in [1..text[i] -> Byte]
  BY <1>2 DEF RuneOf
<1>4. RuneOf(text, i) \in Seq(Byte) /\ Len(RuneOf(text, i)) = text[i]
  <2> DEFINE rune == RuneOf(text, i)
             w    == text[i]
  <2>1. w \in Nat /\ rune \in [1..w -> Byte]
    BY <1>1, <1>3
  <2> HIDE DEF rune, w, Byte
  <2> QED BY <2>1 DEF rune, w
<1>5. \A b \in 1..text[i] : RuneOf(text, i)[b] = <<i, b>>
  BY DEF RuneOf
<1>6. text[i] >= 1
  BY <1>1
<1> QED BY <1>1, <1>4, <1>5, <1>6

LEMMA BytesOfNothing == \A text : BytesOf(text, 0) = << >>
<1> SUFFICES ASSUME NEW text PROVE BytesOf(text, 0) = << >>
  OBVIOUS
<1>1. [i \in 1..0 |-> RuneOf(text, i)] = << >>
  OBVIOUS
<1>2. << >> \in Seq({}) /\ Len(<< >>) = 0
  BY EmptySeq
<1> QED BY <1>1, <1>2, FlattenNothing DEF BytesOf

LEMMA OneRuneMore ==
  ASSUME NEW text \in Seq(Widths), NEW n \in 1..Len(text)
  PROVE  BytesOf(text, n) = BytesOf(text, n - 1) \o RuneOf(text, n)
<1> DEFINE Runes(k) == [i \in 1..k |-> RuneOf(text, i)]
           s == Runes(n - 1)
           t == Runes(n)
<1>1. n \in Nat /\ n >= 1 /\ n <= Len(text) /\ Len(text) \in Nat
  BY LenProperties
<1>2. ASSUME NEW k \in 0..n
      PROVE  /\ Runes(k) \in Seq(Seq(Byte)) /\ Len(Runes(k)) = k
             /\ \A i \in 1..k : Runes(k)[i] = RuneOf(text, i)
  <2>1. \A i \in 1..k : RuneOf(text, i) \in Seq(Byte)
    BY <1>1, RuneIs
  <2>2. Runes(k) \in [1..k -> Seq(Byte)]
    BY <2>1
  <2> QED BY <1>1, <2>2
<1>3. n - 1 \in 0..n /\ n \in 0..n /\ n \in 1..n /\ \A i \in 1..(n - 1) : i \in 1..n
  BY <1>1
<1>4. /\ s \in Seq(Seq(Byte)) /\ t \in Seq(Seq(Byte)) /\ Len(s) = n - 1 /\ Len(t) = n
      /\ \A i \in 1..(n - 1) : s[i] = t[i]
      /\ t[n] = RuneOf(text, n)
  <2> HIDE DEF Runes
  <2> QED BY <1>2, <1>3
<1>5. BytesOf(text, n - 1) = FlattenSeq(s) /\ BytesOf(text, n) = FlattenSeq(t)
  BY DEF BytesOf
<1> HIDE DEF s, t
<1>6. Len(t) = Len(s) + 1 /\ \A i \in 1..Len(s) : s[i] = t[i]
  BY <1>1, <1>4
<1>7. FlattenSeq(t) = FlattenSeq(s) \o t[Len(t)]
  BY <1>4, <1>6, FlattenOneMore
<1> QED BY <1>4, <1>5, <1>7

\* The bytes of the first m runes come first, and then those of the others.
Begins(text, n) ==
  /\ BytesOf(text, n) \in Seq(Byte)
  /\ \A m \in 0..n :
       /\ StartOf(text, m) \in 0..StartOf(text, n)
       /\ \A p \in 1..StartOf(text, n) :
            IF p <= StartOf(text, m) THEN BytesOf(text, n)[p] = BytesOf(text, m)[p]
                                     ELSE BytesOf(text, n)[p][1] \in (m + 1)..n

LEMMA BeginsLonger ==
  ASSUME NEW text \in Seq(Widths), NEW n \in 1..Len(text), Begins(text, n - 1)
  PROVE  Begins(text, n) /\ StartOf(text, n) = StartOf(text, n - 1) + text[n]
<1> DEFINE old == BytesOf(text, n - 1)
           new == BytesOf(text, n)
           k   == StartOf(text, n - 1)
<1>1. n \in Nat /\ n >= 1
  BY LenProperties
<1>2. old \in Seq(Byte) /\ Len(old) = k /\ k \in Nat
  BY LenProperties DEF Begins, StartOf
<1>3. /\ RuneOf(text, n) \in Seq(Byte) /\ Len(RuneOf(text, n)) = text[n]
      /\ \A b \in 1..text[n] : RuneOf(text, n)[b] = <<n, b>>
      /\ text[n] \in Nat
  BY RuneIs
<1>4. new = old \o RuneOf(text, n)
  BY OneRuneMore
<1>5. \A m \in 0..(n - 1) :
        /\ StartOf(text, m) \in 0..k
        /\ \A p \in 1..k :
             IF p <= StartOf(text, m) THEN old[p] = BytesOf(text, m)[p]
                                      ELSE old[p][1] \in (m + 1)..(n - 1)
  BY DEF Begins
<1> HIDE DEF old, new, k
<1>6. /\ new \in Seq(Byte) /\ Len(new) = k + text[n]
      /\ \A p \in 1..(k + text[n]) : new[p] = IF p <= k THEN old[p] ELSE RuneOf(text, n)[p - k]
  <2> DEFINE rune == RuneOf(text, n)
             w    == text[n]
  <2>1. rune \in Seq(Byte) /\ Len(rune) = w /\ old \in Seq(Byte) /\ Len(old) = k /\ new = old \o rune
    BY <1>2, <1>3, <1>4
  <2> HIDE DEF rune, w, Byte
  <2>2. /\ new \in Seq(Byte) /\ Len(new) = k + w
        /\ \A p \in 1..(k + w) : new[p] = IF p <= k THEN old[p] ELSE rune[p - k]
    BY <2>1, ConcatProperties
  <2> QED BY <2>2 DEF rune, w
<1>7. StartOf(text, n) = k + text[n]
  BY <1>6 DEF StartOf, new
<1>8. ASSUME NEW p \in 1..(k + text[n])
      PROVE  IF p <= k THEN new[p] = old[p] ELSE new[p][1] = n
  <2>1. CASE p <= k
    BY <1>6, <2>1
  <2>2. CASE ~ p <= k
    <3>1. p - k \in 1..text[n]
      BY <1>2, <1>3, <2>2
    <3>2. new[p] = <<n, p - k>>
      BY <1>3, <1>6, <2>2, <3>1
    <3> QED BY <2>2, <3>2
  <2> QED BY <2>1, <2>2
<1>9. ASSUME NEW m \in 0..n, NEW p \in 1..(k + text[n])
      PROVE  /\ StartOf(text, m) \in 0..(k + text[n])
             /\ IF p <= StartOf(text, m) THEN new[p] = BytesOf(text, m)[p]
                                         ELSE new[p][1] \in (m + 1)..n
  <2>1. CASE m = n
    BY <1>2, <1>3, <1>7, <2>1 DEF new
  <2>2. CASE m # n
    <3>1. m \in 0..(n - 1) /\ n \in (m + 1)..n /\ \A i \in (m + 1)..(n - 1) : i \in (m + 1)..n
      BY <1>1, <2>2
    <3>2. StartOf(text, m) \in 0..k
      BY <1>5, <3>1
    <3>3. CASE p <= k
      <4>1. p \in 1..k /\ new[p] = old[p]
        BY <1>2, <1>8, <3>3
      <4>2. IF p <= StartOf(text, m) THEN old[p] = BytesOf(text, m)[p]
                                     ELSE old[p][1] \in (m + 1)..(n - 1)
        BY <1>5, <3>1, <4>1
      <4> QED BY <1>2, <1>3, <3>1, <3>2, <4>1, <4>2
    <3>4. CASE ~ p <= k
      <4>1. new[p][1] = n /\ ~ p <= StartOf(text, m)
        BY <1>2, <1>8, <3>2, <3>4
      <4> QED BY <1>2, <1>3, <3>1, <3>2, <4>1
    <3> QED BY <3>3, <3>4
  <2> QED BY <2>1, <2>2
<1>10. ASSUME NEW m \in 0..n PROVE StartOf(text, m) \in 0..(k + text[n])
  <2>1. CASE m = n
    BY <1>2, <1>3, <1>7, <2>1
  <2>2. CASE m # n
    <3>1. m \in 0..(n - 1)
      BY <1>1, <2>2
    <3> QED BY <1>2, <1>3, <1>5, <3>1
  <2> QED BY <2>1, <2>2
<1> QED BY <1>6, <1>7, <1>9, <1>10 DEF Begins, new, k

LEMMA TextBegins ==
  ASSUME NEW text \in Seq(Widths), NEW n \in 0..Len(text)
  PROVE  /\ Begins(text, n)
         /\ n # 0 => StartOf(text, n) = StartOf(text, n - 1) + text[n]
<1> DEFINE bad == {m \in 0..Len(text) : ~ Begins(text, m)}
<1>1. Len(text) \in Nat
  BY LenProperties
<1>2. Begins(text, 0)
  <2>1. BytesOf(text, 0) = << >> /\ << >> \in Seq(Byte) /\ Len(<< >>) = 0
    BY BytesOfNothing, EmptySeq
  <2>2. StartOf(text, 0) = 0
    BY <2>1 DEF StartOf
  <2>3. \A m \in 0..0 : m = 0
    OBVIOUS
  <2>4. 1..0 = {} /\ 0 \in 0..0
    OBVIOUS
  <2> QED BY <2>1, <2>2, <2>3, <2>4 DEF Begins
<1>3. bad = {}
  <2> SUFFICES ASSUME bad # {} PROVE FALSE
    OBVIOUS
  <2>1. PICK m \in bad : \A k \in bad : m <= k
    <3>1. bad \in SUBSET Nat
      BY <1>1
    <3> HIDE DEF bad
    <3> QED BY <3>1, LeastNatural
  <2>2. m \in 1..Len(text) /\ m - 1 \in 0..Len(text) /\ ~ m <= m - 1
    BY <1>1, <1>2, <2>1
  <2>3. Begins(text, m - 1)
    BY <2>1, <2>2
  <2>4. Begins(text, m)
    BY <2>2, <2>3, BeginsLonger
  <2> QED BY <2>1, <2>4
<1>4. Begins(text, n)
  BY <1>3
<1>5. n # 0 => n \in 1..Len(text) /\ n - 1 \in 0..Len(text)
  BY <1>1
<1>6. n # 0 => Begins(text, n - 1)
  BY <1>3, <1>5
<1> QED BY <1>4, <1>5, <1>6, BeginsLonger

LEMMA BytesAre ==
  ASSUME NEW text \in Seq(Widths), NEW n \in 0..Len(text)
  PROVE  /\ BytesOf(text, n) \in Seq(Byte) /\ Len(BytesOf(text, n)) = StartOf(text, n)
         /\ DOMAIN BytesOf(text, n) = 1..StartOf(text, n)
         /\ StartOf(text, n) \in Nat
         /\ \A p \in 1..StartOf(text, n) : BytesOf(text, n)[p][1] \in 1..n
<1>1. Begins(text, n)
  BY TextBegins
<1>2. BytesOf(text, n) \in Seq(Byte)
  BY <1>1 DEF Begins
<1>3. /\ Len(BytesOf(text, n)) = StartOf(text, n) /\ StartOf(text, n) \in Nat
      /\ DOMAIN BytesOf(text, n) = 1..StartOf(text, n)
  BY <1>2, LenProperties DEF StartOf
<1>4. ASSUME NEW p \in 1..StartOf(text, n) PROVE BytesOf(text, n)[p][1] \in 1..n
  <2>1. 0 \in 0..n
    BY LenProperties
  <2>2. StartOf(text, 0) = 0
    BY BytesOfNothing, EmptySeq DEF StartOf
  <2>3. IF p <= 0 THEN TRUE ELSE BytesOf(text, n)[p][1] \in (0 + 1)..n
    BY <1>1, <2>1, <2>2 DEF Begins
  <2> QED BY <1>3, <2>3
<1> QED BY <1>2, <1>3, <1>4

\* The start of the whole text is the start of its first runes.
LEMMA StartsAgree ==
  ASSUME NEW text \in Seq(Widths), NEW n \in 0..Len(text), NEW k \in 0..StartOf(text, n)
  PROVE  /\ SubSeq(Bytes(text), 1, k) = SubSeq(BytesOf(text, n), 1, k)
         /\ SubSeq(Bytes(text), 1, k) \in Seq(Byte) /\ Len(SubSeq(Bytes(text), 1, k)) = k
         /\ \A p \in 1..k : SubSeq(Bytes(text), 1, k)[p] = BytesOf(text, n)[p]
<1> DEFINE N == Len(text)
           all == Bytes(text)
           few == BytesOf(text, n)
           start == StartOf(text, n)
<1>1. N \in Nat /\ N \in 0..N /\ k \in Nat /\ k <= start
  BY LenProperties, BytesAre
<1>2. /\ all \in Seq(Byte) /\ few \in Seq(Byte) /\ Len(few) = start /\ start \in Nat
      /\ start <= Len(all) /\ Len(all) \in Nat
      /\ \A p \in 1..start : all[p] = few[p]
  <2>1. all \in Seq(Byte) /\ Len(all) = StartOf(text, N) /\ StartOf(text, N) \in Nat
    BY <1>1, BytesAre DEF Bytes
  <2>2. few \in Seq(Byte) /\ Len(few) = start /\ start \in Nat
    BY BytesAre
  <2>3. /\ start \in 0..StartOf(text, N)
        /\ \A p \in 1..StartOf(text, N) : p <= start => all[p] = few[p]
    BY <1>1, TextBegins DEF Begins, Bytes
  <2> QED BY <2>1, <2>2, <2>3
<1> HIDE DEF all, few, start, Byte
<1>3. \A p \in 1..k : all[p] \in Byte /\ few[p] \in Byte /\ all[p] = few[p]
  <2>1. \A p \in 1..k : p \in 1..Len(all) /\ p \in 1..Len(few) /\ p \in 1..start
    BY <1>1, <1>2
  <2> QED BY <1>2, <2>1, ElementOfSeq
<1>4. k - 1 + 1 = k /\ 1 \in Int /\ k \in Int /\ (1 <= k \/ k = 0)
  BY <1>1
<1>5. /\ SubSeq(all, 1, k) \in Seq(Byte) /\ Len(SubSeq(all, 1, k)) = k
      /\ \A p \in 1..k : SubSeq(all, 1, k)[p] = all[p]
  <2>1. /\ SubSeq(all, 1, k) \in Seq(Byte)
        /\ Len(SubSeq(all, 1, k)) = IF 1 <= k THEN k - 1 + 1 ELSE 0
        /\ \A p \in 1..(k - 1 + 1) : SubSeq(all, 1, k)[p] = all[1 + p - 1]
    BY <1>3, <1>4, SubSeqProperties
  <2>2. \A p \in 1..k : 1 + p - 1 = p
    OBVIOUS
  <2> QED BY <1>4, <2>1, <2>2
<1>6. /\ SubSeq(few, 1, k) \in Seq(Byte) /\ Len(SubSeq(few, 1, k)) = k
      /\ \A p \in 1..k : SubSeq(few, 1, k)[p] = few[p]
  <2>1. /\ SubSeq(few, 1, k) \in Seq(Byte)
        /\ Len(SubSeq(few, 1, k)) = IF 1 <= k THEN k - 1 + 1 ELSE 0
        /\ \A p \in 1..(k - 1 + 1) : SubSeq(few, 1, k)[p] = few[1 + p - 1]
    BY <1>3, <1>4, SubSeqProperties
  <2>2. \A p \in 1..k : 1 + p - 1 = p
    OBVIOUS
  <2> QED BY <1>4, <2>1, <2>2
<1>7. SubSeq(all, 1, k) = SubSeq(few, 1, k)
  BY <1>3, <1>5, <1>6, SeqEqual
<1> QED BY <1>3, <1>5, <1>7 DEF all, few

LEMMA WindowSizes ==
  ASSUME NEW limit \in Nat, limit # 0
  PROVE  /\ HeadSize(limit) \in 1..limit /\ TailSize(limit) \in 1..limit
         /\ HeadSize(limit) + TailSize(limit) <= IF limit = 1 THEN 2 ELSE limit
<1> DEFINE q == (4 * limit) \div 5
<1>1. q \in Nat /\ 5 * q <= 4 * limit /\ 4 * limit < 5 * q + 5
  BY Z3
<1> HIDE DEF q
<1>2. HeadSize(limit) = (IF q = 0 THEN 1 ELSE q) /\ TailSize(limit) = limit - q
  BY DEF HeadSize, TailSize, q
<1> QED BY <1>1, <1>2

LEMMA CapIs ==
  ASSUME NEW text \in Seq(Widths), NEW maxBytes \in Nat
  PROVE  \E n \in 0..Len(text) :
           /\ CapBytes(text, maxBytes) = BytesOf(text, n)
           /\ StartOf(text, n) <= maxBytes
           /\ StartOf(text, Len(text)) <= maxBytes => n = Len(text)
<1> DEFINE N == Len(text)
           fits == {n \in 0..N : StartOf(text, n) <= maxBytes}
           chosen == CHOOSE n \in fits : \A m \in fits : m <= n
<1>1. N \in Nat /\ N \in 0..N /\ 0 \in 0..N
  BY LenProperties
<1>2. 0 \in fits
  <2>1. StartOf(text, 0) = 0
    BY BytesOfNothing, EmptySeq DEF StartOf
  <2> QED BY <1>1, <2>1
<1>3. fits \in SUBSET Int /\ fits # {} /\ fits \in SUBSET (0..N)
  BY <1>1, <1>2
<1>4. IsFiniteSet(fits)
  <2>1. 0 \in Int /\ N \in Int
    BY <1>1
  <2>2. IsFiniteSet(0..N)
    BY <2>1, FS_Interval
  <2> QED BY <1>3, <2>2, FS_Subset
<1>5. Max(fits) \in fits /\ \A n \in fits : n <= Max(fits)
  <2> HIDE DEF fits
  <2> QED BY <1>3, <1>4, MaxOfFinite
<1>6. chosen \in fits /\ \A m \in fits : m <= chosen
  <2> HIDE DEF fits
  <2> QED BY <1>5
<1>7. CapBytes(text, maxBytes) = BytesOf(text, chosen)
  BY DEF CapBytes
<1>8. chosen \in 0..N /\ StartOf(text, chosen) <= maxBytes
  <2> HIDE DEF chosen
  <2> QED BY <1>6
<1>9. ASSUME StartOf(text, N) <= maxBytes PROVE chosen = N
  <2>1. N \in fits
    BY <1>1, <1>9
  <2> HIDE DEF chosen, fits
  <2> QED BY <1>1, <1>6, <1>8, <2>1
<1> HIDE DEF chosen
<1> QED BY <1>7, <1>8, <1>9

\* What TruncateAndStore does with a text that is longer than the limit.
LEMMA StoredIs ==
  ASSUME NEW text, NEW limit, NEW maxStored,
         TruncateAndStore(text, limit, maxStored, TRUE).stored
  PROVE  LET out == TruncateAndStore(text, limit, maxStored, TRUE)
         IN  /\ ~ Len(text) <= limit
             /\ out.head = TruncateTo(text, HeadSize(limit))
             /\ out.tail = TailOf(text, TailSize(limit))
             /\ out.file = CapBytes(text, maxStored)
             /\ out.offset = ComputeTailOffset(text, TailSize(limit))
BY DEF TruncateAndStore, Unchanged

\* What truncateTo gives of a text that is longer than n: all but the last bytes
\* of its last rune.
LEMMA HeadIs ==
  ASSUME NEW text \in Seq(Widths), NEW n \in 1..Len(text)
  PROVE  LET head == TruncateTo(text, n)
             size == StartOf(text, n - 1) + WidthOfByte(text[n])
         IN  /\ head \in Seq(Byte) /\ Len(head) = size /\ size \in 0..StartOf(text, n)
             /\ DOMAIN head = 1..size
             /\ head = SubSeq(BytesOf(text, n), 1, size)
             /\ \A p \in 1..size : head[p] = BytesOf(text, n)[p]
             /\ StartOf(text, n) - size = IF text[n] > 2 THEN text[n] - 2 ELSE 0
<1> DEFINE head == TruncateTo(text, n)
           size == StartOf(text, n - 1) + WidthOfByte(text[n])
<1>1. /\ n \in 0..Len(text) /\ n # 0 /\ n - 1 \in 0..Len(text) /\ n \in DOMAIN text
  BY LenProperties
<1>2. text[n] \in Nat /\ text[n] >= 1
  BY RuneIs
<1>3. StartOf(text, n) = StartOf(text, n - 1) + text[n]
  BY <1>1, TextBegins
<1>4. StartOf(text, n - 1) \in Nat /\ StartOf(text, n) \in Nat
  BY <1>1, BytesAre
<1>5. /\ size \in 0..StartOf(text, n)
      /\ StartOf(text, n) - size = IF text[n] > 2 THEN text[n] - 2 ELSE 0
  BY <1>2, <1>3, <1>4 DEF WidthOfByte
<1>6. head = SubSeq(Bytes(text), 1, size)
  BY <1>1 DEF TruncateTo
<1> HIDE DEF head, size
<1>7. /\ head = SubSeq(BytesOf(text, n), 1, size)
      /\ head \in Seq(Byte) /\ Len(head) = size
      /\ \A p \in 1..size : head[p] = BytesOf(text, n)[p]
  BY <1>1, <1>5, <1>6, StartsAgree
<1>8. DOMAIN head = 1..size
  BY <1>7, LenProperties
<1> QED BY <1>5, <1>7, <1>8 DEF head, size

LEMMA OffsetFinds ==
  ASSUME NEW text \in Seq(Widths), NEW limit \in Nat, limit # 0, NEW maxStored \in Nat
  PROVE  OffsetFindsTail(text, limit, maxStored)
<1> DEFINE N == Len(text)
           t == TailSize(limit)
           out == TruncateAndStore(text, limit, maxStored, TRUE)
           file == CapBytes(text, maxStored)
           offset == ComputeTailOffset(text, t)
<1> SUFFICES ASSUME out.stored
             PROVE  /\ BytesOf(text, N - t) \o TailOf(text, t) = Bytes(text)
                    /\ Len(file) <= maxStored
                    /\ \E n \in 0..N : file = BytesOf(text, n)
                    /\ Len(Bytes(text)) <= maxStored =>
                         SubSeq(file, offset + 1, Len(file)) = TailOf(text, t)
  <2>1. out.stored => out.file = file /\ out.tail = TailOf(text, t) /\ out.offset = offset
    BY StoredIs
  <2> HIDE DEF out, file, offset
  <2> QED BY <2>1 DEF OffsetFindsTail, out
<1>1. N \in Nat /\ N > limit /\ t \in 1..limit
  <2>1. ~ N <= limit
    BY StoredIs
  <2>2. N \in Nat
    BY LenProperties
  <2>3. t \in 1..limit
    BY WindowSizes
  <2> QED BY <2>1, <2>2, <2>3
<1>2. PICK n \in 0..N : /\ file = BytesOf(text, n) /\ StartOf(text, n) <= maxStored
                        /\ StartOf(text, N) <= maxStored => n = N
  BY CapIs
<1>3. Len(file) <= maxStored
  BY <1>2 DEF StartOf
<1>4. ASSUME Len(Bytes(text)) <= maxStored
      PROVE  SubSeq(file, offset + 1, Len(file)) = TailOf(text, t)
  <2>1. file = Bytes(text)
    BY <1>2, <1>4 DEF Bytes, StartOf
  <2>2. ~ N <= t
    BY <1>1
  <2>3. offset = StartOf(text, N - t)
    BY <2>2 DEF ComputeTailOffset
  <2> QED BY <2>1, <2>2, <2>3 DEF TailOf
<1>5. BytesOf(text, N - t) \o TailOf(text, t) = Bytes(text)
  <2> DEFINE all == Bytes(text)
             few == BytesOf(text, N - t)
             start == StartOf(text, N - t)
  <2>1. N - t \in 0..N /\ N \in 0..N /\ ~ N <= t
    BY <1>1
  <2>2. all \in Seq(Byte) /\ Len(all) = StartOf(text, N) /\ Len(all) \in Nat
    BY <2>1, BytesAre DEF Bytes
  <2>3. few \in Seq(Byte) /\ Len(few) = start /\ start \in Nat
    BY <2>1, BytesAre
  <2>4. start <= Len(all)
    <3>1. \A m \in 0..N : StartOf(text, m) \in 0..StartOf(text, N)
      BY <2>1, TextBegins DEF Begins
    <3>2. start \in 0..StartOf(text, N)
      BY <2>1, <3>1
    <3> HIDE DEF all, start
    <3> QED BY <2>2, <3>2
  <2>5. SubSeq(all, 1, start) = SubSeq(few, 1, start)
    <3>1. start \in 0..StartOf(text, N - t)
      BY <2>3
    <3> QED BY <2>1, <3>1, StartsAgree
  <2>6. TailOf(text, t) = SubSeq(all, start + 1, Len(all))
    BY <2>1 DEF TailOf
  <2> HIDE DEF all, few, start
  <2>7. 1 \in 1..Len(all) + 1 /\ start \in (1 - 1)..Len(all) /\ Len(all) \in start..Len(all)
    BY <2>2, <2>3, <2>4
  <2>8. SubSeq(all, 1, start) \o SubSeq(all, start + 1, Len(all)) = SubSeq(all, 1, Len(all))
    BY <2>2, <2>7, ConcatAdjacentSubSeq
  <2>9. SubSeq(all, 1, Len(all)) = all /\ SubSeq(few, 1, start) = few
    BY <2>2, <2>3, SubSeqFull
  <2>10. few \o TailOf(text, t) = all
    BY <2>5, <2>6, <2>8, <2>9
  <2> QED BY <2>10 DEF few, all
<1> QED BY <1>2, <1>3, <1>4, <1>5

\* Of every text that is cut, whatever its runes and the limits, the tail is
\* whole, the file keeps whole runes, and at the footer's offset lies the tail.
THEOREM TailOfAnyText ==
  ASSUME NEW text \in Seq(Widths), NEW limit \in Nat, limit # 0, NEW maxStored \in Nat
  PROVE  OffsetFindsTail(text, limit, maxStored)
BY OffsetFinds

\* The head is the first runes, as truncateTo promises, exactly when the last of
\* them takes at most two bytes.
THEOREM HeadEndsNarrow ==
  ASSUME NEW text \in Seq(Widths), NEW limit \in Nat, limit # 0, limit < Len(text)
  PROVE  HeadIsFirst(text, limit) <=> text[HeadSize(limit)] <= 2
<1> DEFINE h == HeadSize(limit)
           few == BytesOf(text, h)
           head == TruncateTo(text, h)
           size == StartOf(text, h - 1) + WidthOfByte(text[h])
<1>1. Len(text) \in Nat /\ h \in 1..limit
  BY LenProperties, WindowSizes
<1> HIDE DEF h
<1>2. h \in 1..Len(text) /\ h \in 0..Len(text) /\ h \in DOMAIN text
  BY <1>1, LenProperties
<1>3. /\ head \in Seq(Byte) /\ Len(head) = size /\ size \in 0..StartOf(text, h)
      /\ head = SubSeq(few, 1, size)
      /\ StartOf(text, h) - size = IF text[h] > 2 THEN text[h] - 2 ELSE 0
  BY <1>2, HeadIs
<1>4. few \in Seq(Byte) /\ Len(few) = StartOf(text, h) /\ StartOf(text, h) \in Nat
  BY <1>2, BytesAre
<1>5. text[h] \in Nat
  BY <1>2, RuneIs
<1>6. HeadIsFirst(text, limit) <=> head = few
  <2> DEFINE out == TruncateAndStore(text, limit, Len(Bytes(text)), TRUE)
  <2>1. ~ Len(text) <= limit
    BY <1>1
  <2>2. out.stored
    BY <2>1 DEF TruncateAndStore
  <2>3. out.head = head
    BY <2>2, StoredIs DEF h
  <2> HIDE DEF out
  <2> QED BY <2>2, <2>3 DEF HeadIsFirst, h, out
<1> HIDE DEF few, head, size
<1>7. ASSUME text[h] <= 2 PROVE head = few
  <2>1. size = Len(few)
    BY <1>3, <1>4, <1>5, <1>7
  <2> QED BY <1>3, <1>4, <2>1, SubSeqFull
<1>8. ASSUME head = few PROVE text[h] <= 2
  BY <1>3, <1>4, <1>5, <1>8
<1> QED BY <1>6, <1>7, <1>8 DEF h

\* What the runs cut are texts.
LEMMA InputIsText == Spec => [](part = "content" => input \in Seq(Widths))
<1>1. Init => (part = "content" => input \in Seq(Widths))
  BY EmptySeq DEF Init
<1>2. (part = "content" => input \in Seq(Widths)) /\ [Next]_<<part, input>>
        => (part = "content" => input \in Seq(Widths))'
  <2> SUFFICES ASSUME part = "content" => input \in Seq(Widths), Next, part' = "content"
               PROVE  input' \in Seq(Widths)
    OBVIOUS
  <2>1. part = "content" /\ input \in Seq(Widths)
    BY DEF Next
  <2>2. PICK x \in Alphabet["content"] : input' = Append(input, x)
    BY <2>1 DEF Next
  <2>3. x \in Widths
    BY <2>2 DEF Alphabet, Widths
  <2> QED BY <2>1, <2>2, <2>3, AppendProperties
<1> QED BY <1>1, <1>2, PTL DEF Spec

\* So the run's invariant holds however long the texts grow.
THEOREM TailsStayFound == Spec => []TailIsFound
<1>1. (part = "content" => input \in Seq(Widths)) => TailIsFound
  <2> SUFFICES ASSUME input \in Seq(Widths), NEW limit \in 1..5, NEW maxStored \in 0..12
               PROVE  OffsetFindsTail(input, limit, maxStored)
    BY DEF TailIsFound
  <2>1. limit \in Nat /\ limit # 0 /\ maxStored \in Nat
    OBVIOUS
  <2> QED BY <2>1, TailOfAnyText
<1> QED BY <1>1, InputIsText, PTL

-----------------------------------------------------------------------------
(* The three entrances.                                                      *)

\* However the arguments are spelled, the three entrances for agents take the
\* same calls and give the pipeline the same options.
THEOREM EntrancesTakeTheSame ==
  ASSUME NEW given, NEW args \in [given -> [type : Types, v : Int]]
  PROVE  OptionsAgree(args)
<1> DEFINE same == CanonicalArgs(args)
<1>1. \A name \in given : args[name].type \in Types /\ args[name].v \in Int
  OBVIOUS
<1>2. /\ DOMAIN args = given /\ DOMAIN same = given
      /\ \A name \in given : same[name].v = args[name].v
  BY DEF CanonicalArgs, Canonical, Value
<1>3. \A name \in given : name \in StringNames => same[name] = args[name]
  BY DEF CanonicalArgs
<1>4. \A name \in given : name \notin StringNames =>
        /\ args[name].type \in {"fraction", "digits"} => same[name].type = "number"
        /\ args[name].type = "truth" => same[name].type = "bool"
        /\ args[name].type \notin {"fraction", "digits", "truth"} => same[name] = args[name]
  BY DEF CanonicalArgs, Canonical, Value
<1> HIDE DEF same
<1>5. \A name : Arg(args, name) \in Int
  BY <1>1, <1>2 DEF Arg
<1>6. ASSUME FetchURLAccepts(args), NEW name \in Names
      PROVE  /\ name \in given => Decodes(name, same[name]) /\ same[name].type # "null"
             /\ Decoded(same, name) = Arg(args, name)
  <2>1. name \in given => Fits(name, args[name])
    BY <1>2, <1>6 DEF FetchURLAccepts, Accepted
  <2>2. ASSUME name \in given
        PROVE  Decodes(name, same[name]) /\ same[name].type # "null"
    <3>1. CASE name \in IntNames
      <4>1. args[name].type \in {"number", "fraction", "digits"} /\ name \notin StringNames
        BY <2>1, <2>2, <3>1 DEF Fits, IntArg, IntNames, BoolNames, StringNames
      <4>2. same[name].type = "number"
        BY <1>4, <2>2, <4>1
      <4> QED BY <3>1, <4>2 DEF Decodes
    <3>2. CASE name \in BoolNames
      <4>1. args[name].type \in {"bool", "truth"} /\ name \notin StringNames
        BY <2>1, <2>2, <3>2 DEF Fits, BoolArg, IntNames, BoolNames, StringNames
      <4>2. same[name].type = "bool"
        BY <1>4, <2>2, <4>1
      <4> QED BY <3>2, <4>2 DEF Decodes
    <3>3. CASE name \in StringNames
      <4>1. args[name].type \in Texts
        BY <2>1, <2>2, <3>3 DEF Fits, StringArg, IntNames, BoolNames, StringNames
      <4>2. same[name].type \in Texts
        BY <1>3, <2>2, <3>3, <4>1
      <4> QED BY <3>3, <4>2 DEF Decodes, Texts
    <3> QED BY <3>1, <3>2, <3>3 DEF Names
  <2> QED BY <1>2, <2>2 DEF Decoded, Arg
<1>7. ASSUME FetchURLAccepts(args) PROVE HandleFetchAccepts(same)
  <2>1. "url" \in Names /\ "format" \in Names
    BY DEF Names, StringNames
  <2>2. Decoded(same, "url") \in WebURLs /\ Decoded(same, "format") \in KnownFormats
    <3>1. Arg(args, "url") \in WebURLs /\ Arg(args, "format") \in KnownFormats
      BY <1>7 DEF FetchURLAccepts, Accepted, Arg
    <3> QED BY <1>6, <1>7, <2>1, <3>1
  <2>3. \A name \in DOMAIN same \intersect Names : Decodes(name, same[name])
    BY <1>2, <1>6, <1>7
  <2> QED BY <2>2, <2>3 DEF HandleFetchAccepts
<1>8. ASSUME FetchURLAccepts(args)
      PROVE  Effect(HandleFetchOptions(same)) = Effect(FetchURLOptions(args))
  <2>1. \A name \in Names : Decoded(same, name) = Arg(args, name)
    BY <1>6, <1>8
  <2>2. "wayback_timestamp" \in Names /\ "top_k" \in Names
    BY DEF Names, StringNames, IntNames
  <2>3. ASSUME NEW name \in Names
        PROVE  IF name = "top_k"
               THEN /\ HandleFetchOptions(same)[name] = Arg(args, name)
                    /\ FetchURLOptions(args)[name] = PositiveOr(Arg(args, name), 0)
               ELSE HandleFetchOptions(same)[name] = FetchURLOptions(args)[name]
    BY <2>1, <2>2 DEF HandleFetchOptions, FetchURLOptions
  <2>4. \A v \in Int : PositiveOr(PositiveOr(v, 0), 0) = PositiveOr(v, 0)
    BY DEF PositiveOr
  <2>5. /\ HandleFetchOptions(same) = [name \in Names |-> HandleFetchOptions(same)[name]]
        /\ FetchURLOptions(args) = [name \in Names |-> FetchURLOptions(args)[name]]
    BY DEF HandleFetchOptions, FetchURLOptions
  <2> DEFINE h == HandleFetchOptions(same)
             f == FetchURLOptions(args)
  <2>6. \A name \in Names : Effect(h)[name] = Effect(f)[name]
    <3> TAKE name \in Names
    <3>1. /\ h = [x \in Names |-> h[x]] /\ f = [x \in Names |-> f[x]]
          /\ IF name = "top_k" THEN PositiveOr(h[name], 0) = PositiveOr(f[name], 0)
                               ELSE h[name] = f[name]
      BY <1>5, <2>3, <2>4, <2>5
    <3> HIDE DEF h, f
    <3> QED BY <3>1 DEF Effect
  <2>7. /\ Effect(h) = [name \in Names |-> Effect(h)[name]]
        /\ Effect(f) = [name \in Names |-> Effect(f)[name]]
    <3> HIDE DEF h, f
    <3> QED BY <2>5 DEF Effect, h, f
  <2> HIDE DEF h, f
  <2>8. Effect(h) = Effect(f)
    BY <2>6, <2>7
  <2> QED BY <2>8 DEF h, f
<1>9. ASSUME HandleFetchAccepts(args), \A name \in DOMAIN args : args[name].type # "null"
      PROVE  FetchURLAccepts(args)
  <2>1. ASSUME NEW name \in given, name \in Names
        PROVE  Fits(name, args[name]) /\ Decoded(args, name) = Arg(args, name)
    <3>1. Decodes(name, args[name]) /\ args[name].type # "null"
      BY <1>2, <1>9, <2>1 DEF HandleFetchAccepts
    <3> QED BY <1>2, <2>1, <3>1 DEF Decodes, Fits, Decoded, Arg, IntArg, BoolArg, StringArg
  <2>2. "url" \in Names /\ "format" \in Names /\ "url" \in StringNames
    BY DEF Names, StringNames
  <2>3. Decoded(args, "url") \in WebURLs /\ Decoded(args, "format") \in KnownFormats
    BY <1>9 DEF HandleFetchAccepts
  <2>4. "url" \in given /\ args["url"].v \in WebURLs
    BY <1>2, <2>3 DEF Decoded, WebURLs
  <2>5. StringArg(args["url"])
    <3>1. Fits("url", args["url"])
      BY <2>1, <2>2, <2>4
    <3>2. "url" \notin IntNames \union {"concurrency"} /\ "url" \notin BoolNames
      BY DEF IntNames, BoolNames
    <3> QED BY <3>1, <3>2 DEF Fits
  <2>6. Arg(args, "format") \in KnownFormats
    BY <1>2, <2>1, <2>2, <2>3 DEF Decoded, Arg
  <2>7. \A name \in DOMAIN args \intersect Names : Fits(name, args[name])
    BY <1>2, <2>1
  <2> QED BY <1>2, <2>4, <2>5, <2>6, <2>7 DEF FetchURLAccepts, Accepted
<1>10. ASSUME NEW name \in BatchNames \intersect Names
       PROVE  FetchBatchOptions(args)[name] = FetchURLOptions(args)[name]
  <2>1. name \in BatchNames /\ name \in Names
    OBVIOUS
  <2>2. /\ name \in {"format", "max_chars", "store_full_text", "char_limit"}
        /\ name # "concurrency" /\ name # "top_k" /\ name # "timeout_seconds"
        /\ name # "wayback_fallback"
    BY DEF BatchNames, Names, IntNames, BoolNames, StringNames
  <2> QED BY <2>1, <2>2 DEF FetchBatchOptions, FetchURLOptions
<1> QED
  <2>1. FetchURLAccepts(args) =>
          HandleFetchAccepts(same) /\ Effect(HandleFetchOptions(same)) = Effect(FetchURLOptions(args))
    BY <1>7, <1>8
  <2>2. HandleFetchAccepts(args) /\ (\A name \in DOMAIN args : args[name].type # "null")
          => FetchURLAccepts(args)
    BY <1>9
  <2>3. \A name \in BatchNames \intersect Names :
          FetchBatchOptions(args)[name] = FetchURLOptions(args)[name]
    BY <1>10
  <2> QED BY <2>1, <2>2, <2>3 DEF OptionsAgree, same

-----------------------------------------------------------------------------
(* The URLs of a batch.                                                      *)

LEMMA TakenByFetchURL ==
  ASSUME NEW u \in [type : Types, v : Int]
  PROVE  FetchURLAccepts([url |-> u]) <=> IsItem(u) /\ u.v \in WebURLs
<1> DEFINE args == [url |-> u]
<1>1. DOMAIN args = {"url"} /\ args["url"] = u
  OBVIOUS
<1> HIDE DEF args
<1>2. "url" \in StringNames /\ "url" \in Names /\ "format" # "url"
  BY DEF StringNames, Names
<1>3. Arg(args, "format") \in KnownFormats
  BY <1>1, <1>2 DEF Arg, KnownFormats
<1>4. StringArg(u) => Fits("url", u)
  BY <1>2 DEF Fits
<1>5. u.v \in WebURLs => u.v # 0
  BY DEF WebURLs
<1>6. FetchURLAccepts(args) <=> StringArg(u) /\ u.v \in WebURLs
  BY <1>1, <1>3, <1>4 DEF FetchURLAccepts, Accepted
<1> QED BY <1>5, <1>6 DEF IsItem, StringArg, args

\* A batch that is not refused has the URLs that fetch_url takes, in their order,
\* however long the list and whatever is in it.
THEOREM BatchTakesTheSame ==
  ASSUME NEW urls \in Seq([type : Types, v : Int])
  PROVE  ItemsAgree(urls)
<1> DEFINE U      == [type : Types, v : Int]
           places == {i \in DOMAIN urls : IsItem(urls[i])}
           taken  == {i \in DOMAIN urls : FetchURLAccepts([url |-> urls[i]])}
<1>1. Len(urls) \in Nat /\ DOMAIN urls = 1..Len(urls)
  BY LenProperties
<1>2. Collected(U, urls, places, Len(urls), FetchBatchItems(urls))
  <2>1. urls \in Seq(U) /\ places \in SUBSET (1..Len(urls))
    BY <1>1
  <2>2. FetchBatchItems(urls) = Selected(urls, places)
    BY DEF FetchBatchItems
  <2> HIDE DEF U, places
  <2> QED BY <2>1, <2>2, SelectedIs
<1>3. ASSUME ~FetchBatchRefuses(urls)
      PROVE  taken = places
  <2>1. ASSUME NEW i \in 1..Len(urls)
        PROVE  FetchURLAccepts([url |-> urls[i]]) <=> IsItem(urls[i])
    <3>1. urls[i] \in U
      BY ElementOfSeq
    <3>2. IsItem(urls[i]) => urls[i].v \in WebURLs
      BY <1>1, <1>3 DEF FetchBatchRefuses
    <3> QED BY <3>1, <3>2, TakenByFetchURL
  <2> QED BY <1>1, <2>1
<1>4. UpTo(places, Len(urls)) = places
  <2>1. \A i \in places : i <= Len(urls)
    BY <1>1
  <2> HIDE DEF places
  <2> QED BY <2>1 DEF UpTo
<1> HIDE DEF taken, places
<1>5. ASSUME ~FetchBatchRefuses(urls)
      PROVE  /\ Len(FetchBatchItems(urls)) = Cardinality(taken)
             /\ \A i \in taken : FetchBatchItems(urls)[Cardinality({j \in taken : j <= i})] = urls[i]
  BY <1>2, <1>3, <1>4, <1>5 DEF Collected, Rank, UpTo
<1> QED BY <1>5 DEF ItemsAgree, taken

\* What the runs feed the entrances are arguments, each name's last one given.
LEMMA InputIsArguments == Spec => [](part = "arguments" => input \in Seq(Arguments))
<1>1. Init => (part = "arguments" => input \in Seq(Arguments))
  BY EmptySeq DEF Init
<1>2. (part = "arguments" => input \in Seq(Arguments)) /\ [Next]_<<part, input>>
        => (part = "arguments" => input \in Seq(Arguments))'
  <2> SUFFICES ASSUME part = "arguments" => input \in Seq(Arguments), Next, part' = "arguments"
               PROVE  input' \in Seq(Arguments)
    OBVIOUS
  <2>1. part = "arguments" /\ input \in Seq(Arguments)
    BY DEF Next
  <2>2. PICK x \in Alphabet["arguments"] : input' = Append(input, x)
    BY <2>1 DEF Next
  <2>3. x \in Arguments
    BY <2>2 DEF Alphabet
  <2> QED BY <2>1, <2>2, <2>3, AppendProperties
<1> QED BY <1>1, <1>2, PTL DEF Spec

\* So the run's invariant holds however many arguments are given.
THEOREM ArgumentsAgree == Spec => []ArgumentsMeanTheSame
<1> DEFINE Values == [type : Types, v : Int]
<1>1. \A g \in Arguments : g.value \in Values
  BY DEF Arguments, Given, Value, Types, Texts
<1>2. ASSUME input \in Seq(Arguments) PROVE ArgumentsMeanTheSame
  <2> DEFINE given == {input[i].name : i \in DOMAIN input}
             Latest(name) == CHOOSE i \in DOMAIN input :
               input[i].name = name /\ \A j \in DOMAIN input : input[j].name = name => j <= i
             args == [name \in given |-> input[Latest(name)].value]
             urls == [i \in DOMAIN input |-> input[i].value]
  <2>1. /\ Len(input) \in Nat /\ DOMAIN input = 1..Len(input)
        /\ \A i \in DOMAIN input : input[i] \in Arguments
    BY <1>2, LenProperties, ElementOfSeq
  <2>2. \A i \in DOMAIN input : input[i].value \in Values
    BY <1>1, <2>1
  <2>3. ASSUME NEW name \in given PROVE Latest(name) \in DOMAIN input
    <3> DEFINE places == {i \in DOMAIN input : input[i].name = name}
    <3>1. places \in SUBSET Int /\ places # {} /\ places \in SUBSET (1..Len(input))
      BY <2>1, <2>3
    <3>2. IsFiniteSet(places)
      <4>1. 1 \in Int /\ Len(input) \in Int
        BY <2>1
      <4>2. IsFiniteSet(1..Len(input))
        BY <4>1, FS_Interval
      <4> QED BY <3>1, <4>2, FS_Subset
    <3>3. Max(places) \in places /\ \A i \in places : i <= Max(places)
      <4> HIDE DEF places
      <4> QED BY <3>1, <3>2, MaxOfFinite
    <3> QED BY <3>3
  <2>4. args \in [given -> Values]
    <3> HIDE DEF Values, given, Latest
    <3> QED BY <2>2, <2>3
  <2>5. urls \in Seq(Values)
    <3> HIDE DEF Values
    <3>1. urls \in [1..Len(input) -> Values]
      BY <2>1, <2>2
    <3> QED BY <2>1, <3>1
  <2>6. OptionsAgree(args) /\ ItemsAgree(urls)
    <3> HIDE DEF args, urls, given
    <3> QED BY <2>4, <2>5, EntrancesTakeTheSame, BatchTakesTheSame
  <2> QED BY <2>6 DEF ArgumentsMeanTheSame, EntrancesAgree
<1>3. (part = "arguments" => input \in Seq(Arguments)) => ArgumentsMeanTheSame
  BY <1>2 DEF ArgumentsMeanTheSame
<1> QED BY <1>3, InputIsArguments, PTL

-----------------------------------------------------------------------------
(* What a flattened sequence holds.                                          *)

LEMMA FlattenAppend ==
  ASSUME NEW U, NEW s \in Seq(Seq(U)), NEW x \in Seq(U)
  PROVE  FlattenSeq(Append(s, x)) = FlattenSeq(s) \o x
<1> DEFINE T == Seq(U)
           t == Append(s, x)
<1>1. s \in Seq(T) /\ x \in T
  OBVIOUS
<1> HIDE DEF T
<1>2. /\ t \in Seq(T) /\ Len(t) = Len(s) + 1 /\ t[Len(s) + 1] = x
      /\ \A i \in 1..Len(s) : t[i] = s[i]
  BY <1>1, AppendProperties
<1> HIDE DEF t
<1>3. FlattenSeq(t) = FlattenSeq(s) \o t[Len(t)]
  BY <1>2, FlattenOneMore DEF T
<1> QED BY <1>2, <1>3 DEF t

LEMMA ToSetOfConcat ==
  ASSUME NEW U, NEW s \in Seq(U), NEW t \in Seq(U)
  PROVE  ToSet(s \o t) = ToSet(s) \union ToSet(t)
<1>1. /\ DOMAIN s = 1..Len(s) /\ DOMAIN t = 1..Len(t) /\ Len(s) \in Nat /\ Len(t) \in Nat
      /\ s \o t \in Seq(U) /\ DOMAIN (s \o t) = 1..(Len(s) + Len(t))
      /\ \A i \in 1..(Len(s) + Len(t)) : (s \o t)[i] = IF i <= Len(s) THEN s[i] ELSE t[i - Len(s)]
  BY ConcatProperties, LenProperties
<1> DEFINE both == s \o t
<1> HIDE DEF both
<1>2. ASSUME NEW v \in ToSet(both) PROVE v \in ToSet(s) \union ToSet(t)
  <2>1. PICK i \in 1..(Len(s) + Len(t)) : v = both[i]
    BY <1>1, <1>2 DEF ToSet, both
  <2>2. i <= Len(s) => i \in 1..Len(s)
    BY <1>1
  <2>3. ~ i <= Len(s) => i - Len(s) \in 1..Len(t)
    BY <1>1
  <2> QED BY <1>1, <2>1, <2>2, <2>3 DEF ToSet, both
<1>3. ASSUME NEW v \in ToSet(s) PROVE v \in ToSet(both)
  <2>1. PICK i \in 1..Len(s) : v = s[i]
    BY <1>1, <1>3 DEF ToSet
  <2>2. i \in 1..(Len(s) + Len(t)) /\ i <= Len(s)
    BY <1>1
  <2> QED BY <1>1, <2>1, <2>2 DEF ToSet, both
<1>4. ASSUME NEW v \in ToSet(t) PROVE v \in ToSet(both)
  <2>1. PICK i \in 1..Len(t) : v = t[i]
    BY <1>1, <1>4 DEF ToSet
  <2>2. Len(s) + i \in 1..(Len(s) + Len(t)) /\ ~ Len(s) + i <= Len(s) /\ (Len(s) + i) - Len(s) = i
    BY <1>1
  <2>3. both[Len(s) + i] = t[i]
    BY <1>1, <2>2 DEF both
  <2> QED BY <1>1, <2>1, <2>2, <2>3 DEF ToSet, both
<1> QED BY <1>2, <1>3, <1>4 DEF both

\* The places of the elements in the sequences that are flattened.
Cells(s) == {c \in (DOMAIN s) \X (Nat \ {0}) : c[2] <= Len(s[c[1]])}
Entry(s, c) == s[c[1]][c[2]]
HoldsCells(U, s) ==
  /\ FlattenSeq(s) \in Seq(U)
  /\ IsFiniteSet(Cells(s)) /\ Len(FlattenSeq(s)) = Cardinality(Cells(s))
  /\ ToSet(FlattenSeq(s)) = {Entry(s, c) : c \in Cells(s)}

LEMMA OneSequenceMore ==
  ASSUME NEW U, NEW s \in Seq(Seq(U)), NEW x \in Seq(U), HoldsCells(U, s)
  PROVE  HoldsCells(U, Append(s, x))
<1> DEFINE T == Seq(U)
           t == Append(s, x)
           n == Len(s) + 1
           row == {n} \X (1..Len(x))
<1>1. FlattenSeq(t) = FlattenSeq(s) \o x
  BY FlattenAppend
<1>2. Len(x) \in Nat /\ DOMAIN x = 1..Len(x)
  BY LenProperties
<1>3. s \in Seq(T) /\ x \in T
  OBVIOUS
<1> HIDE DEF T
<1>4. /\ t \in Seq(T) /\ t[n] = x /\ \A i \in 1..Len(s) : t[i] = s[i]
      /\ Len(s) \in Nat /\ DOMAIN s = 1..Len(s) /\ DOMAIN t = (1..Len(s)) \union {n} /\ n \notin 1..Len(s)
  <2>1. t \in Seq(T) /\ Len(t) = n /\ t[n] = x /\ \A i \in 1..Len(s) : t[i] = s[i]
    BY <1>3, AppendProperties
  <2>2. Len(s) \in Nat /\ DOMAIN s = 1..Len(s)
    BY <1>3, LenProperties
  <2>3. DOMAIN t = 1..Len(t)
    BY <2>1, LenProperties
  <2>4. 1..n = (1..Len(s)) \union {n} /\ n \notin 1..Len(s)
    BY <2>2
  <2> QED BY <2>1, <2>2, <2>3, <2>4
<1> HIDE DEF t, n
<1>5. Cells(t) = Cells(s) \union row /\ Cells(s) \intersect row = {}
  <2>1. ASSUME NEW c \in Cells(t) PROVE c \in Cells(s) \union row
    <3>1. PICK i \in DOMAIN t, j \in Nat \ {0} : c = <<i, j>> /\ j <= Len(t[i])
      BY DEF Cells
    <3>2. CASE i = n
      <4>1. j \in 1..Len(x)
        BY <1>2, <1>4, <3>1, <3>2
      <4> QED BY <3>1, <3>2, <4>1
    <3>3. CASE i # n
      BY <1>4, <3>1, <3>3 DEF Cells
    <3> QED BY <3>2, <3>3
  <2>2. ASSUME NEW c \in Cells(s) PROVE c \in Cells(t) /\ c \notin row
    <3>1. PICK i \in DOMAIN s, j \in Nat \ {0} : c = <<i, j>> /\ j <= Len(s[i])
      BY DEF Cells
    <3> QED BY <1>4, <3>1 DEF Cells
  <2>3. ASSUME NEW c \in row PROVE c \in Cells(t)
    <3>1. PICK j \in 1..Len(x) : c = <<n, j>>
      OBVIOUS
    <3>2. j \in Nat \ {0} /\ j <= Len(x)
      BY <1>2
    <3> QED BY <1>4, <3>1, <3>2 DEF Cells
  <2> QED BY <2>1, <2>2, <2>3
<1>6. IsFiniteSet(row) /\ Cardinality(row) = Len(x)
  <2> DEFINE m == Len(x)
             I == 1..m
  <2>1. 1 \in Int /\ m \in Int /\ m \in Nat
    BY <1>2
  <2> HIDE DEF m
  <2>2. IsFiniteSet(I) /\ Cardinality(I) = m
    BY <2>1, FS_Interval
  <2>3. IsFiniteSet({n}) /\ Cardinality({n}) = 1
    BY FS_Singleton
  <2> HIDE DEF I
  <2>4. IsFiniteSet({n} \X I) /\ Cardinality({n} \X I) = 1 * m
    BY <2>2, <2>3, FS_Product
  <2> QED BY <2>1, <2>4 DEF m, I
<1> HIDE DEF row
<1>7. IsFiniteSet(Cells(t)) /\ Cardinality(Cells(t)) = Cardinality(Cells(s)) + Len(x)
  <2>1. /\ IsFiniteSet(Cells(s) \union row)
        /\ Cardinality(Cells(s) \union row)
             = Cardinality(Cells(s)) + Cardinality(row) - Cardinality(Cells(s) \intersect row)
    BY <1>6, FS_Union DEF HoldsCells
  <2>2. Cardinality(Cells(s) \intersect row) = 0 /\ Cardinality(Cells(s)) \in Nat
    BY <1>5, FS_EmptySet, FS_CardinalityType DEF HoldsCells
  <2>3. Cells(t) = Cells(s) \union row
    BY <1>5
  <2> DEFINE both == Cells(s) \union row
             shared == Cells(s) \intersect row
  <2> HIDE DEF both, shared
  <2> QED BY <1>2, <1>6, <2>1, <2>2, <2>3 DEF both, shared
<1>8. FlattenSeq(t) \in Seq(U) /\ Len(FlattenSeq(t)) = Cardinality(Cells(t))
  BY <1>1, <1>7, ConcatProperties DEF HoldsCells
<1>9. {Entry(t, c) : c \in Cells(t)} = {Entry(s, c) : c \in Cells(s)} \union ToSet(x)
  <2>1. ASSUME NEW c \in Cells(s) PROVE Entry(t, c) = Entry(s, c)
    BY <1>4 DEF Cells, Entry
  <2>2. ASSUME NEW c \in row PROVE Entry(t, c) \in ToSet(x)
    BY <1>2, <1>4 DEF row, ToSet, Entry
  <2>3. ASSUME NEW v \in ToSet(x) PROVE \E c \in row : v = Entry(t, c)
    <3>1. PICK j \in 1..Len(x) : v = x[j]
      BY <1>2 DEF ToSet
    <3>2. <<n, j>> \in row /\ <<n, j>>[1] = n /\ <<n, j>>[2] = j
      BY DEF row
    <3> QED BY <1>4, <3>1, <3>2 DEF Entry
  <2> QED BY <1>5, <2>1, <2>2, <2>3
<1>10. ToSet(FlattenSeq(t)) = ToSet(FlattenSeq(s)) \union ToSet(x)
  BY <1>1, ToSetOfConcat DEF HoldsCells
<1> QED BY <1>7, <1>8, <1>9, <1>10 DEF HoldsCells, t

LEMMA FlattenHoldsCells ==
  ASSUME NEW U, NEW seqs \in Seq(Seq(U))
  PROVE  HoldsCells(U, seqs)
<1> DEFINE T == Seq(U)
           bad == {n \in Nat : \E s \in Seq(T) : Len(s) = n /\ ~ HoldsCells(U, s)}
<1>1. SUFFICES ASSUME bad # {} PROVE FALSE
  <2>1. seqs \in Seq(T) /\ Len(seqs) \in Nat
    BY LenProperties
  <2> HIDE DEF T
  <2> QED BY <2>1
<1>2. PICK n \in bad : \A k \in bad : n <= k
  <2>1. bad \in SUBSET Nat
    OBVIOUS
  <2> HIDE DEF bad
  <2> QED BY <1>1, <2>1, LeastNatural
<1>3. PICK s \in Seq(T) : Len(s) = n /\ ~ HoldsCells(U, s)
  BY <1>2
<1>4. HoldsCells(U, << >>)
  <2>1. << >> \in Seq(T) /\ Len(<< >>) = 0 /\ << >> \in Seq(U)
    BY EmptySeq
  <2>2. FlattenSeq(<< >>) = << >>
    BY <2>1, FlattenNothing
  <2>3. Cells(<< >>) = {} /\ ToSet(<< >>) = {}
    <3>1. DOMAIN << >> = {}
      OBVIOUS
    <3> QED BY <3>1 DEF Cells, ToSet
  <2>4. {Entry(<< >>, c) : c \in Cells(<< >>)} = {}
    BY <2>3
  <2> QED BY <2>1, <2>2, <2>3, <2>4, FS_EmptySet DEF HoldsCells
<1>5. s # << >>
  BY <1>3, <1>4
<1>6. PICK t \in Seq(T), x \in T : s = Append(t, x)
  <2> HIDE DEF T
  <2> QED BY <1>3, <1>5, SequenceEmptyOrAppend
<1>7. HoldsCells(U, t)
  <2>1. Len(t) \in Nat /\ Len(s) = Len(t) + 1
    <3> HIDE DEF T
    <3> QED BY <1>6, AppendProperties, LenProperties
  <2>2. Len(t) \notin bad
    <3>1. Len(t) \in Nat /\ ~ n <= Len(t)
      BY <1>3, <2>1
    <3> HIDE DEF bad
    <3> QED BY <1>2, <3>1
  <2> HIDE DEF T
  <2> QED BY <1>6, <2>1, <2>2
<1>8. HoldsCells(U, s)
  BY <1>6, <1>7, OneSequenceMore
<1> QED BY <1>3, <1>8

\* Flattened in another order they are as many, and the same.
LEMMA FlattenPermuted ==
  ASSUME NEW U, NEW s \in Seq(Seq(U)), NEW t \in Seq(Seq(U)), Len(s) = Len(t),
         NEW order \in [DOMAIN s -> DOMAIN s],
         \A i, j \in DOMAIN s : order[i] = order[j] => i = j,
         \A i \in DOMAIN s : t[i] = s[order[i]]
  PROVE  Len(FlattenSeq(t)) = Len(FlattenSeq(s)) /\ ToSet(FlattenSeq(t)) = ToSet(FlattenSeq(s))
<1> DEFINE D == DOMAIN s
           move == [c \in Cells(t) |-> <<order[c[1]], c[2]>>]
<1>1. HoldsCells(U, s) /\ HoldsCells(U, t)
  BY FlattenHoldsCells
<1>2. DOMAIN t = D /\ D = 1..Len(s) /\ Len(s) \in Nat
  <2> DEFINE T == Seq(U)
  <2>1. s \in Seq(T) /\ t \in Seq(T)
    OBVIOUS
  <2> HIDE DEF T
  <2> QED BY <2>1, LenProperties
<1>3. order \in Surjection(D, D)
  <2>1. order \in Injection(D, D)
    <3> HIDE DEF D
    <3> QED BY Fun_IsInj DEF D
  <2>2. IsFiniteSet(D)
    <3>1. 1 \in Int /\ Len(s) \in Int
      BY <1>2
    <3> QED BY <1>2, <3>1, FS_Interval
  <2> QED BY <2>1, <2>2, FS_Injection
<1>4. \A i \in D : \E j \in D : order[j] = i
  BY <1>3, Fun_SurjectionProperties
<1> HIDE DEF D
<1>5. ASSUME NEW i \in D, NEW j \in Nat \ {0}
      PROVE  <<i, j>> \in Cells(t) <=> <<order[i], j>> \in Cells(s)
  BY <1>2 DEF Cells, D
<1>6. \A c \in Cells(t) : \E i \in D, j \in Nat \ {0} : c = <<i, j>> /\ move[c] = <<order[i], j>>
  BY <1>2 DEF Cells
<1>7. \A c \in Cells(s) : \E i \in D, j \in Nat \ {0} : c = <<order[i], j>> /\ <<i, j>> \in Cells(t)
  <2> SUFFICES ASSUME NEW c \in Cells(s)
               PROVE  \E i \in D, j \in Nat \ {0} : c = <<order[i], j>> /\ <<i, j>> \in Cells(t)
    OBVIOUS
  <2>1. PICK k \in D, j \in Nat \ {0} : c = <<k, j>>
    BY DEF Cells, D
  <2>2. PICK i \in D : order[i] = k
    BY <1>4
  <2> QED BY <1>5, <2>1, <2>2
<1>8. move \in [Cells(t) -> Cells(s)]
  BY <1>5, <1>6
<1>9. \A c, d \in Cells(t) : move[c] = move[d] => c = d
  <2> SUFFICES ASSUME NEW c \in Cells(t), NEW d \in Cells(t), move[c] = move[d] PROVE c = d
    OBVIOUS
  <2>1. PICK i \in D, j \in Nat \ {0} : c = <<i, j>> /\ move[c] = <<order[i], j>>
    BY <1>6
  <2>2. PICK k \in D, l \in Nat \ {0} : d = <<k, l>> /\ move[d] = <<order[k], l>>
    BY <1>6
  <2> QED BY <2>1, <2>2 DEF D
<1>10. \A c \in Cells(s) : \E d \in Cells(t) : move[d] = c
  BY <1>7
<1>11. \A d \in Cells(t) : Entry(t, d) = Entry(s, move[d])
  <2> SUFFICES ASSUME NEW d \in Cells(t) PROVE Entry(t, d) = Entry(s, move[d])
    OBVIOUS
  <2>1. PICK i \in D, j \in Nat \ {0} : d = <<i, j>> /\ move[d] = <<order[i], j>>
    BY <1>6
  <2>2. t[i] = s[order[i]]
    BY DEF D
  <2> QED BY <2>1, <2>2 DEF Entry
<1> HIDE DEF move
<1>12. Cardinality(Cells(s)) = Cardinality(Cells(t))
  <2>1. move \in Injection(Cells(t), Cells(s))
    BY <1>8, <1>9, Fun_IsInj
  <2>2. move \in Surjection(Cells(t), Cells(s))
    BY <1>8, <1>10, Fun_IsSurj
  <2> QED BY <1>1, <2>1, <2>2, FS_Injection DEF HoldsCells
<1>13. {Entry(t, d) : d \in Cells(t)} = {Entry(s, c) : c \in Cells(s)}
  <2>1. ASSUME NEW d \in Cells(t) PROVE \E c \in Cells(s) : Entry(t, d) = Entry(s, c)
    BY <1>8, <1>11
  <2>2. ASSUME NEW c \in Cells(s) PROVE \E d \in Cells(t) : Entry(t, d) = Entry(s, c)
    <3>1. PICK d \in Cells(t) : move[d] = c
      BY <1>10
    <3>2. Entry(t, d) = Entry(s, move[d])
      BY <1>11
    <3> QED BY <3>1, <3>2
  <2> QED BY <2>1, <2>2
<1> QED BY <1>1, <1>12, <1>13 DEF HoldsCells

-----------------------------------------------------------------------------
(* Splitting a page into sections and joining them.                          *)

\* The lines of a page and of what is joined; a text says something.
PageLine(W) ==
  [kind : {"heading", "blank"}, says : W] \union [kind : {"text"}, says : W \ {NoHeading}]
OutLine(W) == [kind : {"heading", "text"}, says : W]

\* A section without a line that is not blank has nothing in it.
SectionOf(W) ==
  {s \in [heading : W, text : Seq(W), raw : BOOLEAN] : s.raw \/ (s.heading = NoHeading /\ s.text = << >>)}

AllLines(sections) == [i \in DOMAIN sections |-> SectionLines(sections[i])]
LinesOf(sections) == FlattenSeq(AllLines(sections))

HeadingLine(s) == IF s.heading # NoHeading THEN <<Line("heading", s.heading)>> ELSE << >>
TextLines(text) == [i \in DOMAIN text |-> Line("text", text[i])]

LEMMA SectionLinesAre ==
  ASSUME NEW W, NEW s \in SectionOf(W)
  PROVE  /\ SectionLines(s) = HeadingLine(s) \o TextLines(s.text)
         /\ HeadingLine(s) \in Seq(OutLine(W)) /\ TextLines(s.text) \in Seq(OutLine(W))
         /\ Len(TextLines(s.text)) = Len(s.text)
         /\ SectionLines(s) \in Seq(OutLine(W))
<1> DEFINE O == OutLine(W)
<1>1. s.heading \in W /\ s.text \in Seq(W)
  BY DEF SectionOf
<1>2. Len(s.text) \in Nat /\ DOMAIN s.text = 1..Len(s.text) /\ \A i \in 1..Len(s.text) : s.text[i] \in W
  BY <1>1, LenProperties, ElementOfSeq
<1>3. \A w \in W : Line("heading", w) \in O /\ Line("text", w) \in O
  BY DEF Line, OutLine
<1> HIDE DEF O
<1>4. HeadingLine(s) \in Seq(O)
  <2>1. <<Line("heading", s.heading)>> \in Seq(O) /\ << >> \in Seq(O)
    BY <1>1, <1>3
  <2> QED BY <2>1 DEF HeadingLine
<1>5. TextLines(s.text) \in Seq(O) /\ Len(TextLines(s.text)) = Len(s.text)
  <2>1. TextLines(s.text) \in [1..Len(s.text) -> O]
    BY <1>2, <1>3 DEF TextLines
  <2> QED BY <1>2, <2>1
<1>6. SectionLines(s) = HeadingLine(s) \o TextLines(s.text)
  BY DEF SectionLines, HeadingLine, TextLines
<1> QED BY <1>4, <1>5, <1>6, ConcatProperties DEF O

LEMMA AllLinesAre ==
  ASSUME NEW W, NEW sections \in Seq(SectionOf(W))
  PROVE  /\ AllLines(sections) \in Seq(Seq(OutLine(W))) /\ Len(AllLines(sections)) = Len(sections)
         /\ \A i \in 1..Len(sections) : AllLines(sections)[i] = SectionLines(sections[i])
         /\ LinesOf(sections) \in Seq(OutLine(W))
<1> DEFINE T == Seq(OutLine(W))
<1>1. Len(sections) \in Nat /\ DOMAIN sections = 1..Len(sections)
  BY LenProperties
<1>2. \A i \in 1..Len(sections) : SectionLines(sections[i]) \in T
  BY ElementOfSeq, SectionLinesAre
<1> HIDE DEF T
<1>3. AllLines(sections) \in [1..Len(sections) -> T]
  BY <1>1, <1>2 DEF AllLines
<1>4. AllLines(sections) \in Seq(T) /\ Len(AllLines(sections)) = Len(sections)
  BY <1>1, <1>3
<1>5. HoldsCells(OutLine(W), AllLines(sections))
  BY <1>4, FlattenHoldsCells DEF T
<1> QED BY <1>1, <1>4, <1>5 DEF T, AllLines, LinesOf, HoldsCells

LEMMA LinesOfAppend ==
  ASSUME NEW W, NEW sections \in Seq(SectionOf(W)), NEW s \in SectionOf(W)
  PROVE  LinesOf(Append(sections, s)) = LinesOf(sections) \o SectionLines(s)
<1> DEFINE T == Seq(OutLine(W))
           longer == Append(sections, s)
           n == Len(sections)
<1>1. /\ longer \in Seq(SectionOf(W)) /\ Len(longer) = n + 1 /\ longer[n + 1] = s
      /\ n \in Nat /\ \A i \in 1..n : longer[i] = sections[i]
  BY AppendProperties, LenProperties
<1> HIDE DEF longer
<1>2. /\ AllLines(sections) \in Seq(T) /\ Len(AllLines(sections)) = n
      /\ \A i \in 1..n : AllLines(sections)[i] = SectionLines(sections[i])
  BY AllLinesAre
<1>3. /\ AllLines(longer) \in Seq(T) /\ Len(AllLines(longer)) = n + 1
      /\ \A i \in 1..(n + 1) : AllLines(longer)[i] = SectionLines(longer[i])
  BY <1>1, AllLinesAre
<1>4. FlattenSeq(AllLines(longer)) = FlattenSeq(AllLines(sections)) \o AllLines(longer)[n + 1]
  <2>1. \A i \in 1..n : i \in 1..(n + 1) /\ AllLines(sections)[i] = AllLines(longer)[i]
    BY <1>1, <1>2, <1>3
  <2> QED BY <1>2, <1>3, <2>1, FlattenOneMore
<1>5. n + 1 \in 1..(n + 1)
  BY <1>1
<1> QED BY <1>1, <1>3, <1>4, <1>5 DEF LinesOf, longer

\* One element more to select from.
LEMMA SelectedAppend ==
  ASSUME NEW U, NEW seq \in Seq(U), NEW x \in U, NEW places, NEW more,
         \A i \in 1..Len(seq) : i \in more <=> i \in places
  PROVE  /\ Selected(Append(seq, x), more) =
              Selected(seq, places) \o (IF Len(seq) + 1 \in more THEN <<x>> ELSE << >>)
         /\ Selected(seq, places) \in Seq(U)
<1> DEFINE T == Seq(U)
           longer == Append(seq, x)
           n == Len(seq)
           old == Pieces(seq, places, n)
           new == Pieces(longer, more, n + 1)
<1>1. /\ longer \in Seq(U) /\ Len(longer) = n + 1 /\ longer[n + 1] = x
      /\ n \in Nat /\ \A i \in 1..n : longer[i] = seq[i]
      /\ DOMAIN longer = 1..(n + 1) /\ DOMAIN seq = 1..n
  <2>1. /\ longer \in Seq(U) /\ Len(longer) = n + 1 /\ longer[n + 1] = x
        /\ \A i \in 1..n : longer[i] = seq[i]
    BY AppendProperties
  <2> HIDE DEF longer
  <2> QED BY <2>1, LenProperties
<1> HIDE DEF longer
<1>2. /\ old \in Seq(T) /\ Len(old) = n
      /\ \A i \in 1..n : old[i] = IF i \in places THEN <<seq[i]>> ELSE << >>
  <2>1. n \in 0..Len(seq)
    BY <1>1
  <2> QED BY <2>1, PiecesAre
<1>3. /\ new \in Seq(T) /\ Len(new) = n + 1
      /\ \A i \in 1..(n + 1) : new[i] = IF i \in more THEN <<longer[i]>> ELSE << >>
  <2>1. n + 1 \in 0..Len(longer)
    BY <1>1
  <2> QED BY <1>1, <2>1, PiecesAre
<1>4. Selected(seq, places) = FlattenSeq(old) /\ Selected(longer, more) = FlattenSeq(new)
  BY <1>1 DEF Selected, Pieces
<1>5. FlattenSeq(new) = FlattenSeq(old) \o new[n + 1]
  <2>1. n \in Nat /\ n + 1 \in 1..(n + 1) /\ \A i \in 1..n : i \in 1..(n + 1)
    BY <1>1
  <2> HIDE DEF old, new, n, T
  <2>2. \A i \in 1..n : old[i] = new[i]
    BY <1>1, <1>2, <1>3, <2>1
  <2>3. Len(new) = Len(old) + 1 /\ \A i \in 1..Len(old) : old[i] = new[i]
    BY <1>2, <1>3, <2>2
  <2>4. FlattenSeq(new) = FlattenSeq(old) \o new[Len(new)]
    BY <1>2, <1>3, <2>3, FlattenOneMore DEF T
  <2> QED BY <1>3, <2>4
<1>6. n + 1 \in 1..(n + 1)
  BY <1>1
<1>7. FlattenSeq(old) \in Seq(U)
  BY <1>2, FlattenHoldsCells DEF HoldsCells
<1> HIDE DEF old, new
<1> QED BY <1>1, <1>3, <1>4, <1>5, <1>6, <1>7 DEF longer

SaysSomething(line) == line.kind # "blank" /\ line.says # NoHeading

LEMMA SaysAppend ==
  ASSUME NEW U, NEW page \in Seq(U), NEW line \in U
  PROVE  /\ Says(Append(page, line)) = Says(page) \o (IF SaysSomething(line) THEN <<line>> ELSE << >>)
         /\ Says(page) \in Seq(U)
<1> DEFINE longer == Append(page, line)
           n == Len(page)
           places == {i \in DOMAIN page : page[i].kind # "blank" /\ page[i].says # NoHeading}
           more == {i \in DOMAIN longer : longer[i].kind # "blank" /\ longer[i].says # NoHeading}
<1>1. /\ longer \in Seq(U) /\ Len(longer) = n + 1 /\ longer[n + 1] = line
      /\ n \in Nat /\ \A i \in 1..n : longer[i] = page[i]
      /\ DOMAIN longer = 1..(n + 1) /\ DOMAIN page = 1..n
  <2>1. /\ longer \in Seq(U) /\ Len(longer) = n + 1 /\ longer[n + 1] = line
        /\ \A i \in 1..n : longer[i] = page[i]
    BY AppendProperties
  <2> HIDE DEF longer
  <2> QED BY <2>1, LenProperties
<1>2. Says(page) = Selected(page, places) /\ Says(longer) = Selected(longer, more)
  BY DEF Says
<1> HIDE DEF longer
<1>3. \A i \in 1..n : i \in more <=> i \in places
  BY <1>1
<1>4. n + 1 \in more <=> SaysSomething(line)
  BY <1>1 DEF SaysSomething
<1> HIDE DEF places, more
<1>5. /\ Selected(longer, more) =
           Selected(page, places) \o (IF n + 1 \in more THEN <<line>> ELSE << >>)
      /\ Selected(page, places) \in Seq(U)
  BY <1>3, SelectedAppend DEF longer
<1> QED BY <1>2, <1>4, <1>5 DEF longer

\* What has been split of a page: together with what is open, all that it says.
SplitSoFar(W, page, state) ==
  /\ state \in [sections : Seq(SectionOf(W)), open : SectionOf(W)]
  /\ LinesOf(state.sections) \o SectionLines(state.open) = Says(page)

LEMMA SavedLines ==
  ASSUME NEW W, NEW state \in [sections : Seq(SectionOf(W)), open : SectionOf(W)]
  PROVE  /\ Save(state) \in Seq(SectionOf(W))
         /\ LinesOf(Save(state)) = LinesOf(state.sections) \o SectionLines(state.open)
<1>1. state.sections \in Seq(SectionOf(W)) /\ state.open \in SectionOf(W)
  OBVIOUS
<1>2. CASE state.open.raw \/ state.open.heading # NoHeading
  <2>1. Save(state) = Append(state.sections, state.open)
    BY <1>2 DEF Save
  <2> QED BY <1>1, <2>1, AppendProperties, LinesOfAppend
<1>3. CASE ~ (state.open.raw \/ state.open.heading # NoHeading)
  <2>1. Save(state) = state.sections
    BY <1>3 DEF Save
  <2>2. state.open.text = << >>
    BY <1>1, <1>3 DEF SectionOf
  <2>3. SectionLines(state.open) = << >>
    <3>1. HeadingLine(state.open) = << >> /\ TextLines(state.open.text) = << >>
      BY <1>3, <2>2 DEF HeadingLine, TextLines
    <3>2. SectionLines(state.open) = << >> \o << >>
      BY <1>1, <3>1, SectionLinesAre
    <3> QED BY <3>2
  <2>4. LinesOf(state.sections) \in Seq(OutLine(W))
    BY <1>1, AllLinesAre
  <2> QED BY <1>1, <2>1, <2>3, <2>4, ConcatEmptySeq
<1> QED BY <1>2, <1>3

LEMMA SplitOneLineMore ==
  ASSUME NEW W, NoHeading \in W, NEW page \in Seq(PageLine(W)), NEW line \in PageLine(W),
         NEW state, SplitSoFar(W, page, state)
  PROVE  SplitSoFar(W, Append(page, line), SplitLine(state, line))
<1> DEFINE O == OutLine(W)
           S == SectionOf(W)
           open == state.open
           before == LinesOf(state.sections)
<1>1. state \in [sections : Seq(S), open : S] /\ state.sections \in Seq(S) /\ open \in S
  BY DEF SplitSoFar
<1>2. before \in Seq(O) /\ SectionLines(open) \in Seq(O)
  BY <1>1, AllLinesAre, SectionLinesAre
<1>3. Says(page) = before \o SectionLines(open)
  BY DEF SplitSoFar
<1>4. Says(Append(page, line)) = Says(page) \o (IF SaysSomething(line) THEN <<line>> ELSE << >>)
  BY SaysAppend
<1>5. Says(page) \in Seq(O)
  BY <1>2, <1>3, ConcatProperties
<1>6. line.says \in W /\ line.kind \in {"heading", "text", "blank"}
      /\ line = Line(line.kind, line.says) /\ (line.kind = "text" => line.says # NoHeading)
  BY DEF PageLine, Line
<1> HIDE DEF O, S
<1>7. CASE line.kind = "heading"
  <2> DEFINE new == Section(line.says, << >>, TRUE)
  <2>1. SplitLine(state, line) = [sections |-> Save(state), open |-> new]
    BY <1>7 DEF SplitLine
  <2>2. new \in S /\ new.heading = line.says /\ new.text = << >>
    BY <1>6, EmptySeq DEF S, SectionOf, Section
  <2> HIDE DEF new
  <2>3. Save(state) \in Seq(S) /\ LinesOf(Save(state)) = Says(page)
    BY <1>1, <1>3, SavedLines DEF S
  <2>4. SectionLines(new) = IF SaysSomething(line) THEN <<line>> ELSE << >>
    <3>1. SectionLines(new) = HeadingLine(new) \o TextLines(new.text) /\ HeadingLine(new) \in Seq(O)
      BY <2>2, SectionLinesAre DEF S, O
    <3>2. TextLines(new.text) = << >>
      BY <2>2 DEF TextLines
    <3>3. HeadingLine(new) = IF SaysSomething(line) THEN <<line>> ELSE << >>
      BY <1>6, <1>7, <2>2 DEF HeadingLine, SaysSomething
    <3> QED BY <3>1, <3>2, <3>3, ConcatEmptySeq
  <2>5. /\ SplitLine(state, line) \in [sections : Seq(S), open : S]
        /\ SplitLine(state, line).sections = Save(state) /\ SplitLine(state, line).open = new
    BY <2>1, <2>2, <2>3
  <2> QED BY <1>4, <2>3, <2>4, <2>5 DEF SplitSoFar, S
<1>8. CASE line.kind = "text"
  <2> DEFINE new == [open EXCEPT !.text = Append(@, line.says), !.raw = TRUE]
  <2>1. SplitLine(state, line) = [state EXCEPT !.open = new]
    BY <1>1, <1>8 DEF SplitLine
  <2>2. SplitLine(state, line) \in [sections : Seq(S), open : {new}]
        /\ SplitLine(state, line).sections = state.sections /\ SplitLine(state, line).open = new
    <3> HIDE DEF new
    <3> QED BY <1>1, <2>1
  <2>3. open.heading \in W /\ open.text \in Seq(W)
    BY <1>1 DEF S, SectionOf
  <2>4. new \in S /\ new.heading = open.heading /\ new.text = Append(open.text, line.says)
    <3>1. Append(open.text, line.says) \in Seq(W)
      BY <1>6, <2>3, AppendProperties
    <3> QED BY <1>1, <2>3, <3>1 DEF S, SectionOf
  <2> HIDE DEF new, open
  <2>5. TextLines(new.text) = TextLines(open.text) \o <<line>>
    <3> DEFINE m == Len(open.text)
               old == TextLines(open.text)
               longer == TextLines(new.text)
    <3>1. /\ m \in Nat /\ Len(new.text) = m + 1 /\ new.text[m + 1] = line.says
          /\ \A i \in 1..m : new.text[i] = open.text[i]
          /\ DOMAIN open.text = 1..m /\ DOMAIN new.text = 1..(m + 1)
      <4>1. /\ Len(new.text) = m + 1 /\ new.text[m + 1] = line.says /\ new.text \in Seq(W)
            /\ \A i \in 1..m : new.text[i] = open.text[i]
        BY <1>6, <2>3, <2>4, AppendProperties
      <4> QED BY <2>3, <4>1, LenProperties
    <3>2. old \in Seq(O) /\ Len(old) = m /\ longer \in Seq(O) /\ Len(longer) = m + 1
      BY <1>1, <2>4, <3>1, SectionLinesAre DEF S, O
    <3>3. /\ \A i \in 1..m : old[i] = Line("text", open.text[i])
          /\ \A i \in 1..(m + 1) : longer[i] = Line("text", new.text[i])
      BY <3>1 DEF TextLines
    <3>4. line \in O
      BY <1>6, <1>8 DEF O, OutLine, Line
    <3>5. <<line>> \in Seq(O) /\ Len(<<line>>) = 1 /\ <<line>>[1] = line
      BY <3>4
    <3> HIDE DEF m, old, longer
    <3>6. /\ old \o <<line>> \in Seq(O) /\ Len(old \o <<line>>) = m + 1
          /\ \A i \in 1..(m + 1) : (old \o <<line>>)[i] = IF i <= m THEN old[i] ELSE <<line>>[i - m]
      BY <3>2, <3>5, ConcatProperties
    <3>7. ASSUME NEW i \in 1..(m + 1) PROVE longer[i] = (old \o <<line>>)[i]
      <4>1. CASE i <= m
        <5>1. i \in 1..m
          BY <3>1, <4>1
        <5> QED BY <3>1, <3>3, <3>6, <4>1, <5>1
      <4>2. CASE ~ i <= m
        <5>1. i = m + 1 /\ i - m = 1
          BY <3>1, <4>2
        <5> QED BY <1>6, <1>8, <3>1, <3>3, <3>5, <3>6, <4>2, <5>1
      <4> QED BY <4>1, <4>2
    <3>8. longer = old \o <<line>>
      BY <3>2, <3>6, <3>7, SeqEqual
    <3> QED BY <3>8 DEF old, longer
  <2>6. SectionLines(new) = SectionLines(open) \o <<line>>
    <3>1. HeadingLine(new) = HeadingLine(open)
      BY <2>4 DEF HeadingLine
    <3>2. /\ SectionLines(new) = HeadingLine(new) \o TextLines(new.text)
          /\ SectionLines(open) = HeadingLine(open) \o TextLines(open.text)
          /\ HeadingLine(open) \in Seq(O) /\ TextLines(open.text) \in Seq(O)
      BY <1>1, <2>4, SectionLinesAre DEF S, O, open
    <3>3. <<line>> \in Seq(O)
      BY <1>6, <1>8 DEF O, OutLine, Line
    <3> QED BY <2>5, <3>1, <3>2, <3>3, ConcatAssociative
  <2>7. SaysSomething(line)
    BY <1>6, <1>8 DEF SaysSomething
  <2>8. before \o SectionLines(new) = Says(Append(page, line))
    <3>1. <<line>> \in Seq(O)
      BY <1>6, <1>8 DEF O, OutLine, Line
    <3> HIDE DEF before
    <3> QED BY <1>2, <1>3, <1>4, <2>6, <2>7, <3>1, ConcatAssociative DEF open
  <2> QED BY <2>2, <2>4, <2>8 DEF SplitSoFar, S
<1>9. CASE line.kind = "blank"
  <2>1. SplitLine(state, line) = state
    BY <1>9 DEF SplitLine
  <2>2. Says(Append(page, line)) = Says(page)
    BY <1>4, <1>5, <1>9, ConcatEmptySeq DEF SaysSomething
  <2> QED BY <2>1, <2>2 DEF SplitSoFar
<1> QED BY <1>6, <1>7, <1>8, <1>9

LEMMA SplitPage ==
  ASSUME NEW W, NoHeading \in W, NEW page \in Seq(PageLine(W))
  PROVE  SplitSoFar(W, page, Folded(OfPage, page))
<1> DEFINE L == PageLine(W)
           Done(p) == SplitSoFar(W, p, Folded(OfPage, p))
           bad == {n \in Nat : \E p \in Seq(L) : Len(p) = n /\ ~ Done(p)}
<1>1. SUFFICES ASSUME bad # {} PROVE FALSE
  <2>1. page \in Seq(L) /\ Len(page) \in Nat
    BY LenProperties
  <2> HIDE DEF L
  <2> QED BY <2>1
<1>2. PICK n \in bad : \A k \in bad : n <= k
  <2>1. bad \in SUBSET Nat
    OBVIOUS
  <2> HIDE DEF bad
  <2> QED BY <1>1, <2>1, LeastNatural
<1>3. PICK p \in Seq(L) : Len(p) = n /\ ~ Done(p)
  BY <1>2
<1>4. Done(<< >>)
  <2> DEFINE none == Section(NoHeading, << >>, FALSE)
             S == SectionOf(W)
  <2>1. Folded(OfPage, << >>) = [sections |-> << >>, open |-> none]
    <3>1. Folded(OfPage, << >>) = Start(OfPage)
      BY FoldedEmpty
    <3> QED BY <3>1 DEF Start, OfPage
  <2>2. none \in S /\ HeadingLine(none) = << >> /\ TextLines(none.text) = << >>
    BY EmptySeq DEF SectionOf, Section, HeadingLine, TextLines
  <2> HIDE DEF none
  <2>3. SectionLines(none) = << >>
    <3>1. SectionLines(none) = << >> \o << >>
      BY <2>2, SectionLinesAre
    <3> QED BY <3>1
  <2>4. << >> \in Seq(S)
    BY EmptySeq
  <2>5. LinesOf(<< >>) = << >>
    <3>1. AllLines(<< >>) \in Seq(Seq(OutLine(W))) /\ Len(AllLines(<< >>)) = 0
      BY <2>4, EmptySeq, AllLinesAre
    <3> QED BY <3>1, FlattenNothing DEF LinesOf
  <2>6. Says(<< >>) = << >>
    <3>1. << >> \in Seq({}) /\ Len(<< >>) = 0
      BY EmptySeq
    <3>2. Pieces(<< >>, {}, 0) \in Seq(Seq({})) /\ Len(Pieces(<< >>, {}, 0)) = 0
      BY <3>1, PiecesAre
    <3>3. FlattenSeq(Pieces(<< >>, {}, 0)) = << >>
      BY <3>2, FlattenNothing
    <3>4. Says(<< >>) = Selected(<< >>, {})
      BY DEF Says
    <3>5. Selected(<< >>, {}) = FlattenSeq(Pieces(<< >>, {}, 0))
      BY DEF Selected, Pieces
    <3> QED BY <3>3, <3>4, <3>5
  <2> HIDE DEF S
  <2>7. /\ Folded(OfPage, << >>) \in [sections : Seq(S), open : S]
        /\ Folded(OfPage, << >>).sections = << >> /\ Folded(OfPage, << >>).open = none
    <3> DEFINE state == [sections |-> << >>, open |-> none]
               empty == << >>
    <3>1. empty \in Seq(S) /\ none \in S
      BY <2>2, <2>4
    <3> HIDE DEF empty
    <3>2. [sections |-> empty, open |-> none] \in [sections : Seq(S), open : S]
      BY <3>1
    <3>3. state \in [sections : Seq(S), open : S] /\ state.sections = << >> /\ state.open = none
      BY <3>2 DEF empty
    <3> HIDE DEF state
    <3> QED BY <2>1, <3>3 DEF state
  <2>8. << >> \o << >> = << >>
    OBVIOUS
  <2> QED BY <2>3, <2>5, <2>6, <2>7, <2>8 DEF SplitSoFar, S
<1>5. p # << >>
  BY <1>3, <1>4
<1>6. PICK q \in Seq(L), line \in L : p = Append(q, line)
  <2> HIDE DEF L
  <2> QED BY <1>3, <1>5, SequenceEmptyOrAppend
<1>7. Done(q)
  <2>1. Len(q) \in Nat /\ Len(p) = Len(q) + 1
    <3> HIDE DEF L
    <3> QED BY <1>6, AppendProperties, LenProperties
  <2>2. Len(q) \notin bad
    <3>1. Len(q) \in Nat /\ ~ n <= Len(q)
      BY <1>3, <2>1
    <3> HIDE DEF bad
    <3> QED BY <1>2, <3>1
  <2> HIDE DEF L, Done
  <2> QED BY <1>6, <2>1, <2>2
<1>8. Done(p)
  <2>1. Folded(OfPage, p) = Step(OfPage, Folded(OfPage, q), line)
    BY <1>6, FoldedAppend
  <2>2. Folded(OfPage, p) = SplitLine(Folded(OfPage, q), line)
    BY <2>1 DEF Step, OfPage
  <2> QED BY <1>6, <1>7, <2>2, SplitOneLineMore
<1> QED BY <1>3, <1>8

LEMMA SectionsOfPage ==
  ASSUME NEW W, NoHeading \in W, NEW page \in Seq(PageLine(W))
  PROVE  /\ SplitMarkdownSections(page) \in Seq(SectionOf(W))
         /\ LinesOf(SplitMarkdownSections(page)) = Says(page)
<1> DEFINE end == Folded(OfPage, page)
           start == [sections |-> << >>, open |-> Section(NoHeading, << >>, FALSE)]
<1>1. SplitMarkdownSections(page) = Append(end.sections, end.open)
  <2> DEFINE D == 1..Len(page)
             Table(g) == [s \in SUBSET D |->
                            IF s = {} THEN start ELSE SplitLine(g[s \ {Max(s)}], page[Max(s)])]
             table == CHOOSE g : g = Table(g)
  <2>1. DOMAIN page = D /\ Len(page) \in Nat
    BY LenProperties
  <2>2. FoldLeft(SplitLine, start, page) = table[D]
    <3> HIDE DEF start
    <3> QED BY <2>1 DEF FoldLeft, MapThenFoldSet
  <2>3. ASSUME NEW g PROVE FoldTable(OfPage, page, D, g) <=> g = Table(g)
    <3>1. Start(OfPage) = start /\ \A state, line : Step(OfPage, state, line) = SplitLine(state, line)
      BY DEF Start, Step, OfPage
    <3> HIDE DEF start
    <3> QED BY <3>1 DEF FoldTable
  <2>4. FoldLeft(SplitLine, start, page) = end
    <3>1. \E g : FoldTable(OfPage, page, D, g)
      BY <2>1, FoldTableExists
    <3>2. \E g : g = Table(g)
      <4> HIDE DEF Table
      <4> QED BY <2>3, <3>1
    <3>3. table = Table(table)
      <4> HIDE DEF Table
      <4> QED BY <3>2
    <3>4. FoldTable(OfPage, page, D, table)
      <4> HIDE DEF Table, table
      <4> QED BY <2>3, <3>3
    <3> HIDE DEF table
    <3> QED BY <2>2, <3>4, FoldedFromTable
  <2>5. SplitMarkdownSections(page) =
          LET e == FoldLeft(SplitLine, start, page) IN Append(e.sections, e.open)
    BY DEF SplitMarkdownSections, start
  <2> HIDE DEF end, start
  <2> QED BY <2>4, <2>5
<1>2. SplitSoFar(W, page, end)
  BY SplitPage
<1> HIDE DEF end
<1>3. end.sections \in Seq(SectionOf(W)) /\ end.open \in SectionOf(W)
  BY <1>2 DEF SplitSoFar
<1>4. Append(end.sections, end.open) \in Seq(SectionOf(W))
  BY <1>3, AppendProperties
<1>5. LinesOf(Append(end.sections, end.open)) = LinesOf(end.sections) \o SectionLines(end.open)
  BY <1>3, LinesOfAppend
<1> QED BY <1>1, <1>2, <1>4, <1>5 DEF SplitSoFar

\* Of no page does splitting and joining lose a line that says something.
THEOREM PagesLoseNothing ==
  ASSUME NEW W, NoHeading \in W, NEW page \in Seq(PageLine(W))
  PROVE  SplitLosesNothing(page)
<1> DEFINE sections == SplitMarkdownSections(page)
<1>1. sections \in Seq(SectionOf(W)) /\ LinesOf(sections) = Says(page)
  BY SectionsOfPage
<1> HIDE DEF sections
<1>2. Len(sections) \in Nat /\ LinesOf(sections) \in Seq(OutLine(W))
  BY <1>1, LenProperties, AllLinesAre
<1>3. ReassembleMarkdown(sections, Len(sections)) = LinesOf(sections) \o << >>
  BY <1>2 DEF ReassembleMarkdown, LinesOf, AllLines
<1> QED BY <1>1, <1>2, <1>3, ConcatEmptySeq DEF SplitLosesNothing, sections

-----------------------------------------------------------------------------
(* The orders of ranking and what a limit leaves of them.                    *)

\* An order has every place once.
Orders(n, order) ==
  /\ order \in [1..n -> 1..n]
  /\ \A p, q \in 1..n : order[p] = order[q] => p = q
  /\ \A i \in 1..n : \E p \in 1..n : order[p] = i

LEMMA IntervalIs ==
  ASSUME NEW n \in Nat
  PROVE  IsFiniteSet(1..n) /\ Cardinality(1..n) = n
<1>1. 1 \in Int /\ n \in Int
  OBVIOUS
<1> QED BY <1>1, FS_Interval

LEMMA SetToSeqsOrders ==
  ASSUME NEW n \in Nat, NEW order
  PROVE  order \in SetToSeqs(1..n) <=> Orders(n, order)
<1>1. IsFiniteSet(1..n) /\ Cardinality(1..n) = n
  BY IntervalIs
<1>2. ASSUME order \in SetToSeqs(1..n) PROVE Orders(n, order)
  <2>1. order \in [1..n -> 1..n] /\ \A p, q \in 1..n : p # q => order[p] # order[q]
    BY <1>1, <1>2 DEF SetToSeqs
  <2> DEFINE D == 1..n
  <2>2. IsFiniteSet(D) /\ order \in [D -> D] /\ \A p, q \in D : order[p] = order[q] => p = q
    BY <1>1, <2>1
  <2> HIDE DEF D
  <2>3. order \in Surjection(D, D)
    BY <2>2, Fun_IsInj, FS_Injection
  <2>4. \A i \in D : \E p \in D : order[p] = i
    BY <2>3, Fun_SurjectionProperties
  <2> QED BY <2>2, <2>4 DEF Orders, D
<1>3. ASSUME Orders(n, order) PROVE order \in SetToSeqs(1..n)
  BY <1>1, <1>3 DEF Orders, SetToSeqs
<1> QED BY <1>2, <1>3

LEMMA LimitIs ==
  ASSUME NEW n \in Nat, NEW topK \in Int
  PROVE  Limit(topK, n) \in Nat /\ Limit(topK, n) <= n
BY DEF Limit

\* The first k of an order: each before all that are left out.
Leads(n, order, k, first) ==
  /\ first \in SUBSET (1..n)
  /\ \A i \in first : \E p \in 1..k : order[p] = i
  /\ \A i \in first, j \in (1..n) \ first :
       \E p, q \in 1..n : p < q /\ order[p] = i /\ order[q] = j

LEMMA FirstOfOrder ==
  ASSUME NEW n \in Nat, NEW order, Orders(n, order), NEW k \in Nat, k <= n
  PROVE  /\ SubSeq(order, 1, k) \in Seq(1..n) /\ Len(SubSeq(order, 1, k)) = k
         /\ \A p \in 1..k : SubSeq(order, 1, k)[p] = order[p]
         /\ DOMAIN SubSeq(order, 1, k) = 1..k
         /\ Leads(n, order, k, ToSet(SubSeq(order, 1, k)))
<1> DEFINE first == SubSeq(order, 1, k)
<1>1. \A p \in 1..k : p \in 1..n /\ order[p] \in 1..n
  <2>1. \A p \in 1..k : p \in 1..n
    OBVIOUS
  <2> QED BY <2>1 DEF Orders
<1>2. first \in Seq(1..n) /\ Len(first) = k /\ \A p \in 1..k : first[p] = order[p]
  <2> DEFINE U == 1..n
  <2>1. \A p \in 1..k : order[p] \in U
    BY <1>1
  <2>2. 1 \in Int /\ k \in Int
    OBVIOUS
  <2> HIDE DEF U
  <2>3. /\ first \in Seq(U) /\ Len(first) = IF 1 <= k THEN k - 1 + 1 ELSE 0
        /\ \A p \in 1..(k - 1 + 1) : first[p] = order[1 + p - 1]
    BY <2>1, <2>2, SubSeqProperties
  <2>4. Len(first) = k /\ k - 1 + 1 = k /\ \A p \in 1..k : 1 + p - 1 = p
    BY <2>3
  <2> QED BY <2>3, <2>4 DEF U
<1> HIDE DEF first
<1>3. DOMAIN first = 1..k
  <2> DEFINE U == 1..n
  <2>1. first \in Seq(U)
    BY <1>2
  <2> HIDE DEF U
  <2> QED BY <1>2, <2>1, LenProperties
<1>4. \A i \in ToSet(first) : \E p \in 1..k : order[p] = i
  BY <1>2, <1>3 DEF ToSet
<1>5. ToSet(first) \in SUBSET (1..n)
  BY <1>1, <1>4
<1>6. ASSUME NEW i \in ToSet(first), NEW j \in (1..n) \ ToSet(first)
      PROVE  \E p, q \in 1..n : p < q /\ order[p] = i /\ order[q] = j
  <2>1. PICK p \in 1..k : order[p] = i
    BY <1>4
  <2>2. PICK q \in 1..n : order[q] = j
    BY DEF Orders
  <2>3. q \notin 1..k
    BY <1>2, <1>3, <2>2 DEF ToSet
  <2>4. p < q /\ p \in 1..n
    BY <2>3
  <2> QED BY <2>1, <2>2, <2>4
<1>7. Leads(n, order, k, ToSet(first))
  BY <1>4, <1>5, <1>6 DEF Leads
<1> QED BY <1>2, <1>3, <1>7 DEF first

\* There is an order by falling scores that keeps equals as they are.
Precedes(scores, j, i) == scores[j] > scores[i] \/ (scores[j] = scores[i] /\ j <= i)
Ahead(scores, i) == {j \in DOMAIN scores : Precedes(scores, j, i)}

LEMMA AheadGrows ==
  ASSUME NEW n \in Nat, NEW scores \in [1..n -> Int], NEW i \in 1..n, NEW j \in 1..n
  PROVE  /\ Cardinality(Ahead(scores, i)) \in 1..n
         /\ Precedes(scores, i, j) \/ Precedes(scores, j, i)
         /\ i # j /\ Precedes(scores, i, j) =>
              Cardinality(Ahead(scores, i)) < Cardinality(Ahead(scores, j))
<1>1. IsFiniteSet(1..n) /\ Cardinality(1..n) = n
  BY IntervalIs
<1>2. \A k \in 1..n : scores[k] \in Int /\ k \in Int
  OBVIOUS
<1>3. ASSUME NEW k \in 1..n
      PROVE  /\ IsFiniteSet(Ahead(scores, k)) /\ Cardinality(Ahead(scores, k)) \in 1..n
             /\ k \in Ahead(scores, k)
  <2>1. Ahead(scores, k) \in SUBSET (1..n)
    BY DEF Ahead
  <2>2. k \in Ahead(scores, k)
    BY <1>2 DEF Ahead, Precedes
  <2>3. IsFiniteSet(Ahead(scores, k)) /\ Cardinality(Ahead(scores, k)) <= n
    BY <1>1, <2>1, FS_Subset
  <2>4. Cardinality(Ahead(scores, k)) \in Nat /\ Cardinality(Ahead(scores, k)) # 0
    BY <2>2, <2>3, FS_CardinalityType, FS_EmptySet
  <2> QED BY <2>2, <2>3, <2>4
<1>4. Precedes(scores, i, j) \/ Precedes(scores, j, i)
  BY <1>2 DEF Precedes
<1>5. ASSUME i # j, Precedes(scores, i, j)
      PROVE  Cardinality(Ahead(scores, i)) < Cardinality(Ahead(scores, j))
  <2>1. ASSUME NEW k \in 1..n, Precedes(scores, k, i)
        PROVE  Precedes(scores, k, j) /\ k # j
    <3>1. scores[i] \in Int /\ scores[j] \in Int /\ scores[k] \in Int /\ i \in Int /\ j \in Int /\ k \in Int
      BY <1>2
    <3> QED BY <1>5, <2>1, <3>1 DEF Precedes
  <2>2. Ahead(scores, i) \in SUBSET (Ahead(scores, j) \ {j})
    BY <2>1 DEF Ahead
  <2>3. /\ IsFiniteSet(Ahead(scores, j) \ {j})
        /\ Cardinality(Ahead(scores, j) \ {j}) = Cardinality(Ahead(scores, j)) - 1
    BY <1>3, FS_RemoveElement
  <2>4. Cardinality(Ahead(scores, i)) <= Cardinality(Ahead(scores, j) \ {j})
    BY <2>2, <2>3, FS_Subset
  <2>5. Cardinality(Ahead(scores, i)) \in Int /\ Cardinality(Ahead(scores, j)) \in Int
    BY <1>3
  <2> QED BY <2>3, <2>4, <2>5
<1> QED BY <1>3, <1>4, <1>5

LEMMA StableOrderExists ==
  ASSUME NEW n \in Nat, NEW scores \in [1..n -> Int]
  PROVE  \E order \in SetToSeqs(DOMAIN scores) : Sorted(order, scores) /\ Stable(order, scores)
<1> DEFINE T == 1..n
           place == [i \in T |-> Cardinality(Ahead(scores, i))]
<1>1. IsFiniteSet(T) /\ Cardinality(T) = n
  BY IntervalIs
<1>2. \A i \in T : place[i] \in 1..n /\ place[i] \in Int
  BY AheadGrows
<1>3. place \in [T -> 1..n]
  BY <1>2
<1>4. \A i, j \in T : i # j /\ ~ Precedes(scores, i, j) => place[j] < place[i]
  <2> SUFFICES ASSUME NEW i \in T, NEW j \in T, i # j, ~ Precedes(scores, i, j)
               PROVE  place[j] < place[i]
    OBVIOUS
  <2>1. Precedes(scores, j, i)
    BY AheadGrows
  <2>2. Cardinality(Ahead(scores, j)) < Cardinality(Ahead(scores, i))
    BY <2>1, AheadGrows
  <2> QED BY <2>2
<1>5. \A i, j \in T : i # j /\ Precedes(scores, i, j) => place[i] < place[j]
  BY AheadGrows
<1> HIDE DEF T, place
<1>6. \A i, j \in T : place[i] = place[j] => i = j
  <2> SUFFICES ASSUME NEW i \in T, NEW j \in T, place[i] = place[j], i # j PROVE FALSE
    OBVIOUS
  <2>1. place[i] < place[j] \/ place[j] < place[i]
    BY <1>4, <1>5
  <2> QED BY <1>2, <2>1
<1>7. PICK order \in [1..n -> T] :
        (\A p \in 1..n : place[order[p]] = p) /\ (\A i \in T : order[place[i]] = i)
  <2>1. place \in [T -> 1..Cardinality(T)]
    BY <1>1, <1>3
  <2>2. \E at \in [1..Cardinality(T) -> T] :
          /\ \A k \in 1..Cardinality(T) : place[at[k]] = k
          /\ \A x \in T : at[place[x]] = x
    BY <1>1, <1>6, <2>1, ReadBackwards
  <2> QED BY <1>1, <2>2
<1>8. Orders(n, order)
  <2>1. \A p, q \in 1..n : order[p] = order[q] => p = q
    BY <1>7
  <2>2. \A i \in T : \E p \in 1..n : order[p] = i
    BY <1>3, <1>7
  <2> QED BY <1>7, <2>1, <2>2 DEF Orders, T
<1>9. DOMAIN order = 1..n
  OBVIOUS
<1>10. ASSUME NEW p \in 1..n, NEW q \in 1..n, p < q
       PROVE  order[p] \in T /\ order[q] \in T /\ order[p] # order[q] /\ Precedes(scores, order[p], order[q])
  <2>1. order[p] \in T /\ order[q] \in T /\ place[order[p]] = p /\ place[order[q]] = q
    BY <1>7
  <2>2. order[p] # order[q]
    BY <1>10, <2>1
  <2>3. ~ q < p
    BY <1>10
  <2> QED BY <1>4, <2>1, <2>2, <2>3
<1>11. ASSUME NEW p \in 1..n, NEW q \in 1..n, p < q
       PROVE  /\ scores[order[p]] >= scores[order[q]]
              /\ scores[order[p]] = scores[order[q]] => order[p] < order[q]
  <2>1. order[p] \in T /\ order[q] \in T /\ order[p] # order[q] /\ Precedes(scores, order[p], order[q])
    BY <1>10, <1>11
  <2>2. order[p] \in Int /\ order[q] \in Int /\ scores[order[p]] \in Int /\ scores[order[q]] \in Int
    BY <2>1 DEF T
  <2> QED BY <2>1, <2>2 DEF Precedes
<1>12. Sorted(order, scores) /\ Stable(order, scores)
  BY <1>9, <1>11 DEF Sorted, Stable
<1>13. order \in SetToSeqs(DOMAIN scores)
  BY <1>8, SetToSeqsOrders
<1> QED BY <1>12, <1>13

\* However many elements a JSON document has and whatever their scores.
THEOREM FilterKeepsTheBest ==
  ASSUME NEW n \in Nat, NEW scores \in [1..n -> Int], NEW topK \in Int
  PROVE  FilterKeepsOrder(scores, topK)
<1> DEFINE order == CHOOSE o \in SetToSeqs(DOMAIN scores) : Sorted(o, scores) /\ Stable(o, scores)
           k == Limit(topK, n)
           keep == ToSet(SubSeq(order, 1, k))
           ids == [i \in DOMAIN scores |-> i]
           kept == FilterJSONContent(scores, topK)
<1>1. order \in SetToSeqs(1..n) /\ Sorted(order, scores) /\ Stable(order, scores)
  <2>1. \E o \in SetToSeqs(DOMAIN scores) : Sorted(o, scores) /\ Stable(o, scores)
    BY StableOrderExists
  <2>2. DOMAIN scores = 1..n
    OBVIOUS
  <2> QED BY <2>1, <2>2
<1>2. scores \in Seq(Int) /\ Len(scores) = n /\ DOMAIN scores = 1..n
  OBVIOUS
<1>3. kept = Selected(ids, keep)
  BY <1>2 DEF FilterJSONContent
<1> HIDE DEF order, kept
<1>4. Orders(n, order) /\ DOMAIN order = 1..n
  BY <1>1, SetToSeqsOrders DEF Orders
<1>5. k \in Nat /\ k <= n
  BY LimitIs
<1> HIDE DEF k
<1>6. /\ keep \in SUBSET (1..n) /\ \A i \in keep : \E p \in 1..k : order[p] = i
      /\ \A p \in 1..k : order[p] \in keep
      /\ \A i \in keep, j \in (1..n) \ keep : \E p, q \in 1..n : p < q /\ order[p] = i /\ order[q] = j
  <2>1. /\ keep \in SUBSET (1..n) /\ \A i \in keep : \E p \in 1..k : order[p] = i
        /\ \A i \in keep, j \in (1..n) \ keep : \E p, q \in 1..n : p < q /\ order[p] = i /\ order[q] = j
    <3>1. Leads(n, order, k, ToSet(SubSeq(order, 1, k)))
      BY <1>4, <1>5, FirstOfOrder
    <3> QED BY <3>1 DEF Leads
  <2>2. \A p \in 1..k : SubSeq(order, 1, k)[p] = order[p] /\ p \in DOMAIN SubSeq(order, 1, k)
    BY <1>4, <1>5, FirstOfOrder
  <2>3. \A p \in 1..k : order[p] \in keep
    BY <2>2 DEF ToSet
  <2> QED BY <2>1, <2>3
<1> HIDE DEF keep
<1>7. Cardinality(keep) = k
  <2> DEFINE D == 1..k
             first == [p \in D |-> order[p]]
  <2>1. IsFiniteSet(D) /\ Cardinality(D) = k
    BY <1>5, IntervalIs
  <2>2. D \in SUBSET (1..n)
    BY <1>5
  <2>3. first \in [D -> keep] /\ \A p, q \in D : first[p] = first[q] => p = q
    BY <1>4, <1>6, <2>2 DEF Orders
  <2>4. \A i \in keep : \E p \in D : first[p] = i
    BY <1>6
  <2> HIDE DEF D, first
  <2>5. first \in Surjection(D, keep) /\ first \in Injection(D, keep)
    BY <2>3, <2>4, Fun_IsInj, Fun_IsSurj
  <2> QED BY <2>1, <2>5, FS_Surjection
<1>8. ids \in Seq(Nat) /\ Len(ids) = n /\ \A i \in 1..n : ids[i] = i
  <2>1. ids \in [1..n -> Nat]
    BY <1>2
  <2> QED BY <1>2, <2>1
<1> HIDE DEF ids
<1>9. PICK at : Places(ids, keep, kept, at)
  BY <1>3, <1>6, <1>8, SelectedPlaces
<1>10. kept \in Seq(Nat) /\ Len(kept) = k /\ DOMAIN kept = 1..k
  <2>1. kept \in Seq(Nat) /\ Len(kept) = Cardinality(keep)
    BY <1>3, <1>6, <1>8, SelectedPlaces
  <2> QED BY <1>7, <2>1, LenProperties
<1>11. \A m \in 1..k : kept[m] = at[m] /\ at[m] \in keep
  <2>1. \A m \in 1..k : kept[m] = ids[at[m]] /\ at[m] \in keep
    BY <1>9, <1>10 DEF Places
  <2> QED BY <1>6, <1>8, <2>1
<1>12. \A i, j \in DOMAIN kept : i < j => kept[i] < kept[j]
  BY <1>9, <1>10, <1>11 DEF Places
<1>13. ToSet(kept) = keep
  <2>1. \A i \in keep : \E m \in 1..k : at[m] = i
    BY <1>9, <1>10 DEF Places
  <2>2. ToSet(kept) = {kept[m] : m \in 1..k}
    BY <1>10 DEF ToSet
  <2>3. \A i \in keep : \E m \in 1..k : kept[m] = i
    BY <1>11, <2>1
  <2>4. \A m \in 1..k : kept[m] \in keep
    BY <1>11
  <2> QED BY <2>2, <2>3, <2>4
<1>14. ASSUME NEW i \in keep, NEW j \in (1..n) \ keep
       PROVE  scores[i] > scores[j] \/ (scores[i] = scores[j] /\ i < j)
  <2>1. PICK p \in 1..n, q \in 1..n : p < q /\ order[p] = i /\ order[q] = j
    BY <1>6
  <2>2. scores[i] >= scores[j] /\ (scores[i] = scores[j] => i < j)
    BY <1>1, <1>4, <2>1 DEF Sorted, Stable
  <2>3. scores[i] \in Int /\ scores[j] \in Int
    BY <1>6
  <2> QED BY <2>2, <2>3
<1>15. Limit(topK, Len(scores)) = k
  BY <1>2 DEF k
<1> QED BY <1>2, <1>10, <1>12, <1>13, <1>14, <1>15 DEF FilterKeepsOrder, kept

-----------------------------------------------------------------------------
(* What a query keeps of a page.                                             *)

\* The sections that an order's first k places choose.
Chosen(sections, order, k) == [p \in 1..k |-> sections[order[p]]]

LEMMA JoinedLines ==
  ASSUME NEW W, NEW sections \in Seq(SectionOf(W)), NEW order, Orders(Len(sections), order),
         NEW k \in Nat, k <= Len(sections), NEW total \in Nat, total = Len(sections)
  PROVE  LET out == ReassembleMarkdown(Chosen(sections, order, k), total)
             Count == IF out # << >> /\ Last(out).kind = "omitted" THEN Last(out).says ELSE 0
         IN  /\ Count = total - k
             /\ k = total => out = LinesOf(Chosen(sections, order, k))
<1> DEFINE S == SectionOf(W)
           O == OutLine(W)
           note == Line("omitted", total - k)
           A == O \union {note}
           ranked == Chosen(sections, order, k)
           lines == LinesOf(ranked)
           out == ReassembleMarkdown(ranked, total)
           Count == IF out # << >> /\ Last(out).kind = "omitted" THEN Last(out).says ELSE 0
<1>1. ranked \in Seq(S) /\ Len(ranked) = k /\ DOMAIN ranked = 1..k
  <2>0. Len(sections) \in Nat
    BY LenProperties
  <2>1. \A p \in 1..k : order[p] \in 1..Len(sections)
    <3>1. \A p \in 1..k : p \in 1..Len(sections)
      BY <2>0
    <3> QED BY <3>1 DEF Orders
  <2>2. \A p \in 1..k : sections[order[p]] \in S
    BY <2>1, ElementOfSeq
  <2> HIDE DEF S
  <2>3. ranked \in [1..k -> S]
    BY <2>2 DEF Chosen
  <2> QED BY <2>3
<1> HIDE DEF ranked
<1>2. lines \in Seq(O)
  BY <1>1, AllLinesAre
<1>3. /\ total > k => out = lines \o <<note>>
      /\ ~ total > k => out = lines \o << >>
  <2>1. out = lines \o (IF total > k THEN <<note>> ELSE << >>)
    BY <1>1 DEF ReassembleMarkdown, LinesOf, AllLines
  <2> HIDE DEF out, lines, note
  <2> QED BY <2>1
<1>4. CASE total > k
  <2>1. lines \in Seq(A)
    <3>1. O \subseteq A
      OBVIOUS
    <3> HIDE DEF O, A, lines
    <3> QED BY <1>2, <3>1, SeqMonotonic
  <2>2. <<note>> \in Seq(A) /\ Len(<<note>>) = 1 /\ <<note>>[1] = note
    OBVIOUS
  <2>3. out = lines \o <<note>>
    BY <1>3, <1>4
  <2>4. note.kind = "omitted" /\ note.says = total - k
    BY DEF Line
  <2> HIDE DEF A, O, note, lines, out
  <2>5. /\ out \in Seq(A) /\ Len(out) = Len(lines) + 1
        /\ \A i \in 1..(Len(lines) + 1) : out[i] = IF i <= Len(lines) THEN lines[i] ELSE <<note>>[i - Len(lines)]
    BY <2>1, <2>2, <2>3, ConcatProperties
  <2>6. Len(lines) \in Nat
    BY <2>1, LenProperties
  <2>7. Len(out) \in 1..(Len(lines) + 1) /\ ~ Len(out) <= Len(lines) /\ Len(out) - Len(lines) = 1
    BY <2>5, <2>6
  <2>8. out[Len(out)] = note
    BY <2>2, <2>5, <2>7
  <2>9. out # << >>
    BY <2>5, <2>6, EmptySeq
  <2>10. Count = total - k
    BY <2>4, <2>8, <2>9 DEF Last
  <2> QED BY <1>4, <2>10 DEF out, ranked
<1>5. CASE total = k
  <2>1. out = lines
    <3>0. ~ total > k
      BY <1>5
    <3>1. out = lines \o << >>
      BY <1>3, <3>0
    <3> HIDE DEF out, lines, O
    <3> QED BY <1>2, <3>1, ConcatEmptySeq
  <2>2. ASSUME lines # << >> PROVE Last(lines).kind # "omitted"
    <3> HIDE DEF lines, O
    <3>1. Len(lines) \in 1..Len(lines)
      BY <1>2, <2>2, EmptySeq
    <3>2. lines[Len(lines)] \in O
      BY <1>2, <3>1, ElementOfSeq
    <3> QED BY <3>2 DEF O, OutLine, Last
  <2>3. Count = 0
    <3> HIDE DEF out, lines
    <3> QED BY <2>1, <2>2
  <2> QED BY <1>5, <2>1, <2>3 DEF ranked
<1>6. total > k \/ total = k
  OBVIOUS
<1> QED BY <1>4, <1>5, <1>6 DEF ranked

\* In another order all the sections have as many lines, and the same.
LEMMA AllSectionsChosen ==
  ASSUME NEW W, NEW sections \in Seq(SectionOf(W)), NEW order, Orders(Len(sections), order)
  PROVE  /\ Len(LinesOf(Chosen(sections, order, Len(sections)))) = Len(LinesOf(sections))
         /\ ToSet(LinesOf(Chosen(sections, order, Len(sections)))) = ToSet(LinesOf(sections))
<1> DEFINE S == SectionOf(W)
           n == Len(sections)
           D == 1..n
           ranked == Chosen(sections, order, n)
           s == AllLines(sections)
           t == AllLines(ranked)
<1>1. n \in Nat /\ order \in [D -> D] /\ \A p, q \in D : order[p] = order[q] => p = q
  BY LenProperties DEF Orders
<1>2. ranked \in Seq(S) /\ Len(ranked) = n /\ \A p \in D : ranked[p] = sections[order[p]]
  <2>1. \A p \in D : sections[order[p]] \in S
    BY <1>1, ElementOfSeq
  <2> HIDE DEF S
  <2>2. ranked \in [1..n -> S]
    BY <2>1 DEF Chosen
  <2> QED BY <1>1, <2>2 DEF Chosen
<1> HIDE DEF ranked
<1>3. s \in Seq(Seq(OutLine(W))) /\ Len(s) = n /\ \A i \in D : s[i] = SectionLines(sections[i])
  BY AllLinesAre
<1>4. t \in Seq(Seq(OutLine(W))) /\ Len(t) = n /\ \A i \in D : t[i] = SectionLines(ranked[i])
  BY <1>2, AllLinesAre
<1>5. DOMAIN s = D
  <2> DEFINE T == Seq(OutLine(W))
  <2>1. s \in Seq(T)
    BY <1>3
  <2> HIDE DEF T, s
  <2> QED BY <1>3, <2>1, LenProperties
<1> HIDE DEF s, t
<1>6. \A i \in D : t[i] = s[order[i]]
  BY <1>1, <1>2, <1>3, <1>4
<1>7. Len(FlattenSeq(t)) = Len(FlattenSeq(s)) /\ ToSet(FlattenSeq(t)) = ToSet(FlattenSeq(s))
  <2> DEFINE U == OutLine(W)
  <2>1. s \in Seq(Seq(U)) /\ t \in Seq(Seq(U)) /\ Len(s) = Len(t)
    BY <1>3, <1>4
  <2> HIDE DEF U
  <2>2. order \in [DOMAIN s -> DOMAIN s]
    BY <1>1, <1>5
  <2>3. \A i, j \in DOMAIN s : order[i] = order[j] => i = j
    BY <1>1, <1>5
  <2>4. \A i \in DOMAIN s : t[i] = s[order[i]]
    BY <1>5, <1>6
  <2> HIDE DEF D
  <2> QED BY <2>1, <2>2, <2>3, <2>4, FlattenPermuted
<1> QED BY <1>7 DEF LinesOf, s, t, ranked

\* For every page, whatever the scores of its sections and the limit.
THEOREM QueryKeepsTheBest ==
  ASSUME NEW W, NoHeading \in W, NEW page \in Seq(PageLine(W)),
         NEW scores \in [DOMAIN SplitMarkdownSections(page) -> Int], NEW topK \in Int
  PROVE  QueryKeepsBest(page, scores, topK)
<1> DEFINE sections == SplitMarkdownSections(page)
           n == Len(sections)
           k == Limit(topK, n)
           Count(out) == IF out # << >> /\ Last(out).kind = "omitted" THEN Last(out).says ELSE 0
<1>1. /\ sections \in Seq(SectionOf(W)) /\ LinesOf(sections) = Says(page)
  BY SectionsOfPage
<1> HIDE DEF sections
<1>2. n \in Nat /\ DOMAIN sections = 1..n
  BY <1>1, LenProperties
<1>3. scores \in [1..n -> Int] /\ Len(scores) = n /\ DOMAIN scores = 1..n
  <2>1. scores \in [1..n -> Int]
    BY <1>2 DEF sections
  <2> HIDE DEF n
  <2>2. scores \in Seq(Int) /\ Len(scores) = n /\ DOMAIN scores = 1..n
    BY <1>2, <2>1
  <2> QED BY <2>1, <2>2
<1>4. k \in Nat /\ k <= n
  BY <1>2, LimitIs
<1> HIDE DEF k, n
<1>5. \A order \in RankSections(scores, topK) : \E o :
        Orders(n, o) /\ Sorted(o, scores) /\ order = SubSeq(o, 1, k)
  <2>1. \A o \in SetToSeqs(1..n) : Orders(n, o)
    BY <1>2, SetToSeqsOrders
  <2>2. RankSections(scores, topK) = {SubSeq(o, 1, k) : o \in {o \in SetToSeqs(1..n) : Sorted(o, scores)}}
    BY <1>3 DEF RankSections, k
  <2> QED BY <2>1, <2>2
<1>6. ASSUME NEW order \in RankSections(scores, topK)
      PROVE  /\ IsInjective(order)
             /\ \A i \in ToSet(order), j \in DOMAIN scores \ ToSet(order) : scores[i] >= scores[j]
  <2>1. PICK o : Orders(n, o) /\ Sorted(o, scores) /\ order = SubSeq(o, 1, k)
    BY <1>5
  <2>2. /\ DOMAIN order = 1..k /\ \A p \in 1..k : order[p] = o[p]
        /\ Leads(n, o, k, ToSet(order))
    BY <1>2, <1>4, <2>1, FirstOfOrder
  <2>3. DOMAIN o = 1..n /\ \A p \in 1..k : p \in 1..n
    BY <1>2, <1>4, <2>1 DEF Orders
  <2>4. IsInjective(order)
    <3>1. \A p, q \in 1..n : o[p] = o[q] => p = q
      BY <2>1 DEF Orders
    <3>2. \A a, b \in DOMAIN order : a \in 1..n /\ b \in 1..n /\ order[a] = o[a] /\ order[b] = o[b]
      BY <2>2, <2>3
    <3>3. \A a, b \in DOMAIN order : order[a] = order[b] => a = b
      BY <3>1, <3>2
    <3> QED BY <3>3 DEF IsInjective
  <2>5. ASSUME NEW i \in ToSet(order), NEW j \in DOMAIN scores \ ToSet(order)
        PROVE  scores[i] >= scores[j]
    <3>1. PICK p \in 1..n, q \in 1..n : p < q /\ o[p] = i /\ o[q] = j
      BY <1>3, <2>2, <2>5 DEF Leads
    <3> QED BY <2>1, <2>3, <3>1 DEF Sorted
  <2> QED BY <2>4, <2>5
<1>7. ASSUME NEW out \in Filtered(page, scores, topK)
      PROVE  /\ Count(out) = n - k
             /\ Count(out) = 0 => (ToSet(out) = ToSet(Says(page)) /\ Len(out) = Len(Says(page)))
  <2>1. PICK order \in RankSections(scores, topK) :
          out = ReassembleMarkdown([i \in DOMAIN order |-> sections[order[i]]], n)
    BY DEF Filtered, sections, n
  <2>2. PICK o : Orders(n, o) /\ Sorted(o, scores) /\ order = SubSeq(o, 1, k)
    BY <1>5
  <2>3. DOMAIN order = 1..k /\ \A p \in 1..k : order[p] = o[p]
    BY <1>2, <1>4, <2>2, FirstOfOrder
  <2>4. [i \in DOMAIN order |-> sections[order[i]]] = Chosen(sections, o, k)
    BY <2>3 DEF Chosen
  <2>5. out = ReassembleMarkdown(Chosen(sections, o, k), n)
    BY <2>1, <2>4
  <2>6. Count(out) = n - k /\ (k = n => out = LinesOf(Chosen(sections, o, k)))
    BY <1>1, <1>2, <1>4, <2>2, <2>5, JoinedLines DEF n
  <2> HIDE DEF Count
  <2>7. ASSUME Count(out) = 0
        PROVE  ToSet(out) = ToSet(Says(page)) /\ Len(out) = Len(Says(page))
    <3>1. k = n
      BY <1>2, <1>4, <2>6, <2>7
    <3>2. out = LinesOf(Chosen(sections, o, n))
      BY <2>6, <3>1
    <3>3. /\ Len(LinesOf(Chosen(sections, o, n))) = Len(LinesOf(sections))
          /\ ToSet(LinesOf(Chosen(sections, o, n))) = ToSet(LinesOf(sections))
      BY <1>1, <2>2, AllSectionsChosen DEF n
    <3> QED BY <1>1, <3>2, <3>3
  <2> QED BY <2>6, <2>7
<1> QED BY <1>6, <1>7 DEF QueryKeepsBest, sections, n, k

\* What the run ranks is a page, or the scores of a document's elements.
InputRanked ==
  /\ part = "sections" => input \in Seq(PageLines)
  /\ part = "scores" => input \in Seq(0..2)

LEMMA InputIsRanked == Spec => []InputRanked
<1>1. Init => InputRanked
  BY EmptySeq DEF Init, InputRanked
<1>2. InputRanked /\ [Next]_<<part, input>> => InputRanked'
  <2> SUFFICES ASSUME InputRanked, [Next]_<<part, input>> PROVE InputRanked'
    OBVIOUS
  <2>1. CASE Next
    <3>1. part' = part /\ \E x \in Alphabet[part] : input' = Append(input, x)
      BY <2>1 DEF Next
    <3>2. ASSUME part = "sections" PROVE input' \in Seq(PageLines)
      <4>1. PICK x \in PageLines : input' = Append(input, x)
        BY <3>1, <3>2 DEF Alphabet
      <4>2. input \in Seq(PageLines)
        BY <3>2 DEF InputRanked
      <4> QED BY <4>1, <4>2, AppendProperties
    <3>3. ASSUME part = "scores" PROVE input' \in Seq(0..2)
      <4> DEFINE U == 0..2
      <4>1. PICK x \in U : input' = Append(input, x)
        BY <3>1, <3>3 DEF Alphabet
      <4>2. input \in Seq(U)
        BY <3>3 DEF InputRanked
      <4> HIDE DEF U
      <4>3. input' \in Seq(U)
        BY <4>1, <4>2, AppendProperties
      <4> QED BY <4>3 DEF U
    <3> QED BY <3>1, <3>2, <3>3 DEF InputRanked
  <2>2. CASE UNCHANGED <<part, input>>
    BY <2>2 DEF InputRanked
  <2> QED BY <2>1, <2>2
<1> QED BY <1>1, <1>2, PTL DEF Spec

\* So the run's invariant holds for pages and documents of every size.
THEOREM QueriesKeepTheBest == Spec => []QueriesKeepBest
<1>1. ASSUME InputRanked PROVE QueriesKeepBest
  <2>1. ASSUME part = "sections"
        PROVE  /\ SplitLosesNothing(input)
               /\ \A scores \in [DOMAIN SplitMarkdownSections(input) -> 0..1], topK \in 0..2 :
                    QueryKeepsBest(input, scores, topK)
    <3> DEFINE W == {"A", NoHeading, "x", "y"}
    <3>1. NoHeading \in W /\ PageLines \subseteq PageLine(W)
      BY DEF PageLines, PageLine, NoHeading
    <3>2. input \in Seq(PageLines)
      BY <1>1, <2>1 DEF InputRanked
    <3> HIDE DEF W
    <3>3. input \in Seq(PageLine(W))
      BY <3>1, <3>2, SeqMonotonic
    <3>4. ASSUME NEW scores \in [DOMAIN SplitMarkdownSections(input) -> 0..1], NEW topK \in 0..2
          PROVE  QueryKeepsBest(input, scores, topK)
      <4>1. scores \in [DOMAIN SplitMarkdownSections(input) -> Int] /\ topK \in Int
        OBVIOUS
      <4> QED BY <3>1, <3>3, <4>1, QueryKeepsTheBest
    <3> QED BY <3>1, <3>3, <3>4, PagesLoseNothing
  <2>2. ASSUME part = "scores", NEW topK \in -1..4 PROVE FilterKeepsOrder(input, topK)
    <3> DEFINE U == 0..2
    <3>1. input \in Seq(U)
      BY <1>1, <2>2 DEF InputRanked
    <3>2. U \subseteq Int
      OBVIOUS
    <3> HIDE DEF U
    <3>3. input \in [1..Len(input) -> Int] /\ Len(input) \in Nat
      BY <3>1, <3>2, LenProperties
    <3>4. topK \in Int
      OBVIOUS
    <3> QED BY <3>3, <3>4, FilterKeepsTheBest
  <2> QED BY <2>1, <2>2 DEF QueriesKeepBest
<1> QED BY <1>1, InputIsRanked, PTL

-----------------------------------------------------------------------------
(* The candidates of a recovery.                                             *)

\* Links in their order, each with its score, and how they are to be sorted.
Candidate(U) == [link : Nat, url : U, score : Int]
Leading(c, d) == c.score > d.score \/ (c.score = d.score /\ c.link < d.link)
InRank(out) == \A p, q \in 1..Len(out) : p < q => Leading(out[p], out[q])
Rising(seq) == \A i, j \in 1..Len(seq) : i < j => seq[i].link < seq[j].link
SortedFrom(U, seq, out) ==
  /\ out \in Seq(Candidate(U)) /\ Len(out) = Len(seq) /\ ToSet(out) = ToSet(seq)
  /\ InRank(out)

\* t is s with c behind its first n elements.
Inserted(U, s, n, c, t) ==
  /\ t \in Seq(U) /\ Len(t) = Len(s) + 1
  /\ \A i \in 1..n : t[i] = s[i]
  /\ t[n + 1] = c
  /\ \A i \in (n + 1)..Len(s) : t[i + 1] = s[i]

LEMMA InsertAtIs ==
  ASSUME NEW U, NEW s \in Seq(U), NEW n \in 0..Len(s), NEW c \in U
  PROVE  Inserted(U, s, n, c, InsertAt(s, n + 1, c))
<1> DEFINE m == Len(s)
           a == SubSeq(s, 1, n)
           b == <<c>>
           d == SubSeq(s, n + 1, m)
           ab == a \o b
           t == ab \o d
<1>1. m \in Nat /\ n \in Nat /\ n <= m /\ n + 1 \in Int /\ 1 \in Int /\ n \in Int /\ m \in Int
  BY LenProperties
<1>2. InsertAt(s, n + 1, c) = t
  <2> DEFINE k == (n + 1) - 1
  <2>1. k = n
    BY <1>1
  <2>2. InsertAt(s, n + 1, c) = SubSeq(s, 1, k) \o b \o SubSeq(s, n + 1, m)
    BY DEF InsertAt
  <2> HIDE DEF k
  <2> QED BY <2>1, <2>2
<1>3. \A i \in 1..m : s[i] \in U
  BY ElementOfSeq
<1>4. a \in Seq(U) /\ Len(a) = n /\ \A i \in 1..n : a[i] = s[i]
  <2>1. \A i \in 1..n : s[i] \in U
    BY <1>1, <1>3
  <2> HIDE DEF m
  <2>2. /\ a \in Seq(U) /\ Len(a) = IF 1 <= n THEN n - 1 + 1 ELSE 0
        /\ \A i \in 1..(n - 1 + 1) : a[i] = s[1 + i - 1]
    BY <1>1, <2>1, SubSeqProperties
  <2> HIDE DEF a
  <2>3. n - 1 + 1 = n /\ \A i \in 1..n : 1 + i - 1 = i
    BY <1>1
  <2>4. Len(a) = n
    BY <1>1, <2>2
  <2> QED BY <2>2, <2>3, <2>4
<1>5. d \in Seq(U) /\ Len(d) = m - n /\ \A i \in 1..(m - n) : d[i] = s[n + i]
  <2>1. \A i \in (n + 1)..m : s[i] \in U
    BY <1>1, <1>3
  <2> HIDE DEF m
  <2>2. /\ d \in Seq(U) /\ Len(d) = IF n + 1 <= m THEN m - (n + 1) + 1 ELSE 0
        /\ \A i \in 1..(m - (n + 1) + 1) : d[i] = s[n + 1 + i - 1]
    BY <1>1, <2>1, SubSeqProperties
  <2> HIDE DEF d
  <2>3. m - (n + 1) + 1 = m - n /\ \A i \in 1..(m - n) : n + 1 + i - 1 = n + i
    BY <1>1
  <2>4. Len(d) = m - n
    BY <1>1, <2>2
  <2> QED BY <2>2, <2>3, <2>4
<1>6. b \in Seq(U) /\ Len(b) = 1 /\ b[1] = c
  OBVIOUS
<1> HIDE DEF m, a, b, d
<1>7. ab \in Seq(U) /\ Len(ab) = n + 1 /\ (\A i \in 1..n : ab[i] = s[i]) /\ ab[n + 1] = c
  <2>1. /\ ab \in Seq(U) /\ Len(ab) = n + 1
        /\ \A i \in 1..(n + 1) : ab[i] = IF i <= n THEN a[i] ELSE b[i - n]
    <3>1. /\ ab \in Seq(U) /\ Len(ab) = Len(a) + Len(b)
          /\ \A i \in 1..(Len(a) + Len(b)) : ab[i] = IF i <= Len(a) THEN a[i] ELSE b[i - Len(a)]
      BY <1>4, <1>6, ConcatProperties
    <3>2. Len(a) = n /\ Len(b) = 1
      BY <1>4, <1>6
    <3> HIDE DEF ab
    <3> QED BY <3>1, <3>2
  <2> HIDE DEF ab
  <2>2. \A i \in 1..n : i \in 1..(n + 1) /\ i <= n
    BY <1>1
  <2>3. n + 1 \in 1..(n + 1) /\ ~ n + 1 <= n /\ n + 1 - n = 1
    BY <1>1
  <2> QED BY <1>4, <1>6, <2>1, <2>2, <2>3
<1> HIDE DEF ab
<1>8. /\ t \in Seq(U) /\ Len(t) = n + 1 + (m - n)
      /\ \A i \in 1..(n + 1 + (m - n)) : t[i] = IF i <= n + 1 THEN ab[i] ELSE d[i - (n + 1)]
  <2>1. /\ t \in Seq(U) /\ Len(t) = Len(ab) + Len(d)
        /\ \A i \in 1..(Len(ab) + Len(d)) : t[i] = IF i <= Len(ab) THEN ab[i] ELSE d[i - Len(ab)]
    BY <1>5, <1>7, ConcatProperties
  <2>2. Len(ab) = n + 1 /\ Len(d) = m - n
    BY <1>5, <1>7
  <2> HIDE DEF t
  <2> QED BY <2>1, <2>2
<1> HIDE DEF t
<1>9. n + 1 + (m - n) = m + 1
  BY <1>1
<1>10. \A i \in 1..n : t[i] = s[i]
  <2>1. \A i \in 1..n : i \in 1..(m + 1) /\ i <= n + 1
    BY <1>1
  <2> QED BY <1>7, <1>8, <1>9, <2>1
<1>11. t[n + 1] = c
  <2>1. n + 1 \in 1..(m + 1) /\ n + 1 <= n + 1
    BY <1>1
  <2> QED BY <1>7, <1>8, <1>9, <2>1
<1>12. ASSUME NEW i \in (n + 1)..m PROVE t[i + 1] = s[i]
  <2>1. i + 1 \in 1..(m + 1) /\ ~ i + 1 <= n + 1 /\ i - n \in 1..(m - n) /\ n + (i - n) = i
        /\ i + 1 - (n + 1) = i - n
    BY <1>1
  <2> QED BY <1>5, <1>8, <1>9, <2>1
<1>13. Inserted(U, s, n, c, t)
  BY <1>8, <1>9, <1>10, <1>11, <1>12 DEF Inserted, m
<1> QED BY <1>2, <1>13

\* Where sortCandidates puts a candidate: what is before it has no lower score,
\* what is after it has one.
LEMMA InsertFindsPlace ==
  ASSUME NEW U, NEW out \in Seq(Candidate(U)), InRank(out), NEW c \in Candidate(U)
  PROVE  \E n \in 0..Len(out) :
           /\ Insert(out, c) = InsertAt(out, n + 1, c)
           /\ \A p \in 1..n : out[p].score >= c.score
           /\ \A p \in (n + 1)..Len(out) : out[p].score < c.score
<1> DEFINE C == Candidate(U)
           m == Len(out)
           notLower == {p \in DOMAIN out : out[p].score >= c.score}
           T == notLower \union {0}
           n == Max(T)
<1>1. m \in Nat /\ DOMAIN out = 1..m /\ \A p \in 1..m : out[p] \in C
  <2>1. out \in Seq(C)
    OBVIOUS
  <2> HIDE DEF C
  <2> QED BY <2>1, LenProperties, ElementOfSeq
<1>2. c.score \in Int /\ \A p \in 1..m : out[p].score \in Int /\ out[p].link \in Nat
  BY <1>1 DEF Candidate
<1>3. n \in T /\ \A x \in T : x <= n
  <2>1. T \in SUBSET (0..m) /\ T # {}
    BY <1>1
  <2>2. IsFiniteSet(0..m) /\ T \in SUBSET Int
    <3>1. 0 \in Int /\ m \in Int
      BY <1>1
    <3>2. IsFiniteSet(0..m)
      BY <3>1, FS_Interval
    <3> QED BY <1>1, <2>1, <3>2
  <2>3. IsFiniteSet(T)
    BY <2>1, <2>2, FS_Subset
  <2> HIDE DEF T
  <2> QED BY <2>1, <2>2, <2>3, MaxOfFinite
<1>4. Insert(out, c) = InsertAt(out, n + 1, c)
  BY DEF Insert
<1> HIDE DEF n
<1>5. n \in 0..m
  BY <1>1, <1>3
<1>6. ASSUME NEW p \in 1..n PROVE out[p].score >= c.score
  <2>1. n \in notLower /\ n \in 1..m /\ p \in 1..m /\ p <= n
    BY <1>1, <1>3, <1>5
  <2>2. out[n].score >= c.score
    BY <2>1
  <2>3. p # n => out[p].score >= out[n].score
    <3>1. p # n => p < n
      BY <1>5, <2>1
    <3>2. p < n => Leading(out[p], out[n])
      BY <2>1 DEF InRank
    <3> QED BY <1>2, <2>1, <3>1, <3>2 DEF Leading
  <2> QED BY <1>2, <2>1, <2>2, <2>3
<1>7. ASSUME NEW p \in (n + 1)..m PROVE out[p].score < c.score
  <2>1. p \in 1..m /\ ~ p <= n
    BY <1>1, <1>5
  <2>2. p \notin notLower
    BY <1>3, <2>1
  <2>3. ~ out[p].score >= c.score
    BY <1>1, <2>1, <2>2
  <2> QED BY <1>2, <2>1, <2>3
<1> QED BY <1>4, <1>5, <1>6, <1>7

\* One candidate more, with a link after all the others.
LEMMA InsertSorts ==
  ASSUME NEW U, NEW seq \in Seq(Candidate(U)), NEW out, SortedFrom(U, seq, out),
         NEW c \in Candidate(U), \A i \in 1..Len(seq) : seq[i].link < c.link
  PROVE  SortedFrom(U, Append(seq, c), Insert(out, c))
<1> DEFINE C == Candidate(U)
           m == Len(out)
           longer == Append(seq, c)
           new == Insert(out, c)
<1>1. out \in Seq(C) /\ Len(seq) = m /\ ToSet(out) = ToSet(seq) /\ InRank(out)
  BY DEF SortedFrom
<1>2. m \in Nat /\ DOMAIN out = 1..m /\ DOMAIN seq = 1..m /\ \A p \in 1..m : out[p] \in C
  <2>1. out \in Seq(C) /\ seq \in Seq(C)
    BY <1>1
  <2> HIDE DEF C
  <2> QED BY <1>1, <2>1, LenProperties, ElementOfSeq
<1>3. PICK n \in 0..m :
        /\ new = InsertAt(out, n + 1, c)
        /\ \A p \in 1..n : out[p].score >= c.score
        /\ \A p \in (n + 1)..m : out[p].score < c.score
  BY <1>1, InsertFindsPlace
<1>4. /\ new \in Seq(C) /\ Len(new) = m + 1
      /\ \A i \in 1..n : new[i] = out[i]
      /\ new[n + 1] = c
      /\ \A i \in (n + 1)..m : new[i + 1] = out[i]
  <2>1. c \in C
    OBVIOUS
  <2> HIDE DEF C, new
  <2>2. Inserted(C, out, n, c, new)
    BY <1>1, <1>3, <2>1, InsertAtIs
  <2> QED BY <2>2 DEF Inserted
<1>5. longer \in Seq(C) /\ Len(longer) = m + 1 /\ longer[m + 1] = c /\ \A i \in 1..m : longer[i] = seq[i]
  <2>1. c \in C /\ seq \in Seq(C)
    OBVIOUS
  <2> HIDE DEF C
  <2> QED BY <1>1, <2>1, AppendProperties
<1>6. n \in Nat /\ n <= m /\ n + 1 \in 1..(m + 1)
  BY <1>2
<1>7. DOMAIN new = 1..(m + 1) /\ DOMAIN longer = 1..(m + 1)
  <2> HIDE DEF C, new, longer, m
  <2> QED BY <1>4, <1>5, LenProperties
<1>8. \A p \in 1..m : out[p].link < c.link
  <2> SUFFICES ASSUME NEW p \in 1..m PROVE out[p].link < c.link
    OBVIOUS
  <2>1. out[p] \in ToSet(seq)
    BY <1>1, <1>2 DEF ToSet
  <2>2. PICK i \in 1..m : out[p] = seq[i]
    BY <1>2, <2>1 DEF ToSet
  <2> QED BY <1>1, <2>2
<1> HIDE DEF new, longer, m
<1>9. \A p \in 1..(m + 1) : \/ p \in 1..n /\ p \in 1..m
                            \/ p = n + 1
                            \/ p - 1 \in (n + 1)..m /\ p - 1 \in 1..m /\ p - 1 + 1 = p
  BY <1>2, <1>6
<1>10. ToSet(new) = ToSet(longer)
  <2>1. ToSet(longer) = ToSet(seq) \union {c}
    <3>1. \A i \in 1..(m + 1) : i \in 1..m \/ i = m + 1
      BY <1>2
    <3>2. \A i \in 1..m : i \in 1..(m + 1)
      BY <1>2
    <3>3. m + 1 \in 1..(m + 1)
      BY <1>2
    <3>4. \A v \in ToSet(longer) : v \in ToSet(seq) \union {c}
      BY <1>2, <1>5, <1>7, <3>1 DEF ToSet
    <3>5. \A v \in ToSet(seq) : v \in ToSet(longer)
      BY <1>2, <1>5, <1>7, <3>2 DEF ToSet
    <3>6. c \in ToSet(longer)
      BY <1>5, <1>7, <3>3 DEF ToSet
    <3> QED BY <3>4, <3>5, <3>6
  <2>2. \A v \in ToSet(new) : v \in ToSet(out) \union {c}
    <3> SUFFICES ASSUME NEW p \in 1..(m + 1) PROVE new[p] \in ToSet(out) \union {c}
      BY <1>7 DEF ToSet
    <3>1. CASE p \in 1..n /\ p \in 1..m
      BY <1>2, <1>4, <3>1 DEF ToSet
    <3>2. CASE p = n + 1
      BY <1>4, <3>2
    <3>3. CASE p - 1 \in (n + 1)..m /\ p - 1 \in 1..m /\ p - 1 + 1 = p
      <4>1. new[p] = out[p - 1]
        BY <1>4, <3>3
      <4> QED BY <1>2, <3>3, <4>1 DEF ToSet
    <3> QED BY <1>9, <3>1, <3>2, <3>3
  <2>3. c \in ToSet(new)
    BY <1>4, <1>6, <1>7 DEF ToSet
  <2>4. ASSUME NEW i \in 1..m PROVE out[i] \in ToSet(new)
    <3>1. CASE i <= n
      <4>1. i \in 1..n /\ i \in 1..(m + 1)
        BY <1>2, <1>6, <3>1
      <4> QED BY <1>4, <1>7, <4>1 DEF ToSet
    <3>2. CASE ~ i <= n
      <4>1. i \in (n + 1)..m /\ i + 1 \in 1..(m + 1)
        BY <1>2, <1>6, <3>2
      <4> QED BY <1>4, <1>7, <4>1 DEF ToSet
    <3> QED BY <3>1, <3>2
  <2>5. \A v \in ToSet(out) : v \in ToSet(new)
    BY <1>2, <2>4 DEF ToSet
  <2> QED BY <1>1, <2>1, <2>2, <2>3, <2>5
<1>11. c.score \in Int /\ c.link \in Nat /\ \A p \in 1..m : out[p].score \in Int /\ out[p].link \in Nat
  BY <1>2 DEF Candidate
<1>12. ASSUME NEW p \in 1..(m + 1), NEW q \in 1..(m + 1), p < q
       PROVE  Leading(new[p], new[q])
  <2>1. CASE q \in 1..n /\ q \in 1..m
    <3>1. p \in 1..n /\ p \in 1..m
      BY <1>2, <1>6, <1>12, <2>1
    <3>2. Leading(out[p], out[q])
      BY <1>1, <1>12, <2>1, <3>1 DEF InRank, m
    <3> QED BY <1>4, <2>1, <3>1, <3>2
  <2>2. CASE q = n + 1
    <3>1. p \in 1..n /\ p \in 1..m
      BY <1>2, <1>6, <1>12, <2>2
    <3>2. out[p].score >= c.score /\ out[p].link < c.link /\ out[p].score \in Int
      BY <1>3, <1>8, <1>11, <3>1
    <3>3. Leading(out[p], c)
      BY <1>11, <3>2 DEF Leading
    <3> QED BY <1>4, <2>2, <3>1, <3>3
  <2>3. CASE q - 1 \in (n + 1)..m /\ q - 1 \in 1..m /\ q - 1 + 1 = q
    <3>1. new[q] = out[q - 1]
      BY <1>4, <2>3
    <3>2. CASE p \in 1..n /\ p \in 1..m
      <4>1. p < q - 1
        BY <1>6, <2>3, <3>2
      <4>2. Leading(out[p], out[q - 1])
        BY <1>1, <2>3, <3>2, <4>1 DEF InRank, m
      <4> QED BY <1>4, <3>1, <3>2, <4>2
    <3>3. CASE p = n + 1
      <4>1. out[q - 1].score < c.score /\ out[q - 1].score \in Int
        BY <1>3, <1>11, <2>3
      <4>2. Leading(c, out[q - 1])
        BY <1>11, <4>1 DEF Leading
      <4> QED BY <1>4, <3>1, <3>3, <4>2
    <3>4. CASE p - 1 \in (n + 1)..m /\ p - 1 \in 1..m /\ p - 1 + 1 = p
      <4>1. p - 1 < q - 1
        BY <1>12
      <4>2. Leading(out[p - 1], out[q - 1])
        BY <1>1, <2>3, <3>4, <4>1 DEF InRank, m
      <4>3. new[p] = out[p - 1]
        BY <1>4, <3>4
      <4> QED BY <3>1, <4>2, <4>3
    <3> QED BY <1>9, <3>2, <3>3, <3>4
  <2> QED BY <1>9, <2>1, <2>2, <2>3
<1>13. InRank(new)
  BY <1>4, <1>12 DEF InRank
<1> QED BY <1>4, <1>5, <1>10, <1>13 DEF SortedFrom, new, longer

\* sortCandidates inserts one candidate after the other.
LEMMA InsertsAreFolded ==
  ASSUME NEW C, NEW seq \in Seq(C)
  PROVE  FoldLeft(Insert, << >>, seq) = Folded(OfCandidates, seq)
<1> DEFINE D == 1..Len(seq)
           Table(g) == [s \in SUBSET D |->
                          IF s = {} THEN << >> ELSE Insert(g[s \ {Max(s)}], seq[Max(s)])]
           table == CHOOSE g : g = Table(g)
<1>1. DOMAIN seq = D /\ Len(seq) \in Nat
  BY LenProperties
<1>2. FoldLeft(Insert, << >>, seq) = table[D]
  BY <1>1 DEF FoldLeft, MapThenFoldSet
<1>3. ASSUME NEW g PROVE FoldTable(OfCandidates, seq, D, g) <=> g = Table(g)
  <2>1. Start(OfCandidates) = << >> /\ \A out, c : Step(OfCandidates, out, c) = Insert(out, c)
    BY DEF Start, Step, OfCandidates
  <2> QED BY <2>1 DEF FoldTable
<1>4. \E g : FoldTable(OfCandidates, seq, D, g)
  BY <1>1, FoldTableExists
<1>5. \E g : g = Table(g)
  <2> HIDE DEF Table
  <2> QED BY <1>3, <1>4
<1>6. table = Table(table)
  <2> HIDE DEF Table
  <2> QED BY <1>5
<1>7. FoldTable(OfCandidates, seq, D, table)
  <2> HIDE DEF Table, table
  <2> QED BY <1>3, <1>6
<1> HIDE DEF table
<1> QED BY <1>2, <1>7, FoldedFromTable

LEMMA InsertionSorts ==
  ASSUME NEW U, NEW seq \in Seq(Candidate(U)), Rising(seq)
  PROVE  SortedFrom(U, seq, Folded(OfCandidates, seq))
<1> DEFINE C == Candidate(U)
           Bad(s) == Rising(s) /\ ~ SortedFrom(U, s, Folded(OfCandidates, s))
           bad == {n \in Nat : \E s \in Seq(C) : Len(s) = n /\ Bad(s)}
<1>1. SUFFICES ASSUME bad # {} PROVE FALSE
  <2>1. Len(seq) \in Nat
    <3>1. seq \in Seq(C)
      OBVIOUS
    <3> HIDE DEF C
    <3> QED BY <3>1, LenProperties
  <2> QED BY <2>1
<1>2. PICK n \in bad : \A k \in bad : n <= k
  <2>1. bad \in SUBSET Nat
    OBVIOUS
  <2> HIDE DEF bad
  <2> QED BY <1>1, <2>1, LeastNatural
<1>3. PICK s \in Seq(C) : Len(s) = n /\ Bad(s)
  BY <1>2
<1> HIDE DEF C
<1>4. s # << >>
  <2> SUFFICES ASSUME s = << >> PROVE FALSE
    OBVIOUS
  <2>1. Folded(OfCandidates, << >>) = << >>
    BY FoldedEmpty DEF Start, OfCandidates
  <2>2. << >> \in Seq(C) /\ Len(<< >>) = 0
    BY EmptySeq
  <2>3. InRank(<< >>)
    BY <2>2 DEF InRank
  <2> QED BY <1>3, <2>1, <2>2, <2>3 DEF SortedFrom, C
<1>5. PICK t \in Seq(C), c \in C : s = Append(t, c)
  BY <1>4, SequenceEmptyOrAppend
<1>6. /\ Len(t) \in Nat /\ Len(s) = Len(t) + 1 /\ s[Len(t) + 1] = c
      /\ \A i \in 1..Len(t) : s[i] = t[i]
  BY <1>5, AppendProperties, LenProperties
<1>7. /\ \A i \in 1..Len(t) : i \in 1..Len(s) /\ i < Len(t) + 1
      /\ Len(t) + 1 \in 1..Len(s)
  BY <1>6
<1>8. Rising(t) /\ \A i \in 1..Len(t) : t[i].link < c.link
  <2>1. Rising(s)
    BY <1>3
  <2> QED BY <1>6, <1>7, <2>1 DEF Rising
<1>9. Len(t) \notin bad
  BY <1>2, <1>3, <1>6
<1>10. SortedFrom(U, t, Folded(OfCandidates, t))
  BY <1>6, <1>8, <1>9
<1>11. SortedFrom(U, Append(t, c), Insert(Folded(OfCandidates, t), c))
  BY <1>8, <1>10, InsertSorts DEF C
<1>12. Folded(OfCandidates, Append(t, c)) = Insert(Folded(OfCandidates, t), c)
  BY FoldedAppend DEF Step, OfCandidates
<1> QED BY <1>3, <1>5, <1>11, <1>12

\* A link as it is ranked, its score, and the order that is wanted.
Found(S, U) == [url : U, slug : Seq(S), title : Seq(S)]
ScoreOf(links, target, i) == FuzzyScore(target, links[i].slug, links[i].title)
ScoredOf(links, target) == {i \in DOMAIN links : ScoreOf(links, target, i) > 0}
Outranks(links, target, i, j) ==
  \/ ScoreOf(links, target, i) > ScoreOf(links, target, j)
  \/ ScoreOf(links, target, i) = ScoreOf(links, target, j) /\ i < j

LEMMA ScoresAreNumbers ==
  ASSUME NEW S, NEW target \in Seq(S), NEW slug \in Seq(S), NEW title \in Seq(S)
  PROVE  FuzzyScore(target, slug, title) \in Int
<1>1. Len(target) \in Nat /\ Len(slug) \in Nat /\ (target # << >> => Len(target) # 0)
  BY LenProperties, EmptySeq
<1>2. Levenshtein(target, slug) \in Nat
  <2>1. PICK d : Distances(target, slug, d) /\ Levenshtein(target, slug) = At(d, Len(target), Len(slug))
    BY LevenshteinFillsTable
  <2>2. Len(target) \in 0..Len(target) /\ Len(slug) \in 0..Len(slug)
    BY <1>1
  <2> QED BY <2>1, <2>2, DistancesAreNatural
<1> DEFINE length == Longer(target, slug)
           similar == Similar(target, slug)
<1>3. length \in Nat /\ (target # << >> => length # 0)
  BY <1>1 DEF Longer
<1>4. similar \in Int
  BY <1>2, <1>3 DEF Similar
<1>5. target # << >> => (540 * similar) \div length \in Int
  <2> HIDE DEF length, similar
  <2> SUFFICES ASSUME target # << >> PROVE (540 * similar) \div length \in Int
    OBVIOUS
  <2>1. 540 * similar \in Int /\ length \in Nat /\ length > 0
    BY <1>3, <1>4
  <2> DEFINE a == 540 * similar
  <2> HIDE DEF a
  <2> QED BY <2>1 DEF a
<1> HIDE DEF length, similar
<1>6. CASE target = << >> \/ slug = << >>
  BY <1>6 DEF FuzzyScore
<1>7. CASE target # << >> /\ slug # << >>
  <2>1. (540 * similar) \div length \in Int
    BY <1>5, <1>7
  <2>2. FuzzyScore(target, slug, title) \in {0, 600, 480, 420, 360, (540 * similar) \div length}
    BY <1>7 DEF FuzzyScore, length, similar
  <2> HIDE DEF FuzzyScore
  <2> DEFINE q == (540 * similar) \div length
  <2> HIDE DEF q
  <2> QED BY <2>1, <2>2 DEF q
<1> QED BY <1>6, <1>7

LEMMA LeastOfTwo ==
  ASSUME NEW a \in Int, NEW b \in Int
  PROVE  Min({a, b}) = IF a <= b THEN a ELSE b
BY DEF Min

\* The links of a page or of a sitemap, as they are compared.
LinkOf(S, V) == [form : Forms, leads : V, slug : Seq(S), title : Seq(S)]

LEMMA PageGives ==
  ASSUME NEW S, NEW V, NEW page \in Seq(LinkOf(S, V))
  PROVE  FromPage(page) \in Seq(Found(S, V \union {"elsewhere"}))
<1> DEFINE L == LinkOf(S, V)
           F == Found(S, V \union {"elsewhere"})
           safe == Selected(page, {i \in DOMAIN page : IsSafeHref(page[i])})
           Of(link) == [url |-> IF link.form = "path" THEN link.leads ELSE "elsewhere",
                        slug |-> link.slug, title |-> link.title]
<1>1. page \in Seq(L) /\ \A link \in L : Of(link) \in F
  BY DEF LinkOf, Found
<1> HIDE DEF L, F, Of
<1>2. safe \in Seq(L)
  <2>1. {i \in DOMAIN page : IsSafeHref(page[i])} \in SUBSET (1..Len(page))
    BY <1>1, LenProperties
  <2> QED BY <1>1, <2>1, SelectedPlaces
<1> HIDE DEF safe
<1>3. Len(safe) \in Nat /\ DOMAIN safe = 1..Len(safe) /\ \A i \in 1..Len(safe) : safe[i] \in L
  BY <1>2, LenProperties, ElementOfSeq
<1>4. [i \in DOMAIN safe |-> Of(safe[i])] \in [1..Len(safe) -> F]
  BY <1>1, <1>3
<1>5. FromPage(page) = [i \in DOMAIN safe |-> Of(safe[i])]
  BY DEF FromPage, safe, Of
<1>6. FromPage(page) \in Seq(F)
  BY <1>3, <1>4, <1>5
<1> QED BY <1>6 DEF F

LEMMA SitemapGives ==
  ASSUME NEW S, NEW V, NEW sitemap \in Seq(LinkOf(S, V))
  PROVE  FromSitemap(sitemap) \in Seq(Found(S, V))
<1> DEFINE L == LinkOf(S, V)
           F == Found(S, V)
           whole == Selected(sitemap,
                      {i \in DOMAIN sitemap : IsSafeHref(sitemap[i]) /\ sitemap[i].form = "whole"})
           Of(link) == [url |-> link.leads, slug |-> link.slug, title |-> << >>]
<1>1. sitemap \in Seq(L) /\ \A link \in L : Of(link) \in F
  BY EmptySeq DEF LinkOf, Found
<1> HIDE DEF L, F, Of
<1>2. whole \in Seq(L)
  <2>1. {i \in DOMAIN sitemap : IsSafeHref(sitemap[i]) /\ sitemap[i].form = "whole"}
          \in SUBSET (1..Len(sitemap))
    BY <1>1, LenProperties
  <2> QED BY <1>1, <2>1, SelectedPlaces
<1> HIDE DEF whole
<1>3. Len(whole) \in Nat /\ DOMAIN whole = 1..Len(whole) /\ \A i \in 1..Len(whole) : whole[i] \in L
  BY <1>2, LenProperties, ElementOfSeq
<1>4. [i \in DOMAIN whole |-> Of(whole[i])] \in [1..Len(whole) -> F]
  BY <1>1, <1>3
<1>5. FromSitemap(sitemap) = [i \in DOMAIN whole |-> Of(whole[i])]
  BY DEF FromSitemap, whole, Of
<1>6. FromSitemap(sitemap) \in Seq(F)
  BY <1>3, <1>4, <1>5
<1> QED BY <1>6 DEF F

LEMMA SitemapsAreFolded ==
  ASSUME NEW C, NEW seq \in Seq(C)
  PROVE  FromSitemaps(seq) = SubSeq(Folded(OfSitemaps, seq), 1,
                                    Min({MaxSitemapEntries, Len(Folded(OfSitemaps, seq))}))
<1> DEFINE D == 1..Len(seq)
           More(links, sitemap) ==
             IF Len(links) >= MaxSitemapEntries THEN links ELSE links \o FromSitemap(sitemap)
           Table(g) == [s \in SUBSET D |->
                          IF s = {} THEN << >> ELSE More(g[s \ {Max(s)}], seq[Max(s)])]
           table == CHOOSE g : g = Table(g)
<1>1. DOMAIN seq = D /\ Len(seq) \in Nat
  BY LenProperties
<1>2. FoldLeft(More, << >>, seq) = table[D]
  BY <1>1 DEF FoldLeft, MapThenFoldSet
<1>3. ASSUME NEW g PROVE FoldTable(OfSitemaps, seq, D, g) <=> g = Table(g)
  <2>1. Start(OfSitemaps) = << >> /\ \A links, sitemap : Step(OfSitemaps, links, sitemap) = More(links, sitemap)
    BY DEF Start, Step, OfSitemaps
  <2> HIDE DEF More
  <2> QED BY <2>1 DEF FoldTable
<1>4. \E g : FoldTable(OfSitemaps, seq, D, g)
  BY <1>1, FoldTableExists
<1>5. \E g : g = Table(g)
  <2> HIDE DEF Table
  <2> QED BY <1>3, <1>4
<1>6. table = Table(table)
  <2> HIDE DEF Table
  <2> QED BY <1>5
<1>7. FoldTable(OfSitemaps, seq, D, table)
  <2> HIDE DEF Table, table
  <2> QED BY <1>3, <1>6
<1> HIDE DEF table
<1>8. Folded(OfSitemaps, seq) = table[D]
  BY <1>7, FoldedFromTable
<1>9. FromSitemaps(seq) = SubSeq(table[D], 1, Min({MaxSitemapEntries, Len(table[D])}))
  BY <1>2 DEF FromSitemaps
<1> QED BY <1>8, <1>9

LEMMA SitemapsGive ==
  ASSUME NEW S, NEW V, NEW sitemaps \in Seq(Seq(LinkOf(S, V)))
  PROVE  FromSitemaps(sitemaps) \in Seq(Found(S, V))
<1> DEFINE T == Seq(LinkOf(S, V))
           F == Found(S, V)
           bad == {n \in Nat : \E s \in Seq(T) : Len(s) = n /\ Folded(OfSitemaps, s) \notin Seq(F)}
           all == Folded(OfSitemaps, sitemaps)
           k == Min({MaxSitemapEntries, Len(all)})
<1>1. bad = {}
  <2> SUFFICES ASSUME bad # {} PROVE FALSE
    OBVIOUS
  <2>1. PICK n \in bad : \A m \in bad : n <= m
    <3>1. bad \in SUBSET Nat
      OBVIOUS
    <3> HIDE DEF bad
    <3> QED BY <3>1, LeastNatural
  <2>2. PICK s \in Seq(T) : Len(s) = n /\ Folded(OfSitemaps, s) \notin Seq(F)
    BY <2>1
  <2> HIDE DEF F
  <2>3. s # << >>
    <3>1. Folded(OfSitemaps, << >>) = << >>
      BY FoldedEmpty DEF Start, OfSitemaps
    <3> QED BY <2>2, <3>1, EmptySeq
  <2>4. PICK t \in Seq(T), x \in T : s = Append(t, x)
    <3> HIDE DEF T
    <3> QED BY <2>3, SequenceEmptyOrAppend
  <2>5. Len(t) \in Nat /\ Len(s) = Len(t) + 1
    <3> HIDE DEF T
    <3> QED BY <2>4, AppendProperties, LenProperties
  <2>6. Len(t) \notin bad
    <3>1. ~ n <= Len(t)
      BY <2>2, <2>5
    <3> HIDE DEF bad
    <3> QED BY <2>1, <3>1
  <2>7. Folded(OfSitemaps, t) \in Seq(F)
    BY <2>5, <2>6
  <2>8. FromSitemap(x) \in Seq(F)
    BY SitemapGives DEF F
  <2>9. Folded(OfSitemaps, s) = Step(OfSitemaps, Folded(OfSitemaps, t), x)
    <3> HIDE DEF T
    <3> QED BY <2>4, FoldedAppend
  <2>10. Step(OfSitemaps, Folded(OfSitemaps, t), x) \in
           {Folded(OfSitemaps, t), Folded(OfSitemaps, t) \o FromSitemap(x)}
    BY DEF Step, OfSitemaps
  <2>11. Folded(OfSitemaps, t) \o FromSitemap(x) \in Seq(F)
    BY <2>7, <2>8, ConcatProperties
  <2> QED BY <2>2, <2>7, <2>9, <2>10, <2>11
<1>2. Len(sitemaps) \in Nat
  <2> HIDE DEF T
  <2>1. sitemaps \in Seq(T)
    BY DEF T
  <2> QED BY <2>1, LenProperties
<1>3. all \in Seq(F)
  BY <1>1, <1>2
<1>4. FromSitemaps(sitemaps) = SubSeq(all, 1, k)
  <2> HIDE DEF T
  <2>1. sitemaps \in Seq(T)
    BY DEF T
  <2> QED BY <2>1, SitemapsAreFolded
<1> HIDE DEF F, all, k
<1>5. Len(all) \in Nat /\ \A i \in 1..Len(all) : all[i] \in F
  BY <1>3, LenProperties, ElementOfSeq
<1>6. k \in Nat /\ k <= Len(all)
  <2>1. MaxSitemapEntries \in Nat
    BY CandidatesAssumption
  <2>2. k = IF MaxSitemapEntries <= Len(all) THEN MaxSitemapEntries ELSE Len(all)
    BY <1>5, <2>1, LeastOfTwo DEF k
  <2> QED BY <1>5, <2>1, <2>2
<1>7. \A i \in 1..k : all[i] \in F
  BY <1>5, <1>6
<1>8. SubSeq(all, 1, k) \in Seq(F)
  <2>1. 1 \in Int /\ k \in Int
    BY <1>6
  <2> QED BY <1>7, <2>1, SubSeqProperties
<1> QED BY <1>4, <1>8 DEF F

\* The best of the links, and none only when none has a score.
BestOf(links, target, found) ==
  LET chosen == {found[n].link : n \in DOMAIN found}
  IN  /\ Len(found) = Min({TopN, Cardinality(ScoredOf(links, target))})
      /\ chosen \subseteq ScoredOf(links, target)
      /\ \A n \in 2..Len(found) : Outranks(links, target, found[n-1].link, found[n].link)
      /\ \A i \in chosen, j \in ScoredOf(links, target) \ chosen : Outranks(links, target, i, j)
      /\ found # << >> <=> ScoredOf(links, target) # {}

LEMMA RankingIsBest ==
  ASSUME NEW S, NEW U, NEW links \in Seq(Found(S, U)), NEW target \in Seq(S)
  PROVE  BestOf(links, target, RankCandidates(links, target))
<1> DEFINE C == Candidate(U)
           n == Len(links)
           LinkScore(i) == ScoreOf(links, target, i)
           scored == [i \in DOMAIN links |-> [link |-> i, url |-> links[i].url, score |-> LinkScore(i)]]
           places == {i \in DOMAIN scored : scored[i].score > 0}
           some == Selected(scored, places)
           sorted == FoldLeft(Insert, << >>, some)
           k == Min({TopN, Len(sorted)})
           found == SubSeq(sorted, 1, k)
           wanted == ScoredOf(links, target)
           count == Cardinality(wanted)
<1>1. /\ n \in Nat /\ DOMAIN links = 1..n
      /\ \A i \in 1..n : links[i].url \in U /\ LinkScore(i) \in Int
  <2> DEFINE F == Found(S, U)
  <2>1. links \in Seq(F)
    OBVIOUS
  <2> HIDE DEF F
  <2>2. n \in Nat /\ DOMAIN links = 1..n /\ \A i \in 1..n : links[i] \in F
    BY <2>1, LenProperties, ElementOfSeq
  <2>3. \A i \in 1..n : links[i].url \in U /\ links[i].slug \in Seq(S) /\ links[i].title \in Seq(S)
    BY <2>2 DEF F, Found
  <2> QED BY <2>2, <2>3, ScoresAreNumbers DEF ScoreOf
<1>2. RankCandidates(links, target) = found
  BY DEF RankCandidates, ScoreOf
<1> HIDE DEF n, Score, found, sorted
<1>3. /\ scored \in Seq(C) /\ Len(scored) = n /\ DOMAIN scored = 1..n
      /\ \A i \in 1..n : scored[i].link = i /\ scored[i].score = LinkScore(i)
  <2>1. \A i \in 1..n : [link |-> i, url |-> links[i].url, score |-> LinkScore(i)] \in C
    BY <1>1 DEF Candidate
  <2> HIDE DEF C
  <2>2. scored \in [1..n -> C]
    BY <1>1, <2>1
  <2> QED BY <1>1, <2>2
<1> HIDE DEF scored
<1>4. places = wanted /\ wanted \in SUBSET (1..n) /\ \A i \in wanted : i \in Nat /\ i \in 1..n
  BY <1>1, <1>3 DEF ScoredOf, Score
<1> HIDE DEF places, some, wanted
<1>5. PICK at : Places(scored, wanted, some, at)
  BY <1>3, <1>4, SelectedPlaces DEF some
<1>6. some \in Seq(C) /\ Len(some) = count
  BY <1>3, <1>4, SelectedPlaces DEF some
<1>7. count \in Nat /\ DOMAIN some = 1..count
  <2> HIDE DEF C, count
  <2> QED BY <1>6, LenProperties
<1> HIDE DEF C, count
<1>8. \A m \in 1..count : at[m] \in wanted /\ some[m].link = at[m] /\ some[m].score = LinkScore(at[m])
  BY <1>3, <1>4, <1>5, <1>6 DEF Places
<1>9. Rising(some)
  BY <1>5, <1>6, <1>8 DEF Places, Rising
<1>10. SortedFrom(U, some, sorted)
  <2>1. sorted = Folded(OfCandidates, some)
    BY <1>6, InsertsAreFolded DEF sorted
  <2> QED BY <1>6, <1>9, <2>1, InsertionSorts DEF C
<1>11. sorted \in Seq(C) /\ Len(sorted) = count /\ ToSet(sorted) = ToSet(some) /\ InRank(sorted)
  BY <1>6, <1>10 DEF SortedFrom, C
<1>12. DOMAIN sorted = 1..count /\ \A p \in 1..count : sorted[p] \in C
  BY <1>11, LenProperties, ElementOfSeq
<1>13. \A p \in 1..count : sorted[p].link \in wanted /\ sorted[p].score = LinkScore(sorted[p].link)
  <2> SUFFICES ASSUME NEW p \in 1..count
               PROVE  sorted[p].link \in wanted /\ sorted[p].score = LinkScore(sorted[p].link)
    OBVIOUS
  <2>1. sorted[p] \in ToSet(some)
    BY <1>11, <1>12 DEF ToSet
  <2>2. PICK m \in 1..count : sorted[p] = some[m]
    BY <1>7, <2>1 DEF ToSet
  <2> QED BY <1>8, <2>2
<1>14. \A i \in wanted : \E p \in 1..count : sorted[p].link = i
  <2> SUFFICES ASSUME NEW i \in wanted PROVE \E p \in 1..count : sorted[p].link = i
    OBVIOUS
  <2>1. PICK m \in 1..count : at[m] = i
    BY <1>5, <1>6 DEF Places
  <2>2. some[m] \in ToSet(sorted)
    BY <1>7, <1>11 DEF ToSet
  <2>3. PICK p \in 1..count : sorted[p] = some[m]
    BY <1>12, <2>2 DEF ToSet
  <2> QED BY <1>8, <2>1, <2>3
<1>15. \A p, q \in 1..count : p < q => Outranks(links, target, sorted[p].link, sorted[q].link)
  <2> SUFFICES ASSUME NEW p \in 1..count, NEW q \in 1..count, p < q
               PROVE  Outranks(links, target, sorted[p].link, sorted[q].link)
    OBVIOUS
  <2>1. Leading(sorted[p], sorted[q])
    BY <1>11 DEF InRank
  <2>2. sorted[p].score = LinkScore(sorted[p].link) /\ sorted[q].score = LinkScore(sorted[q].link)
    BY <1>13
  <2> QED BY <2>1, <2>2 DEF Leading, Outranks, Score
<1>16. k \in Nat /\ k <= count /\ k = Min({TopN, count}) /\ (k = 0 <=> count = 0)
  <2>1. TopN \in Nat /\ TopN # 0
    BY CandidatesAssumption
  <2>2. k = Min({TopN, count})
    BY <1>11
  <2> HIDE DEF k
  <2>3. k = IF TopN <= count THEN TopN ELSE count
    BY <1>7, <2>1, <2>2, LeastOfTwo
  <2> QED BY <1>7, <2>1, <2>2, <2>3
<1> HIDE DEF k
<1>17. found \in Seq(C) /\ Len(found) = k /\ DOMAIN found = 1..k /\ \A p \in 1..k : found[p] = sorted[p]
  <2>1. \A p \in 1..k : sorted[p] \in C
    BY <1>7, <1>12, <1>16
  <2>2. /\ found \in Seq(C) /\ Len(found) = IF 1 <= k THEN k - 1 + 1 ELSE 0
        /\ \A p \in 1..(k - 1 + 1) : found[p] = sorted[1 + p - 1]
    <3>1. 1 \in Int /\ k \in Int
      BY <1>16
    <3> QED BY <2>1, <3>1, SubSeqProperties DEF found
  <2>3. k - 1 + 1 = k /\ \A p \in 1..k : 1 + p - 1 = p
    BY <1>16
  <2>4. Len(found) = k
    BY <1>16, <2>2
  <2>5. DOMAIN found = 1..k
    BY <2>2, <2>4, LenProperties
  <2> QED BY <2>2, <2>3, <2>4, <2>5
<1> DEFINE chosen == {found[p].link : p \in DOMAIN found}
<1>18. \A p \in 1..k : p \in 1..count
  BY <1>7, <1>16
<1>19. \A i \in chosen : \E p \in 1..k : sorted[p].link = i
  BY <1>17
<1>20. \A p \in 1..k : sorted[p].link \in chosen
  BY <1>17
<1> HIDE DEF chosen
<1>21. chosen \subseteq wanted
  BY <1>13, <1>18, <1>19
<1>22. \A p \in 2..Len(found) : Outranks(links, target, found[p-1].link, found[p].link)
  <2> SUFFICES ASSUME NEW p \in 2..k PROVE Outranks(links, target, found[p-1].link, found[p].link)
    BY <1>17
  <2>1. p \in 1..k /\ p - 1 \in 1..k /\ p - 1 < p
    BY <1>16
  <2> QED BY <1>15, <1>17, <1>18, <2>1
<1>23. ASSUME NEW i \in chosen, NEW j \in wanted \ chosen PROVE Outranks(links, target, i, j)
  <2>1. PICK p \in 1..k : sorted[p].link = i
    BY <1>19
  <2>2. PICK q \in 1..count : sorted[q].link = j
    BY <1>14
  <2>3. q \notin 1..k
    BY <1>20, <2>2
  <2>4. p < q /\ p \in 1..count
    BY <1>7, <1>16, <1>18, <2>3
  <2> QED BY <1>15, <2>1, <2>2, <2>4
<1>24. found # << >> <=> wanted # {}
  <2>1. found # << >> <=> k # 0
    BY <1>16, <1>17, EmptySeq
  <2>2. IsFiniteSet(wanted)
    <3>1. IsFiniteSet(1..n)
      BY <1>1, IntervalIs
    <3> QED BY <1>4, <3>1, FS_Subset
  <2>3. count = 0 <=> wanted = {}
    BY <2>2, FS_EmptySet DEF count
  <2> QED BY <1>16, <2>1, <2>3
<1> QED BY <1>2, <1>16, <1>17, <1>21, <1>22, <1>23, <1>24 DEF BestOf, chosen, wanted, count

\* Whatever links a page and its sitemaps have, and whatever was not found.
THEOREM SuggestionsAreBest ==
  ASSUME NEW S, NEW V, NEW page \in Seq(LinkOf(S, V)), NEW sitemaps \in Seq(Seq(LinkOf(S, V))),
         NEW target \in Seq(S)
  PROVE  CandidatesAreBest(page, sitemaps, target)
<1> DEFINE ofPage == FromPage(page)
           ofSite == FromSitemaps(sitemaps)
           links == IF ScoredOf(ofPage, target) # {} THEN ofPage ELSE ofSite
           found == FindCandidates(page, sitemaps, target)
<1>1. BestOf(ofPage, target, RankCandidates(ofPage, target))
  <2> DEFINE U == V \union {"elsewhere"}
  <2>1. ofPage \in Seq(Found(S, U))
    BY PageGives
  <2> HIDE DEF U, ofPage
  <2> QED BY <2>1, RankingIsBest
<1>2. BestOf(ofSite, target, RankCandidates(ofSite, target))
  <2>1. ofSite \in Seq(Found(S, V))
    BY SitemapsGive
  <2> HIDE DEF ofSite
  <2> QED BY <2>1, RankingIsBest
<1>3. RankCandidates(ofPage, target) # << >> <=> ScoredOf(ofPage, target) # {}
  <2> HIDE DEF ofPage
  <2> QED BY <1>1 DEF BestOf
<1>4. found = IF ScoredOf(ofPage, target) # {} THEN RankCandidates(ofPage, target)
              ELSE RankCandidates(ofSite, target)
  BY <1>3 DEF FindCandidates
<1> HIDE DEF ofPage, ofSite, found
<1>5. BestOf(links, target, found)
  BY <1>1, <1>2, <1>4
<1> QED BY <1>5, Zenon DEF CandidatesAreBest, BestOf, ScoredOf, Outranks, ScoreOf, ofPage, ofSite, found, links

\* What the runs rank are links.
LEMMA InputIsLinks == Spec => [](part = "links" => input \in Seq(PageLinks))
<1>1. Init => (part = "links" => input \in Seq(PageLinks))
  BY EmptySeq DEF Init
<1>2. (part = "links" => input \in Seq(PageLinks)) /\ [Next]_<<part, input>>
        => (part = "links" => input \in Seq(PageLinks))'
  <2> SUFFICES ASSUME part = "links" => input \in Seq(PageLinks), Next, part' = "links"
               PROVE  input' \in Seq(PageLinks)
    OBVIOUS
  <2>1. part = "links" /\ input \in Seq(PageLinks)
    BY DEF Next
  <2>2. PICK x \in Alphabet["links"] : input' = Append(input, x)
    BY <2>1 DEF Next
  <2>3. x \in PageLinks
    BY <2>2 DEF Alphabet
  <2> QED BY <2>1, <2>2, <2>3, AppendProperties
<1> QED BY <1>1, <1>2, PTL DEF Spec

\* So the run's invariant holds for pages and sitemaps of every size.
THEOREM SuggestionsStayBest == Spec => []BestAreSuggested
<1>1. ASSUME input \in Seq(PageLinks), NEW m \in Cuts, NEW n \in Cuts, m <= n
      PROVE  CandidatesAreBest(Before(m), <<Between(m, n), After(n)>>, Target)
  <2> DEFINE S == {"a", "b", "c", "d", "x", "y"}
             V == {l.leads : l \in PageLinks}
             L == LinkOf(S, V)
  <2>1. PageLinks \subseteq L
    <3>1. \A l \in PageLinks : l.leads \in V
      OBVIOUS
    <3>2. /\ <<"a", "b", "c">> \in Seq(S) /\ <<"a", "x", "c">> \in Seq(S)
          /\ <<"x">> \in Seq(S) /\ <<"x", "y">> \in Seq(S) /\ << >> \in Seq(S)
      OBVIOUS
    <3>3. <<"a", "b", "c", "d">> \in Seq(S) /\ <<"x", "a", "b", "c">> \in Seq(S)
      OBVIOUS
    <3>4. <<"x", "a", "b", "c", "x">> \in Seq(S)
      OBVIOUS
    <3> HIDE DEF S, V
    <3>5. ASSUME NEW l \in PageLinks
          PROVE  /\ l = [form |-> l.form, leads |-> l.leads, slug |-> l.slug, title |-> l.title]
                 /\ l.form \in Forms
                 /\ l.slug \in Seq(S) /\ l.title \in Seq(S)
      <4>1. l = [form |-> l.form, leads |-> l.leads, slug |-> l.slug, title |-> l.title] /\ l.form \in Forms
        BY DEF PageLinks, Link, Forms
      <4>2. l.slug \in Seq(S) /\ l.title \in Seq(S)
        <5> DEFINE words == {<<"a", "b", "c">>, <<"a", "b", "c", "d">>, <<"a", "x", "c">>, <<"x">>, <<"x", "y">>,
                             <<"x", "a", "b", "c">>, <<"x", "a", "b", "c", "x">>, << >>}
        <5>1. l.slug \in words /\ l.title \in words
          BY DEF PageLinks, Link
        <5>2. words \subseteq Seq(S)
          BY <3>2, <3>3, <3>4
        <5> QED BY <5>1, <5>2
      <4> QED BY <4>1, <4>2
    <3>6. ASSUME NEW l \in PageLinks PROVE l \in LinkOf(S, V)
      BY <3>1, <3>5 DEF LinkOf
    <3> QED BY <3>6
  <2> HIDE DEF L
  <2>2. input \in Seq(L)
    BY <1>1, <2>1, SeqMonotonic
  <2>3. Len(input) \in Nat /\ \A i \in 1..Len(input) : input[i] \in L
    BY <2>2, LenProperties, ElementOfSeq
  <2>4. m \in Nat /\ n \in Nat /\ m <= Len(input) /\ n <= Len(input)
    BY <2>3 DEF Cuts
  <2>5. ASSUME NEW a \in Nat, NEW b \in Nat, b <= Len(input)
        PROVE  SubSeq(input, a + 1, b) \in Seq(L)
    <3>1. \A i \in (a + 1)..b : input[i] \in L
      BY <2>3, <2>5
    <3>2. a + 1 \in Int /\ b \in Int
      BY <2>5
    <3> QED BY <3>1, <3>2, SubSeqProperties
  <2>6. Between(m, n) \in Seq(L) /\ After(n) \in Seq(L)
    BY <2>3, <2>4, <2>5 DEF After, Between
  <2>7. Before(m) \in Seq(L)
    <3>1. SubSeq(input, 0 + 1, m) \in Seq(L)
      BY <2>4, <2>5
    <3>2. 0 + 1 = 1
      OBVIOUS
    <3> QED BY <3>1, <3>2 DEF Before
  <2>8. <<Between(m, n), After(n)>> \in Seq(Seq(L))
    <3> DEFINE T == Seq(L)
    <3>1. Between(m, n) \in T /\ After(n) \in T
      BY <2>6
    <3> HIDE DEF T
    <3>2. <<Between(m, n), After(n)>> \in Seq(T)
      BY <3>1
    <3> QED BY <3>2 DEF T
  <2>9. Target \in Seq(S)
    BY DEF Target
  <2> QED BY <2>7, <2>8, <2>9, SuggestionsAreBest DEF L
<1>2. (part = "links" => input \in Seq(PageLinks)) => BestAreSuggested
  BY <1>1 DEF BestAreSuggested
<1> QED BY <1>2, InputIsLinks, PTL
-----------------------------------------------------------------------------
(* Sums over finite sets.                                                    *)

\* What is added: the runes of the nodes of a page, or of the texts of elements.
RunesOfNodes(page) == [of |-> "nodes", page |-> page]
RunesOfElements    == [of |-> "elements"]

Addend(sum, x) == IF sum.of = "nodes" THEN sum.page[x].runes ELSE RunesIn(x)
OneOf(s) == CHOOSE x \in s : TRUE

\* g is the table by which the library adds over S.
SumTable(sum, S, g) ==
  g = [s \in SUBSET S |-> IF s = {} THEN 0 ELSE Addend(sum, OneOf(s)) + g[s \ {OneOf(s)}]]

LEMMA SumTablesAgree ==
  ASSUME NEW S, IsFiniteSet(S), NEW T \in SUBSET S, NEW sum, NEW g, NEW h,
         SumTable(sum, S, g), SumTable(sum, T, h)
  PROVE  Agree(g, h, SUBSET T)
<1> DEFINE bad == {s \in SUBSET T : g[s] # h[s]}
<1>1. SUFFICES ASSUME bad # {} PROVE FALSE
  BY DEF Agree
<1>2. IsFiniteSet(T) /\ bad \in SUBSET (SUBSET T)
  BY FS_Subset
<1> HIDE DEF bad
<1>3. PICK s \in bad : \A u \in SUBSET s : u # s => u \notin bad
  BY <1>1, <1>2, SmallestSubset
<1>4. s \in SUBSET T /\ s \in SUBSET S /\ g[s] # h[s]
  BY <1>3 DEF bad
<1>5. /\ g[s] = IF s = {} THEN 0 ELSE Addend(sum, OneOf(s)) + g[s \ {OneOf(s)}]
      /\ h[s] = IF s = {} THEN 0 ELSE Addend(sum, OneOf(s)) + h[s \ {OneOf(s)}]
  BY <1>4 DEF SumTable
<1>6. CASE s # {}
  <2>1. OneOf(s) \in s
    BY <1>6 DEF OneOf
  <2>2. s \ {OneOf(s)} \notin bad
    BY <1>3, <2>1
  <2>3. g[s \ {OneOf(s)}] = h[s \ {OneOf(s)}]
    BY <1>4, <2>1, <2>2 DEF bad
  <2> QED BY <1>4, <1>5, <2>3
<1> QED BY <1>4, <1>5, <1>6

LEMMA SumTableExists ==
  ASSUME NEW S, IsFiniteSet(S), NEW sum
  PROVE  \E g : SumTable(sum, S, g)
<1> DEFINE bad == {T \in SUBSET S : ~ \E g : SumTable(sum, T, g)}
<1>1. SUFFICES ASSUME bad # {} PROVE FALSE
  OBVIOUS
<1>2. PICK T \in bad : \A U \in SUBSET T : U # T => U \notin bad
  <2>1. bad \in SUBSET (SUBSET S)
    OBVIOUS
  <2> HIDE DEF bad
  <2> QED BY <1>1, <2>1, SmallestSubset
<1> DEFINE table(U) == CHOOSE g : SumTable(sum, U, g)
           added(U) == table(U)[U]
           whole    == [s \in SUBSET T |->
                          IF s = {} THEN 0 ELSE Addend(sum, OneOf(s)) + added(s \ {OneOf(s)})]
<1>3. T \in SUBSET S /\ ~ \E g : SumTable(sum, T, g)
  BY <1>2
<1>4. ASSUME NEW U \in SUBSET T, U # T PROVE SumTable(sum, U, table(U)) /\ IsFiniteSet(U)
  <2>1. U \in SUBSET S /\ U \notin bad
    BY <1>2, <1>3, <1>4
  <2>2. \E g : SumTable(sum, U, g)
    BY <2>1
  <2> QED BY <2>1, <2>2, FS_Subset
<1>5. ASSUME NEW U \in SUBSET T, U # T PROVE added(U) = whole[U]
  <2>1. SumTable(sum, U, table(U)) /\ IsFiniteSet(U)
    BY <1>4, <1>5
  <2>2. table(U)[U] = IF U = {} THEN 0 ELSE Addend(sum, OneOf(U)) + table(U)[U \ {OneOf(U)}]
    BY <2>1 DEF SumTable
  <2>3. CASE U # {}
    <3> DEFINE V == U \ {OneOf(U)}
    <3>1. OneOf(U) \in U
      BY <2>3 DEF OneOf
    <3>2. V \in SUBSET T /\ V # T /\ V \in SUBSET U
      BY <1>5, <3>1
    <3>3. SumTable(sum, V, table(V))
      BY <1>4, <3>2
    <3>4. table(U)[V] = table(V)[V]
      <4> HIDE DEF table, V
      <4>1. Agree(table(U), table(V), SUBSET V)
        BY <2>1, <3>2, <3>3, SumTablesAgree
      <4> QED BY <4>1 DEF Agree
    <3> QED BY <2>2, <2>3, <3>4
  <2> QED BY <2>2, <2>3
<1>6. ASSUME NEW s \in SUBSET T, s # {}
      PROVE  added(s \ {OneOf(s)}) = whole[s \ {OneOf(s)}]
  <2>1. OneOf(s) \in s
    BY <1>6 DEF OneOf
  <2>2. s \ {OneOf(s)} \in SUBSET T /\ s \ {OneOf(s)} # T
    BY <2>1
  <2> HIDE DEF added, whole
  <2> QED BY <1>5, <2>2
<1>7. SumTable(sum, T, whole)
  <2>1. ASSUME NEW s \in SUBSET T
        PROVE  whole[s] = IF s = {} THEN 0 ELSE Addend(sum, OneOf(s)) + whole[s \ {OneOf(s)}]
    <3>1. whole[s] = IF s = {} THEN 0 ELSE Addend(sum, OneOf(s)) + added(s \ {OneOf(s)})
      OBVIOUS
    <3> HIDE DEF added, whole
    <3> QED BY <1>6, <3>1
  <2>2. whole = [s \in SUBSET T |-> whole[s]]
    OBVIOUS
  <2> HIDE DEF whole
  <2> QED BY <2>1, <2>2 DEF SumTable
<1> QED BY <1>3, <1>7

\* The sum over a set: of nothing 0, and any element may be taken as the last.
Total(sum, S) == (CHOOSE g : SumTable(sum, S, g))[S]

LEMMA TotalFromTable ==
  ASSUME NEW S, IsFiniteSet(S), NEW sum, NEW g, SumTable(sum, S, g), NEW T \in SUBSET S
  PROVE  Total(sum, T) = g[T]
<1> DEFINE h == CHOOSE h : SumTable(sum, T, h)
<1>1. IsFiniteSet(T)
  BY FS_Subset
<1>2. SumTable(sum, T, h)
  BY <1>1, SumTableExists
<1>3. Total(sum, T) = h[T]
  BY DEF Total
<1> HIDE DEF h
<1>4. Agree(g, h, SUBSET T)
  BY <1>2, SumTablesAgree
<1> QED BY <1>3, <1>4 DEF Agree

LEMMA TotalIs ==
  ASSUME NEW S, IsFiniteSet(S), NEW sum
  PROVE  Total(sum, S) = IF S = {} THEN 0 ELSE Addend(sum, OneOf(S)) + Total(sum, S \ {OneOf(S)})
<1>1. PICK g : SumTable(sum, S, g)
  BY SumTableExists
<1>2. Total(sum, S) = g[S] /\ Total(sum, S \ {OneOf(S)}) = g[S \ {OneOf(S)}]
  <2>1. S \in SUBSET S /\ S \ {OneOf(S)} \in SUBSET S
    OBVIOUS
  <2> QED BY <1>1, <2>1, TotalFromTable
<1>3. g[S] = IF S = {} THEN 0 ELSE Addend(sum, OneOf(S)) + g[S \ {OneOf(S)}]
  BY <1>1 DEF SumTable
<1> QED BY <1>2, <1>3

LEMMA TotalIsNatural ==
  ASSUME NEW S, IsFiniteSet(S), NEW sum, \A x \in S : Addend(sum, x) \in Nat
  PROVE  Total(sum, S) \in Nat
<1> DEFINE bad == {T \in SUBSET S : Total(sum, T) \notin Nat}
<1>1. SUFFICES ASSUME bad # {} PROVE FALSE
  OBVIOUS
<1>2. PICK T \in bad : \A U \in SUBSET T : U # T => U \notin bad
  <2>1. bad \in SUBSET (SUBSET S)
    OBVIOUS
  <2> HIDE DEF bad
  <2> QED BY <1>1, <2>1, SmallestSubset
<1>3. T \in SUBSET S /\ IsFiniteSet(T) /\ Total(sum, T) \notin Nat
  BY <1>2, FS_Subset
<1>4. T # {}
  BY <1>3, TotalIs
<1>5. OneOf(T) \in T
  BY <1>4 DEF OneOf
<1>6. Total(sum, T \ {OneOf(T)}) \in Nat
  BY <1>2, <1>3, <1>5
<1>7. Total(sum, T) = Addend(sum, OneOf(T)) + Total(sum, T \ {OneOf(T)})
  BY <1>3, <1>4, TotalIs
<1>8. Addend(sum, OneOf(T)) \in Nat
  BY <1>3, <1>5
<1> QED BY <1>3, <1>6, <1>7, <1>8

LEMMA TotalWithout ==
  ASSUME NEW S, IsFiniteSet(S), NEW sum, \A x \in S : Addend(sum, x) \in Nat, NEW x \in S
  PROVE  Total(sum, S) = Addend(sum, x) + Total(sum, S \ {x})
<1> DEFINE bad == {T \in SUBSET S : \E y \in T : Total(sum, T) # Addend(sum, y) + Total(sum, T \ {y})}
<1>1. SUFFICES ASSUME bad # {} PROVE FALSE
  OBVIOUS
<1>2. PICK T \in bad : \A U \in SUBSET T : U # T => U \notin bad
  <2>1. bad \in SUBSET (SUBSET S)
    OBVIOUS
  <2> HIDE DEF bad
  <2> QED BY <1>1, <2>1, SmallestSubset
<1>3. T \in SUBSET S /\ IsFiniteSet(T)
  BY <1>2, FS_Subset
<1>4. PICK y \in T : Total(sum, T) # Addend(sum, y) + Total(sum, T \ {y})
  BY <1>2
<1> DEFINE c == OneOf(T)
           rest == T \ {c, y}
<1>5. c \in T
  BY <1>4 DEF OneOf
<1> HIDE DEF c
<1>6. Total(sum, T) = Addend(sum, c) + Total(sum, T \ {c})
  BY <1>3, <1>4, TotalIs DEF c
<1>7. y # c
  BY <1>4, <1>6
<1>8. Total(sum, T \ {c}) = Addend(sum, y) + Total(sum, rest)
  <2>1. y \in T \ {c} /\ T \ {c} \in SUBSET T /\ T \ {c} # T /\ (T \ {c}) \ {y} = rest
    BY <1>4, <1>5, <1>7
  <2>2. T \ {c} \notin bad /\ T \ {c} \in SUBSET S
    BY <1>2, <1>3, <2>1
  <2> HIDE DEF rest
  <2> QED BY <2>1, <2>2
<1>9. Total(sum, T \ {y}) = Addend(sum, c) + Total(sum, rest)
  <2>1. c \in T \ {y} /\ T \ {y} \in SUBSET T /\ T \ {y} # T /\ (T \ {y}) \ {c} = rest
    BY <1>4, <1>5, <1>7
  <2>2. T \ {y} \notin bad /\ T \ {y} \in SUBSET S
    BY <1>2, <1>3, <2>1
  <2> HIDE DEF rest
  <2> QED BY <2>1, <2>2
<1>10. Addend(sum, c) \in Nat /\ Addend(sum, y) \in Nat /\ Total(sum, rest) \in Nat
  <2>1. rest \in SUBSET S /\ IsFiniteSet(rest)
    BY <1>3, FS_Subset
  <2>2. Total(sum, rest) \in Nat
    BY <2>1, TotalIsNatural
  <2> QED BY <1>3, <1>4, <1>5, <2>2
<1> QED BY <1>4, <1>6, <1>8, <1>9, <1>10

\* MapThenSumSet, as the pages use it.
LEMMA RunesAreTotal ==
  ASSUME NEW page, NEW S, IsFiniteSet(S)
  PROVE  RunesOf(page, S) = Total(RunesOfNodes(page), S)
<1> DEFINE Table(g) == [s \in SUBSET S |->
                          IF s = {} THEN 0
                          ELSE page[CHOOSE x \in s : TRUE].runes + g[s \ {CHOOSE x \in s : TRUE}]]
           table == CHOOSE g : g = Table(g)
<1>1. RunesOf(page, S) = table[S]
  BY DEF RunesOf, MapThenSumSet, MapThenFoldSet
<1>2. ASSUME NEW g PROVE SumTable(RunesOfNodes(page), S, g) <=> g = Table(g)
  <2>1. \A x : Addend(RunesOfNodes(page), x) = page[x].runes
    BY DEF Addend, RunesOfNodes
  <2> QED BY <2>1 DEF SumTable, OneOf
<1>3. \E g : SumTable(RunesOfNodes(page), S, g)
  BY SumTableExists
<1>4. \E g : g = Table(g)
  <2> HIDE DEF Table
  <2> QED BY <1>2, <1>3
<1>5. table = Table(table)
  <2> HIDE DEF Table
  <2> QED BY <1>4
<1>6. SumTable(RunesOfNodes(page), S, table)
  <2> HIDE DEF Table, table
  <2> QED BY <1>2, <1>5
<1>7. S \in SUBSET S
  OBVIOUS
<1> HIDE DEF table
<1> QED BY <1>1, <1>6, <1>7, TotalFromTable

LEMMA ElementsAreTotal ==
  ASSUME NEW S, IsFiniteSet(S)
  PROVE  MapThenSumSet(RunesIn, S) = Total(RunesOfElements, S)
<1> DEFINE Table(g) == [s \in SUBSET S |->
                          IF s = {} THEN 0
                          ELSE RunesIn(CHOOSE x \in s : TRUE) + g[s \ {CHOOSE x \in s : TRUE}]]
           table == CHOOSE g : g = Table(g)
<1>1. MapThenSumSet(RunesIn, S) = table[S]
  BY DEF MapThenSumSet, MapThenFoldSet
<1>2. ASSUME NEW g PROVE SumTable(RunesOfElements, S, g) <=> g = Table(g)
  <2>1. \A x : Addend(RunesOfElements, x) = RunesIn(x)
    BY DEF Addend, RunesOfElements
  <2> QED BY <2>1 DEF SumTable, OneOf
<1>3. \E g : SumTable(RunesOfElements, S, g)
  BY SumTableExists
<1>4. \E g : g = Table(g)
  <2> HIDE DEF Table
  <2> QED BY <1>2, <1>3
<1>5. table = Table(table)
  <2> HIDE DEF Table
  <2> QED BY <1>4
<1>6. SumTable(RunesOfElements, S, table)
  <2> HIDE DEF Table, table
  <2> QED BY <1>2, <1>5
<1>7. S \in SUBSET S
  OBVIOUS
<1> HIDE DEF table
<1> QED BY <1>1, <1>6, <1>7, TotalFromTable

-----------------------------------------------------------------------------
(* The best block of a page.                                                 *)

\* Any tag.  (The provers do not know that a literal is a string, so those of the
\* run's pages are named.)
Tags == STRING \union {"p", "div", "section", "form", "a", "script", "text"}
Nodes == [name : Nat \ {0}, tag : Tags, depth : Nat, runes : Nat]

LEMMA PlacesAreFinite ==
  ASSUME NEW S, NEW seq \in Seq(S), NEW T \in SUBSET DOMAIN seq
  PROVE  IsFiniteSet(T) /\ T \in SUBSET Nat /\ T \in SUBSET (1..Len(seq)) /\ DOMAIN seq = 1..Len(seq)
<1>1. Len(seq) \in Nat /\ DOMAIN seq = 1..Len(seq)
  BY LenProperties
<1>2. IsFiniteSet(1..Len(seq)) /\ 1..Len(seq) \in SUBSET Nat
  BY <1>1, IntervalIs
<1> QED BY <1>1, <1>2, FS_Subset

LEMMA NodeIs ==
  ASSUME NEW page \in Seq(Nodes), NEW i \in DOMAIN page
  PROVE  page[i] \in Nodes
<1> QED BY ElementOfSeq, LenProperties

LEMMA RunesAreNatural ==
  ASSUME NEW page \in Seq(Nodes), NEW S \in SUBSET DOMAIN page
  PROVE  RunesOf(page, S) \in Nat
<1>1. IsFiniteSet(S)
  BY PlacesAreFinite
<1>2. \A i \in S : Addend(RunesOfNodes(page), i) \in Nat
  <2>1. \A i \in S : page[i].runes \in Nat
    BY NodeIs DEF Nodes
  <2> QED BY <2>1 DEF Addend, RunesOfNodes
<1> QED BY <1>1, <1>2, RunesAreTotal, TotalIsNatural

LEMMA ScoresAreIntegers ==
  ASSUME NEW page \in Seq(Nodes), NEW i \in DOMAIN page
  PROVE  CountText(page, i) \in Nat /\ Score(page, i) \in Int
<1>1. CountText(page, i) \in Nat
  <2>1. TextNodes(page, i) \in SUBSET DOMAIN page
    BY DEF TextNodes, Subtree
  <2> QED BY <2>1, RunesAreNatural DEF CountText
<1>2. CountLinkText(page, i) \in Nat
  <2>1. \A j : TextNodes(page, j) \in SUBSET DOMAIN page
    BY DEF TextNodes, Subtree
  <2>2. UNION {TextNodes(page, j) : j \in {k \in Subtree(page, i) : page[k].tag = "a"}} \in SUBSET DOMAIN page
    BY <2>1
  <2> QED BY <2>2, RunesAreNatural DEF CountLinkText
<1>3. Weight(page[i].tag) \in {15, 3, 10}
  BY DEF Weight
<1>4. CountText(page, i) - CountLinkText(page, i) \in Int /\ Weight(page[i].tag) \in Int
  BY <1>1, <1>2, <1>3
<1> HIDE DEF Weight
<1>5. Score(page, i) \in Int
  BY <1>4 DEF Score
<1> QED BY <1>1, <1>5

\* A set in some order: every element has its place.
LEMMA OrdersOfSet ==
  ASSUME NEW S, IsFiniteSet(S), NEW order \in SetToSeqs(S)
  PROVE  /\ Cardinality(S) \in Nat /\ order \in [1..Cardinality(S) -> S]
         /\ \A x \in S : \E m \in 1..Cardinality(S) : order[m] = x
<1> DEFINE n == Cardinality(S)
<1>1. n \in Nat
  BY FS_CardinalityType
<1>2. order \in [1..n -> S] /\ \A p, q \in 1..n : p # q => order[p] # order[q]
  BY DEF SetToSeqs
<1>3. IsFiniteSet(1..n) /\ Cardinality(1..n) = n
  BY <1>1, IntervalIs
<1> DEFINE D == 1..n
<1>4. order \in [D -> S] /\ \A p, q \in D : order[p] = order[q] => p = q
  BY <1>2
<1>5. order \in Surjection(D, S)
  <2>1. IsFiniteSet(D) /\ Cardinality(D) = Cardinality(S)
    BY <1>3
  <2> HIDE DEF D
  <2>2. order \in Injection(D, S)
    BY <1>4, Fun_IsInj
  <2> QED BY <2>1, <2>2, FS_Injection
<1>6. \A x \in S : \E m \in D : order[m] = x
  <2> HIDE DEF D
  <2> QED BY <1>5, Fun_SurjectionProperties
<1> QED BY <1>1, <1>2, <1>6

LEMMA MinIsLeast ==
  ASSUME NEW T \in SUBSET Nat, T # {}
  PROVE  Min(T) \in T /\ \A n \in T : Min(T) <= n
<1>1. \E n \in T : \A m \in T : n <= m
  BY LeastNatural
<1> QED BY <1>1 DEF Min

\* Of every page and for every threshold, the block that is chosen has the
\* highest score among those with half the text that is wanted, and no such
\* block is passed over for the root, whatever order sort.Slice leaves
\* (semantic/score.go:38).
THEOREM BestBlocksAreBest ==
  ASSUME NEW page \in Seq(Nodes), NEW charThreshold \in Nat
  PROVE  BestBlockIsBest(page, charThreshold)
<1> DEFINE Half == charThreshold \div 2
           Enough(i) == CountText(page, i) >= Half
           IsBest(best) ==
             IF best = 0 THEN \A i \in Blocks(page) : ~ Enough(i)
             ELSE /\ best \in Blocks(page) /\ Enough(best)
                  /\ \A i \in Blocks(page) : Enough(i) => Score(page, i) <= Score(page, best)
<1>1. SUFFICES ASSUME NEW order \in ScoreBlocks(page)
               PROVE  IsBest(BestBlock(page, order, charThreshold))
  BY DEF BestBlockIsBest
<1> DEFINE n == Cardinality(Blocks(page))
           loose == {m \in DOMAIN order : Enough(order[m])}
<1>2. Half \in Nat /\ Half <= charThreshold
  OBVIOUS
<1>3. IsFiniteSet(Blocks(page)) /\ Blocks(page) \in SUBSET DOMAIN page /\ Blocks(page) \in SUBSET (Nat \ {0})
  <2>1. Blocks(page) \in SUBSET DOMAIN page
    BY DEF Blocks
  <2>2. Len(page) \in Nat
    BY LenProperties
  <2> QED BY <2>1, <2>2, PlacesAreFinite
<1>4. /\ n \in Nat /\ order \in [1..n -> Blocks(page)]
      /\ \A i \in Blocks(page) : \E m \in 1..n : order[m] = i
  BY <1>3, OrdersOfSet DEF ScoreBlocks
<1>5. \A p, q \in 1..n : p < q => Score(page, order[p]) >= Score(page, order[q])
  BY <1>4 DEF ScoreBlocks
<1>6. \A i \in Blocks(page) : CountText(page, i) \in Nat /\ Score(page, i) \in Int /\ i # 0
  BY <1>3, ScoresAreIntegers
<1>7. ASSUME NEW m \in 1..n, Enough(order[m]), \A p \in 1..n : Enough(order[p]) => m <= p
      PROVE  IsBest(order[m])
  <2>1. order[m] \in Blocks(page)
    BY <1>4
  <2>2. ASSUME NEW i \in Blocks(page), Enough(i) PROVE Score(page, i) <= Score(page, order[m])
    <3>1. PICK p \in 1..n : order[p] = i
      BY <1>4
    <3>2. m <= p /\ m \in Int /\ p \in Int
      BY <1>7, <2>2, <3>1
    <3>3. CASE m = p
      BY <1>6, <2>1, <3>1, <3>3
    <3>4. CASE m < p
      <4>1. Score(page, order[m]) >= Score(page, i)
        BY <1>5, <3>1, <3>4
      <4> QED BY <1>6, <2>1, <4>1
    <3> QED BY <3>2, <3>3, <3>4
  <2> QED BY <1>6, <1>7, <2>1, <2>2
<1>8. order # << >> <=> n # 0
  <2>1. DOMAIN order = 1..n
    BY <1>4
  <2>2. CASE n = 0
    BY <1>4, <2>1, <2>2
  <2>3. CASE n # 0
    BY <1>4, <2>1, <2>3
  <2> QED BY <2>2, <2>3
<1>9. CASE order # << >> /\ CountText(page, order[1]) >= charThreshold
  <2>1. 1 \in 1..n /\ order[1] \in Blocks(page) /\ \A p \in 1..n : 1 <= p
    BY <1>4, <1>8, <1>9
  <2>2. Enough(order[1])
    BY <1>2, <1>6, <1>9, <2>1
  <2>3. BestBlock(page, order, charThreshold) = order[1]
    BY <1>9 DEF BestBlock
  <2> HIDE DEF IsBest, Enough
  <2> QED BY <1>7, <2>1, <2>2, <2>3
<1>10. CASE ~ (order # << >> /\ CountText(page, order[1]) >= charThreshold)
  <2>1. BestBlock(page, order, charThreshold) = IF loose = {} THEN 0 ELSE order[Min(loose)]
    BY <1>10 DEF BestBlock
  <2>2. CASE loose = {}
    <3>1. \A i \in Blocks(page) : ~ Enough(i)
      BY <1>4, <2>2
    <3> QED BY <2>1, <2>2, <3>1
  <2>3. CASE loose # {}
    <3>1. loose \in SUBSET Nat /\ \A m \in loose : m \in 1..n /\ Enough(order[m])
      BY <1>4
    <3>2. Min(loose) \in loose /\ \A m \in loose : Min(loose) <= m
      <4> HIDE DEF loose
      <4> QED BY <2>3, <3>1, MinIsLeast
    <3>3. \A p \in 1..n : Enough(order[p]) => p \in loose
      BY <1>4
    <3> HIDE DEF IsBest, Enough, loose
    <3>4. IsBest(order[Min(loose)])
      BY <1>7, <3>1, <3>2, <3>3
    <3> QED BY <2>1, <2>3, <3>4
  <2> QED BY <2>2, <2>3
<1> QED BY <1>9, <1>10

-----------------------------------------------------------------------------
(* The text of an element, and what the budget leaves of it.                 *)

NodesNamed(R) == [name : R, tag : Tags, depth : Nat, runes : Nat]

\* collectText takes one text after the other.
LEMMA TextsAreFolded ==
  ASSUME NEW S, NEW seq \in Seq(S)
  PROVE  FoldLeft(CollectText, [text |-> << >>, remaining |-> MaxTextRunes], seq) = Folded(OfTexts, seq)
<1> DEFINE D == 1..Len(seq)
           none == [text |-> << >>, remaining |-> MaxTextRunes]
           Table(g) == [s \in SUBSET D |->
                          IF s = {} THEN none ELSE CollectText(g[s \ {Max(s)}], seq[Max(s)])]
           table == CHOOSE g : g = Table(g)
<1>1. DOMAIN seq = D /\ Len(seq) \in Nat
  BY LenProperties
<1>2. FoldLeft(CollectText, none, seq) = table[D]
  BY <1>1 DEF FoldLeft, MapThenFoldSet
<1>3. ASSUME NEW g PROVE FoldTable(OfTexts, seq, D, g) <=> g = Table(g)
  <2>1. Start(OfTexts) = none /\ \A state, node : Step(OfTexts, state, node) = CollectText(state, node)
    BY DEF Start, Step, OfTexts
  <2> QED BY <2>1 DEF FoldTable
<1>4. \E g : FoldTable(OfTexts, seq, D, g)
  BY <1>1, FoldTableExists
<1>5. \E g : g = Table(g)
  <2> HIDE DEF Table
  <2> QED BY <1>3, <1>4
<1>6. table = Table(table)
  <2> HIDE DEF Table
  <2> QED BY <1>5
<1>7. FoldTable(OfTexts, seq, D, table)
  <2> HIDE DEF Table, table
  <2> QED BY <1>3, <1>6
<1> HIDE DEF table
<1> QED BY <1>2, <1>7, FoldedFromTable

Collecting(R, state) ==
  /\ state.text \in Seq(R \union {Space})
  /\ state.remaining \in Nat

LEMMA CollectsText ==
  ASSUME NEW R, NEW state, Collecting(R, state), NEW node \in NodesNamed(R)
  PROVE  Collecting(R, CollectText(state, node))
<1> DEFINE kept == IF node.runes > state.remaining THEN state.remaining ELSE node.runes
           space == IF kept = node.runes THEN <<Space>> ELSE << >>
           runes == [n \in 1..kept |-> node.name]
           more == [text |-> state.text \o runes \o space, remaining |-> state.remaining - kept]
           T == R \union {Space}
<1>1. node.runes \in Nat /\ node.name \in R
  BY DEF NodesNamed
<1>2. kept \in Nat /\ kept <= state.remaining
  BY <1>1 DEF Collecting
<1>3. runes \in Seq(T)
  <2> HIDE DEF kept
  <2>1. runes \in [1..kept -> T]
    BY <1>1
  <2> HIDE DEF T
  <2> QED BY <1>2, <2>1, IsASeq
<1>4. space \in Seq(T)
  <2>1. Space \in T
    OBVIOUS
  <2> HIDE DEF kept, T
  <2>2. <<Space>> \in Seq(T) /\ << >> \in Seq(T)
    BY <2>1
  <2> QED BY <2>2
<1>5. Collecting(R, more)
  <2>1. state.text \in Seq(T) /\ state.remaining \in Nat
    BY DEF Collecting
  <2>2. state.text \o runes \o space \in Seq(T)
    <3> HIDE DEF T, runes, space
    <3> QED BY <1>3, <1>4, <2>1, ConcatProperties
  <2>3. state.remaining - kept \in Nat
    BY <1>2, <2>1
  <2> HIDE DEF kept, runes, space
  <2> QED BY <2>2, <2>3 DEF Collecting
<1>6. CollectText(state, node) = IF state.remaining = 0 THEN state ELSE more
  BY DEF CollectText
<1> QED BY <1>5, <1>6

LEMMA TextsAreCollected ==
  ASSUME NEW R, NEW seq \in Seq(NodesNamed(R))
  PROVE  Collecting(R, Folded(OfTexts, seq))
<1> DEFINE C == NodesNamed(R)
           bad == {n \in Nat : \E s \in Seq(C) : Len(s) = n /\ ~ Collecting(R, Folded(OfTexts, s))}
<1>1. SUFFICES ASSUME bad # {} PROVE FALSE
  <2>1. Len(seq) \in Nat
    <3> HIDE DEF C
    <3> QED BY LenProperties
  <2> QED BY <2>1
<1>2. PICK n \in bad : \A k \in bad : n <= k
  <2>1. bad \in SUBSET Nat
    OBVIOUS
  <2> HIDE DEF bad
  <2> QED BY <1>1, <2>1, LeastNatural
<1>3. PICK s \in Seq(C) : Len(s) = n /\ ~ Collecting(R, Folded(OfTexts, s))
  BY <1>2
<1>4. s # << >>
  <2>1. Folded(OfTexts, << >>) = [text |-> << >>, remaining |-> MaxTextRunes]
    <3>1. Start(OfTexts) = [text |-> << >>, remaining |-> MaxTextRunes]
      BY DEF Start, OfTexts
    <3> QED BY <3>1, FoldedEmpty
  <2>2. << >> \in Seq(R \union {Space})
    BY EmptySeq
  <2>3. Collecting(R, [text |-> << >>, remaining |-> MaxTextRunes])
    BY <2>2, AgentDOMAssumption DEF Collecting
  <2> QED BY <1>3, <2>1, <2>3
<1> HIDE DEF C
<1>5. PICK t \in Seq(C), c \in C : s = Append(t, c)
  BY <1>4, SequenceEmptyOrAppend
<1>6. Len(t) \in Nat /\ Len(s) = Len(t) + 1
  BY <1>5, AppendProperties, LenProperties
<1>7. Collecting(R, Folded(OfTexts, t))
  <2>1. Len(t) \notin bad
    BY <1>2, <1>3, <1>6
  <2> QED BY <1>6, <2>1
<1>8. Folded(OfTexts, s) = CollectText(Folded(OfTexts, t), c)
  <2>1. \A state, node : Step(OfTexts, state, node) = CollectText(state, node)
    BY DEF Step, OfTexts
  <2> QED BY <1>5, <2>1, FoldedAppend
<1> QED BY <1>3, <1>7, <1>8, CollectsText DEF C

LEMMA TextIsOfPage ==
  ASSUME NEW R, NEW page \in Seq(NodesNamed(R)), NEW i
  PROVE  ExtractText(page, i) \in Seq(R \union {Space})
<1> DEFINE nodes == Selected(page, TextNodes(page, i))
           text == Folded(OfTexts, nodes).text
           C == NodesNamed(R)
<1>1. nodes \in Seq(C)
  <2>1. TextNodes(page, i) \in SUBSET (1..Len(page))
    <3>1. DOMAIN page = 1..Len(page)
      BY LenProperties
    <3> QED BY <3>1 DEF TextNodes, Subtree
  <2>2. page \in Seq(C)
    OBVIOUS
  <2> HIDE DEF C
  <2> QED BY <2>1, <2>2, SelectedPlaces
<1>2. text \in Seq(R \union {Space})
  <2> HIDE DEF nodes
  <2> QED BY <1>1, TextsAreCollected DEF Collecting
<1>3. ExtractText(page, i) = Trim(text)
  <2> HIDE DEF C
  <2> QED BY <1>1, TextsAreFolded DEF ExtractText
<1> HIDE DEF text
<1>4. Len(text) \in Nat
  BY <1>2, LenProperties
<1>5. CASE text = << >>
  BY <1>2, <1>3, <1>5 DEF Trim
<1>6. CASE text # << >>
  <2>1. Len(text) - 1 \in Nat /\ Len(text) - 1 <= Len(text)
    BY <1>2, <1>4, <1>6, EmptySeq
  <2>2. Front(text) \in Seq(R \union {Space})
    BY <1>2, <2>1, SubSeqProperties DEF Front
  <2> QED BY <1>2, <1>3, <2>2 DEF Trim
<1> QED BY <1>5, <1>6


\* What consumeChars gives of a text, and what is left of the budget.
Builders(E) ==
  [counter : Nat, elements : Seq(E), interactive : Seq(E),
   maxChars : Nat, charsSeen : Nat, truncated : BOOLEAN]

KeepsBudget(R, b, text, el, b2) ==
  /\ b2.counter = b.counter /\ b2.elements = b.elements
  /\ b2.interactive = b.interactive /\ b2.maxChars = b.maxChars
  /\ el.text \in Seq(R \union {Space, Ellipsis})
  /\ RunesIn(el) \in Nat
  /\ b.maxChars = 0 => ~ IsCut(el)
  /\ b.maxChars # 0 =>
       /\ b2.charsSeen = b.charsSeen + RunesIn(el)
       /\ b2.charsSeen <= b.maxChars
       /\ IsCut(el) => b.charsSeen < b.maxChars /\ b2.charsSeen = b.maxChars

LEMMA BudgetIsKept ==
  ASSUME NEW R \in SUBSET (Nat \ {0}), NEW E, NEW b \in Builders(E),
         b.maxChars # 0 => b.charsSeen <= b.maxChars,
         NEW text \in Seq(R \union {Space}), NEW el, el.text = Consumed(b, text)
  PROVE  /\ Consume(b, text) \in Builders(E)
         /\ KeepsBudget(R, b, text, el, Consume(b, text))
<1> DEFINE remaining == b.maxChars - b.charsSeen
           W == R \union {Space}
           T == R \union {Space, Ellipsis}
<1>1. /\ \A seen \in Nat : [b EXCEPT !.charsSeen = seen] \in Builders(E)
      /\ \A seen \in Nat : [b EXCEPT !.truncated = TRUE, !.charsSeen = seen] \in Builders(E)
  BY DEF Builders
<1>2. b.maxChars \in Nat /\ b.charsSeen \in Nat /\ Len(text) \in Nat
  BY LenProperties DEF Builders
<1>3. b.maxChars # 0 => remaining \in Nat /\ b.maxChars = b.charsSeen + remaining
  BY <1>2
<1>4. W \in SUBSET T /\ Ellipsis \notin W
  <2>2. Ellipsis \notin R /\ Ellipsis # Space
    BY DEF Ellipsis, Space
  <2> QED BY <2>2
<1>5. ASSUME NEW s \in Seq(W) PROVE s \in Seq(T) /\ Range(s) \in SUBSET W /\ Ellipsis \notin Range(s)
  <2> HIDE DEF W, T
  <2>1. s \in Seq(T)
    BY <1>4, <1>5, SeqMonotonic
  <2>2. Range(s) \in SUBSET W
    BY <1>5, RangeOfSeq
  <2> QED BY <1>4, <2>1, <2>2
<1>6. CASE b.maxChars = 0 \/ Len(text) <= remaining
  <2>1. el.text = text
    BY <1>6 DEF Consumed
  <2>2. text \in Seq(T) /\ Ellipsis \notin Range(text)
    BY <1>5
  <2>3. ~ IsCut(el) /\ RunesIn(el) = Len(text)
    BY <1>2, <2>1, <2>2 DEF IsCut, RunesIn
  <2>4. CASE b.maxChars = 0
    <3>1. Consume(b, text) = b
      BY <2>4 DEF Consume
    <3> QED BY <1>2, <2>1, <2>2, <2>3, <2>4, <3>1 DEF KeepsBudget
  <2>5. CASE b.maxChars # 0
    <3>1. ~ Len(text) > remaining
      BY <1>6, <1>2, <1>3, <2>5
    <3>2. Consume(b, text) = [b EXCEPT !.charsSeen = b.charsSeen + Len(text)]
      BY <2>5, <3>1 DEF Consume
    <3>3. b.charsSeen + Len(text) \in Nat /\ b.charsSeen + Len(text) <= b.maxChars
      BY <1>6, <1>2, <1>3, <2>5
    <3>4. /\ Consume(b, text).counter = b.counter /\ Consume(b, text).elements = b.elements
          /\ Consume(b, text).interactive = b.interactive /\ Consume(b, text).maxChars = b.maxChars
          /\ Consume(b, text).charsSeen = b.charsSeen + Len(text)
      BY <3>2 DEF Builders
    <3>5. Consume(b, text) \in Builders(E)
      BY <1>1, <3>2, <3>3
    <3> HIDE DEF remaining
    <3> QED BY <1>2, <2>1, <2>2, <2>3, <2>5, <3>3, <3>4, <3>5 DEF KeepsBudget
  <2> QED BY <2>4, <2>5
<1>7. CASE ~ (b.maxChars = 0 \/ Len(text) <= remaining)
  <2>1. remaining \in Nat /\ Len(text) > remaining /\ b.maxChars # 0
    BY <1>7, <1>2, <1>3
  <2>2. Consume(b, text) = [b EXCEPT !.truncated = TRUE, !.charsSeen = b.maxChars]
    BY <1>7, <2>1 DEF Consume
  <2>3. /\ Consume(b, text).counter = b.counter /\ Consume(b, text).elements = b.elements
        /\ Consume(b, text).interactive = b.interactive /\ Consume(b, text).maxChars = b.maxChars
        /\ Consume(b, text).charsSeen = b.maxChars
    BY <2>2 DEF Builders
  <2>4. Consume(b, text) \in Builders(E)
    BY <1>1, <1>2, <2>2
  <2>5. CASE remaining = 0
    <3>1. el.text = << >>
      BY <1>7, <2>5 DEF Consumed
    <3>2. << >> \in Seq(W)
      BY EmptySeq
    <3>3. Ellipsis \notin Range(<< >>) /\ << >> \in Seq(T)
      <4> HIDE DEF T, W
      <4> QED BY <1>5, <3>2
    <3>4. ~ IsCut(el) /\ RunesIn(el) = 0
      BY <3>1, <3>3, EmptySeq DEF IsCut, RunesIn
    <3>5. b.maxChars = b.charsSeen
      BY <1>2, <1>3, <2>1, <2>5
    <3> HIDE DEF remaining
    <3> QED BY <1>2, <2>1, <2>3, <2>4, <3>1, <3>3, <3>4, <3>5 DEF KeepsBudget
  <2>6. CASE remaining # 0
    <3> DEFINE kept == SubSeq(text, 1, remaining)
    <3>1. el.text = Append(kept, Ellipsis)
      BY <1>7, <2>6 DEF Consumed
    <3>2. kept \in Seq(W) /\ Len(kept) = remaining
      <4>1. text \in Seq(W)
        OBVIOUS
      <4>2. remaining <= Len(text)
        BY <1>2, <2>1
      <4> HIDE DEF W, remaining
      <4> QED BY <2>1, <4>1, <4>2, SubSeqProperties
    <3> HIDE DEF kept, remaining
    <3>3. kept \in Seq(T)
      BY <1>5, <3>2
    <3>4. Ellipsis \in T
      OBVIOUS
    <3> HIDE DEF T
    <3>5. /\ Append(kept, Ellipsis) \in Seq(T) /\ Len(Append(kept, Ellipsis)) = Len(kept) + 1
          /\ Append(kept, Ellipsis)[Len(kept) + 1] = Ellipsis
      BY <3>3, <3>4, AppendProperties
    <3>6. IsCut(el)
      <4>1. Len(kept) + 1 \in DOMAIN Append(kept, Ellipsis)
        BY <2>1, <3>2, <3>5, LenProperties
      <4> QED BY <3>1, <3>5, <4>1 DEF IsCut, Range
    <3>7. RunesIn(el) = remaining
      BY <2>1, <3>1, <3>2, <3>5, <3>6 DEF RunesIn
    <3>8. b.maxChars = b.charsSeen + remaining /\ b.charsSeen < b.maxChars
      BY <1>2, <1>3, <2>1, <2>6
    <3> QED BY <1>2, <2>1, <2>3, <2>4, <3>1, <3>5, <3>6, <3>7, <3>8 DEF T, KeepsBudget
  <2> QED BY <2>5, <2>6
<1> QED BY <1>6, <1>7

-----------------------------------------------------------------------------
(* The builder's accounts of the elements it has made: their ids and lists,  *)
(* and the runes of their texts.                                             *)

LEMMA RangeOfAppend ==
  ASSUME NEW S, NEW seq \in Seq(S), NEW x \in S
  PROVE  Range(Append(seq, x)) = Range(seq) \union {x}
<1> DEFINE longer == Append(seq, x)
           n == Len(seq)
<1>1. /\ n \in Nat /\ longer \in Seq(S) /\ Len(longer) = n + 1
      /\ longer[n + 1] = x /\ \A i \in 1..n : longer[i] = seq[i]
  BY AppendProperties, LenProperties
<1> HIDE DEF longer
<1>2. /\ Range(longer) = {longer[i] : i \in 1..(n + 1)}
      /\ Range(seq) = {seq[i] : i \in 1..n}
  BY <1>1, RangeEquality
<1>3. 1..(n + 1) = (1..n) \union {n + 1}
  BY <1>1
<1> HIDE DEF n
<1>4. Range(longer) = Range(seq) \union {x}
  BY <1>1, <1>2, <1>3
<1> QED BY <1>4 DEF longer

Numbered(b, E, open) ==
  /\ open \in SUBSET E
  /\ \A el \in E : el.id \in 0..b.counter
  /\ \A n \in 1..b.counter : \E el \in E : el.id = n
  /\ Range(b.interactive) = {el \in E \ open : el.id # 0}
  /\ Len(b.interactive) = IF open = {} THEN b.counter ELSE b.counter - 1

Listed(b, el, b2) ==
  /\ b2.counter = b.counter /\ b2.elements = b.elements
  /\ b2.maxChars = b.maxChars /\ b2.charsSeen = b.charsSeen /\ b2.truncated = b.truncated
  /\ el.id = 0 => b2 = b
  /\ el.id # 0 => /\ Range(b2.interactive) = Range(b.interactive) \union {el}
                  /\ Len(b2.interactive) = Len(b.interactive) + 1

LEMMA ListAdds ==
  ASSUME NEW E, NEW b \in Builders(E), NEW el \in E
  PROVE  List(b, el) \in Builders(E) /\ Listed(b, el, List(b, el))
<1>1. CASE el.id = 0
  BY <1>1 DEF List, Listed
<1>2. CASE el.id # 0
  <2> DEFINE longer == Append(b.interactive, el)
  <2>1. b.interactive \in Seq(E)
    BY DEF Builders
  <2>2. longer \in Seq(E) /\ Len(longer) = Len(b.interactive) + 1
    BY <2>1, AppendProperties
  <2>3. Range(longer) = Range(b.interactive) \union {el}
    BY <2>1, RangeOfAppend
  <2>4. List(b, el) = [b EXCEPT !.interactive = longer]
    BY <1>2 DEF List
  <2> HIDE DEF longer
  <2> QED BY <1>2, <2>2, <2>3, <2>4 DEF Builders, Listed
<1> QED BY <1>1, <1>2

\* An element with the next id, or without one, and what lists it.
LEMMA Counts ==
  ASSUME NEW E, NEW b \in Builders(E), NEW open, Numbered(b, E, open),
         NEW counts \in BOOLEAN, NEW el, el \notin E,
         el.id = IF counts THEN b.counter + 1 ELSE 0,
         NEW b2 \in Builders(E \union {el}), b2.counter = b.counter + (IF counts THEN 1 ELSE 0),
         b2.interactive = b.interactive
  PROVE  /\ counts /\ open = {} => Numbered(b2, E \union {el}, {el})
         /\ Numbered(List(b2, el), E \union {el}, open)
<1> DEFINE F == E \union {el}
           b3 == List(b2, el)
<1>1. b.counter \in Nat /\ b2.counter \in Nat /\ b2 \in Builders(F) /\ el \in F
  BY DEF Builders
<1>2. /\ \A x \in F : x.id \in 0..b2.counter
      /\ \A n \in 1..b2.counter : \E x \in F : x.id = n
  <2>1. ASSUME NEW x \in F PROVE x.id \in 0..b2.counter
    <3>1. CASE x \in E
      <4>1. x.id \in 0..b.counter
        BY <3>1 DEF Numbered
      <4> QED BY <1>1, <4>1
    <3>2. CASE x = el
      BY <1>1, <3>2
    <3> QED BY <3>1, <3>2
  <2>2. ASSUME NEW n \in 1..b2.counter PROVE \E x \in F : x.id = n
    <3>1. CASE n \in 1..b.counter
      BY <3>1 DEF Numbered
    <3>2. CASE n \notin 1..b.counter
      <4>1. counts /\ n = b.counter + 1
        BY <1>1, <2>2, <3>2
      <4> QED BY <4>1
    <3> QED BY <3>1, <3>2
  <2> QED BY <2>1, <2>2
<1>3. /\ Range(b.interactive) = {x \in E \ open : x.id # 0} /\ open \in SUBSET E
      /\ Len(b.interactive) = IF open = {} THEN b.counter ELSE b.counter - 1
  BY DEF Numbered
<1>4. ASSUME counts, open = {} PROVE Numbered(b2, F, {el})
  <2>1. F \ {el} = E
    OBVIOUS
  <2>2. Range(b2.interactive) = {x \in F \ {el} : x.id # 0}
    <3> HIDE DEF F
    <3> QED BY <1>3, <1>4, <2>1
  <2>3. Len(b2.interactive) = b2.counter - 1
    BY <1>1, <1>3, <1>4
  <2>4. {el} \in SUBSET F /\ {el} # {}
    OBVIOUS
  <2> HIDE DEF F
  <2> QED BY <1>2, <2>2, <2>3, <2>4 DEF Numbered
<1>5. Numbered(b3, F, open)
  <2>1. /\ b3.counter = b2.counter
        /\ el.id = 0 => b3 = b2
        /\ el.id # 0 => /\ Range(b3.interactive) = Range(b2.interactive) \union {el}
                        /\ Len(b3.interactive) = Len(b2.interactive) + 1
    <3>1. b2 \in Builders(F) /\ el \in F
      BY <1>1
    <3> HIDE DEF F
    <3>2. Listed(b2, el, List(b2, el))
      BY <3>1, ListAdds
    <3> QED BY <3>2 DEF Listed
  <2>2. open \in SUBSET F
    BY <1>3
  <2>3. CASE counts
    <3>1. el.id # 0
      BY <1>1, <2>3
    <3>2. Range(b3.interactive) = {x \in F \ open : x.id # 0}
      BY <1>3, <2>1, <3>1
    <3>3. Len(b3.interactive) = IF open = {} THEN b3.counter ELSE b3.counter - 1
      BY <1>1, <1>3, <2>1, <2>3, <3>1
    <3> HIDE DEF F, b3
    <3> QED BY <1>2, <2>1, <2>2, <3>2, <3>3 DEF Numbered
  <2>4. CASE ~ counts
    <3>1. el.id = 0 /\ b3 = b2
      BY <2>1, <2>4
    <3>2. Range(b3.interactive) = {x \in F \ open : x.id # 0}
      BY <1>3, <3>1
    <3>3. Len(b3.interactive) = IF open = {} THEN b3.counter ELSE b3.counter - 1
      BY <1>1, <1>3, <2>4, <3>1
    <3> HIDE DEF F, b3
    <3> QED BY <1>2, <2>1, <2>2, <3>2, <3>3 DEF Numbered
  <2> QED BY <2>3, <2>4
<1> QED BY <1>4, <1>5

LEMMA ListsForm ==
  ASSUME NEW E, NEW b \in Builders(E), NEW el \in E, el.id # 0, Numbered(b, E, {el})
  PROVE  Numbered(List(b, el), E, {})
<1>1. /\ b.counter \in Nat /\ List(b, el).counter = b.counter
      /\ Range(List(b, el).interactive) = Range(b.interactive) \union {el}
      /\ Len(List(b, el).interactive) = Len(b.interactive) + 1
  <2>1. b.counter \in Nat
    BY DEF Builders
  <2>2. Listed(b, el, List(b, el))
    BY ListAdds
  <2> QED BY <2>1, <2>2 DEF Listed
<1>2. /\ Range(b.interactive) = {x \in E \ {el} : x.id # 0}
      /\ Len(b.interactive) = b.counter - 1
  BY DEF Numbered
<1>3. Range(List(b, el).interactive) = {x \in E \ {} : x.id # 0}
  BY <1>1, <1>2
<1>4. Len(List(b, el).interactive) = b.counter
  BY <1>1, <1>2
<1> QED BY <1>1, <1>3, <1>4 DEF Numbered

Fine(R, el) ==
  /\ el.node \in R
  /\ el.text \in Seq(R \union {Space, Ellipsis})
  /\ RunesIn(el) \in Nat

Spent(R, b, E) ==
  /\ IsFiniteSet(E)
  /\ \A el \in E : Fine(R, el)
  /\ b.maxChars = 0 => \A el \in E : ~ IsCut(el)
  /\ b.maxChars # 0 =>
       /\ b.charsSeen <= b.maxChars
       /\ b.charsSeen = Total(RunesOfElements, E)
       /\ \A el \in E : IsCut(el) => /\ b.charsSeen = b.maxChars
                                     /\ \A other \in E : IsCut(other) => other = el

\* An element with what is left of a text by the budget.
LEMMA Spends ==
  ASSUME NEW R \in SUBSET (Nat \ {0}), NEW E, NEW b \in Builders(E), Spent(R, b, E),
         NEW text \in Seq(R \union {Space}), NEW el, el \notin E,
         el.node \in R, el.text = Consumed(b, text),
         NEW b2, b2.maxChars = b.maxChars, b2.charsSeen = Consume(b, text).charsSeen
  PROVE  Spent(R, b2, E \union {el})
<1> DEFINE F == E \union {el}
<1>1. b.maxChars # 0 => b.charsSeen <= b.maxChars
  BY DEF Spent
<1>2. /\ el.text \in Seq(R \union {Space, Ellipsis})
      /\ RunesIn(el) \in Nat
      /\ b.maxChars = 0 => ~ IsCut(el)
      /\ b.maxChars # 0 =>
           /\ b2.charsSeen = b.charsSeen + RunesIn(el)
           /\ b2.charsSeen <= b.maxChars
           /\ IsCut(el) => b.charsSeen < b.maxChars /\ b2.charsSeen = b.maxChars
  <2>1. KeepsBudget(R, b, text, el, Consume(b, text))
    BY <1>1, BudgetIsKept
  <2> QED BY <2>1 DEF KeepsBudget
<1>3. b.maxChars \in Nat /\ b.charsSeen \in Nat
  BY DEF Builders
<1>4. IsFiniteSet(F) /\ \A x \in F : Fine(R, x)
  BY <1>2, FS_AddElement DEF Spent, Fine
<1>5. CASE b.maxChars = 0
  BY <1>2, <1>4, <1>5 DEF Spent
<1>6. CASE b.maxChars # 0
  <2>1. Total(RunesOfElements, F) = RunesIn(el) + Total(RunesOfElements, E)
    <3>1. \A x : Addend(RunesOfElements, x) = RunesIn(x)
      BY DEF Addend, RunesOfElements
    <3>2. \A x \in F : Addend(RunesOfElements, x) \in Nat
      BY <1>4, <3>1 DEF Fine
    <3>3. el \in F /\ F \ {el} = E
      OBVIOUS
    <3> HIDE DEF F
    <3>4. Total(RunesOfElements, F) = Addend(RunesOfElements, el) + Total(RunesOfElements, F \ {el})
      BY <1>4, <3>2, <3>3, TotalWithout
    <3> QED BY <3>1, <3>3, <3>4
  <2>2. /\ b.charsSeen = Total(RunesOfElements, E)
        /\ \A x \in E : IsCut(x) => /\ b.charsSeen = b.maxChars
                                    /\ \A other \in E : IsCut(other) => other = x
    BY <1>6 DEF Spent
  <2>3. b2.charsSeen = Total(RunesOfElements, F)
    BY <1>2, <1>6, <1>3, <2>1, <2>2
  <2>4. ASSUME NEW x \in F, IsCut(x)
        PROVE  b2.charsSeen = b.maxChars /\ \A other \in F : IsCut(other) => other = x
    <3>1. CASE x = el
      <4>1. b.charsSeen < b.maxChars /\ b2.charsSeen = b.maxChars
        BY <1>2, <1>6, <2>4, <3>1
      <4>2. b.charsSeen # b.maxChars
        BY <1>3, <4>1
      <4>3. \A other \in E : ~ IsCut(other)
        BY <2>2, <4>2
      <4> QED BY <3>1, <4>1, <4>3
    <3>2. CASE x # el
      <4>1. x \in E /\ b.charsSeen = b.maxChars
        BY <2>2, <2>4, <3>2
      <4>2. b2.charsSeen = b.maxChars
        BY <1>2, <1>6, <1>3, <4>1
      <4>3. ~ IsCut(el)
        BY <1>2, <1>6, <1>3, <4>1
      <4> QED BY <2>2, <2>4, <4>1, <4>2, <4>3
    <3> QED BY <3>1, <3>2
  <2>5. b2.charsSeen <= b2.maxChars
    BY <1>2, <1>6, <1>3
  <2> HIDE DEF F
  <2>6. Spent(R, b2, F)
    BY <1>4, <1>6, <2>3, <2>4, <2>5 DEF Spent
  <2> QED BY <2>6 DEF F
<1> QED BY <1>5, <1>6

Accounts(R, b, E, open) == b \in Builders(E) /\ Numbered(b, E, open) /\ Spent(R, b, E)

SameAccounts(b, c) ==
  /\ b.counter = c.counter /\ b.interactive = c.interactive
  /\ b.maxChars = c.maxChars /\ b.charsSeen = c.charsSeen

LEMMA AccountsLonger ==
  ASSUME NEW E, NEW b \in Builders(E), NEW F, E \in SUBSET F
  PROVE  b \in Builders(F)
<1>1. b.elements \in Seq(F) /\ b.interactive \in Seq(F)
  <2>1. b.elements \in Seq(E) /\ b.interactive \in Seq(E)
    BY DEF Builders
  <2> QED BY <2>1, SeqMonotonic
<1> QED BY <1>1 DEF Builders

\* What is counted for node i before its fields.
CountedFor(b, page, i, after) ==
  /\ after.counter = b.counter + (IF Interactive(page[i]) THEN 1 ELSE 0)
  /\ after.elements = b.elements
  /\ after.interactive = b.interactive
  /\ after.maxChars = b.maxChars
  /\ after.charsSeen = Consume(b, ExtractText(page, i)).charsSeen

LEMMA CountedIs ==
  ASSUME NEW R \in SUBSET (Nat \ {0}), NEW page \in Seq(NodesNamed(R)), NEW i \in DOMAIN page,
         NEW E, NEW b \in Builders(E), Spent(R, b, E)
  PROVE  Counted(b, page, i) \in Builders(E) /\ CountedFor(b, page, i, Counted(b, page, i))
<1> DEFINE text == ExtractText(page, i)
           c == Consume(b, text)
           el == [text |-> Consumed(b, text)]
<1>1. text \in Seq(R \union {Space})
  BY TextIsOfPage
<1>2. c \in Builders(E) /\ KeepsBudget(R, b, text, el, c)
  <2>1. b.maxChars # 0 => b.charsSeen <= b.maxChars
    BY DEF Spent
  <2>2. el.text = Consumed(b, text)
    OBVIOUS
  <2> HIDE DEF text, el
  <2> QED BY <1>1, <2>1, <2>2, BudgetIsKept
<1>3. Counted(b, page, i) = [c EXCEPT !.counter = c.counter + (IF Interactive(page[i]) THEN 1 ELSE 0)]
  BY DEF Counted
<1>4. c.counter = b.counter /\ c.elements = b.elements /\ c.interactive = b.interactive /\ c.maxChars = b.maxChars
  BY <1>2 DEF KeepsBudget
<1>5. c.counter + (IF Interactive(page[i]) THEN 1 ELSE 0) \in Nat
  BY <1>2 DEF Builders
<1> HIDE DEF c
<1>6. /\ Counted(b, page, i) \in Builders(E)
      /\ Counted(b, page, i).counter = c.counter + (IF Interactive(page[i]) THEN 1 ELSE 0)
      /\ Counted(b, page, i).elements = c.elements /\ Counted(b, page, i).interactive = c.interactive
      /\ Counted(b, page, i).maxChars = c.maxChars /\ Counted(b, page, i).charsSeen = c.charsSeen
  BY <1>2, <1>3, <1>5 DEF Builders
<1> QED BY <1>4, <1>6 DEF c, CountedFor

\* Element i: what is counted for it, and what lists it.
LEMMA ElementIsMade ==
  ASSUME NEW R \in SUBSET (Nat \ {0}), NEW page \in Seq(NodesNamed(R)), NEW i \in DOMAIN page,
         NEW E, NEW b, NEW open, Accounts(R, b, E, open),
         NEW el, el \notin E, el.id = Element(b, page, i).id, el.node = page[i].name,
         el.text = Element(b, page, i).text,
         NEW b2 \in Builders(E \union {el}), SameAccounts(b2, Counted(b, page, i))
  PROVE  /\ Interactive(page[i]) /\ open = {} => Accounts(R, b2, E \union {el}, {el})
         /\ Accounts(R, List(b2, el), E \union {el}, open)
<1> DEFINE text == ExtractText(page, i)
           counts == Interactive(page[i])
           F == E \union {el}
<1>1. b \in Builders(E) /\ Numbered(b, E, open) /\ Spent(R, b, E)
  BY DEF Accounts
<1>2. text \in Seq(R \union {Space}) /\ el.node \in R
  <2>1. page[i] \in NodesNamed(R)
    BY ElementOfSeq, LenProperties
  <2> QED BY <2>1, TextIsOfPage DEF NodesNamed
<1>3. /\ counts \in BOOLEAN
      /\ el.id = IF counts THEN b.counter + 1 ELSE 0
      /\ el.text = Consumed(b, text)
  BY DEF Element, Interactive
<1>4. /\ b2.counter = b.counter + (IF counts THEN 1 ELSE 0)
      /\ b2.interactive = b.interactive /\ b2.maxChars = b.maxChars
      /\ b2.charsSeen = Consume(b, text).charsSeen
  <2>1. CountedFor(b, page, i, Counted(b, page, i))
    BY <1>1, CountedIs
  <2> QED BY <2>1 DEF CountedFor, SameAccounts
<1> HIDE DEF text, counts
<1>5. (counts /\ open = {} => Numbered(b2, F, {el})) /\ Numbered(List(b2, el), F, open)
  BY <1>1, <1>3, <1>4, Counts
<1>6. Spent(R, b2, F)
  BY <1>1, <1>2, <1>3, <1>4, Spends
<1>7. List(b2, el) \in Builders(F) /\ Listed(b2, el, List(b2, el))
  <2>1. b2 \in Builders(F) /\ el \in F
    OBVIOUS
  <2> HIDE DEF F
  <2> QED BY <2>1, ListAdds
<1>8. Spent(R, List(b2, el), F)
  <2>1. List(b2, el).maxChars = b2.maxChars /\ List(b2, el).charsSeen = b2.charsSeen
    BY <1>7 DEF Listed
  <2> HIDE DEF F
  <2> QED BY <1>6, <2>1 DEF Spent
<1>9. b2 \in Builders(F)
  OBVIOUS
<1> HIDE DEF F
<1>10. /\ counts /\ open = {} => Accounts(R, b2, F, {el})
       /\ Accounts(R, List(b2, el), F, open)
  BY <1>5, <1>6, <1>7, <1>8, <1>9 DEF Accounts
<1> QED BY <1>10 DEF counts, F

\* The fields of a form are made one after the other.
LEMMA FieldsAreFolded ==
  ASSUME NEW S, NEW seq \in Seq(S), NEW b, NEW page, NEW i
  PROVE  FoldLeft(LAMBDA state, c : AddField(state, Element(state.b, page, c), Counted(state.b, page, c)),
                  [b |-> Counted(b, page, i), children |-> << >>], seq) = Folded(OfFields(b, page, i), seq)
<1> DEFINE D == 1..Len(seq)
           none == [b |-> Counted(b, page, i), children |-> << >>]
           NextField(state, c) == AddField(state, Element(state.b, page, c), Counted(state.b, page, c))
           Table(g) == [s \in SUBSET D |->
                          IF s = {} THEN none ELSE NextField(g[s \ {Max(s)}], seq[Max(s)])]
           table == CHOOSE g : g = Table(g)
<1>1. DOMAIN seq = D /\ Len(seq) \in Nat
  BY LenProperties
<1>2. FoldLeft(LAMBDA state, c : AddField(state, Element(state.b, page, c), Counted(state.b, page, c)),
               none, seq) = table[D]
  BY <1>1 DEF FoldLeft, MapThenFoldSet
<1> DEFINE fold == OfFields(b, page, i)
<1>3. ASSUME NEW g PROVE FoldTable(fold, seq, D, g) <=> g = Table(g)
  <2>1. Start(fold) = none /\ \A state, c : Step(fold, state, c) = NextField(state, c)
    BY DEF Start, Step, OfFields
  <2> HIDE DEF fold, none, NextField
  <2> QED BY <2>1 DEF FoldTable
<1>4. \E g : FoldTable(fold, seq, D, g)
  BY <1>1, FoldTableExists
<1>5. \E g : g = Table(g)
  <2> HIDE DEF Table, fold
  <2> QED BY <1>3, <1>4
<1>6. table = Table(table)
  <2> HIDE DEF Table
  <2> QED BY <1>5
<1>7. FoldTable(fold, seq, D, table)
  <2> HIDE DEF Table, table, fold
  <2> QED BY <1>3, <1>6
<1>8. Folded(fold, seq) = table[D]
  <2> HIDE DEF table, fold
  <2> QED BY <1>7, FoldedFromTable
<1> HIDE DEF table
<1> QED BY <1>2, <1>8

\* walk enters one node after the other.
LEMMA NodesAreFolded ==
  ASSUME NEW S, NEW seq \in Seq(S), NEW page, NEW maxChars
  PROVE  FoldLeft(LAMBDA state, i : Walk(state, page, i),
                  [b |-> NewBuilder(maxChars), built |-> {}], seq) = Folded(OfNodes(page, maxChars), seq)
<1> DEFINE D == 1..Len(seq)
           none == [b |-> NewBuilder(maxChars), built |-> {}]
           Table(g) == [s \in SUBSET D |->
                          IF s = {} THEN none ELSE Walk(g[s \ {Max(s)}], page, seq[Max(s)])]
           table == CHOOSE g : g = Table(g)
<1>1. DOMAIN seq = D /\ Len(seq) \in Nat
  BY LenProperties
<1>2. FoldLeft(LAMBDA state, i : Walk(state, page, i), none, seq) = table[D]
  BY <1>1 DEF FoldLeft, MapThenFoldSet
<1> DEFINE fold == OfNodes(page, maxChars)
<1>3. ASSUME NEW g PROVE FoldTable(fold, seq, D, g) <=> g = Table(g)
  <2>1. Start(fold) = none /\ \A state, i : Step(fold, state, i) = Walk(state, page, i)
    BY DEF Start, Step, OfNodes
  <2> HIDE DEF fold, none
  <2> QED BY <2>1 DEF FoldTable
<1>4. \E g : FoldTable(fold, seq, D, g)
  BY <1>1, FoldTableExists
<1>5. \E g : g = Table(g)
  <2> HIDE DEF Table, fold
  <2> QED BY <1>3, <1>4
<1>6. table = Table(table)
  <2> HIDE DEF Table
  <2> QED BY <1>5
<1>7. FoldTable(fold, seq, D, table)
  <2> HIDE DEF Table, table, fold
  <2> QED BY <1>3, <1>6
<1>8. Folded(fold, seq) = table[D]
  <2> HIDE DEF table, fold
  <2> QED BY <1>7, FoldedFromTable
<1> HIDE DEF table
<1> QED BY <1>2, <1>8

\* The elements in E are made of nodes at the places S of the page.
MadeOf(page, E, S) == \A el \in E : \E k \in S : el.node = page[k].name

Distinct(page) == \A i, j \in DOMAIN page : page[i].name = page[j].name => i = j
Once(seq) == \A m, n \in 1..Len(seq) : seq[m] = seq[n] => m = n

\* The form el with its fields at the places S: it is counted but not listed.
HasFields(R, page, b, E, el, state, S) ==
  /\ state.children \in Seq(Range(state.children))
  /\ MadeOf(page, Range(state.children), S)
  /\ state.b.elements = b.elements /\ state.b.maxChars = b.maxChars
  /\ Accounts(R, state.b, E \union {el} \union Range(state.children), {el})

LEMMA FieldIsAdded ==
  ASSUME NEW R \in SUBSET (Nat \ {0}), NEW page \in Seq(NodesNamed(R)), Distinct(page),
         NEW b, NEW E, NEW el, NEW state, NEW S \in SUBSET DOMAIN page,
         NEW T \in SUBSET DOMAIN page, MadeOf(page, E \union {el}, T),
         HasFields(R, page, b, E, el, state, S), NEW c \in DOMAIN page, c \notin S \union T
  PROVE  HasFields(R, page, b, E, el,
                   AddField(state, Element(state.b, page, c), Counted(state.b, page, c)), S \union {c})
<1> DEFINE G == E \union {el} \union Range(state.children)
           kid == Element(state.b, page, c)
           after == Counted(state.b, page, c)
           longer == Append(state.children, kid)
           next == AddField(state, kid, after)
           F == G \union {kid}
<1>1. /\ state.children \in Seq(Range(state.children))
      /\ MadeOf(page, Range(state.children), S)
      /\ state.b.elements = b.elements /\ state.b.maxChars = b.maxChars
      /\ Accounts(R, state.b, G, {el})
  BY DEF HasFields
<1>2. kid.node = page[c].name /\ kid \notin G
  <2>1. kid.node = page[c].name
    BY DEF Element
  <2>2. ASSUME NEW x \in G PROVE x.node # page[c].name
    <3>1. PICK k \in S \union T : x.node = page[k].name
      BY <1>1 DEF MadeOf
    <3>2. k \in DOMAIN page /\ k # c
      OBVIOUS
    <3> QED BY <3>1, <3>2 DEF Distinct
  <2> HIDE DEF kid
  <2> QED BY <2>1, <2>2
<1>3. /\ longer \in Seq(Range(longer)) /\ Range(longer) = Range(state.children) \union {kid}
  <2> DEFINE U == Range(state.children) \union {kid}
  <2>1. state.children \in Seq(U) /\ kid \in U
    <3>1. Range(state.children) \in SUBSET U /\ kid \in U
      OBVIOUS
    <3> HIDE DEF U, kid
    <3> QED BY <1>1, <3>1, SeqMonotonic
  <2> HIDE DEF U, kid
  <2>2. longer \in Seq(U) /\ Range(longer) = Range(state.children) \union {kid}
    BY <2>1, AppendProperties, RangeOfAppend
  <2> QED BY <2>2, SeqOfRange
<1>4. state.b \in Builders(G) /\ Spent(R, state.b, G)
  BY <1>1 DEF Accounts
<1>5. after \in Builders(F) /\ after.elements = b.elements /\ after.maxChars = b.maxChars
  <2>1. after \in Builders(G) /\ after.elements = b.elements /\ after.maxChars = b.maxChars
    <3>1. after \in Builders(G) /\ CountedFor(state.b, page, c, after)
      <4> HIDE DEF G
      <4> QED BY <1>4, CountedIs
    <3> HIDE DEF G, after
    <3> QED BY <1>1, <3>1 DEF CountedFor
  <2>2. G \in SUBSET F
    OBVIOUS
  <2> HIDE DEF G, F, after
  <2> QED BY <2>1, <2>2, AccountsLonger
<1>6. Accounts(R, List(after, kid), F, {el})
  <2>1. SameAccounts(after, after)
    BY DEF SameAccounts
  <2>2. kid.id = Element(state.b, page, c).id /\ kid.text = Element(state.b, page, c).text
    OBVIOUS
  <2> HIDE DEF kid, G
  <2> QED BY <1>1, <1>2, <1>5, <2>1, <2>2, ElementIsMade
<1>7. List(after, kid).elements = b.elements /\ List(after, kid).maxChars = b.maxChars
  <2>1. kid \in F
    OBVIOUS
  <2> HIDE DEF kid, after, F
  <2>2. Listed(after, kid, List(after, kid))
    BY <1>5, <2>1, ListAdds
  <2> QED BY <1>5, <2>2 DEF Listed
<1>8. next.b = List(after, kid) /\ next.children = longer
  BY DEF AddField
<1>9. MadeOf(page, Range(longer), S \union {c})
  <2> HIDE DEF kid
  <2> QED BY <1>1, <1>2, <1>3 DEF MadeOf
<1>10. F = E \union {el} \union Range(longer)
  <2> HIDE DEF kid, longer
  <2> QED BY <1>3
<1> HIDE DEF next, longer, after, F
<1>11. HasFields(R, page, b, E, el, next, S \union {c})
  BY <1>3, <1>6, <1>7, <1>8, <1>9, <1>10 DEF HasFields
<1> QED BY <1>11 DEF next, after

LEMMA FieldsAreAdded ==
  ASSUME NEW R \in SUBSET (Nat \ {0}), NEW page \in Seq(NodesNamed(R)), Distinct(page),
         NEW form \in DOMAIN page, Interactive(page[form]), NEW E, NEW b, Accounts(R, b, E, {}),
         NEW built \in SUBSET DOMAIN page, MadeOf(page, E, built), form \notin built,
         NEW el, el.id = Element(b, page, form).id, el.node = page[form].name,
         el.text = Element(b, page, form).text,
         NEW seq \in Seq(DOMAIN page \ (built \union {form})), Once(seq)
  PROVE  HasFields(R, page, b, E, el, Folded(OfFields(b, page, form), seq), Range(seq))
<1> DEFINE C == DOMAIN page \ (built \union {form})
           fold == OfFields(b, page, form)
           Good(s) == HasFields(R, page, b, E, el, Folded(fold, s), Range(s))
           bad == {n \in Nat : \E s \in Seq(C) : Len(s) = n /\ Once(s) /\ ~ Good(s)}
<1>1. SUFFICES ASSUME bad # {} PROVE FALSE
  <2>1. seq \in Seq(C)
    OBVIOUS
  <2>2. Len(seq) \in Nat
    <3> HIDE DEF C
    <3> QED BY <2>1, LenProperties
  <2> QED BY <2>2
<1>2. PICK n \in bad : \A k \in bad : n <= k
  <2>1. bad \in SUBSET Nat
    OBVIOUS
  <2> HIDE DEF bad
  <2> QED BY <1>1, <2>1, LeastNatural
<1>3. PICK s \in Seq(C) : Len(s) = n /\ Once(s) /\ ~ Good(s)
  BY <1>2
<1>4. MadeOf(page, E \union {el}, built \union {form})
  BY DEF MadeOf
<1>5. s # << >>
  <2> DEFINE state == Folded(fold, << >>)
             F == E \union {el}
             after == Counted(b, page, form)
  <2>1. state = [b |-> after, children |-> << >>]
    <3>1. Start(fold) = [b |-> after, children |-> << >>]
      BY DEF Start, OfFields
    <3> HIDE DEF fold
    <3> QED BY <3>1, FoldedEmpty
  <2>2. Range(<< >>) = {} /\ << >> \in Seq({})
    BY EmptySeq DEF Range
  <2>3. b \in Builders(E) /\ Spent(R, b, E) /\ E \in SUBSET F /\ el \notin E
    <3>1. el \notin E
      BY DEF MadeOf, Distinct
    <3> QED BY <3>1 DEF Accounts
  <2>4. after \in Builders(F) /\ after.elements = b.elements /\ after.maxChars = b.maxChars
    <3>1. b \in Builders(E) /\ Spent(R, b, E)
      BY DEF Accounts
    <3>2. after \in Builders(E) /\ CountedFor(b, page, form, after)
      BY <3>1, CountedIs
    <3> HIDE DEF F, after
    <3>3. after \in Builders(F)
      BY <2>3, <3>2, AccountsLonger
    <3> QED BY <3>2, <3>3 DEF CountedFor
  <2>5. Accounts(R, after, F, {el})
    <3>1. SameAccounts(after, after)
      BY DEF SameAccounts
    <3> QED BY <2>3, <2>4, <3>1, ElementIsMade
  <2>6. MadeOf(page, Range(<< >>), Range(<< >>))
    BY <2>2 DEF MadeOf
  <2>7. F = F \union Range(<< >>)
    BY <2>2
  <2>8. HasFields(R, page, b, E, el, [b |-> after, children |-> << >>], Range(<< >>))
    <3> HIDE DEF after
    <3> QED BY <2>2, <2>4, <2>5, <2>6, <2>7 DEF HasFields
  <2>9. Good(<< >>)
    <3> HIDE DEF fold, after
    <3> QED BY <2>1, <2>8
  <2> QED BY <1>3, <2>9
<1> HIDE DEF C
<1>6. PICK t \in Seq(C), c \in C : s = Append(t, c)
  BY <1>5, SequenceEmptyOrAppend
<1>7. /\ Len(t) \in Nat /\ Len(s) = Len(t) + 1 /\ s[Len(t) + 1] = c
      /\ \A i \in 1..Len(t) : s[i] = t[i]
  BY <1>6, AppendProperties, LenProperties
<1>8. Once(t) /\ c \notin Range(t)
  <2>1. /\ \A i \in 1..Len(t) : i \in 1..Len(s) /\ i # Len(t) + 1
        /\ Len(t) + 1 \in 1..Len(s)
    BY <1>7
  <2>2. Range(t) = {t[i] : i \in 1..Len(t)}
    BY RangeEquality
  <2> QED BY <1>3, <1>7, <2>1, <2>2 DEF Once
<1>9. Good(t)
  <2>1. Len(t) \notin bad
    <3> HIDE DEF bad
    <3> QED BY <1>2, <1>3, <1>7
  <2> QED BY <1>7, <1>8, <2>1
<1> DEFINE state == Folded(fold, t)
<1>10. Folded(fold, s) = AddField(state, Element(state.b, page, c), Counted(state.b, page, c))
  <2>1. \A result : Step(fold, result, c)
                      = AddField(result, Element(result.b, page, c), Counted(result.b, page, c))
    BY DEF Step, OfFields
  <2> HIDE DEF fold
  <2> QED BY <1>6, <2>1, FoldedAppend
<1>11. Range(s) = Range(t) \union {c}
  BY <1>6, RangeOfAppend
<1>12. /\ Range(t) \in SUBSET DOMAIN page /\ built \union {form} \in SUBSET DOMAIN page
       /\ c \in DOMAIN page /\ c \notin Range(t) \union (built \union {form})
  <2>1. Range(t) \in SUBSET C
    BY RangeOfSeq
  <2> QED BY <1>8, <2>1 DEF C
<1>13. Good(s)
  <2> HIDE DEF fold
  <2>1. HasFields(R, page, b, E, el, state, Range(t))
    BY <1>9
  <2> HIDE DEF state
  <2>2. HasFields(R, page, b, E, el,
                  AddField(state, Element(state.b, page, c), Counted(state.b, page, c)), Range(t) \union {c})
    BY <1>4, <1>12, <2>1, FieldIsAdded
  <2> QED BY <1>10, <1>11, <2>2
<1> QED BY <1>3, <1>13

LEMMA PlacesInOrder ==
  ASSUME NEW U, NEW page \in Seq(U), NEW S \in SUBSET DOMAIN page
  PROVE  /\ InOrder(page, S) \in Seq(S)
         /\ \A m, n \in 1..Len(InOrder(page, S)) : m < n => InOrder(page, S)[m] < InOrder(page, S)[n]
         /\ Range(InOrder(page, S)) = S
         /\ Len(InOrder(page, S)) = Cardinality(S)
<1> DEFINE D == 1..Len(page)
           own == [i \in DOMAIN page |-> i]
           out == InOrder(page, S)
<1>1. Len(page) \in Nat /\ DOMAIN page = D
  BY LenProperties
<1>2. own \in Seq(D) /\ Len(own) = Len(page) /\ \A i \in D : own[i] = i
  <2>1. own = [i \in D |-> i]
    BY <1>1
  <2>2. own \in Seq(D)
    BY <1>1, <2>1, IsASeq
  <2>3. DOMAIN own = 1..Len(own) /\ Len(own) \in Nat
    <3> HIDE DEF own, D
    <3> QED BY <2>2, LenProperties
  <2>4. Len(own) = Len(page)
    BY <1>1, <2>1, <2>3
  <2> QED BY <2>1, <2>2, <2>4
<1>3. out = Selected(own, S) /\ S \in SUBSET (1..Len(own))
  BY <1>1, <1>2 DEF InOrder
<1> HIDE DEF own, out, D
<1>4. out \in Seq(D) /\ Len(out) = Cardinality(S) /\ \E at : Places(own, S, out, at)
  BY <1>2, <1>3, SelectedPlaces
<1>5. PICK at : Places(own, S, out, at)
  BY <1>4
<1>6. S \in SUBSET D
  BY <1>1
<1>7. /\ \A k \in 1..Len(out) : at[k] \in S /\ out[k] = at[k]
      /\ \A j, k \in 1..Len(out) : j < k => at[j] < at[k]
      /\ \A i \in S : \E k \in 1..Len(out) : at[k] = i
  <2>1. /\ at \in [1..Len(out) -> S]
        /\ \A k \in 1..Len(out) : out[k] = own[at[k]]
        /\ \A j, k \in 1..Len(out) : j < k => at[j] < at[k]
        /\ \A i \in S : \E k \in 1..Len(out) : at[k] = i
    BY <1>5 DEF Places
  <2>2. \A k \in 1..Len(out) : at[k] \in S
    BY <2>1
  <2> QED BY <1>2, <1>6, <2>1, <2>2
<1>8. Range(out) = S
  <2>1. Range(out) = {out[k] : k \in 1..Len(out)}
    BY <1>4, RangeEquality
  <2> QED BY <1>7, <2>1
<1>9. out \in Seq(S)
  BY <1>4, <1>8, SeqOfRange
<1>10. \A m, n \in 1..Len(out) : m < n => out[m] < out[n]
  BY <1>7
<1> QED BY <1>4, <1>8, <1>9, <1>10 DEF out

LEMMA SubtreeIs ==
  ASSUME NEW U, NEW page \in Seq(U), NEW i \in DOMAIN page
  PROVE  i \in Subtree(page, i) /\ Subtree(page, i) \in SUBSET DOMAIN page /\ DOMAIN page \in SUBSET Nat
<1>1. DOMAIN page \in SUBSET Nat
  BY PlacesAreFinite
<1>2. i \in Nat
  BY <1>1
<1>3. i + 1..i = {} /\ i <= i
  BY <1>2
<1> QED BY <1>1, <1>3 DEF Subtree

LEMMA FieldsAreBelow ==
  ASSUME NEW R, NEW page \in Seq(NodesNamed(R)), NEW i \in DOMAIN page
  PROVE  Fields(page, i) \in SUBSET (Subtree(page, i) \ {i})
<1>1. page[i].depth \in Nat
  <2>1. page[i] \in NodesNamed(R)
    BY ElementOfSeq, LenProperties
  <2> QED BY <2>1 DEF NodesNamed
<1>2. page[i].depth # page[i].depth + 1
  BY <1>1
<1> QED BY <1>2 DEF Fields, Children

LEMMA ElementsOfAppend ==
  ASSUME NEW S, NEW seq \in Seq(S), NEW el \in S
  PROVE  Elements(Range(Append(seq, el))) = Elements(Range(seq)) \union {el} \union Range(el.children)
<1>1. Range(Append(seq, el)) = Range(seq) \union {el}
  BY RangeOfAppend
<1> DEFINE top == Range(seq)
<1> HIDE DEF top
<1>2. Elements(top \union {el}) = Elements(top) \union {el} \union Range(el.children)
  BY DEF Elements
<1> QED BY <1>1, <1>2 DEF top

LEMMA AccountsDepend ==
  ASSUME NEW R, NEW E, NEW b, NEW open, Accounts(R, b, E, open), NEW c \in Builders(E), SameAccounts(c, b)
  PROVE  Accounts(R, c, E, open)
<1> QED BY DEF Accounts, SameAccounts, Numbered, Spent

\* The document so far: its elements are those of the accounts, made of built.
Outlined(R, page, maxChars, b, built) ==
  /\ b.maxChars = maxChars
  /\ Accounts(R, b, Elements(Range(b.elements)), {})
  /\ MadeOf(page, Elements(Range(b.elements)), built)

LEMMA ElementIsAdded ==
  ASSUME NEW R \in SUBSET (Nat \ {0}), NEW page \in Seq(NodesNamed(R)), Distinct(page),
         NEW maxChars, NEW b, NEW built \in SUBSET DOMAIN page, Outlined(R, page, maxChars, b, built),
         NEW i \in DOMAIN page, Subtree(page, i) \intersect built = {}
  PROVE  Outlined(R, page, maxChars, AddElement(b, page, i), built \union Subtree(page, i))
<1> DEFINE E == Elements(Range(b.elements))
           seq == InOrder(page, Fields(page, i))
           fold == Folded(OfFields(b, page, i), seq)
           el == [Element(b, page, i) EXCEPT !.children = fold.children]
           G == E \union {el} \union Range(fold.children)
           longer == Append(fold.b.elements, el)
           c == [fold.b EXCEPT !.elements = longer]
           last == List(c, el)
           S == built \union Subtree(page, i)
<1>1. Accounts(R, b, E, {}) /\ MadeOf(page, E, built) /\ b.maxChars = maxChars
  BY DEF Outlined
<1>2. i \in Subtree(page, i) /\ Subtree(page, i) \in SUBSET DOMAIN page /\ i \notin built
  BY SubtreeIs
<1>3. Fields(page, i) \in SUBSET (DOMAIN page \ (built \union {i})) /\ Fields(page, i) \in SUBSET Subtree(page, i)
  BY <1>2, FieldsAreBelow
<1>4. /\ seq \in Seq(DOMAIN page \ (built \union {i})) /\ Once(seq)
      /\ Range(seq) = Fields(page, i) /\ (Fields(page, i) = {} => seq = << >>)
  <2>1. Fields(page, i) \in SUBSET DOMAIN page
    BY <1>3
  <2>2. /\ seq \in Seq(Fields(page, i)) /\ Range(seq) = Fields(page, i)
        /\ \A m, n \in 1..Len(seq) : m < n => seq[m] < seq[n]
        /\ Len(seq) = Cardinality(Fields(page, i))
    BY <2>1, PlacesInOrder
  <2> HIDE DEF seq
  <2>3. seq \in Seq(DOMAIN page \ (built \union {i}))
    BY <1>3, <2>2, SeqMonotonic
  <2>4. Once(seq)
    <3> SUFFICES ASSUME NEW m \in 1..Len(seq), NEW n \in 1..Len(seq), seq[m] = seq[n], m # n
                 PROVE  FALSE
      BY DEF Once
    <3>1. Len(seq) \in Nat /\ seq[m] \in Fields(page, i)
      BY <2>2, LenProperties, ElementOfSeq
    <3>2. seq[m] \in Nat
      BY <2>1, <3>1, SubtreeIs
    <3>3. m < n \/ n < m
      BY <3>1
    <3> QED BY <2>2, <3>2, <3>3
  <2>5. Fields(page, i) = {} => seq = << >>
    BY <2>2, FS_EmptySet, EmptySeq
  <2> QED BY <2>2, <2>3, <2>4, <2>5
<1>5. /\ el.id = Element(b, page, i).id /\ el.node = page[i].name
      /\ el.text = Element(b, page, i).text /\ el.children = fold.children
  <2> HIDE DEF fold
  <2> QED BY DEF Element
<1>6. AddElement(b, page, i) = last
  <2>1. AddElement(b, page, i) = Complete(fold, Element(b, page, i))
    <3>1. FoldLeft(LAMBDA state, f : AddField(state, Element(state.b, page, f), Counted(state.b, page, f)),
                   [b |-> Counted(b, page, i), children |-> << >>], seq) = fold
      <4> HIDE DEF seq
      <4> QED BY <1>4, FieldsAreFolded
    <3> HIDE DEF fold
    <3> QED BY <3>1 DEF AddElement
  <2> HIDE DEF fold
  <2> QED BY <2>1 DEF Complete, Add
<1> HIDE DEF E, seq, fold, el
<1>7. el \notin E
  BY <1>1, <1>2, <1>5 DEF MadeOf, Distinct
<1>8. b \in Builders(E)
  BY <1>1 DEF Accounts
<1>9. /\ fold.b \in Builders(G) /\ fold.b.elements = b.elements /\ fold.b.maxChars = b.maxChars
      /\ fold.children \in Seq(Range(fold.children)) /\ MadeOf(page, Range(fold.children), S)
      /\ Interactive(page[i]) => Accounts(R, fold.b, G, {el})
      /\ ~ Interactive(page[i]) => SameAccounts(fold.b, Counted(b, page, i)) /\ Range(fold.children) = {}
  <2>1. CASE Interactive(page[i])
    <3>1. HasFields(R, page, b, E, el, fold, Range(seq))
      BY <1>1, <1>2, <1>4, <1>5, <2>1, FieldsAreAdded DEF fold
    <3>2. MadeOf(page, Range(fold.children), S)
      BY <1>3, <1>4, <3>1 DEF HasFields, MadeOf
    <3>3. Accounts(R, fold.b, G, {el})
      BY <3>1 DEF HasFields
    <3>4. fold.b \in Builders(G)
      BY <3>3 DEF Accounts
    <3> HIDE DEF G, S
    <3> QED BY <2>1, <3>1, <3>2, <3>3, <3>4 DEF HasFields
  <2>2. CASE ~ Interactive(page[i])
    <3>1. Fields(page, i) = {}
      <4>1. page[i].tag # "form"
        BY <2>2 DEF Interactive, Category
      <4> QED BY <4>1 DEF Fields
    <3>2. fold = [b |-> Counted(b, page, i), children |-> << >>]
      <4>1. Start(OfFields(b, page, i)) = [b |-> Counted(b, page, i), children |-> << >>]
        BY DEF Start, OfFields
      <4> QED BY <1>4, <3>1, <4>1, FoldedEmpty DEF fold
    <3>3. Range(fold.children) = {} /\ fold.children \in Seq(Range(fold.children))
      BY <3>2, EmptySeq DEF Range
    <3>4. fold.b \in Builders(E) /\ CountedFor(b, page, i, fold.b)
      <4>1. Spent(R, b, E)
        BY <1>1 DEF Accounts
      <4> QED BY <1>8, <3>2, <4>1, CountedIs
    <3>5. fold.b \in Builders(G)
      <4>1. E \in SUBSET G
        OBVIOUS
      <4> HIDE DEF G
      <4> QED BY <3>4, <4>1, AccountsLonger
    <3>6. SameAccounts(fold.b, Counted(b, page, i))
      BY <3>2 DEF SameAccounts
    <3>7. MadeOf(page, Range(fold.children), S)
      BY <3>3 DEF MadeOf
    <3> HIDE DEF G, S
    <3> QED BY <2>2, <3>3, <3>4, <3>5, <3>6, <3>7 DEF CountedFor
  <2> QED BY <2>1, <2>2
<1>10. c \in Builders(G) /\ SameAccounts(c, fold.b) /\ c.elements = longer
  <2>1. longer \in Seq(G)
    <3>1. fold.b.elements \in Seq(G) /\ el \in G
      BY <1>9 DEF Builders
    <3> HIDE DEF G
    <3> QED BY <3>1, AppendProperties
  <2> HIDE DEF longer, G
  <2> QED BY <1>9, <2>1 DEF Builders, SameAccounts
<1>11. last \in Builders(G) /\ Listed(c, el, last)
  <2>1. el \in G
    OBVIOUS
  <2> HIDE DEF G, c
  <2> QED BY <1>10, <2>1, ListAdds
<1>12. Accounts(R, last, G, {})
  <2>1. CASE Interactive(page[i])
    <3>1. Accounts(R, c, G, {el})
      <4> HIDE DEF G, c
      <4> QED BY <1>9, <1>10, <2>1, AccountsDepend
    <3>2. el.id # 0 /\ el \in G
      <4>1. el.id = b.counter + 1 /\ b.counter \in Nat
        BY <1>5, <1>8, <2>1 DEF Element, Builders
      <4> QED BY <4>1
    <3> HIDE DEF G, c
    <3>3. Numbered(List(c, el), G, {})
      BY <1>10, <3>1, <3>2, ListsForm DEF Accounts
    <3>4. Spent(R, List(c, el), G)
      BY <1>11, <3>1 DEF Accounts, Spent, Listed
    <3> QED BY <1>11, <3>3, <3>4 DEF Accounts
  <2>2. CASE ~ Interactive(page[i])
    <3>1. G = E \union {el}
      BY <1>9, <2>2
    <3>2. SameAccounts(c, Counted(b, page, i))
      <4> HIDE DEF c
      <4> QED BY <1>9, <1>10, <2>2 DEF SameAccounts
    <3> HIDE DEF G, c
    <3> QED BY <1>1, <1>5, <1>7, <1>10, <2>2, <3>1, <3>2, ElementIsMade
  <2> QED BY <2>1, <2>2
<1>13. last.elements = longer /\ last.maxChars = b.maxChars
  <2> HIDE DEF longer, c, last
  <2> QED BY <1>9, <1>10, <1>11 DEF Listed, SameAccounts
<1>14. Elements(Range(longer)) = G
  <2>1. b.elements \in Seq(E \union {el}) /\ el \in E \union {el}
    <3>1. b.elements \in Seq(E) /\ E \in SUBSET (E \union {el})
      BY <1>8 DEF Builders
    <3> QED BY <3>1, SeqMonotonic
  <2>2. Elements(Range(Append(b.elements, el)))
          = Elements(Range(b.elements)) \union {el} \union Range(el.children)
    BY <2>1, ElementsOfAppend
  <2> QED BY <1>5, <1>9, <2>2 DEF E
<1>15. MadeOf(page, G, S)
  BY <1>1, <1>2, <1>5, <1>9 DEF MadeOf
<1>16. Outlined(R, page, maxChars, last, S)
  <2> HIDE DEF G, S, last, longer
  <2> QED BY <1>1, <1>12, <1>13, <1>14, <1>15 DEF Outlined
<1> QED BY <1>6, <1>16

\* After the nodes at the places S: what was built is not built again, as a
\* node that comes later and is below what was built was built with it.
Outlining(R, page, maxChars, state, S) ==
  /\ state.built \in SUBSET DOMAIN page
  /\ Outlined(R, page, maxChars, state.b, state.built)
  /\ \A k \in state.built, j \in DOMAIN page :
       (\A p \in S : p < j) /\ j <= k => j \in state.built

LEMMA NodeIsWalked ==
  ASSUME NEW R \in SUBSET (Nat \ {0}), NEW page \in Seq(NodesNamed(R)), Distinct(page),
         NEW maxChars, NEW state, NEW S, Outlining(R, page, maxChars, state, S),
         NEW i \in DOMAIN page, \A p \in S : p < i
  PROVE  Outlining(R, page, maxChars, Walk(state, page, i), S \union {i})
<1> DEFINE skip == \/ state.b.truncated \/ i \in state.built
                   \/ page[i].tag = "section" \/ Category(page[i].tag) = ""
           b == AddElement(state.b, page, i)
           built == state.built \union Subtree(page, i)
           next == [b |-> b, built |-> built]
<1>1. Walk(state, page, i) = IF skip THEN state ELSE next
  BY DEF Walk
<1>2. /\ state.built \in SUBSET DOMAIN page
      /\ Outlined(R, page, maxChars, state.b, state.built)
      /\ \A k \in state.built, j \in DOMAIN page :
           (\A p \in S : p < j) /\ j <= k => j \in state.built
  BY DEF Outlining
<1>3. i \in Subtree(page, i) /\ Subtree(page, i) \in SUBSET DOMAIN page /\ DOMAIN page \in SUBSET Nat
  BY SubtreeIs
<1>4. CASE skip
  <2>1. Outlining(R, page, maxChars, state, S \union {i})
    BY <1>2 DEF Outlining
  <2> QED BY <1>1, <1>4, <2>1
<1>5. CASE ~ skip
  <2>1. Subtree(page, i) \intersect state.built = {}
    <3> SUFFICES ASSUME NEW k \in Subtree(page, i), k \in state.built PROVE FALSE
      OBVIOUS
    <3>1. i <= k
      BY DEF Subtree
    <3>2. i \in state.built
      BY <1>2, <3>1
    <3> QED BY <1>5, <3>2
  <2>2. Outlined(R, page, maxChars, b, built)
    BY <1>2, <2>1, ElementIsAdded
  <2>3. built \in SUBSET DOMAIN page
    BY <1>2, <1>3
  <2>4. ASSUME NEW k \in built, NEW j \in DOMAIN page, \A p \in S \union {i} : p < j, j <= k
        PROVE  j \in built
    <3>1. CASE k \in state.built
      BY <1>2, <2>4, <3>1
    <3>2. CASE k \in Subtree(page, i)
      <4>1. i \in Nat /\ j \in Nat /\ k \in Nat /\ i < j /\ j <= k
        BY <1>3, <2>4, <3>2
      <4>2. \A m \in i + 1..k : i = 0 \/ page[m].depth > page[i].depth
        BY <3>2 DEF Subtree
      <4>3. i <= j /\ \A m \in i + 1..j : m \in i + 1..k
        BY <4>1
      <4>4. j \in Subtree(page, i)
        BY <4>2, <4>3 DEF Subtree
      <4> QED BY <4>4
    <3> QED BY <3>1, <3>2
  <2>5. next.b = b /\ next.built = built
    OBVIOUS
  <2> HIDE DEF b, built, next
  <2>6. Outlining(R, page, maxChars, next, S \union {i})
    BY <2>2, <2>3, <2>4, <2>5 DEF Outlining
  <2> QED BY <1>1, <1>5, <2>6
<1> QED BY <1>4, <1>5

Ascends(seq) == \A m, n \in 1..Len(seq) : m < n => seq[m] < seq[n]

LEMMA NothingIsOutlined ==
  ASSUME NEW R, NEW page, NEW maxChars \in Nat
  PROVE  Outlining(R, page, maxChars, [b |-> NewBuilder(maxChars), built |-> {}], {})
<1> DEFINE b == NewBuilder(maxChars)
<1>1. /\ b = [counter |-> 0, elements |-> << >>, interactive |-> << >>,
              maxChars |-> maxChars, charsSeen |-> 0, truncated |-> FALSE]
  BY DEF NewBuilder
<1>2. b \in Builders({})
  <2>1. << >> \in Seq({})
    BY EmptySeq
  <2> QED BY <1>1, <2>1 DEF Builders
<1>3. Range(<< >>) = {} /\ Len(<< >>) = 0
  BY EmptySeq DEF Range
<1>4. Elements(Range(b.elements)) = {}
  BY <1>1, <1>3 DEF Elements
<1>5. Numbered(b, {}, {})
  BY <1>1, <1>3 DEF Numbered
<1>6. Spent(R, b, {})
  <2>1. IsFiniteSet({}) /\ Total(RunesOfElements, {}) = 0
    BY FS_EmptySet, TotalIs
  <2> QED BY <1>1, <2>1 DEF Spent
<1>7. b.maxChars = maxChars
  BY <1>1
<1>8. Outlined(R, page, maxChars, b, {})
  BY <1>7, <1>2, <1>4, <1>5, <1>6 DEF Outlined, Accounts, MadeOf
<1> HIDE DEF b
<1>9. Outlining(R, page, maxChars, [b |-> b, built |-> {}], {})
  BY <1>8 DEF Outlining
<1> QED BY <1>9 DEF b

LEMMA NodesAreWalked ==
  ASSUME NEW R \in SUBSET (Nat \ {0}), NEW page \in Seq(NodesNamed(R)), Distinct(page),
         NEW maxChars \in Nat, NEW seq \in Seq(DOMAIN page), Ascends(seq)
  PROVE  Outlining(R, page, maxChars, Folded(OfNodes(page, maxChars), seq), Range(seq))
<1> DEFINE C == DOMAIN page
           fold == OfNodes(page, maxChars)
           Good(s) == Outlining(R, page, maxChars, Folded(fold, s), Range(s))
           bad == {n \in Nat : \E s \in Seq(C) : Len(s) = n /\ Ascends(s) /\ ~ Good(s)}
<1>1. SUFFICES ASSUME bad # {} PROVE FALSE
  <2>1. seq \in Seq(C)
    OBVIOUS
  <2>2. Len(seq) \in Nat
    <3> HIDE DEF C
    <3> QED BY <2>1, LenProperties
  <2> QED BY <2>2
<1>2. PICK n \in bad : \A k \in bad : n <= k
  <2>1. bad \in SUBSET Nat
    OBVIOUS
  <2> HIDE DEF bad
  <2> QED BY <1>1, <2>1, LeastNatural
<1>3. PICK s \in Seq(C) : Len(s) = n /\ Ascends(s) /\ ~ Good(s)
  BY <1>2
<1>4. s # << >>
  <2>1. Folded(fold, << >>) = [b |-> NewBuilder(maxChars), built |-> {}]
    <3>1. Start(fold) = [b |-> NewBuilder(maxChars), built |-> {}]
      BY DEF Start, OfNodes
    <3> HIDE DEF fold
    <3> QED BY <3>1, FoldedEmpty
  <2>2. Range(<< >>) = {}
    BY EmptySeq DEF Range
  <2> HIDE DEF fold
  <2>3. Good(<< >>)
    BY <2>1, <2>2, NothingIsOutlined
  <2> QED BY <1>3, <2>3
<1> HIDE DEF C
<1>5. PICK t \in Seq(C), c \in C : s = Append(t, c)
  BY <1>4, SequenceEmptyOrAppend
<1>6. /\ Len(t) \in Nat /\ Len(s) = Len(t) + 1 /\ s[Len(t) + 1] = c
      /\ \A i \in 1..Len(t) : s[i] = t[i]
  BY <1>5, AppendProperties, LenProperties
<1>7. Ascends(t) /\ \A p \in Range(t) : p < c
  <2>1. /\ \A i \in 1..Len(t) : i \in 1..Len(s) /\ i < Len(t) + 1
        /\ Len(t) + 1 \in 1..Len(s)
    BY <1>6
  <2>2. Range(t) = {t[i] : i \in 1..Len(t)}
    BY RangeEquality
  <2> QED BY <1>3, <1>6, <2>1, <2>2 DEF Ascends
<1>8. Good(t)
  <2>1. Len(t) \notin bad
    <3> HIDE DEF bad
    <3> QED BY <1>2, <1>3, <1>6
  <2> QED BY <1>6, <1>7, <2>1
<1> DEFINE state == Folded(fold, t)
<1>9. Folded(fold, s) = Walk(state, page, c)
  <2>1. \A result : Step(fold, result, c) = Walk(result, page, c)
    BY DEF Step, OfNodes
  <2> HIDE DEF fold
  <2> QED BY <1>5, <2>1, FoldedAppend
<1>10. Range(s) = Range(t) \union {c} /\ c \in DOMAIN page
  BY <1>5, RangeOfAppend DEF C
<1>11. Good(s)
  <2> HIDE DEF fold
  <2>1. Outlining(R, page, maxChars, state, Range(t))
    BY <1>8
  <2> HIDE DEF state
  <2>2. Outlining(R, page, maxChars, Walk(state, page, c), Range(t) \union {c})
    BY <1>7, <1>10, <2>1, NodeIsWalked
  <2> QED BY <1>9, <1>10, <2>2
<1> QED BY <1>3, <1>11

LEMMA OutlineIsBuilt ==
  ASSUME NEW R \in SUBSET (Nat \ {0}), NEW page \in Seq(NodesNamed(R)), Distinct(page),
         NEW best, NEW maxChars \in Nat
  PROVE  \E built : Outlined(R, page, maxChars, Build(page, best, maxChars), built)
<1> DEFINE S == Subtree(page, best)
           seq == InOrder(page, S)
           state == Folded(OfNodes(page, maxChars), seq)
<1>1. S \in SUBSET DOMAIN page
  BY DEF Subtree
<1>2. seq \in Seq(DOMAIN page) /\ Ascends(seq)
  <2> HIDE DEF S
  <2>1. seq \in Seq(S) /\ \A m, n \in 1..Len(seq) : m < n => seq[m] < seq[n]
    BY <1>1, PlacesInOrder
  <2> HIDE DEF seq
  <2> QED BY <1>1, <2>1, SeqMonotonic DEF Ascends
<1> HIDE DEF seq
<1>3. Outlining(R, page, maxChars, state, Range(seq))
  BY <1>2, NodesAreWalked
<1>4. Build(page, best, maxChars) = state.b
  <2>1. FoldLeft(LAMBDA st, i : Walk(st, page, i), [b |-> NewBuilder(maxChars), built |-> {}], seq) = state
    BY <1>2, NodesAreFolded
  <2> HIDE DEF state
  <2> QED BY <2>1 DEF Build, seq
<1> HIDE DEF state
<1> QED BY <1>3, <1>4 DEF Outlining

\* What Filter leaves: nodes that are not dropped, each once.
Kept(page)   == {page[i].name : i \in DOMAIN page \ Dropped(page)}
Hidden(page) == {page[i].name : i \in Dropped(page)}

LEMMA FilterLeaves ==
  ASSUME NEW page \in Seq(Nodes), Distinct(page)
  PROVE  /\ Filter(page) \in Seq(NodesNamed(Kept(page))) /\ Distinct(Filter(page))
         /\ Kept(page) \in SUBSET (Nat \ {0}) /\ Hidden(page) \in SUBSET (Nat \ {0})
         /\ Kept(page) \intersect Hidden(page) = {}
<1> DEFINE R == Kept(page)
           kept == DOMAIN page \ Dropped(page)
           C == {page[i] : i \in kept}
           out == Filter(page)
<1>1. Len(page) \in Nat /\ DOMAIN page = 1..Len(page) /\ \A i \in DOMAIN page : page[i] \in Nodes
  BY LenProperties, ElementOfSeq
<1>2. \A i \in DOMAIN page : page[i].name \in Nat \ {0}
  BY <1>1 DEF Nodes
<1>3. Dropped(page) \in SUBSET DOMAIN page
  BY DEF Dropped, Subtree
<1>4. /\ R \in SUBSET (Nat \ {0}) /\ Hidden(page) \in SUBSET (Nat \ {0})
      /\ R \intersect Hidden(page) = {}
  BY <1>2, <1>3 DEF Kept, Hidden, Distinct
<1>5. kept \in SUBSET (1..Len(page)) /\ out = Selected(page, kept)
  BY <1>1 DEF Filter
<1>6. C \in SUBSET NodesNamed(R)
  <2> SUFFICES ASSUME NEW i \in kept PROVE page[i] \in NodesNamed(R)
    OBVIOUS
  <2>1. page[i] \in Nodes /\ page[i].name \in R
    BY <1>1 DEF Kept
  <2> QED BY <2>1 DEF Nodes, NodesNamed
<1> HIDE DEF kept, out, R
<1>7. out \in Seq(Nodes) /\ \E at : Places(page, kept, out, at)
  BY <1>5, SelectedPlaces
<1>8. PICK at : Places(page, kept, out, at)
  BY <1>7
<1>9. /\ at \in [1..Len(out) -> kept]
      /\ \A k \in 1..Len(out) : out[k] = page[at[k]]
      /\ \A j, k \in 1..Len(out) : j < k => at[j] < at[k]
  BY <1>8 DEF Places
<1>10. Len(out) \in Nat /\ out \in [1..Len(out) -> Nodes] /\ DOMAIN out = 1..Len(out)
  BY <1>7, LenProperties
<1>11. \A k \in 1..Len(out) : at[k] \in kept /\ out[k] \in NodesNamed(R)
  BY <1>6, <1>9
<1>12. out \in Seq(NodesNamed(R))
  <2>1. out \in [1..Len(out) -> NodesNamed(R)]
    BY <1>10, <1>11
  <2> QED BY <1>10, <2>1, IsASeq
<1>13. Distinct(out)
  <2> SUFFICES ASSUME NEW j \in 1..Len(out), NEW k \in 1..Len(out), out[j].name = out[k].name, j # k
               PROVE  FALSE
    BY <1>10 DEF Distinct
  <2>1. at[j] \in DOMAIN page /\ at[k] \in DOMAIN page /\ page[at[j]].name = page[at[k]].name
    BY <1>9, <1>11 DEF kept
  <2>2. at[j] = at[k] /\ at[j] \in Nat
    BY <1>1, <2>1 DEF Distinct
  <2>3. j < k \/ k < j
    BY <1>10
  <2> QED BY <1>9, <2>2, <2>3
<1> QED BY <1>4, <1>12, <1>13 DEF out, R

\* The document made of what Filter leaves of a page, or of any part of it, is
\* consistent for every page and every budget: the agent's ids count the
\* interactive elements and each is listed once, fields of forms included,
\* nothing that is hidden is in it, and its texts have no more runes than the
\* budget (agentdom/builder.go:34, dom/filter.go:35).
THEOREM DocumentsAreConsistent ==
  ASSUME NEW page \in Seq(Nodes), Distinct(page), NEW best, NEW maxChars \in Nat
  PROVE  DocumentIsConsistent(page, best, maxChars)
<1> DEFINE R == Kept(page)
           hidden == Hidden(page)
           b == Build(Filter(page), best, maxChars)
           E == Elements(Range(b.elements))
<1>1. /\ Filter(page) \in Seq(NodesNamed(R)) /\ Distinct(Filter(page))
      /\ R \in SUBSET (Nat \ {0}) /\ hidden \in SUBSET (Nat \ {0}) /\ R \intersect hidden = {}
  BY FilterLeaves
<1> HIDE DEF R, hidden
<1>2. \E built : Outlined(R, Filter(page), maxChars, b, built)
  BY <1>1, OutlineIsBuilt
<1> HIDE DEF b
<1>3. Accounts(R, b, E, {})
  BY <1>2 DEF Outlined
<1> HIDE DEF E
<1>4. b \in Builders(E) /\ Numbered(b, E, {}) /\ Spent(R, b, E)
  BY <1>3 DEF Accounts
<1>5. /\ Range(b.interactive) = {el \in E : el.id # 0} /\ Len(b.interactive) = b.counter
      /\ \A el \in E : el.id \in 0..b.counter
      /\ \A n \in 1..b.counter : \E el \in E : el.id = n
      /\ b.counter \in Nat
  <2>1. E \ {} = E
    OBVIOUS
  <2>2. b.counter \in Nat
    BY <1>4 DEF Builders
  <2> QED BY <1>4, <2>1, <2>2 DEF Numbered
<1>6. {el.id : el \in Range(b.interactive)} = 1..Len(b.interactive)
  BY <1>5
<1>7. \A el \in E : ({el.node} \union Range(el.text)) \intersect hidden = {}
  <2> SUFFICES ASSUME NEW el \in E PROVE ({el.node} \union Range(el.text)) \intersect hidden = {}
    OBVIOUS
  <2> DEFINE T == R \union {Space, Ellipsis}
  <2>1. el.node \in R /\ el.text \in Seq(T)
    BY <1>4 DEF Spent, Fine
  <2>2. Range(el.text) \in SUBSET T
    <3> HIDE DEF T
    <3> QED BY <2>1, RangeOfSeq
  <2>3. Space \notin hidden /\ Ellipsis \notin hidden
    BY <1>1 DEF Space, Ellipsis
  <2> QED BY <1>1, <2>1, <2>2, <2>3
<1>8. MapThenSumSet(RunesIn, E) = Total(RunesOfElements, E)
  BY <1>4, ElementsAreTotal DEF Spent
<1>9. b.maxChars = 0 \/ MapThenSumSet(RunesIn, E) <= b.maxChars
  BY <1>4, <1>8 DEF Spent
<1>10. \A el \in E :
         IsCut(el) => /\ \A other \in E : IsCut(other) => other = el
                      /\ MapThenSumSet(RunesIn, E) = b.maxChars
  BY <1>4, <1>8 DEF Spent
<1>11. Consistent(b, E, hidden)
  BY <1>5, <1>6, <1>7, <1>9, <1>10 DEF Consistent
<1> QED BY <1>11 DEF DocumentIsConsistent, b, E, hidden, Hidden

LEMMA InputIsPage == Spec => [](part = "pages" => input \in Seq(PageNodes))
<1>1. Init => (part = "pages" => input \in Seq(PageNodes))
  BY EmptySeq DEF Init
<1>2. (part = "pages" => input \in Seq(PageNodes)) /\ [Next]_<<part, input>>
        => (part = "pages" => input \in Seq(PageNodes))'
  <2> SUFFICES ASSUME part = "pages" => input \in Seq(PageNodes), Next, part' = "pages"
               PROVE  input' \in Seq(PageNodes)
    OBVIOUS
  <2>1. part = "pages" /\ input \in Seq(PageNodes)
    BY DEF Next
  <2>2. PICK x \in Alphabet["pages"] : input' = Append(input, x)
    BY <2>1 DEF Next
  <2>3. x \in PageNodes
    BY <2>2 DEF Alphabet
  <2> QED BY <2>1, <2>2, <2>3, AppendProperties
<1> QED BY <1>1, <1>2, PTL DEF Spec

\* So the invariant of the run holds for pages of every size: what BestBlock
\* chooses is best, and what Builder makes of any part of a page is consistent
\* (semantic/score.go:38, agentdom/builder.go:34).
THEOREM PagesStayOutlined == Spec => []PagesAreOutlined
<1>1. ASSUME part = "pages" => input \in Seq(PageNodes) PROVE PagesAreOutlined
  <2> SUFFICES ASSUME part = "pages", input \in Seq(PageNodes) PROVE PagesAreOutlined
    BY <1>1 DEF PagesAreOutlined
  <2> DEFINE page == [i \in DOMAIN input |-> Node(i, input[i].tag, input[i].depth, input[i].runes)]
  <2>1. Len(input) \in Nat /\ DOMAIN input = 1..Len(input) /\ \A i \in 1..Len(input) : input[i] \in PageNodes
    BY LenProperties, ElementOfSeq
  <2>2. \A i \in 1..Len(input) : page[i] \in Nodes /\ page[i].name = i
    <3> SUFFICES ASSUME NEW i \in 1..Len(input) PROVE page[i] \in Nodes /\ page[i].name = i
      OBVIOUS
    <3>1. page[i] = [name |-> i, tag |-> input[i].tag, depth |-> input[i].depth, runes |-> input[i].runes]
      BY <2>1 DEF Node
    <3>2. input[i].tag \in Tags /\ input[i].depth \in Nat /\ input[i].runes \in Nat
      <4> DEFINE x == input[i]
                 Typed == x.tag \in Tags /\ x.depth \in Nat /\ x.runes \in Nat
                 Elems == [tag : {"p", "div", "section", "form", "a", "script"}, depth : 1..3, runes : {0}]
                 Leafs == [tag : {"text"}, depth : 1..4, runes : {2}]
      <4>1. x \in Elems \/ x \in Leafs
        BY <2>1 DEF PageNodes
      <4> HIDE DEF x
      <4>2. ASSUME x \in Elems PROVE Typed
        BY <4>2 DEF Tags
      <4>3. ASSUME x \in Leafs PROVE Typed
        BY <4>3 DEF Tags
      <4> QED BY <4>1, <4>2, <4>3 DEF x
    <3>3. i \in Nat \ {0}
      BY <2>1
    <3> HIDE DEF page
    <3> QED BY <3>1, <3>2, <3>3 DEF Nodes
  <2>3. page \in Seq(Nodes)
    <3>1. page \in [1..Len(input) -> Nodes]
      BY <2>1, <2>2
    <3> HIDE DEF page
    <3> QED BY <2>1, <3>1, IsASeq
  <2>4. Distinct(page)
    BY <2>1, <2>2 DEF Distinct
  <2> HIDE DEF page
  <2>5. Filter(page) \in Seq(Nodes)
    <3>1. Filter(page) \in Seq(NodesNamed(Kept(page))) /\ Kept(page) \in SUBSET (Nat \ {0})
      BY <2>3, <2>4, FilterLeaves
    <3>2. NodesNamed(Kept(page)) \in SUBSET Nodes
      BY <3>1 DEF NodesNamed, Nodes
    <3> QED BY <3>1, <3>2, SeqMonotonic
  <2>6. \A charThreshold \in {0, 2, 3, 4, 6} : BestBlockIsBest(Filter(page), charThreshold)
    BY <2>5, BestBlocksAreBest
  <2>7. \A best \in 0..Len(Filter(page)), maxChars \in {0, 2, 3, 5} :
          DocumentIsConsistent(page, best, maxChars)
    BY <2>3, <2>4, DocumentsAreConsistent
  <2> QED BY <2>6, <2>7 DEF PagesAreOutlined, page
<1>2. (part = "pages" => input \in Seq(PageNodes)) => PagesAreOutlined
  BY <1>1
<1> QED BY <1>2, InputIsPage, PTL
=============================================================================
