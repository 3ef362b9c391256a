----------------------------- MODULE Truncation -----------------------------
(***************************************************************************)
(* internal/pipeline/truncate.go: the window of a page's head and tail     *)
(* that replaces a long text, the file that keeps the whole of it, and the *)
(* offset the footer gives.  A text is the sequence of the widths, in      *)
(* bytes, of its runes; its bytes are pairs of a rune and a place in it.   *)
(***************************************************************************)
EXTENDS Naturals, SequencesExt

\* The bytes of runes 1 to n, and where rune n + 1 starts: what range over the
\* string gives for it.
RuneOf(text, i) == [b \in 1..text[i] |-> <<i, b>>]
BytesOf(text, n) == FlattenSeq([i \in 1..n |-> RuneOf(text, i)])
Bytes(text) == BytesOf(text, Len(text))
StartOf(text, n) == Len(BytesOf(text, n))

\* With the default ratios the window is the limit, four fifths of it head.
HeadSize(limit) == IF (4 * limit) \div 5 = 0 THEN 1 ELSE (4 * limit) \div 5
TailSize(limit) == limit - (4 * limit) \div 5

\* len(string(s[i])) takes the first byte of a rune for a rune: one byte when
\* it is ASCII, two when it is any other.
WidthOfByte(width) == IF width = 1 THEN 1 ELSE 2

TruncateTo(text, n) ==
  IF n \in DOMAIN text
  THEN SubSeq(Bytes(text), 1, StartOf(text, n - 1) + WidthOfByte(text[n]))
  ELSE Bytes(text)

TailOf(text, n) ==
  IF Len(text) <= n
  THEN Bytes(text)
  ELSE SubSeq(Bytes(text), StartOf(text, Len(text) - n) + 1, Len(Bytes(text)))

\* Mutant: counts runes.
ComputeTailOffsetInRunes(text, n) == IF Len(text) <= n THEN 0 ELSE Len(text) - n

ComputeTailOffset(text, n) ==
  IF Len(text) <= n THEN 0 ELSE StartOf(text, Len(text) - n)

\* Whole runes from the front, as many as fit.
CapBytes(text, maxBytes) ==
  LET fits == {n \in 0..Len(text) : StartOf(text, n) <= maxBytes}
  IN  BytesOf(text, CHOOSE n \in fits : \A m \in fits : m <= n)

\* The outcomes of TruncateAndStore: the text as it is, with or without an
\* error; or the window, the file and the offset of the footer.
Unchanged(text, error) == [stored |-> FALSE, head |-> Bytes(text), error |-> error]

TruncateAndStore(text, limit, maxStored, canStore) ==
  CASE Len(text) <= limit -> Unchanged(text, FALSE)
    [] Len(text) > limit /\ ~canStore -> Unchanged(text, TRUE)
    [] OTHER ->
        [stored |-> TRUE,
         head   |-> TruncateTo(text, HeadSize(limit)),
         tail   |-> TailOf(text, TailSize(limit)),
         file   |-> CapBytes(text, maxStored),
         offset |-> ComputeTailOffset(text, TailSize(limit)),
         error  |-> FALSE]

-----------------------------------------------------------------------------
\* The head of a stored text is its first runes, whole ("returns the first n
\* runes of s", truncate.go:125).
HeadIsFirst(text, limit) ==
  LET out == TruncateAndStore(text, limit, Len(Bytes(text)), TRUE)
  IN  out.stored => out.head = BytesOf(text, HeadSize(limit))

\* The tail is all that follows the other runes; the file holds whole runes and
\* never more than maxStored bytes, and unless that cut it, what lies at the
\* footer's offset is the tail.
OffsetFindsTail(text, limit, maxStored) ==
  LET out == TruncateAndStore(text, limit, maxStored, TRUE)
  IN  out.stored =>
        /\ BytesOf(text, Len(text) - TailSize(limit)) \o out.tail = Bytes(text)
        /\ Len(out.file) <= maxStored
        /\ \E n \in 0..Len(text) : out.file = BytesOf(text, n)
        /\ Len(Bytes(text)) <= maxStored =>
             SubSeq(out.file, out.offset + 1, Len(out.file)) = out.tail
=============================================================================
