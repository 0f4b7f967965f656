-------------------------------- MODULE Words -------------------------------
(***************************************************************************)
(* Texts by their words, all in src/crates/amber-core/src/.  Token budgets *)
(* (budget.rs): an estimate, the text that fits a budget, and the chunks   *)
(* of a text that fit it.  Offline search (semantic.rs): words hashed into *)
(* buckets, ranked by the cosine of the counts.  Scores are compared as    *)
(* the real numbers they approximate: a cosine is a square root of         *)
(* [num, den], so that normalizing a vector first changes nothing.         *)
(*                                                                         *)
(* A definition whose name starts with Bug is a seeded defect the model    *)
(* checker must detect; no specification uses it.                          *)
(***************************************************************************)
EXTENDS Text

CONSTANTS
  CharsPerToken,   \* the rule of thumb: 4 characters per token
  Dim              \* buckets of an embedding

ASSUME BudgetAssumption == CharsPerToken \in Nat \ {0}

\* HashingEmbedder::new takes at least one bucket.
ASSUME SemanticAssumption == Dim \in Nat \ {0}

-----------------------------------------------------------------------------
\* budget.rs.

Larger(a, b) == IF a < b THEN b ELSE a

EstimateTokens(t) == Larger(Len(t) \div CharsPerToken, Len(WordsOf(t)))

\* What is before the last white space, without that before it.
DropLastWord(t) ==
  LET at == {i \in DOMAIN t : t[i] \in White} IN
  IF at = {} THEN <<>> ELSE TrimEndOf(SubSeq(t, 1, Max(at) - 1), White)

\* truncate_to_tokens: a guess from the number of characters, then words are
\* dropped until the estimate is within the budget.
Truncate(t, n) ==
  IF EstimateTokens(t) <= n THEN t
  ELSE IF n = 0 THEN <<>>
  ELSE LET end == IF n * CharsPerToken < Len(t) THEN n * CharsPerToken ELSE Len(t) IN
       FoldLeft(LAMBDA out, c : IF EstimateTokens(out) > n THEN DropLastWord(out) ELSE out,
                DropLastWord(SubSeq(t, 1, end)), t)

\* Packs pieces greedily: [chunks, cur], the chunks that are complete and the
\* one under construction.
Pack(a, piece, sep, n) ==
  IF a.cur = <<>> THEN [a EXCEPT !.cur = piece]
  ELSE IF EstimateTokens(a.cur \o sep \o piece) <= n
  THEN [a EXCEPT !.cur = @ \o sep \o piece]
  ELSE [chunks |-> Append(a.chunks, a.cur), cur |-> piece]

Flush(a) == a.chunks \o (IF a.cur = <<>> THEN <<>> ELSE <<a.cur>>)

\* split_paragraph.
SplitParagraph(para, n) ==
  Flush(FoldLeft(LAMBDA a, w : Pack(a, w, <<" ">>, n),
                 [chunks |-> <<>>, cur |-> <<>>], WordsOf(para)))

Paragraphs(t) ==
  NonEmpty(LET parts == SplitOn(t, <<"\n", "\n">>) IN [i \in DOMAIN parts |-> Trim(parts[i])])

BugChunkText(t, n) ==   \* what was being packed comes after the large paragraph
  IF n = 0 THEN <<>> ELSE
  Flush(FoldLeft(LAMBDA a, p :
                   IF EstimateTokens(p) > n
                   THEN [a EXCEPT !.chunks = @ \o SplitParagraph(p, n)]
                   ELSE Pack(a, p, <<"\n", "\n">>, n),
                 [chunks |-> <<>>, cur |-> <<>>], Paragraphs(t)))

ChunkText(t, n) ==
  IF n = 0 THEN <<>> ELSE
  Flush(FoldLeft(LAMBDA a, p :
                   IF EstimateTokens(p) > n
                   THEN [chunks |-> Flush(a) \o SplitParagraph(p, n), cur |-> <<>>]
                   ELSE Pack(a, p, <<"\n", "\n">>, n),
                 [chunks |-> <<>>, cur |-> <<>>], Paragraphs(t)))

-----------------------------------------------------------------------------
\* semantic.rs.

Lowered == [c \in {"x", "y", "X"} |-> IF c = "X" THEN "x" ELSE c]

\* tokenize: runs of alphanumeric characters, in lower case.
Tokenize(t) ==
  LET words == NonEmpty(SplitAt(t, {" ", "."})) IN
  [i \in DOMAIN words |-> [j \in DOMAIN words[i] |-> Lowered[words[i][j]]]]

\* fnv1a, as any hash that takes each character into account.
Code == [x |-> 1, y |-> 2]
Hash(word) == FoldLeft(LAMBDA h, c : 5 * (h + Code[c]), 3, word)

\* HashingEmbedder::embed.
Embed(t) ==
  [b \in 0..(Dim - 1) |-> Len(SelectSeq(Tokenize(t), LAMBDA w : Hash(w) % Dim = b))]

Dot(u, v) == FoldLeft(+, 0, [i \in 1..Dim |-> u[i - 1] * v[i - 1]])

\* cosine_similarity: counts are not negative, so its square ranks alike; 0 if
\* either vector is zero.
Cosine(u, v) ==
  IF Dot(u, u) > 0 /\ Dot(v, v) > 0
  THEN [num |-> Dot(u, v) * Dot(u, v), den |-> Dot(u, u) * Dot(v, v)]
  ELSE [num |-> 0, den |-> 1]

\* u is closer to q than v.
Closer(q, u, v) ==
  Cosine(q, u).num * Cosine(q, v).den > Cosine(q, v).num * Cosine(q, u).den

\* SemanticIndex::search over the texts that were added: a stable sort by
\* descending similarity, cut to k.
Search(query, texts, k) ==
  LET q == Embed(query)
      v == [i \in DOMAIN texts |-> Embed(texts[i])]
      Precedes(i, j) == Closer(q, v[i], v[j]) \/ (~Closer(q, v[j], v[i]) /\ i < j)
      ranked == SetToSortSeq(DOMAIN texts, Precedes) IN
  SubSeq(ranked, 1, IF k < Len(ranked) THEN k ELSE Len(ranked))

-----------------------------------------------------------------------------
\* References.

\* Every word of a truncated text is one of the original, in its place, and the
\* estimate is within the budget whichever of its two terms is the larger; a text
\* that fits is not truncated.
TruncatesAtWords(t, n) ==
  LET out == Truncate(t, n) IN
  /\ EstimateTokens(out) <= n
  /\ EstimateTokens(t) <= n => out = t
  /\ IsPrefix(out, t) /\ IsPrefix(WordsOf(out), WordsOf(t))

\* Chunks hold all words in their order; each is within the budget or a single
\* word; and a paragraph within the budget is in one chunk.
ChunksKeepText(t, n) ==
  LET chunks == ChunkText(t, n) IN
  n > 0 =>
    /\ FlattenSeq([i \in DOMAIN chunks |-> WordsOf(chunks[i])]) = WordsOf(t)
    /\ \A i \in DOMAIN chunks :
         EstimateTokens(chunks[i]) <= n \/ Len(WordsOf(chunks[i])) = 1
    /\ \A p \in ToSet(Paragraphs(t)) :
         EstimateTokens(p) <= n => \E i \in DOMAIN chunks : HasText(chunks[i], p)

\* A query that is indexed word for word, in any case and punctuation, is found
\* first, or behind texts that are multiples of it; and a text that shares no
\* bucket with the query never displaces one that does.  Words that are hashed
\* into one bucket are not told apart.  t holds the query and
\* the texts, divided by "|".
SearchRanks(t) ==
  LET parts == SplitAt(t, {"|"})
      query == Head(parts)
      texts == Tail(parts)
      Shares(i) == \E b \in 0..(Dim - 1) : Embed(query)[b] > 0 /\ Embed(texts[i])[b] > 0
      Multiple(i) == Cosine(Embed(query), Embed(texts[i])).num = Cosine(Embed(query), Embed(texts[i])).den
      Same(i) == Tokenize(texts[i]) = Tokenize(query) /\ Tokenize(query) # <<>> IN
  \A k \in 1..(Len(texts) + 1) :
    LET found == Search(query, texts, k) IN
    /\ Len(found) = Cardinality(ToSet(found))
    /\ Len(found) = IF k < Len(texts) THEN k ELSE Len(texts)
    /\ (\E i \in DOMAIN texts : Same(i)) => Multiple(found[1])
    /\ \A i \in DOMAIN texts : \A n \in DOMAIN found :
         Shares(i) /\ ~Shares(found[n]) => \E m \in 1..(n - 1) : found[m] = i

=============================================================================
