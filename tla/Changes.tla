------------------------------ MODULE Changes ------------------------------
(***************************************************************************)
(* Changes between two captures of a page (src/crates/amber-core/src/      *)
(* diff.rs and monitor.rs).  A text is a sequence of lines.                *)
(***************************************************************************)
EXTENDS Text

Greater(a, b) == IF a < b THEN b ELSE a

\* dp[i, j]: the longest common subsequence of old behind i and new behind j.
CommonLength(old, new) ==
  LET dp[i \in 0..Len(old), j \in 0..Len(new)] ==
        IF i = Len(old) \/ j = Len(new) THEN 0
        ELSE IF old[i + 1] = new[j + 1] THEN dp[i + 1, j + 1] + 1
        ELSE Greater(dp[i + 1, j], dp[i, j + 1])
  IN dp

RemovesNext(dp, i, j) == dp[i + 1, j] >= dp[i, j + 1]

\* diff_lines: [added, removed].
DiffLines(old, new) ==
  LET dp == CommonLength(old, new)
      a == FoldLeft(LAMBDA b, step :
             IF b.i = Len(old) \/ b.j = Len(new) THEN b
             ELSE IF old[b.i + 1] = new[b.j + 1] THEN [b EXCEPT !.i = @ + 1, !.j = @ + 1]
             ELSE IF RemovesNext(dp, b.i, b.j)
             THEN [b EXCEPT !.i = @ + 1, !.removed = Append(@, old[b.i + 1])]
             ELSE [b EXCEPT !.j = @ + 1, !.added = Append(@, new[b.j + 1])],
             [i |-> 0, j |-> 0, added |-> <<>>, removed |-> <<>>], old \o new) IN
  [added |-> a.added \o SubSeq(new, a.j + 1, Len(new)),
   removed |-> a.removed \o SubSeq(old, a.i + 1, Len(old))]

\* compare; a screenshot is a sequence of at most one image.
Compare(old, new, oldPng, newPng) ==
  LET diff == DiffLines(old, new) IN
  [content |-> diff.added # <<>> \/ diff.removed # <<>>,
   visual |-> oldPng # <<>> /\ newPng # <<>> /\ oldPng # newPng,
   diff |-> diff]

AnyChange(report) == report.content \/ report.visual

-----------------------------------------------------------------------------
\* References.

\* The ways to leave out lines of a text.
Without(t, lines) ==
  {[k \in 1..Cardinality(S) |-> t[SetToSortSeq(S, <)[k]]] :
     S \in {P \in SUBSET DOMAIN t :
       LET gone == SetToSortSeq(DOMAIN t \ P, <) IN [k \in DOMAIN gone |-> t[gone[k]]] = lines}}

Subsequences(t) == {[k \in 1..Cardinality(S) |-> t[SetToSortSeq(S, <)[k]]] : S \in SUBSET DOMAIN t}

\* What is left of either text without the lines of the diff is the same, no
\* common subsequence is longer, and only equal texts have no diff: t holds the
\* two texts, divided by "|".
DiffIsMinimal(t) ==
  LET texts == SplitAt(t, {"|"})
      old == texts[1]
      new == texts[2]
      r == Compare(old, new, <<>>, <<"png">>) IN
  Len(texts) = 2 =>
    /\ Without(old, r.diff.removed) \cap Without(new, r.diff.added) # {}
    /\ \A c \in Subsequences(old) \cap Subsequences(new) :
         Len(c) <= Len(old) - Len(r.diff.removed)
    /\ AnyChange(r) <=> old # new

=============================================================================
