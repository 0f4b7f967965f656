-------------------------------- MODULE Text --------------------------------
(***************************************************************************)
(* The operations of Rust's str that the modules about text share.  A text *)
(* is a sequence of characters, or of any tokens.  External: they are the  *)
(* standard library's, as the code in src/ uses them.                      *)
(***************************************************************************)
EXTENDS Naturals, SequencesExt, FiniteSetsExt

White == {" ", "\n", "\r"}

\* s stands in t behind its first i characters.
OccursAt(s, t, i) == i + Len(s) <= Len(t) /\ SubSeq(t, i + 1, i + Len(s)) = s

HasText(t, s) == \E i \in 0..Len(t) : OccursAt(s, t, i)

\* str::find from a position on: where the occurrence starts, Len(t) + 1 if none.
FindFrom(s, t, from) ==
  LET at == {i \in from..Len(t) : OccursAt(s, t, i)} IN
  IF at = {} THEN Len(t) + 1 ELSE Min(at)

\* str::split on a text: what is between its occurrences, from left to right.
SplitOn(t, sep) ==
  FoldLeft(LAMBDA a, i :
             IF i < a.next THEN a
             ELSE IF OccursAt(sep, t, i - 1)
             THEN [parts |-> Append(a.parts, <<>>), next |-> i + Len(sep)]
             ELSE [parts |-> [a.parts EXCEPT ![Len(a.parts)] = Append(@, t[i])], next |-> i + 1],
           [parts |-> <<<<>>>>, next |-> 1], [i \in 1..Len(t) |-> i]).parts

\* str::split on any character of a set.
SplitAt(t, seps) ==
  FoldLeft(LAMBDA parts, c :
             IF c \in seps THEN Append(parts, <<>>)
             ELSE [parts EXCEPT ![Len(parts)] = Append(@, c)],
           <<<<>>>>, t)

NonEmpty(parts) == SelectSeq(parts, LAMBDA p : p # <<>>)

\* split_whitespace.
WordsOf(t) == NonEmpty(SplitAt(t, White))

\* trim_start, trim_end and trim, of the characters of a set.
TrimStartOf(t, C) ==
  LET at == {i \in DOMAIN t : t[i] \notin C} IN
  IF at = {} THEN <<>> ELSE SubSeq(t, Min(at), Len(t))
TrimEndOf(t, C) ==
  LET at == {i \in DOMAIN t : t[i] \notin C} IN
  IF at = {} THEN <<>> ELSE SubSeq(t, 1, Max(at))
TrimOf(t, C) == TrimStartOf(TrimEndOf(t, C), C)
Trim(t) == TrimOf(t, White)

\* [_]::join.
JoinBy(parts, sep) ==
  IF parts = <<>> THEN <<>>
  ELSE FoldLeft(LAMBDA t, p : t \o sep \o p, Head(parts), Tail(parts))

\* str::replace of one text by another.
Replaced(t, old, new) == JoinBy(SplitOn(t, old), new)

=============================================================================
