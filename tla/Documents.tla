------------------------------ MODULE Documents -----------------------------
(***************************************************************************)
(* A program over which algorithms on texts are checked: a part is chosen, *)
(* and its document grows by one token at a time, so that every document   *)
(* of a part, up to its bound, is a state.                                 *)
(***************************************************************************)
EXTENDS Text

CONSTANT Parts   \* <<name, tokens, length of the longest document>>

VARIABLES part, doc

TextsInit == part \in Parts /\ doc = <<>>

TextsNext == Len(doc) < part[3] /\ \E t \in part[2] : doc' = Append(doc, t) /\ UNCHANGED part

TextsSpec == TextsInit /\ [][TextsNext]_<<part, doc>>

Is(name) == part[1] = name

=============================================================================
