------------------------------ MODULE Answers ------------------------------
(***************************************************************************)
(* From a model's response to records that can be checked: JSON out of     *)
(* prose (structured.rs), fields and their pointers (provenance.rs), the   *)
(* data set (corpus.rs) and signed manifests (evidence.rs), all in         *)
(* src/crates/amber-core/src/.  Signing and hashing are external and       *)
(* ideal: they tell all texts apart.                                       *)
(***************************************************************************)
EXTENDS Page

Fence == "fence"   \* three backticks
Quote == "\""
Backslash == "\\"

\* strip_code_fences: the first line is the language's.
StripCodeFences(t) ==
  LET line == FindFrom(<<"\n">>, t, 0)
      rest == SubSeq(t, line + 2, Len(t))
      fences == {i \in DOMAIN rest : rest[i] = Fence} IN
  IF t = <<>> \/ Head(t) # Fence THEN t
  ELSE Trim(IF fences = {} THEN rest ELSE SubSeq(rest, 1, Max(fences) - 1))

\* The scanner's state behind a character: within a string, and behind a
\* backslash there.
InString(s, c) ==
  IF s.in
  THEN [in |-> s.escaped \/ c # Quote, escaped |-> ~s.escaped /\ c = Backslash]
  ELSE [in |-> c = Quote, escaped |-> FALSE]

Counts(s) == ~s.in

\* outermost_json: from the first bracket to where those of its kind balance.
OutermostJson(t) ==
  LET starts == {i \in DOMAIN t : t[i] \in {"{", "["}}
      open == t[Min(starts)]
      close == IF open = "{" THEN "}" ELSE "]"
      a == FoldLeft(LAMBDA b, i :
             IF i < Min(starts) \/ b.end > 0 THEN b
             ELSE LET depth == IF ~Counts(b.s) THEN b.depth
                               ELSE IF t[i] = open THEN b.depth + 1
                               ELSE IF t[i] = close THEN b.depth - 1 ELSE b.depth IN
                  [s |-> InString(b.s, t[i]), depth |-> depth,
                   end |-> IF Counts(b.s) /\ t[i] = close /\ depth = 0 THEN i ELSE 0],
             [s |-> [in |-> FALSE, escaped |-> FALSE], depth |-> 0, end |-> 0],
             [i \in DOMAIN t |-> i]) IN
  IF starts = {} \/ a.end = 0 THEN <<>> ELSE SubSeq(t, Min(starts), a.end)

\* serde_json, of a grammar of nested containers with at most one member each:
\* "x" is a number, and a string holds any characters and escapes.
IsStringJson(t) ==
  /\ Len(t) >= 2 /\ t[1] = Quote
  /\ LET after == FoldLeft(LAMBDA b, i :
             [s |-> InString(b.s, t[i]), out |-> b.out \cup (IF InString(b.s, t[i]).in THEN {} ELSE {i})],
             [s |-> [in |-> FALSE, escaped |-> FALSE], out |-> {}], [i \in DOMAIN t |-> i])
     IN after.out = {Len(t)}
  /\ "\n" \notin ToSet(t)

RECURSIVE IsJson(_)
IsJson(t) ==
  LET v == Trim(t) IN
  \/ v = <<"x">> \/ IsStringJson(v)
  \/ /\ Len(v) >= 2 /\ <<Head(v), Last(v)>> \in {<<"{", "}">>, <<"[", "]">>}
     /\ LET inner == SubSeq(v, 2, Len(v) - 1) IN Trim(inner) = <<>> \/ IsJson(inner)

\* parse_json_response: <<>> is its error.
ParseJsonResponse(raw) ==
  LET trimmed == StripCodeFences(Trim(raw))
      candidate == OutermostJson(trimmed) IN
  IF IsJson(trimmed) THEN trimmed
  ELSE IF candidate # <<>> /\ IsJson(candidate) THEN candidate ELSE <<>>

-----------------------------------------------------------------------------
\* provenance.rs: a JSON value is [kind, keys, items, text], where items are the
\* members of an object or an array in order.  Keys are sequences of characters.

Leaf(text) == [kind |-> "string", keys |-> <<>>, items |-> <<>>, text |-> text]
Object(keys, items) == [kind |-> "object", keys |-> keys, items |-> items, text |-> <<>>]
Array(items) == [kind |-> "array", keys |-> <<>>, items |-> items, text |-> <<>>]
Null == [kind |-> "null", keys |-> <<>>, items |-> <<>>, text |-> <<>>]

\* An index as the text of a pointer.
Digit(i) == <<"0", "1", "2", "3">>[i]

EscapePointer(key) ==
  Replaced(Replaced(key, <<"~">>, <<"~", "0">>), <<"/">>, <<"~", "1">>)

RECURSIVE CollectFields(_, _, _)

\* collect_fields and push_leaf, over a page: [path, value, anchor].
CollectFields(d, v, path) ==
  CASE v.kind = "null" -> <<>>
    [] v.kind = "string" -> <<[path |-> path, value |-> v.text, anchor |-> AnchorFor(d, v.text)]>>
    [] OTHER -> FlattenSeq([i \in DOMAIN v.items |->
         CollectFields(d, v.items[i], path \o <<"/">> \o
           (IF v.kind = "object" THEN EscapePointer(v.keys[i]) ELSE <<Digit(i)>>))])

\* ProvenanceRecord::to_json: a field that is not on the page has null anchors.
Provenance(d, v, url) ==
  LET fields == CollectFields(d, v, <<>>) IN
  [k \in DOMAIN fields |->
    [path |-> fields[k].path, value |-> fields[k].value,
     css |-> IF fields[k].anchor = 0 THEN <<>> ELSE CssPath(d, fields[k].anchor),
     source |-> IF fields[k].anchor = 0 THEN <<>> ELSE url]]

-----------------------------------------------------------------------------
\* evidence.rs.

HexDigits == <<"0", "1", "2", "f">>
HexOf(n) == HexDigits[n + 1]

\* to_hex, of bytes of two base-four digits.
ToHex(bytes) == FlattenSeq([i \in DOMAIN bytes |-> <<HexOf(bytes[i] \div 4), HexOf(bytes[i] % 4)>>])

\* from_hex of exactly n bytes; from_str_radix also takes a sign.  <<-1>> is None.
FromHex(n, t) ==
  LET Value(c) == {k \in 0..3 : HexOf(k) = c}
      Pair(i) == IF t[2 * i - 1] = "+" THEN Value(t[2 * i])
                 ELSE {4 * h + l : h \in Value(t[2 * i - 1]), l \in Value(t[2 * i])} IN
  IF Len(t) # 2 * n \/ \E i \in 1..n : Pair(i) = {} THEN <<-1>>
  ELSE [i \in 1..n |-> CHOOSE b \in Pair(i) : TRUE]

\* ed25519 over the manifest's to_json, which is one byte here; a key pair is one
\* value.  External, and ideal: no other key or manifest has the same signature.
Signature(manifest, key) == Append(key, manifest)

\* EvidenceManifest::sign.
Sign(manifest, key) ==
  [manifest |-> manifest, publicKey |-> ToHex(key), signature |-> ToHex(Signature(manifest, key))]

\* SignedEvidence::verify, of a key of n bytes.
Verify(s, n) ==
  LET key == FromHex(n, s.publicKey)
      signature == FromHex(n + 1, s.signature) IN
  key # <<-1>> /\ signature # <<-1>> /\ signature = Signature(s.manifest, key)

-----------------------------------------------------------------------------
\* References.

Prose == <<"p", "\n">>

\* A container comes back whole from among prose and from a fenced block, with
\* whatever brackets and quotes its strings hold.
ResponseReturns(t) ==
  IsJson(t) /\ t # <<>> /\ Head(t) \in {"{", "["} /\ Last(t) \in {"}", "]"} =>
    /\ ParseJsonResponse(t) = t
    /\ ParseJsonResponse(Prose \o t \o Prose) = t
    /\ ParseJsonResponse(<<Fence, "j", "\n">> \o t \o <<"\n", Fence>>) = t
    /\ ParseJsonResponse(<<Fence, "\n">> \o Prose \o t \o <<Fence>> \o Prose) = t

\* Whatever it returns is JSON, and part of the response.
OnlyJsonReturns(t) ==
  ParseJsonResponse(t) # <<>> => IsJson(ParseJsonResponse(t)) /\ HasText(t, ParseJsonResponse(t))

\* RFC 6901: what a pointer leads to.
Unescaped(s) == Replaced(Replaced(s, <<"~", "1">>, <<"/">>), <<"~", "0">>, <<"~">>)
Members(v, segment) ==
  {v.items[i] : i \in {j \in DOMAIN v.items :
     IF v.kind = "object" THEN v.keys[j] = Unescaped(segment) ELSE <<Digit(j)>> = segment}}
Target(v, pointer) ==
  FoldLeft(LAMBDA at, segment : UNION {Members(w, segment) : w \in at},
           {v}, Tail(SplitAt(pointer, {"/"})))

\* Every string of a value is listed once, under a pointer that leads to it and
\* to nothing else, whatever characters the keys have: t holds keys divided by
\* "|", of an object whose members are a string, an array and an object.
PointersLead(t) ==
  LET keys == SplitAt(t, {"|"})
      inner == Object(keys, [i \in DOMAIN keys |-> Leaf(<<"v", Digit(i)>>)])
      v == Object(keys, [i \in DOMAIN keys |->
             CASE i = 1 -> Array(<<Null, inner, Leaf(<<"w">>)>>)
               [] i = 2 -> inner [] OTHER -> Leaf(<<"y">>)])
      fields == CollectFields(<<>>, v, <<>>) IN
  IsInjective(keys) =>
    /\ \A k \in DOMAIN fields : Target(v, fields[k].path) = {Leaf(fields[k].value)}
    /\ IsInjective([k \in DOMAIN fields |-> fields[k].path])
    /\ Len(fields) = LET n == Len(keys) IN
         n + 1 + (IF n >= 2 THEN n ELSE 0) + (IF n >= 3 THEN n - 2 ELSE 0)

\* What stands for the same bytes: a sign for a leading zero.
SameBytes(hex, i, c) == c = hex[i] \/ (c = "+" /\ hex[i] = "0" /\ i % 2 = 1)

\* A bundle verifies as it was signed, and does not with its key or its signature
\* cut short, lengthened or changed in one character, unless the character
\* stands for the same: t holds the bytes of a key.  That another manifest or
\* key does not verify is what an ideal signature gives, and not claimed here.
EvidenceReturns(t) ==
  t # <<>> =>
    LET n == Len(t)
        signed == Sign(2, t)
        With(part, hex) == [signed EXCEPT ![part] = hex] IN
    /\ Verify(signed, n)
    /\ \A part \in {"publicKey", "signature"} :
         LET hex == signed[part] IN
         /\ ~Verify(With(part, Tail(hex)), n) /\ ~Verify(With(part, Front(hex)), n)
         /\ ~Verify(With(part, Tail(Tail(hex))), n) /\ ~Verify(With(part, hex \o <<"0", "0">>), n)
         /\ \A i \in DOMAIN hex, c \in ToSet(HexDigits) \cup {"+", "x"} :
              Verify(With(part, [hex EXCEPT ![i] = c]), n) <=> SameBytes(hex, i, c)

=============================================================================
