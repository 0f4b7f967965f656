------------------------------- MODULE Markup -------------------------------
(***************************************************************************)
(* What the library reads off markup without a parser: the fallback text   *)
(* and the de-duplication of extract.rs, the visible length of detect.rs   *)
(* and the URLs of sitemap.rs.  A page is a sequence of tokens: "<script"  *)
(* and "</script>" are one token each, "<" and ">" stand for the ends of   *)
(* other tags, and an entity is "&" and what follows it.                   *)
(***************************************************************************)
EXTENDS Text

RECURSIVE StripBlock(_, _, _)

\* strip_block: an unterminated block takes the rest of the page with it.
StripBlock(open, close, t) ==
  LET start == FindFrom(<<open>>, t, 0)
      end == FindFrom(<<close>>, t, start) IN
  IF start > Len(t) THEN t
  ELSE SubSeq(t, 1, start) \o
       (IF end > Len(t) THEN <<>> ELSE StripBlock(open, close, SubSeq(t, end + 2, Len(t))))

\* What a token does to the flag "in a tag".
InTag(c, was) ==
  IF c \in {"<", "<script", "<style"} THEN TRUE
  ELSE IF c \in {">", "</script>", "</style>"} THEN FALSE ELSE was
IsMarkup(c) == InTag(c, TRUE) = InTag(c, FALSE)

StripTags(t) ==
  FoldLeft(LAMBDA a, c :
             [inTag |-> InTag(c, a.inTag),
              out |-> IF a.inTag \/ IsMarkup(c) THEN a.out ELSE Append(a.out, c)],
           [inTag |-> FALSE, out |-> <<>>], t).out

\* decode_basic_entities.
DecodeBasicEntities(t) ==
  Replaced(Replaced(t, <<"&", "amp;">>, <<"&">>), <<"&", "lt;">>, <<"<">>)

Squeezed(t) == JoinBy(WordsOf(t), <<" ">>)
Blocks(t) == SplitOn(t, <<"\n", "\n">>)

\* collapse_whitespace.
CollapseWhitespace(t) ==
  LET paras == [i \in DOMAIN Blocks(t) |-> Squeezed(Blocks(t)[i])] IN
  JoinBy(NonEmpty(paras), <<"\n", "\n">>)

FallbackText(t) ==
  CollapseWhitespace(DecodeBasicEntities(StripTags(
    StripBlock("<style", "</style>", StripBlock("<script", "</script>", t)))))

Seen(seen, block) == Squeezed(block) \in seen

\* dedup_text.
DedupText(t) ==
  JoinBy(FoldLeft(LAMBDA a, block :
                    IF Squeezed(block) = <<>> \/ Seen(a.seen, block) THEN a
                    ELSE [seen |-> a.seen \cup {Squeezed(block)},
                          kept |-> Append(a.kept, Trim(block))],
                  [seen |-> {}, kept |-> <<>>], Blocks(t)).kept,
         <<"\n", "\n">>)

-----------------------------------------------------------------------------
\* detect.rs.

\* The token that ends what this one makes the scan skip, "" if none.
Skips(c) ==
  IF c = "<script" THEN "</script>" ELSE IF c = "<style" THEN "</style>" ELSE ""

\* visible_text_len.
VisibleTextLen(t) ==
  FoldLeft(LAMBDA a, c :
             IF a.skip # "" THEN [a EXCEPT !.skip = IF c = a.skip THEN "" ELSE @]
             ELSE IF Skips(c) # "" THEN [a EXCEPT !.skip = Skips(c)]
             ELSE [skip |-> "", inTag |-> InTag(c, a.inTag),
                   len |-> IF a.inTag \/ IsMarkup(c) \/ c \in White THEN a.len ELSE a.len + 1],
           [skip |-> "", inTag |-> FALSE, len |-> 0], t).len

-----------------------------------------------------------------------------
\* sitemap.rs.

\* decode_xml_entities: the ampersand last.
DecodeXmlEntities(t) ==
  Replaced(Replaced(t, <<"&", "lt;">>, <<"<">>), <<"&", "amp;">>, <<"&">>)

RECURSIVE ParseSitemap(_)

\* parse_sitemap; a location is a URL if it is not empty.
ParseSitemap(t) ==
  LET start == FindFrom(<<"<loc>">>, t, 0)
      end == FindFrom(<<"</loc>">>, t, start)
      url == DecodeXmlEntities(Trim(SubSeq(t, start + 2, end))) IN
  IF start > Len(t) \/ end > Len(t) THEN <<>>
  ELSE (IF url = <<>> THEN <<>> ELSE <<url>>) \o ParseSitemap(SubSeq(t, end + 2, Len(t)))

-----------------------------------------------------------------------------
\* References.

\* The length that decides whether a page needs a browser is that of the text
\* the page falls back to, and an entity, which is longer than what it stands
\* for, only makes it greater; unless scripts and styles overlap.
LengthIsOfText(t) ==
  LET text == SelectSeq(FallbackText(t), LAMBDA c : c \notin White) IN
  (~\E i, j \in DOMAIN t : t[i] = "<script" /\ t[j] = "<style") =>
    /\ VisibleTextLen(t) >= Len(text)
    /\ "&" \notin ToSet(t) => VisibleTextLen(t) = Len(text)

\* A paragraph is kept where it first occurs, and only there.
DedupKeepsFirst(t) ==
  LET Paras(s) == NonEmpty([i \in DOMAIN Blocks(s) |-> Squeezed(Blocks(s)[i])])
      before == Paras(t)
      after == Paras(DedupText(t))
      firsts == {i \in DOMAIN before : \A j \in 1..(i - 1) : before[j] # before[i]} IN
  after = [k \in 1..Cardinality(firsts) |-> before[SetToSortSeq(firsts, <)[k]]]

\* What a site has to do to a URL in its sitemap.
Escaped(t) ==
  FlattenSeq([i \in DOMAIN t |->
    IF t[i] = "&" THEN <<"&", "amp;">> ELSE IF t[i] = "<" THEN <<"&", "lt;">> ELSE <<t[i]>>])

\* The URLs of a sitemap come back as they were, once: t holds URLs divided
\* by "|".
SitemapReturns(t) ==
  LET urls == NonEmpty([i \in DOMAIN SplitAt(t, {"|"}) |-> Trim(SplitAt(t, {"|"})[i])])
      entries == [i \in DOMAIN urls |-> <<"<loc>", "\n">> \o Escaped(urls[i]) \o <<" ", "</loc>">>]
  IN ParseSitemap(FlattenSeq(entries)) = urls

=============================================================================
