------------------------------- MODULE Mhtml -------------------------------
(***************************************************************************)
(* The MHTML bundle a browser returns, made into one page                  *)
(* (src/crates/amber-core/src/inline.rs).                                  *)
(*                                                                         *)
(* First the bundle is taken apart: multipart framing and transfer         *)
(* encodings.  In a body the token "--B" is the delimiter, wherever it     *)
(* stands, and "--" what makes it the last one.                            *)
(*                                                                         *)
(* Then mhtml_to_single_file_html: which part is the page, and how         *)
(* references to the others become data: URIs.  A page is a sequence of    *)
(* tokens, tags and attribute names among them; every URL is one token,    *)
(* and a data: URI three, for it has a comma.                              *)
(*                                                                         *)
(* A definition whose name starts with Bug is a seeded defect the model    *)
(* checker must detect; no specification uses it.                          *)
(***************************************************************************)
EXTENDS Text

LineEnds == {"\r", "\n"}

\* split_headers: at the first blank line, CRLF before LF.
SplitHeaders(raw) ==
  LET crlf == FindFrom(<<"\r", "\n", "\r", "\n">>, raw, 0)
      lf == FindFrom(<<"\n", "\n">>, raw, 0) IN
  IF crlf <= Len(raw)
  THEN [head |-> SubSeq(raw, 1, crlf), body |-> SubSeq(raw, crlf + 5, Len(raw))]
  ELSE IF lf <= Len(raw)
  THEN [head |-> SubSeq(raw, 1, lf), body |-> SubSeq(raw, lf + 3, Len(raw))]
  ELSE [head |-> raw, body |-> <<>>]

Continues(line, out) == line # <<>> /\ line[1] = " " /\ out # <<>>

\* parse_headers: a line that starts with white space continues the one before;
\* a line without a colon is dropped.
ParseHeaders(block) ==
  FoldLeft(LAMBDA out, raw :
             LET line == IF raw # <<>> /\ Last(raw) = "\r" THEN Front(raw) ELSE raw
                 colon == FindFrom(<<":">>, line, 0) IN
             IF Continues(line, out)
             THEN [out EXCEPT ![Len(out)].value = @ \o <<" ">> \o Trim(line)]
             ELSE IF colon > Len(line) THEN out
             ELSE Append(out, [name |-> Trim(SubSeq(line, 1, colon)),
                               value |-> Trim(SubSeq(line, colon + 2, Len(line)))]),
           <<>>, SplitAt(block, {"\n"}))

-----------------------------------------------------------------------------
\* split_multipart.


AtLineStart(body, i) == i = 1 \/ body[i - 1] = "\n"

Delimiters(body) == {i \in DOMAIN body : body[i] = "--B" /\ AtLineStart(body, i)}

\* The delimiters up to the one that ends the bundle; a delimiter within the
\* line of another one is skipped with that line.
Ending(body, i) == i < Len(body) /\ body[i + 1] = "--"

LineEndAfter(body, i) ==
  LET at == {j \in i..Len(body) : body[j] = "\n"} IN
  IF at = {} THEN Len(body) ELSE Min(at)

\* Each part lies between two delimiters: behind the line of the first, and
\* without the line end that belongs to the second.  What follows the last
\* delimiter is no part.
SplitMultipart(body) ==
  LET all == Delimiters(body)
      last == IF \E i \in all : Ending(body, i)
              THEN Min({i \in all : Ending(body, i)}) ELSE Len(body)
      at == SetToSortSeq({i \in all : i <= last}, <)
      Segment(k) == TrimEndOf(SubSeq(body, LineEndAfter(body, at[k]) + 1, at[k + 1] - 1), LineEnds)
  IN NonEmpty([k \in 1..(Len(at) - 1) |-> Segment(k)])

-----------------------------------------------------------------------------
\* Transfer encodings.  "3" and "D" are hexadecimal digits, and "=3D" stands
\* for "="; what other pairs stand for is one character.

IsHex(c) == c \in {"3", "D"}
ByteOf(hi, lo) == IF hi = "3" /\ lo = "D" THEN "=" ELSE "#"

RECURSIVE DecodeFrom(_, _)

\* The length of a soft line break at i, 0 if there is none.
SoftBreak(b, i) ==
  IF OccursAt(<<"\n">>, b, i) THEN 2 ELSE IF OccursAt(<<"\r", "\n">>, b, i) THEN 3 ELSE 0

\* decode_quoted_printable, from position i: a malformed escape is kept.
DecodeFrom(b, i) ==
  IF i > Len(b) THEN <<>>
  ELSE IF b[i] = "=" /\ SoftBreak(b, i) > 0 THEN DecodeFrom(b, i + SoftBreak(b, i))
  ELSE IF b[i] = "=" /\ i + 2 <= Len(b) /\ IsHex(b[i + 1]) /\ IsHex(b[i + 2])
  THEN <<ByteOf(b[i + 1], b[i + 2])>> \o DecodeFrom(b, i + 3)
  ELSE <<b[i]>> \o DecodeFrom(b, i + 1)

DecodeQuotedPrintable(b) == DecodeFrom(b, 1)

\* decode_base64 ignores white space; a text that is not base64 decodes to
\* nothing.  Here a digit stands for what it encodes.
DecodeBase64(b) ==
  LET cleaned == SelectSeq(b, LAMBDA c : c \notin White) IN
  IF \E i \in DOMAIN cleaned : ~IsHex(cleaned[i]) THEN <<>> ELSE cleaned

\* decode_body.
DecodeBody(b, encoding) ==
  CASE encoding = "base64" -> DecodeBase64(b)
    [] encoding = "quoted-printable" -> DecodeQuotedPrintable(b)
    [] OTHER -> b

-----------------------------------------------------------------------------
\* The parameters of a bundle and the fields of a part.  The token "boundary"
\* stands for the word in any case.

NoBoundary == <<"none">>

\* Where an unquoted boundary ends.
BoundaryEnd(after) ==
  LET at == {i \in DOMAIN after : after[i] = ";" \/ after[i] \in White} IN
  IF at = {} THEN Len(after) ELSE Min(at) - 1

\* extract_boundary.
ExtractBoundary(type) ==
  LET pos == FindFrom(<<"boundary">>, type, 0)
      after == TrimStartOf(SubSeq(type, pos + 2, Len(type)), White)
      value == TrimStartOf(Tail(after), White)
      close == FindFrom(<<"Q">>, value, 1) IN
  IF pos > Len(type) \/ after = <<>> \/ Head(after) # "=" THEN NoBoundary
  ELSE IF value = <<>> THEN NoBoundary
  ELSE IF Head(value) = "Q" THEN IF close > Len(value) THEN NoBoundary ELSE SubSeq(value, 2, close)
  ELSE IF BoundaryEnd(value) = 0 THEN NoBoundary ELSE SubSeq(value, 1, BoundaryEnd(value))

\* strip_angle_brackets: a pair of them, or none.
StripAngleBrackets(t) ==
  IF Len(t) >= 2 /\ Head(t) = "<" /\ Last(t) = ">" THEN SubSeq(t, 2, Len(t) - 1) ELSE t

\* parse_part: of a header that comes twice, the first.
ParsePart(raw) ==
  LET split == SplitHeaders(raw)
      headers == ParseHeaders(split.head)
      Get(name, default) ==
        LET of == SelectSeq(headers, LAMBDA h : h.name = <<name>>) IN
        IF of = <<>> THEN default ELSE Head(of).value
      encoding == Trim(Get("content-transfer-encoding", <<>>)) IN
  [mime |-> Trim(Head(SplitAt(Get("content-type", <<"octet-stream">>), {";"}))),
   location |-> Trim(Get("content-location", <<>>)),
   content_id |-> StripAngleBrackets(Trim(Get("content-id", <<>>))),
   body |-> DecodeBody(split.body, IF encoding = <<>> THEN "" ELSE Head(encoding))]

-----------------------------------------------------------------------------
\* What a sender does, as a reference.

\* A boundary comes back as a sender stated it: quoted, when it has characters
\* that would end it, or not.
BoundaryReturns(t) ==
  "Q" \notin ToSet(t) =>
    /\ ExtractBoundary(<<"x", ";", " ", "boundary", "=", "Q">> \o t \o <<"Q", ";", "x">>) = t
    /\ (t # <<>> /\ ToSet(t) \cap {";", " "} = {}) =>
         /\ ExtractBoundary(<<"x", ";", "boundary", " ", "=", " ">> \o t \o <<" ", "x">>) = t
         /\ ExtractBoundary(<<"boundary", "=">> \o t) = t

\* Each field of a part is what its first header means, whatever the order of
\* the headers; t holds headers, [field, value, means].
PartReturns(t) ==
  LET Bytes(body) ==
        FlattenSeq([i \in DOMAIN t |-> <<t[i].field, ":", " ">> \o t[i].value \o <<"\r", "\n">>])
          \o <<"\r", "\n">> \o body
      Means(name, default) ==
        LET of == {i \in DOMAIN t : t[i].field = name} IN
        IF of = {} THEN default ELSE t[Min(of)].means
      Stated(body) == ParsePart(Bytes(body)) IN
  t # <<>> =>
  /\ Stated(<<"3">>).mime = Means("content-type", <<"octet-stream">>)
  /\ Stated(<<"3">>).location = Means("content-location", <<>>)
  /\ Stated(<<"3">>).content_id = Means("content-id", <<>>)
  /\ LET encoding == Means("content-transfer-encoding", <<"8bit">>)[1] IN
     /\ Stated(<<"=", "3", "D">>).body =
          CASE encoding = "8bit" -> <<"=", "3", "D">>
            [] encoding = "quoted-printable" -> <<"=">>
            [] encoding = "base64" -> <<>>
     /\ Stated(<<"3", "\n", "D">>).body = IF encoding = "base64" THEN <<"3", "D">> ELSE <<"3", "\n", "D">>

\* Characters a sender escapes, and a soft break it may put before any of them.
Encoded(t, breaks) ==
  FlattenSeq([i \in DOMAIN t |->
    (IF i \in breaks THEN <<"=", "\r", "\n">> ELSE <<>>) \o
    (IF t[i] = "=" THEN <<"=", "3", "D">> ELSE <<t[i]>>)])

\* However a sender breaks its lines, what it encoded comes back.
QuotedPrintableReturns(t) ==
  \A i, j \in 1..Len(t) :
    /\ DecodeBody(Encoded(t, {i, j}), "quoted-printable") = t
    /\ DecodeBody(t, "8bit") = t

\* A bundle of the given parts, each with the line end of the delimiter behind it.
Bundle(parts) ==
  FlattenSeq([i \in DOMAIN parts |-> <<"--B", "\n">> \o parts[i] \o <<"\r", "\n">>])
    \o <<"--B", "--", "\n">>

EndsInLineEnd(t) == t # <<>> /\ Last(t) \in LineEnds

\* A bundle is split as it was put together, into the parts that are not empty:
\* t holds parts divided by "|", without a line that starts like the delimiter
\* and without a line end at their end, which the split takes for the delimiter's.
PartsReturn(t) ==
  LET parts == SplitAt(t, {"|"}) IN
  (\A i \in DOMAIN parts :
     /\ ~EndsInLineEnd(parts[i])
     /\ \A line \in ToSet(SplitAt(parts[i], {"\n"})) : line = <<>> \/ line[1] # "--B") =>
    SplitMultipart(Bundle(parts)) = NonEmpty(parts)

\* A text that was encoded, with a soft break before any of its characters, the
\* first included, and made a part of a bundle comes out of it as it was.  The
\* text has no line end at its end; behind it a sender has no line to break.
TextReturns(t) ==
  ~EndsInLineEnd(t) =>
  \A breaks \in {{i, j} : i, j \in 1..Len(t)} \cup {{}} :
    LET part == <<"content-transfer-encoding", ":", " ", "quoted-printable",
                  "\r", "\n", "\r", "\n">> \o Encoded(t, breaks)
        out == SplitMultipart(Bundle(<<part, part>>)) IN
    /\ Len(out) = 2
    /\ \A k \in {1, 2} : ParsePart(out[k]).body = t

\* The headers of a part come back when lines are folded: t holds the words of
\* one header, each on a line of its own.
FoldedReturns(t) ==
  LET folded == FlattenSeq([i \in DOMAIN t |-> <<"\r", "\n", " ", t[i]>>])
      raw == <<"k", ":">> \o folded \o <<"\r", "\n", "j", ":", "v", "\r", "\n", "\r", "\n">> \o t
      split == SplitHeaders(raw) IN
  (\A i \in DOMAIN t : t[i] \notin White) =>
    /\ split.body = t
    /\ ParseHeaders(split.head) =
         <<[name |-> <<"k">>, value |-> FlattenSeq([i \in DOMAIN t |-> <<" ", t[i]>>])],
           [name |-> <<"j">>, value |-> <<"v">>]>>

-----------------------------------------------------------------------------
\* The page, and its references.

\* A part: [mime, location, cid, body]; "" is no location and no Content-ID.

\* build_data_uri.
DataUri(part) == <<"data:", ",", part.payload>>

\* MhtmlDoc::parse: the root is the first part at the bundle's location, else
\* the first HTML part, else the first part.
FirstPart(at) == IF at = {} THEN 0 ELSE Min(at)

IsHtmlPart(p) == p.mime = "html"
HtmlParts(parts) == {i \in DOMAIN parts : IsHtmlPart(parts[i])}

RootPart(parts, location) ==
  LET there == FirstPart({i \in DOMAIN parts : location # "" /\ parts[i].location = location})
      html == FirstPart(HtmlParts(parts)) IN
  IF there > 0 THEN there ELSE IF html > 0 THEN html ELSE 1

\* root_html: the root if it is HTML, else any HTML part; 0 is none.
RootHtml(parts, location) ==
  LET root == RootPart(parts, location) IN
  IF IsHtmlPart(parts[root]) THEN root ELSE FirstPart(HtmlParts(parts))

\* Every part but the root has a data: URI.
Inlined(parts, location) == (DOMAIN parts) \ {RootPart(parts, location)}

\* The lookup the URIs are kept in; of two parts under one key the last wins.
Keys(p) == {k \in {p.location, p.cid} : k # ""}
DataUris(parts, location) ==
  LET named == {i \in Inlined(parts, location) : Keys(parts[i]) # {}} IN
  [u \in UNION {Keys(parts[i]) : i \in named} |->
     DataUri(parts[Max({i \in named : u \in Keys(parts[i])})])]

\* css_parts_by_location.
CssParts(parts) ==
  LET css == {i \in DOMAIN parts : parts[i].mime = "css" /\ parts[i].location # ""} IN
  [u \in {parts[i].location : i \in css} |->
     parts[Max({i \in css : parts[i].location = u})].body]

-----------------------------------------------------------------------------
\* Scanning.

Quotes == {"\"", "'"}

NextOf(t, from, c) ==
  LET at == {i \in from..Len(t) : t[i] = c} IN IF at = {} THEN 0 ELSE Min(at)

\* What a lookup has for a text that is one known URL, else the text itself.
Looked(uris, url) == IF Len(url) = 1 /\ url[1] \in DOMAIN uris THEN uris[url[1]] ELSE url

\* strip_quotes.
IsQuoted(s) == Len(s) >= 2 /\ s[1] \in Quotes /\ Last(s) = s[1]
Unquoted(s) == IF IsQuoted(s) THEN SubSeq(s, 2, Len(s) - 1) ELSE s

RECURSIVE InlineCssUrls(_, _)

\* inline_css_urls: what is between "url(" and the next ")".
InlineCssUrls(t, uris) ==
  LET at == NextOf(t, 1, "url(")
      close == NextOf(t, at + 1, ")")
      inner == Trim(SubSeq(t, at + 1, close - 1))
      found == Looked(uris, Unquoted(inner)) IN
  IF at = 0 \/ close = 0 THEN t
  ELSE SubSeq(t, 1, at) \o
       (IF found = Unquoted(inner) THEN SubSeq(t, at + 1, close - 1)
        ELSE IF IsQuoted(inner) THEN <<inner[1]>> \o found \o <<inner[1]>> ELSE found) \o
       <<")">> \o InlineCssUrls(SubSeq(t, close + 1, Len(t)), uris)

\* attr_value: of the first attribute of that name, quoted or up to white space
\* or the tag's end.  A name and its "=" are one token.
AttrValue(tag, name) ==
  LET at == {i \in 2..Len(tag) : tag[i] = name /\ tag[i - 1] = " "}
      value == TrimStartOf(SubSeq(tag, Min(at) + 1, Len(tag)), White) IN
  IF at = {} \/ value = <<>> THEN <<>>
  ELSE IF value[1] \in Quotes THEN SubSeq(value, 2, NextOf(value, 2, value[1]) - 1)
  ELSE Head(SplitAt(value, White \cup {">"}))

\* is_stylesheet_link: "stylesheet" is among the words of rel.
IsStylesheetLink(tag) == <<"stylesheet">> \in ToSet(WordsOf(AttrValue(tag, "rel=")))

RECURSIVE InlineStylesheets(_, _, _)

\* inline_stylesheets: a link to a sheet of the bundle becomes that sheet.
InlineStylesheets(t, css, uris) ==
  LET at == NextOf(t, 1, "<link")
      close == NextOf(t, at + 1, ">")
      tag == SubSeq(t, at, close)
      href == AttrValue(tag, "href=") IN
  IF at = 0 \/ close = 0 THEN t
  ELSE SubSeq(t, 1, at - 1) \o
       (IF IsStylesheetLink(tag) /\ Len(href) = 1 /\ href[1] \in DOMAIN css
        THEN <<"<style>">> \o InlineCssUrls(css[href[1]], uris) \o <<"</style>">>
        ELSE tag) \o
       InlineStylesheets(SubSeq(t, close + 1, Len(t)), css, uris)

\* rewrite_srcset_value: a URL, and behind white space its descriptor.
Candidate(c, uris) ==
  LET space == NextOf(c, 1, " ")
      url == IF space = 0 THEN c ELSE SubSeq(c, 1, space - 1)
      descriptor == IF space = 0 THEN <<>> ELSE Trim(SubSeq(c, space + 1, Len(c))) IN
  Looked(uris, url) \o (IF descriptor = <<>> THEN <<>> ELSE <<" ">> \o descriptor)

RewriteSrcsetValue(v, uris) ==
  LET parts == SplitAt(v, {","}) IN
  JoinBy([i \in DOMAIN parts |-> Candidate(Trim(parts[i]), uris)], <<",", " ">>)

NewValue(attr, v, uris) ==
  IF attr = "srcset=" THEN RewriteSrcsetValue(v, uris)
  ELSE IF Looked(uris, Trim(v)) = Trim(v) THEN v ELSE Looked(uris, Trim(v))

\* rewrite_single_attr and rewrite_srcset scan alike: behind white space, and
\* a quote must follow.
IsAttr(t, i) == i > 1 /\ t[i - 1] = " " /\ i < Len(t)

RECURSIVE RewriteAttr(_, _, _, _)

RewriteAttr(t, from, attr, uris) ==
  LET at == NextOf(t, from, attr)
      close == NextOf(t, at + 2, t[at + 1])
      new == NewValue(attr, SubSeq(t, at + 2, close - 1), uris) IN
  IF at = 0 \/ at = Len(t) THEN t
  ELSE IF ~IsAttr(t, at) \/ t[at + 1] \notin Quotes THEN RewriteAttr(t, at + 1, attr, uris)
  ELSE IF close = 0 THEN t
  ELSE RewriteAttr(SubSeq(t, 1, at + 1) \o new \o SubSeq(t, close, Len(t)),
                   at + 2 + Len(new), attr, uris)

\* rewrite_references: the style sheets in the page, then its attributes.
RewriteReferences(t, uris) ==
  FoldLeft(LAMBDA u, attr : RewriteAttr(u, 1, attr, uris), InlineCssUrls(t, uris),
           <<"src=", "poster=", "href=", "srcset=">>)

\* mhtml_to_single_file_html, of the parts of a bundle and its location.
SingleFileHtml(parts, location) ==
  LET uris == DataUris(parts, location)
      root == RootHtml(parts, location) IN
  RewriteReferences(InlineStylesheets(parts[root].body, CssParts(parts), uris), uris)

-----------------------------------------------------------------------------
\* Pages as a browser serializes them: a sequence of elements, each with the
\* markup it has in the page and what it should become.

CONSTANT BundleParts   \* the parts of a bundle besides its page

Flat(elements, field(_)) == FlattenSeq([i \in DOMAIN elements |-> field(elements[i])])

\* Whatever elements a page has, and in whatever order, each comes out with its
\* references to parts inlined and all else as it was.
PageInlined(elements) ==
  LET page == [mime |-> "html", location |-> "page", cid |-> "", payload |-> "page",
               body |-> Flat(elements, LAMBDA e : e.markup)] IN
  SingleFileHtml(<<page>> \o BundleParts, "page") = Flat(elements, LAMBDA e : e.inlined)

\* Whatever parts a bundle has, if one is HTML the result is an HTML part, and a
\* reference to any part but the root is inlined.
RootIsHtml(parts) ==
  \A location \in {"", "l1", "l2"} :
    LET htmls == {i \in DOMAIN parts : IsHtmlPart(parts[i])} IN
    htmls # {} =>
      /\ RootHtml(parts, location) \in htmls
      /\ \A i \in (DOMAIN parts) \ {RootPart(parts, location)} :
           parts[i].location # "" => parts[i].location \in DOMAIN DataUris(parts, location)

=============================================================================
