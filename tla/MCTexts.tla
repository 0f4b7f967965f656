------------------------------ MODULE MCTexts ------------------------------
(***************************************************************************)
(* The algorithms on texts, checked on every document of bounded length.   *)
(***************************************************************************)
EXTENDS Words, Robots, Mhtml, Markup, Archive, Answers, Changes, Wire, Options

Line(field, value) == [field |-> field, value |-> value]

TheUserAgent == <<"a", "m", "b">>
ThePaths == {<<"/">>, <<"/", "a">>, <<"/", "b">>, <<"/", "a", "a">>, <<"/", "a", "b">>, <<"/", "a", "b", "a">>}

\* The parts of a bundle, and elements with references to them.
Part(mime, location, cid, payload, body) ==
  [mime |-> mime, location |-> location, cid |-> cid, payload |-> payload, body |-> body]
TheBundleParts ==
  <<Part("img", "u", "cid:u", "U", <<>>),
    Part("css", "c", "", "C", <<"url(", " ", "u", ")", "x">>)>>
U == <<"data:", ",", "U">>
Q == "\""
Element(markup, inlined) == [markup |-> markup, inlined |-> inlined]
Kept(markup) == Element(markup, markup)
Tag(attr, value) == <<"<img", " ", attr, Q>> \o value \o <<Q, ">">>
Link(rel, href) == <<"<link", " ", "rel=", Q>> \o rel \o <<Q, " ", "href=", Q>> \o href \o <<Q, ">">>
Bare(rel, href) == <<"<link", " ", "rel=", rel, " ", "href=", href, ">">>
Sheet == <<"<style>", "url(">> \o U \o <<")", "x", "</style>">>
TheElements == {
  Element(Tag("src=", <<"u">>), Tag("src=", U)),
  Element(Tag("src=", <<" ", "cid:u">>), Tag("src=", U)),
  Kept(Tag("src=", <<"v">>)),
  Kept(<<"<img", " ", "data-", "src=", Q, "u", Q, ">">>),
  Kept(<<"<img", " ", "src=", "u", ">">>),
  Element(Tag("srcset=", <<"u", " ", "2x", ",", "v", ",", " ", "u">>),
          Tag("srcset=", U \o <<" ", "2x", ",", " ", "v", ",", " ">> \o U)),
  Element(Link(<<"stylesheet">>, <<"c">>), Sheet),
  Element(Link(<<"alternate", " ", "stylesheet">>, <<"c">>), Sheet),
  Element(Bare("stylesheet", "c"), Sheet),
  Kept(Bare("icon", "u")),
  Kept(Link(<<"stylesheet">>, <<"d">>)),
  Element(Link(<<"icon">>, <<"u">>), Link(<<"icon">>, U)),
  Element(<<"<style>", "url(", Q, "u", Q, ")", "url(", "v", ")", "</style>">>,
          <<"<style>", "url(", Q>> \o U \o <<Q, ")", "url(", "v", ")", "</style>">>),
  Kept(<<"x", ">", "src=">>) }

\* Elements of a page.
None == [kind |-> "none", to |-> ""]
Node(depth, tag, id, text) ==
  [depth |-> depth, tag |-> tag, id |-> id, text |-> text, href |-> None, rel |-> ""]
Anchor(kind, to, rel) == [Node(2, "a", "", <<>>) EXCEPT !.href = [kind |-> kind, to |-> to], !.rel = rel]
TheNodes == {
  Node(1, "html", "", <<>>), Node(2, "p", "", <<"v">>), Node(2, "p", "i", <<" ">>), Node(2, "nav", "", <<"x">>),
  Node(3, "p", "", <<"v">>), Node(3, "q", "", <<" ", "x">>), Node(3, "nav", "", <<"v">>),
  Node(4, "q", "", <<"v", "x">>),
  Anchor("web", "a", ""), Anchor("web", "a", "next"), Anchor("relative", "a", "next"),
  Anchor("other", "a", "next"), Anchor("fragment", "a", "") }

\* The session of a list of headers and cookies.
SessionOf(t) ==
  LET Pairs(cookie) == LET of == SelectSeq(t, LAMBDA p : p.cookie = cookie) IN
                       [i \in DOMAIN of |-> [name |-> of[i].name, value |-> <<of[i].value>>]]
  IN [headers |-> Pairs(FALSE), cookies |-> Pairs(TRUE)]

\* Headers of a part, and what they mean.
Field(name, value, means) == [field |-> name, value |-> value, means |-> means]
TheFields == {
  Field("content-type", <<"t", ";", "p">>, <<"t">>), Field("content-type", <<"u", " ">>, <<"u">>),
  Field("content-id", <<"<", "c", ">">>, <<"c">>), Field("content-id", <<"<", "c">>, <<"<", "c">>),
  Field("content-location", <<"u", ":", ">">>, <<"u", ":", ">">>),
  Field("content-transfer-encoding", <<"base64">>, <<"base64">>),
  Field("content-transfer-encoding", <<"quoted-printable">>, <<"quoted-printable">>) }

\* Part, its tokens and the longest document.
TheParts == {
  <<"budget", {"x", " ", "\n"}, 8>>,
  <<"pattern", {"/", "a", "*", "$"}, 5>>,
  <<"robots", {Line("user-agent", <<"a">>), Line("user-agent", <<"a", "m">>), Line("user-agent", <<"*">>),
               Line("disallow", <<"/", "a">>), Line("allow", <<"/", "*">>), Line("crawl-delay", <<"9">>)}, 4>>,
  <<"markup", {"<", ">", "<script", "</script>", "<style", "x", " "}, 5>>,
  <<"entities", {"<", ">", "&", "amp;", "lt;", "x", " "}, 5>>,
  <<"blocks", {"\n", " ", "x", "y"}, 6>>,
  <<"sitemap", {"&", "<", "amp;", "lt;", "|"}, 5>>,
  <<"exchanges", [uri : {[host |-> h, path |-> p] : h \in {<<"a", "b">>, <<"b">>}, p \in {<<>>, <<"a">>}},
                  date : DOMAIN Instants, body : {<<>>, <<CRLF, CRLF, "WARC/1.1", CRLF>>}], 3>>,
  <<"name", {"a", ".", "-", "/"}, 6>>,
  <<"tree", TheNodes, 4>>,
  <<"json", {"{", "}", "[", "]", Quote, Backslash, "x"}, 5>>,
  <<"keys", {"~", "/", "0", "1", "|"}, 5>>,
  <<"bytes", 0..15, 3>>,
  <<"lines", {"a", "b", "c", "|"}, 6>>,
  <<"multipart", {"--B", "--", "\n", "x", "|"}, 5>>,
  <<"quoted", {"=", "3", "D", "\n", "\r"}, 4>>,
  <<"page", TheElements, 3>>,
  <<"bundle", {Part(m, l, c, "P", <<>>) : m \in {"html", "css", "img"}, l \in {"", "l1", "l2"}, c \in {"", "cid"}}, 3>>,
  <<"stream", {"x", "NUL", "|"}, 7>>,
  <<"query", {"a", " ", "%", "=", "&", "2", "5", "|"}, 4>>,
  <<"charset", {"charset", "=", Quote, " ", ";", "x"}, 5>>,
  <<"session", [cookie : BOOLEAN, name : {"a", "Cookie"}, value : {"1", "2"}], 4>>,
  <<"boundary", {"boundary", "=", "Q", " ", ";", "x"}, 4>>,
  <<"headers", TheFields, 4>>,
  <<"search", {<<"x">>, <<"X", " ">>, <<"y", ".">>, <<"y", " ", "y", " ", "X">>, <<"|">>}, 5>>,
  <<"command line", {"x", " ", BS, DQ, "|"}, 6>>,
  <<"action", {"a", ":", "=", ",", " ", "1", "-", "|"}, 4>> }

\* truncate_to_tokens keeps whole words from the start, within the budget by either
\* estimate, and keeps a text that fits.
TruncationFits == Is("budget") => \A n \in 0..3 : TruncatesAtWords(doc, n)

\* chunk_text loses, repeats and reorders no word; a chunk is within the budget or a
\* single word, and a paragraph that fits is not divided.
ChunksHoldAll == Is("budget") => \A n \in 0..3 : ChunksKeepText(doc, n)

\* split_multipart returns the parts that were put between delimiters, even when one
\* looks like a delimiter in the middle of a line, if none ends in a line end.
PartsSplit == Is("multipart") => PartsReturn(doc)

\* parse_headers joins a folded header again, and no line of the next header to it.
HeadersUnfold == Is("multipart") => FoldedReturns(doc)

\* decode_quoted_printable returns what was encoded, soft line breaks and all, of a
\* body and of a part that split_multipart and parse_part took out of a bundle.
EncodingReturns == Is("quoted") => QuotedPrintableReturns(doc) /\ TextReturns(doc)

\* single_file_html inlines each reference of a page that names a part of the bundle
\* and leaves all other text as it was.
ReferencesInlined == Is("page") => PageInlined(doc)

\* The document of a bundle is an HTML part of it, in whatever order the parts come.
RootFound == Is("bundle") => RootIsHtml(doc)

\* visible_text_len, on which the choice of a browser rests, is never below the text
\* that fallback_text returns, and is its length if the page has no entity.
VisibleLength == Is("markup") \/ Is("entities") => LengthIsOfText(doc)

\* dedup_text keeps a paragraph where it first occurs, and only there.
DuplicatesGo == Is("blocks") => DedupKeepsFirst(doc)

\* parse_sitemap returns the URLs of a sitemap as they were before they were escaped.
LocationsDecoded == Is("sitemap") => SitemapReturns(doc)

\* A WACZ index leads to every WARC record at its exact offset and length, even when
\* a body has the bytes of a record in it, and is in the order of SURT and time.
RecordsFound == Is("exchanges") => ReplayFinds(doc)

\* A name that sanitize returns has only safe characters, a bounded length, and is
\* not empty.
NamesSafe == Is("name") => NameIsSafe(doc)

\* anchor_for finds the smallest element that has a text, and its CSS path leads back
\* to it.
Anchors == Is("tree") /\ IsPage(doc) =>
  \A v \in {<<"v">>, <<"x">>, <<"x", "v">>} : AnchorsAreSmallest(doc, v)

\* select_first_text and select_all_text agree on the first match of several
\* selectors.
Selection == Is("tree") /\ IsPage(doc) =>
  \A c \in [1..2 -> {"p", "q", "nav", "a"}] : FirstIsHeadOfAll(doc, c)

\* clean_boilerplate removes boilerplate with all that is in it, and nothing else.
ContentKept == Is("tree") /\ IsPage(doc) => CleaningKeepsContent(doc)

\* The links of a page are listed once each, and the next page is one of them.
LinksAndNext == Is("tree") /\ IsPage(doc) => LinksHoldNext(doc, "host")

\* parse_json_response finds the container among a model's prose and fences, and
\* never returns what is not JSON.
ResponsesParsed == Is("json") => ResponseReturns(doc) /\ OnlyJsonReturns(doc)

\* The JSON pointers of field provenance lead to the fields they name, whatever
\* characters the keys have.
PointersExact == Is("keys") => PointersLead(doc)

\* verify reads the key and the signature as sign wrote them, and refuses either if
\* it is cut, lengthened or changed in one character; a sign for a leading zero aside.
EvidenceHolds == Is("bytes") => EvidenceReturns(doc)

\* diff_lines is a longest-common-subsequence diff: each text comes back from it.
DiffExact == Is("lines") => DiffIsMinimal(doc)

\* The daemon reads from a request line the parameters that were percent-encoded
\* into it.
RequestsRead == Is("query") => RequestReturns(doc)

\* A charset is read alike from a content type and from a meta element.
CharsetKnown == Is("charset") => CharsetsAgree(doc)

\* The static and the browser tier send the same headers and cookies.
CredentialsSame == Is("session") => SameCredentials(SessionOf(doc))

\* A header or a cookie on the command line keeps a value with separators in it.
ArgumentsRead == Is("action") => ArgumentsReturn(doc)

\* Action::parse and to_cdp do what an action's text says, whatever is in its
\* selector and its value.
ActionsRead == Is("action") => ActionsReturn(doc)

\* extract_boundary returns the boundary of a bundle, quoted or not, whatever
\* parameters stand around it.
BoundaryFound == Is("boundary") => BoundaryReturns(doc)

\* parse_part reads the fields of a part and decodes its body by them.
PartsRead == Is("headers") => PartReturns(doc)

\* SemanticIndex::search finds an indexed text by its own words, and no text that
\* shares no hash bucket with the query comes before one that shares one.
SearchFinds == Is("search") => SearchRanks(FlattenSeq(doc))

-----------------------------------------------------------------------------
\* The parts above, by what they are for.

\* A bundle becomes the page that was bundled, and what is read off a page is its
\* content, all of it within a budget, and once.
PagesRead ==
  /\ BoundaryFound /\ PartsSplit /\ HeadersUnfold /\ PartsRead /\ EncodingReturns
  /\ RootFound /\ ReferencesInlined
  /\ TruncationFits /\ ChunksHoldAll /\ VisibleLength /\ DuplicatesGo
  /\ Anchors /\ Selection /\ ContentKept /\ LinksAndNext

\* What is kept of a capture can be found again and held against the original.
RecordsHold ==
  /\ RecordsFound /\ NamesSafe /\ ResponsesParsed /\ PointersExact
  /\ EvidenceHolds /\ DiffExact /\ SearchFinds

\* What a user, a client or a site says is understood as it was meant.
RequestsUnderstood ==
  /\ RequestsRead /\ CharsetKnown /\ LocationsDecoded
  /\ ArgumentsRead /\ ActionsRead /\ CredentialsSame

=============================================================================
