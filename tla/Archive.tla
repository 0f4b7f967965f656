------------------------------ MODULE Archive ------------------------------
(***************************************************************************)
(* WARC records and the WACZ that indexes them (src/crates/amber-core/src/ *)
(* warc.rs and wacz.rs), and names for files (naming.rs).  A byte stream   *)
(* is a sequence of tokens, each of length one.                            *)
(*                                                                         *)
(* A definition whose name starts with Bug is a seeded defect the model    *)
(* checker must detect; no specification uses it.                          *)
(***************************************************************************)
EXTENDS Text

LOCAL INSTANCE TLC

CRLF == "\r\n"

Header(name, value) == <<name, ": ", value, CRLF>>

BugTerminator == <<CRLF>>   \* one line end behind the block

Terminator == <<CRLF, CRLF>>

\* write_record.
RecordBytes(headers, block) ==
  <<"WARC/1.1", CRLF>> \o FlattenSeq(headers)
    \o Header("Content-Length", ToString(Len(block))) \o <<CRLF>> \o block \o Terminator

\* A writer: [buf, records], as WarcWriter::new makes it.
NewWriter == [buf |-> <<>>, records |-> <<>>]

\* record_id: addresses the content.
RecordId(uri, date, block) == ToString(<<uri, date, block>>)

WarcInfo(w, date, fields) ==
  [w EXCEPT !.buf = @ \o RecordBytes(
     <<Header("WARC-Type", "warcinfo"), Header("WARC-Date", ToString(date)),
       Header("WARC-Record-ID", RecordId("warcinfo", date, fields))>>, fields)]

\* WarcWriter::response, and the location it keeps.
Response(w, uri, date, block) ==
  LET record == RecordBytes(
        <<Header("WARC-Type", "response"), Header("WARC-Target-URI", ToString(uri)),
          Header("WARC-Date", ToString(date)), Header("WARC-Record-ID", RecordId(uri, date, block)),
          Header("Content-Type", "application/http;msgtype=response")>>, block) IN
  [buf |-> w.buf \o record,
   records |-> Append(w.records,
     [uri |-> uri, date |-> date, offset |-> Len(w.buf), length |-> Len(record),
      digest |-> ToString(block)])]

\* reason_phrase, of the codes told apart here.
ReasonPhrase(status) == IF status = "200" THEN "OK" ELSE ""

\* http_response_block.
HttpResponseBlock(status, type, body) ==
  <<"HTTP/1.1 ", status, ReasonPhrase(status), CRLF>> \o Header("Content-Type", type)
    \o Header("Content-Length", ToString(Len(body))) \o <<CRLF>> \o body

-----------------------------------------------------------------------------
\* The index.

\* A URI: its host's labels, and path and query.  surt reverses the labels.
Surt(uri) == Reverse(uri.host) \o <<")">> \o uri.path

Digits == {"0", "1", "2", "6"}

\* timestamp14: the digits of an ISO date, at most fourteen.
Timestamp14(date) ==
  LET digits == SelectSeq(date, LAMBDA c : c \in Digits) IN
  IF Len(digits) < 14 THEN digits ELSE SubSeq(digits, 1, 14)

\* The order of texts, byte by byte.
ByteOrder == <<" ", ")", "0", "1", "2", "6", "a", "b">>
Rank(c) == CHOOSE i \in DOMAIN ByteOrder : ByteOrder[i] = c
Before(a, b) == a # b /\ (IsPrefix(a, b) \/
  \E i \in DOMAIN a \cap DOMAIN b :
    SubSeq(a, 1, i - 1) = SubSeq(b, 1, i - 1) /\ Rank(a[i]) < Rank(b[i]))

IndexLine(r) ==
  [key |-> <<Surt(r.uri), Timestamp14(r.date)>>, offset |-> r.offset, length |-> r.length,
   uri |-> r.uri, digest |-> r.digest]

\* What a line starts with.
LineKey(r) == Surt(r.uri) \o <<" ">> \o Timestamp14(r.date)

\* cdxj_index: the lines sorted.  Which of two lines for one URL at one instant
\* comes first, their digests decide; here it is the record written first.
CdxjIndex(records) ==
  LET Lower(i, j) ==
        \/ Before(LineKey(records[i]), LineKey(records[j]))
        \/ LineKey(records[i]) = LineKey(records[j]) /\ i < j
      order == SetToSortSeq(DOMAIN records, Lower) IN
  [k \in DOMAIN order |-> IndexLine(records[order[k]])]

\* package: the files of the archive, each declared with its digest, and the
\* digest of the declaration.
Declared(files) == {[path |-> p, hash |-> ToString(files[p])] : p \in DOMAIN files}
Package(warc, pages, records) ==
  LET files == [p \in {"archive/data.warc", "indexes/index.cdx", "pages/pages.jsonl"} |->
        CASE p = "archive/data.warc" -> warc
          [] p = "indexes/index.cdx" -> CdxjIndex(records)
          [] p = "pages/pages.jsonl" -> <<"header">> \o pages] IN
  [files |-> files, datapackage |-> Declared(files), digest |-> ToString(Declared(files))]

-----------------------------------------------------------------------------
\* naming.rs: "/" stands for the characters that are not safe.

CONSTANT MaxName   \* 120

Safe == {"a", ".", "-"}

\* The cut may leave a dash at the end.
Truncated(t) == TrimOf(SubSeq(t, 1, IF Len(t) < MaxName THEN Len(t) ELSE MaxName), {"-"})

\* sanitize.
Sanitize(t) ==
  LET a == FoldLeft(LAMBDA b, c :
             IF c \in Safe THEN [out |-> Append(b.out, c), dash |-> c = "-"]
             ELSE IF b.dash THEN b ELSE [out |-> Append(b.out, "-"), dash |-> TRUE],
             [out |-> <<>>, dash |-> FALSE], t)
      cut == Truncated(TrimOf(a.out, {"-"})) IN
  IF cut = <<>> THEN <<"page">> ELSE cut

-----------------------------------------------------------------------------
\* References.

\* What a reader of the WARC makes of the bytes behind an offset: headers up to
\* the empty line, a block of the length they state, and the terminator.
ReadRecord(buf, offset) ==
  LET blank == Min({i \in (offset + 1)..(Len(buf) - 1) : buf[i] = CRLF /\ buf[i + 1] = CRLF})
      head == SubSeq(buf, offset + 1, blank)
      Value(name) == head[2 + Min({i \in DOMAIN head : head[i] = name})]
      size == CHOOSE n \in 0..Len(buf) : ToString(n) = Value("Content-Length") IN
  [magic |-> head[1], type |-> Value("WARC-Type"),
   uri |-> IF Value("WARC-Type") = "response" THEN Value("WARC-Target-URI") ELSE "",
   block |-> SubSeq(buf, blank + 2, blank + 1 + size),
   length |-> blank + 3 + size - offset]

\* Two instants, the first the earlier, and what an index has for them.
Instants == <<
  <<"2", "0", "2", "6", "-", "0", "1", "-", "2", "0", "T", "1", "2", ":", "0", "0", ":", "2", "1", ".", "6", "Z">>,
  <<"2", "0", "2", "6", "-", "0", "2", "-", "0", "1", "T", "1", "2", ":", "0", "0", ":", "1", "1", "Z">> >>
Stamps == <<
  <<"2", "0", "2", "6", "0", "1", "2", "0", "1", "2", "0", "0", "2", "1">>,
  <<"2", "0", "2", "6", "0", "2", "0", "1", "1", "2", "0", "0", "1", "1">> >>

\* The archive of captures: t holds the exchanges, [uri, date, body], date 1 or 2.
Written(t) ==
  FoldLeft(LAMBDA w, x : Response(w, x.uri, Instants[x.date], HttpResponseBlock("200", "text/html", x.body)),
           WarcInfo(NewWriter, Instants[2], <<"software: AmberHTML">>), t)

\* Every exchange is found through the index, at the offset and with the length
\* the index states, even when a body looks like a record; and a search of the
\* index can rely on its order: by SURT, and of one SURT by time, in whatever
\* order the exchanges were written.
ReplayFinds(t) ==
  LET w == Written(t)
      wacz == Package(w.buf, <<>>, w.records)
      index == wacz.files["indexes/index.cdx"] IN
  /\ \A i \in DOMAIN t : \E k \in DOMAIN index :
       LET r == ReadRecord(wacz.files["archive/data.warc"], index[k].offset) IN
       /\ index[k].key = <<Surt(t[i].uri), Stamps[t[i].date]>>
       /\ r.magic = "WARC/1.1" /\ r.type = "response" /\ r.uri = ToString(t[i].uri)
       /\ r.block = HttpResponseBlock("200", "text/html", t[i].body)
       /\ r.length = index[k].length
  /\ \A j, k \in DOMAIN index : j < k =>
       /\ ~Before(index[k].key[1], index[j].key[1])
       /\ index[j].key[1] = index[k].key[1] =>
            <<index[j].key[2], index[k].key[2]>> # <<Stamps[2], Stamps[1]>>

\* A file name is safe, not empty, bounded, and has no dash at its ends.
NameIsSafe(t) ==
  LET n == Sanitize(t) IN
  /\ n # <<>> /\ (n = <<"page">> \/ ToSet(n) \subseteq Safe)
  /\ Len(n) <= MaxName
  /\ Head(n) # "-" /\ Last(n) # "-"

=============================================================================
