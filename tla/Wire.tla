-------------------------------- MODULE Wire --------------------------------
(***************************************************************************)
(* Texts that cross a boundary: the frames on the browser's pipe           *)
(* (cdp.rs), an HTTP request to the daemon (daemon.rs), the character set  *)
(* of a response (http.rs) and the action a user writes (actions.rs).      *)
(* Last, how a Chromium on Windows gets its arguments and its pipe ends    *)
(* (cdp.rs, win_spawn): one command line, which the child divides again,   *)
(* and a table of file descriptors.                                        *)
(*                                                                         *)
(* A definition whose name starts with Bug is a seeded defect the model    *)
(* checker must detect; no specification uses it.                          *)
(***************************************************************************)
EXTENDS Documents

\* FrameReader::push: [out, buf], the frames a chunk completes and what is kept.
BugPush(buf, chunk) ==   \* a chunk that completes a frame ends there
  LET pieces == SplitAt(chunk, {"NUL"}) IN
  IF Len(pieces) = 1 THEN [out |-> <<>>, buf |-> buf \o chunk]
  ELSE [out |-> <<buf \o pieces[1]>> \o SubSeq(pieces, 2, Len(pieces) - 1), buf |-> <<>>]

Push(buf, chunk) ==
  FoldLeft(LAMBDA a, byte :
             IF byte = "NUL" THEN [out |-> Append(a.out, a.buf), buf |-> <<>>]
             ELSE [a EXCEPT !.buf = Append(@, byte)],
           [out |-> <<>>, buf |-> buf], chunk)

\* The reader thread: one push per read.
FramesOf(chunks) ==
  FoldLeft(LAMBDA a, chunk :
             LET p == Push(a.buf, chunk) IN [out |-> a.out \o p.out, buf |-> p.buf],
           [out |-> <<>>, buf |-> <<>>], chunks)

\* However the stream is cut into reads (at "|"), its frames come out in order,
\* and what is pending is behind the last terminator.
FramesIgnoreReads(t) ==
  LET reads == SplitAt(t, {"|"})
      pieces == SplitAt(JoinBy(reads, <<>>), {"NUL"}) IN
  FramesOf(reads) = [out |-> Front(pieces), buf |-> Last(pieces)]

-----------------------------------------------------------------------------
\* Requests.  Escapes of the characters a query cannot hold.

Escapes == [c \in {"%", "&", "=", "+"} |->
              CASE c = "%" -> <<"2", "5">> [] c = "&" -> <<"2", "6">>
                [] c = "=" -> <<"3", "D">> [] c = "+" -> <<"2", "B">>]

\* from_str_radix of two digits.
ByteOfPair(pair) ==
  IF \E c \in DOMAIN Escapes : Escapes[c] = pair
  THEN CHOOSE c \in DOMAIN Escapes : Escapes[c] = pair ELSE "#"
IsHexPair(pair) == \A i \in 1..2 : pair[i] \in {"2", "3", "5", "6", "B", "D"}

IsEscape(s, i) == i + 2 <= Len(s) /\ IsHexPair(SubSeq(s, i + 1, i + 2))

\* percent_decode: a malformed escape is kept.
PercentDecode(s) ==
  LET from[i \in 1..(Len(s) + 1)] ==
        IF i > Len(s) THEN <<>>
        ELSE IF s[i] = "%" /\ IsEscape(s, i)
        THEN <<ByteOfPair(SubSeq(s, i + 1, i + 2))>> \o from[i + 3]
        ELSE <<IF s[i] = "+" THEN " " ELSE s[i]>> \o from[i + 1]
  IN from[1]

Smaller(a, b) == IF a < b THEN a ELSE b

\* split_once: what is before and behind the first c, and whether there is one.
SplitOnce(s, c) ==
  LET at == FindFrom(<<c>>, s, 0) IN
  [found |-> at <= Len(s), before |-> SubSeq(s, 1, Smaller(at, Len(s))), behind |-> SubSeq(s, at + 2, Len(s))]

\* parse_query.
ParseQuery(raw) ==
  LET pairs == NonEmpty(SplitAt(raw, {"&"})) IN
  [i \in DOMAIN pairs |->
    LET kv == SplitOnce(pairs[i], "=") IN
    <<PercentDecode(kv.before), PercentDecode(kv.behind)>>]

Malformed == [path |-> <<>>, query |-> <<>>, rest |-> <<>>]

\* parse_request, with the stream behind the blank line that ends the headers.
ParseRequest(stream) ==
  LET lines == SplitAt(stream, {"\n"})
      words == WordsOf(lines[1])
      blank == {i \in 2..Len(lines) : lines[i] \in {<<>>, <<"\r">>}}
      end == IF blank = {} THEN Len(lines) ELSE Min(blank)
  IN IF Len(words) < 2 THEN Malformed
     ELSE LET target == SplitOnce(words[2], "?") IN
          [path |-> target.before, query |-> ParseQuery(target.behind),
           rest |-> JoinBy(SubSeq(lines, end + 1, Len(lines)), <<"\n">>)]

\* A client's form encoding.
Form(t) ==
  FlattenSeq([i \in DOMAIN t |->
    IF t[i] = " " THEN <<"+">>
    ELSE IF t[i] \in DOMAIN Escapes THEN <<"%">> \o Escapes[t[i]] ELSE <<t[i]>>])

\* Whatever a parameter holds, the daemon reads what the client wrote; t is its
\* key and, behind the first "|", its value.
RequestReturns(t) ==
  LET key == SplitOnce(t, "|").before
      value == SplitOnce(t, "|").behind
      line == <<"GET", " ", "/", "?">> \o Form(key) \o <<"=">> \o Form(value) \o
              <<"&", "k", " ", "HTTP", "\r", "\n">>
  IN ParseRequest(line \o <<"h", "\r", "\n", "\r", "\n">> \o t) =
       [path |-> <<"/">>, query |-> << <<key, value>>, <<<<"k">>, <<>>>> >>, rest |-> t]

-----------------------------------------------------------------------------
\* Character sets.  Case is abstracted; <<>> is an absent label.

Closers == {"\"", "'", " ", ";", ">", "/", "\r", "\n"}

\* sniff_meta_charset.
Sniff(head) ==
  LET at == FindFrom(<<"charset">>, head, 0)
      after == TrimStartOf(SubSeq(head, at + 2, Len(head)), White)
      value == IF after # <<>> /\ after[1] = "="
               THEN TrimStartOf(TrimStartOf(Tail(after), White), {"\"", "'"}) ELSE <<>>
      stops == {i \in DOMAIN value : value[i] \in Closers} IN
  IF at > Len(head) THEN <<>>
  ELSE IF stops = {} THEN value ELSE SubSeq(value, 1, Min(stops) - 1)

\* parse_content_type: the last charset parameter that is not empty.
ParseContentType(value) ==
  LET parts == SplitAt(value, {";"})
      Label(p) == LET kv == SplitOnce(Trim(p), "=") IN
                  IF kv.found /\ Trim(kv.before) = <<"charset">>
                  THEN TrimOf(Trim(kv.behind), {"\""}) ELSE <<>> IN
  [essence |-> Trim(parts[1]),
   charset |-> FoldLeft(LAMBDA l, p : IF Label(p) = <<>> THEN l ELSE Label(p), <<>>, Tail(parts))]

\* is_html_mime, content_type_is_html: an absent header is no HTML.
ContentTypeIsHtml(value) ==
  ParseContentType(value).essence \in {<<"text/html">>, <<"application/xhtml+xml">>}

\* decode_html: the encoding it decodes with.  Encoding::for_label knows the
\* labels in known; bom is what Encoding::for_bom finds, or "none".
DecodeHtml(head, header, bom, known) ==
  CASE header \in known -> header
    [] header \notin known /\ bom # "none" -> <<bom>>
    [] OTHER -> IF Sniff(head) \in known THEN Sniff(head) ELSE <<"utf-8">>

\* A declaration decides alike in the header and in the document: t is a
\* parameter with one charset and a label that needs no quotes.
CharsetsAgree(t) ==
  LET parsed == ParseContentType(<<"text/html", ";">> \o t)
      known == {<<"x">>, <<"x", "x">>} IN
  Cardinality({i \in DOMAIN t : t[i] = "charset"}) = 1 /\ ToSet(parsed.charset) \cap Closers = {} =>
    /\ parsed.charset \in known =>
         DecodeHtml(t, <<>>, "none", known) = DecodeHtml(t, parsed.charset, "none", known)
    /\ ContentTypeIsHtml(<<"text/html", " ", ";">> \o t)

-----------------------------------------------------------------------------
\* Arguments of the command line.

Rejected == [name |-> <<>>, value |-> <<>>]

\* parse_header and parse_cookie: a name is required, only a header's value is
\* trimmed.
ParseHeader(s) ==
  LET kv == SplitOnce(s, ":") IN
  IF Trim(kv.before) = <<>> \/ ~kv.found THEN Rejected
  ELSE [name |-> Trim(kv.before), value |-> Trim(kv.behind)]
ParseCookie(s) ==
  LET kv == SplitOnce(s, "=") IN
  IF Trim(kv.before) = <<>> \/ ~kv.found THEN Rejected
  ELSE [name |-> Trim(kv.before), value |-> kv.behind]

\* A value may hold what divides it from its name; t is a name and, behind the
\* first "|", a value.
ArgumentsReturn(t) ==
  LET at == Min({i \in DOMAIN t : t[i] = "|"})
      name == SubSeq(t, 1, at - 1)
      value == SubSeq(t, at + 1, Len(t)) IN
  "|" \in ToSet(t) /\ name # <<>> /\ name = Trim(name) =>
    /\ ":" \notin ToSet(name) =>
         ParseHeader(name \o <<":", " ">> \o value) = [name |-> name, value |-> Trim(value)]
    /\ "=" \notin ToSet(name) =>
         ParseCookie(name \o <<"=">> \o value) = [name |-> name, value |-> value]

-----------------------------------------------------------------------------
\* Actions.

BugVerbEnd(spec) ==   \* rfind
  LET at == {i \in DOMAIN spec : spec[i] = ":"} IN IF at = {} THEN Len(spec) + 2 ELSE Max(at)

VerbEnd(spec) == FindFrom(<<":">>, spec, 0) + 1

NoAction == [verb |-> "none", first |-> <<>>, second |-> <<>>]
IsNumber(s) == s # <<>> /\ \A i \in DOMAIN s : s[i] = "1" \/ (s[i] = "-" /\ i = 1 /\ Len(s) > 1)

\* Action::parse; NoAction stands for the errors.
ParseAction(raw) ==
  LET spec == Trim(raw)
      verb == SubSeq(spec, 1, VerbEnd(spec) - 1)
      rest == SubSeq(spec, VerbEnd(spec) + 1, Len(spec))
      pair == SplitOnce(rest, "=")
      point == SplitOnce(rest, ",")
      action == [verb |-> IF Len(verb) = 1 THEN verb[1] ELSE "", first |-> rest, second |-> <<>>] IN
  CASE spec = <<"scroll-bottom">> -> [NoAction EXCEPT !.verb = "scroll-bottom"]
    [] VerbEnd(spec) > Len(spec) -> NoAction
    [] OTHER ->
       CASE verb \in {<<"navigate">>, <<"click">>} -> action
         [] verb = <<"fill">> /\ pair.found ->
              [action EXCEPT !.first = pair.before, !.second = pair.behind]
         [] verb = <<"scrollby">> /\ point.found
            /\ IsNumber(Trim(point.before)) /\ IsNumber(Trim(point.behind)) ->
              [action EXCEPT !.first = Trim(point.before), !.second = Trim(point.behind)]
         [] OTHER -> NoAction

\* to_cdp: the method, and which parts of the action are in its parameters
\* (as JSON strings, or as the numbers they are).
ToCdp(action) ==
  [method |-> IF action.verb = "navigate" THEN "Page.navigate" ELSE "Runtime.evaluate",
   args |-> CASE action.verb \in {"navigate", "click"} -> <<action.first>>
              [] action.verb \in {"fill", "scrollby"} -> <<action.first, action.second>>
              [] OTHER -> <<>>]

\* An action does what its text says: a selector may hold colons and commas,
\* and a value anything.  t is a selector and, behind the first "|", a value.
ActionsReturn(t) ==
  LET selector == SplitOnce(t, "|").before
      value == SplitOnce(t, "|").behind
      Kept(s) == s = Trim(s)
      Args(words) == ToCdp(ParseAction(words)).args IN
  /\ Kept(t) => /\ Args(<<"click", ":">> \o t \o <<" ">>) = <<t>>
                /\ Args(<<"navigate", ":">> \o t) = <<t>>
  /\ Kept(value) /\ "=" \notin ToSet(selector) =>
       Args(<<"fill", ":">> \o selector \o <<"=">> \o value) = <<selector, value>>
  /\ LET numbers == ParseAction(<<"scrollby", ":">> \o t) IN
     numbers.verb = "scrollby" <=> \E i \in DOMAIN t :
       /\ t[i] = "," /\ IsNumber(Trim(SubSeq(t, 1, i - 1))) /\ IsNumber(Trim(SubSeq(t, i + 1, Len(t))))

-----------------------------------------------------------------------------
\* The command line of a Chromium on Windows.

BS == "\\"
DQ == "\""

Repeated(n, c) == [i \in 1..n |-> c]

\* Backslashes before the closing quote are doubled.
Closing(slashes) == Repeated(2 * slashes, BS) \o <<DQ>>

\* append_quoted: [out, slashes], what is written and the backslashes that wait
\* for the character behind them.
QuoteChar(b, c) ==
  CASE c = BS -> [b EXCEPT !.slashes = @ + 1]
    [] c = DQ -> [out |-> b.out \o Repeated(2 * b.slashes + 1, BS) \o <<DQ>>, slashes |-> 0]
    [] OTHER -> [out |-> b.out \o Repeated(b.slashes, BS) \o <<c>>, slashes |-> 0]

Quoted(arg) ==
  LET a == FoldLeft(QuoteChar, [out |-> <<DQ>>, slashes |-> 0], arg) IN
  IF arg # <<>> /\ ToSet(arg) \cap {" ", DQ} = {} THEN arg ELSE a.out \o Closing(a.slashes)

\* win_spawn::spawn: the program and the arguments, each quoted.
CommandLineOf(args) == JoinBy([i \in DOMAIN args |-> Quoted(args[i])], <<" ">>)

\* build_crt_block: the count, the flags and the handles of the descriptors.
CrtBlock(entries) ==
  <<Len(entries)>> \o [i \in DOMAIN entries |-> entries[i].flags]
    \o [i \in DOMAIN entries |-> entries[i].handle]

\* The descriptors of a Chromium, 0 first.
Descriptors ==
  LET Entry(flags, handle) == [flags |-> flags, handle |-> handle] IN
  <<Entry({}, "invalid"), Entry({"open", "device"}, "stdout"), Entry({"open", "device"}, "stderr"),
    Entry({"open", "pipe"}, "cmd_read"), Entry({"open", "pipe"}, "resp_write")>>

-----------------------------------------------------------------------------
\* The child, as a reference.

\* CommandLineToArgvW: [args, arg, slashes, mode], the arguments that are complete,
\* the one under construction, the backslashes behind it, and whether there is
\* none, it is "bare" or in quotes.
Ended(b) == IF b.mode = "none" THEN b.args ELSE Append(b.args, b.arg \o Repeated(b.slashes, BS))

Opened(mode) == IF mode = "none" THEN "bare" ELSE mode

\* 2n backslashes before a quote stand for n of them, one more for a quote; others
\* stand for themselves.
Divide(b, c) ==
  LET half == b.arg \o Repeated(b.slashes \div 2, BS) IN
  CASE c = BS -> [b EXCEPT !.slashes = @ + 1, !.mode = Opened(@)]
    [] c = DQ /\ b.slashes % 2 = 1 ->
         [b EXCEPT !.arg = Append(half, DQ), !.slashes = 0, !.mode = Opened(@)]
    [] c = DQ /\ b.slashes % 2 # 1 ->
         [b EXCEPT !.arg = half, !.slashes = 0, !.mode = IF @ = "quoted" THEN "bare" ELSE "quoted"]
    [] c = " " /\ b.mode # "quoted" ->
         [args |-> Ended(b), arg |-> <<>>, slashes |-> 0, mode |-> "none"]
    [] OTHER ->
         [b EXCEPT !.arg = Append(@ \o Repeated(b.slashes, BS), c), !.slashes = 0, !.mode = Opened(@)]

Divided(line) ==
  Ended(FoldLeft(Divide, [args |-> <<>>, arg |-> <<>>, slashes |-> 0, mode |-> "none"], line))

\* What the C runtime finds at a descriptor.
HandleAt(block, fd) == block[1 + block[1] + fd + 1]

\* The child gets the arguments it was meant to get, whatever quotes, spaces
\* and backslashes are in them, and its two pipe ends; t holds the arguments,
\* divided by "|".
ArgumentsArrive(t) ==
  /\ LET args == SplitAt(t, {"|"}) IN Divided(CommandLineOf(args)) = args
  /\ HandleAt(CrtBlock(Descriptors), 3) = "cmd_read"
  /\ HandleAt(CrtBlock(Descriptors), 4) = "resp_write"

-----------------------------------------------------------------------------
\* FrameReader returns the frames of the pipe in order, however reads divide them.
FramesWhole == Is("stream") => FramesIgnoreReads(doc)

\* A Chromium on Windows gets its arguments as they were given (append_quoted).
CommandLineKept == Is("command line") => ArgumentsArrive(doc)

\* What was written at one end of a pipe or of a command line is read at the other.
InputsRead == FramesWhole /\ CommandLineKept

=============================================================================
