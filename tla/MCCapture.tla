----------------------------- MODULE MCCapture -----------------------------
(* Command lines and servers for TLC. *)
EXTENDS Capture

Header(name, value) == [name |-> name, value |-> value]
NoBlock == [images |-> FALSE, media |-> FALSE, fonts |-> FALSE, urls |-> {}]
NoEmulation == [viewport |-> "", agent |-> "", locale |-> "", zone |-> "", dark |-> FALSE]
Plain == [formats |-> {"md"}, render |-> "auto", actions |-> <<>>, wait |-> FALSE, floor |-> 1,
          budget |-> 2, deadline |-> FALSE, accessibility |-> FALSE, malformed |-> FALSE, proxy |-> FALSE,
          session |-> [headers |-> <<>>, cookies |-> <<>>], block |-> NoBlock, emulation |-> NoEmulation]

TheFormats == {{"md"}, {"html"}, {"md", "txt", "html"}, {"mhtml", "png"}, {"warc", "pdf"}, {"html", "png", "wacz"}}
Modes == {"auto", "always", "never"}
Click == Command("click", {})
Fill == Command("fill", {})
Go == Command("Page.navigate", {<<"next">>})

\* Every set of formats with every mode; the same with everything else asked
\* for; and single departures from the plain request.
TheRequests ==
  {[Plain EXCEPT !.formats = f, !.render = m] : f \in TheFormats, m \in Modes} \cup
  {[formats |-> f, render |-> m, actions |-> <<Click, Fill>>, wait |-> TRUE, floor |-> 0, budget |-> 1,
    deadline |-> TRUE, accessibility |-> TRUE, malformed |-> FALSE, proxy |-> TRUE,
    session |-> [headers |-> <<Header("Authorization", <<"t">>)>>,
                 cookies |-> <<Header("a", <<"1">>), Header("b", <<"2">>)>>],
    block |-> WithAdTrackers([images |-> TRUE, media |-> TRUE, fonts |-> TRUE, urls |-> {<<"x">>}]),
    emulation |-> [viewport |-> "v", agent |-> "u", locale |-> "l", zone |-> "z", dark |-> TRUE]] :
     f \in TheFormats, m \in Modes} \cup
  {[Plain EXCEPT !.formats = {}], [Plain EXCEPT !.malformed = TRUE], [Plain EXCEPT !.wait = TRUE],
   [Plain EXCEPT !.session.cookies = <<Header("a", <<"1">>)>>, !.render = "always"],
   [Plain EXCEPT !.emulation.locale = "l", !.render = "always"],
   [Plain EXCEPT !.session = [headers |-> <<Header("a", <<"1">>), Header("Cookie", <<"2">>), Header("a", <<"3">>)>>,
                              cookies |-> <<Header("a", <<"1">>)>>], !.render = "always"],
   [Plain EXCEPT !.block.urls = {<<"x">>}, !.actions = <<Click, Go>>]}

Documents == [notice : BOOLEAN, refresh : BOOLEAN, text : 0..1, shell : BOOLEAN, data : BOOLEAN]
Answer(code, size, type, document) ==
  [kind |-> "answer", code |-> code, hops |-> 0, size |-> size, type |-> type, tag |-> document]
Shell == [notice |-> FALSE, refresh |-> FALSE, text |-> 0, shell |-> TRUE, data |-> FALSE]
TheReplies ==
  {Answer(200, 1, "html", d) : d \in Documents} \cup
  {Answer(200, 2, "html", [Shell EXCEPT !.text = 1]), Answer(200, 1, "other", Shell),
   Answer(404, 1, "html", Shell), Answer(429, 1, "html", Shell), Answer(503, 1, "html", Shell),
   [Answer(200, 1, "html", Shell) EXCEPT !.kind = "timeout"], [Answer(200, 1, "html", Shell) EXCEPT !.hops = 2],
   [Answer(200, 1, "html", Shell) EXCEPT !.kind = "transport"]}

=============================================================================
