------------------------------ MODULE Options ------------------------------
(***************************************************************************)
(* What a caller asks of a capture, and the CDP commands that tell the     *)
(* browser: the session (session.rs), what is blocked (blocking.rs) and    *)
(* emulated (emulation.rs), the formats (output.rs) and the render mode    *)
(* (fetch.rs).  A command is its method and the set of its arguments.      *)
(*                                                                         *)
(* A definition whose name starts with Bug is a seeded defect the model    *)
(* checker must detect; no specification uses it.                          *)
(***************************************************************************)
EXTENDS Text

Command(method, args) == [method |-> method, args |-> args]

\* cookie_header.
CookieHeader(s) ==
  JoinBy([i \in DOMAIN s.cookies |-> <<s.cookies[i].name, "=">> \o s.cookies[i].value], <<";", " ">>)

\* request_headers: what the static fetch sends.
RequestHeaders(s) ==
  IF s.cookies = <<>> THEN s.headers
  ELSE Append(s.headers, [name |-> "Cookie", value |-> CookieHeader(s)])

\* The map of extra_http_headers_command: the last header of a name.
ExtraHeaders(s) ==
  LET h == RequestHeaders(s) IN
  {h[i] : i \in {k \in DOMAIN h : \A j \in DOMAIN h : h[j].name = h[k].name => j <= k}}

HeaderLine(h) == <<h.name>> \o h.value

\* extra_http_headers_command.
SessionCommands(s) ==
  IF RequestHeaders(s) = <<>> THEN <<>>
  ELSE <<Command("Network.setExtraHTTPHeaders", {HeaderLine(h) : h \in ExtraHeaders(s)})>>

\* Both tiers present the same credentials, unless a name is given twice; the
\* browser then gets the last one and never an older one.
SameCredentials(s) ==
  LET h == RequestHeaders(s) IN
  /\ Cardinality({h[i].name : i \in DOMAIN h}) = Len(h) => ExtraHeaders(s) = ToSet(h)
  /\ s.cookies # <<>> => [name |-> "Cookie", value |-> CookieHeader(s)] \in ExtraHeaders(s)
  /\ \A x, y \in ExtraHeaders(s) : x.name = y.name => x = y

-----------------------------------------------------------------------------
\* Blocking; one extension stands for those of its kind.

AdHosts == {<<"doubleclick.net">>}
WithAdTrackers(b) == [b EXCEPT !.urls = @ \cup AdHosts]

\* blocked_url_patterns, without the stars around them.
BlockedUrlPatterns(b) ==
  b.urls \cup (IF b.images THEN {<<".png">>} ELSE {}) \cup
  (IF b.media THEN {<<".mp4">>} ELSE {}) \cup (IF b.fonts THEN {<<".woff">>} ELSE {})

\* set_blocked_urls_command.
BlockCommands(b) ==
  IF BlockedUrlPatterns(b) = {} THEN <<>>
  ELSE <<Command("Network.setBlockedURLs", BlockedUrlPatterns(b))>>

-----------------------------------------------------------------------------
\* emulation::commands: in this order, each if its knob is set.

If(set, method, args) == IF set THEN <<Command(method, args)>> ELSE <<>>

EmulationCommands(e) ==
  If(e.viewport # "", "Emulation.setDeviceMetricsOverride", {<<e.viewport>>}) \o
  If(e.agent # "", "Emulation.setUserAgentOverride",
     {<<"userAgent", e.agent>>} \cup
     IF e.locale # "" THEN {<<"acceptLanguage", e.locale>>} ELSE {}) \o
  If(e.locale # "", "Emulation.setLocaleOverride", {<<e.locale>>}) \o
  If(e.zone # "", "Emulation.setTimezoneOverride", {<<e.zone>>}) \o
  If(e.dark, "Emulation.setEmulatedMedia", {<<"dark">>})

-----------------------------------------------------------------------------
\* Formats and render modes.

Formats == {"html", "mhtml", "md", "txt", "warc", "wacz", "png", "pdf"}

\* OutputFormat::requires_browser.
RequiresBrowser(f) == f \in {"mhtml", "warc", "wacz", "png", "pdf"}

\* browser_required_upfront.
BrowserRequiredUpfront(formats, mode) ==
  mode = "always" \/ (mode = "auto" /\ \E f \in formats : RequiresBrowser(f))

BugActionsNeedBrowser(o) == o.actions # <<>>

\* capture.rs: actions need a live page, unless the browser is forbidden.
ActionsNeedBrowser(o) == o.actions # <<>> /\ o.render # "never"

-----------------------------------------------------------------------------
\* detect.rs.  What the verdict depends on: a document's <noscript> notice,
\* its meta refresh, the length of its text (see Markup), the markers of an
\* application shell and of embedded data.

Assess(d, floor) ==
  CASE d.notice \/ d.refresh -> "NeedsBrowser"
    [] ~d.notice /\ ~d.refresh /\ d.text >= floor -> "Static"
    [] OTHER -> IF d.shell /\ ~d.data THEN "NeedsBrowser" ELSE "Uncertain"

=============================================================================
