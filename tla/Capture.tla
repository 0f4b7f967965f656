------------------------------ MODULE Capture ------------------------------
(***************************************************************************)
(* One capture from the command line to its files: main of amber-cli,      *)
(* snapshot and Snapshot::save (lib.rs), run (capture.rs) with the static  *)
(* fetch of HttpFetch, and the capture in a browser of its own             *)
(* (render.rs).  Chromium is external: it answers a command with data,     *)
(* with none, with data that does not decode, or fails it.  Settling has a *)
(* module of its own, Settle; browsers that are reused are in BrowserPool. *)
(*                                                                         *)
(* A definition whose name starts with Bug is a seeded defect the model    *)
(* checker must detect; no specification uses it.                          *)
(***************************************************************************)
EXTENDS HttpFetch, Options

CONSTANTS
  Requests,   \* command lines
  MaxPolls    \* bound on the polls of wait_for_ready: WAIT_FOR_TIMEOUT / 200 ms

\* What actions::to_cdp sends; what evaluates a script is named for its verb.
ActionMethods == {"Page.navigate", "click", "fill", "scrollby", "scroll-bottom"}

ASSUME CaptureAssumption ==
  /\ \A o \in Requests :
       /\ o.formats \subseteq Formats /\ o.render \in {"auto", "always", "never"}
       /\ o.actions \in Seq(ToSet(o.actions))
       /\ \A c \in ToSet(o.actions) : c.method \in ActionMethods
       /\ o.session.headers \in Seq(ToSet(o.session.headers))
  /\ MaxPolls \in Nat \ {0}

VARIABLES
  stage,    \* where the call is
  request,  \* the command line
  browser,  \* "none", "running" or "killed"
  todo,     \* what the session has still to do
  polls,    \* polls of wait_for_ready
  sent,     \* history: commands sent in the page's session
  raw,      \* RawCapture
  outcome,  \* of snapshot: "none", "ok" or an error
  files,    \* what is on disk of each format
  saving,   \* formats still to be saved, in the order of Cli::formats
  exit      \* the exit code

browserVars == <<browser, todo, polls, sent>>
outputVars == <<files, saving, exit>>
captureVars == <<httpVars, stage, request, browserVars, raw, outcome, outputVars>>

Absent == "absent"
NoRaw == [static |-> Absent, rendered |-> Absent, mhtml |-> Absent, png |-> Absent,
          pdf |-> Absent, tree |-> Absent, date |-> Absent]

CaptureInit ==
  /\ HttpInit
  /\ stage = "main" /\ request \in Requests
  /\ browser = "none" /\ todo = <<>> /\ polls = 0 /\ sent = <<>>
  /\ raw = NoRaw /\ outcome = "none"
  /\ files = [f \in Formats |-> Absent] /\ saving = <<>> /\ exit = 0

Unfinished(s) == stage' = s /\ UNCHANGED <<raw, outcome>>
Returns(o) == stage' = "returned" /\ outcome' = o

-----------------------------------------------------------------------------
\* main and snapshot, up to the output gate.

\* No URL, no format, or an argument that does not parse.
Usage ==
  /\ stage = "main" /\ (request.malformed \/ request.formats = {})
  /\ stage' = "exited" /\ exit' = 2
  /\ UNCHANGED <<httpVars, request, browserVars, raw, outcome, files, saving>>

\* Url::parse fails, or run begins.
Snapshot ==
  /\ stage = "main" /\ ~request.malformed /\ request.formats # {}
  /\ \/ Returns("InvalidUrl") /\ UNCHANGED <<raw, httpVars>>
     \/ /\ BrowserRequiredUpfront(request.formats, request.render) \/ ActionsNeedBrowser(request)
        /\ Unfinished("browser") /\ UNCHANGED httpVars
     \/ /\ ~BrowserRequiredUpfront(request.formats, request.render)
        /\ ~ActionsNeedBrowser(request)
        /\ Unfinished("fetching")
        /\ BeginFetch \/ (request.proxy /\ InvalidProxy)
  /\ UNCHANGED <<request, browserVars, outputVars>>

Fetch(r) ==
  /\ stage = "fetching"
  /\ Attempt(r, request.budget)
  /\ UNCHANGED <<stage, request, browserVars, raw, outcome, outputVars>>

\* static_capture.
StaticCapture == [NoRaw EXCEPT !.static = "html", !.date = "date"]

Sufficient == fetched.ok /\ fetched.type = "html" /\ Assess(fetched.tag, request.floor) = "Static"

\* run, behind the fetch.
Decide ==
  /\ stage = "fetching" /\ attempt = 0
  /\ \/ /\ Sufficient \/ (request.render = "never" /\ fetched.ok /\ fetched.type = "html")
        /\ raw' = StaticCapture /\ Returns("ok")
     \/ /\ ~Sufficient /\ request.render # "never" /\ Unfinished("browser")
     \/ /\ request.render = "never" /\ ~(fetched.ok /\ fetched.type = "html")
        /\ Returns("Fetch") /\ UNCHANGED raw
  /\ UNCHANGED <<httpVars, request, browserVars, outputVars>>

-----------------------------------------------------------------------------
\* browser_capture and render::capture.

\* The deadline, ensure_chromium and the spawn, which each may fail.
SpawnBrowser ==
  /\ stage = "browser"
  /\ \/ request.deadline /\ Returns("Fetch") /\ UNCHANGED <<raw, browser>>
     \/ Returns("Browser") /\ UNCHANGED <<raw, browser>>
     \/ Unfinished("attaching") /\ browser' = "running"
  /\ UNCHANGED <<httpVars, request, todo, polls, sent, outputVars>>

Enabling ==
  <<Command("Page.enable", {}), Command("Network.enable", {}),
    Command("Page.setLifecycleEventsEnabled", {})>>
Navigate == Command("Page.navigate", {})
Settle == Command("settle", {})
WaitFor == Command("wait_for", {})

\* In the order of render_session.
Settings(o) ==
  BlockCommands(o.block) \o SessionCommands(o.session) \o EmulationCommands(o.emulation)

Artefacts(o) ==
  If({"mhtml", "html"} \cap o.formats # {}, "Page.captureSnapshot", {}) \o
  If("png" \in o.formats, "Page.captureScreenshot", {}) \o
  If("pdf" \in o.formats, "Page.printToPDF", {}) \o
  (IF o.accessibility
   THEN <<Command("Accessibility.enable", {}), Command("Accessibility.getFullAXTree", {})>>
   ELSE <<>>)

BugSession(o) ==   \* the page's DOM is read before the actions
  Enabling \o Settings(o) \o <<Navigate, Settle>> \o
  (IF o.wait THEN <<WaitFor>> ELSE <<>>) \o
  <<Command("outerHTML", {})>> \o o.actions \o Artefacts(o)

\* render_session.
Session(o) ==
  Enabling \o Settings(o) \o <<Navigate, Settle>> \o
  (IF o.wait THEN <<WaitFor>> ELSE <<>>) \o
  o.actions \o <<Command("outerHTML", {})>> \o Artefacts(o)

\* Target.createTarget and Target.attachToTarget.
Attach ==
  /\ stage = "attaching"
  /\ \/ Returns("Browser") /\ browser' = "killed" /\ UNCHANGED <<raw, todo>>
     \/ Unfinished("session") /\ todo' = Session(request) /\ UNCHANGED browser
  /\ UNCHANGED <<httpVars, request, polls, sent, outputVars>>

\* The field of RawCapture that a command's answer goes to.
FieldOf(method) ==
  CASE method = "outerHTML" -> "rendered" [] method = "Page.captureSnapshot" -> "mhtml"
    [] method = "Page.captureScreenshot" -> "png" [] method = "Page.printToPDF" -> "pdf"
    [] method = "Accessibility.getFullAXTree" -> "tree" [] OTHER -> "none"

\* What the raw capture becomes: a DOM without a value counts as empty, other
\* answers without data leave the field absent.  RawCapture is built, with its
\* instant, when the DOM is read.
Keeps(r, method, answer) ==
  LET field == FieldOf(method)
      dated == IF field = "rendered" THEN [r EXCEPT !.date = "date"] ELSE r IN
  CASE field = "none" -> r
    [] field = "rendered" -> [dated EXCEPT !.rendered = IF answer = "data" THEN "html" ELSE "blank"]
    [] OTHER -> [r EXCEPT ![field] = IF answer = "data" THEN "data" ELSE Absent]

\* The answer is used; a failure, or data that does not decode, ends the session.
Send(answer) ==
  LET c == Head(todo) IN
  /\ stage = "session" /\ todo # <<>> /\ c \notin {Settle, WaitFor}
  /\ answer = "garbled" => FieldOf(c.method) \in {"png", "pdf"}
  /\ answer = "none" => FieldOf(c.method) # "none"
  /\ sent' = Append(sent, c)
  /\ IF answer \in {"data", "none"}
     THEN /\ raw' = Keeps(raw, c.method, answer)
          /\ todo' = Tail(todo) /\ UNCHANGED <<stage, outcome>>
     ELSE /\ todo' = <<>> /\ outcome' = "Browser" /\ stage' = "closing" /\ UNCHANGED raw
  /\ UNCHANGED <<httpVars, request, browser, polls, outputVars>>

\* settle is best effort.
Settled ==
  /\ stage = "session" /\ todo # <<>> /\ Head(todo) = Settle
  /\ todo' = Tail(todo)
  /\ UNCHANGED <<httpVars, stage, request, browser, polls, sent, raw, outcome, outputVars>>

\* wait_for_ready polls until the condition holds or its time is up.
Poll ==
  /\ stage = "session" /\ todo # <<>> /\ Head(todo) = WaitFor
  /\ \/ todo' = Tail(todo) /\ UNCHANGED polls
     \/ polls < MaxPolls /\ polls' = polls + 1 /\ UNCHANGED todo
  /\ UNCHANGED <<httpVars, stage, request, browser, sent, raw, outcome, outputVars>>

SessionEnds ==
  /\ stage = "session" /\ todo = <<>>
  /\ stage' = "closing" /\ outcome' = "ok"
  /\ UNCHANGED <<httpVars, request, browserVars, raw, outputVars>>

BugClose ==   \* the browser outlives the call
  /\ stage = "closing"
  /\ stage' = "returned"
  /\ UNCHANGED <<httpVars, request, browserVars, raw, outcome, outputVars>>

\* Target.closeTarget, whose failure is ignored; then the browser is dropped.
Close ==
  /\ stage = "closing"
  /\ stage' = "returned" /\ browser' = "killed"
  /\ UNCHANGED <<httpVars, request, todo, polls, sent, raw, outcome, outputVars>>

-----------------------------------------------------------------------------
\* Snapshot::render: what a format is made of, or Absent if it cannot be.

HtmlOf(r) == IF r.rendered # Absent THEN r.rendered ELSE r.static

Source(r, f) ==
  CASE f \in {"md", "txt", "warc", "wacz"} -> HtmlOf(r)
    [] f \in {"mhtml", "html"} -> r.mhtml
    [] f = "png" -> r.png
    [] f = "pdf" -> r.pdf

\* capture_date: the instant of the capture, of the rendering if there is none.
CaptureDate(r, now) == IF r.date # Absent THEN r.date ELSE now

\* The bytes of a format, as far as they can differ.
Rendered(r, f, now) ==
  <<Source(r, f), IF f \in {"warc", "wacz"} THEN CaptureDate(r, now) ELSE "undated">>

\* evidence_manifest fails if one of its formats does.
EvidenceManifest(r, formats, now) ==
  IF \E f \in formats : Source(r, f) = Absent THEN <<>>
  ELSE <<CaptureDate(r, now), [f \in formats |-> Rendered(r, f, now)]>>

-----------------------------------------------------------------------------
\* main, behind snapshot.

\* Cli::formats.
Wanted(f, formats) == IF f \in formats THEN <<f>> ELSE <<>>
InOrder(formats) ==
  Wanted("html", formats) \o Wanted("mhtml", formats) \o Wanted("md", formats) \o
  Wanted("txt", formats) \o Wanted("warc", formats) \o Wanted("wacz", formats) \o
  Wanted("png", formats) \o Wanted("pdf", formats)

Report ==
  /\ stage = "returned"
  /\ IF outcome = "ok"
     THEN stage' = "saving" /\ saving' = InOrder(request.formats) /\ UNCHANGED exit
     ELSE stage' = "exited" /\ exit' = 1 /\ UNCHANGED saving
  /\ UNCHANGED <<httpVars, request, browserVars, raw, outcome, files>>

BugExitCode(failed) == IF failed THEN 1 ELSE 0   \* the last format decides
ExitCode(failed) == IF failed THEN 1 ELSE exit

\* Snapshot::save: the directory, the rendering and the write may fail; a write
\* that fails has truncated the file.
Save ==
  LET f == Head(saving) IN
  /\ stage = "saving" /\ saving # <<>>
  /\ saving' = Tail(saving)
  /\ \/ exit' = ExitCode(TRUE) /\ UNCHANGED files
     \/ /\ Source(raw, f) # Absent
        /\ \/ files' = [files EXCEPT ![f] = "partial"] /\ exit' = ExitCode(TRUE)
           \/ files' = [files EXCEPT ![f] = "whole"] /\ exit' = ExitCode(FALSE)
  /\ UNCHANGED <<httpVars, stage, request, browserVars, raw, outcome>>

Exit ==
  /\ stage = "saving" /\ saving = <<>>
  /\ stage' = "exited"
  /\ UNCHANGED <<httpVars, request, browserVars, raw, outcome, outputVars>>

CaptureNext ==
  \/ Usage \/ Snapshot \/ Decide \/ SpawnBrowser \/ Attach \/ Settled \/ Poll
  \/ SessionEnds \/ Close \/ Report \/ Save \/ Exit
  \/ \E r \in Replies : Fetch(r)
  \/ \E answer \in {"data", "none", "garbled", "failed"} : Send(answer)

\* Every step ends: fetches, commands and polls have timeouts (HttpFetch,
\* CdpPipe, Settle), and the rest is local.
CaptureSpec == CaptureInit /\ [][CaptureNext]_captureVars /\ WF_captureVars(CaptureNext)

-----------------------------------------------------------------------------

CaptureTypeOK ==
  /\ HttpTypeOK
  /\ stage \in {"main", "fetching", "browser", "attaching", "session", "closing",
                "returned", "saving", "exited"}
  /\ request \in Requests
  /\ browser \in {"none", "running", "killed"}
  /\ polls \in 0..MaxPolls
  /\ outcome \in {"none", "ok", "InvalidUrl", "Fetch", "Browser"}
  /\ \A f \in Formats : files[f] \in {Absent, "partial", "whole"}
  /\ saving \in Seq(Formats) /\ exit \in 0..2
  /\ attempt > 0 => stage = "fetching"

\* Whatever fails and whatever else is asked, a caller that forbids the browser
\* gets none.
BrowserForbidden == request.render = "never" => browser = "none"

\* The static tier answers in auto mode only for a page whose text is there
\* without scripts: a wrong "static is fine" loses data silently.
StaticOnlyIfSufficient ==
  outcome = "ok" /\ raw.static # Absent /\ request.render = "auto" =>
    LET d == fetched.tag IN
    ~d.notice /\ ~d.refresh /\ d.text >= request.floor
    /\ request.actions = <<>> /\ ~\E f \in request.formats : RequiresBrowser(f)

\* And no browser is started for less: where no mode, format or action calls for
\* it, only after a fetch that failed, gave no HTML, or gave a page whose text
\* is not there without scripts.
BrowserOnlyIfNeeded ==
  browser # "none" =>
    \/ request.render = "always" \/ request.actions # <<>>
    \/ \E f \in request.formats : RequiresBrowser(f)
    \/ ~fetched.ok \/ fetched.type # "html"
    \/ LET d == fetched.tag IN d.notice \/ d.refresh \/ ~(d.text >= request.floor)

\* The browser is used where allowed and called for, and nowhere else, as the
\* code understands it: by the mode, the formats, the actions and the page, and
\* not by wait_for (see WaitForcesBrowser).
TierRight == BrowserForbidden /\ StaticOnlyIfSufficient /\ BrowserOnlyIfNeeded

\* What the static fetch would present: of the headers of one name the last,
\* where the cookies' is behind the others.
Credentials(s) ==
  {HeaderLine(s.headers[i]) : i \in {k \in DOMAIN s.headers :
     /\ \A j \in DOMAIN s.headers : s.headers[j].name = s.headers[k].name => j <= k
     /\ s.cookies # <<>> => s.headers[k].name # "Cookie"}}
  \cup (IF s.cookies = <<>> THEN {} ELSE {<<"Cookie">> \o CookieHeader(s)})

\* The arguments of the commands of this method.
Told(commands, method) == UNION {c.args : c \in {x \in commands : x.method = method}}

\* The first request the page makes carries what the static fetch would have
\* sent, and meets what is blocked and emulated; events are on before it.
SetUpBeforeLoading ==
  \A n \in DOMAIN sent : sent[n] = Navigate =>
    LET before == {sent[i] : i \in 1..(n - 1)} IN
    /\ ToSet(Enabling) \subseteq before
    /\ Told(before, "Network.setExtraHTTPHeaders") = Credentials(request.session)
    /\ Told(before, "Network.setBlockedURLs") = BlockedUrlPatterns(request.block)
    /\ request.emulation.locale # "" =>
         <<request.emulation.locale>> \in Told(before, "Emulation.setLocaleOverride")

\* The DOM and the other artefacts show the page after all actions.
CapturedAfterActions ==
  \A n \in DOMAIN sent : FieldOf(sent[n].method) # "none" =>
    \A i \in DOMAIN request.actions : \E k \in 1..(n - 1) : sent[k] = request.actions[i]

\* The commands of a session are in an order that makes sense of them.
SessionOrdered == CaptureTypeOK /\ SetUpBeforeLoading /\ CapturedAfterActions

\* A capture in a browser that answered every command with data emits every
\* format that was asked for.
BrowserEmitsRequested ==
  outcome = "ok" /\ browser # "none" /\ raw.rendered = "html"
  /\ (\A n \in DOMAIN sent : FieldOf(sent[n].method) # "none" => raw[FieldOf(sent[n].method)] # Absent) =>
    \A f \in request.formats : Source(raw, f) # Absent

\* Rendering again, at another time, gives the same bytes and the same manifest.
Reproducible ==
  outcome = "ok" =>
    /\ \A f \in request.formats : Rendered(raw, f, "now") = Rendered(raw, f, "later")
    /\ EvidenceManifest(raw, request.formats, "now") = EvidenceManifest(raw, request.formats, "later")

\* Success means that every file asked for is on disk, whole; failure that one
\* is not.
ExitMeansWritten ==
  stage = "exited" => (exit = 0 <=> \A f \in request.formats : files[f] = "whole") \/ exit = 2

\* A caller has in its files what it asked for, the same bytes whenever they are
\* rendered, or is told that it has not.
DeliversRequested == BrowserEmitsRequested /\ Reproducible /\ ExitMeansWritten

\* Every call ends, and a browser it started is gone.
CallEnds == stage # "exited" ~> stage = "exited" /\ browser # "running"

-----------------------------------------------------------------------------
\* What comments in the source say, and the code does not ensure.

\* "CSS selector to wait for after settle (forces a browser)", of a caller that
\* does not forbid the browser: a capture that asks to wait is made in one.
WaitForcesBrowser ==
  outcome = "ok" /\ request.wait /\ request.render # "never" => browser # "none"

\* "returning a Snapshot that can emit the requested formats", of a caller that
\* does not forbid the browser, and with a browser that gives data.
SnapshotEmitsRequested ==
  outcome = "ok" /\ stage = "returned" /\ request.render # "never"
  /\ (\A n \in DOMAIN sent : FieldOf(sent[n].method) # "none" => raw[FieldOf(sent[n].method)] # Absent) =>
    \A f \in request.formats : Source(raw, f) # Absent

=============================================================================
