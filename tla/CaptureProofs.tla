---------------------------- MODULE CaptureProofs ---------------------------
(***************************************************************************)
(* Theorems about Capture, for all requests, replies and limits: which     *)
(* tier answers, in which order a browser session says and reads what, and *)
(* what an exit of the CLI promises.  They follow from one inductive       *)
(* invariant, whose parts relate the stage of a capture to its page, its   *)
(* session and its files.                                                  *)
(***************************************************************************)
EXTENDS Capture, Induction

-----------------------------------------------------------------------------
\* Sequences of what they hold, and what is behind what in a concatenation.

Plain(s) == s \in Seq(ToSet(s))

LEMMA Concatenation ==
  ASSUME NEW a, NEW b, Plain(a), Plain(b)
  PROVE  /\ Plain(a \o b) /\ ToSet(a \o b) = ToSet(a) \cup ToSet(b)
         /\ Len(a) \in Nat /\ Len(b) \in Nat /\ Len(a \o b) = Len(a) + Len(b)
         /\ DOMAIN a = 1 .. Len(a) /\ DOMAIN b = 1 .. Len(b)
         /\ DOMAIN (a \o b) = 1 .. Len(a) + Len(b)
         /\ \A i \in 1 .. Len(a) : (a \o b)[i] = a[i]
         /\ \A i \in 1 .. Len(b) : (a \o b)[Len(a) + i] = b[i]
<1> DEFINE C == ToSet(a) \cup ToSet(b)
           ab == a \o b
<1>1. a \in Seq(ToSet(a)) /\ b \in Seq(ToSet(b))
  BY DEF Plain
<1>2. a \in Seq(C) /\ b \in Seq(C)
  BY <1>1
<1> HIDE DEF C
<1>3. /\ Len(a) \in Nat /\ Len(b) \in Nat /\ Len(ab) = Len(a) + Len(b)
      /\ DOMAIN a = 1 .. Len(a) /\ DOMAIN b = 1 .. Len(b)
      /\ DOMAIN ab = 1 .. Len(a) + Len(b) /\ ab \in Seq(C)
      /\ \A i \in 1 .. Len(a) : ab[i] = a[i]
      /\ \A i \in 1 .. Len(b) : ab[Len(a) + i] = b[i]
  BY <1>2
<1> HIDE DEF ab
<1>4. ToSet(ab) = ToSet(a) \cup ToSet(b)
  <2>1. ASSUME NEW i \in DOMAIN ab PROVE ab[i] \in ToSet(a) \cup ToSet(b)
    <3>1. CASE i \in 1 .. Len(a)
      BY <1>3, <3>1 DEF ToSet
    <3>2. CASE i \notin 1 .. Len(a)
      <4>1. i - Len(a) \in 1 .. Len(b) /\ Len(a) + (i - Len(a)) = i
        BY <1>3, <2>1, <3>2
      <4>2. ab[i] = b[i - Len(a)]
        BY <1>3, <4>1
      <4> QED
        BY <1>3, <4>1, <4>2 DEF ToSet
    <3> QED
      BY <3>1, <3>2
  <2>2. ASSUME NEW i \in DOMAIN a PROVE a[i] \in ToSet(ab)
    <3>1. i \in DOMAIN ab /\ ab[i] = a[i]
      BY <1>3
    <3> QED
      BY <3>1 DEF ToSet
  <2>3. ASSUME NEW i \in DOMAIN b PROVE b[i] \in ToSet(ab)
    <3>1. Len(a) + i \in DOMAIN ab /\ ab[Len(a) + i] = b[i]
      BY <1>3
    <3> QED
      BY <3>1 DEF ToSet
  <2>4. \A x \in ToSet(ab) : x \in ToSet(a) \cup ToSet(b)
    BY <2>1 DEF ToSet
  <2>5. \A x \in ToSet(a) \cup ToSet(b) : x \in ToSet(ab)
    BY <2>2, <2>3 DEF ToSet
  <2> QED
    BY <2>4, <2>5
<1>5. Plain(ab)
  BY <1>3, <1>4 DEF Plain, C
<1> QED
  BY <1>3, <1>4, <1>5 DEF ab

LEMMA Short ==
  /\ Plain(<<>>) /\ ToSet(<<>>) = {} /\ Len(<<>>) = 0
  /\ \A x : Plain(<<x>>) /\ ToSet(<<x>>) = {x} /\ Len(<<x>>) = 1 /\ <<x>>[1] = x
  /\ \A x, y : /\ Plain(<<x, y>>) /\ ToSet(<<x, y>>) = {x, y} /\ Len(<<x, y>>) = 2
               /\ <<x, y>>[1] = x /\ <<x, y>>[2] = y
  /\ \A x, y, z : Plain(<<x, y, z>>) /\ ToSet(<<x, y, z>>) = {x, y, z}
<1>1. Plain(<<>>) /\ ToSet(<<>>) = {} /\ Len(<<>>) = 0
  BY DEF Plain, ToSet
<1>2. \A x : Plain(<<x>>) /\ ToSet(<<x>>) = {x} /\ Len(<<x>>) = 1 /\ <<x>>[1] = x
  <2> TAKE x
  <2>1. DOMAIN <<x>> = {1} /\ <<x>>[1] = x
    OBVIOUS
  <2>2. ToSet(<<x>>) = {x}
    BY <2>1 DEF ToSet
  <2> QED
    BY <2>1, <2>2 DEF Plain
<1>3. \A x, y : /\ Plain(<<x, y>>) /\ ToSet(<<x, y>>) = {x, y} /\ Len(<<x, y>>) = 2
                /\ <<x, y>>[1] = x /\ <<x, y>>[2] = y
  <2> TAKE x, y
  <2>1. DOMAIN <<x, y>> = {1, 2} /\ <<x, y>>[1] = x /\ <<x, y>>[2] = y
    OBVIOUS
  <2>2. ToSet(<<x, y>>) = {x, y}
    BY <2>1 DEF ToSet
  <2> QED
    BY <2>1, <2>2 DEF Plain
<1>4. \A x, y, z : Plain(<<x, y, z>>) /\ ToSet(<<x, y, z>>) = {x, y, z}
  <2> TAKE x, y, z
  <2>1. /\ DOMAIN <<x, y, z>> = {1, 2, 3}
        /\ <<x, y, z>>[1] = x /\ <<x, y, z>>[2] = y /\ <<x, y, z>>[3] = z
    OBVIOUS
  <2>2. ToSet(<<x, y, z>>) = {x, y, z}
    BY <2>1 DEF ToSet
  <2> QED
    BY <2>1, <2>2 DEF Plain
<1> QED
  BY <1>1, <1>2, <1>3, <1>4

-----------------------------------------------------------------------------
\* The commands of a session: those that set the page up, the navigation, the
\* actions, and what reads the page.

Waits == {Settle, WaitFor}
OuterHtml == Command("outerHTML", {})

SetUp(o) == Enabling \o Settings(o)
Arrival(o) == SetUp(o) \o <<Navigate, Settle>>
Ready(o) == Arrival(o) \o (IF o.wait THEN <<WaitFor>> ELSE <<>>)
Acted(o) == Ready(o) \o o.actions
Shown(o) == Acted(o) \o <<OuterHtml>>

LEMMA SessionIs == \A o : Session(o) = Shown(o) \o Artefacts(o)
BY DEF Session, Shown, Acted, Ready, Arrival, SetUp, OuterHtml

\* The methods of the commands.
SetUpMethods ==
  { "Page.enable", "Network.enable", "Page.setLifecycleEventsEnabled",
    "Network.setBlockedURLs", "Network.setExtraHTTPHeaders", "Emulation.setDeviceMetricsOverride",
    "Emulation.setUserAgentOverride", "Emulation.setLocaleOverride",
    "Emulation.setTimezoneOverride", "Emulation.setEmulatedMedia" }
ArtefactMethods ==
  { "Page.captureSnapshot", "Page.captureScreenshot", "Page.printToPDF",
    "Accessibility.enable", "Accessibility.getFullAXTree" }

LEMMA MethodOfCommand == \A m, a : Command(m, a).method = m /\ Command(m, a).args = a
BY DEF Command

LEMMA OneIf ==
  ASSUME NEW set, NEW m, NEW a
  PROVE  /\ Plain(If(set, m, a))
         /\ set => ToSet(If(set, m, a)) = {Command(m, a)}
         /\ ~set => ToSet(If(set, m, a)) = {}
         /\ \A c \in ToSet(If(set, m, a)) : c.method = m
<1>1. set => Plain(If(set, m, a)) /\ ToSet(If(set, m, a)) = {Command(m, a)}
  <2> SUFFICES ASSUME set PROVE Plain(If(set, m, a)) /\ ToSet(If(set, m, a)) = {Command(m, a)}
    OBVIOUS
  <2>1. If(set, m, a) = <<Command(m, a)>>
    BY Zenon DEF If
  <2> QED
    BY <2>1, Short
<1>2. ~set => Plain(If(set, m, a)) /\ ToSet(If(set, m, a)) = {}
  <2> SUFFICES ASSUME ~set PROVE Plain(If(set, m, a)) /\ ToSet(If(set, m, a)) = {}
    OBVIOUS
  <2>1. If(set, m, a) = <<>>
    BY Zenon DEF If
  <2> QED
    BY <2>1, Short
<1>3. Command(m, a).method = m
  BY MethodOfCommand
<1> QED
  BY <1>1, <1>2, <1>3, Zenon

LEMMA EmulationOnly ==
  ASSUME NEW e
  PROVE  /\ Plain(EmulationCommands(e))
         /\ \A c \in ToSet(EmulationCommands(e)) : c.method \in
              { "Emulation.setDeviceMetricsOverride", "Emulation.setUserAgentOverride",
                "Emulation.setLocaleOverride", "Emulation.setTimezoneOverride",
                "Emulation.setEmulatedMedia" }
         /\ e.locale # "" =>
              Command("Emulation.setLocaleOverride", {<<e.locale>>}) \in ToSet(EmulationCommands(e))
<1> DEFINE p1 == e.viewport # ""
           p2 == e.agent # ""
           p3 == e.locale # ""
           p4 == e.zone # ""
           p5 == e.dark
           a1 == {<<e.viewport>>}
           a2 == {<<"userAgent", e.agent>>} \cup
                 IF e.locale # "" THEN {<<"acceptLanguage", e.locale>>} ELSE {}
           a3 == {<<e.locale>>}
           a4 == {<<e.zone>>}
           a5 == {<<"dark">>}
           c1 == If(p1, "Emulation.setDeviceMetricsOverride", a1)
           c2 == If(p2, "Emulation.setUserAgentOverride", a2)
           c3 == If(p3, "Emulation.setLocaleOverride", a3)
           c4 == If(p4, "Emulation.setTimezoneOverride", a4)
           c5 == If(p5, "Emulation.setEmulatedMedia", a5)
<1>1. EmulationCommands(e) = c1 \o c2 \o c3 \o c4 \o c5
  BY Zenon DEF EmulationCommands
<1> HIDE DEF p1, p2, p3, p4, p5, a1, a2, a3, a4, a5
<1>2. Plain(c1) /\ \A c \in ToSet(c1) : c.method = "Emulation.setDeviceMetricsOverride"
  BY OneIf, Zenon
<1>3. Plain(c2) /\ \A c \in ToSet(c2) : c.method = "Emulation.setUserAgentOverride"
  BY OneIf, Zenon
<1>4. /\ Plain(c3) /\ \A c \in ToSet(c3) : c.method = "Emulation.setLocaleOverride"
      /\ p3 => Command("Emulation.setLocaleOverride", a3) \in ToSet(c3)
  <2>1. p3 => ToSet(c3) = {Command("Emulation.setLocaleOverride", a3)}
    BY OneIf, Zenon
  <2> QED
    BY <2>1, OneIf, Zenon
<1>5. Plain(c4) /\ \A c \in ToSet(c4) : c.method = "Emulation.setTimezoneOverride"
  BY OneIf, Zenon
<1>6. Plain(c5) /\ \A c \in ToSet(c5) : c.method = "Emulation.setEmulatedMedia"
  BY OneIf, Zenon
<1> HIDE DEF c1, c2, c3, c4, c5
<1>7. Plain(c1 \o c2) /\ ToSet(c1 \o c2) = ToSet(c1) \cup ToSet(c2)
  BY <1>2, <1>3, Concatenation
<1>8. /\ Plain(c1 \o c2 \o c3)
      /\ ToSet(c1 \o c2 \o c3) = ToSet(c1) \cup ToSet(c2) \cup ToSet(c3)
  BY <1>4, <1>7, Concatenation
<1>9. /\ Plain(c1 \o c2 \o c3 \o c4)
      /\ ToSet(c1 \o c2 \o c3 \o c4) = ToSet(c1) \cup ToSet(c2) \cup ToSet(c3) \cup ToSet(c4)
  BY <1>5, <1>8, Concatenation
<1>10. /\ Plain(EmulationCommands(e))
       /\ ToSet(EmulationCommands(e)) =
            ToSet(c1) \cup ToSet(c2) \cup ToSet(c3) \cup ToSet(c4) \cup ToSet(c5)
  BY <1>1, <1>6, <1>9, Concatenation
<1>11. p3 => Command("Emulation.setLocaleOverride", a3) \in ToSet(EmulationCommands(e))
  BY <1>4, <1>10
<1> QED
  BY <1>2, <1>3, <1>4, <1>5, <1>6, <1>10, <1>11 DEF p3, a3

LEMMA EnablingOnly ==
  /\ Plain(Enabling)
  /\ \A c \in ToSet(Enabling) :
       c.method \in {"Page.enable", "Network.enable", "Page.setLifecycleEventsEnabled"}
BY Short, MethodOfCommand DEF Enabling

LEMMA BlockOnly ==
  ASSUME NEW b
  PROVE  /\ Plain(BlockCommands(b))
         /\ \A c \in ToSet(BlockCommands(b)) :
              c.method = "Network.setBlockedURLs" /\ c.args = BlockedUrlPatterns(b)
         /\ BlockedUrlPatterns(b) # {} => ToSet(BlockCommands(b)) # {}
BY Short, MethodOfCommand DEF BlockCommands

LEMMA SessionOnly ==
  ASSUME NEW s
  PROVE  /\ Plain(SessionCommands(s))
         /\ \A c \in ToSet(SessionCommands(s)) :
              /\ c.method = "Network.setExtraHTTPHeaders"
              /\ c.args = {HeaderLine(h) : h \in ExtraHeaders(s)}
         /\ RequestHeaders(s) # <<>> => ToSet(SessionCommands(s)) # {}
<1> DEFINE lines == {HeaderLine(h) : h \in ExtraHeaders(s)}
           c == Command("Network.setExtraHTTPHeaders", lines)
<1>1. SessionCommands(s) = IF RequestHeaders(s) = <<>> THEN <<>> ELSE <<c>>
  BY DEF SessionCommands
<1>2. c.method = "Network.setExtraHTTPHeaders" /\ c.args = lines
  BY MethodOfCommand
<1> HIDE DEF c, lines
<1>3. /\ Plain(SessionCommands(s)) /\ \A x \in ToSet(SessionCommands(s)) : x = c
      /\ RequestHeaders(s) # <<>> => ToSet(SessionCommands(s)) # {}
  BY <1>1, Short
<1> QED
  BY <1>2, <1>3 DEF lines

\* What sets the page up, which is all that says so.
LEMMA SetUpOnly ==
  ASSUME NEW o
  PROVE  /\ Plain(SetUp(o)) /\ \A c \in ToSet(SetUp(o)) : c.method \in SetUpMethods
         /\ ToSet(Enabling) \subseteq ToSet(SetUp(o))
         /\ Told(ToSet(SetUp(o)), "Network.setExtraHTTPHeaders") =
              IF RequestHeaders(o.session) = <<>> THEN {}
              ELSE {HeaderLine(h) : h \in ExtraHeaders(o.session)}
         /\ Told(ToSet(SetUp(o)), "Network.setBlockedURLs") = BlockedUrlPatterns(o.block)
         /\ o.emulation.locale # "" =>
              Command("Emulation.setLocaleOverride", {<<o.emulation.locale>>}) \in ToSet(SetUp(o))
<1> DEFINE b == BlockCommands(o.block)
           s == SessionCommands(o.session)
           e == EmulationCommands(o.emulation)
<1>1. SetUp(o) = Enabling \o ((b \o s) \o e)
  BY DEF SetUp, Settings
<1>2. Plain(Enabling) /\ Plain(b) /\ Plain(s) /\ Plain(e)
  BY EnablingOnly, BlockOnly, SessionOnly, EmulationOnly
<1>3. Plain(b \o s) /\ ToSet(b \o s) = ToSet(b) \cup ToSet(s)
  BY <1>2, Concatenation
<1>4. Plain((b \o s) \o e) /\ ToSet((b \o s) \o e) = ToSet(b) \cup ToSet(s) \cup ToSet(e)
  BY <1>2, <1>3, Concatenation
<1>5. /\ Plain(SetUp(o))
      /\ ToSet(SetUp(o)) = ToSet(Enabling) \cup (ToSet(b) \cup ToSet(s) \cup ToSet(e))
  BY <1>1, <1>2, <1>4, Concatenation
<1> HIDE DEF b, s, e
<1>6. \A c \in ToSet(SetUp(o)) : c.method \in SetUpMethods
  <2> SUFFICES ASSUME NEW c \in ToSet(SetUp(o)) PROVE c.method \in SetUpMethods
    OBVIOUS
  <2>1. CASE c \in ToSet(Enabling)
    BY <2>1, EnablingOnly DEF SetUpMethods
  <2>2. CASE c \in ToSet(b)
    BY <2>2, BlockOnly DEF SetUpMethods, b
  <2>3. CASE c \in ToSet(s)
    BY <2>3, SessionOnly DEF SetUpMethods, s
  <2>4. CASE c \in ToSet(e)
    BY <2>4, EmulationOnly DEF SetUpMethods, e
  <2> QED
    BY <1>5, <2>1, <2>2, <2>3, <2>4
<1>7. {c \in ToSet(SetUp(o)) : c.method = "Network.setExtraHTTPHeaders"} = ToSet(s)
  <2>1. \A c \in ToSet(Enabling) : c.method # "Network.setExtraHTTPHeaders"
    BY EnablingOnly
  <2>2. \A c \in ToSet(b) : c.method # "Network.setExtraHTTPHeaders"
    BY BlockOnly DEF b
  <2>3. \A c \in ToSet(e) : c.method # "Network.setExtraHTTPHeaders"
    BY EmulationOnly DEF e
  <2>4. \A c \in ToSet(s) : c.method = "Network.setExtraHTTPHeaders"
    BY SessionOnly DEF s
  <2> QED
    BY <1>5, <2>1, <2>2, <2>3, <2>4
<1>8. {c \in ToSet(SetUp(o)) : c.method = "Network.setBlockedURLs"} = ToSet(b)
  <2>1. \A c \in ToSet(Enabling) : c.method # "Network.setBlockedURLs"
    BY EnablingOnly
  <2>2. \A c \in ToSet(b) : c.method = "Network.setBlockedURLs"
    BY BlockOnly DEF b
  <2>3. \A c \in ToSet(e) : c.method # "Network.setBlockedURLs"
    BY EmulationOnly DEF e
  <2>4. \A c \in ToSet(s) : c.method # "Network.setBlockedURLs"
    BY SessionOnly DEF s
  <2> QED
    BY <1>5, <2>1, <2>2, <2>3, <2>4
<1>9. UNION {c.args : c \in ToSet(b)} = BlockedUrlPatterns(o.block)
  <2>1. \A c \in ToSet(b) : c.args = BlockedUrlPatterns(o.block)
    BY BlockOnly DEF b
  <2>2. BlockedUrlPatterns(o.block) # {} => ToSet(b) # {}
    BY BlockOnly DEF b
  <2> QED
    BY <2>1, <2>2
<1>10. UNION {c.args : c \in ToSet(s)} =
         IF RequestHeaders(o.session) = <<>> THEN {}
         ELSE {HeaderLine(h) : h \in ExtraHeaders(o.session)}
  <2> DEFINE lines == {HeaderLine(h) : h \in ExtraHeaders(o.session)}
  <2>1. \A c \in ToSet(s) : c.args = lines
    BY SessionOnly DEF s
  <2>2. RequestHeaders(o.session) # <<>> => ToSet(s) # {}
    BY SessionOnly DEF s
  <2>3. RequestHeaders(o.session) = <<>> => ToSet(s) = {}
    BY Short DEF s, SessionCommands
  <2> HIDE DEF lines
  <2>4. UNION {c.args : c \in ToSet(s)} = IF RequestHeaders(o.session) = <<>> THEN {} ELSE lines
    BY <2>1, <2>2, <2>3
  <2> QED
    BY <2>4 DEF lines
<1>11. /\ Told(ToSet(SetUp(o)), "Network.setExtraHTTPHeaders") = UNION {c.args : c \in ToSet(s)}
       /\ Told(ToSet(SetUp(o)), "Network.setBlockedURLs") = UNION {c.args : c \in ToSet(b)}
  BY <1>7, <1>8 DEF Told
<1>12. o.emulation.locale # "" =>
         Command("Emulation.setLocaleOverride", {<<o.emulation.locale>>}) \in ToSet(SetUp(o))
  BY <1>5, EmulationOnly DEF e
<1> QED
  BY <1>5, <1>6, <1>9, <1>10, <1>11, <1>12

\* The headers of which the browser is told are those that count.
LEMMA HeadersAreCredentials ==
  ASSUME NEW s, Plain(s.headers)
  PROVE  (IF RequestHeaders(s) = <<>> THEN {} ELSE {HeaderLine(h) : h \in ExtraHeaders(s)})
           = Credentials(s)
<1> DEFINE hs == s.headers
           n == Len(hs)
           cookie == [name |-> "Cookie", value |-> CookieHeader(s)]
<1>1. /\ n \in Nat /\ DOMAIN hs = 1 .. n /\ (n = 0 <=> hs = <<>>)
      /\ Append(hs, cookie) # <<>>
      /\ DOMAIN Append(hs, cookie) = 1 .. n + 1 /\ Append(hs, cookie)[n + 1] = cookie
      /\ \A i \in 1 .. n : Append(hs, cookie)[i] = hs[i]
  <2>1. hs \in Seq(ToSet(hs) \cup {cookie}) /\ cookie \in ToSet(hs) \cup {cookie}
    BY DEF Plain
  <2> HIDE DEF hs, cookie
  <2> QED
    BY <2>1
<1>2. cookie.name = "Cookie" /\ HeaderLine(cookie) = <<"Cookie">> \o CookieHeader(s)
  BY DEF HeaderLine
<1> HIDE DEF n, cookie
<1>3. CASE s.cookies = <<>>
  <2>1. RequestHeaders(s) = hs
    BY <1>3 DEF RequestHeaders
  <2>2. ExtraHeaders(s) =
          {hs[i] : i \in {k \in DOMAIN hs : \A j \in DOMAIN hs : hs[j].name = hs[k].name => j <= k}}
    BY <2>1 DEF ExtraHeaders
  <2>3. Credentials(s) = {HeaderLine(hs[i]) :
          i \in {k \in DOMAIN hs : \A j \in DOMAIN hs : hs[j].name = hs[k].name => j <= k}}
    BY <1>3 DEF Credentials
  <2> HIDE DEF hs
  <2>4. {HeaderLine(h) : h \in ExtraHeaders(s)} = Credentials(s)
    BY <2>2, <2>3
  <2>5. hs = <<>> => Credentials(s) = {}
    BY <1>1, <2>3
  <2> QED
    BY <2>1, <2>4, <2>5
<1>4. CASE s.cookies # <<>>
  <2> DEFINE all == Append(hs, cookie)
             last == {k \in DOMAIN all : \A j \in DOMAIN all : all[j].name = all[k].name => j <= k}
             ours == {k \in DOMAIN hs :
                        /\ \A j \in DOMAIN hs : hs[j].name = hs[k].name => j <= k
                        /\ hs[k].name # "Cookie"}
  <2>1. RequestHeaders(s) = all
    BY <1>4 DEF RequestHeaders, cookie
  <2>2. ExtraHeaders(s) = {all[i] : i \in last}
    BY <2>1 DEF ExtraHeaders
  <2>3. Credentials(s) = {HeaderLine(hs[i]) : i \in ours} \cup {HeaderLine(cookie)}
    BY <1>2, <1>4 DEF Credentials
  <2> HIDE DEF hs, all
  <2>4. /\ DOMAIN all = 1 .. n + 1 /\ all[n + 1] = cookie /\ all # <<>>
        /\ \A i \in 1 .. n : all[i] = hs[i]
    BY <1>1 DEF all
  <2>5. last = ours \cup {n + 1}
    <3>1. n + 1 \in last
      BY <1>1, <2>4
    <3>2. \A k \in 1 .. n : k \in last <=> k \in ours
      <4> TAKE k \in 1 .. n
      <4>1. k \in DOMAIN hs /\ k \in DOMAIN all /\ all[k] = hs[k] /\ ~(n + 1 <= k)
        BY <1>1, <2>4
      <4>2. ASSUME k \in last PROVE k \in ours
        <5>1. \A j \in DOMAIN all : all[j].name = all[k].name => j <= k
          BY <4>2
        <5>2. \A j \in DOMAIN hs : hs[j].name = hs[k].name => j <= k
          BY <1>1, <2>4, <4>1, <5>1
        <5>3. hs[k].name # "Cookie"
          BY <1>1, <1>2, <2>4, <4>1, <5>1
        <5> QED
          BY <4>1, <5>2, <5>3
      <4>3. ASSUME k \in ours PROVE k \in last
        <5>1. \A j \in DOMAIN all : j \in DOMAIN hs \/ j = n + 1
          BY <1>1, <2>4
        <5>2. all[n + 1].name # all[k].name
          BY <1>2, <2>4, <4>1, <4>3
        <5>3. \A j \in DOMAIN all : all[j].name = all[k].name => j <= k
          BY <1>1, <2>4, <4>1, <4>3, <5>1, <5>2
        <5> QED
          BY <4>1, <5>3
      <4> QED
        BY <4>2, <4>3
    <3>3. last \subseteq 1 .. n + 1 /\ ours \subseteq 1 .. n
      BY <1>1, <2>4
    <3>4. \A k \in 1 .. n + 1 : k \in 1 .. n \/ k = n + 1
      BY <1>1
    <3> HIDE DEF last, ours
    <3> QED
      BY <3>1, <3>2, <3>3, <3>4
  <2> HIDE DEF last, ours
  <2>6. ours \subseteq 1 .. n
    BY <1>1 DEF ours
  <2>7. {HeaderLine(all[i]) : i \in last} = Credentials(s)
    BY <2>3, <2>4, <2>5, <2>6
  <2>8. {HeaderLine(h) : h \in ExtraHeaders(s)} = {HeaderLine(all[i]) : i \in last}
    BY <2>2
  <2> QED
    BY <2>1, <2>4, <2>7, <2>8
<1> QED
  BY <1>3, <1>4

\* session.rs: the browser presents what the static fetch presents, unless a name
\* is given twice, and of that it presents the last; the cookies always count.
THEOREM CredentialsAgree ==
  ASSUME NEW s, Plain(s.headers)
  PROVE  SameCredentials(s)
<1> DEFINE cookie == [name |-> "Cookie", value |-> CookieHeader(s)]
           h == RequestHeaders(s)
           last == {k \in DOMAIN h : \A j \in DOMAIN h : h[j].name = h[k].name => j <= k}
           names == {h[i].name : i \in DOMAIN h}
<1>1. /\ Len(h) \in Nat /\ DOMAIN h = 1 .. Len(h)
      /\ s.cookies # <<>> => Len(h) \in DOMAIN h /\ h[Len(h)] = cookie
  <2>1. s.headers \in Seq(ToSet(s.headers) \cup {cookie})
    BY DEF Plain
  <2> HIDE DEF cookie
  <2>2. CASE s.cookies = <<>>
    BY <2>1, <2>2 DEF RequestHeaders
  <2>3. CASE s.cookies # <<>>
    <3>1. h = Append(s.headers, cookie)
      BY <2>3 DEF RequestHeaders, cookie
    <3> QED
      BY <2>1, <3>1
  <2> QED
    BY <2>2, <2>3
<1>2. ExtraHeaders(s) = {h[i] : i \in last} /\ ToSet(h) = {h[i] : i \in DOMAIN h}
  BY DEF ExtraHeaders, ToSet
<1> HIDE DEF h, cookie
<1>3. ASSUME Cardinality(names) = Len(h) PROVE ExtraHeaders(s) = ToSet(h)
  <2> DEFINE f == [i \in DOMAIN h |-> h[i].name]
  <2>1. IsFiniteSet(DOMAIN h) /\ Cardinality(DOMAIN h) = Len(h)
    BY <1>1, FS_Interval
  <2>2. f \in Surjection(DOMAIN h, names)
    BY DEF Surjection
  <2>3. f \in Injection(DOMAIN h, names)
    BY <1>3, <2>1, <2>2, FS_Surjection
  <2>4. \A i, j \in DOMAIN h : h[i].name = h[j].name => i = j
    BY <2>3 DEF Injection, IsInjective
  <2>5. last = DOMAIN h
    BY <1>1, <2>4
  <2> QED
    BY <1>2, <2>5
<1>4. ASSUME s.cookies # <<>> PROVE cookie \in ExtraHeaders(s)
  <2>1. Len(h) \in last
    BY <1>1, <1>4
  <2> QED
    BY <1>1, <1>2, <1>4, <2>1
<1>5. ASSUME NEW x \in ExtraHeaders(s), NEW y \in ExtraHeaders(s), x.name = y.name PROVE x = y
  <2>1. PICK i \in last : x = h[i]
    BY <1>2
  <2>2. PICK j \in last : y = h[j]
    BY <1>2
  <2>3. i <= j /\ j <= i
    BY <1>5, <2>1, <2>2
  <2>4. i = j
    BY <1>1, <2>3
  <2> QED
    BY <2>1, <2>2, <2>4
<1> QED
  BY <1>3, <1>4, <1>5 DEF SameCredentials, h, cookie

LEMMA ArtefactsOnly ==
  ASSUME NEW o
  PROVE  /\ Plain(Artefacts(o))
         /\ \A c \in ToSet(Artefacts(o)) : c.method \in ArtefactMethods
         /\ {"mhtml", "html"} \cap o.formats # {} =>
              Command("Page.captureSnapshot", {}) \in ToSet(Artefacts(o))
         /\ "png" \in o.formats => Command("Page.captureScreenshot", {}) \in ToSet(Artefacts(o))
         /\ "pdf" \in o.formats => Command("Page.printToPDF", {}) \in ToSet(Artefacts(o))
<1> DEFINE p1 == {"mhtml", "html"} \cap o.formats # {}
           p2 == "png" \in o.formats
           p3 == "pdf" \in o.formats
           m1 == Command("Page.captureSnapshot", {})
           m2 == Command("Page.captureScreenshot", {})
           m3 == Command("Page.printToPDF", {})
           c1 == If(p1, "Page.captureSnapshot", {})
           c2 == If(p2, "Page.captureScreenshot", {})
           c3 == If(p3, "Page.printToPDF", {})
           c4 == IF o.accessibility
                 THEN <<Command("Accessibility.enable", {}), Command("Accessibility.getFullAXTree", {})>>
                 ELSE <<>>
<1>1. Artefacts(o) = c1 \o c2 \o c3 \o c4
  BY Zenon DEF Artefacts
<1>2. /\ Plain(c4)
      /\ \A c \in ToSet(c4) : c.method \in {"Accessibility.enable", "Accessibility.getFullAXTree"}
  BY Short, MethodOfCommand
<1> HIDE DEF p1, p2, p3, c4
<1>3. /\ Plain(c1) /\ \A c \in ToSet(c1) : c.method = "Page.captureSnapshot"
      /\ p1 => ToSet(c1) = {m1}
  BY OneIf, Zenon
<1>4. /\ Plain(c2) /\ \A c \in ToSet(c2) : c.method = "Page.captureScreenshot"
      /\ p2 => ToSet(c2) = {m2}
  BY OneIf, Zenon
<1>5. /\ Plain(c3) /\ \A c \in ToSet(c3) : c.method = "Page.printToPDF"
      /\ p3 => ToSet(c3) = {m3}
  BY OneIf, Zenon
<1> HIDE DEF c1, c2, c3, m1, m2, m3
<1>6. Plain(c1 \o c2) /\ ToSet(c1 \o c2) = ToSet(c1) \cup ToSet(c2)
  BY <1>3, <1>4, Concatenation
<1>7. /\ Plain(c1 \o c2 \o c3)
      /\ ToSet(c1 \o c2 \o c3) = ToSet(c1) \cup ToSet(c2) \cup ToSet(c3)
  BY <1>5, <1>6, Concatenation
<1>8. /\ Plain(Artefacts(o))
      /\ ToSet(Artefacts(o)) = ToSet(c1) \cup ToSet(c2) \cup ToSet(c3) \cup ToSet(c4)
  BY <1>1, <1>2, <1>7, Concatenation
<1>9. \A c \in ToSet(Artefacts(o)) : c.method \in ArtefactMethods
  BY <1>2, <1>3, <1>4, <1>5, <1>8 DEF ArtefactMethods
<1>10. /\ p1 => m1 \in ToSet(Artefacts(o))
       /\ p2 => m2 \in ToSet(Artefacts(o))
       /\ p3 => m3 \in ToSet(Artefacts(o))
  BY <1>3, <1>4, <1>5, <1>8
<1> QED
  BY <1>8, <1>9, <1>10 DEF p1, p2, p3, m1, m2, m3

\* Where things are in a session: what sets the page up comes first, then the
\* navigation; the actions, and behind them what reads the page.
LEMMA SessionLayout ==
  ASSUME NEW o \in Requests
  PROVE  /\ Plain(Session(o)) /\ DOMAIN Session(o) = 1 .. Len(Session(o)) /\ Len(Session(o)) \in Nat
         /\ ToSet(Session(o)) = ToSet(SetUp(o)) \cup {Navigate, Settle} \cup
              (IF o.wait THEN {WaitFor} ELSE {}) \cup ToSet(o.actions) \cup {OuterHtml} \cup
              ToSet(Artefacts(o))
         /\ DOMAIN SetUp(o) = 1 .. Len(SetUp(o)) /\ Len(SetUp(o)) \in Nat
         /\ Len(SetUp(o)) <= Len(Session(o))
         /\ \A j \in 1 .. Len(SetUp(o)) : Session(o)[j] = SetUp(o)[j]
         /\ DOMAIN Acted(o) = 1 .. Len(Acted(o)) /\ Len(Acted(o)) \in Nat
         /\ Len(Acted(o)) < Len(Session(o))
         /\ \A j \in 1 .. Len(Acted(o)) : Session(o)[j] = Acted(o)[j]
         /\ ToSet(Acted(o)) = ToSet(SetUp(o)) \cup {Navigate, Settle} \cup
              (IF o.wait THEN {WaitFor} ELSE {}) \cup ToSet(o.actions)
<1> DEFINE w == IF o.wait THEN <<WaitFor>> ELSE <<>>
           W == IF o.wait THEN {WaitFor} ELSE {}
<1>1. Plain(w) /\ ToSet(w) = W
  BY Short
<1>2. Ready(o) = Arrival(o) \o w
  BY DEF Ready
<1> HIDE DEF w, W
<1>3. Plain(SetUp(o))
  BY SetUpOnly
<1>4. /\ Plain(Arrival(o)) /\ ToSet(Arrival(o)) = ToSet(SetUp(o)) \cup {Navigate, Settle}
      /\ Len(SetUp(o)) \in Nat /\ Len(Arrival(o)) \in Nat /\ Len(SetUp(o)) <= Len(Arrival(o))
      /\ DOMAIN SetUp(o) = 1 .. Len(SetUp(o))
      /\ \A j \in 1 .. Len(SetUp(o)) : Arrival(o)[j] = SetUp(o)[j]
  <2> DEFINE nav == <<Navigate, Settle>>
  <2>1. Plain(nav) /\ ToSet(nav) = {Navigate, Settle}
    BY Short
  <2>2. Arrival(o) = SetUp(o) \o nav
    BY DEF Arrival
  <2> HIDE DEF nav
  <2>3. /\ Plain(SetUp(o) \o nav) /\ ToSet(SetUp(o) \o nav) = ToSet(SetUp(o)) \cup ToSet(nav)
        /\ Len(SetUp(o)) \in Nat /\ Len(nav) \in Nat
        /\ Len(SetUp(o) \o nav) = Len(SetUp(o)) + Len(nav)
        /\ DOMAIN SetUp(o) = 1 .. Len(SetUp(o))
        /\ \A j \in 1 .. Len(SetUp(o)) : (SetUp(o) \o nav)[j] = SetUp(o)[j]
    BY <1>3, <2>1, Concatenation
  <2> QED
    BY <2>1, <2>2, <2>3
<1>5. /\ Plain(Ready(o)) /\ ToSet(Ready(o)) = ToSet(SetUp(o)) \cup {Navigate, Settle} \cup W
      /\ Len(Ready(o)) \in Nat /\ Len(Arrival(o)) <= Len(Ready(o))
      /\ \A j \in 1 .. Len(Arrival(o)) : Ready(o)[j] = Arrival(o)[j]
  <2>1. /\ Plain(Arrival(o) \o w) /\ ToSet(Arrival(o) \o w) = ToSet(Arrival(o)) \cup ToSet(w)
        /\ Len(w) \in Nat /\ Len(Arrival(o) \o w) = Len(Arrival(o)) + Len(w)
        /\ \A j \in 1 .. Len(Arrival(o)) : (Arrival(o) \o w)[j] = Arrival(o)[j]
    BY <1>1, <1>4, Concatenation
  <2> QED
    BY <1>1, <1>2, <1>4, <2>1
<1>6. Plain(o.actions)
  BY CaptureAssumption DEF Plain
<1>7. /\ Plain(Acted(o)) /\ Len(Acted(o)) \in Nat /\ Len(Ready(o)) <= Len(Acted(o))
      /\ ToSet(Acted(o)) = ToSet(SetUp(o)) \cup {Navigate, Settle} \cup W \cup ToSet(o.actions)
      /\ \A j \in 1 .. Len(Ready(o)) : Acted(o)[j] = Ready(o)[j]
  <2>1. /\ Plain(Ready(o) \o o.actions)
        /\ ToSet(Ready(o) \o o.actions) = ToSet(Ready(o)) \cup ToSet(o.actions)
        /\ Len(o.actions) \in Nat /\ Len(Ready(o) \o o.actions) = Len(Ready(o)) + Len(o.actions)
        /\ \A j \in 1 .. Len(Ready(o)) : (Ready(o) \o o.actions)[j] = Ready(o)[j]
    BY <1>5, <1>6, Concatenation
  <2> QED
    BY <1>5, <2>1 DEF Acted
<1>8. /\ Plain(Shown(o)) /\ Len(Shown(o)) \in Nat /\ Len(Shown(o)) = Len(Acted(o)) + 1
      /\ ToSet(Shown(o)) = ToSet(Acted(o)) \cup {OuterHtml}
      /\ DOMAIN Acted(o) = 1 .. Len(Acted(o))
      /\ \A j \in 1 .. Len(Acted(o)) : Shown(o)[j] = Acted(o)[j]
  <2>1. Plain(<<OuterHtml>>) /\ ToSet(<<OuterHtml>>) = {OuterHtml} /\ Len(<<OuterHtml>>) = 1
    BY Short
  <2>2. Shown(o) = Acted(o) \o <<OuterHtml>>
    BY DEF Shown
  <2> QED
    BY <1>7, <2>1, <2>2, Concatenation
<1>9. /\ Plain(Session(o)) /\ Len(Session(o)) \in Nat /\ Len(Shown(o)) <= Len(Session(o))
      /\ DOMAIN Session(o) = 1 .. Len(Session(o))
      /\ ToSet(Session(o)) = ToSet(Shown(o)) \cup ToSet(Artefacts(o))
      /\ \A j \in 1 .. Len(Shown(o)) : Session(o)[j] = Shown(o)[j]
  <2>1. Plain(Artefacts(o))
    BY ArtefactsOnly
  <2>2. /\ Plain(Shown(o) \o Artefacts(o))
        /\ ToSet(Shown(o) \o Artefacts(o)) = ToSet(Shown(o)) \cup ToSet(Artefacts(o))
        /\ Len(Artefacts(o)) \in Nat
        /\ Len(Shown(o) \o Artefacts(o)) = Len(Shown(o)) + Len(Artefacts(o))
        /\ DOMAIN (Shown(o) \o Artefacts(o)) = 1 .. Len(Shown(o)) + Len(Artefacts(o))
        /\ \A j \in 1 .. Len(Shown(o)) : (Shown(o) \o Artefacts(o))[j] = Shown(o)[j]
    BY <1>8, <2>1, Concatenation
  <2>3. Session(o) = Shown(o) \o Artefacts(o)
    BY SessionIs
  <2>4. /\ Plain(Session(o)) /\ ToSet(Session(o)) = ToSet(Shown(o)) \cup ToSet(Artefacts(o))
        /\ \A j \in 1 .. Len(Shown(o)) : Session(o)[j] = Shown(o)[j]
        /\ Len(Session(o)) = Len(Shown(o)) + Len(Artefacts(o))
        /\ DOMAIN Session(o) = 1 .. Len(Shown(o)) + Len(Artefacts(o))
    BY <2>2, <2>3, Zenon
  <2> QED
    BY <1>8, <2>2, <2>4
<1>10. \A j \in 1 .. Len(SetUp(o)) : Session(o)[j] = SetUp(o)[j]
  <2> TAKE j \in 1 .. Len(SetUp(o))
  <2>1. /\ j \in 1 .. Len(Arrival(o)) /\ j \in 1 .. Len(Ready(o)) /\ j \in 1 .. Len(Acted(o))
        /\ j \in 1 .. Len(Shown(o))
    BY <1>4, <1>5, <1>7, <1>8
  <2> QED
    BY <1>4, <1>5, <1>7, <1>8, <1>9, <2>1
<1>11. \A j \in 1 .. Len(Acted(o)) : Session(o)[j] = Acted(o)[j]
  BY <1>7, <1>8, <1>9
<1>12. Len(SetUp(o)) <= Len(Session(o)) /\ Len(Acted(o)) < Len(Session(o))
  BY <1>4, <1>5, <1>7, <1>8, <1>9
<1> QED
  BY <1>4, <1>7, <1>8, <1>9, <1>10, <1>11, <1>12 DEF W

\* The commands that make a field of the raw capture come behind the actions.
LEMMA Fields ==
  /\ \A m : FieldOf(m) # "none" =>
       m \in {"outerHTML"} \cup ArtefactMethods
  /\ FieldOf("outerHTML") = "rendered" /\ FieldOf("Page.captureSnapshot") = "mhtml"
  /\ FieldOf("Page.captureScreenshot") = "png" /\ FieldOf("Page.printToPDF") = "pdf"
  /\ \A m : FieldOf(m) = "rendered" => m = "outerHTML"
  /\ \A m : FieldOf(m) \in {"rendered", "mhtml", "png", "pdf", "tree", "none"}
BY DEF FieldOf, ArtefactMethods

-----------------------------------------------------------------------------
\* How far a session has come: the commands cs, of which out have been sent and
\* rest have not.

\* What is sent is a command of the session, behind all that come before it.
Prefixed(cs, out) ==
  \A n \in DOMAIN out : \E m \in DOMAIN cs :
    /\ cs[m] = out[n]
    /\ \A j \in 1 .. m - 1 : cs[j] \notin Waits => \E i \in 1 .. n - 1 : out[i] = cs[j]

\* The first k commands are done; the others are still to be.
Through(cs, rest, out, k) ==
  /\ Len(rest) = Len(cs) - k
  /\ \A j \in 1 .. Len(rest) : rest[j] = cs[k + j]
  /\ \A j \in 1 .. k : cs[j] \notin Waits => cs[j] \in ToSet(out)

Reached(cs, rest, out) == \E k \in 0 .. Len(cs) : Through(cs, rest, out, k)

LEMMA ReachedFirst ==
  ASSUME NEW cs, Plain(cs)
  PROVE  Reached(cs, cs, <<>>) /\ Prefixed(cs, <<>>)
<1>1. Len(cs) \in Nat
  BY DEF Plain
<1>2. Through(cs, cs, <<>>, 0)
  BY <1>1 DEF Through
<1>3. 0 \in 0 .. Len(cs)
  BY <1>1
<1> QED
  BY <1>2, <1>3 DEF Reached, Prefixed

\* The next command is sent.
LEMMA ReachedSends ==
  ASSUME NEW C, NEW cs \in Seq(C), NEW rest \in Seq(C), NEW out \in Seq(C),
         Reached(cs, rest, out), Prefixed(cs, out), rest # <<>>
  PROVE  /\ Head(rest) \in ToSet(cs) /\ Tail(rest) \in Seq(C)
         /\ Append(out, Head(rest)) \in Seq(C)
         /\ Prefixed(cs, Append(out, Head(rest)))
         /\ Reached(cs, Tail(rest), Append(out, Head(rest)))
         /\ ToSet(Append(out, Head(rest))) = ToSet(out) \cup {Head(rest)}
<1> DEFINE c == Head(rest)
           more == Append(out, c)
           left == Tail(rest)
           n == Len(out)
<1>1. /\ c \in C /\ c = rest[1] /\ left \in Seq(C) /\ more \in Seq(C)
      /\ Len(rest) \in Nat \ {0} /\ Len(left) = Len(rest) - 1
      /\ \A j \in 1 .. Len(left) : left[j] = rest[j + 1]
      /\ n \in Nat /\ DOMAIN out = 1 .. n /\ DOMAIN more = 1 .. n + 1
      /\ \A i \in 1 .. n : more[i] = out[i]
      /\ more[n + 1] = c
      /\ Len(cs) \in Nat /\ DOMAIN cs = 1 .. Len(cs)
  OBVIOUS
<1> HIDE DEF c, more, left, n
<1>2. PICK k \in 0 .. Len(cs) : Through(cs, rest, out, k)
  BY DEF Reached
<1>3. /\ Len(rest) = Len(cs) - k /\ \A j \in 1 .. Len(rest) : rest[j] = cs[k + j]
      /\ \A j \in 1 .. k : cs[j] \notin Waits => cs[j] \in ToSet(out)
  BY <1>2 DEF Through
<1>4. k \in Nat /\ k + 1 \in DOMAIN cs /\ k + 1 \in 0 .. Len(cs) /\ cs[k + 1] = c
  BY <1>1, <1>3
<1>5. ToSet(more) = ToSet(out) \cup {c}
  <2>1. \A i \in DOMAIN more : more[i] \in ToSet(out) \cup {c}
    BY <1>1 DEF ToSet
  <2>2. \A i \in DOMAIN out : out[i] \in ToSet(more)
    <3> TAKE i \in DOMAIN out
    <3>1. i \in DOMAIN more /\ more[i] = out[i]
      BY <1>1
    <3> QED
      BY <3>1 DEF ToSet
  <2>3. c \in ToSet(more)
    <3>1. n + 1 \in DOMAIN more /\ more[n + 1] = c
      BY <1>1
    <3> QED
      BY <3>1 DEF ToSet
  <2>4. \A x \in ToSet(more) : x \in ToSet(out) \cup {c}
    BY <2>1 DEF ToSet
  <2>5. \A x \in ToSet(out) : x \in ToSet(more)
    BY <2>2 DEF ToSet
  <2> QED
    BY <2>3, <2>4, <2>5
<1>6. Reached(cs, left, more)
  <2>1. Len(left) = Len(cs) - (k + 1)
    BY <1>1, <1>3, <1>4
  <2>2. ASSUME NEW j \in 1 .. Len(left) PROVE left[j] = cs[(k + 1) + j]
    <3>1. j + 1 \in 1 .. Len(rest) /\ k + (j + 1) = (k + 1) + j
      BY <1>1, <1>4, <2>2
    <3> QED
      BY <1>1, <1>3, <3>1
  <2>3. ASSUME NEW j \in 1 .. k + 1, cs[j] \notin Waits PROVE cs[j] \in ToSet(more)
    <3>1. j \in 1 .. k \/ j = k + 1
      BY <1>4, <2>3
    <3> QED
      BY <1>3, <1>4, <1>5, <2>3, <3>1
  <2> QED
    BY <1>4, <2>1, <2>2, <2>3 DEF Reached, Through
<1>7. Prefixed(cs, more)
  <2> SUFFICES ASSUME NEW i \in DOMAIN more
               PROVE  \E m \in DOMAIN cs :
                        /\ cs[m] = more[i]
                        /\ \A j \in 1 .. m - 1 : cs[j] \notin Waits =>
                             \E h \in 1 .. i - 1 : more[h] = cs[j]
    BY DEF Prefixed
  <2>1. CASE i \in 1 .. n
    <3>1. PICK m \in DOMAIN cs :
            /\ cs[m] = out[i]
            /\ \A j \in 1 .. m - 1 : cs[j] \notin Waits => \E h \in 1 .. i - 1 : out[h] = cs[j]
      BY <1>1, <2>1 DEF Prefixed
    <3>2. \A h \in 1 .. i - 1 : more[h] = out[h]
      BY <1>1, <2>1
    <3> QED
      BY <1>1, <2>1, <3>1, <3>2
  <2>2. CASE i = n + 1
    <3>1. ASSUME NEW j \in 1 .. (k + 1) - 1, cs[j] \notin Waits
          PROVE  \E h \in 1 .. i - 1 : more[h] = cs[j]
      <4>1. j \in 1 .. k
        BY <1>4, <3>1
      <4>2. PICK h \in DOMAIN out : out[h] = cs[j]
        BY <1>3, <3>1, <4>1 DEF ToSet
      <4>3. h \in 1 .. i - 1 /\ more[h] = out[h]
        BY <1>1, <2>2, <4>2
      <4> QED
        BY <4>2, <4>3
    <3> QED
      BY <1>1, <1>4, <2>2, <3>1
  <2> QED
    BY <1>1, <2>1, <2>2
<1>8. c \in ToSet(cs)
  BY <1>4 DEF ToSet
<1> QED
  BY <1>1, <1>5, <1>6, <1>7, <1>8 DEF c, more, left

\* The session waits at its next command, and has waited.
LEMMA ReachedWaits ==
  ASSUME NEW C, NEW cs \in Seq(C), NEW rest \in Seq(C), NEW out,
         Reached(cs, rest, out), rest # <<>>, Head(rest) \in Waits
  PROVE  Tail(rest) \in Seq(C) /\ Reached(cs, Tail(rest), out)
<1> DEFINE left == Tail(rest)
<1>1. /\ Head(rest) = rest[1] /\ left \in Seq(C)
      /\ Len(rest) \in Nat \ {0} /\ Len(left) = Len(rest) - 1
      /\ \A j \in 1 .. Len(left) : left[j] = rest[j + 1]
      /\ Len(cs) \in Nat
  OBVIOUS
<1> HIDE DEF left
<1>2. PICK k \in 0 .. Len(cs) : Through(cs, rest, out, k)
  BY DEF Reached
<1>3. /\ Len(rest) = Len(cs) - k /\ \A j \in 1 .. Len(rest) : rest[j] = cs[k + j]
      /\ \A j \in 1 .. k : cs[j] \notin Waits => cs[j] \in ToSet(out)
  BY <1>2 DEF Through
<1>4. k \in Nat /\ k + 1 \in 0 .. Len(cs) /\ cs[k + 1] \in Waits
  BY <1>1, <1>3
<1>5. Len(left) = Len(cs) - (k + 1)
  BY <1>1, <1>3, <1>4
<1>6. ASSUME NEW j \in 1 .. Len(left) PROVE left[j] = cs[(k + 1) + j]
  <2>1. j + 1 \in 1 .. Len(rest) /\ k + (j + 1) = (k + 1) + j
    BY <1>1, <1>4, <1>6
  <2> QED
    BY <1>1, <1>3, <2>1
<1>7. \A j \in 1 .. k + 1 : cs[j] \notin Waits => cs[j] \in ToSet(out)
  <2>1. \A j \in 1 .. k + 1 : j \in 1 .. k \/ j = k + 1
    BY <1>4
  <2> QED
    BY <1>3, <1>4, <2>1
<1> QED
  BY <1>1, <1>4, <1>5, <1>6, <1>7 DEF Reached, Through, left

\* Nothing is left: everything has been sent.
LEMMA ReachedLast ==
  ASSUME NEW C, NEW cs \in Seq(C), NEW out, Reached(cs, <<>>, out)
  PROVE  ToSet(cs) \ Waits \subseteq ToSet(out)
<1>1. Len(cs) \in Nat /\ DOMAIN cs = 1 .. Len(cs) /\ Len(<<>>) = 0
  OBVIOUS
<1>2. PICK k \in 0 .. Len(cs) : Through(cs, <<>>, out, k)
  BY DEF Reached
<1>3. 0 = Len(cs) - k /\ \A j \in 1 .. k : cs[j] \notin Waits => cs[j] \in ToSet(out)
  BY <1>1, <1>2 DEF Through
<1>4. \A j \in DOMAIN cs : cs[j] \notin Waits => cs[j] \in ToSet(out)
  BY <1>1, <1>3
<1> QED
  BY <1>4 DEF ToSet

-----------------------------------------------------------------------------
\* The static fetch: how it ends, and how long it sleeps.

LEMMA PowerEquation ==
  /\ PowerOf2[0] = 1
  /\ \A n \in Nat : PowerOf2[n] \in Nat /\ PowerOf2[n + 1] = 2 * PowerOf2[n]
<1>1. PowerOf2 = CHOOSE g : Doubling(g)
  BY DEF PowerOf2, Doubling
<1>2. Doubling(PowerOf2)
  BY <1>1, DoublingExists
<1> QED
  BY <1>2, DoublingValues

\* The sleeps so far.
Slept == attempt > 0 => backoff = PowerOf2[attempt - 1] - 1

LEMMA FetchOnceEnds ==
  ASSUME NEW r \in Replies, NEW budget
  PROVE  LET f == FetchOnce(r, budget) IN
         /\ f.ok \in BOOLEAN
         /\ ~f.ok => f.err \in {"Timeout", "Request", "Status", "TooLarge"}
<1>1. r.kind \in {"answer", "transport", "timeout"} /\ r.hops \in Nat /\ r.code \in Nat
  BY HttpAssumption
<1>2. MaxRedirects \in Nat
  BY HttpAssumption
<1> DEFINE f == FetchOnce(r, budget)
<1>3. /\ \A e \in {"Timeout", "Request", "TooLarge"} : Failed(e).ok = FALSE /\ Failed(e).err = e
      /\ \A n : FailedStatus(n).ok = FALSE /\ FailedStatus(n).err = "Status"
      /\ Page(r).ok = TRUE
  BY DEF Failed, FailedStatus, Page
<1>4. f \in {Failed("Timeout"), Failed("Request"), Failed("TooLarge"), FailedStatus(r.code), Page(r)}
  BY <1>1, <1>2 DEF FetchOnce
<1> HIDE DEF f
<1>5. f.ok \in BOOLEAN
  BY <1>3, <1>4
<1>6. ~f.ok => f.err \in {"Timeout", "Request", "Status", "TooLarge"}
  BY <1>3, <1>4
<1> QED
  BY <1>5, <1>6 DEF f

\* One attempt.
LEMMA AttemptEnds ==
  ASSUME HttpTypeOK, Slept, NEW r \in Replies, NEW budget, Attempt(r, budget)
  PROVE  /\ HttpTypeOK' /\ Slept'
         /\ IF attempt' > 0
            THEN ~fetched'.ok /\ MayPass(fetched') /\ backoff' = PowerOf2[attempt] - 1
            ELSE fetched'.ok \/ (MayPass(fetched') => attempt = MaxAttempts)
<1>1. /\ attempt > 0 /\ attempt \in 0 .. MaxAttempts /\ MaxAttempts \in Nat /\ attempt \in Nat
      /\ backoff \in Nat
  BY HttpAssumption DEF HttpTypeOK, Attempt
<1>2. fetched' = FetchOnce(r, budget)
  BY DEF Attempt
<1>3. /\ fetched'.ok \in BOOLEAN
      /\ ~fetched'.ok => fetched'.err \in {"Timeout", "Request", "Status", "TooLarge"}
  BY <1>2, FetchOnceEnds
<1>4. ~fetched'.ok => (IsTransient(fetched') <=> MayPass(fetched'))
  BY <1>3 DEF IsTransient, MayPass
<1>5. /\ attempt - 1 \in Nat /\ (attempt - 1) + 1 = attempt
      /\ PowerOf2[attempt - 1] \in Nat /\ PowerOf2[attempt] = 2 * PowerOf2[attempt - 1]
  <2>1. attempt - 1 \in Nat /\ (attempt - 1) + 1 = attempt
    BY <1>1
  <2> QED
    BY <2>1, PowerEquation
<1>6. CASE fetched'.ok \/ LastTry(attempt, fetched')
  <2>1. attempt' = 0 /\ backoff' = backoff
    BY <1>6 DEF Attempt
  <2>2. fetched'.ok \/ (MayPass(fetched') => attempt = MaxAttempts)
    BY <1>1, <1>4, <1>6 DEF LastTry
  <2> QED
    BY <1>1, <1>3, <2>1, <2>2 DEF HttpTypeOK, Slept
<1>7. CASE ~(fetched'.ok \/ LastTry(attempt, fetched'))
  <2>1. attempt' = attempt + 1 /\ backoff' = backoff + PowerOf2[attempt - 1]
    BY <1>7 DEF Attempt, BackoffDelay
  <2>2. attempt < MaxAttempts /\ ~fetched'.ok /\ MayPass(fetched')
    BY <1>1, <1>4, <1>7 DEF LastTry
  <2>3. backoff = PowerOf2[attempt - 1] - 1
    BY <1>1 DEF Slept
  <2>4. backoff' = PowerOf2[attempt] - 1 /\ attempt' - 1 = attempt /\ backoff' \in Nat
    BY <1>1, <1>5, <2>1, <2>3
  <2>5. attempt' \in 0 .. MaxAttempts /\ attempt' > 0
    BY <1>1, <2>1, <2>2
  <2> QED
    BY <1>3, <2>2, <2>4, <2>5 DEF HttpTypeOK, Slept
<1> QED
  BY <1>6, <1>7

LEMMA FetchBegins ==
  ASSUME HttpTypeOK, BeginFetch \/ InvalidProxy
  PROVE  HttpTypeOK' /\ Slept'
<1>1. MaxAttempts \in Nat \ {0} /\ backoff \in Nat
  BY HttpAssumption DEF HttpTypeOK
<1>2. \A e : Failed(e).ok = FALSE
  BY DEF Failed
<1>3. CASE BeginFetch
  <2>1. attempt' = 1 /\ backoff' = 0 /\ fetched'.ok = FALSE
    BY <1>2, <1>3 DEF BeginFetch, Unfetched
  <2>2. /\ attempt' \in 0 .. MaxAttempts /\ backoff' \in Nat
        /\ fetched'.ok \in BOOLEAN
    <3>1. attempt' \in 0 .. MaxAttempts /\ backoff' \in Nat
      BY <1>1, <2>1
    <3>2. fetched'.ok \in BOOLEAN
      BY <2>1
    <3> QED
      BY <3>1, <3>2
  <2>3. attempt' - 1 = 0 /\ PowerOf2[0] - 1 = 0
    BY <2>1, PowerEquation
  <2> QED
    BY <2>1, <2>2, <2>3 DEF HttpTypeOK, Slept
<1>4. CASE InvalidProxy
  <2>1. attempt = 0 /\ attempt' = 0 /\ backoff' = backoff /\ fetched'.ok = FALSE
    BY <1>2, <1>4 DEF InvalidProxy
  <2>2. /\ attempt' \in 0 .. MaxAttempts /\ backoff' \in Nat
        /\ fetched'.ok \in BOOLEAN
    <3>1. attempt' \in 0 .. MaxAttempts /\ backoff' \in Nat
      BY <1>1, <2>1
    <3>2. fetched'.ok \in BOOLEAN
      BY <2>1
    <3> QED
      BY <3>1, <3>2
  <2> QED
    BY <2>1, <2>2 DEF HttpTypeOK, Slept
<1> QED
  BY <1>3, <1>4

-----------------------------------------------------------------------------
\* The inductive invariant, by what it is about.

RawType ==
  [static : {Absent, "html"}, rendered : {Absent, "html", "blank"}, mhtml : {Absent, "data"},
   png : {Absent, "data"}, pdf : {Absent, "data"}, tree : {Absent, "data"},
   date : {Absent, "date"}]

Types ==
  /\ CaptureTypeOK /\ Slept /\ raw \in RawType
  /\ files \in [Formats -> {Absent, "partial", "whole"}]

\* What the call has come to at each stage.
Stages ==
  /\ stage \in {"main", "fetching", "browser", "attaching", "session"} => outcome = "none"
  /\ stage \in {"main", "fetching", "browser"} => browser = "none"
  /\ stage \in {"attaching", "session", "closing"} => browser = "running"
  /\ stage # "main" => request.formats # {} \/ (stage = "exited" /\ exit = 2)
  /\ stage \notin {"saving", "exited"} => exit = 0 /\ \A f \in Formats : files[f] = Absent

\* The static tier runs only where no browser is needed from the start, and the
\* browser only where it is allowed, and where it is needed from the start or
\* the fetch has not sufficed.
Tiers ==
  /\ stage \in {"browser", "attaching", "session", "closing"} \/ browser # "none" =>
       request.render # "never"
  /\ stage = "fetching" \/ raw.static # Absent =>
       ~BrowserRequiredUpfront(request.formats, request.render) /\ ~ActionsNeedBrowser(request)
  /\ raw.static # Absent =>
       stage \in {"returned", "saving", "exited"} /\ (Sufficient \/ request.render = "never")
  /\ stage \in {"browser", "attaching", "session", "closing"} \/ browser # "none" =>
       \/ BrowserRequiredUpfront(request.formats, request.render) \/ ActionsNeedBrowser(request)
       \/ ~Sufficient

\* The session goes through its commands; a capture that comes out of it has
\* sent them all, and has its instant.
Sessions ==
  /\ sent \in Seq(ToSet(Session(request))) /\ todo \in Seq(ToSet(Session(request)))
  /\ Prefixed(Session(request), sent)
  /\ stage \in {"main", "fetching", "browser", "attaching"} => sent = <<>>
  /\ stage = "session" => Reached(Session(request), todo, sent)
  /\ outcome = "ok" /\ browser # "none" => ToSet(Session(request)) \ Waits \subseteq ToSet(sent)
  /\ outcome \in {"none", "ok"} /\ OuterHtml \in ToSet(sent) => raw.date = "date"
  /\ outcome = "ok" /\ browser = "none" => raw.date = "date"

Once(s) == \A i, j \in DOMAIN s : s[i] = s[j] => i = j

\* The exit code tells of the formats that have been dealt with.
Saving ==
  /\ stage = "saving" =>
       /\ exit \in {0, 1} /\ Once(saving) /\ ToSet(saving) \subseteq request.formats
       /\ \A f \in ToSet(saving) : files[f] = Absent
       /\ exit = 0 <=> \A f \in request.formats \ ToSet(saving) : files[f] = "whole"
  /\ ExitMeansWritten

CaptureInv == Types /\ Stages /\ Tiers /\ Sessions /\ Saving

LEMMA HttpSame ==
  ASSUME HttpTypeOK, Slept, UNCHANGED httpVars PROVE HttpTypeOK' /\ Slept'
BY DEF HttpTypeOK, Slept, httpVars

LEMMA RawTypes ==
  /\ NoRaw \in RawType /\ NoRaw.static = Absent
  /\ StaticCapture \in RawType /\ StaticCapture.date = "date"
BY DEF NoRaw, StaticCapture, RawType, Absent

LEMMA KeepsType ==
  ASSUME NEW r \in RawType, NEW method, NEW answer
  PROVE  /\ Keeps(r, method, answer) \in RawType
         /\ Keeps(r, method, answer).static = r.static
         /\ method = "outerHTML" \/ r.date = "date" => Keeps(r, method, answer).date = "date"
<1> DEFINE field == FieldOf(method)
           k == Keeps(r, method, answer)
           x == IF answer = "data" THEN "data" ELSE Absent
           y == IF answer = "data" THEN "html" ELSE "blank"
<1>1. field \in {"rendered", "mhtml", "png", "pdf", "tree", "none"}
  BY Fields
<1>2. x \in {Absent, "data"} /\ y \in {Absent, "html", "blank"}
  OBVIOUS
<1>3. method = "outerHTML" => field = "rendered"
  BY Fields
<1>4. /\ field = "none" => k = r
      /\ field = "rendered" => k = [[r EXCEPT !.date = "date"] EXCEPT !.rendered = y]
      /\ field = "mhtml" => k = [r EXCEPT !.mhtml = x]
      /\ field = "png" => k = [r EXCEPT !.png = x]
      /\ field = "pdf" => k = [r EXCEPT !.pdf = x]
      /\ field = "tree" => k = [r EXCEPT !.tree = x]
  BY DEF Keeps
<1> HIDE DEF field, k, x, y
<1>5. CASE field = "none"
  BY <1>3, <1>4, <1>5 DEF k
<1>6. CASE field = "rendered"
  BY <1>2, <1>3, <1>4, <1>6 DEF k, RawType
<1>7. CASE field \in {"mhtml", "png", "pdf", "tree"}
  BY <1>2, <1>3, <1>4, <1>7 DEF k, RawType
<1> QED
  BY <1>1, <1>5, <1>6, <1>7

-----------------------------------------------------------------------------
\* Cli::formats.

LEMMA OnceOf ==
  ASSUME NEW a, NEW b, Plain(a), Plain(b), Once(a), Once(b), ToSet(a) \cap ToSet(b) = {}
  PROVE  Once(a \o b)
<1> DEFINE ab == a \o b
<1>1. /\ Len(a) \in Nat /\ Len(b) \in Nat
      /\ DOMAIN a = 1 .. Len(a) /\ DOMAIN b = 1 .. Len(b)
      /\ DOMAIN ab = 1 .. Len(a) + Len(b)
      /\ \A i \in 1 .. Len(a) : ab[i] = a[i]
      /\ \A i \in 1 .. Len(b) : ab[Len(a) + i] = b[i]
  BY Concatenation
<1> HIDE DEF ab
<1>2. \A i \in DOMAIN ab :
        \/ i \in 1 .. Len(a) /\ ab[i] = a[i] /\ ab[i] \in ToSet(a)
        \/ /\ i - Len(a) \in 1 .. Len(b) /\ ab[i] = b[i - Len(a)] /\ ab[i] \in ToSet(b)
  <2> TAKE i \in DOMAIN ab
  <2>1. CASE i \in 1 .. Len(a)
    BY <1>1, <2>1 DEF ToSet
  <2>2. CASE i \notin 1 .. Len(a)
    <3>1. i - Len(a) \in 1 .. Len(b) /\ Len(a) + (i - Len(a)) = i
      BY <1>1, <2>2
    <3>2. ab[i] = b[i - Len(a)]
      BY <1>1, <3>1
    <3> QED
      BY <1>1, <3>1, <3>2 DEF ToSet
  <2> QED
    BY <2>1, <2>2
<1>3. ASSUME NEW i \in DOMAIN ab, NEW j \in DOMAIN ab, ab[i] = ab[j] PROVE i = j
  <2>1. CASE i \in 1 .. Len(a) /\ j \in 1 .. Len(a)
    BY <1>1, <1>3, <2>1 DEF Once
  <2>2. CASE i - Len(a) \in 1 .. Len(b) /\ j - Len(a) \in 1 .. Len(b)
    <3>1. b[i - Len(a)] = b[j - Len(a)]
      BY <1>1, <1>2, <1>3, <2>2
    <3>2. i - Len(a) = j - Len(a)
      BY <1>1, <2>2, <3>1 DEF Once
    <3> QED
      BY <1>1, <1>3, <3>2
  <2> QED
    BY <1>2, <1>3, <2>1, <2>2
<1> QED
  BY <1>3 DEF Once, ab

LEMMA WantedIs ==
  ASSUME NEW f, NEW formats
  PROVE  /\ Plain(Wanted(f, formats)) /\ Once(Wanted(f, formats))
         /\ ToSet(Wanted(f, formats)) = formats \cap {f}
<1>1. \A x : Once(<<x>>) /\ Once(<<>>)
  BY DEF Once
<1> QED
  BY <1>1, Short DEF Wanted

\* The formats asked for are saved once each.
LEMMA InOrderIs ==
  ASSUME NEW formats, formats \subseteq Formats
  PROVE  /\ InOrder(formats) \in Seq(Formats) /\ Once(InOrder(formats))
         /\ ToSet(InOrder(formats)) = formats
<1> DEFINE w(f) == Wanted(f, formats)
           s2 == w("html") \o w("mhtml")
           s3 == s2 \o w("md")
           s4 == s3 \o w("txt")
           s5 == s4 \o w("warc")
           s6 == s5 \o w("wacz")
           s7 == s6 \o w("png")
           s8 == s7 \o w("pdf")
<1>0. InOrder(formats) = s8
  BY DEF InOrder
<1>1. \A f : Plain(w(f)) /\ Once(w(f)) /\ ToSet(w(f)) = formats \cap {f}
  BY WantedIs
<1> HIDE DEF w
<1>2. Plain(s2) /\ Once(s2) /\ ToSet(s2) = formats \cap {"html", "mhtml"}
  <2>1. ToSet(w("html")) \cap ToSet(w("mhtml")) = {}
    BY <1>1
  <2> QED
    BY <1>1, <2>1, Concatenation, OnceOf
<1> HIDE DEF s2
<1>3. Plain(s3) /\ Once(s3) /\ ToSet(s3) = formats \cap {"html", "mhtml", "md"}
  <2>1. ToSet(s2) \cap ToSet(w("md")) = {}
    BY <1>1, <1>2
  <2> QED
    BY <1>1, <1>2, <2>1, Concatenation, OnceOf
<1> HIDE DEF s3
<1>4. Plain(s4) /\ Once(s4) /\ ToSet(s4) = formats \cap {"html", "mhtml", "md", "txt"}
  <2>1. ToSet(s3) \cap ToSet(w("txt")) = {}
    BY <1>1, <1>3
  <2> QED
    BY <1>1, <1>3, <2>1, Concatenation, OnceOf
<1> HIDE DEF s4
<1>5. Plain(s5) /\ Once(s5) /\ ToSet(s5) = formats \cap {"html", "mhtml", "md", "txt", "warc"}
  <2>1. ToSet(s4) \cap ToSet(w("warc")) = {}
    BY <1>1, <1>4
  <2> QED
    BY <1>1, <1>4, <2>1, Concatenation, OnceOf
<1> HIDE DEF s5
<1>6. /\ Plain(s6) /\ Once(s6)
      /\ ToSet(s6) = formats \cap {"html", "mhtml", "md", "txt", "warc", "wacz"}
  <2>1. ToSet(s5) \cap ToSet(w("wacz")) = {}
    BY <1>1, <1>5
  <2> QED
    BY <1>1, <1>5, <2>1, Concatenation, OnceOf
<1> HIDE DEF s6
<1>7. /\ Plain(s7) /\ Once(s7)
      /\ ToSet(s7) = formats \cap {"html", "mhtml", "md", "txt", "warc", "wacz", "png"}
  <2>1. ToSet(s6) \cap ToSet(w("png")) = {}
    BY <1>1, <1>6
  <2> QED
    BY <1>1, <1>6, <2>1, Concatenation, OnceOf
<1> HIDE DEF s7
<1>8. Plain(s8) /\ Once(s8) /\ ToSet(s8) = formats \cap Formats
  <2>1. ToSet(s7) \cap ToSet(w("pdf")) = {}
    BY <1>1, <1>7
  <2> QED
    BY <1>1, <1>7, <2>1, Concatenation, OnceOf DEF Formats
<1> HIDE DEF s8
<1>9. s8 \in Seq(Formats)
  BY <1>8 DEF Plain
<1> QED
  BY <1>0, <1>8, <1>9

-----------------------------------------------------------------------------
\* The steps.

LEMMA CaptureCases ==
  ASSUME [CaptureNext]_captureVars
  PROVE  \/ UNCHANGED captureVars
         \/ Usage \/ Snapshot \/ Decide \/ SpawnBrowser \/ Attach \/ Settled \/ Poll
         \/ SessionEnds \/ Close \/ Report \/ Save \/ Exit
         \/ \E r \in Replies : Fetch(r)
         \/ \E answer \in {"data", "none", "garbled", "failed"} : Send(answer)
BY DEF CaptureNext

LEMMA RequestKept ==
  ASSUME [CaptureNext]_captureVars
  PROVE  request' = request
BY CaptureCases DEF captureVars, Usage, Snapshot, Decide, SpawnBrowser, Attach, Settled, Poll,
     SessionEnds, Close, Report, Save, Exit, Fetch, Send

LEMMA TypesInit == CaptureInit => Types
<1> SUFFICES ASSUME CaptureInit PROVE Types
  OBVIOUS
<1>1. attempt = 0 /\ backoff = 0 /\ fetched = Unfetched
  BY DEF CaptureInit, HttpInit
<1>2. fetched.ok \in BOOLEAN
  BY <1>1 DEF Unfetched, Failed
<1>3. HttpTypeOK /\ Slept
  BY <1>1, <1>2, HttpAssumption DEF HttpTypeOK, Slept
<1>4. /\ files \in [Formats -> {Absent, "partial", "whole"}]
      /\ \A f \in Formats : files[f] \in {Absent, "partial", "whole"}
  BY DEF CaptureInit
<1>5. polls \in 0 .. MaxPolls /\ saving \in Seq(Formats) /\ exit \in 0 .. 2
  BY CaptureAssumption DEF CaptureInit
<1> QED
  BY <1>1, <1>3, <1>4, <1>5, RawTypes DEF CaptureInit, Types, CaptureTypeOK

LEMMA TypesStep == Types /\ [CaptureNext]_captureVars => Types'
<1> SUFFICES ASSUME Types, [CaptureNext]_captureVars PROVE Types'
  OBVIOUS
<1>1. /\ HttpTypeOK /\ Slept /\ raw \in RawType /\ request \in Requests
      /\ files \in [Formats -> {Absent, "partial", "whole"}]
      /\ saving \in Seq(Formats) /\ exit \in 0 .. 2 /\ polls \in 0 .. MaxPolls
      /\ browser \in {"none", "running", "killed"}
      /\ outcome \in {"none", "ok", "InvalidUrl", "Fetch", "Browser"}
      /\ stage \in {"main", "fetching", "browser", "attaching", "session", "closing",
                    "returned", "saving", "exited"}
      /\ attempt > 0 => stage = "fetching"
      /\ attempt \in Nat /\ MaxPolls \in Nat
  BY CaptureAssumption, HttpAssumption DEF Types, CaptureTypeOK, HttpTypeOK
<1>2. request' = request
  BY RequestKept
<1> DEFINE Good ==
      /\ HttpTypeOK' /\ Slept' /\ raw' \in RawType
      /\ files' \in [Formats -> {Absent, "partial", "whole"}]
      /\ saving' \in Seq(Formats) /\ exit' \in 0 .. 2 /\ polls' \in 0 .. MaxPolls
      /\ browser' \in {"none", "running", "killed"}
      /\ outcome' \in {"none", "ok", "InvalidUrl", "Fetch", "Browser"}
      /\ stage' \in {"main", "fetching", "browser", "attaching", "session", "closing",
                     "returned", "saving", "exited"}
      /\ attempt' > 0 => stage' = "fetching"
<1>3. ASSUME Good PROVE Types'
  BY <1>1, <1>2, <1>3 DEF Types, CaptureTypeOK
<1>4. SUFFICES Good
  BY <1>3
<1>5. ASSUME UNCHANGED <<attempt, fetched, backoff>>
      PROVE  HttpTypeOK' /\ Slept' /\ attempt' = attempt
  BY <1>1, <1>5, HttpSame DEF httpVars
<1>6. CASE UNCHANGED captureVars
  BY <1>1, <1>5, <1>6 DEF captureVars, httpVars, browserVars, outputVars
<1>7. CASE Usage
  BY <1>1, <1>5, <1>7 DEF Usage, httpVars, browserVars
<1>8. CASE Snapshot
  <2>1. /\ stage = "main" /\ stage' \in {"returned", "browser", "fetching"}
        /\ outcome' \in {outcome, "InvalidUrl"} /\ raw' = raw
        /\ UNCHANGED <<request, browser, todo, polls, sent, files, saving, exit>>
    BY <1>8 DEF Snapshot, Returns, Unfinished, browserVars, outputVars
  <2>2. UNCHANGED httpVars \/ (stage' = "fetching" /\ (BeginFetch \/ InvalidProxy))
    BY <1>8 DEF Snapshot, Unfinished
  <2>3. HttpTypeOK' /\ Slept' /\ (attempt' > 0 => stage' = "fetching")
    BY <1>1, <1>5, <2>1, <2>2, FetchBegins DEF httpVars
  <2> QED
    BY <1>1, <2>1, <2>3
<1>9. ASSUME NEW r \in Replies, Fetch(r) PROVE Good
  <2>1. HttpTypeOK' /\ Slept'
    BY <1>1, <1>9, AttemptEnds DEF Fetch
  <2> QED
    BY <1>1, <1>9, <2>1 DEF Fetch, browserVars, outputVars
<1>10. CASE Decide
  BY <1>1, <1>5, <1>10, RawTypes DEF Decide, Returns, Unfinished, httpVars, browserVars, outputVars
<1>11. CASE SpawnBrowser
  BY <1>1, <1>5, <1>11 DEF SpawnBrowser, Returns, Unfinished, httpVars, outputVars
<1>12. CASE Attach
  BY <1>1, <1>5, <1>12 DEF Attach, Returns, Unfinished, httpVars, outputVars
<1>13. ASSUME NEW answer \in {"data", "none", "garbled", "failed"}, Send(answer) PROVE Good
  <2>1. raw' = raw \/ raw' = Keeps(raw, Head(todo).method, answer)
    BY <1>13 DEF Send
  <2>2. raw' \in RawType
    BY <1>1, <2>1, KeepsType
  <2>3. /\ UNCHANGED <<attempt, fetched, backoff>>
        /\ UNCHANGED <<browser, polls, files, saving, exit>>
        /\ stage = "session" /\ stage' \in {stage, "closing"} /\ outcome' \in {outcome, "Browser"}
    BY <1>13 DEF Send, httpVars, outputVars
  <2> QED
    BY <1>1, <1>5, <2>2, <2>3
<1>14. CASE Settled
  BY <1>1, <1>5, <1>14 DEF Settled, httpVars, outputVars
<1>15. CASE Poll
  BY <1>1, <1>5, <1>15 DEF Poll, httpVars, outputVars
<1>16. CASE SessionEnds
  BY <1>1, <1>5, <1>16 DEF SessionEnds, httpVars, browserVars, outputVars
<1>17. CASE Close
  BY <1>1, <1>5, <1>17 DEF Close, httpVars, outputVars
<1>18. CASE Report
  <2>1. saving' \in {saving, InOrder(request.formats)} /\ exit' \in {exit, 1}
    BY <1>18 DEF Report
  <2>2. saving' \in Seq(Formats)
    BY <1>1, <2>1, CaptureAssumption, InOrderIs
  <2> QED
    BY <1>1, <1>5, <1>18, <2>1, <2>2 DEF Report, httpVars, browserVars
<1>19. CASE Save
  <2>1. saving # <<>> /\ saving' = Tail(saving)
    BY <1>19 DEF Save
  <2>2. saving' \in Seq(Formats) /\ Head(saving) \in Formats
    BY <1>1, <2>1
  <2>3. exit' \in {exit, 1}
    BY <1>19 DEF Save, ExitCode
  <2>4. files' \in {files, [files EXCEPT ![Head(saving)] = "partial"],
                    [files EXCEPT ![Head(saving)] = "whole"]}
    BY <1>19 DEF Save
  <2>5. files' \in [Formats -> {Absent, "partial", "whole"}]
    BY <1>1, <2>2, <2>4
  <2> QED
    BY <1>1, <1>5, <1>19, <2>2, <2>3, <2>5 DEF Save, httpVars, browserVars
<1>20. CASE Exit
  BY <1>1, <1>5, <1>20 DEF Exit, httpVars, browserVars, outputVars
<1> QED
  BY <1>6, <1>7, <1>8, <1>9, <1>10, <1>11, <1>12, <1>13, <1>14, <1>15, <1>16, <1>17, <1>18,
     <1>19, <1>20, CaptureCases

LEMMA StagesInit == CaptureInit => Stages
BY DEF CaptureInit, Stages

LEMMA StagesStep == Types /\ Stages /\ [CaptureNext]_captureVars => Stages'
<1> SUFFICES ASSUME Types, Stages, [CaptureNext]_captureVars PROVE Stages'
  OBVIOUS
<1>1. request' = request
  BY RequestKept
<1>2. CASE UNCHANGED captureVars \/ Settled \/ Poll \/ \E r \in Replies : Fetch(r)
  BY <1>2 DEF Stages, captureVars, browserVars, outputVars, Settled, Poll, Fetch
<1>3. CASE Usage \/ Snapshot
  BY <1>1, <1>3 DEF Stages, Usage, Snapshot, Returns, Unfinished, browserVars, outputVars
<1>4. CASE Decide \/ SpawnBrowser \/ Attach
  BY <1>1, <1>4 DEF Stages, Decide, SpawnBrowser, Attach, Returns, Unfinished, browserVars, outputVars
<1>5. ASSUME NEW answer \in {"data", "none", "garbled", "failed"}, Send(answer) PROVE Stages'
  <2>1. /\ stage = "session" /\ UNCHANGED <<request, browser, files, exit>>
        /\ (stage' = stage /\ outcome' = outcome) \/ stage' = "closing"
    BY <1>5 DEF Send, outputVars
  <2> QED
    BY <2>1 DEF Stages
<1>6. CASE SessionEnds \/ Close \/ Report \/ Exit
  BY <1>1, <1>6 DEF Stages, SessionEnds, Close, Report, Exit, browserVars, outputVars
<1>7. CASE Save
  <2>1. stage = "saving" /\ UNCHANGED <<stage, request, browser, outcome>>
    BY <1>7 DEF Save, browserVars
  <2> QED
    BY <2>1 DEF Stages
<1> QED
  BY <1>2, <1>3, <1>4, <1>5, <1>6, <1>7, CaptureCases

LEMMA TiersInit == CaptureInit => Tiers
BY RawTypes DEF CaptureInit, Tiers

LEMMA TiersStep == Types /\ Stages /\ Tiers /\ [CaptureNext]_captureVars => Tiers'
<1> SUFFICES ASSUME Types, Stages, Tiers, [CaptureNext]_captureVars PROVE Tiers'
  OBVIOUS
<1>1. request' = request /\ request \in Requests /\ request.render \in {"auto", "always", "never"}
  BY RequestKept, CaptureAssumption DEF Types, CaptureTypeOK
<1> DEFINE mayFetch == /\ ~BrowserRequiredUpfront(request.formats, request.render)
                       /\ ~ActionsNeedBrowser(request)
<1>2. mayFetch' = mayFetch
  BY <1>1
<1>3. /\ stage \in {"browser", "attaching", "session", "closing"} \/ browser # "none" =>
           request.render # "never"
      /\ stage = "fetching" \/ raw.static # Absent => mayFetch
      /\ raw.static # Absent =>
           stage \in {"returned", "saving", "exited"} /\ (Sufficient \/ request.render = "never")
      /\ stage \in {"browser", "attaching", "session", "closing"} \/ browser # "none" =>
           ~mayFetch \/ ~Sufficient
      /\ stage \in {"main", "fetching"} => browser = "none"
  BY DEF Tiers, Stages
<1>4. ASSUME UNCHANGED fetched PROVE Sufficient' = Sufficient
  BY <1>1, <1>4 DEF Sufficient
<1> HIDE DEF mayFetch
<1>5. ASSUME /\ stage' \in {"browser", "attaching", "session", "closing"} \/ browser' # "none" =>
                  request.render # "never"
             /\ stage' = "fetching" \/ raw'.static # Absent => mayFetch
             /\ raw'.static # Absent =>
                  stage' \in {"returned", "saving", "exited"} /\ (Sufficient' \/ request.render = "never")
             /\ stage' \in {"browser", "attaching", "session", "closing"} \/ browser' # "none" =>
                  ~mayFetch \/ ~Sufficient'
      PROVE  Tiers'
  BY <1>1, <1>2, <1>5 DEF Tiers, mayFetch
<1>6. CASE UNCHANGED captureVars \/ Settled \/ Poll
  BY <1>3, <1>4, <1>5, <1>6 DEF captureVars, httpVars, browserVars, outputVars, Settled, Poll
<1>7. CASE Usage
  BY <1>3, <1>4, <1>5, <1>7 DEF Usage, httpVars, browserVars
<1>8. CASE Snapshot
  <2>1. /\ stage = "main" /\ stage' \in {"returned", "browser", "fetching"}
        /\ raw' = raw /\ browser' = browser
        /\ stage' = "browser" => request.render # "never" /\ ~mayFetch
        /\ stage' = "fetching" => mayFetch
    BY <1>1, <1>8 DEF Snapshot, Returns, Unfinished, browserVars, BrowserRequiredUpfront,
       ActionsNeedBrowser, mayFetch
  <2> QED
    BY <1>3, <1>5, <2>1
<1>9. ASSUME NEW r \in Replies, Fetch(r) PROVE Tiers'
  <2>1. stage = "fetching" /\ UNCHANGED <<stage, raw, browser>>
    BY <1>9 DEF Fetch, browserVars
  <2> QED
    BY <1>3, <1>5, <2>1
<1>10. CASE Decide
  <2>1. /\ stage = "fetching" /\ browser' = browser /\ fetched' = fetched
        /\ \/ /\ Sufficient \/ request.render = "never"
              /\ stage' = "returned"
           \/ request.render # "never" /\ raw' = raw /\ stage' = "browser" /\ ~Sufficient
           \/ raw' = raw /\ stage' = "returned"
    BY <1>10 DEF Decide, Returns, Unfinished, browserVars, httpVars
  <2> QED
    BY <1>3, <1>4, <1>5, <2>1
<1>11. CASE SpawnBrowser \/ Attach
  <2>1. /\ stage \in {"browser", "attaching"} /\ raw' = raw /\ fetched' = fetched
        /\ stage' \in {"returned", "attaching", "session"}
    BY <1>11 DEF SpawnBrowser, Attach, Returns, Unfinished, httpVars
  <2> QED
    BY <1>3, <1>4, <1>5, <2>1
<1>12. ASSUME NEW answer \in {"data", "none", "garbled", "failed"}, Send(answer) PROVE Tiers'
  <2>1. /\ stage = "session" /\ browser' = browser /\ stage' \in {"session", "closing"}
        /\ raw' = raw \/ raw' = Keeps(raw, Head(todo).method, answer)
        /\ fetched' = fetched
    BY <1>12 DEF Send, httpVars
  <2>2. raw'.static = raw.static
    BY <2>1, KeepsType DEF Types
  <2> QED
    BY <1>3, <1>4, <1>5, <2>1, <2>2
<1>13. CASE SessionEnds \/ Close \/ Report \/ Save \/ Exit
  <2>1. /\ UNCHANGED <<raw, fetched>>
        /\ browser' = browser \/ stage = "closing"
        /\ stage' \in {"returned", "saving", "exited"} \/ (stage = "session" /\ stage' = "closing")
        /\ stage \in {"session", "closing", "returned", "saving"}
    BY <1>13 DEF SessionEnds, Close, Report, Save, Exit, httpVars, browserVars
  <2> QED
    BY <1>3, <1>4, <1>5, <2>1
<1> QED
  BY <1>6, <1>7, <1>8, <1>9, <1>10, <1>11, <1>12, <1>13, CaptureCases

LEMMA SessionsInit == CaptureInit => Sessions
<1> SUFFICES ASSUME CaptureInit PROVE Sessions
  OBVIOUS
<1>1. /\ stage = "main" /\ sent = <<>> /\ todo = <<>> /\ outcome = "none"
  BY DEF CaptureInit
<1>2. ToSet(<<>>) = {} /\ DOMAIN <<>> = {}
  BY Short
<1>3. \A S : <<>> \in Seq(S)
  OBVIOUS
<1>4. Prefixed(Session(request), <<>>)
  BY <1>2 DEF Prefixed
<1> QED
  BY <1>1, <1>2, <1>3, <1>4 DEF Sessions

LEMMA SessionsStep == Types /\ Stages /\ Sessions /\ [CaptureNext]_captureVars => Sessions'
<1> SUFFICES ASSUME Types, Stages, Sessions, [CaptureNext]_captureVars PROVE Sessions'
  OBVIOUS
<1> DEFINE cs == Session(request)
           C == ToSet(cs)
<1>1. request' = request /\ request \in Requests
  BY RequestKept DEF Types, CaptureTypeOK
<1>2. cs \in Seq(C)
  BY <1>1, SessionLayout DEF Plain
<1>3. /\ sent \in Seq(C) /\ todo \in Seq(C) /\ Prefixed(cs, sent)
      /\ stage \in {"main", "fetching", "browser", "attaching"} => sent = <<>>
      /\ stage = "session" => Reached(cs, todo, sent)
      /\ outcome = "ok" /\ browser # "none" => C \ Waits \subseteq ToSet(sent)
      /\ outcome \in {"none", "ok"} /\ OuterHtml \in ToSet(sent) => raw.date = "date"
      /\ outcome = "ok" /\ browser = "none" => raw.date = "date"
  BY DEF Sessions
<1>4. cs' = cs /\ C' = C
  BY <1>1
<1> DEFINE Good ==
      /\ sent' \in Seq(C) /\ todo' \in Seq(C) /\ Prefixed(cs, sent')
      /\ stage' \in {"main", "fetching", "browser", "attaching"} => sent' = <<>>
      /\ stage' = "session" => Reached(cs, todo', sent')
      /\ outcome' = "ok" /\ browser' # "none" => C \ Waits \subseteq ToSet(sent')
      /\ outcome' \in {"none", "ok"} /\ OuterHtml \in ToSet(sent') => raw'.date = "date"
      /\ outcome' = "ok" /\ browser' = "none" => raw'.date = "date"
<1>5. ASSUME Good PROVE Sessions'
  BY <1>1, <1>5 DEF Sessions
<1>6. SUFFICES Good
  BY <1>5
<1> HIDE DEF cs, C
<1>7. /\ stage \in {"main", "fetching", "browser", "attaching", "session"} => outcome = "none"
      /\ stage \in {"main", "fetching", "browser"} => browser = "none"
      /\ stage \in {"attaching", "session", "closing"} => browser = "running"
  BY DEF Stages
<1>8. ToSet(<<>>) = {}
  BY Short
<1>9. CASE UNCHANGED captureVars
  BY <1>3, <1>9 DEF captureVars, browserVars
<1>10. CASE Usage \/ Report \/ Save \/ Exit
  <2>1. /\ UNCHANGED <<sent, todo, outcome, browser, raw>>
        /\ stage' \in {"exited", "saving"}
    BY <1>10 DEF Usage, Report, Save, Exit, browserVars
  <2> QED
    BY <1>3, <2>1
<1>11. CASE Snapshot \/ Decide \/ SpawnBrowser
  <2>1. /\ UNCHANGED <<sent, todo>> /\ stage \in {"main", "fetching", "browser"}
        /\ stage' \in {"returned", "fetching", "browser", "attaching"}
        /\ outcome' # "ok" \/ (raw' = StaticCapture /\ browser' = browser)
    BY <1>7, <1>11 DEF Snapshot, Decide, SpawnBrowser, Returns, Unfinished, browserVars
  <2> QED
    BY <1>3, <1>7, <1>8, <2>1, RawTypes
<1>12. ASSUME NEW r \in Replies, Fetch(r) PROVE Good
  BY <1>3, <1>12 DEF Fetch, browserVars
<1>13. CASE Attach
  <2>1. sent = <<>> /\ sent' = sent /\ outcome' # "ok"
    BY <1>3, <1>7, <1>13 DEF Attach, Returns, Unfinished
  <2>2. \/ stage' = "returned" /\ todo' = todo
        \/ stage' = "session" /\ todo' = cs
    BY <1>13 DEF Attach, Returns, Unfinished, cs
  <2>3. Reached(cs, cs, <<>>)
    BY <1>2, ReachedFirst DEF C, Plain
  <2> QED
    BY <1>2, <1>3, <1>8, <2>1, <2>2, <2>3
<1>14. CASE Settled \/ Poll
  <2>1. /\ UNCHANGED <<stage, browser, sent, raw, outcome>>
        /\ todo' = todo \/ (todo' = Tail(todo) /\ Head(todo) \in Waits)
        /\ stage = "session" /\ todo # <<>>
    BY <1>14 DEF Settled, Poll, Waits
  <2>2. todo' \in Seq(C) /\ Reached(cs, todo', sent)
    BY <1>2, <1>3, <2>1, ReachedWaits
  <2> QED
    BY <1>3, <2>1, <2>2
<1>15. ASSUME NEW answer \in {"data", "none", "garbled", "failed"}, Send(answer) PROVE Good
  <2> DEFINE c == Head(todo)
  <2>1. /\ stage = "session" /\ todo # <<>> /\ sent' = Append(sent, c) /\ browser' = browser
        /\ \/ /\ raw' = Keeps(raw, c.method, answer)
              /\ todo' = Tail(todo) /\ stage' = stage /\ outcome' = outcome
           \/ todo' = <<>> /\ outcome' = "Browser" /\ stage' = "closing"
    BY <1>15 DEF Send
  <2>2. /\ Tail(todo) \in Seq(C) /\ Append(sent, c) \in Seq(C)
        /\ Prefixed(cs, Append(sent, c)) /\ Reached(cs, Tail(todo), Append(sent, c))
        /\ ToSet(Append(sent, c)) = ToSet(sent) \cup {c}
    BY <1>2, <1>3, <2>1, ReachedSends
  <2> HIDE DEF c
  <2>3. CASE todo' = <<>> /\ outcome' = "Browser" /\ stage' = "closing"
    <3>1. <<>> \in Seq(C)
      OBVIOUS
    <3> QED
      BY <2>1, <2>2, <2>3, <3>1
  <2>4. CASE /\ raw' = Keeps(raw, c.method, answer)
             /\ todo' = Tail(todo) /\ stage' = stage /\ outcome' = outcome
    <3>1. c = OuterHtml \/ raw.date = "date" => raw'.date = "date"
      <4>1. c = OuterHtml => c.method = "outerHTML"
        BY MethodOfCommand DEF OuterHtml
      <4> QED
        BY <2>4, <4>1, KeepsType DEF Types
    <3> QED
      BY <1>3, <1>7, <2>1, <2>2, <2>4, <3>1
  <2> QED
    BY <2>1, <2>3, <2>4
<1>16. CASE SessionEnds
  <2>1. /\ stage = "session" /\ todo = <<>> /\ stage' = "closing" /\ outcome' = "ok"
        /\ UNCHANGED <<browser, todo, sent, raw>>
    BY <1>16 DEF SessionEnds, browserVars
  <2>2. C \ Waits \subseteq ToSet(sent)
    <3>1. Reached(cs, <<>>, sent)
      BY <1>3, <2>1
    <3> QED
      BY <1>2, <3>1, ReachedLast DEF C
  <2> QED
    BY <1>3, <1>7, <2>1, <2>2
<1>17. CASE Close
  BY <1>3, <1>7, <1>17 DEF Close
<1> QED
  BY <1>9, <1>10, <1>11, <1>12, <1>13, <1>14, <1>15, <1>16, <1>17, CaptureCases

LEMMA OnceTail ==
  ASSUME NEW S, NEW s \in Seq(S), s # <<>>, Once(s)
  PROVE  /\ Once(Tail(s)) /\ ToSet(Tail(s)) = ToSet(s) \ {Head(s)}
         /\ Head(s) \in ToSet(s)
<1> DEFINE h == Head(s)
           t == Tail(s)
<1>1. /\ h = s[1] /\ Len(s) \in Nat \ {0} /\ DOMAIN s = 1 .. Len(s)
      /\ Len(t) = Len(s) - 1 /\ DOMAIN t = 1 .. Len(t)
      /\ \A i \in 1 .. Len(t) : t[i] = s[i + 1]
  OBVIOUS
<1> HIDE DEF h, t
<1>2. \A i, j \in DOMAIN s : s[i] = s[j] => i = j
  BY DEF Once
<1>3. Once(t)
  <2>1. ASSUME NEW i \in DOMAIN t, NEW j \in DOMAIN t, t[i] = t[j] PROVE i = j
    <3>1. i + 1 \in DOMAIN s /\ j + 1 \in DOMAIN s /\ s[i + 1] = s[j + 1]
      BY <1>1, <2>1
    <3>2. i + 1 = j + 1
      BY <1>2, <3>1
    <3> QED
      BY <1>1, <3>2
  <2> QED
    BY <2>1 DEF Once
<1>4. \A x \in ToSet(t) : x \in ToSet(s) \ {h}
  <2>1. ASSUME NEW i \in DOMAIN t PROVE t[i] \in ToSet(s) \ {h}
    <3>1. i + 1 \in DOMAIN s /\ 1 \in DOMAIN s /\ i + 1 # 1 /\ t[i] = s[i + 1]
      BY <1>1
    <3>2. s[i + 1] # s[1]
      BY <1>2, <3>1
    <3> QED
      BY <1>1, <3>1, <3>2 DEF ToSet
  <2> QED
    BY <2>1 DEF ToSet
<1>5. \A x \in ToSet(s) \ {h} : x \in ToSet(t)
  <2>1. ASSUME NEW i \in DOMAIN s, s[i] # h PROVE s[i] \in ToSet(t)
    <3>1. i - 1 \in DOMAIN t /\ (i - 1) + 1 = i
      BY <1>1, <2>1
    <3>2. t[i - 1] = s[i]
      BY <1>1, <3>1
    <3> QED
      BY <3>1, <3>2 DEF ToSet
  <2> QED
    BY <2>1 DEF ToSet
<1>6. h \in ToSet(s)
  BY <1>1 DEF ToSet
<1> QED
  BY <1>3, <1>4, <1>5, <1>6 DEF h, t

LEMMA SavingStep == Types /\ Stages /\ Saving /\ [CaptureNext]_captureVars => Saving'
<1> SUFFICES ASSUME Types, Stages, Saving, [CaptureNext]_captureVars PROVE Saving'
  OBVIOUS
<1> DEFINE wanted == request.formats
<1>1. /\ request' = request /\ request \in Requests /\ wanted \subseteq Formats
      /\ saving \in Seq(Formats)
      /\ files \in [Formats -> {Absent, "partial", "whole"}]
  BY RequestKept, CaptureAssumption DEF Types, CaptureTypeOK
<1>2. ASSUME /\ stage' = "saving" =>
                  /\ exit' \in {0, 1} /\ Once(saving') /\ ToSet(saving') \subseteq wanted
                  /\ \A f \in ToSet(saving') : files'[f] = Absent
                  /\ exit' = 0 <=> \A f \in wanted \ ToSet(saving') : files'[f] = "whole"
             /\ stage' = "exited" =>
                  (exit' = 0 <=> \A f \in wanted : files'[f] = "whole") \/ exit' = 2
      PROVE  Saving'
  BY <1>1, <1>2 DEF Saving, ExitMeansWritten
<1>3. /\ stage = "saving" =>
           /\ exit \in {0, 1} /\ Once(saving) /\ ToSet(saving) \subseteq wanted
           /\ \A f \in ToSet(saving) : files[f] = Absent
           /\ exit = 0 <=> \A f \in wanted \ ToSet(saving) : files[f] = "whole"
      /\ stage = "exited" =>
           (exit = 0 <=> \A f \in wanted : files[f] = "whole") \/ exit = 2
  BY DEF Saving, ExitMeansWritten
<1>4. CASE UNCHANGED captureVars
  BY <1>2, <1>3, <1>4 DEF captureVars, outputVars
<1>5. CASE Usage
  BY <1>2, <1>5 DEF Usage
<1>6. CASE \/ Snapshot \/ Decide \/ SpawnBrowser \/ Attach \/ Settled \/ Poll \/ SessionEnds
           \/ Close \/ \E r \in Replies : Fetch(r)
  <2>1. stage' \notin {"saving", "exited"}
    BY <1>6 DEF Snapshot, Decide, SpawnBrowser, Attach, Settled, Poll, SessionEnds, Close, Fetch,
       Returns, Unfinished
  <2> QED
    BY <1>2, <2>1
<1>7. ASSUME NEW answer \in {"data", "none", "garbled", "failed"}, Send(answer) PROVE Saving'
  <2>1. stage' \notin {"saving", "exited"}
    BY <1>7 DEF Send
  <2> QED
    BY <1>2, <2>1
<1>8. CASE Report
  <2>1. /\ stage = "returned" /\ files' = files /\ exit = 0 /\ wanted # {}
        /\ \A f \in Formats : files[f] = Absent
    BY <1>8 DEF Report, Stages
  <2>2. CASE outcome = "ok"
    <3>1. stage' = "saving" /\ saving' = InOrder(wanted) /\ exit' = 0
      BY <1>8, <2>1, <2>2 DEF Report
    <3>2. Once(saving') /\ ToSet(saving') = wanted
      BY <1>1, <3>1, InOrderIs
    <3>3. \A f \in ToSet(saving') : files'[f] = Absent
      BY <1>1, <2>1, <3>2
    <3> QED
      BY <1>2, <3>1, <3>2, <3>3
  <2>3. CASE outcome # "ok"
    <3>1. stage' = "exited" /\ exit' = 1
      BY <1>8, <2>3 DEF Report
    <3>2. \E f \in wanted : files'[f] # "whole"
      BY <1>1, <2>1 DEF Absent
    <3> QED
      BY <1>2, <3>1, <3>2
  <2> QED
    BY <2>2, <2>3
<1>9. CASE Save
  <2> DEFINE g == Head(saving)
             left == Tail(saving)
  <2>1. stage = "saving" /\ saving # <<>> /\ saving' = left /\ stage' = stage
    BY <1>9 DEF Save
  <2>2. \/ exit' = 1 /\ files' = files
        \/ exit' = 1 /\ files' = [files EXCEPT ![g] = "partial"]
        \/ exit' = exit /\ files' = [files EXCEPT ![g] = "whole"]
    BY <1>9 DEF Save, ExitCode
  <2>3. Once(left) /\ ToSet(left) = ToSet(saving) \ {g} /\ g \in ToSet(saving)
    BY <1>1, <1>3, <2>1, OnceTail
  <2> HIDE DEF g, left
  <2>4. g \in wanted /\ g \in Formats /\ ToSet(left) \subseteq wanted
    BY <1>1, <1>3, <2>1, <2>3
  <2>5. wanted \ ToSet(left) = (wanted \ ToSet(saving)) \cup {g}
    BY <1>3, <2>1, <2>3, <2>4
  <2>6. \A f \in wanted \ ToSet(saving) : f # g /\ f \in Formats
    BY <1>1, <2>3
  <2>7. \A f \in ToSet(left) : f # g /\ f \in ToSet(saving) /\ f \in Formats
    BY <1>1, <2>3, <2>4
  <2>8. \A f \in ToSet(left) : files'[f] = Absent
    BY <1>1, <1>3, <2>1, <2>2, <2>7
  <2> HIDE DEF wanted
  <2>9. CASE exit' = 1 /\ (files' = files \/ files' = [files EXCEPT ![g] = "partial"])
    <3>1. ~\A f \in wanted \ ToSet(left) : files'[f] = "whole"
      <4>1. CASE exit = 1
        <5>1. PICK f \in wanted \ ToSet(saving) : files[f] # "whole"
          BY <1>3, <2>1, <4>1
        <5>2. files'[f] = files[f]
          BY <1>1, <2>6, <2>9
        <5> QED
          BY <2>5, <5>1, <5>2
      <4>2. CASE exit = 0 /\ files' = [files EXCEPT ![g] = "partial"]
        <5>1. files'[g] = "partial"
          BY <1>1, <2>4, <4>2
        <5> QED
          BY <2>5, <5>1
      <4>3. CASE exit = 0 /\ files' = files
        <5>1. files[g] # "whole"
          BY <1>3, <2>1, <2>3 DEF Absent
        <5> QED
          BY <2>5, <4>3, <5>1
      <4> QED
        BY <1>3, <2>1, <2>9, <4>1, <4>2, <4>3
    <3> QED
      BY <1>2, <2>1, <2>3, <2>4, <2>9, <2>8, <3>1
  <2>10. CASE exit' = exit /\ files' = [files EXCEPT ![g] = "whole"]
    <3>1. files'[g] = "whole"
      BY <1>1, <2>4, <2>10
    <3>2. \A f \in wanted \ ToSet(saving) : files'[f] = files[f]
      BY <1>1, <2>6, <2>10
    <3>3. exit = 0 <=> \A f \in wanted \ ToSet(left) : files'[f] = "whole"
      BY <1>3, <2>1, <2>5, <3>1, <3>2
    <3> QED
      BY <1>2, <1>3, <2>1, <2>3, <2>4, <2>10, <2>8, <3>3
  <2> QED
    BY <2>2, <2>9, <2>10
<1>10. CASE Exit
  <2>1. /\ stage = "saving" /\ saving = <<>> /\ stage' = "exited"
        /\ exit' = exit /\ files' = files
    BY <1>10 DEF Exit, outputVars
  <2>2. wanted \ ToSet(saving) = wanted
    BY <2>1, Short
  <2> HIDE DEF wanted
  <2> QED
    BY <1>2, <1>3, <2>1, <2>2
<1> QED
  BY <1>4, <1>5, <1>6, <1>7, <1>8, <1>9, <1>10, CaptureCases

LEMMA CaptureInvInit == CaptureInit => CaptureInv
<1> SUFFICES ASSUME CaptureInit PROVE CaptureInv
  OBVIOUS
<1>1. Saving
  BY DEF CaptureInit, Saving, ExitMeansWritten
<1> QED
  BY <1>1, TypesInit, StagesInit, TiersInit, SessionsInit DEF CaptureInv

LEMMA CaptureInvStep == CaptureInv /\ [CaptureNext]_captureVars => CaptureInv'
BY TypesStep, StagesStep, TiersStep, SessionsStep, SavingStep DEF CaptureInv

\* The inductive invariant of a capture, from the command line to the files.
THEOREM CaptureInvariant == CaptureSpec => []CaptureInv
BY CaptureInvInit, CaptureInvStep, PTL DEF CaptureSpec

-----------------------------------------------------------------------------
\* What follows from it.

\* fetch.rs and capture.rs: a caller that forbids the browser gets none, whatever
\* fails; in auto mode the static tier answers only for a page whose text is
\* there without scripts, and if neither a format nor an action calls for the
\* browser; and it is started only if one of these, or the mode, does.  Whether
\* the caller wants to wait (wait_for) is not among what the code asks.
THEOREM TierIsRight == CaptureSpec => []TierRight
<1>1. CaptureInv => TierRight
  <2> SUFFICES ASSUME CaptureInv PROVE TierRight
    OBVIOUS
  <2>1. BrowserForbidden
    BY DEF CaptureInv, Tiers, BrowserForbidden
  <2>2. ASSUME outcome = "ok", raw.static # Absent, request.render = "auto"
        PROVE  /\ ~fetched.tag.notice /\ ~fetched.tag.refresh /\ fetched.tag.text >= request.floor
               /\ request.actions = <<>> /\ ~\E f \in request.formats : RequiresBrowser(f)
    <3>1. /\ Sufficient /\ ~ActionsNeedBrowser(request)
          /\ ~BrowserRequiredUpfront(request.formats, request.render)
      BY <2>2 DEF CaptureInv, Tiers
    <3>2. Assess(fetched.tag, request.floor) = "Static"
      BY <3>1 DEF Sufficient
    <3>3. ~fetched.tag.notice /\ ~fetched.tag.refresh /\ fetched.tag.text >= request.floor
      BY <3>2 DEF Assess
    <3>4. request.actions = <<>>
      BY <2>2, <3>1 DEF ActionsNeedBrowser
    <3>5. ~\E f \in request.formats : RequiresBrowser(f)
      BY <2>2, <3>1 DEF BrowserRequiredUpfront
    <3> QED
      BY <3>3, <3>4, <3>5
  <2>3. ASSUME browser # "none", request.render # "always", request.actions = <<>>,
               \A f \in request.formats : ~RequiresBrowser(f),
               fetched.ok, fetched.type = "html",
               ~fetched.tag.notice, ~fetched.tag.refresh, fetched.tag.text >= request.floor
        PROVE  FALSE
    <3>1. ~Sufficient
      BY <2>3 DEF CaptureInv, Tiers, BrowserRequiredUpfront, ActionsNeedBrowser
    <3>2. Assess(fetched.tag, request.floor) = "Static"
      BY <2>3 DEF Assess
    <3> QED
      BY <2>3, <3>1, <3>2 DEF Sufficient
  <2>4. BrowserOnlyIfNeeded
    BY <2>3 DEF BrowserOnlyIfNeeded
  <2> QED
    BY <2>1, <2>2, <2>4 DEF TierRight, StaticOnlyIfSufficient
<1> QED
  BY <1>1, CaptureInvariant, PTL

\* The methods tell the parts of a session apart.
LEMMA MethodsApart ==
  ASSUME NEW o \in Requests
  PROVE  /\ \A c \in ToSet(SetUp(o)) : c.method \in SetUpMethods
         /\ \A c \in ToSet(Session(o)) : c.method \in SetUpMethods => c \in ToSet(SetUp(o))
         /\ \A c \in ToSet(Acted(o)) : c.method \notin {"outerHTML"} \cup ArtefactMethods
         /\ \A c \in Waits : c.method \notin SetUpMethods \cup ActionMethods \cup ArtefactMethods
         /\ \A c \in ToSet(o.actions) : c.method \in ActionMethods
         /\ Navigate.method = "Page.navigate" /\ "Page.navigate" \notin SetUpMethods
<1>1. /\ Navigate.method = "Page.navigate" /\ Settle.method = "settle"
      /\ WaitFor.method = "wait_for" /\ OuterHtml.method = "outerHTML"
  BY MethodOfCommand DEF Navigate, Settle, WaitFor, OuterHtml
<1>2. \A c \in ToSet(SetUp(o)) : c.method \in SetUpMethods
  BY SetUpOnly
<1>3. \A c \in ToSet(o.actions) : c.method \in ActionMethods
  BY CaptureAssumption
<1>4. \A c \in ToSet(Artefacts(o)) : c.method \in ArtefactMethods
  BY ArtefactsOnly
<1>5. /\ \A m \in {"Page.navigate", "settle", "wait_for", "outerHTML"} :
           m \notin SetUpMethods \cup ArtefactMethods
      /\ \A m \in ActionMethods : m \notin SetUpMethods \cup ArtefactMethods
      /\ \A m \in SetUpMethods : m \notin ArtefactMethods
      /\ \A m \in {"settle", "wait_for", "outerHTML"} : m \notin ActionMethods
      /\ "outerHTML" \notin SetUpMethods
  BY DEF SetUpMethods, ArtefactMethods, ActionMethods
<1>6. ASSUME NEW c \in ToSet(Session(o)), c \notin ToSet(SetUp(o))
      PROVE  c.method \notin SetUpMethods
  <2>1. \/ c \in {Navigate, Settle, WaitFor, OuterHtml}
        \/ c \in ToSet(o.actions) \/ c \in ToSet(Artefacts(o))
    BY <1>6, SessionLayout
  <2>2. CASE c \in {Navigate, Settle, WaitFor, OuterHtml}
    BY <1>1, <1>5, <2>2
  <2>3. CASE c \in ToSet(o.actions)
    BY <1>3, <1>5, <2>3
  <2>4. CASE c \in ToSet(Artefacts(o))
    BY <1>4, <1>5, <2>4
  <2> QED
    BY <2>1, <2>2, <2>3, <2>4
<1>7. ASSUME NEW c \in ToSet(Acted(o))
      PROVE  c.method \notin {"outerHTML"} \cup ArtefactMethods
  <2>1. c \in ToSet(SetUp(o)) \/ c \in {Navigate, Settle, WaitFor} \/ c \in ToSet(o.actions)
    BY <1>7, SessionLayout
  <2>2. CASE c \in ToSet(SetUp(o))
    BY <1>2, <1>5, <2>2
  <2>3. CASE c \in {Navigate, Settle, WaitFor}
    BY <1>1, <1>5, <2>3
  <2>4. CASE c \in ToSet(o.actions)
    BY <1>3, <1>5, <2>4
  <2> QED
    BY <2>1, <2>2, <2>3, <2>4
<1>8. \A c \in Waits : c.method \notin SetUpMethods \cup ActionMethods \cup ArtefactMethods
  BY <1>1, <1>5 DEF Waits
<1> QED
  BY <1>1, <1>2, <1>3, <1>5, <1>6, <1>7, <1>8

LEMMA SetUpIsBefore == CaptureInv => SetUpBeforeLoading
<1> SUFFICES ASSUME CaptureInv, NEW n \in DOMAIN sent, sent[n] = Navigate
             PROVE  LET before == {sent[i] : i \in 1..(n - 1)} IN
                    /\ ToSet(Enabling) \subseteq before
                    /\ Told(before, "Network.setExtraHTTPHeaders") = Credentials(request.session)
                    /\ Told(before, "Network.setBlockedURLs") = BlockedUrlPatterns(request.block)
                    /\ request.emulation.locale # "" =>
                         <<request.emulation.locale>> \in Told(before, "Emulation.setLocaleOverride")
  BY DEF SetUpBeforeLoading
<1> DEFINE o == request
           cs == Session(o)
           up == ToSet(SetUp(o))
           before == {sent[i] : i \in 1..(n - 1)}
<1>1. o \in Requests /\ sent \in Seq(ToSet(cs)) /\ Prefixed(cs, sent)
  BY DEF CaptureInv, Types, CaptureTypeOK, Sessions
<1>2. PICK m \in DOMAIN cs :
        /\ cs[m] = sent[n]
        /\ \A j \in 1 .. m - 1 : cs[j] \notin Waits => \E i \in 1 .. n - 1 : sent[i] = cs[j]
  BY <1>1 DEF Prefixed
<1>3. /\ DOMAIN cs = 1 .. Len(cs) /\ Len(cs) \in Nat /\ Len(SetUp(o)) \in Nat
      /\ Len(SetUp(o)) <= Len(cs) /\ DOMAIN SetUp(o) = 1 .. Len(SetUp(o))
      /\ \A j \in 1 .. Len(SetUp(o)) : cs[j] = SetUp(o)[j]
  BY <1>1, SessionLayout
<1>4. /\ \A c \in up : c.method \in SetUpMethods
      /\ \A c \in ToSet(cs) : c.method \in SetUpMethods => c \in up
      /\ \A c \in up : c \notin Waits
      /\ Navigate.method \notin SetUpMethods
  BY <1>1, MethodsApart
<1>5. m > Len(SetUp(o))
  <2> SUFFICES ASSUME m <= Len(SetUp(o)) PROVE FALSE
    BY <1>2, <1>3
  <2>1. m \in DOMAIN SetUp(o) /\ cs[m] = SetUp(o)[m]
    BY <1>2, <1>3
  <2>2. cs[m] \in up
    BY <2>1 DEF ToSet
  <2> QED
    BY <1>2, <1>4, <2>2
<1>6. up \subseteq before
  <2> SUFFICES ASSUME NEW c \in up PROVE c \in before
    OBVIOUS
  <2>1. PICK j \in DOMAIN SetUp(o) : SetUp(o)[j] = c
    BY DEF ToSet
  <2>2. j \in 1 .. m - 1 /\ cs[j] = c
    BY <1>2, <1>3, <1>5, <2>1
  <2> QED
    BY <1>2, <1>4, <2>2
<1>7. before \subseteq ToSet(cs)
  <2>1. \A i \in 1 .. n - 1 : i \in DOMAIN sent
    BY <1>1
  <2> QED
    BY <1>1, <2>1
<1> HIDE DEF up, before, cs
<1>8. \A M \in SetUpMethods : Told(before, M) = Told(up, M)
  <2> TAKE M \in SetUpMethods
  <2>1. {x \in before : x.method = M} = {x \in up : x.method = M}
    BY <1>4, <1>6, <1>7
  <2> QED
    BY <2>1 DEF Told
<1>9. {"Network.setExtraHTTPHeaders", "Network.setBlockedURLs", "Emulation.setLocaleOverride"}
         \subseteq SetUpMethods
  BY DEF SetUpMethods
<1>10. ToSet(Enabling) \subseteq before
  BY <1>6, SetUpOnly DEF up
<1>11. Told(before, "Network.setExtraHTTPHeaders") = Credentials(o.session)
  <2>1. Plain(o.session.headers)
    BY <1>1, CaptureAssumption DEF Plain
  <2>2. Told(up, "Network.setExtraHTTPHeaders") = Credentials(o.session)
    BY <2>1, SetUpOnly, HeadersAreCredentials DEF up
  <2> QED
    BY <1>8, <1>9, <2>2
<1>12. Told(before, "Network.setBlockedURLs") = BlockedUrlPatterns(o.block)
  BY <1>8, <1>9, SetUpOnly DEF up
<1>13. ASSUME o.emulation.locale # ""
       PROVE  <<o.emulation.locale>> \in Told(before, "Emulation.setLocaleOverride")
  <2> DEFINE l == {<<o.emulation.locale>>}
             c == Command("Emulation.setLocaleOverride", l)
  <2>1. c \in up
    BY <1>13, SetUpOnly DEF up
  <2>2. c.method = "Emulation.setLocaleOverride" /\ c.args = l
    BY MethodOfCommand
  <2> HIDE DEF c
  <2>3. <<o.emulation.locale>> \in c.args /\ c \in before
    BY <1>6, <2>1, <2>2
  <2> QED
    BY <2>2, <2>3 DEF Told
<1> QED
  BY <1>10, <1>11, <1>12, <1>13 DEF before

LEMMA CapturedIsAfter == CaptureInv => CapturedAfterActions
<1> SUFFICES ASSUME CaptureInv, NEW n \in DOMAIN sent, FieldOf(sent[n].method) # "none",
                    NEW i \in DOMAIN request.actions
             PROVE  \E k \in 1..(n - 1) : sent[k] = request.actions[i]
  BY DEF CapturedAfterActions
<1> DEFINE o == request
           cs == Session(o)
           a == o.actions[i]
<1>1. o \in Requests /\ Prefixed(cs, sent)
  BY DEF CaptureInv, Types, CaptureTypeOK, Sessions
<1>2. PICK m \in DOMAIN cs :
        /\ cs[m] = sent[n]
        /\ \A j \in 1 .. m - 1 : cs[j] \notin Waits => \E k \in 1 .. n - 1 : sent[k] = cs[j]
  BY <1>1 DEF Prefixed
<1>3. /\ DOMAIN cs = 1 .. Len(cs) /\ Len(cs) \in Nat
      /\ DOMAIN Acted(o) = 1 .. Len(Acted(o)) /\ Len(Acted(o)) \in Nat
      /\ \A j \in 1 .. Len(Acted(o)) : cs[j] = Acted(o)[j]
      /\ ToSet(o.actions) \subseteq ToSet(Acted(o))
  BY <1>1, SessionLayout
<1>4. /\ \A c \in ToSet(Acted(o)) : c.method \notin {"outerHTML"} \cup ArtefactMethods
      /\ \A c \in ToSet(o.actions) : c \notin Waits
  BY <1>1, MethodsApart
<1>5. cs[m].method \in {"outerHTML"} \cup ArtefactMethods
  BY <1>2, Fields
<1>6. m > Len(Acted(o))
  <2> SUFFICES ASSUME m <= Len(Acted(o)) PROVE FALSE
    BY <1>2, <1>3
  <2>1. m \in DOMAIN Acted(o) /\ cs[m] = Acted(o)[m]
    BY <1>2, <1>3
  <2>2. cs[m] \in ToSet(Acted(o))
    BY <2>1 DEF ToSet
  <2> QED
    BY <1>4, <1>5, <2>2
<1>7. a \in ToSet(o.actions)
  BY DEF ToSet
<1>8. PICK j \in DOMAIN Acted(o) : Acted(o)[j] = a
  BY <1>3, <1>7 DEF ToSet
<1>9. j \in 1 .. m - 1 /\ cs[j] = a /\ a \notin Waits
  BY <1>2, <1>3, <1>4, <1>6, <1>7, <1>8
<1> QED
  BY <1>2, <1>9

\* render.rs: events are on, and the page's headers, cookies, blocked URLs and
\* locale are set, before it is navigated; and the DOM and the other artefacts are
\* read after all actions, whatever the caller combines.
THEOREM SessionIsOrdered == CaptureSpec => []SessionOrdered
<1>1. CaptureInv => SessionOrdered
  BY SetUpIsBefore, CapturedIsAfter DEF SessionOrdered, CaptureInv, Types
<1> QED
  BY <1>1, CaptureInvariant, PTL

LEMMA BrowserEmits == CaptureInv => BrowserEmitsRequested
<1> SUFFICES ASSUME CaptureInv, outcome = "ok", browser # "none", raw.rendered = "html",
                    \A n \in DOMAIN sent : FieldOf(sent[n].method) # "none" =>
                      raw[FieldOf(sent[n].method)] # Absent,
                    NEW f \in request.formats
             PROVE  Source(raw, f) # Absent
  BY DEF BrowserEmitsRequested
<1> DEFINE o == request
<1>1. o \in Requests /\ f \in Formats
  BY CaptureAssumption DEF CaptureInv, Types, CaptureTypeOK
<1>2. ToSet(Session(o)) \ Waits \subseteq ToSet(sent)
  BY DEF CaptureInv, Sessions
<1>3. ASSUME NEW m \in ArtefactMethods, Command(m, {}) \in ToSet(Artefacts(o)), FieldOf(m) # "none"
      PROVE  raw[FieldOf(m)] # Absent
  <2>1. Command(m, {}).method = m
    BY MethodOfCommand
  <2>2. Command(m, {}) \in ToSet(Session(o)) /\ Command(m, {}) \notin Waits
    BY <1>1, <1>3, <2>1, SessionLayout, MethodsApart
  <2>3. PICK n \in DOMAIN sent : sent[n] = Command(m, {})
    BY <1>2, <2>2 DEF ToSet
  <2> QED
    BY <1>3, <2>1, <2>3
<1>4. CASE f \in {"md", "txt", "warc", "wacz"}
  BY <1>4 DEF Source, HtmlOf, Absent
<1>5. CASE f \in {"mhtml", "html"}
  <2>1. {"mhtml", "html"} \cap o.formats # {}
    BY <1>5
  <2>2. Command("Page.captureSnapshot", {}) \in ToSet(Artefacts(o))
    BY <2>1, ArtefactsOnly
  <2>3. raw["mhtml"] # Absent
    BY <1>3, <2>2, Fields DEF ArtefactMethods
  <2> QED
    BY <1>5, <2>3 DEF Source
<1>6. CASE f = "png"
  <2>1. Command("Page.captureScreenshot", {}) \in ToSet(Artefacts(o))
    BY <1>6, ArtefactsOnly
  <2>2. raw["png"] # Absent
    BY <1>3, <2>1, Fields DEF ArtefactMethods
  <2> QED
    BY <1>6, <2>2 DEF Source
<1>7. CASE f = "pdf"
  <2>1. Command("Page.printToPDF", {}) \in ToSet(Artefacts(o))
    BY <1>7, ArtefactsOnly
  <2>2. raw["pdf"] # Absent
    BY <1>3, <2>1, Fields DEF ArtefactMethods
  <2> QED
    BY <1>7, <2>2 DEF Source
<1> QED
  BY <1>1, <1>4, <1>5, <1>6, <1>7 DEF Formats

LEMMA RendersTheSame == CaptureInv => Reproducible
<1> SUFFICES ASSUME CaptureInv, outcome = "ok"
             PROVE  /\ \A f \in request.formats : Rendered(raw, f, "now") = Rendered(raw, f, "later")
                    /\ EvidenceManifest(raw, request.formats, "now")
                         = EvidenceManifest(raw, request.formats, "later")
  BY DEF Reproducible
<1>1. raw.date = "date"
  <2>1. CASE browser = "none"
    BY <2>1 DEF CaptureInv, Sessions
  <2>2. CASE browser # "none"
    <3>1. request \in Requests
      BY DEF CaptureInv, Types, CaptureTypeOK
    <3>2. OuterHtml \in ToSet(Session(request)) \ Waits
      <4>1. OuterHtml.method = "outerHTML" /\ Settle.method = "settle" /\ WaitFor.method = "wait_for"
        BY MethodOfCommand DEF OuterHtml, Settle, WaitFor
      <4> QED
        BY <3>1, <4>1, SessionLayout DEF Waits
    <3>3. OuterHtml \in ToSet(sent)
      BY <2>2, <3>2 DEF CaptureInv, Sessions
    <3> QED
      BY <3>3 DEF CaptureInv, Sessions
  <2> QED
    BY <2>1, <2>2
<1>2. CaptureDate(raw, "now") = CaptureDate(raw, "later")
  BY <1>1 DEF CaptureDate, Absent
<1>3. \A f : Rendered(raw, f, "now") = Rendered(raw, f, "later")
  BY <1>2 DEF Rendered
<1> QED
  BY <1>2, <1>3 DEF EvidenceManifest

\* main.rs, lib.rs and render.rs: a caller finds in its files what it asked for,
\* the same bytes whenever they are rendered, or is told by the exit code.
THEOREM CaptureDelivers == CaptureSpec => []DeliversRequested
<1>1. CaptureInv => DeliversRequested
  BY BrowserEmits, RendersTheSame DEF DeliversRequested, CaptureInv, Saving
<1> QED
  BY <1>1, CaptureInvariant, PTL

\* http.rs: a fetch that ends on a failure that may pass has made all its
\* attempts, one that goes on has met only such failures, and its sleeps double.
THEOREM FetchRetriesExact == CaptureSpec => RetriesExact
<1> DEFINE Exact ==
      attempt > 0 =>
        IF attempt' > 0
        THEN /\ ~fetched'.ok /\ MayPass(fetched')
             /\ backoff' = PowerOf2[attempt] - 1
        ELSE fetched'.ok \/ (MayPass(fetched') => attempt = MaxAttempts)
<1>1. Types /\ [CaptureNext]_captureVars => [Exact]_httpVars
  <2> SUFFICES ASSUME Types, [CaptureNext]_captureVars, ~UNCHANGED httpVars, attempt > 0
               PROVE  Exact
    OBVIOUS
  <2>1. HttpTypeOK /\ Slept /\ stage = "fetching"
    BY DEF Types, CaptureTypeOK
  <2>2. PICK r \in Replies : Fetch(r)
    BY <2>1, CaptureCases DEF captureVars, Usage, Snapshot, Decide, SpawnBrowser, Attach, Settled,
       Poll, SessionEnds, Close, Report, Save, Exit, Send
  <2> QED
    BY <2>1, <2>2, AttemptEnds DEF Fetch
<1>2. CaptureSpec => []Types
  BY CaptureInvariant, PTL DEF CaptureInv
<1> QED
  BY <1>1, <1>2, PTL DEF CaptureSpec, RetriesExact

=============================================================================
