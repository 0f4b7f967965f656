---------------------------- MODULE CrawlProofs ----------------------------
(***************************************************************************)
(* Theorems about Crawl, for every site, scope and budget: depths are      *)
(* distances, everything within the budgets is reached, the reports of an  *)
(* incremental crawl are exact, the requests are bounded, and a crawl      *)
(* keeps the promise of BoundedCrawl.  And about Robots, for every file:   *)
(* the groups are the ones its lines say, and the longest rule decides.    *)
(***************************************************************************)
EXTENDS Crawl, Robots, Induction

\* What the steps are taken on.
Types ==
  /\ queue \in Seq(Visit) /\ seen \subseteq Pages /\ dispatched \in Nat
  /\ links \in [Pages -> Seq(Urls)]
  /\ current \in Visit
  /\ pending \in Seq(Urls)
  /\ visited \in Seq(Visit)
  /\ pc \in {"idle", "ready", "fetching", "linking"}

PageOf(e) == Normalize(e.url)

\* The pages in the queue are found, not taken, and each there once.
Queued ==
  /\ \A i \in DOMAIN queue : PageOf(queue[i]) \in seen \ Taken
  /\ \A i, k \in DOMAIN queue : i # k => PageOf(queue[i]) # PageOf(queue[k])

FrontierInv == Types /\ Queued /\ Taken \subseteq seen

LEMMA NormalizeIsPage == \A u \in Urls : Normalize(u) \in Pages
BY DEF Pages

LEMMA SeedVisit == Visit0 \in Visit /\ Visit0.url = Seed
BY CrawlAssumption, FrontierAssumption DEF Visit0, Visit

LEMMA EmptyTypes ==
  /\ <<>> \in Seq(Visit) /\ DOMAIN <<>> = {} /\ <<>> \in Seq(Urls)
OBVIOUS

LEMMA HeadAndTail ==
  ASSUME NEW S, NEW s \in Seq(S), s # <<>>
  PROVE  /\ Head(s) \in S /\ Head(s) = s[1] /\ 1 \in DOMAIN s
         /\ Tail(s) \in Seq(S)
         /\ \A i \in DOMAIN Tail(s) : i + 1 \in DOMAIN s /\ Tail(s)[i] = s[i + 1] /\ i \in Nat /\ i > 0
OBVIOUS

LEMMA Appended ==
  ASSUME NEW S, NEW s \in Seq(S), NEW e \in S
  PROVE  /\ Append(s, e) \in Seq(S)
         /\ Len(s) \in Nat /\ DOMAIN s = 1 .. Len(s) /\ DOMAIN Append(s, e) = 1 .. Len(s) + 1
         /\ \A i \in 1 .. Len(s) : Append(s, e)[i] = s[i] /\ s[i] \in S
         /\ Append(s, e)[Len(s) + 1] = e
OBVIOUS

\* Taken pages, by the kind of step.
LEMMA TakenSame ==
  ASSUME UNCHANGED <<visited, current>>,
         pc \in {"fetching", "linking"} <=> pc' \in {"fetching", "linking"}
  PROVE  Taken' = Taken
BY DEF Taken

LEMMA NothingTaken ==
  ASSUME visited = <<>>, pc = "idle" \/ pc = "ready" PROVE Taken = {}
BY DEF Taken

\* Handing out the head of the queue takes its page.
LEMMA TakeTakes ==
  ASSUME Types, TakeNext
  PROVE  /\ queue # <<>> /\ dispatched < MaxPages /\ dispatched' = dispatched + 1
         /\ seen' = seen /\ queue' = Tail(queue) /\ current' = Head(queue)
         /\ Taken' = Taken \cup {PageOf(Head(queue))}
<1>1. queue # <<>> /\ dispatched < MaxPages
  BY DEF TakeNext, NextUrl, HasNext
<1>2. /\ pc = "ready" /\ pc' = "fetching" /\ current' = Head(queue) /\ UNCHANGED visited
      /\ dispatched' = dispatched + 1 /\ seen' = seen /\ queue' = Tail(queue)
  BY DEF TakeNext, NextUrl
<1> QED
  BY <1>1, <1>2 DEF Taken, PageOf

\* A visit moves its page from `current` to `visited`.
LEMMA VisitedTakes ==
  ASSUME Types, Visited
  PROVE  Taken' = Taken /\ visited' \in Seq(Visit)
<1>1. /\ pc = "linking" /\ pc' = "ready" /\ UNCHANGED current
      /\ visited' = Append(visited, current)
  BY DEF Visited
<1>2. /\ visited' \in Seq(Visit)
      /\ Len(visited) \in Nat /\ DOMAIN visited = 1 .. Len(visited)
      /\ DOMAIN visited' = 1 .. Len(visited) + 1
      /\ \A i \in 1 .. Len(visited) : visited'[i] = visited[i]
      /\ visited'[Len(visited) + 1] = current
  BY <1>1, Appended DEF Types
<1>3. Taken = {Normalize(visited[i].url) : i \in DOMAIN visited} \cup {Normalize(current.url)}
  BY <1>1 DEF Taken
<1>4. Taken' = {Normalize(visited'[i].url) : i \in DOMAIN visited'}
  BY <1>1 DEF Taken
<1>5. Taken' \subseteq Taken
  <2> SUFFICES ASSUME NEW i \in DOMAIN visited' PROVE Normalize(visited'[i].url) \in Taken
    BY <1>4
  <2>1. i \in 1 .. Len(visited) \/ i = Len(visited) + 1
    BY <1>2
  <2> QED
    BY <1>2, <1>3, <2>1
<1>6. Taken \subseteq Taken'
  <2>1. \A i \in DOMAIN visited : Normalize(visited[i].url) \in Taken'
    BY <1>2, <1>4
  <2>2. Len(visited) + 1 \in DOMAIN visited'
    BY <1>2
  <2>3. Normalize(current.url) \in Taken'
    BY <1>2, <1>4, <2>2
  <2> QED
    BY <1>3, <2>1, <2>3
<1> QED
  BY <1>2, <1>5, <1>6

\* A link is added to the queue, or nothing changes.
LEMMA LinkCases ==
  ASSUME Types, AddLink
  PROVE  /\ UNCHANGED dispatched /\ pending' \in Seq(Urls)
         /\ \/ UNCHANGED <<queue, seen>>
            \/ \E u \in Urls, d \in 0 .. MaxDepth :
                 /\ InScope(u) /\ Normalize(u) \notin seen
                 /\ queue' = Append(queue, [url |-> u, depth |-> d])
                 /\ seen' = seen \cup {Normalize(u)}
<1> DEFINE u == Head(pending)
           d == current.depth + 1
<1>1. pending # <<>> /\ pending' = Tail(pending)
  BY DEF AddLink
<1>2. u \in Urls /\ pending' \in Seq(Urls)
  BY <1>1, HeadAndTail DEF Types
<1>3. d \in Nat
  BY FrontierAssumption DEF Types, Visit
<1> HIDE DEF u, d
<1>4. UNCHANGED frontierVars \/ Enqueue(u, d)
  BY DEF AddLink, u, d
<1> QED
  BY <1>2, <1>3, <1>4, FrontierAssumption DEF Enqueue, Admits, frontierVars

\* A run begins with the seed, or with nothing.
LEMMA RunBegins ==
  ASSUME BeginRun
  PROVE  /\ visited' = <<>> /\ pending' = <<>> /\ current' = Visit0 /\ pc' = "ready"
         /\ UNCHANGED links /\ dispatched' = 0
         /\ \/ queue' = <<>> /\ seen' = {}
            \/ InScope(Seed) /\ queue' = <<Visit0>> /\ seen' = {Normalize(Seed)}
<1>1. /\ visited' = <<>> /\ pending' = <<>> /\ current' = Visit0 /\ pc' = "ready"
      /\ UNCHANGED links
  BY DEF BeginRun, siteVars
<1>2. CASE Seeded(Seed)
  BY <1>1, <1>2 DEF Seeded, Visit0
<1>3. CASE queue' = <<>> /\ seen' = {} /\ dispatched' = 0
  BY <1>1, <1>3
<1> QED
  BY <1>2, <1>3 DEF BeginRun

-----------------------------------------------------------------------------

LEMMA FrontierInit == Init => FrontierInv
<1> SUFFICES ASSUME Init PROVE FrontierInv
  OBVIOUS
<1>1. /\ queue = <<>> /\ seen = {} /\ dispatched = 0 /\ visited = <<>> /\ pending = <<>>
      /\ current = Visit0 /\ pc = "idle"
  BY DEF Init, NoFrontier
<1>2. links \in [Pages -> Seq(Urls)]
  BY CrawlAssumption DEF Init, Pages
<1>3. Taken = {}
  BY <1>1, NothingTaken
<1>4. Types
  BY <1>1, <1>2, SeedVisit, EmptyTypes DEF Types
<1>5. Queued
  BY <1>1, EmptyTypes DEF Queued
<1> QED
  BY <1>3, <1>4, <1>5 DEF FrontierInv

LEMMA FrontierStep == FrontierInv /\ [Next]_crawlVars => FrontierInv'
<1> SUFFICES ASSUME FrontierInv, [Next]_crawlVars PROVE FrontierInv'
  OBVIOUS
<1> USE DEF FrontierInv
<1>1. ASSUME UNCHANGED <<frontierVars, links, current, pending, visited>>,
             pc' \in {"idle", "ready", "fetching", "linking"},
             pc \in {"fetching", "linking"} <=> pc' \in {"fetching", "linking"}
      PROVE  FrontierInv'
  <2>1. Taken' = Taken
    BY <1>1, TakenSame
  <2> QED
    BY <1>1, <2>1 DEF Types, Queued, frontierVars
<1>2. CASE UNCHANGED crawlVars
  BY <1>1, <1>2 DEF crawlVars, siteVars, runVars, Types
<1>3. ASSUME NEW p \in Pages, Edit(p) PROVE FrontierInv'
  BY <1>1, <1>3 DEF Edit, runVars, Types
<1>4. ASSUME NEW r \in Replies, Request(r) PROVE FrontierInv'
  BY <1>1, <1>4 DEF Request, runVars, siteVars, Types
<1>5. CASE EndRun
  BY <1>1, <1>5 DEF EndRun, runVars, siteVars
<1>6. CASE Fetched
  <2>1. /\ UNCHANGED <<frontierVars, links, current, visited>>
        /\ pc = "fetching" /\ pc' = "linking"
    BY <1>6 DEF Fetched, siteVars
  <2>2. Normalize(current.url) \in Pages
    BY NormalizeIsPage DEF Types, Visit
  <2>3. pending' \in Seq(Urls)
    BY <1>6, <2>2, EmptyTypes DEF Fetched, Types
  <2>4. Taken' = Taken
    BY <2>1, TakenSame
  <2> QED
    BY <2>1, <2>3, <2>4 DEF Types, Queued, frontierVars
<1>7. CASE BeginRun
  <2>1. /\ visited' = <<>> /\ pending' = <<>> /\ current' = Visit0 /\ pc' = "ready"
        /\ UNCHANGED links /\ dispatched' = 0
        /\ \/ queue' = <<>> /\ seen' = {}
           \/ queue' = <<Visit0>> /\ seen' = {Normalize(Seed)}
    BY <1>7, RunBegins
  <2>2. Taken' = {}
    BY <2>1 DEF Taken
  <2>3. /\ <<Visit0>> \in Seq(Visit) /\ DOMAIN <<Visit0>> = {1} /\ <<Visit0>>[1] = Visit0
    BY SeedVisit
  <2>4. Types'
    BY <2>1, <2>3, SeedVisit, EmptyTypes, CrawlAssumption, NormalizeIsPage DEF Types
  <2>5. Queued'
    BY <2>1, <2>2, <2>3, SeedVisit, EmptyTypes DEF Queued, PageOf
  <2> QED
    BY <2>2, <2>4, <2>5
<1>8. CASE TakeNext
  <2>1. /\ queue # <<>> /\ dispatched' = dispatched + 1
        /\ seen' = seen /\ queue' = Tail(queue) /\ current' = Head(queue)
        /\ Taken' = Taken \cup {PageOf(Head(queue))}
    BY <1>8, TakeTakes
  <2>2. pc' = "fetching" /\ UNCHANGED <<links, pending, visited>>
    BY <1>8 DEF TakeNext, siteVars
  <2>3. /\ Head(queue) \in Visit /\ Head(queue) = queue[1] /\ 1 \in DOMAIN queue
        /\ queue' \in Seq(Visit)
        /\ \A i \in DOMAIN queue' : i + 1 \in DOMAIN queue /\ queue'[i] = queue[i + 1] /\ i \in Nat /\ i > 0
    BY <2>1, HeadAndTail DEF Types
  <2>4. Types'
    BY <2>1, <2>2, <2>3 DEF Types
  <2>5. \A i \in DOMAIN queue' : PageOf(queue'[i]) \in seen' \ Taken'
    <3> SUFFICES ASSUME NEW i \in DOMAIN queue' PROVE PageOf(queue'[i]) \in seen' \ Taken'
      OBVIOUS
    <3>1. i + 1 \in DOMAIN queue /\ queue'[i] = queue[i + 1] /\ i + 1 # 1
      BY <2>3
    <3>2. PageOf(queue[i + 1]) \in seen \ Taken /\ PageOf(queue[i + 1]) # PageOf(queue[1])
      BY <2>3, <3>1 DEF Queued
    <3> QED
      BY <2>1, <2>3, <3>1, <3>2
  <2>6. \A i, k \in DOMAIN queue' : i # k => PageOf(queue'[i]) # PageOf(queue'[k])
    <3> SUFFICES ASSUME NEW i \in DOMAIN queue', NEW k \in DOMAIN queue', i # k
                 PROVE  PageOf(queue'[i]) # PageOf(queue'[k])
      OBVIOUS
    <3>1. /\ i + 1 \in DOMAIN queue /\ queue'[i] = queue[i + 1]
          /\ k + 1 \in DOMAIN queue /\ queue'[k] = queue[k + 1]
          /\ i + 1 # k + 1
      BY <2>3
    <3> QED
      BY <3>1 DEF Queued
  <2>7. Taken' \subseteq seen'
    BY <2>1, <2>3 DEF Queued
  <2> QED
    BY <2>4, <2>5, <2>6, <2>7 DEF Queued
<1>9. CASE Visited
  <2>1. Taken' = Taken /\ visited' \in Seq(Visit)
    BY <1>9, VisitedTakes
  <2>2. UNCHANGED <<frontierVars, links, current, pending>> /\ pc' = "ready"
    BY <1>9 DEF Visited, siteVars
  <2> QED
    BY <2>1, <2>2 DEF Types, Queued, frontierVars
<1>10. CASE AddLink
  <2>1. UNCHANGED <<links, current, visited, dispatched>> /\ pc = "linking" /\ pc' = "linking"
    BY <1>10, LinkCases DEF AddLink, siteVars
  <2>2. Taken' = Taken
    BY <2>1, TakenSame
  <2>3. pending' \in Seq(Urls)
    BY <1>10, LinkCases
  <2>4. CASE UNCHANGED <<queue, seen>>
    BY <2>1, <2>2, <2>3, <2>4 DEF Types, Queued
  <2>5. ASSUME NEW u \in Urls, NEW d \in 0 .. MaxDepth,
               InScope(u), Normalize(u) \notin seen,
               queue' = Append(queue, [url |-> u, depth |-> d]),
               seen' = seen \cup {Normalize(u)}
        PROVE  FrontierInv'
    <3> DEFINE e == [url |-> u, depth |-> d]
               len == Len(queue)
    <3>1. e \in Visit /\ PageOf(e) = Normalize(u)
      BY DEF Visit, PageOf
    <3> HIDE DEF e
    <3>2. /\ queue' \in Seq(Visit) /\ len \in Nat
          /\ DOMAIN queue = 1 .. len /\ DOMAIN queue' = 1 .. len + 1
          /\ \A i \in 1 .. len : queue'[i] = queue[i]
          /\ queue'[len + 1] = e
      BY <2>5, <3>1, Appended DEF Types, e
    <3> HIDE DEF len
    <3>3. Types'
      BY <2>1, <2>3, <2>5, <3>2, NormalizeIsPage DEF Types
    <3>4. \A i \in DOMAIN queue : PageOf(queue[i]) \in seen \ Taken /\ PageOf(queue[i]) # PageOf(e)
      BY <2>5, <3>1 DEF Queued
    <3>5. PageOf(e) \notin Taken
      BY <2>5, <3>1
    <3>6. \A i \in DOMAIN queue' : (i \in DOMAIN queue /\ queue'[i] = queue[i]) \/ (i = len + 1 /\ queue'[i] = e)
      <4> SUFFICES ASSUME NEW i \in DOMAIN queue'
                   PROVE  (i \in DOMAIN queue /\ queue'[i] = queue[i]) \/ (i = len + 1 /\ queue'[i] = e)
        OBVIOUS
      <4>1. i \in 1 .. len \/ i = len + 1
        BY <3>2
      <4> QED
        BY <3>2, <4>1
    <3>7. \A i \in DOMAIN queue' : PageOf(queue'[i]) \in seen' \ Taken'
      BY <2>2, <2>5, <3>1, <3>4, <3>5, <3>6
    <3>8. \A i, k \in DOMAIN queue' : i # k => PageOf(queue'[i]) # PageOf(queue'[k])
      BY <3>4, <3>6 DEF Queued
    <3> QED
      BY <2>2, <2>5, <3>3, <3>7, <3>8 DEF Queued
  <2> QED
    BY <1>10, <2>4, <2>5, LinkCases
<1> QED
  BY <1>2, <1>3, <1>4, <1>5, <1>6, <1>7, <1>8, <1>9, <1>10 DEF Next, Step

\* The queue of the crawl, at every step.
THEOREM FrontierInvariant == Spec => []FrontierInv
BY FrontierInit, FrontierStep, PTL DEF Spec

-----------------------------------------------------------------------------
\* BoundedCrawl.

LEMMA PermittedPage == ASSUME NEW u \in Urls, InScope(u)
                       PROVE  Normalize(u) \in {Normalize(v) : v \in UrlsInScope}
BY DEF UrlsInScope

LEMMA PromiseInit == Init => Promise!Init
BY NothingTaken DEF Init, NoFrontier, Promise!Init

LEMMA PromiseStep ==
  ASSUME FrontierInv, [Next]_crawlVars
  PROVE  [Promise!Restart \/ Promise!Find \/ Promise!Take]_(Promise!crawl)
<1> USE DEF FrontierInv, Promise!crawl
<1>1. ASSUME UNCHANGED <<frontierVars, visited, current>>,
             pc \in {"fetching", "linking"} <=> pc' \in {"fetching", "linking"}
      PROVE  UNCHANGED Promise!crawl
  BY <1>1, TakenSame DEF frontierVars
<1>2. CASE UNCHANGED crawlVars
  BY <1>1, <1>2 DEF crawlVars, runVars
<1>3. ASSUME NEW p \in Pages, Edit(p) PROVE UNCHANGED Promise!crawl
  BY <1>1, <1>3 DEF Edit, runVars
<1>4. ASSUME NEW r \in Replies, Request(r) PROVE UNCHANGED Promise!crawl
  BY <1>1, <1>4 DEF Request, runVars
<1>5. CASE EndRun
  BY <1>1, <1>5 DEF EndRun, runVars
<1>6. CASE Fetched
  BY <1>1, <1>6 DEF Fetched
<1>7. CASE BeginRun
  <2>1. /\ dispatched' = 0 /\ visited' = <<>> /\ pc' = "ready"
        /\ seen' = {} \/ (InScope(Seed) /\ seen' = {Normalize(Seed)})
    BY <1>7, RunBegins
  <2>2. Taken' = {}
    BY <2>1 DEF Taken
  <2>3. Promise!Restart
    BY <2>1, <2>2, PermittedPage, CrawlAssumption DEF Promise!Restart
  <2> QED
    BY <2>3
<1>8. CASE TakeNext
  <2>1. /\ dispatched < MaxPages /\ dispatched' = dispatched + 1 /\ seen' = seen
        /\ queue # <<>> /\ Taken' = Taken \cup {PageOf(Head(queue))}
    BY <1>8, TakeTakes
  <2>2. PageOf(Head(queue)) \in seen \ Taken
    <3>1. Head(queue) = queue[1] /\ 1 \in DOMAIN queue
      BY <2>1, HeadAndTail DEF Types
    <3> QED
      BY <3>1 DEF Queued
  <2>3. Promise!Take
    BY <2>1, <2>2 DEF Promise!Take
  <2> QED
    BY <2>3
<1>9. CASE Visited
  BY <1>9, VisitedTakes DEF Visited, frontierVars
<1>10. CASE AddLink
  <2>1. Taken' = Taken /\ UNCHANGED dispatched
    BY <1>10, TakenSame, LinkCases DEF AddLink
  <2>2. CASE UNCHANGED <<queue, seen>>
    BY <2>1, <2>2
  <2>3. ASSUME NEW u \in Urls, InScope(u), Normalize(u) \notin seen,
               seen' = seen \cup {Normalize(u)}
        PROVE  Promise!Find
    BY <2>1, <2>3, PermittedPage DEF Promise!Find
  <2> QED
    BY <1>10, <2>2, <2>3, LinkCases
<1> QED
  BY <1>2, <1>3, <1>4, <1>5, <1>6, <1>7, <1>8, <1>9, <1>10 DEF Next, Step

\* crawl.rs, Frontier: the queue, the set of normalized URLs and the count of
\* those handed out keep the promise of a bounded crawl: pages in scope, each
\* at most once in a run, and at most max_pages of them.
THEOREM CrawlIsBounded == Spec => ImplementsBoundedCrawl
<1>1. Spec => Promise!Init /\ [][Promise!Restart \/ Promise!Find \/ Promise!Take]_(Promise!crawl)
  BY FrontierInvariant, PromiseInit, PromiseStep, PTL DEF Spec
<1> QED
  BY <1>1 DEF ImplementsBoundedCrawl, Promise!Spec

-----------------------------------------------------------------------------
\* The requests of a run.

\* The requests that the fetch under way may still make.
Remaining == IF attempt = 0 THEN 0 ELSE MaxAttempts - attempt + 1

Spent ==
  /\ attempt \in 0 .. MaxAttempts
  /\ attempt > 0 => pc = "fetching"
  /\ requests \in Nat /\ dispatched \in Nat
  /\ requests + Remaining <= MaxAttempts * dispatched

LEMMA SpentInit == Init => Spent
BY HttpAssumption DEF Init, HttpInit, NoFrontier, Spent, Remaining

LEMMA OneLess ==
  ASSUME NEW n \in Nat, NEW most \in Nat, NEW before \in Nat, NEW after \in Nat,
         n + before <= most, after + 1 <= before
  PROVE  (n + 1) + after <= most
OBVIOUS

LEMMA SpentStep == Spent /\ [Next]_crawlVars => Spent'
<1> SUFFICES ASSUME Spent, [Next]_crawlVars PROVE Spent'
  OBVIOUS
<1> USE HttpAssumption
<1>1. ASSUME UNCHANGED <<attempt, requests, dispatched>>, attempt = 0 \/ pc' = pc PROVE Spent'
  BY <1>1 DEF Spent, Remaining
<1>2. CASE UNCHANGED crawlVars
  BY <1>1, <1>2 DEF crawlVars, frontierVars, httpVars, crawlHistory
<1>3. ASSUME NEW p \in Pages, Edit(p) PROVE Spent'
  BY <1>1, <1>3 DEF Edit, frontierVars, httpVars, crawlHistory
<1>4. CASE Fetched \/ AddLink \/ Visited \/ EndRun
  <2>1. UNCHANGED <<attempt, requests, dispatched>>
    BY <1>4 DEF Fetched, AddLink, Enqueue, Visited, EndRun, frontierVars, httpVars, crawlHistory
  <2>2. attempt = 0 \/ pc' = pc
    BY <1>4 DEF Fetched, AddLink, Visited, EndRun, Spent
  <2> QED
    BY <1>1, <2>1, <2>2
<1>5. ASSUME NEW r \in Replies, Request(r) PROVE Spent'
  <2>1. /\ pc' = "fetching" /\ requests' = requests + 1 /\ dispatched' = dispatched
        /\ attempt > 0
        /\ attempt' = 0 \/ (attempt < MaxAttempts /\ attempt' = attempt + 1)
    BY <1>5 DEF Request, Attempt, LastTry, frontierVars, Spent
  <2>2. Remaining = MaxAttempts - attempt + 1 /\ Remaining' + 1 <= Remaining
    BY <2>1 DEF Remaining, Spent
  <2>3. Remaining' \in Nat /\ MaxAttempts * dispatched \in Nat /\ Remaining \in Nat
    BY <2>1 DEF Remaining, Spent
  <2>4. requests' + Remaining' <= MaxAttempts * dispatched'
    <3> DEFINE most == MaxAttempts * dispatched
    <3>1. requests \in Nat /\ requests + Remaining <= most /\ MaxAttempts * dispatched' = most
      BY <2>1 DEF Spent
    <3>2. most \in Nat
      BY <2>3
    <3> HIDE DEF most
    <3>3. requests' + Remaining' <= most
      BY <2>1, <2>2, <2>3, <3>1, <3>2, OneLess
    <3> QED
      BY <3>1, <3>3
  <2> QED
    BY <2>1, <2>4 DEF Spent
<1>6. CASE TakeNext
  <2>1. /\ attempt = 0 /\ attempt' = 1 /\ pc' = "fetching"
        /\ requests' = requests /\ dispatched' = dispatched + 1
    BY <1>6 DEF TakeNext, NextUrl, BeginFetch, crawlHistory
  <2>2. MaxAttempts * (dispatched + 1) = MaxAttempts * dispatched + MaxAttempts
    BY DEF Spent
  <2>3. MaxAttempts * dispatched \in Nat
    BY DEF Spent
  <2> QED
    BY <2>1, <2>2, <2>3 DEF Spent, Remaining
<1>7. CASE BeginRun
  <2>1. requests' = 0 /\ dispatched' = 0 /\ attempt' = attempt /\ attempt = 0
    BY <1>7, RunBegins DEF BeginRun, httpVars, Spent
  <2> QED
    BY <2>1 DEF Spent, Remaining
<1> QED
  BY <1>2, <1>3, <1>4, <1>5, <1>6, <1>7 DEF Next, Step

\* crawl.rs and http.rs: however pages fail, a run of a crawl makes at most
\* MAX_ATTEMPTS requests for each of the pages within its budget.
THEOREM RequestsAreBounded == Spec => []RequestsBounded
<1>1. Spent => RequestsBounded
  BY HttpAssumption DEF Spent, Remaining, RequestsBounded
<1> QED
  BY <1>1, SpentInit, SpentStep, PTL DEF Spec

-----------------------------------------------------------------------------
\* The report of an incremental crawl.

\* What the cache knows of a URL that alone spells its page is what the last
\* visit of that page found.
CacheKnows ==
  /\ cache \in [Urls -> Hashes \cup {Unseen}]
  /\ lastBody \in [Pages -> Hashes \cup {Unseen}]
  /\ body \in [Pages -> Bodies]
  /\ changed \in Seq(Urls)
  /\ \A u \in SoleSpellings : cache[u] = lastBody[Normalize(u)]

LEMMA CacheInit == Init => CacheKnows
BY NormalizeIsPage, EmptyTypes DEF Init, CacheKnows, SoleSpellings

\* One visit, by its record.
LEMMA VisitRecorded ==
  ASSUME FrontierInv, CacheKnows, Fetched
  PROVE  /\ current.url \in Urls /\ Normalize(current.url) \in Pages
         /\ FoundBody \in Hashes
         /\ cache' = [cache EXCEPT ![current.url] = FoundBody]
         /\ lastBody' = [lastBody EXCEPT ![Normalize(current.url)] = FoundBody]
         /\ changed' = IF cache[current.url] = FoundBody
                       THEN changed ELSE Append(changed, current.url)
<1>1. current.url \in Urls /\ Normalize(current.url) \in Pages
  BY NormalizeIsPage DEF FrontierInv, Types, Visit
<1>2. FoundBody \in Hashes
  BY <1>1 DEF CacheKnows, FoundBody, Hashes
<1> QED
  BY <1>1, <1>2 DEF Fetched, Record, IsUnchanged

LEMMA CacheStep == FrontierInv /\ CacheKnows /\ [Next]_crawlVars => CacheKnows'
<1> SUFFICES ASSUME FrontierInv, CacheKnows, [Next]_crawlVars PROVE CacheKnows'
  OBVIOUS
<1>1. ASSUME UNCHANGED <<cache, lastBody>>, body' \in [Pages -> Bodies], changed' \in Seq(Urls)
      PROVE  CacheKnows'
  BY <1>1 DEF CacheKnows
<1>2. CASE UNCHANGED crawlVars
  BY <1>1, <1>2 DEF crawlVars, siteVars, runVars, crawlHistory, CacheKnows
<1>3. ASSUME NEW p \in Pages, Edit(p) PROVE CacheKnows'
  BY <1>1, <1>3 DEF Edit, runVars, crawlHistory, CacheKnows
<1>4. ASSUME NEW r \in Replies, Request(r) PROVE CacheKnows'
  BY <1>1, <1>4 DEF Request, siteVars, runVars, CacheKnows
<1>5. CASE TakeNext \/ AddLink \/ Visited \/ EndRun
  BY <1>1, <1>5 DEF TakeNext, AddLink, Visited, EndRun, siteVars, runVars, crawlHistory, CacheKnows
<1>6. CASE BeginRun
  BY <1>1, <1>6, EmptyTypes DEF BeginRun, siteVars, CacheKnows
<1>7. CASE Fetched
  <2>1. body' = body
    BY <1>7 DEF Fetched, siteVars
  <2>2. cache' \in [Urls -> Hashes \cup {Unseen}] /\ lastBody' \in [Pages -> Hashes \cup {Unseen}]
    BY <1>7, VisitRecorded DEF CacheKnows
  <2>3. changed' \in Seq(Urls)
    <3>1. changed \in Seq(Urls) /\ current.url \in Urls
      BY <1>7, VisitRecorded DEF CacheKnows
    <3>2. Append(changed, current.url) \in Seq(Urls)
      BY <3>1
    <3>3. changed' = changed \/ changed' = Append(changed, current.url)
      BY <1>7, VisitRecorded
    <3> QED
      BY <3>1, <3>2, <3>3
  <2>4. ASSUME NEW u \in SoleSpellings PROVE cache'[u] = lastBody'[Normalize(u)]
    <3>1. u \in Urls /\ Normalize(u) \in Pages
      BY NormalizeIsPage DEF SoleSpellings
    <3>2. CASE u = current.url
      BY <1>7, <3>1, <3>2, VisitRecorded DEF CacheKnows
    <3>3. CASE u # current.url
      <4>1. Normalize(u) # Normalize(current.url)
        BY <1>7, <3>3, VisitRecorded DEF SoleSpellings
      <4>2. cache'[u] = cache[u] /\ lastBody'[Normalize(u)] = lastBody[Normalize(u)]
        BY <1>7, <3>1, <3>3, <4>1, VisitRecorded DEF CacheKnows
      <4> QED
        BY <4>2 DEF CacheKnows
    <3> QED
      BY <3>2, <3>3
  <2> QED
    BY <2>1, <2>2, <2>3, <2>4 DEF CacheKnows
<1> QED
  BY <1>2, <1>3, <1>4, <1>5, <1>6, <1>7 DEF Next, Step

\* crawl.rs, crawl_incremental_with: of a page with one URL, a visit is reported
\* if and only if it found other bytes than the visit before it, if both
\* succeeded, whatever lies in between.
THEOREM ReportsAreExact == Spec => ReportsExact
<1>1. FrontierInv /\ CacheKnows /\ [Next]_crawlVars =>
        [LET p == Normalize(current.url)
             was == lastBody[p] IN
         pc = "fetching" /\ pc' = "linking" /\ current.url \in SoleSpellings
           /\ was \in Bodies /\ lastBody'[p] \in Bodies =>
             (Len(changed') > Len(changed) <=> lastBody'[p] # was)]_crawlVars
  <2> DEFINE p == Normalize(current.url)
  <2> SUFFICES ASSUME FrontierInv, CacheKnows, Next,
                      pc = "fetching", pc' = "linking", current.url \in SoleSpellings
               PROVE  Len(changed') > Len(changed) <=> lastBody'[p] # lastBody[p]
    OBVIOUS
  <2>1. Fetched
    BY DEF Next, Step, BeginRun, Edit, TakeNext, Request, AddLink, Visited, EndRun
  <2>2. cache[current.url] = lastBody[p] /\ lastBody'[p] = FoundBody
    BY <2>1, VisitRecorded DEF CacheKnows
  <2>3. changed' = IF lastBody'[p] = lastBody[p] THEN changed ELSE Append(changed, current.url)
    BY <2>1, <2>2, VisitRecorded
  <2>4. changed \in Seq(Urls) /\ Len(changed) \in Nat /\ current.url \in Urls
    BY <2>1, VisitRecorded DEF CacheKnows
  <2>5. Len(Append(changed, current.url)) = Len(changed) + 1
    BY <2>4
  <2> QED
    BY <2>3, <2>4, <2>5
<1> QED
  BY <1>1, FrontierInvariant, CacheInit, CacheStep, PTL DEF Spec, ReportsExact

-----------------------------------------------------------------------------
\* Breadth first.

\* The pages of the URLs us that a run under the rules rs may visit, and the
\* pages of the entries es down to depth d.
Reach(us, rs) == {Normalize(u) : u \in {v \in us \cap UrlsInScope : v.path \notin rs}}
UpTo(d, es) == {PageOf(e) : e \in {f \in es : f.depth <= d}}

\* The visits handed out.
Walked == ToSet(visited) \cup IF pc \in {"fetching", "linking"} THEN {current} ELSE {}

\* The queue is handed out by depth, and holds at most two depths.
Ordered ==
  /\ \A i, k \in DOMAIN queue : i <= k =>
       queue[i].depth <= queue[k].depth /\ queue[k].depth <= queue[i].depth + 1
  /\ \A e \in Walked : \A i \in DOMAIN queue : e.depth <= queue[i].depth
  /\ pc \in {"fetching", "linking"} =>
       /\ \A i \in DOMAIN queue : queue[i].depth <= current.depth + 1
       /\ \A e \in Walked : e.depth <= current.depth

\* What the links still to be added will reach.
Awaited == IF pc = "linking" THEN Reach(ToSet(pending), robots) ELSE {}

\* Each page was enqueued once, over a link of a page one step nearer, and what
\* a page links to is no farther than a step beyond it.
Tree ==
  /\ \A e, f \in Entries : PageOf(e) = PageOf(f) => e = f
  /\ seen = {PageOf(e) : e \in Entries}
  /\ expanded \subseteq {PageOf(e) : e \in Walked}
  /\ pc # "idle" \/ Entries # {} => UpTo(0, Entries) = Reach({Seed}, robots)
  /\ \A e \in Entries : e.depth > 0 => \E f \in Entries :
       /\ f.depth + 1 = e.depth
       /\ PageOf(f) \in expanded /\ PageOf(e) \in Reach(ToSet(links[PageOf(f)]), robots)
  /\ \A e \in Entries : PageOf(e) \in expanded /\ e.depth < MaxDepth =>
       Reach(ToSet(links[PageOf(e)]), robots) \subseteq
         UpTo(e.depth + 1, Entries) \cup IF e = current THEN Awaited ELSE {}
  /\ pc = "linking" /\ pending # <<>> => /\ PageOf(current) \in expanded
       /\ ToSet(pending) \subseteq ToSet(links[PageOf(current)])

LEMMA EntriesUnion == Entries = ToSet(queue) \cup Walked
BY DEF Entries, Walked

LEMMA SetOfEmpty == ToSet(<<>>) = {}
BY DEF ToSet

LEMMA SetOfAppended ==
  ASSUME NEW S, NEW s \in Seq(S), NEW e \in S
  PROVE  ToSet(Append(s, e)) = ToSet(s) \cup {e}
<1>1. /\ Len(s) \in Nat /\ DOMAIN s = 1 .. Len(s) /\ DOMAIN Append(s, e) = 1 .. Len(s) + 1
      /\ \A i \in 1 .. Len(s) : Append(s, e)[i] = s[i]
      /\ Append(s, e)[Len(s) + 1] = e
  BY Appended
<1>2. \A i \in 1 .. Len(s) + 1 : i \in 1 .. Len(s) \/ i = Len(s) + 1
  BY <1>1
<1>3. \A i \in 1 .. Len(s) : i \in 1 .. Len(s) + 1
  BY <1>1
<1>4. Len(s) + 1 \in 1 .. Len(s) + 1
  BY <1>1
<1>5. ASSUME NEW x \in ToSet(Append(s, e)) PROVE x \in ToSet(s) \cup {e}
  BY <1>1, <1>2 DEF ToSet
<1>6. ASSUME NEW x \in ToSet(s) PROVE x \in ToSet(Append(s, e))
  BY <1>1, <1>3 DEF ToSet
<1>7. e \in ToSet(Append(s, e))
  BY <1>1, <1>4 DEF ToSet
<1> QED
  BY <1>5, <1>6, <1>7

LEMMA SetOfTail ==
  ASSUME NEW S, NEW s \in Seq(S), s # <<>>
  PROVE  ToSet(s) = {Head(s)} \cup ToSet(Tail(s))
<1>1. /\ Len(s) \in Nat /\ DOMAIN s = 1 .. Len(s) /\ Len(s) > 0 /\ Head(s) = s[1]
      /\ DOMAIN Tail(s) = 1 .. Len(s) - 1
      /\ \A i \in 1 .. Len(s) - 1 : Tail(s)[i] = s[i + 1]
  OBVIOUS
<1>2. ASSUME NEW x \in ToSet(s) PROVE x \in {Head(s)} \cup ToSet(Tail(s))
  <2>1. PICK i \in 1 .. Len(s) : x = s[i]
    BY <1>1 DEF ToSet
  <2>2. CASE i = 1
    BY <1>1, <2>1, <2>2
  <2>3. CASE i # 1
    <3>1. i - 1 \in 1 .. Len(s) - 1 /\ Tail(s)[i - 1] = s[i]
      BY <1>1, <2>3
    <3> QED
      BY <1>1, <2>1, <3>1 DEF ToSet
  <2> QED
    BY <2>2, <2>3
<1>3. ASSUME NEW x \in {Head(s)} \cup ToSet(Tail(s)) PROVE x \in ToSet(s)
  <2>1. CASE x = Head(s)
    BY <1>1, <2>1 DEF ToSet
  <2>2. CASE x \in ToSet(Tail(s))
    <3>1. PICK i \in 1 .. Len(s) - 1 : x = Tail(s)[i]
      BY <1>1, <2>2 DEF ToSet
    <3>2. i + 1 \in 1 .. Len(s) /\ x = s[i + 1]
      BY <1>1, <3>1
    <3> QED
      BY <1>1, <3>2 DEF ToSet
  <2> QED
    BY <1>3, <2>1, <2>2
<1> QED
  BY <1>2, <1>3

\* Adding a link, with all that decides on it.
LEMMA LinkDecided ==
  ASSUME Types, AddLink
  PROVE  LET u == Head(pending)
             e == [url |-> u, depth |-> current.depth + 1] IN
         /\ pc = "linking" /\ pc' = "linking" /\ pending # <<>> /\ pending' = Tail(pending)
         /\ UNCHANGED <<links, robots, current, visited, expanded>>
         /\ u \in Urls /\ e.depth \in Nat
         /\ \/ /\ u \in UrlsInScope /\ u.path \notin robots /\ e \in Visit
               /\ Normalize(u) \notin seen
               /\ queue' = Append(queue, e) /\ seen' = seen \cup {Normalize(u)}
            \/ /\ \/ u \notin UrlsInScope \/ u.path \in robots \/ Normalize(u) \in seen
                  \/ e.depth > MaxDepth
               /\ UNCHANGED <<queue, seen>>
<1> DEFINE u == Head(pending)
           d == current.depth + 1
<1>1. /\ pc = "linking" /\ pc' = "linking" /\ pending # <<>> /\ pending' = Tail(pending)
      /\ UNCHANGED <<links, robots, current, visited, expanded>>
  BY DEF AddLink, siteVars, crawlHistory
<1>2. u \in Urls
  BY <1>1, HeadAndTail DEF Types
<1>3. d \in Nat
  BY FrontierAssumption DEF Types, Visit
<1>4. IF u.path \notin robots THEN Enqueue(u, d) ELSE UNCHANGED frontierVars
  BY DEF AddLink, Allowed
<1> HIDE DEF u, d
<1>5. /\ [url |-> u, depth |-> d].depth = d
      /\ d <= MaxDepth => [url |-> u, depth |-> d] \in Visit
      /\ u \in UrlsInScope <=> InScope(u)
  BY <1>2, <1>3, FrontierAssumption DEF Visit, UrlsInScope
<1>6. \/ /\ u \in UrlsInScope /\ u.path \notin robots /\ d <= MaxDepth /\ Normalize(u) \notin seen
         /\ queue' = Append(queue, [url |-> u, depth |-> d]) /\ seen' = seen \cup {Normalize(u)}
      \/ /\ u \notin UrlsInScope \/ u.path \in robots \/ Normalize(u) \in seen \/ ~(d <= MaxDepth)
         /\ UNCHANGED <<queue, seen>>
  BY <1>4, <1>5 DEF Enqueue, Admits, frontierVars
<1>7. ~(d <= MaxDepth) => d > MaxDepth
  BY <1>3, FrontierAssumption
<1> QED
  BY <1>1, <1>2, <1>3, <1>5, <1>6, <1>7 DEF u, d

\* What each kind of step does to the visits handed out and to the entries.
LEMMA VisitsKept ==
  ASSUME UNCHANGED <<queue, visited, current>>,
         pc \in {"fetching", "linking"} <=> pc' \in {"fetching", "linking"}
  PROVE  Walked' = Walked /\ Entries' = Entries
BY DEF Walked, Entries

LEMMA NothingWalked ==
  ASSUME visited = <<>>, pc = "idle" \/ pc = "ready"
  PROVE  Walked = {} /\ Entries = ToSet(queue)
BY SetOfEmpty DEF Walked, Entries

LEMMA TakeWalks ==
  ASSUME Types, TakeNext
  PROVE  /\ Walked' = Walked \cup {Head(queue)} /\ Entries' = Entries
         /\ UNCHANGED <<seen, links, robots, expanded, pending>>
         /\ pc = "ready" /\ pc' = "fetching" /\ current' = Head(queue)
<1>1. /\ queue # <<>> /\ seen' = seen /\ queue' = Tail(queue) /\ current' = Head(queue)
      /\ UNCHANGED <<visited, links, robots, expanded, pending>>
      /\ pc = "ready" /\ pc' = "fetching"
  BY TakeTakes DEF TakeNext, siteVars, crawlHistory
<1>2. ToSet(queue) = {Head(queue)} \cup ToSet(Tail(queue))
  BY <1>1, SetOfTail DEF Types
<1>3. Walked' = Walked \cup {Head(queue)}
  BY <1>1 DEF Walked
<1>4. Entries = ToSet(queue) \cup Walked /\ Entries' = ToSet(queue') \cup Walked'
  BY DEF Entries, Walked
<1> QED
  BY <1>1, <1>2, <1>3, <1>4

LEMMA VisitedWalks ==
  ASSUME Types, Visited
  PROVE  /\ Walked' = Walked /\ Entries' = Entries
         /\ UNCHANGED <<queue, seen, links, robots, expanded, pending, current>>
         /\ pc = "linking" /\ pc' = "ready" /\ pending = <<>>
<1>1. /\ UNCHANGED <<queue, seen, links, robots, expanded, pending, current>>
      /\ pc = "linking" /\ pc' = "ready" /\ pending = <<>> /\ visited' = Append(visited, current)
  BY DEF Visited, frontierVars, siteVars, crawlHistory
<1>2. ToSet(visited') = ToSet(visited) \cup {current}
  BY <1>1, SetOfAppended DEF Types
<1>3. Walked' = Walked
  BY <1>1, <1>2 DEF Walked
<1>4. Entries = ToSet(queue) \cup Walked /\ Entries' = ToSet(queue') \cup Walked'
  BY DEF Entries, Walked
<1> QED
  BY <1>1, <1>3, <1>4

LEMMA FetchedWalks ==
  ASSUME Fetched
  PROVE  /\ Walked' = Walked /\ Entries' = Entries
         /\ UNCHANGED <<queue, seen, links, robots, visited, current>>
         /\ pc = "fetching" /\ pc' = "linking"
         /\ \/ /\ pending' = links[PageOf(current)]
               /\ expanded' = expanded \cup {PageOf(current)}
            \/ pending' = <<>> /\ expanded' = expanded
<1>1. /\ UNCHANGED <<queue, seen, links, robots, visited, current>>
      /\ pc = "fetching" /\ pc' = "linking"
      /\ \/ /\ pending' = links[PageOf(current)]
            /\ expanded' = expanded \cup {PageOf(current)}
         \/ pending' = <<>> /\ expanded' = expanded
  BY DEF Fetched, siteVars, frontierVars, PageOf
<1> QED
  BY <1>1, VisitsKept

LEMMA RunWalks ==
  ASSUME BeginRun
  PROVE  /\ Walked' = {} /\ expanded' = {} /\ pending' = <<>> /\ pc' = "ready"
         /\ \/ /\ queue' = <<>> /\ Entries' = {} /\ seen' = {} /\ Reach({Seed}, robots') = {}
            \/ /\ queue' = <<Visit0>> /\ Entries' = {Visit0} /\ seen' = {Normalize(Seed)}
               /\ Reach({Seed}, robots') = {Normalize(Seed)}
<1>1. /\ visited' = <<>> /\ pending' = <<>> /\ pc' = "ready" /\ expanded' = {}
  BY DEF BeginRun
<1>2. /\ Walked' = {} /\ Entries' = ToSet(queue')
  BY <1>1, SetOfEmpty DEF Walked, Entries
<1>3. ToSet(<<Visit0>>) = {Visit0}
  BY DEF ToSet
<1>4. \/ queue' = <<>> /\ seen' = {} /\ (Seed.path \in robots' \/ ~InScope(Seed))
      \/ /\ queue' = <<Visit0>> /\ seen' = {Normalize(Seed)}
         /\ Seed.path \notin robots' /\ InScope(Seed)
  BY DEF BeginRun, Seeded, Visit0
<1>5. Seed \in UrlsInScope <=> InScope(Seed)
  BY CrawlAssumption DEF UrlsInScope
<1>6. CASE queue' = <<>> /\ seen' = {} /\ (Seed.path \in robots' \/ ~InScope(Seed))
  <2>1. Reach({Seed}, robots') = {}
    BY <1>5, <1>6 DEF Reach
  <2> QED
    BY <1>1, <1>2, <1>6, <2>1, SetOfEmpty
<1>7. CASE /\ queue' = <<Visit0>> /\ seen' = {Normalize(Seed)}
           /\ Seed.path \notin robots' /\ InScope(Seed)
  <2>1. Reach({Seed}, robots') = {Normalize(Seed)}
    BY <1>5, <1>7 DEF Reach
  <2> QED
    BY <1>1, <1>2, <1>3, <1>7, <2>1
<1> QED
  BY <1>4, <1>6, <1>7

LEMMA VisitFields ==
  ASSUME NEW e \in Visit
  PROVE  e.url \in Urls /\ PageOf(e) \in Pages /\ e.depth \in Nat /\ e.depth <= MaxDepth
BY FrontierAssumption, NormalizeIsPage DEF Visit, PageOf

LEMMA SetOfVisits ==
  ASSUME NEW S, NEW s \in Seq(S)
  PROVE  ToSet(s) \subseteq S /\ \A i \in DOMAIN s : s[i] \in S /\ s[i] \in ToSet(s)
BY DEF ToSet

LEMMA EntriesAreVisits ==
  ASSUME Types
  PROVE  /\ Walked \subseteq Visit /\ Entries \subseteq Visit /\ current \in Visit
         /\ \A i \in DOMAIN queue : queue[i] \in Visit
BY SetOfVisits, EntriesUnion DEF Types, Walked

LEMMA OrderedStep == FrontierInv /\ FrontierInv' /\ Ordered /\ [Next]_crawlVars => Ordered'
<1> SUFFICES ASSUME FrontierInv, FrontierInv', Ordered, [Next]_crawlVars PROVE Ordered'
  OBVIOUS
<1>t. Types /\ Types'
  BY DEF FrontierInv
<1>d. /\ \A i \in DOMAIN queue : queue[i].depth \in Nat
      /\ \A i \in DOMAIN queue' : queue'[i].depth \in Nat
      /\ current.depth \in Nat /\ current'.depth \in Nat
  <2>1. /\ current \in Visit /\ current' \in Visit
        /\ \A i \in DOMAIN queue : queue[i] \in Visit
        /\ \A i \in DOMAIN queue' : queue'[i] \in Visit
    BY <1>t, SetOfVisits DEF Types
  <2> QED
    BY <2>1, VisitFields
<1>1. ASSUME UNCHANGED <<queue, visited, current>>,
             pc \in {"fetching", "linking"} <=> pc' \in {"fetching", "linking"}
      PROVE  Ordered'
  BY <1>1, VisitsKept DEF Ordered
<1>2. CASE UNCHANGED crawlVars
  BY <1>1, <1>2 DEF crawlVars, frontierVars, runVars
<1>3. ASSUME NEW p \in Pages, Edit(p) PROVE Ordered'
  BY <1>1, <1>3 DEF Edit, frontierVars, runVars
<1>4. ASSUME NEW r \in Replies, Request(r) PROVE Ordered'
  BY <1>1, <1>4 DEF Request, frontierVars, runVars
<1>5. CASE EndRun
  BY <1>1, <1>5 DEF EndRun, frontierVars, runVars
<1>6. CASE Fetched
  BY <1>1, <1>6, FetchedWalks
<1>7. CASE BeginRun
  <2>1. /\ Walked' = {} /\ pc' = "ready"
        /\ queue' = <<>> \/ queue' = <<Visit0>>
    BY <1>7, RunWalks
  <2>2. DOMAIN <<>> = {} /\ DOMAIN <<Visit0>> = {1}
    OBVIOUS
  <2>3. \A i, k \in DOMAIN queue' : i = k
    BY <2>1, <2>2
  <2> QED
    BY <1>d, <2>1, <2>3 DEF Ordered
<1>8. CASE TakeNext
  <2>1. /\ Walked' = Walked \cup {Head(queue)} /\ pc' = "fetching" /\ current' = Head(queue)
        /\ queue # <<>> /\ queue' = Tail(queue)
    BY <1>t, <1>8, TakeWalks, TakeTakes
  <2>2. /\ Head(queue) = queue[1] /\ 1 \in DOMAIN queue
        /\ \A i \in DOMAIN queue' : /\ i \in Nat /\ i > 0 /\ i + 1 \in DOMAIN queue
                                    /\ queue'[i] = queue[i + 1]
    BY <1>t, <2>1, HeadAndTail DEF Types
  <2>3. \A i, k \in DOMAIN queue' : i <= k =>
          queue'[i].depth <= queue'[k].depth /\ queue'[k].depth <= queue'[i].depth + 1
    <3> SUFFICES ASSUME NEW i \in DOMAIN queue', NEW k \in DOMAIN queue', i <= k
                 PROVE  /\ queue'[i].depth <= queue'[k].depth
                        /\ queue'[k].depth <= queue'[i].depth + 1
      OBVIOUS
    <3>1. /\ i + 1 \in DOMAIN queue /\ k + 1 \in DOMAIN queue /\ i + 1 <= k + 1
          /\ queue'[i] = queue[i + 1] /\ queue'[k] = queue[k + 1]
      BY <2>2
    <3> QED
      BY <3>1 DEF Ordered
  <2>4. \A i \in DOMAIN queue' : /\ current'.depth <= queue'[i].depth
                                 /\ queue'[i].depth <= current'.depth + 1
    <3> SUFFICES ASSUME NEW i \in DOMAIN queue'
                 PROVE  /\ current'.depth <= queue'[i].depth
                        /\ queue'[i].depth <= current'.depth + 1
      OBVIOUS
    <3>1. i + 1 \in DOMAIN queue /\ 1 <= i + 1 /\ queue'[i] = queue[i + 1]
      BY <2>2
    <3> QED
      BY <2>1, <2>2, <3>1 DEF Ordered
  <2>5. \A e \in Walked : e.depth <= current'.depth
    BY <2>1, <2>2 DEF Ordered
  <2>6. \A e \in Walked' : e.depth <= current'.depth
    BY <1>d, <2>1, <2>5
  <2>7. \A e \in Walked : \A i \in DOMAIN queue' : e.depth <= queue'[i].depth
    BY <2>2 DEF Ordered
  <2>8. \A e \in Walked' : \A i \in DOMAIN queue' : e.depth <= queue'[i].depth
    BY <2>1, <2>4, <2>7
  <2> QED
    BY <2>3, <2>4, <2>6, <2>8 DEF Ordered
<1>9. CASE Visited
  <2>1. Walked' = Walked /\ pc' = "ready" /\ queue' = queue
    BY <1>t, <1>9, VisitedWalks
  <2> QED
    BY <2>1 DEF Ordered
<1>10. CASE AddLink
  <2> DEFINE e == [url |-> Head(pending), depth |-> current.depth + 1]
  <2>1. /\ pc = "linking" /\ pc' = "linking" /\ UNCHANGED <<current, visited>>
        /\ \/ e \in Visit /\ queue' = Append(queue, e)
           \/ UNCHANGED queue
    BY <1>t, <1>10, LinkDecided
  <2>2. e.depth = current.depth + 1
    OBVIOUS
  <2> HIDE DEF e
  <2>3. Walked' = Walked
    BY <2>1 DEF Walked
  <2>4. CASE UNCHANGED queue
    BY <2>1, <2>3, <2>4 DEF Ordered
  <2>5. CASE e \in Visit /\ queue' = Append(queue, e)
    <3> DEFINE len == Len(queue)
    <3>1. /\ len \in Nat /\ DOMAIN queue = 1 .. len /\ DOMAIN queue' = 1 .. len + 1
          /\ \A i \in 1 .. len : queue'[i] = queue[i]
          /\ queue'[len + 1] = e
      BY <1>t, <2>5, Appended DEF Types
    <3> HIDE DEF len
    <3>2. \A i \in DOMAIN queue' :
            (i \in DOMAIN queue /\ queue'[i] = queue[i] /\ i <= len) \/ (i = len + 1 /\ queue'[i] = e)
      <4> SUFFICES ASSUME NEW i \in DOMAIN queue'
                   PROVE  \/ i \in DOMAIN queue /\ queue'[i] = queue[i] /\ i <= len
                          \/ i = len + 1 /\ queue'[i] = e
        OBVIOUS
      <4>1. (i \in 1 .. len /\ i <= len) \/ i = len + 1
        BY <3>1
      <4> QED
        BY <3>1, <4>1
    <3>3. \A i \in DOMAIN queue : /\ current.depth <= queue[i].depth
                                  /\ queue[i].depth <= current.depth + 1
      BY <2>1 DEF Ordered, Walked
    <3>4. \A i, k \in DOMAIN queue' : i <= k =>
            queue'[i].depth <= queue'[k].depth /\ queue'[k].depth <= queue'[i].depth + 1
      <4> SUFFICES ASSUME NEW i \in DOMAIN queue', NEW k \in DOMAIN queue', i <= k
                   PROVE  /\ queue'[i].depth <= queue'[k].depth
                          /\ queue'[k].depth <= queue'[i].depth + 1
        OBVIOUS
      <4>1. CASE k = len + 1 /\ queue'[k] = e
        BY <1>d, <2>2, <3>2, <3>3, <4>1
      <4>2. CASE k \in DOMAIN queue /\ queue'[k] = queue[k] /\ k <= len
        <5>1. i \in DOMAIN queue /\ queue'[i] = queue[i]
          BY <3>1, <3>2, <4>2
        <5> QED
          BY <4>2, <5>1 DEF Ordered
      <4> QED
        BY <3>2, <4>1, <4>2
    <3>5. \A f \in Walked : f.depth <= current.depth
      BY <2>1 DEF Ordered
    <3>6. \A f \in Walked : \A i \in DOMAIN queue' : f.depth <= queue'[i].depth
      <4> SUFFICES ASSUME NEW f \in Walked, NEW i \in DOMAIN queue'
                   PROVE  f.depth <= queue'[i].depth
        OBVIOUS
      <4>1. CASE i \in DOMAIN queue /\ queue'[i] = queue[i]
        BY <4>1 DEF Ordered
      <4>2. CASE queue'[i] = e
        <5>1. f.depth \in Nat
          BY <1>t, EntriesAreVisits, VisitFields
        <5> QED
          BY <1>d, <2>2, <3>5, <4>2, <5>1
      <4> QED
        BY <3>2, <4>1, <4>2
    <3>7. \A i \in DOMAIN queue' : queue'[i].depth <= current.depth + 1
      BY <1>d, <2>2, <3>2, <3>3
    <3> QED
      BY <2>1, <2>3, <3>4, <3>5, <3>6, <3>7 DEF Ordered
  <2> QED
    BY <2>1, <2>4, <2>5
<1> QED
  BY <1>2, <1>3, <1>4, <1>5, <1>6, <1>7, <1>8, <1>9, <1>10 DEF Next, Step

LEMMA ReachSplit ==
  ASSUME NEW S, NEW s \in Seq(S), s # <<>>, NEW rs
  PROVE  /\ Reach(ToSet(Tail(s)), rs) \subseteq Reach(ToSet(s), rs)
         /\ \A x \in Reach(ToSet(s), rs) \ Reach(ToSet(Tail(s)), rs) :
              x = Normalize(Head(s)) /\ Head(s) \in UrlsInScope /\ Head(s).path \notin rs
         /\ ToSet(Tail(s)) \subseteq ToSet(s) /\ Head(s) \in ToSet(s)
BY SetOfTail DEF Reach

LEMMA TreeStep == FrontierInv /\ FrontierInv' /\ Ordered /\ Tree /\ [Next]_crawlVars => Tree'
<1> SUFFICES ASSUME FrontierInv, FrontierInv', Ordered, Tree, [Next]_crawlVars PROVE Tree'
  OBVIOUS
<1>t. Types /\ Types'
  BY DEF FrontierInv
<1>1. ASSUME UNCHANGED <<queue, visited, current, seen, links, robots, expanded, pending>>,
             pc' = pc \/ (pc = "ready" /\ pc' = "idle")
      PROVE  Tree'
  <2>1. Walked' = Walked /\ Entries' = Entries
    BY <1>1, VisitsKept
  <2>2. Awaited' = Awaited
    BY <1>1 DEF Awaited
  <2> QED
    BY <1>1, <2>1, <2>2 DEF Tree
<1>2. CASE UNCHANGED crawlVars
  BY <1>1, <1>2 DEF crawlVars, frontierVars, runVars, siteVars, crawlHistory
<1>3. ASSUME NEW p \in Pages, Edit(p) PROVE Tree'
  BY <1>1, <1>3 DEF Edit, frontierVars, runVars, crawlHistory
<1>4. ASSUME NEW r \in Replies, Request(r) PROVE Tree'
  BY <1>1, <1>4 DEF Request, frontierVars, runVars, siteVars
<1>5. CASE EndRun
  BY <1>1, <1>5 DEF EndRun, frontierVars, runVars, siteVars, crawlHistory
<1>6. CASE TakeNext
  <2>1. /\ Walked' = Walked \cup {Head(queue)} /\ Entries' = Entries
        /\ UNCHANGED <<seen, links, robots, expanded, pending>>
        /\ pc = "ready" /\ pc' = "fetching"
    BY <1>t, <1>6, TakeWalks
  <2>2. Awaited' = {} /\ Awaited = {}
    BY <2>1 DEF Awaited
  <2> QED
    BY <2>1, <2>2 DEF Tree
<1>7. CASE Visited
  <2>1. /\ Walked' = Walked /\ Entries' = Entries
        /\ UNCHANGED <<seen, links, robots, expanded, pending, current>>
        /\ pc = "linking" /\ pc' = "ready" /\ pending = <<>>
    BY <1>t, <1>7, VisitedWalks
  <2>2. Awaited' = {} /\ Awaited = {}
    BY <2>1, SetOfEmpty DEF Awaited, Reach
  <2> QED
    BY <2>1, <2>2 DEF Tree
<1>8. CASE Fetched
  <2>1. /\ Walked' = Walked /\ Entries' = Entries
        /\ UNCHANGED <<seen, links, robots, current>>
        /\ pc = "fetching" /\ pc' = "linking"
        /\ \/ /\ pending' = links[PageOf(current)]
              /\ expanded' = expanded \cup {PageOf(current)}
           \/ pending' = <<>> /\ expanded' = expanded
    BY <1>8, FetchedWalks
  <2>2. current \in Walked /\ current \in Entries
    BY <2>1 DEF Walked, Entries
  <2>3. Awaited = {} /\ Awaited' = Reach(ToSet(pending'), robots)
    BY <2>1 DEF Awaited
  <2>4. expanded' \subseteq {PageOf(e) : e \in Walked'}
    BY <2>1, <2>2 DEF Tree
  <2>5. ASSUME NEW e \in Entries', PageOf(e) \in expanded', e.depth < MaxDepth
        PROVE  Reach(ToSet(links'[PageOf(e)]), robots') \subseteq
                 UpTo(e.depth + 1, Entries') \cup IF e = current' THEN Awaited' ELSE {}
    <3>1. CASE PageOf(e) \in expanded
      BY <2>1, <2>3, <2>5, <3>1 DEF Tree
    <3>2. CASE PageOf(e) \notin expanded
      <4>1. PageOf(e) = PageOf(current) /\ pending' = links[PageOf(current)]
        BY <2>1, <2>5, <3>2
      <4>2. e = current
        BY <2>1, <2>2, <4>1 DEF Tree
      <4> QED
        BY <2>1, <2>3, <4>1, <4>2
    <3> QED
      BY <3>1, <3>2
  <2>6. \A e \in Entries' : e.depth > 0 => \E f \in Entries' :
          /\ f.depth + 1 = e.depth
          /\ PageOf(f) \in expanded' /\ PageOf(e) \in Reach(ToSet(links'[PageOf(f)]), robots')
    BY <2>1 DEF Tree
  <2>7. pending' # <<>> => /\ PageOf(current') \in expanded'
                           /\ ToSet(pending') \subseteq ToSet(links'[PageOf(current')])
    BY <2>1
  <2> QED
    BY <2>1, <2>4, <2>5, <2>6, <2>7 DEF Tree
<1>9. CASE BeginRun
  <2>1. Walked' = {} /\ expanded' = {} /\ pending' = <<>> /\ pc' = "ready"
    BY <1>9, RunWalks
  <2>2. UpTo(0, {}) = {}
    BY DEF UpTo
  <2>3. CASE Entries' = {} /\ seen' = {} /\ Reach({Seed}, robots') = {}
    BY <2>1, <2>2, <2>3 DEF Tree
  <2>4. CASE /\ Entries' = {Visit0} /\ seen' = {Normalize(Seed)}
             /\ Reach({Seed}, robots') = {Normalize(Seed)}
    <3>1. PageOf(Visit0) = Normalize(Seed) /\ Visit0.depth = 0
      BY DEF PageOf, Visit0
    <3>2. UpTo(0, {Visit0}) = {Normalize(Seed)}
      BY <3>1 DEF UpTo
    <3>3. \A e \in Entries' : e = Visit0 /\ ~(e.depth > 0)
      BY <2>4, <3>1
    <3>4. seen' = {PageOf(e) : e \in Entries'} /\ UpTo(0, Entries') = Reach({Seed}, robots')
      BY <2>4, <3>1, <3>2
    <3> QED
      BY <2>1, <3>3, <3>4 DEF Tree
  <2> QED
    BY <1>9, <2>3, <2>4, RunWalks
<1>10. CASE AddLink
  <2> DEFINE u == Head(pending)
             c == current.depth
             e == [url |-> u, depth |-> c + 1]
  <2>1. /\ pc = "linking" /\ pc' = "linking" /\ pending # <<>> /\ pending' = Tail(pending)
        /\ UNCHANGED <<links, robots, current, visited, expanded>>
        /\ u \in Urls
        /\ \/ /\ u \in UrlsInScope /\ u.path \notin robots /\ e \in Visit
              /\ Normalize(u) \notin seen
              /\ queue' = Append(queue, e) /\ seen' = seen \cup {Normalize(u)}
           \/ /\ \/ u \notin UrlsInScope \/ u.path \in robots \/ Normalize(u) \in seen
                 \/ c + 1 > MaxDepth
              /\ UNCHANGED <<queue, seen>>
    BY <1>t, <1>10, LinkDecided
  <2>2. e.depth = c + 1 /\ PageOf(e) = Normalize(u)
    BY DEF PageOf
  <2>3. c \in Nat /\ current \in Walked /\ current \in Entries
    BY <1>t, <2>1, VisitFields, EntriesAreVisits DEF Walked, Entries
  <2>4. /\ ToSet(pending') \subseteq ToSet(pending) /\ u \in ToSet(pending)
        /\ Awaited' \subseteq Awaited
        /\ \A x \in Awaited \ Awaited' :
             x = Normalize(u) /\ u \in UrlsInScope /\ u.path \notin robots
    <3>1. Awaited = Reach(ToSet(pending), robots) /\ Awaited' = Reach(ToSet(Tail(pending)), robots)
      BY <2>1 DEF Awaited
    <3> QED
      BY <1>t, <2>1, <3>1, ReachSplit DEF Types
  <2>5. PageOf(current) \in expanded /\ ToSet(pending) \subseteq ToSet(links[PageOf(current)])
    BY <2>1 DEF Tree
  <2>6. Walked' = Walked
    BY <2>1 DEF Walked
  <2> HIDE DEF e, c, u
  <2>7. CASE /\ u \in UrlsInScope /\ u.path \notin robots /\ e \in Visit
             /\ Normalize(u) \notin seen
             /\ queue' = Append(queue, e) /\ seen' = seen \cup {Normalize(u)}
    <3>1. Entries' = Entries \cup {e}
      <4>1. ToSet(queue') = ToSet(queue) \cup {e}
        BY <1>t, <2>7, SetOfAppended DEF Types
      <4>2. Entries = ToSet(queue) \cup Walked /\ Entries' = ToSet(queue') \cup Walked'
        BY DEF Entries, Walked
      <4> QED
        BY <2>6, <4>1, <4>2
    <3>2. \A f \in Entries : PageOf(f) # PageOf(e)
      BY <2>2, <2>7 DEF Tree
    <3>3. \A f, g \in Entries' : PageOf(f) = PageOf(g) => f = g
      BY <3>1, <3>2 DEF Tree
    <3>4. seen' = {PageOf(f) : f \in Entries'}
      BY <2>2, <2>7, <3>1 DEF Tree
    <3>5. UpTo(0, Entries') = UpTo(0, Entries)
      BY <2>2, <2>3, <3>1 DEF UpTo
    <3>6. PageOf(e) \in Reach(ToSet(links[PageOf(current)]), robots)
      BY <2>2, <2>4, <2>5, <2>7 DEF Reach, UrlsInScope
    <3>7. ASSUME NEW f \in Entries', f.depth > 0
          PROVE  \E g \in Entries' :
                   /\ g.depth + 1 = f.depth
                   /\ PageOf(g) \in expanded' /\ PageOf(f) \in Reach(ToSet(links'[PageOf(g)]), robots')
      <4>1. CASE f = e
        <5>1. current \in Entries' /\ current.depth + 1 = f.depth
          BY <2>2, <2>3, <3>1, <4>1 DEF c
        <5> QED
          BY <2>1, <2>5, <3>6, <4>1, <5>1
      <4>2. CASE f \in Entries
        BY <2>1, <3>1, <3>7, <4>2 DEF Tree
      <4> QED
        BY <3>1, <4>1, <4>2
    <3>8. ASSUME NEW f \in Entries', PageOf(f) \in expanded', f.depth < MaxDepth
          PROVE  Reach(ToSet(links'[PageOf(f)]), robots') \subseteq
                   UpTo(f.depth + 1, Entries') \cup IF f = current' THEN Awaited' ELSE {}
      <4>1. f \in Entries
        <5>1. PageOf(f) \in seen
          BY <2>1, <3>8, EntriesUnion DEF Tree
        <5> QED
          BY <2>2, <2>7, <3>1, <5>1
      <4>2. Reach(ToSet(links[PageOf(f)]), robots) \subseteq
              UpTo(f.depth + 1, Entries) \cup IF f = current THEN Awaited ELSE {}
        BY <2>1, <3>8, <4>1 DEF Tree
      <4>3. UpTo(f.depth + 1, Entries) \subseteq UpTo(f.depth + 1, Entries')
        BY <3>1 DEF UpTo
      <4>4. f = current => Normalize(u) \in UpTo(f.depth + 1, Entries')
        <5>1. e \in Entries' /\ e.depth <= c + 1
          BY <2>2, <2>3, <3>1
        <5> QED
          BY <2>2, <5>1 DEF UpTo, c
      <4> QED
        BY <2>1, <2>4, <4>2, <4>3, <4>4
    <3>9. expanded' \subseteq {PageOf(f) : f \in Walked'}
      BY <2>1, <2>6 DEF Tree
    <3> QED
      BY <2>1, <2>4, <2>5, <3>3, <3>4, <3>5, <3>7, <3>8, <3>9 DEF Tree
  <2>8. CASE /\ \/ u \notin UrlsInScope \/ u.path \in robots \/ Normalize(u) \in seen
                \/ c + 1 > MaxDepth
             /\ UNCHANGED <<queue, seen>>
    <3>1. Entries' = Entries
      BY <2>1, <2>8 DEF Entries
    <3>2. ASSUME NEW f \in Entries, PageOf(f) \in expanded, f.depth < MaxDepth
          PROVE  Reach(ToSet(links[PageOf(f)]), robots) \subseteq
                   UpTo(f.depth + 1, Entries) \cup IF f = current THEN Awaited' ELSE {}
      <4>1. Reach(ToSet(links[PageOf(f)]), robots) \subseteq
              UpTo(f.depth + 1, Entries) \cup IF f = current THEN Awaited ELSE {}
        BY <3>2 DEF Tree
      <4>2. ASSUME f = current, NEW x \in Awaited \ Awaited'
            PROVE  x \in UpTo(f.depth + 1, Entries)
        <5>1. x = Normalize(u) /\ Normalize(u) \in seen
          BY <2>3, <2>4, <2>8, <3>2, <4>2, FrontierAssumption DEF c
        <5>2. PICK h \in Entries : PageOf(h) = x
          BY <5>1 DEF Tree
        <5>3. h.depth <= c + 1
          <6>1. CASE h \in Walked
            <7>1. h.depth <= c
              BY <2>1, <6>1 DEF Ordered, c
            <7>2. h.depth \in Nat
              BY <1>t, <6>1, EntriesAreVisits, VisitFields
            <7> QED
              BY <2>3, <7>1, <7>2
          <6>2. CASE h \in ToSet(queue)
            BY <2>1, <6>2 DEF Ordered, c, ToSet
          <6> QED
            BY <6>1, <6>2, EntriesUnion
        <5> QED
          BY <4>2, <5>2, <5>3 DEF UpTo, c
      <4> QED
        BY <4>1, <4>2
    <3> QED
      BY <2>1, <2>4, <2>5, <2>6, <2>8, <3>1, <3>2 DEF Tree
  <2> QED
    BY <2>1, <2>7, <2>8
<1> QED
  BY <1>2, <1>3, <1>4, <1>5, <1>6, <1>7, <1>8, <1>9, <1>10 DEF Next, Step

\* The pages a run has reached, down to depth d.
Reached(d) == UpTo(d, Entries) \cup IF d > current.depth THEN Awaited ELSE {}

Further(us) == us \cup Reach(UNION {ToSet(links[p]) : p \in expanded \cap us}, robots)

LEMMA OpenIsReach == \A us : Open(us) = Reach(us, robots)
BY DEF Open, Reach, Allowed

\* What the recursive definition of Within says, if anything satisfies it.
LEMMA WithinEquation ==
  ASSUME NEW f, f = [d \in 0 .. MaxDepth |->
                       IF d = 0 THEN Reach({Seed}, robots) ELSE Further(f[d - 1])]
  PROVE  Within = [d \in 0 .. MaxDepth |->
                     IF d = 0 THEN Reach({Seed}, robots) ELSE Further(Within[d - 1])]
<1> DEFINE Law(g) == g = [d \in 0 .. MaxDepth |->
                            IF d = 0 THEN Open({Seed})
                            ELSE LET nearer == g[d - 1] IN
                                 nearer \cup Open(UNION {ToSet(links[p]) : p \in expanded \cap nearer})]
<1>1. Within = CHOOSE g : Law(g)
  BY DEF Within
<1>2. \A g : Law(g) <=> g = [d \in 0 .. MaxDepth |->
                               IF d = 0 THEN Reach({Seed}, robots) ELSE Further(g[d - 1])]
  BY OpenIsReach DEF Further
<1> HIDE DEF Law
<1>3. Law(f)
  BY <1>2
<1>4. Law(Within)
  BY <1>1, <1>3
<1> QED
  BY <1>2, <1>4

LEMMA ReachOfUnion ==
  ASSUME NEW p, NEW ps, p \in expanded \cap ps
  PROVE  Reach(ToSet(links[p]), robots) \subseteq Further(ps)
BY DEF Reach, Further

LEMMA ReachMonotone ==
  ASSUME NEW us, NEW vs, us \subseteq vs, NEW rs PROVE Reach(us, rs) \subseteq Reach(vs, rs)
BY DEF Reach

LEMMA FurtherCases ==
  ASSUME NEW ps, NEW x \in Further(ps)
  PROVE  x \in ps \/ \E p \in expanded \cap ps : x \in Reach(ToSet(links[p]), robots)
BY DEF Reach, Further

\* A step of the distance: in every state of a run, what has been reached and is
\* awaited is closed under it.
LEMMA ReachedStep ==
  ASSUME FrontierInv, Ordered, Tree, NEW d \in 1 .. MaxDepth
  PROVE  Reached(d) = Further(Reached(d - 1))
<1>t. /\ d \in Nat /\ d - 1 \in Nat /\ d <= MaxDepth /\ MaxDepth \in Nat
      /\ current.depth \in Nat /\ Types
      /\ \A e \in Entries : e \in Visit /\ e.depth \in Nat
  BY FrontierAssumption, EntriesAreVisits, VisitFields DEF FrontierInv
<1>1. UpTo(d - 1, Entries) \subseteq UpTo(d, Entries)
  BY <1>t DEF UpTo
<1>2. Reached(d - 1) \subseteq Reached(d)
  BY <1>t, <1>1 DEF Reached
<1>3. ASSUME NEW p \in expanded \cap Reached(d - 1)
      PROVE  Reach(ToSet(links[p]), robots) \subseteq Reached(d)
  <2>1. PICK e \in Walked : PageOf(e) = p
    BY DEF Tree
  <2>2. e \in Entries
    BY EntriesUnion
  <2>3. e.depth <= d - 1
    <3>1. CASE p \in UpTo(d - 1, Entries)
      <4>1. PICK f \in Entries : f.depth <= d - 1 /\ PageOf(f) = p
        BY <3>1 DEF UpTo
      <4> QED
        BY <2>1, <2>2, <4>1 DEF Tree
    <3>2. CASE p \in Awaited /\ d - 1 > current.depth
      <4>1. e.depth <= current.depth
        BY <3>2 DEF Ordered, Awaited
      <4> QED
        BY <1>t, <2>2, <3>2, <4>1
    <3> QED
      BY <3>1, <3>2 DEF Reached
  <2>4. Reach(ToSet(links[p]), robots) \subseteq
          UpTo(e.depth + 1, Entries) \cup IF e = current THEN Awaited ELSE {}
    <3>1. e.depth < MaxDepth
      BY <1>t, <2>2, <2>3
    <3> QED
      BY <2>1, <2>2, <3>1 DEF Tree
  <2>5. UpTo(e.depth + 1, Entries) \subseteq UpTo(d, Entries)
    BY <1>t, <2>2, <2>3 DEF UpTo
  <2>6. e = current => d > current.depth
    BY <1>t, <2>3
  <2> QED
    BY <2>4, <2>5, <2>6 DEF Reached
<1>4. Further(Reached(d - 1)) \subseteq Reached(d)
  BY <1>2, <1>3, FurtherCases
<1>5. ASSUME NEW x \in Reached(d) PROVE x \in Further(Reached(d - 1))
  <2>1. Reached(d - 1) \subseteq Further(Reached(d - 1))
    BY DEF Further
  <2>2. CASE x \in UpTo(d, Entries)
    <3>1. PICK e \in Entries : e.depth <= d /\ x = PageOf(e)
      BY <2>2 DEF UpTo
    <3>2. CASE e.depth <= d - 1
      BY <2>1, <3>1, <3>2 DEF UpTo, Reached
    <3>3. CASE ~(e.depth <= d - 1)
      <4>1. e.depth = d /\ e.depth > 0
        BY <1>t, <3>1, <3>3
      <4>2. PICK f \in Entries : /\ f.depth + 1 = e.depth /\ PageOf(f) \in expanded
                                 /\ PageOf(e) \in Reach(ToSet(links[PageOf(f)]), robots)
        BY <4>1 DEF Tree
      <4>3. PageOf(f) \in Reached(d - 1)
        BY <1>t, <4>1, <4>2 DEF UpTo, Reached
      <4> QED
        BY <3>1, <4>2, <4>3, ReachOfUnion
    <3> QED
      BY <3>2, <3>3
  <2>3. CASE x \in Awaited /\ d > current.depth
    <3>1. CASE d - 1 > current.depth
      BY <2>1, <2>3, <3>1 DEF Reached
    <3>2. CASE ~(d - 1 > current.depth)
      <4>1. current.depth = d - 1
        BY <1>t, <2>3, <3>2
      <4>2. pc = "linking" /\ x \in Reach(ToSet(pending), robots)
        BY <2>3 DEF Awaited
      <4>3. pending # <<>>
        BY <4>2, SetOfEmpty DEF Reach
      <4>4. PageOf(current) \in expanded /\ x \in Reach(ToSet(links[PageOf(current)]), robots)
        BY <4>2, <4>3, ReachMonotone DEF Tree
      <4>5. PageOf(current) \in Reached(d - 1)
        <5>1. current \in Entries /\ current.depth <= d - 1
          BY <1>t, <4>1, <4>2 DEF Entries
        <5> QED
          BY <5>1 DEF UpTo, Reached
      <4> QED
        BY <4>4, <4>5, ReachOfUnion
    <3> QED
      BY <3>1, <3>2
  <2> QED
    BY <2>2, <2>3 DEF Reached
<1> QED
  BY <1>4, <1>5

\* So it is the distance from the seed.
LEMMA WithinIsReached ==
  ASSUME FrontierInv, Ordered, Tree, UpTo(0, Entries) = Reach({Seed}, robots)
  PROVE  \A d \in 0 .. MaxDepth : Within[d] = Reached(d)
<1> DEFINE f == [d \in 0 .. MaxDepth |-> Reached(d)]
<1>1. Reached(0) = Reach({Seed}, robots)
  <2>1. current.depth \in Nat
    BY EntriesAreVisits, VisitFields DEF FrontierInv
  <2> QED
    BY <2>1 DEF Reached
<1>2. f = [d \in 0 .. MaxDepth |->
             IF d = 0 THEN Reach({Seed}, robots) ELSE Further(f[d - 1])]
  <2>1. ASSUME NEW d \in 0 .. MaxDepth, d # 0 PROVE Reached(d) = Further(f[d - 1])
    <3>1. d \in 1 .. MaxDepth /\ d - 1 \in 0 .. MaxDepth
      BY <2>1, FrontierAssumption
    <3> QED
      BY <3>1, ReachedStep
  <2> QED
    BY <1>1, <2>1
<1>3. Within = [d \in 0 .. MaxDepth |->
                  IF d = 0 THEN Reach({Seed}, robots) ELSE Further(Within[d - 1])]
  <2> HIDE DEF f
  <2> QED
    BY <1>2, WithinEquation
<1> DEFINE S == {d \in Nat : d <= MaxDepth => Within[d] = Reached(d)}
<1>4. 0 \in S
  <2>1. 0 \in 0 .. MaxDepth
    BY FrontierAssumption
  <2> QED
    BY <1>1, <1>3, <2>1
<1>5. ASSUME NEW d \in Nat, d \in S PROVE d + 1 \in S
  <2> SUFFICES ASSUME d + 1 <= MaxDepth PROVE Within[d + 1] = Reached(d + 1)
    OBVIOUS
  <2>1. d + 1 \in 0 .. MaxDepth /\ d + 1 \in 1 .. MaxDepth /\ d + 1 # 0 /\ (d + 1) - 1 = d /\ d <= MaxDepth
    BY FrontierAssumption
  <2>2. Within[d + 1] = Further(Within[d])
    BY <1>3, <2>1
  <2>3. Within[d] = Reached(d)
    BY <1>5, <2>1
  <2> QED
    BY <2>1, <2>2, <2>3, ReachedStep
<1> HIDE DEF S
<1>6. Nat \subseteq S
  BY <1>4, <1>5, SetInduction
<1> QED
  BY <1>6, FrontierAssumption DEF S

-----------------------------------------------------------------------------

LEMMA TreeInit == Init => Ordered /\ Tree
<1> SUFFICES ASSUME Init PROVE Ordered /\ Tree
  OBVIOUS
<1>1. queue = <<>> /\ seen = {} /\ visited = <<>> /\ expanded = {} /\ pc = "idle"
  BY DEF Init, NoFrontier
<1>2. Walked = {} /\ Entries = {} /\ DOMAIN queue = {}
  BY <1>1, NothingWalked, SetOfEmpty
<1> QED
  BY <1>1, <1>2 DEF Ordered, Tree

\* crawl.rs, Frontier: the queue is handed out by depth, and the links read so
\* far make a tree of shortest ways from the seed.
THEOREM BreadthFirst == Spec => [](Ordered /\ Tree)
<1>1. FrontierInv /\ FrontierInv' /\ (Ordered /\ Tree) /\ [Next]_crawlVars => (Ordered /\ Tree)'
  BY OrderedStep, TreeStep
<1> QED
  BY <1>1, TreeInit, FrontierInvariant, PTL DEF Spec

\* The depth that a page was enqueued with is its distance from the seed.
LEMMA DepthsAreDistances == FrontierInv /\ Ordered /\ Tree => DepthIsDistance
<1> SUFFICES ASSUME FrontierInv, Ordered, Tree, NEW e \in Entries
             PROVE  /\ Normalize(e.url) \in Within[e.depth]
                    /\ e.depth > 0 => Normalize(e.url) \notin Within[e.depth - 1]
  BY DEF DepthIsDistance
<1>t. /\ e.depth \in Nat /\ e.depth <= MaxDepth /\ MaxDepth \in Nat /\ current.depth \in Nat
      /\ \A f \in Entries : f.depth \in Nat
  BY EntriesAreVisits, VisitFields, FrontierAssumption DEF FrontierInv
<1>1. \A d \in 0 .. MaxDepth : Within[d] = Reached(d)
  BY WithinIsReached DEF Tree
<1>2. PageOf(e) \in Reached(e.depth)
  BY <1>t DEF Reached, UpTo
<1>3. ASSUME e.depth > 0, PageOf(e) \in Reached(e.depth - 1) PROVE FALSE
  <2>1. CASE PageOf(e) \in UpTo(e.depth - 1, Entries)
    <3>1. PICK f \in Entries : f.depth <= e.depth - 1 /\ PageOf(f) = PageOf(e)
      BY <2>1 DEF UpTo
    <3>2. f = e
      BY <3>1 DEF Tree
    <3> QED
      BY <1>t, <3>1, <3>2
  <2>2. CASE pc = "linking" /\ e.depth - 1 > current.depth
    <3>1. CASE e \in Walked
      <4>1. e.depth <= current.depth
        BY <2>2, <3>1 DEF Ordered
      <4> QED
        BY <1>t, <2>2, <4>1
    <3>2. CASE e \in ToSet(queue)
      <4>1. e.depth <= current.depth + 1
        BY <2>2, <3>2 DEF Ordered, ToSet
      <4> QED
        BY <1>t, <2>2, <4>1
    <3> QED
      BY <3>1, <3>2, EntriesUnion
  <2> QED
    BY <1>3, <2>1, <2>2 DEF Reached, Awaited
<1>4. e.depth \in 0 .. MaxDepth /\ (e.depth > 0 => e.depth - 1 \in 0 .. MaxDepth)
  BY <1>t
<1> QED
  BY <1>1, <1>2, <1>3, <1>4 DEF PageOf

\* crawl.rs: a run that ends with an empty queue has visited the pages within
\* max_depth of the seed, all of them and no others, whatever the order of links
\* and their cycles; each fetch that failed hides only what it alone links to.
THEOREM CrawlReachesAll == Spec => []ReachesAll
<1>1. FrontierInv /\ Ordered /\ Tree => ReachesAll
  <2> SUFFICES ASSUME FrontierInv, Ordered, Tree, pc = "ready", queue = <<>>
               PROVE  {Normalize(visited[i].url) : i \in DOMAIN visited} = Within[MaxDepth]
    BY DEF ReachesAll
  <2>1. Entries = ToSet(visited)
    BY SetOfEmpty DEF Entries
  <2>2. \A e \in Entries : e.depth <= MaxDepth
    BY EntriesAreVisits, VisitFields DEF FrontierInv
  <2>3. Within[MaxDepth] = Reached(MaxDepth)
    <3>1. MaxDepth \in 0 .. MaxDepth
      BY FrontierAssumption
    <3> QED
      BY <3>1, WithinIsReached DEF Tree
  <2>4. Reached(MaxDepth) = {PageOf(e) : e \in ToSet(visited)}
    BY <2>1, <2>2 DEF Reached, UpTo, Awaited
  <2> QED
    BY <2>3, <2>4 DEF ToSet, PageOf
<1> QED
  BY <1>1, FrontierInvariant, BreadthFirst, PTL

-----------------------------------------------------------------------------
\* Fetches.

LEMMA PowerEquation ==
  /\ PowerOf2[0] = 1
  /\ \A n \in Nat : PowerOf2[n] \in Nat /\ PowerOf2[n + 1] = 2 * PowerOf2[n]
<1>1. PowerOf2 = CHOOSE g : Doubling(g)
  BY DEF PowerOf2, Doubling
<1>2. Doubling(PowerOf2)
  BY <1>1, DoublingExists
<1> QED
  BY <1>2, DoublingValues

LEMMA FetchOnceType ==
  ASSUME NEW r \in Replies, NEW budget
  PROVE  FetchOnce(r, budget).ok \in BOOLEAN
<1>1. /\ \A e : Failed(e).ok \in BOOLEAN /\ FailedStatus(e).ok \in BOOLEAN
      /\ Page(r).ok \in BOOLEAN
  BY DEF Failed, FailedStatus, Page
<1>2. /\ r.kind \in {"answer", "transport", "timeout"}
      /\ r.hops > MaxRedirects \/ r.hops <= MaxRedirects
      /\ r.code >= 400 \/ r.code < 400
  BY HttpAssumption
<1> QED
  BY <1>1, <1>2 DEF FetchOnce

\* What the fetch of a crawl comes to, the rules it goes by, and its budget.
RestTypes ==
  /\ fetched.ok \in BOOLEAN /\ backoff \in Nat
  /\ rules \subseteq {u.path : u \in Urls} /\ robots \subseteq {u.path : u \in Urls}
  /\ dispatched \in 0 .. MaxPages

LEMMA RestTypesInit == Init => RestTypes
<1> SUFFICES ASSUME Init PROVE RestTypes
  OBVIOUS
<1>1. PICK s \in Sites : rules = s.rules
  BY DEF Init
<1>2. rules \subseteq {u.path : u \in Urls}
  BY <1>1, CrawlAssumption
<1>3. robots = {} /\ dispatched = 0 /\ fetched.ok = FALSE /\ backoff = 0
  BY DEF Init, NoFrontier, HttpInit, Unfetched, Failed
<1>4. dispatched \in 0 .. MaxPages /\ backoff \in Nat
  BY <1>3, FrontierAssumption
<1>5. fetched.ok \in BOOLEAN /\ robots \subseteq {u.path : u \in Urls}
  BY <1>3
<1> QED
  BY <1>2, <1>4, <1>5 DEF RestTypes

LEMMA RestTypesStep == Spent /\ RestTypes /\ [Next]_crawlVars => RestTypes'
<1> SUFFICES ASSUME Spent, RestTypes, [Next]_crawlVars PROVE RestTypes'
  OBVIOUS
<1>1. ASSUME UNCHANGED <<fetched, backoff, rules, robots, dispatched>> PROVE RestTypes'
  BY <1>1 DEF RestTypes
<1>2. CASE UNCHANGED crawlVars
  BY <1>1, <1>2 DEF crawlVars, httpVars, siteVars, runVars, frontierVars
<1>3. ASSUME NEW p \in Pages, Edit(p) PROVE RestTypes'
  BY <1>1, <1>3 DEF Edit, httpVars, runVars, frontierVars
<1>4. CASE Fetched \/ AddLink \/ Visited \/ EndRun
  BY <1>1, <1>4 DEF Fetched, AddLink, Enqueue, Visited, EndRun, httpVars, siteVars, runVars, frontierVars
<1>5. ASSUME NEW r \in Replies, Request(r) PROVE RestTypes'
  <2>1. /\ UNCHANGED <<rules, robots, dispatched>>
        /\ attempt > 0 /\ fetched' = FetchOnce(r, ByteCeiling)
        /\ backoff' = backoff \/ backoff' = backoff + PowerOf2[attempt - 1]
    BY <1>5 DEF Request, Attempt, BackoffDelay, siteVars, runVars, frontierVars
  <2>2. attempt - 1 \in Nat
    BY <2>1, HttpAssumption DEF Spent
  <2>3. backoff' \in Nat
    BY <2>1, <2>2, PowerEquation DEF RestTypes
  <2> QED
    BY <2>1, <2>3, FetchOnceType DEF RestTypes
<1>6. CASE TakeNext
  <2>1. /\ UNCHANGED <<rules, robots>> /\ backoff' = 0 /\ fetched' = Unfetched
        /\ dispatched < MaxPages /\ dispatched' = dispatched + 1
    BY <1>6 DEF TakeNext, BeginFetch, NextUrl, HasNext, siteVars
  <2> QED
    BY <2>1, FrontierAssumption DEF RestTypes, Unfetched, Failed
<1>7. CASE BeginRun
  <2>1. UNCHANGED <<fetched, backoff, rules>> /\ robots' \in {rules, {}}
    BY <1>7 DEF BeginRun, httpVars, siteVars
  <2> QED
    BY <1>7, <2>1, RunBegins, FrontierAssumption DEF RestTypes
<1> QED
  BY <1>2, <1>3, <1>4, <1>5, <1>6, <1>7 DEF Next, Step

\* crawl.rs and http.rs: the frontier is what it was asked for.  A page is
\* visited at its distance from the seed, so max_depth cuts off no page that is
\* within it, and the budgets on depth, pages and requests hold.
THEOREM FrontierIsExact == Spec => []FrontierExact
<1>1. FrontierInv /\ Ordered /\ Tree /\ Spent /\ CacheKnows /\ RestTypes => TypeOK
  <2> SUFFICES ASSUME FrontierInv, Tree, Spent, CacheKnows, RestTypes PROVE TypeOK
    OBVIOUS
  <2>1. expanded \subseteq Pages
    BY EntriesAreVisits, VisitFields DEF FrontierInv, Tree
  <2>2. HttpTypeOK
    BY DEF HttpTypeOK, Spent, RestTypes
  <2> QED
    BY <2>1, <2>2 DEF TypeOK, FrontierInv, Types, Spent, CacheKnows, RestTypes
<1>2. Spent => RequestsBounded
  BY HttpAssumption DEF Spent, Remaining, RequestsBounded
<1>3. FrontierInv /\ Ordered /\ Tree /\ Spent /\ CacheKnows /\ RestTypes => FrontierExact
  BY <1>1, <1>2, DepthsAreDistances DEF FrontierExact
<1> QED
  BY <1>3, FrontierInvariant, BreadthFirst, SpentInit, SpentStep, CacheInit, CacheStep,
     RestTypesInit, RestTypesStep, PTL DEF Spec

-----------------------------------------------------------------------------
\* robots.txt.  A file is any sequence of lines: texts are sequences over C, and the value of a Crawl-delay or of another line is in Values.

RobotsLines(C, Values) ==
  [field : {"user-agent", "allow", "disallow"}, value : Seq(C)]
    \cup [field : {"crawl-delay", "other"}, value : Values]

RulesOf(C) == [allow : BOOLEAN, pattern : Seq(C)]
GroupsOf(C, Values) == [agents : Seq(Seq(C)), rules : Seq(RulesOf(C)), delay : Values \cup {NoDelay}]

\* What Robots::parse has when it has read some of the lines.
Parsing(C, Values) ==
  [groups : Seq(GroupsOf(C, Values)), cur : {c \in Seq(GroupsOf(C, Values)) : Len(c) <= 1},
   lastWasRule : BOOLEAN]

Fresh == [groups |-> <<>>, cur |-> <<>>, lastWasRule |-> FALSE]

LEMMA ReadLineTyped ==
  ASSUME NEW C, NEW Values, NEW a \in Parsing(C, Values), NEW l \in RobotsLines(C, Values)
  PROVE  ReadLine(a, l) \in Parsing(C, Values)
<1> DEFINE G == GroupsOf(C, Values)
<1>0. /\ a.groups \in Seq(G) /\ a.cur \in Seq(G) /\ Len(a.cur) <= 1 /\ a.lastWasRule \in BOOLEAN
      /\ a = [groups |-> a.groups, cur |-> a.cur, lastWasRule |-> a.lastWasRule]
  BY DEF Parsing
<1>1. CASE l.field = "user-agent"
  <2>1. l.value \in Seq(C)
    BY <1>1 DEF RobotsLines
  <2>2. NewGroup \in G
    BY DEF NewGroup, GroupsOf
  <2> DEFINE ends == a.lastWasRule \/ a.cur = <<>>
             g == IF ends THEN NewGroup ELSE a.cur[1]
  <2>3. g \in G
    BY <1>0, <2>2
  <2>4. [g EXCEPT !.agents = Append(@, l.value)] \in G
    <3> HIDE DEF g
    <3>1. g.agents \in Seq(Seq(C)) /\ Append(g.agents, l.value) \in Seq(Seq(C))
      BY <2>1, <2>3 DEF GroupsOf
    <3> QED
      BY <2>3, <3>1 DEF GroupsOf
  <2>5. (IF ends THEN a.groups \o a.cur ELSE a.groups) \in Seq(G)
    BY <1>0
  <2> DEFINE h == [g EXCEPT !.agents = Append(@, l.value)]
  <2>6. <<h>> \in Seq(G) /\ Len(<<h>>) = 1
    BY <2>4
  <2>7. ReadLine(a, l) = [groups |-> IF ends THEN a.groups \o a.cur ELSE a.groups,
                          cur |-> <<h>>, lastWasRule |-> FALSE]
    BY <1>1 DEF ReadLine, UserAgentLine
  <2> HIDE DEF h, G, ends
  <2> QED
    BY <2>5, <2>6, <2>7 DEF Parsing, G
<1>2. CASE l.field \in {"allow", "disallow"}
  <2>1. l.value \in Seq(C)
    BY <1>2 DEF RobotsLines
  <2> DEFINE rule == [allow |-> l.field = "allow", pattern |-> l.value]
             edited == [i \in DOMAIN a.cur |-> [a.cur[i] EXCEPT !.rules = Append(@, rule)]]
  <2>2. rule \in RulesOf(C)
    BY <2>1 DEF RulesOf
  <2>3. \A g \in G : [g EXCEPT !.rules = Append(@, rule)] \in G
    <3> TAKE g \in G
    <3>1. g.rules \in Seq(RulesOf(C)) /\ Append(g.rules, rule) \in Seq(RulesOf(C))
      BY <2>2 DEF GroupsOf
    <3> HIDE DEF rule
    <3> QED
      BY <3>1 DEF GroupsOf
  <2>4. edited \in Seq(G) /\ Len(edited) = Len(a.cur)
    <3> DEFINE Now(g) == [g EXCEPT !.rules = Append(@, rule)]
    <3>1. edited = [i \in DOMAIN a.cur |-> Now(a.cur[i])] /\ \A g \in G : Now(g) \in G
      BY <2>3
    <3> HIDE DEF Now, edited, G
    <3> QED
      BY <1>0, <3>1
  <2>5. ReadLine(a, l) = IF a.cur = <<>> THEN a ELSE [a EXCEPT !.cur = edited, !.lastWasRule = TRUE]
    BY <1>2 DEF ReadLine, RuleLine
  <2> HIDE DEF edited, G
  <2> QED
    BY <1>0, <2>4, <2>5 DEF Parsing, G
<1>3. CASE l.field = "crawl-delay"
  <2>1. l.value \in Values
    BY <1>3 DEF RobotsLines
  <2> DEFINE edited == [i \in DOMAIN a.cur |-> [a.cur[i] EXCEPT !.delay = l.value]]
  <2>3. \A g \in G : [g EXCEPT !.delay = l.value] \in G
    BY <2>1 DEF GroupsOf
  <2>4. edited \in Seq(G) /\ Len(edited) = Len(a.cur)
    <3> DEFINE Now(g) == [g EXCEPT !.delay = l.value]
    <3>1. edited = [i \in DOMAIN a.cur |-> Now(a.cur[i])] /\ \A g \in G : Now(g) \in G
      BY <2>3
    <3> HIDE DEF Now, edited, G
    <3> QED
      BY <1>0, <3>1
  <2>5. ReadLine(a, l) = IF a.cur = <<>> THEN a ELSE [a EXCEPT !.cur = edited, !.lastWasRule = TRUE]
    BY <1>3 DEF ReadLine, RuleLine
  <2> HIDE DEF edited, G
  <2> QED
    BY <1>0, <2>4, <2>5 DEF Parsing, G
<1>4. CASE l.field = "other"
  BY <1>4 DEF ReadLine
<1> QED
  BY <1>1, <1>2, <1>3, <1>4 DEF RobotsLines

\* The fold of Robots::parse, line after line.
LEMMA ParseAlong ==
  ASSUME NEW C, NEW Values, NEW file \in Seq(RobotsLines(C, Values))
  PROVE  \E f \in [0 .. Len(file) -> Parsing(C, Values)] :
           /\ f[0] = Fresh
           /\ \A k \in 0 .. Len(file) - 1 : f[k + 1] = ReadLine(f[k], file[k + 1])
           /\ Parse(file) = f[Len(file)].groups \o f[Len(file)].cur
<1> DEFINE V == Parsing(C, Values)
           B == RobotsLines(C, Values)
           step == [x \in V \X B |-> ReadLine(x[1], x[2])]
           Solves(g) == g = [S \in SUBSET DOMAIN file |->
             IF S = {} THEN Fresh ELSE ReadLine(g[S \ {Max(S)}], file[Max(S)])]
           c == CHOOSE g : Solves(g)
<1>1. Folding(V, B, Fresh, step)
  <2>1. Fresh \in V
    BY DEF Fresh, Parsing
  <2>2. \A x \in V \X B : ReadLine(x[1], x[2]) \in V
    BY ReadLineTyped
  <2> QED
    BY <2>1, <2>2 DEF Folding
<1>2. /\ file \in Seq(B) /\ DOMAIN file = 1 .. Len(file)
      /\ Len(file) \in Nat /\ \A i \in 1 .. Len(file) : file[i] \in B
  OBVIOUS
<1>3. \A S \in SUBSET DOMAIN file : S # {} => Max(S) \in DOMAIN file /\ S \ {Max(S)} \in SUBSET DOMAIN file
  BY <1>2, MaxOfFinite
<1> HIDE DEF V, B
<1>4. \A x \in V, y \in B : step[<<x, y>>] = ReadLine(x, y)
  OBVIOUS
<1> HIDE DEF step
<1>5. \E g : Solves(g)
  <2>1. PICK g : FoldsOver(g, Fresh, step, file) /\ \A S \in SUBSET DOMAIN file : g[S] \in V
    BY <1>1, <1>2, FoldExists
  <2>2. \A S \in SUBSET DOMAIN file : S # {} =>
          step[<<g[S \ {Max(S)}], file[Max(S)]>>] = ReadLine(g[S \ {Max(S)}], file[Max(S)])
    BY <1>2, <1>3, <1>4, <2>1
  <2>3. Solves(g)
    BY <2>1, <2>2 DEF FoldsOver
  <2> QED
    BY <2>3
<1>6. Solves(c)
  BY <1>5
<1> HIDE DEF c
<1>7. Follows(c, V, Fresh, step, file)
  <2>1. c[{}] = Fresh
    BY <1>6
  <2>2. \A S \in SUBSET DOMAIN file : S # {} /\ c[S \ {Max(S)}] \in V =>
          c[S] = step[<<c[S \ {Max(S)}], file[Max(S)]>>]
    BY <1>2, <1>3, <1>4, <1>6
  <2> QED
    BY <2>1, <2>2 DEF Follows
<1> HIDE DEF Solves
<1>8. PICK f \in [0 .. Len(file) -> V] :
        /\ f[0] = Fresh /\ f[Len(file)] = c[DOMAIN file]
        /\ \A k \in 0 .. Len(file) - 1 : f[k + 1] = step[<<f[k], file[k + 1]>>]
  BY <1>1, <1>2, <1>7, FoldAlong
<1>9. \A k \in 0 .. Len(file) - 1 : f[k + 1] = ReadLine(f[k], file[k + 1])
  <2> TAKE k \in 0 .. Len(file) - 1
  <2>1. k \in 0 .. Len(file) /\ k + 1 \in 1 .. Len(file)
    BY <1>2
  <2> QED
    BY <1>2, <1>4, <1>8, <2>1
<1>10. Parse(file) = c[DOMAIN file].groups \o c[DOMAIN file].cur
  BY Zenon DEF Parse, FoldLeft, MapThenFoldSet, c, Solves, Fresh
<1> QED
  BY <1>8, <1>9, <1>10 DEF V

\* What Robots::allows has when it has looked at some of the rules.
Decisions == {b \in Seq([spec : Nat, allow : BOOLEAN]) : Len(b) <= 1}

Live(r, path) == r.pattern # <<>> /\ RuleMatches(r.pattern, path)

Choice(best, r, path) ==
  IF Live(r, path) /\ Better(r, best)
  THEN <<[spec |-> Len(r.pattern), allow |-> r.allow]>> ELSE best

Chosen(r) == <<[spec |-> Len(r.pattern), allow |-> r.allow]>>

LEMMA ChosenTyped ==
  ASSUME NEW C, NEW r \in RulesOf(C)
  PROVE  /\ Chosen(r) \in Decisions /\ Chosen(r) # <<>>
         /\ Chosen(r)[1].spec = Len(r.pattern) /\ Chosen(r)[1].allow = r.allow
<1> DEFINE c == [spec |-> Len(r.pattern), allow |-> r.allow]
<1>1. c \in [spec : Nat, allow : BOOLEAN]
  BY DEF RulesOf
<1>2. c.spec = Len(r.pattern) /\ c.allow = r.allow
  OBVIOUS
<1> HIDE DEF c
<1>3. <<c>> \in Seq([spec : Nat, allow : BOOLEAN]) /\ Len(<<c>>) = 1 /\ <<c>>[1] = c
  BY <1>1
<1>4. Chosen(r) = <<c>>
  BY DEF Chosen, c
<1> QED
  BY <1>2, <1>3, <1>4 DEF Decisions

LEMMA BestAlong ==
  ASSUME NEW C, NEW path, NEW g, g.rules \in Seq(RulesOf(C))
  PROVE  \E f \in [0 .. Len(g.rules) -> Decisions] :
           /\ f[0] = <<>>
           /\ \A k \in 0 .. Len(g.rules) - 1 : f[k + 1] = Choice(f[k], g.rules[k + 1], path)
           /\ BestRule(g, path) = f[Len(g.rules)]
<1> DEFINE s == g.rules
           V == Decisions
           B == RulesOf(C)
           step == [x \in V \X B |-> Choice(x[1], x[2], path)]
           Solves(h) == h = [S \in SUBSET DOMAIN s |->
             IF S = {} THEN <<>> ELSE Choice(h[S \ {Max(S)}], s[Max(S)], path)]
           c == CHOOSE h : Solves(h)
<1>1. Folding(V, B, <<>>, step)
  <2>1. <<>> \in V
    BY DEF Decisions
  <2>2. \A b \in V, r \in B : Choice(b, r, path) \in V
    BY ChosenTyped DEF Choice, Chosen
  <2> QED
    BY <2>1, <2>2 DEF Folding
<1>2. /\ s \in Seq(B) /\ DOMAIN s = 1 .. Len(s)
      /\ Len(s) \in Nat /\ \A i \in 1 .. Len(s) : s[i] \in B
  OBVIOUS
<1>3. \A S \in SUBSET DOMAIN s : S # {} => Max(S) \in DOMAIN s /\ S \ {Max(S)} \in SUBSET DOMAIN s
  BY <1>2, MaxOfFinite
<1> HIDE DEF V, B
<1>4. \A x \in V, y \in B : step[<<x, y>>] = Choice(x, y, path)
  OBVIOUS
<1> HIDE DEF step
<1>5. \E h : Solves(h)
  <2>1. PICK h : FoldsOver(h, <<>>, step, s) /\ \A S \in SUBSET DOMAIN s : h[S] \in V
    BY <1>1, <1>2, FoldExists
  <2>2. \A S \in SUBSET DOMAIN s : S # {} =>
          step[<<h[S \ {Max(S)}], s[Max(S)]>>] = Choice(h[S \ {Max(S)}], s[Max(S)], path)
    BY <1>2, <1>3, <1>4, <2>1
  <2>3. Solves(h)
    BY <2>1, <2>2 DEF FoldsOver
  <2> QED
    BY <2>3
<1>6. Solves(c)
  BY <1>5
<1> HIDE DEF c
<1>7. Follows(c, V, <<>>, step, s)
  <2>1. c[{}] = <<>>
    BY <1>6
  <2>2. \A S \in SUBSET DOMAIN s : S # {} /\ c[S \ {Max(S)}] \in V =>
          c[S] = step[<<c[S \ {Max(S)}], s[Max(S)]>>]
    BY <1>2, <1>3, <1>4, <1>6
  <2> QED
    BY <2>1, <2>2 DEF Follows
<1>10. BestRule(g, path) = c[DOMAIN s]
  BY Zenon DEF BestRule, FoldLeft, MapThenFoldSet, c, Solves, Choice, Live
<1> HIDE DEF Solves, s
<1>8. PICK f \in [0 .. Len(s) -> V] :
        /\ f[0] = <<>> /\ f[Len(s)] = c[DOMAIN s]
        /\ \A k \in 0 .. Len(s) - 1 : f[k + 1] = step[<<f[k], s[k + 1]>>]
  BY <1>1, <1>2, <1>7, FoldAlong
<1>9. \A k \in 0 .. Len(s) - 1 : f[k + 1] = Choice(f[k], s[k + 1], path)
  <2> TAKE k \in 0 .. Len(s) - 1
  <2>1. k \in 0 .. Len(s) /\ k + 1 \in 1 .. Len(s)
    BY <1>2
  <2> QED
    BY <1>2, <1>4, <1>8, <2>1
<1> QED
  BY <1>8, <1>9, <1>10 DEF V, s

\* The rule that decides has the longest of the patterns that match, and allows
\* if one as long does.
LEMMA BestIsLongest ==
  ASSUME NEW C, NEW path, NEW g, g.rules \in Seq(RulesOf(C))
  PROVE  LET live == {r \in ToSet(g.rules) : Live(r, path)}
             best == BestRule(g, path) IN
         /\ best = <<>> <=> live = {}
         /\ best # <<>> =>
              best[1].allow <=> \E r \in live : r.allow /\ \A q \in live : Len(q.pattern) <= Len(r.pattern)
<1> DEFINE s == g.rules
           n == Len(s)
           At(k) == {i \in 1 .. k : Live(s[i], path)}
           L(i) == Len(s[i].pattern)
<1>1. PICK f \in [0 .. n -> Decisions] :
           /\ f[0] = <<>>
           /\ \A k \in 0 .. n - 1 : f[k + 1] = Choice(f[k], s[k + 1], path)
           /\ BestRule(g, path) = f[n]
  BY BestAlong
<1>2. n \in Nat /\ DOMAIN s = 1 .. n /\ \A i \in 1 .. n : s[i] \in RulesOf(C)
  OBVIOUS
<1>3. \A i \in 1 .. n : L(i) \in Nat /\ s[i].allow \in BOOLEAN
  BY <1>2 DEF RulesOf
<1> DEFINE Longest(k) ==
             /\ f[k] = <<>> <=> At(k) = {}
             /\ f[k] # <<>> =>
                  \E m \in At(k) : /\ f[k][1].spec = L(m)
                                   /\ \A i \in At(k) : L(i) <= L(m)
                                   /\ f[k][1].allow <=> \E i \in At(k) : L(i) = L(m) /\ s[i].allow
           A == {k \in Nat : k <= n => Longest(k)}
<1>4. 0 \in A
  BY <1>1
<1>5. ASSUME NEW k \in Nat, k \in A PROVE k + 1 \in A
  <2> SUFFICES ASSUME k + 1 <= n PROVE Longest(k + 1)
    OBVIOUS
  <2>1. k \in 0 .. n - 1 /\ k + 1 \in 1 .. n /\ k <= n
    BY <1>2
  <2> DEFINE r == s[k + 1]
  <2>2. f[k + 1] = Choice(f[k], r, path) /\ r \in RulesOf(C)
    BY <1>1, <1>2, <2>1
  <2>3. Longest(k)
    BY <1>5, <2>1
  <2>4. \A i : i \in At(k + 1) <=> (i \in At(k) \/ (i = k + 1 /\ Live(r, path)))
    <3>1. \A i : i \in 1 .. k + 1 <=> (i \in 1 .. k \/ i = k + 1)
      BY <2>1
    <3> QED
      BY <3>1
  <2>5. /\ Chosen(r) # <<>> /\ Chosen(r)[1].spec = L(k + 1) /\ Chosen(r)[1].allow = s[k + 1].allow
    BY <2>2, ChosenTyped
  <2>6. \A i \in At(k) : i \in 1 .. n
    BY <2>1
  <2>7. CASE ~Live(r, path)
    <3>1. f[k + 1] = f[k] /\ At(k + 1) = At(k)
      BY <2>2, <2>4, <2>7 DEF Choice
    <3> HIDE DEF At, L
    <3> QED
      BY <2>3, <3>1
  <2>8. CASE Live(r, path) /\ At(k) = {}
    <3>1. f[k] = <<>> /\ f[k + 1] = Chosen(r) /\ At(k + 1) = {k + 1}
      BY <2>2, <2>3, <2>4, <2>8 DEF Choice, Better, Chosen
    <3>2. L(k + 1) <= L(k + 1)
      BY <1>3, <2>1
    <3> HIDE DEF At, L
    <3> QED
      BY <2>5, <3>1, <3>2
  <2>9. CASE Live(r, path) /\ At(k) # {}
    <3>1. PICK m \in At(k) : /\ f[k][1].spec = L(m)
                             /\ \A i \in At(k) : L(i) <= L(m)
                             /\ f[k][1].allow <=> \E i \in At(k) : L(i) = L(m) /\ s[i].allow
      BY <2>3, <2>9
    <3>2. f[k] # <<>> /\ k + 1 \in At(k + 1) /\ \A i \in At(k) : i \in At(k + 1)
      BY <2>3, <2>4, <2>9
    <3>3. Better(r, f[k]) <=> L(k + 1) > L(m) \/ (L(k + 1) = L(m) /\ s[k + 1].allow)
      BY <3>1, <3>2 DEF Better
    <3>4. f[k + 1] = IF Better(r, f[k]) THEN Chosen(r) ELSE f[k]
      BY <2>2, <2>9 DEF Choice, Chosen
    <3>5. L(k + 1) \in Nat /\ L(m) \in Nat /\ \A i \in At(k) : L(i) \in Nat
      BY <1>3, <2>1, <2>6
    <3> HIDE DEF At, L
    <3>6. CASE L(k + 1) > L(m)
      <4>1. \A i \in At(k + 1) : L(i) <= L(k + 1)
        BY <2>4, <3>1, <3>5, <3>6
      <4>2. \A i \in At(k + 1) : L(i) = L(k + 1) => i = k + 1
        BY <2>4, <3>1, <3>5, <3>6
      <4> QED
        BY <2>5, <3>2, <3>3, <3>4, <3>6, <4>1, <4>2
    <3>7. CASE L(k + 1) = L(m) /\ s[k + 1].allow
      <4>1. \A i \in At(k + 1) : L(i) <= L(k + 1)
        BY <2>4, <3>1, <3>5, <3>7
      <4> QED
        BY <2>5, <3>2, <3>3, <3>4, <3>7, <4>1
    <3>8. CASE L(k + 1) < L(m) \/ (L(k + 1) = L(m) /\ ~s[k + 1].allow)
      <4>1. \A i \in At(k + 1) : L(i) <= L(m)
        BY <2>4, <3>1, <3>5, <3>8
      <4>2. f[k + 1] = f[k] /\ m \in At(k + 1)
        BY <3>2, <3>3, <3>4, <3>5, <3>8
      <4>3. (\E i \in At(k + 1) : L(i) = L(m) /\ s[i].allow) <=> \E i \in At(k) : L(i) = L(m) /\ s[i].allow
        BY <2>4, <3>1, <3>2, <3>5, <3>8
      <4> QED
        BY <3>1, <3>2, <4>1, <4>2, <4>3
    <3> QED
      BY <3>5, <3>6, <3>7, <3>8
  <2> QED
    BY <2>7, <2>8, <2>9
<1> HIDE DEF A
<1>6. n \in A
  BY <1>2, <1>4, <1>5, SetInduction
<1>7. Longest(n)
  <2>1. n <= n
    BY <1>2
  <2> QED
    BY <1>6, <2>1 DEF A
<1>8. ToSet(s) = {s[i] : i \in 1 .. n}
  BY <1>2 DEF ToSet
<1> DEFINE live == {r \in ToSet(s) : Live(r, path)}
<1>9. /\ \A i \in At(n) : s[i] \in live
      /\ \A r \in live : \E i \in At(n) : s[i] = r
  BY <1>8
<1>10. f[n] = <<>> <=> live = {}
  BY <1>7, <1>9
<1>11. ASSUME f[n] # <<>>
       PROVE  f[n][1].allow <=> \E r \in live : r.allow /\ \A q \in live : Len(q.pattern) <= Len(r.pattern)
  <2>1. PICK m \in At(n) : /\ \A i \in At(n) : L(i) <= L(m)
                           /\ f[n][1].allow <=> \E i \in At(n) : L(i) = L(m) /\ s[i].allow
    BY <1>7, <1>11
  <2>2. \A i \in At(n) : L(i) \in Nat
    BY <1>3
  <2>3. ASSUME NEW i \in At(n), L(i) = L(m), s[i].allow
        PROVE  \E r \in live : r.allow /\ \A q \in live : Len(q.pattern) <= Len(r.pattern)
    <3>1. \A q \in live : Len(q.pattern) <= Len(s[i].pattern)
      <4> TAKE q \in live
      <4>1. PICK j \in At(n) : s[j] = q
        BY <1>9
      <4> QED
        BY <2>1, <2>3, <4>1
    <3> QED
      BY <1>9, <2>3, <3>1
  <2>4. ASSUME NEW r \in live, r.allow, \A q \in live : Len(q.pattern) <= Len(r.pattern)
        PROVE  \E i \in At(n) : L(i) = L(m) /\ s[i].allow
    <3>1. PICK i \in At(n) : s[i] = r
      BY <1>9
    <3>2. L(m) <= L(i) /\ L(i) <= L(m)
      BY <1>9, <2>1, <2>4, <3>1
    <3>3. L(i) = L(m)
      BY <2>2, <3>2
    <3> QED
      BY <2>4, <3>1, <3>3
  <2> QED
    BY <2>1, <2>3, <2>4
<1> QED
  BY <1>1, <1>10, <1>11

-----------------------------------------------------------------------------
\* The tokens of a group that name the crawler, and the groups that apply to it.

Specific(g) == {Len(a) : a \in {b \in ToSet(g.agents) : b # <<"*">> /\ HasText(UserAgent, b)}}

Applying(groups) ==
  LET best == UNION {Specific(g) : g \in ToSet(groups)} IN
  {i \in DOMAIN groups :
     IF best # {} THEN Max(best) \in Specific(groups[i]) ELSE <<"*">> \in ToSet(groups[i].agents)}

LEMMA GroupForIs ==
  ASSUME NEW C, NEW Values, UserAgent \in Seq(C), NEW groups \in Seq(GroupsOf(C, Values))
  PROVE  GroupFor(groups) =
           IF Applying(groups) = {} THEN <<>> ELSE <<groups[Min(Applying(groups))]>>
<1> DEFINE Token(t) == groups[t[1]].agents[t[2]]
           tokens == UNION {{<<i, j>> : j \in DOMAIN groups[i].agents} : i \in DOMAIN groups}
           stars == {t \in tokens : Token(t) = <<"*">>}
           matching == {t \in tokens \ stars : HasText(UserAgent, Token(t))}
           most == {t \in matching : \A u \in matching : Len(Token(u)) <= Len(Token(t))}
           from == IF most # {} THEN most ELSE stars
           best == UNION {Specific(g) : g \in ToSet(groups)}
           n == Len(UserAgent)
<1>1. /\ \A i \in DOMAIN groups : groups[i].agents \in Seq(Seq(C))
      /\ \A i \in DOMAIN groups : \A j \in DOMAIN groups[i].agents :
           groups[i].agents[j] \in Seq(C) /\ Len(groups[i].agents[j]) \in Nat
  <2>1. \A i \in DOMAIN groups : groups[i] \in GroupsOf(C, Values)
    OBVIOUS
  <2>2. \A i \in DOMAIN groups : groups[i].agents \in Seq(Seq(C))
    BY <2>1 DEF GroupsOf
  <2>3. \A a \in Seq(Seq(C)) : \A j \in DOMAIN a : a[j] \in Seq(C) /\ Len(a[j]) \in Nat
    OBVIOUS
  <2> QED
    BY <2>2, <2>3
<1>2. /\ \A t \in tokens : /\ t[1] \in DOMAIN groups /\ t[2] \in DOMAIN groups[t[1]].agents
                           /\ Len(Token(t)) \in Nat
      /\ \A i \in DOMAIN groups : \A j \in DOMAIN groups[i].agents :
           <<i, j>> \in tokens /\ Token(<<i, j>>) = groups[i].agents[j]
  BY <1>1
<1>3. \A i \in DOMAIN groups : \A b :
        b \in ToSet(groups[i].agents) <=> \E t \in tokens : t[1] = i /\ Token(t) = b
  BY <1>2 DEF ToSet
<1>4. \A i \in DOMAIN groups : \A x :
        x \in Specific(groups[i]) <=> \E t \in matching : t[1] = i /\ Len(Token(t)) = x
  <2> TAKE i \in DOMAIN groups
  <2>1. \A x : x \in Specific(groups[i]) <=>
          \E b \in ToSet(groups[i].agents) : b # <<"*">> /\ HasText(UserAgent, b) /\ x = Len(b)
    BY DEF Specific
  <2>2. \A t : t \in matching <=> t \in tokens /\ Token(t) # <<"*">> /\ HasText(UserAgent, Token(t))
    OBVIOUS
  <2> HIDE DEF tokens, Token, matching
  <2> TAKE x
  <2>3. ASSUME NEW b \in ToSet(groups[i].agents), b # <<"*">>, HasText(UserAgent, b), x = Len(b)
        PROVE  \E t \in matching : t[1] = i /\ Len(Token(t)) = x
    BY <1>3, <2>2, <2>3
  <2>4. ASSUME NEW t \in matching, t[1] = i, Len(Token(t)) = x
        PROVE  \E b \in ToSet(groups[i].agents) : b # <<"*">> /\ HasText(UserAgent, b) /\ x = Len(b)
    BY <1>3, <2>2, <2>4
  <2> QED
    BY <2>1, <2>3, <2>4
<1>5. \A x : x \in best <=> \E t \in matching : Len(Token(t)) = x
  <2>1. \A x : x \in best <=> \E i \in DOMAIN groups : x \in Specific(groups[i])
    BY DEF ToSet
  <2>2. \A t \in matching : t[1] \in DOMAIN groups
    BY <1>2
  <2> HIDE DEF best, matching, Token, tokens
  <2> QED
    BY <1>4, <2>1, <2>2
<1>6. n \in Nat /\ \A t \in matching : Len(Token(t)) \in 0 .. n
  <2>1. n \in Nat
    OBVIOUS
  <2>2. \A b \in Seq(C) : HasText(UserAgent, b) => Len(b) \in 0 .. n
    BY DEF HasText, OccursAt
  <2>3. \A t \in matching : Token(t) \in Seq(C) /\ HasText(UserAgent, Token(t))
    BY <1>1, <1>2
  <2> QED
    BY <2>1, <2>2, <2>3
<1> HIDE DEF Token, tokens, stars, matching, most, best, n
<1>7. CASE best # {}
  <2>1. best \in SUBSET (0 .. n)
    BY <1>5, <1>6
  <2>2. Max(best) \in best /\ \A x \in best : x <= Max(best)
    BY <1>6, <1>7, <2>1, MaxUpTo
  <2> DEFINE m == Max(best)
  <2>3. m \in 0 .. n /\ \A t \in matching : Len(Token(t)) \in 0 .. n
    BY <1>6, <2>1, <2>2
  <2> HIDE DEF m
  <2>4. \A t : t \in most <=> t \in matching /\ Len(Token(t)) = m
    <3>1. \A t \in matching : Len(Token(t)) <= m
      BY <1>5, <2>2 DEF m
    <3>2. PICK u \in matching : Len(Token(u)) = m
      BY <1>5, <2>2 DEF m
    <3>3. \A t \in matching : m <= Len(Token(t)) => Len(Token(t)) = m
      BY <2>3, <3>1
    <3> QED
      BY <3>1, <3>2, <3>3 DEF most
  <2>5. most # {}
    BY <1>5, <2>2, <2>4 DEF m
  <2>6. \A t \in matching : t[1] \in DOMAIN groups
    BY <1>2 DEF matching
  <2>7. Applying(groups) = {i \in DOMAIN groups : m \in Specific(groups[i])}
    BY <1>7 DEF Applying, best, m
  <2>8. {t[1] : t \in from} = Applying(groups)
    BY <1>4, <2>4, <2>5, <2>6, <2>7
  <2>9. from # {} /\ Applying(groups) # {}
    BY <2>5, <2>8
  <2>10. GroupFor(groups) = <<groups[Min({t[1] : t \in from})]>>
    BY <2>9 DEF GroupFor, most, matching, stars, tokens, Token
  <2> QED
    BY <2>8, <2>9, <2>10
<1>8. CASE best = {}
  <2>1. most = {} /\ from = stars
    BY <1>5, <1>8 DEF most
  <2>2. \A t \in stars : t[1] \in DOMAIN groups
    BY <1>2 DEF stars
  <2>3. Applying(groups) = {i \in DOMAIN groups : <<"*">> \in ToSet(groups[i].agents)}
    BY <1>8 DEF Applying, best
  <2>4. {t[1] : t \in stars} = Applying(groups)
    <3> DEFINE star == <<"*">>
    <3>1. \A t : t \in stars <=> t \in tokens /\ Token(t) = star
      BY DEF stars
    <3>2. \A i : i \in Applying(groups) <=> i \in DOMAIN groups /\ star \in ToSet(groups[i].agents)
      BY <2>3
    <3> HIDE DEF star
    <3>3. \A i \in DOMAIN groups : i \in Applying(groups) <=> \E t \in stars : t[1] = i
      BY <1>3, <3>1, <3>2
    <3> QED
      BY <2>2, <3>2, <3>3
  <2>5. GroupFor(groups) = IF from = {} THEN <<>> ELSE <<groups[Min({t[1] : t \in from})]>>
    BY DEF GroupFor, most, matching, stars, tokens, Token
  <2> QED
    BY <2>1, <2>4, <2>5
<1> QED
  BY <1>7, <1>8

\* Robots::parse gives groups for any file.
LEMMA ParseTyped ==
  ASSUME NEW C, NEW Values, NEW file \in Seq(RobotsLines(C, Values))
  PROVE  Parse(file) \in Seq(GroupsOf(C, Values))
<1>1. PICK f \in [0 .. Len(file) -> Parsing(C, Values)] :
           /\ f[0] = Fresh
           /\ \A k \in 0 .. Len(file) - 1 : f[k + 1] = ReadLine(f[k], file[k + 1])
           /\ Parse(file) = f[Len(file)].groups \o f[Len(file)].cur
  BY ParseAlong
<1>2. f[Len(file)] \in Parsing(C, Values)
  <2>1. Len(file) \in 0 .. Len(file)
    OBVIOUS
  <2> QED
    BY <2>1
<1>3. f[Len(file)].groups \in Seq(GroupsOf(C, Values)) /\ f[Len(file)].cur \in Seq(GroupsOf(C, Values))
  BY <1>2 DEF Parsing
<1> QED
  BY <1>1, <1>3

\* robots.rs, allows: the most specific group applies, else the `*` group, and in
\* it the longest matching pattern decides, of two as long an Allow.
THEOREM RobotsVerdict ==
  ASSUME NEW C, NEW Values, UserAgent \in Seq(C), NEW file \in Seq(RobotsLines(C, Values))
  PROVE  VerdictIsLongest(file)
<1> DEFINE groups == Parse(file)
           applies == Applying(groups)
           g == groups[Min(applies)]
<1>1. groups \in Seq(GroupsOf(C, Values))
  BY ParseTyped
<1> HIDE DEF groups
<1>2. GroupFor(groups) = IF applies = {} THEN <<>> ELSE <<g>>
  BY <1>1, GroupForIs
<1>3. ASSUME applies = {}, NEW path
      PROVE  Allows(groups, path) /\ CrawlDelay(groups) = NoDelay
  BY <1>2, <1>3 DEF Allows, CrawlDelay
<1>4. ASSUME applies # {}, NEW path
      PROVE  LET live == {r \in ToSet(g.rules) : r.pattern # <<>> /\ RuleMatches(r.pattern, path)} IN
             /\ Allows(groups, path) <=>
                  live = {} \/ \E r \in live : r.allow /\ \A q \in live : Len(q.pattern) <= Len(r.pattern)
             /\ CrawlDelay(groups) = g.delay
  <2> DEFINE live == {r \in ToSet(g.rules) : Live(r, path)}
             b == BestRule(g, path)
  <2>1. GroupFor(groups) = <<g>> /\ <<g>> # <<>> /\ <<g>>[1] = g
    BY <1>2, <1>4
  <2>2. g.rules \in Seq(RulesOf(C))
    <3>1. applies \in SUBSET DOMAIN groups /\ DOMAIN groups \in SUBSET Nat
      BY <1>1 DEF Applying
    <3> HIDE DEF applies
    <3>2. Min(applies) \in DOMAIN groups
      BY <1>4, <3>1, MinOfNat
    <3>3. g \in GroupsOf(C, Values)
      BY <1>1, <3>2
    <3> QED
      BY <3>3 DEF GroupsOf
  <2> DEFINE h == g
  <2>3. /\ b = <<>> <=> live = {}
        /\ b # <<>> =>
             b[1].allow <=> \E r \in live : r.allow /\ \A q \in live : Len(q.pattern) <= Len(r.pattern)
    BY <2>2, BestIsLongest
  <2>4. Allows(groups, path) <=> b = <<>> \/ b[1].allow
    BY <2>1 DEF Allows
  <2>5. CrawlDelay(groups) = g.delay
    BY <2>1 DEF CrawlDelay
  <2> QED
    BY <2>3, <2>4, <2>5 DEF Live
<1> DEFINE Verdict(x, path) ==
             LET live == {r \in ToSet(x.rules) : r.pattern # <<>> /\ RuleMatches(r.pattern, path)} IN
             live = {} \/ \E r \in live : r.allow /\ \A q \in live : Len(q.pattern) <= Len(r.pattern)
<1>5. VerdictIsLongest(file) =
        \A path \in RobotsPaths :
          IF applies = {} THEN Allows(groups, path) /\ CrawlDelay(groups) = NoDelay
          ELSE Allows(groups, path) = Verdict(g, path) /\ CrawlDelay(groups) = g.delay
  BY DEF VerdictIsLongest, Applying, Specific, groups
<1>6. ASSUME applies # {}, NEW path
      PROVE  Allows(groups, path) = Verdict(g, path) /\ CrawlDelay(groups) = g.delay
  <2>1. Allows(groups, path) \in BOOLEAN /\ Verdict(g, path) \in BOOLEAN
    BY DEF Allows
  <2> QED
    BY <1>4, <1>6, <2>1
<1> QED
  BY <1>3, <1>5, <1>6

-----------------------------------------------------------------------------
\* What a line changes, field by field.

RuleOfLine(l) == [allow |-> l.field = "allow", pattern |-> l.value]

ReadsTo(a, l, b) ==
  /\ l.field = "user-agent" =>
       /\ b.cur # <<>> /\ ~b.lastWasRule
       /\ a.lastWasRule \/ a.cur = <<>> =>
            /\ b.groups = a.groups \o a.cur
            /\ b.cur[1].agents = <<l.value>> /\ b.cur[1].rules = <<>>
       /\ ~a.lastWasRule /\ a.cur # <<>> =>
            /\ b.groups = a.groups /\ b.cur[1].rules = a.cur[1].rules
            /\ b.cur[1].agents = Append(a.cur[1].agents, l.value)
  /\ l.field \in {"allow", "disallow"} /\ a.cur # <<>> =>
       /\ b.cur # <<>> /\ b.lastWasRule /\ b.groups = a.groups
       /\ b.cur[1].agents = a.cur[1].agents
       /\ b.cur[1].rules = Append(a.cur[1].rules, RuleOfLine(l))
  /\ l.field = "crawl-delay" /\ a.cur # <<>> =>
       /\ b.cur # <<>> /\ b.lastWasRule /\ b.groups = a.groups
       /\ b.cur[1].agents = a.cur[1].agents /\ b.cur[1].rules = a.cur[1].rules
  /\ l.field = "other" \/ (l.field # "user-agent" /\ a.cur = <<>>) => b = a

LEMMA ReadLineIs ==
  ASSUME NEW C, NEW Values, NEW a \in Parsing(C, Values), NEW l \in RobotsLines(C, Values)
  PROVE  ReadsTo(a, l, ReadLine(a, l))
<1> DEFINE G == GroupsOf(C, Values)
           b == ReadLine(a, l)
<1>0. /\ a.groups \in Seq(G) /\ a.cur \in Seq(G) /\ Len(a.cur) <= 1 /\ a.lastWasRule \in BOOLEAN
      /\ a = [groups |-> a.groups, cur |-> a.cur, lastWasRule |-> a.lastWasRule]
      /\ a.cur # <<>> => DOMAIN a.cur = {1} /\ a.cur[1] \in G
  BY DEF Parsing
<1>1. \A x : <<x>> # <<>> /\ <<x>>[1] = x
  OBVIOUS
<1>2. \A g \in G : g = [agents |-> g.agents, rules |-> g.rules, delay |-> g.delay]
  BY DEF GroupsOf
<1>3. NewGroup \in G /\ NewGroup.agents = <<>> /\ NewGroup.rules = <<>>
  BY DEF NewGroup, GroupsOf
<1> HIDE DEF G
<1>4. ASSUME l.field = "user-agent"
      PROVE  /\ b.cur # <<>> /\ ~b.lastWasRule
             /\ a.lastWasRule \/ a.cur = <<>> =>
                  /\ b.groups = a.groups \o a.cur
                  /\ b.cur[1].agents = <<l.value>> /\ b.cur[1].rules = <<>>
             /\ ~a.lastWasRule /\ a.cur # <<>> =>
                  /\ b.groups = a.groups /\ b.cur[1].rules = a.cur[1].rules
                  /\ b.cur[1].agents = Append(a.cur[1].agents, l.value)
  <2> DEFINE ends == a.lastWasRule \/ a.cur = <<>>
             g == IF ends THEN NewGroup ELSE a.cur[1]
             h == [g EXCEPT !.agents = Append(@, l.value)]
  <2>1. ReadLine(a, l) = [groups |-> IF ends THEN a.groups \o a.cur ELSE a.groups,
                          cur |-> <<h>>, lastWasRule |-> FALSE]
    BY <1>4 DEF ReadLine, UserAgentLine
  <2>2. g \in G
    BY <1>0, <1>3
  <2>3. h.agents = Append(g.agents, l.value) /\ h.rules = g.rules
    <3> HIDE DEF g
    <3> QED
      BY <1>2, <2>2
  <2>4. b.cur = <<h>> /\ ~b.lastWasRule /\ b.groups = IF ends THEN a.groups \o a.cur ELSE a.groups
    <3> HIDE DEF h, ends
    <3> QED
      BY <2>1
  <2>5. b.cur # <<>> /\ b.cur[1] = h
    <3> HIDE DEF h
    <3> QED
      BY <1>1, <2>4
  <2> HIDE DEF h, b
  <2>6. Append(<<>>, l.value) = <<l.value>>
    OBVIOUS
  <2> QED
    BY <1>3, <2>3, <2>4, <2>5, <2>6
<1>5. ASSUME l.field \in {"allow", "disallow"}, a.cur # <<>>
      PROVE  /\ b.cur # <<>> /\ b.lastWasRule /\ b.groups = a.groups
             /\ b.cur[1].agents = a.cur[1].agents
             /\ b.cur[1].rules = Append(a.cur[1].rules, RuleOfLine(l))
  <2> DEFINE h == [a.cur[1] EXCEPT !.rules = Append(@, RuleOfLine(l))]
             edited == [i \in DOMAIN a.cur |-> [a.cur[i] EXCEPT !.rules = Append(@, RuleOfLine(l))]]
  <2>1. ReadLine(a, l) = [a EXCEPT !.cur = edited, !.lastWasRule = TRUE]
    BY <1>5 DEF ReadLine, RuleLine, RuleOfLine
  <2>2. DOMAIN edited = {1} /\ edited[1] = h
    BY <1>0, <1>5
  <2>3. h.agents = a.cur[1].agents /\ h.rules = Append(a.cur[1].rules, RuleOfLine(l))
    BY <1>0, <1>2, <1>5
  <2> HIDE DEF edited, h
  <2>4. b.cur = edited /\ b.lastWasRule /\ b.groups = a.groups
    BY <1>0, <2>1
  <2>5. edited # <<>>
    BY <2>2
  <2> QED
    BY <2>2, <2>3, <2>4, <2>5
<1>6. ASSUME l.field = "crawl-delay", a.cur # <<>>
      PROVE  /\ b.cur # <<>> /\ b.lastWasRule /\ b.groups = a.groups
             /\ b.cur[1].agents = a.cur[1].agents /\ b.cur[1].rules = a.cur[1].rules
  <2> DEFINE h == [a.cur[1] EXCEPT !.delay = l.value]
             edited == [i \in DOMAIN a.cur |-> [a.cur[i] EXCEPT !.delay = l.value]]
  <2>1. ReadLine(a, l) = [a EXCEPT !.cur = edited, !.lastWasRule = TRUE]
    BY <1>6 DEF ReadLine, RuleLine
  <2>2. DOMAIN edited = {1} /\ edited[1] = h
    BY <1>0, <1>6
  <2>3. h.agents = a.cur[1].agents /\ h.rules = a.cur[1].rules
    BY <1>0, <1>2, <1>6
  <2> HIDE DEF edited, h
  <2>4. b.cur = edited /\ b.lastWasRule /\ b.groups = a.groups
    BY <1>0, <2>1
  <2>5. edited # <<>>
    BY <2>2
  <2> QED
    BY <2>2, <2>3, <2>4, <2>5
<1>7. l.field = "other" \/ (l.field # "user-agent" /\ a.cur = <<>>) => b = a
  BY DEF ReadLine, RuleLine, RobotsLines
<1> QED
  BY <1>4, <1>5, <1>6, <1>7 DEF ReadsTo

-----------------------------------------------------------------------------
\* The User-agent lines among the first k, and those that line k + 1 is under: no
\* rule is between them and another of them.

AgentLines(file, k) == {j \in 1 .. k : file[j].field = "user-agent"}
Separates(file, k, j, r) ==
  /\ r \in 1 .. k /\ file[r].field \in RuleFields /\ j < r
  /\ \E m \in AgentLines(file, k) : r < m
Ruled(file, k) ==
  \E r \in 1 .. k : file[r].field \in RuleFields /\ \A j \in AgentLines(file, k) : j < r

LEMMA UnderIs ==
  ASSUME NEW file, NEW k \in Nat
  PROVE  /\ \A j : j \in Under(file, k + 1) <=> j \in AgentLines(file, k) /\ ~\E r : Separates(file, k, j, r)
         /\ Under(file, k + 1) = {} <=> AgentLines(file, k) = {}
<1> DEFINE A == AgentLines(file, k)
<1>1. (k + 1) - 1 = k
  OBVIOUS
<1>2. Under(file, k + 1) = {j \in A : ~\E r \in j .. Max(A) : file[r].field \in RuleFields}
  BY <1>1 DEF Under, AgentLines
<1>3. A \in SUBSET (0 .. k) /\ A \in SUBSET (1 .. k)
  BY DEF AgentLines
<1>4. \A j \in A : file[j].field \notin RuleFields
  BY DEF AgentLines, RuleFields
<1>5. CASE A = {}
  BY <1>2, <1>5
<1>6. CASE A # {}
  <2> DEFINE m == Max(A)
  <2>1. m \in A /\ \A j \in A : j <= m
    BY <1>3, <1>6, MaxUpTo
  <2> HIDE DEF A, m
  <2>2. m \in 1 .. k /\ \A j \in A : j \in 1 .. k
    BY <1>3, <2>1
  <2>3. ASSUME NEW j \in A
        PROVE  (\E r \in j .. m : file[r].field \in RuleFields) <=> \E r : Separates(file, k, j, r)
    <3>1. ASSUME NEW r \in j .. m, file[r].field \in RuleFields PROVE Separates(file, k, j, r)
      <4>1. r # j /\ r # m
        BY <1>4, <2>1, <3>1
      <4>2. r \in 1 .. k /\ j < r /\ r < m
        BY <2>2, <3>1, <4>1
      <4> QED
        BY <2>1, <3>1, <4>2 DEF Separates, A
    <3>2. ASSUME NEW r, Separates(file, k, j, r) PROVE r \in j .. m /\ file[r].field \in RuleFields
      <4>1. PICK x \in A : r < x
        BY <3>2 DEF Separates, A
      <4>2. r \in 1 .. k /\ j < r /\ x <= m
        BY <2>1, <3>2 DEF Separates
      <4> QED
        BY <2>2, <3>2, <4>1, <4>2 DEF Separates
    <3> QED
      BY <3>1, <3>2
  <2>4. Under(file, k + 1) = {j \in A : ~\E r \in j .. m : file[r].field \in RuleFields}
    BY <1>2 DEF m
  <2>5. \A r \in m .. m : r = m
    BY <2>2
  <2>6. m \in Under(file, k + 1)
    BY <1>4, <2>1, <2>4, <2>5
  <2> QED
    BY <1>6, <2>3, <2>4, <2>6 DEF A
<1> QED
  BY <1>5, <1>6

\* How a line changes whom the next one is under, and whether a rule is behind
\* all User-agent lines.
LEMMA UnderNext ==
  ASSUME NEW file, NEW k \in Nat
  PROVE  LET A == AgentLines(file, k)
             u == Under(file, k + 1)
             v == Under(file, (k + 1) + 1) IN
         /\ file[k + 1].field = "user-agent" =>
              /\ AgentLines(file, k + 1) # {} /\ ~Ruled(file, k + 1)
              /\ Ruled(file, k) \/ A = {} => v = {k + 1}
              /\ ~Ruled(file, k) => v = u \cup {k + 1}
         /\ file[k + 1].field # "user-agent" =>
              /\ AgentLines(file, k + 1) = A /\ v = u
              /\ file[k + 1].field \in RuleFields => Ruled(file, k + 1)
              /\ file[k + 1].field \notin RuleFields => (Ruled(file, k + 1) <=> Ruled(file, k))
<1> DEFINE A == AgentLines(file, k)
           B == AgentLines(file, k + 1)
           u == Under(file, k + 1)
           v == Under(file, (k + 1) + 1)
<1>1. k + 1 \in Nat /\ \A i : i \in 1 .. k + 1 <=> (i \in 1 .. k \/ i = k + 1)
  OBVIOUS
<1>2. \A i \in 1 .. k : i < k + 1 /\ ~(k + 1 < i) /\ i # k + 1
  OBVIOUS
<1>3. /\ \A j : j \in u <=> j \in A /\ ~\E r : Separates(file, k, j, r)
      /\ \A j : j \in v <=> j \in B /\ ~\E r : Separates(file, k + 1, j, r)
  BY <1>1, UnderIs
<1>4. \A j \in A : j \in 1 .. k
  BY DEF AgentLines
<1>5. ASSUME file[k + 1].field = "user-agent"
      PROVE  /\ B # {} /\ ~Ruled(file, k + 1)
             /\ Ruled(file, k) \/ A = {} => v = {k + 1}
             /\ ~Ruled(file, k) => v = u \cup {k + 1}
  <2>1. \A i : i \in B <=> (i \in A \/ i = k + 1)
    BY <1>1, <1>5 DEF AgentLines
  <2>2. file[k + 1].field \notin RuleFields
    BY <1>5 DEF RuleFields
  <2>3. \A j, r : Separates(file, k + 1, j, r) <=>
          r \in 1 .. k /\ file[r].field \in RuleFields /\ j < r
    BY <1>1, <1>2, <2>1, <2>2 DEF Separates
  <2>4. ~Ruled(file, k + 1)
    BY <1>1, <1>2, <2>1, <2>2 DEF Ruled
  <2>5. k + 1 \in v
    BY <1>2, <1>3, <2>1, <2>3
  <2>6. ASSUME Ruled(file, k), NEW j \in A PROVE j \notin v
    BY <1>3, <2>3, <2>6 DEF Ruled
  <2>7. ASSUME ~Ruled(file, k), NEW j \in A PROVE j \in v <=> j \in u
    <3>1. \A r : Separates(file, k + 1, j, r) => Separates(file, k, j, r)
      <4> SUFFICES ASSUME NEW r, Separates(file, k + 1, j, r) PROVE Separates(file, k, j, r)
        OBVIOUS
      <4>1. r \in 1 .. k /\ file[r].field \in RuleFields /\ j < r
        BY <2>3
      <4>2. PICK m \in A : ~(m < r)
        BY <2>7, <4>1 DEF Ruled
      <4>3. file[m].field = "user-agent" /\ m \in 1 .. k
        BY DEF AgentLines
      <4>4. m # r
        BY <4>1, <4>3 DEF RuleFields
      <4>5. r < m
        BY <4>1, <4>2, <4>3, <4>4
      <4> QED
        BY <4>1, <4>5 DEF Separates
    <3>2. \A r : Separates(file, k, j, r) => Separates(file, k + 1, j, r)
      BY <2>3 DEF Separates
    <3> QED
      BY <1>3, <2>1, <3>1, <3>2
  <2>8. \A j \in v : j \in A \/ j = k + 1
    BY <1>3, <2>1
  <2>9. \A j \in u : j \in A
    BY <1>3
  <2> HIDE DEF A, B, u, v
  <2>10. Ruled(file, k) \/ A = {} => v = {k + 1}
    BY <2>5, <2>6, <2>8
  <2>11. ~Ruled(file, k) => v = u \cup {k + 1}
    BY <2>5, <2>7, <2>8, <2>9
  <2> QED
    BY <2>1, <2>4, <2>10, <2>11
<1>6. ASSUME file[k + 1].field # "user-agent"
      PROVE  /\ B = A /\ v = u
             /\ file[k + 1].field \in RuleFields => Ruled(file, k + 1)
             /\ file[k + 1].field \notin RuleFields => (Ruled(file, k + 1) <=> Ruled(file, k))
  <2>1. B = A
    BY <1>1, <1>6 DEF AgentLines
  <2>2. \A j, r : Separates(file, k + 1, j, r) <=> Separates(file, k, j, r)
    BY <1>1, <1>2, <1>4, <2>1 DEF Separates
  <2>3. v = u
    BY <1>3, <2>1, <2>2
  <2>4. file[k + 1].field \in RuleFields => Ruled(file, k + 1)
    BY <1>1, <1>2, <1>4, <2>1 DEF Ruled
  <2>5. file[k + 1].field \notin RuleFields => (Ruled(file, k + 1) <=> Ruled(file, k))
    BY <1>1, <2>1 DEF Ruled
  <2> QED
    BY <2>1, <2>3, <2>4, <2>5
<1> QED
  BY <1>5, <1>6

\* What the rules of a group are for: its agents, with each of its rules.
PairsOf(g) == {<<ToSet(g.agents), r>> : r \in ToSet(g.rules)}
AllPairs(s) == UNION {PairsOf(s[i]) : i \in DOMAIN s}

LEMMA PairsJoined ==
  ASSUME NEW G, NEW s \in Seq(G), NEW c \in Seq(G)
  PROVE  /\ AllPairs(s \o c) = AllPairs(s) \cup AllPairs(c)
         /\ c = <<>> => AllPairs(c) = {}
         /\ c # <<>> /\ Len(c) <= 1 => AllPairs(c) = PairsOf(c[1])
<1>1. /\ DOMAIN s = 1 .. Len(s) /\ DOMAIN c = 1 .. Len(c) /\ Len(s) \in Nat /\ Len(c) \in Nat
      /\ DOMAIN (s \o c) = 1 .. Len(s) + Len(c)
      /\ \A i \in 1 .. Len(s) : (s \o c)[i] = s[i]
      /\ \A i \in 1 .. Len(c) : (s \o c)[Len(s) + i] = c[i]
  OBVIOUS
<1>2. /\ \A i \in DOMAIN (s \o c) : (\E j \in DOMAIN s : (s \o c)[i] = s[j]) \/ \E j \in DOMAIN c : (s \o c)[i] = c[j]
      /\ \A j \in DOMAIN s : j \in DOMAIN (s \o c) /\ (s \o c)[j] = s[j]
      /\ \A j \in DOMAIN c : Len(s) + j \in DOMAIN (s \o c) /\ (s \o c)[Len(s) + j] = c[j]
  <2>1. ASSUME NEW i \in DOMAIN (s \o c)
        PROVE  (\E j \in DOMAIN s : (s \o c)[i] = s[j]) \/ \E j \in DOMAIN c : (s \o c)[i] = c[j]
    <3>1. CASE i <= Len(s)
      BY <1>1, <3>1
    <3>2. CASE i > Len(s)
      <4>1. i - Len(s) \in 1 .. Len(c) /\ i = Len(s) + (i - Len(s))
        BY <1>1, <3>2
      <4> QED
        BY <1>1, <4>1
    <3> QED
      BY <1>1, <3>1, <3>2
  <2> QED
    BY <1>1, <2>1
<1>3. AllPairs(s \o c) = AllPairs(s) \cup AllPairs(c)
  <2> DEFINE t == s \o c
  <2>1. \A x : x \in AllPairs(t) <=> \E i \in DOMAIN t : x \in PairsOf(t[i])
    BY DEF AllPairs
  <2>2. \A x : x \in AllPairs(s) <=> \E i \in DOMAIN s : x \in PairsOf(s[i])
    BY DEF AllPairs
  <2>3. \A x : x \in AllPairs(c) <=> \E i \in DOMAIN c : x \in PairsOf(c[i])
    BY DEF AllPairs
  <2> HIDE DEF t
  <2> QED
    BY <1>2, <2>1, <2>2, <2>3 DEF t
<1>4. c = <<>> => AllPairs(c) = {}
  BY <1>1 DEF AllPairs
<1>5. ASSUME c # <<>>, Len(c) <= 1 PROVE AllPairs(c) = PairsOf(c[1])
  <2>1. DOMAIN c = {1}
    BY <1>1, <1>5
  <2> QED
    BY <2>1 DEF AllPairs
<1> QED
  BY <1>3, <1>4, <1>5

\* What a parser that has read the first k lines has understood of them.
ValuesAt(file, J) == {file[j].value : j \in J}

LinePairs(file, k) ==
  {<<ValuesAt(file, Under(file, i)), RuleOfLine(file[i])>> :
     i \in {i \in 1 .. k : file[i].field \in {"allow", "disallow"} /\ Under(file, i) # {}}}

Understood(file, k, a) ==
  /\ a.cur = <<>> <=> AgentLines(file, k) = {}
  /\ a.lastWasRule <=> AgentLines(file, k) # {} /\ Ruled(file, k)
  /\ a.cur # <<>> =>
       /\ ToSet(a.cur[1].agents) = ValuesAt(file, Under(file, k + 1))
       /\ ~a.lastWasRule => a.cur[1].rules = <<>>
  /\ AllPairs(a.groups) \cup AllPairs(a.cur) = LinePairs(file, k)

LEMMA LinePairsNext ==
  ASSUME NEW file, NEW k \in Nat
  PROVE  LET u == Under(file, k + 1) IN
         LinePairs(file, k + 1) =
           IF file[k + 1].field \in {"allow", "disallow"} /\ u # {}
           THEN LinePairs(file, k) \cup {<<ValuesAt(file, u), RuleOfLine(file[k + 1])>>}
           ELSE LinePairs(file, k)
<1> DEFINE Pair(i) == <<ValuesAt(file, Under(file, i)), RuleOfLine(file[i])>>
           Counts(i) == file[i].field \in {"allow", "disallow"} /\ Under(file, i) # {}
<1>1. \A i : i \in 1 .. k + 1 <=> (i \in 1 .. k \/ i = k + 1)
  OBVIOUS
<1>2. \A x : /\ x \in LinePairs(file, k) <=> \E i \in 1 .. k : Counts(i) /\ x = Pair(i)
             /\ x \in LinePairs(file, k + 1) <=> \E i \in 1 .. k + 1 : Counts(i) /\ x = Pair(i)
  BY DEF LinePairs
<1> HIDE DEF Pair
<1>3. CASE Counts(k + 1)
  <2>1. LinePairs(file, k + 1) = LinePairs(file, k) \cup {Pair(k + 1)}
    <3> HIDE DEF Counts
    <3> QED
      BY <1>1, <1>2, <1>3
  <2> QED
    BY <1>3, <2>1 DEF Pair
<1>4. CASE ~Counts(k + 1)
  <2>1. LinePairs(file, k + 1) = LinePairs(file, k)
    <3> HIDE DEF Counts
    <3> QED
      BY <1>1, <1>2, <1>4
  <2> QED
    BY <1>4, <2>1
<1> QED
  BY <1>3, <1>4

LEMMA UnderstoodNext ==
  ASSUME NEW C, NEW V, NEW file, NEW k \in Nat, file[k + 1] \in RobotsLines(C, V),
         NEW a \in Parsing(C, V), Understood(file, k, a)
  PROVE  Understood(file, k + 1, ReadLine(a, file[k + 1]))
<1> DEFINE l == file[k + 1]
           b == ReadLine(a, l)
           A == AgentLines(file, k)
           u == Under(file, k + 1)
           v == Under(file, (k + 1) + 1)
           G == GroupsOf(C, V)
<1>1. /\ a.groups \in Seq(G) /\ a.cur \in Seq(G) /\ Len(a.cur) <= 1 /\ a.lastWasRule \in BOOLEAN
      /\ b.groups \in Seq(G) /\ b.cur \in Seq(G) /\ Len(b.cur) <= 1 /\ b.lastWasRule \in BOOLEAN
  BY ReadLineTyped DEF Parsing
<1>2. \A c \in Seq(G) : c # <<>> /\ Len(c) <= 1 =>
        /\ c[1].agents \in Seq(Seq(C)) /\ c[1].rules \in Seq(RulesOf(C))
        /\ AllPairs(c) = PairsOf(c[1])
  <2> TAKE c \in Seq(G)
  <2> HAVE c # <<>> /\ Len(c) <= 1
  <2>1. c[1] \in G
    OBVIOUS
  <2>2. c[1].agents \in Seq(Seq(C)) /\ c[1].rules \in Seq(RulesOf(C))
    BY <2>1 DEF GroupsOf
  <2>3. AllPairs(c) = PairsOf(c[1])
    BY PairsJoined
  <2> QED
    BY <2>2, <2>3
<1>3. l.field \in {"user-agent", "allow", "disallow", "crawl-delay", "other"}
  BY DEF RobotsLines
<1>4. \A g : g.rules = <<>> => PairsOf(g) = {}
  <2>1. ToSet(<<>>) = {}
    BY DEF ToSet
  <2> QED
    BY <2>1 DEF PairsOf
<1>5. u = {} <=> A = {}
  BY UnderIs
<1>10. ReadsTo(a, l, b)
  BY ReadLineIs
<1> HIDE DEF b, l, G
<1>6. CASE l.field = "user-agent"
  <2>1. /\ b.cur # <<>> /\ ~b.lastWasRule
        /\ a.lastWasRule \/ a.cur = <<>> =>
             /\ b.groups = a.groups \o a.cur
             /\ b.cur[1].agents = <<l.value>> /\ b.cur[1].rules = <<>>
        /\ ~a.lastWasRule /\ a.cur # <<>> =>
             /\ b.groups = a.groups /\ b.cur[1].rules = a.cur[1].rules
             /\ b.cur[1].agents = Append(a.cur[1].agents, l.value)
    BY <1>6, <1>10 DEF ReadsTo
  <2>2. /\ AgentLines(file, k + 1) # {} /\ ~Ruled(file, k + 1)
        /\ Ruled(file, k) \/ A = {} => v = {k + 1}
        /\ ~Ruled(file, k) => v = u \cup {k + 1}
    BY <1>6, UnderNext DEF l
  <2>3. LinePairs(file, k + 1) = LinePairs(file, k)
    BY <1>6, LinePairsNext DEF l
  <2>4. b.cur[1].rules = <<>> /\ AllPairs(b.cur) = {}
    <3>1. b.cur[1].rules = <<>>
      BY <2>1 DEF Understood
    <3> QED
      BY <1>1, <1>2, <1>4, <2>1, <3>1
  <2>7. l.value \in Seq(C)
    BY <1>6 DEF RobotsLines, l
  <2>5. CASE a.lastWasRule \/ a.cur = <<>>
    <3>1. v = {k + 1}
      BY <2>2, <2>5 DEF Understood
    <3>2. ToSet(<<l.value>>) = {l.value}
      <4>1. DOMAIN <<l.value>> = {1} /\ <<l.value>>[1] = l.value
        OBVIOUS
      <4> QED
        BY <4>1 DEF ToSet
    <3>3. ToSet(b.cur[1].agents) = ValuesAt(file, v)
      BY <2>1, <2>5, <3>1, <3>2 DEF ValuesAt, l
    <3>4. AllPairs(b.groups) = AllPairs(a.groups) \cup AllPairs(a.cur)
      <4>1. AllPairs(a.groups \o a.cur) = AllPairs(a.groups) \cup AllPairs(a.cur)
        BY <1>1, PairsJoined
      <4> QED
        BY <2>1, <2>5, <4>1
    <3> QED
      BY <2>1, <2>2, <2>3, <2>4, <3>3, <3>4 DEF Understood, b, l
  <2>6. CASE ~a.lastWasRule /\ a.cur # <<>>
    <3>1. v = u \cup {k + 1}
      BY <2>2, <2>6 DEF Understood
    <3>2. ToSet(b.cur[1].agents) = ToSet(a.cur[1].agents) \cup {l.value}
      <4> DEFINE agents == a.cur[1].agents
      <4>1. agents \in Seq(Seq(C)) /\ b.cur[1].agents = Append(agents, l.value)
        BY <1>1, <1>2, <2>1, <2>6
      <4> HIDE DEF agents
      <4>2. ToSet(Append(agents, l.value)) = ToSet(agents) \cup {l.value}
        BY <2>7, <4>1, SetOfAppended
      <4> QED
        BY <4>1, <4>2 DEF agents
    <3>3. ToSet(b.cur[1].agents) = ValuesAt(file, v)
      BY <2>6, <3>1, <3>2 DEF Understood, ValuesAt, l
    <3>4. AllPairs(a.cur) = {}
      BY <1>1, <1>2, <1>4, <2>6 DEF Understood
    <3> QED
      BY <2>1, <2>2, <2>3, <2>4, <2>6, <3>3, <3>4 DEF Understood, b, l
  <2> QED
    BY <1>1, <2>5, <2>6
<1>7. CASE l.field \in {"allow", "disallow"} /\ a.cur # <<>>
  <2>1. /\ b.cur # <<>> /\ b.lastWasRule /\ b.groups = a.groups
        /\ b.cur[1].agents = a.cur[1].agents
        /\ b.cur[1].rules = Append(a.cur[1].rules, RuleOfLine(l))
    BY <1>7, <1>10 DEF ReadsTo
  <2>2. AgentLines(file, k + 1) = A /\ v = u /\ Ruled(file, k + 1)
    BY <1>7, UnderNext DEF l, RuleFields
  <2>3. A # {} /\ u # {} /\ ToSet(a.cur[1].agents) = ValuesAt(file, u)
    BY <1>5, <1>7 DEF Understood
  <2>4. LinePairs(file, k + 1) = LinePairs(file, k) \cup {<<ValuesAt(file, u), RuleOfLine(l)>>}
    BY <1>7, <2>3, LinePairsNext DEF l
  <2>8. RuleOfLine(l) \in RulesOf(C)
    BY <1>7 DEF RobotsLines, RulesOf, RuleOfLine, l
  <2>5. ToSet(b.cur[1].rules) = ToSet(a.cur[1].rules) \cup {RuleOfLine(l)}
    BY <1>1, <1>2, <1>7, <2>1, <2>8, SetOfAppended
  <2>6. PairsOf(b.cur[1]) = PairsOf(a.cur[1]) \cup {<<ValuesAt(file, u), RuleOfLine(l)>>}
    BY <2>1, <2>3, <2>5 DEF PairsOf
  <2>7. AllPairs(b.cur) = AllPairs(a.cur) \cup {<<ValuesAt(file, u), RuleOfLine(l)>>}
    BY <1>1, <1>2, <1>7, <2>1, <2>6
  <2> QED
    BY <2>1, <2>2, <2>3, <2>4, <2>7 DEF Understood, b, l
<1>8. CASE l.field = "crawl-delay" /\ a.cur # <<>>
  <2>1. /\ b.cur # <<>> /\ b.lastWasRule /\ b.groups = a.groups
        /\ b.cur[1].agents = a.cur[1].agents /\ b.cur[1].rules = a.cur[1].rules
    BY <1>8, <1>10 DEF ReadsTo
  <2>2. AgentLines(file, k + 1) = A /\ v = u /\ Ruled(file, k + 1)
    BY <1>8, UnderNext DEF l, RuleFields
  <2>3. LinePairs(file, k + 1) = LinePairs(file, k)
    BY <1>8, LinePairsNext DEF l
  <2>4. AllPairs(b.cur) = AllPairs(a.cur)
    <3>1. PairsOf(b.cur[1]) = PairsOf(a.cur[1])
      BY <2>1 DEF PairsOf
    <3> QED
      BY <1>1, <1>2, <1>8, <2>1, <3>1
  <2>5. A # {} /\ ToSet(a.cur[1].agents) = ValuesAt(file, u)
    BY <1>8 DEF Understood
  <2> QED
    BY <2>1, <2>2, <2>3, <2>4, <2>5 DEF Understood, b, l
<1>9. CASE l.field = "other" \/ (l.field # "user-agent" /\ a.cur = <<>>)
  <2>1. b = a
    BY <1>9, <1>10 DEF ReadsTo
  <2>2. /\ AgentLines(file, k + 1) = A /\ v = u
        /\ l.field \notin RuleFields => (Ruled(file, k + 1) <=> Ruled(file, k))
    BY <1>9, UnderNext DEF l
  <2>3. a.cur = <<>> => A = {} /\ u = {}
    BY <1>5 DEF Understood
  <2>4. LinePairs(file, k + 1) = LinePairs(file, k)
    BY <1>9, <2>3, LinePairsNext DEF l
  <2>5. a.lastWasRule <=> A # {} /\ Ruled(file, k + 1)
    <3>1. l.field = "other" => l.field \notin RuleFields
      BY DEF RuleFields
    <3> QED
      BY <1>9, <2>2, <2>3, <3>1 DEF Understood
  <2> QED
    BY <2>1, <2>2, <2>4, <2>5 DEF Understood, b, l
<1> QED
  BY <1>3, <1>6, <1>7, <1>8, <1>9

\* robots.rs, parse: every rule is in the group of the User-agent lines above it,
\* and in no other, wherever blank and other lines stand.
THEOREM RobotsGroups ==
  ASSUME NEW C, NEW V, NEW file \in Seq(RobotsLines(C, V))
  PROVE  GroupsFollowLines(file)
<1> DEFINE n == Len(file)
<1>1. PICK f \in [0 .. n -> Parsing(C, V)] :
           /\ f[0] = Fresh
           /\ \A k \in 0 .. n - 1 : f[k + 1] = ReadLine(f[k], file[k + 1])
           /\ Parse(file) = f[n].groups \o f[n].cur
  BY ParseAlong
<1>2. n \in Nat /\ DOMAIN file = 1 .. n /\ \A i \in 1 .. n : file[i] \in RobotsLines(C, V)
  OBVIOUS
<1> HIDE DEF n
<1> DEFINE T == {k \in Nat : k <= n => Understood(file, k, f[k])}
<1>3. 0 \in T
  <2>1. f[0].groups = <<>> /\ f[0].cur = <<>> /\ f[0].lastWasRule = FALSE
    BY <1>1 DEF Fresh
  <2>2. AgentLines(file, 0) = {} /\ LinePairs(file, 0) = {}
    BY DEF AgentLines, LinePairs
  <2>3. AllPairs(<<>>) = {}
    BY DEF AllPairs
  <2> QED
    BY <2>1, <2>2, <2>3 DEF Understood
<1>4. ASSUME NEW k \in Nat, k \in T PROVE k + 1 \in T
  <2> SUFFICES ASSUME k + 1 <= n PROVE Understood(file, k + 1, f[k + 1])
    OBVIOUS
  <2>1. k \in 0 .. n - 1 /\ k \in 0 .. n /\ k + 1 \in 1 .. n /\ k <= n
    BY <1>2
  <2>2. f[k] \in Parsing(C, V) /\ file[k + 1] \in RobotsLines(C, V) /\ Understood(file, k, f[k])
    BY <1>1, <1>2, <1>4, <2>1
  <2>3. f[k + 1] = ReadLine(f[k], file[k + 1])
    BY <1>1, <2>1
  <2> QED
    BY <2>2, <2>3, UnderstoodNext
<1> HIDE DEF T
<1>5. n \in T
  BY <1>2, <1>3, <1>4, SetInduction
<1>6. Understood(file, n, f[n])
  <2>1. n <= n
    BY <1>2
  <2> QED
    BY <1>5, <2>1 DEF T
<1>7. f[n].groups \in Seq(GroupsOf(C, V)) /\ f[n].cur \in Seq(GroupsOf(C, V))
  <2>1. f[n] \in Parsing(C, V)
    BY <1>1, <1>2
  <2> QED
    BY <2>1 DEF Parsing
<1>8. AllPairs(Parse(file)) = LinePairs(file, n)
  <2>1. AllPairs(f[n].groups \o f[n].cur) = AllPairs(f[n].groups) \cup AllPairs(f[n].cur)
    BY <1>7, PairsJoined
  <2> QED
    BY <1>1, <1>6, <2>1 DEF Understood
<1>9. UNION {{<<ToSet(g.agents), r>> : r \in ToSet(g.rules)} : g \in ToSet(Parse(file))} = AllPairs(Parse(file))
  BY DEF AllPairs, PairsOf, ToSet
<1>10. LinePairs(file, n) =
         {<<{file[j].value : j \in Under(file, i)},
            [allow |-> file[i].field = "allow", pattern |-> file[i].value]>> :
            i \in {k \in DOMAIN file : file[k].field \in {"allow", "disallow"} /\ Under(file, k) # {}}}
  BY <1>2 DEF LinePairs, ValuesAt, RuleOfLine
<1> QED
  BY <1>8, <1>9, <1>10 DEF GroupsFollowLines

-----------------------------------------------------------------------------
\* What a pattern denotes.

\* The places before character i of a pattern, from the places behind it.
Before(pattern, path, i, next) ==
  IF pattern[i] = "$" /\ i = Len(pattern) THEN {Len(path)}
  ELSE IF pattern[i] = "*" THEN {j \in 0..Len(path) : \E k \in next : j <= k}
  ELSE {j \in 0..Len(path) : j < Len(path) /\ pattern[i] = path[j + 1] /\ j + 1 \in next}

\* The function that Denotes takes the value of.
Places(g, pattern, path) ==
  g = [i \in 0..Len(pattern) |->
        IF i = Len(pattern) THEN 0..Len(path) ELSE Before(pattern, path, i + 1, g[i + 1])]

LEMMA PlacesExist ==
  ASSUME NEW C, NEW pattern \in Seq(C), NEW path \in Seq(C)
  PROVE  \E g \in [0..Len(pattern) -> SUBSET (0..Len(path))] : Places(g, pattern, path)
<1> DEFINE n == Len(pattern)
           m == Len(path)
           W == SUBSET (0..m)
           all == 0..m
           next == [kr \in Nat \X W |-> Before(pattern, path, n - kr[1], kr[2])]
<1>1. n \in Nat /\ m \in Nat
  OBVIOUS
<1>2. all \in W
  OBVIOUS
<1>3. next \in [Nat \X W -> W]
  <2>1. \A kr \in Nat \X W : Before(pattern, path, n - kr[1], kr[2]) \in W
    BY <1>1 DEF Before
  <2> QED
    BY <2>1
<1>4. PICK h \in [Nat -> W] : Recursive(h, all, next)
  <2> HIDE DEF next, W, all
  <2> QED
    BY <1>2, <1>3, RecursionOnNat
<1>5. \A k \in Nat : next[<<k, h[k]>>] = Before(pattern, path, n - k, h[k])
  <2>1. \A k \in Nat : <<k, h[k]>> \in Nat \X W
    BY <1>4
  <2> QED
    BY <2>1
<1> HIDE DEF next, all
<1>6. h[0] = all /\ \A k \in Nat : h[k + 1] = Before(pattern, path, n - k, h[k])
  BY <1>4, <1>5 DEF Recursive
<1> DEFINE g == [i \in 0..n |-> h[n - i]]
<1>7. \A i \in 0..n : n - i \in Nat
  BY <1>1
<1>8. g \in [0..n -> W]
  BY <1>4, <1>7
<1>9. ASSUME NEW i \in 0..n
      PROVE  g[i] = IF i = n THEN 0..m ELSE Before(pattern, path, i + 1, g[i + 1])
  <2>1. CASE i = n
    BY <1>1, <1>6, <2>1 DEF all
  <2>2. CASE i # n
    <3> DEFINE k == (n - i) - 1
    <3>1. k \in Nat /\ k + 1 = n - i /\ n - k = i + 1 /\ n - (i + 1) = k /\ i + 1 \in 0..n
      BY <1>1, <2>2
    <3>2. g[i] = h[k + 1] /\ g[i + 1] = h[k]
      BY <3>1
    <3> HIDE DEF k, g
    <3> QED
      BY <1>6, <2>2, <3>1, <3>2
  <2> QED
    BY <2>1, <2>2
<1>10. Places(g, pattern, path)
  <2> HIDE DEF W
  <2>1. g = [i \in 0..n |-> g[i]]
    BY <1>8
  <2> HIDE DEF g
  <2> QED
    BY <1>9, <2>1 DEF Places
<1> QED
  BY <1>8, <1>10

LEMMA DenotesIs ==
  ASSUME NEW C, NEW pattern \in Seq(C), NEW path \in Seq(C)
  PROVE  \E g : Places(g, pattern, path) /\ (Denotes(pattern, path) <=> 0 \in g[0])
<1> DEFINE c == CHOOSE g : Places(g, pattern, path)
<1>1. Places(c, pattern, path)
  BY PlacesExist
<1>2. Denotes(pattern, path) <=> 0 \in c[0]
  BY Zenon DEF Denotes, Places, Before
<1> QED
  BY <1>1, <1>2

\* The same for the pattern without its anchor.
Along(C, pat, path, end, g) ==
  /\ pat \in Seq(C) /\ path \in Seq(C)
  /\ g \in [0..Len(pat) -> SUBSET (0..Len(path))]
  /\ g[Len(pat)] = end
  /\ \A i \in 1..Len(pat) : pat[i] = "*" => g[i - 1] = {j \in 0..Len(path) : \E k \in g[i] : j <= k}
  /\ \A i \in 1..Len(pat) : pat[i] # "*" =>
       g[i - 1] = {j \in 0..Len(path) : j < Len(path) /\ pat[i] = path[j + 1] /\ j + 1 \in g[i]}

Ends(pattern, path) == IF IsAnchored(pattern) THEN {Len(path)} ELSE 0..Len(path)

LEMMA DenotesAlong ==
  ASSUME NEW C, NEW pattern \in Seq(C), NEW path \in Seq(C)
  PROVE  \E g : /\ Along(C, Unanchored(pattern), path, Ends(pattern, path), g)
                /\ Denotes(pattern, path) <=> 0 \in g[0]
<1> DEFINE n == Len(pattern)
           m == Len(path)
           pat == Unanchored(pattern)
           N == IF IsAnchored(pattern) THEN n - 1 ELSE n
<1>1. PICK g : Places(g, pattern, path) /\ (Denotes(pattern, path) <=> 0 \in g[0])
  BY DenotesIs
<1>2. n \in Nat /\ m \in Nat
  OBVIOUS
<1>3. \A i \in 0..n : g[i] = IF i = n THEN 0..m ELSE Before(pattern, path, i + 1, g[i + 1])
  BY <1>1 DEF Places
<1>4. IsAnchored(pattern) <=> n > 0 /\ pattern[n] = "$"
  BY DEF IsAnchored, Last
<1>5. /\ pat \in Seq(C) /\ Len(pat) = N /\ N \in 0..n
      /\ \A i \in 1..N : pat[i] = pattern[i]
  <2>1. CASE IsAnchored(pattern)
    <3>1. pat = SubSeq(pattern, 1, n - 1)
      BY <2>1 DEF Unanchored, Front
    <3>2. N = n - 1 /\ n - 1 \in 0..n /\ n - 1 <= n
      BY <1>2, <1>4, <2>1
    <3>3. /\ SubSeq(pattern, 1, n - 1) \in Seq(C) /\ Len(SubSeq(pattern, 1, n - 1)) = n - 1
          /\ \A i \in 1..n - 1 : SubSeq(pattern, 1, n - 1)[i] = pattern[i]
      <4>1. n - 1 \in Nat /\ n - 1 <= Len(pattern)
        BY <1>2, <3>2
      <4> QED
        BY <4>1, PrefixIs
    <3> QED
      BY <3>1, <3>2, <3>3
  <2>2. CASE ~IsAnchored(pattern)
    BY <1>2, <2>2 DEF Unanchored
  <2> QED
    BY <2>1, <2>2
<1> HIDE DEF n, m
<1>6. g[N] = Ends(pattern, path)
  <2>1. CASE IsAnchored(pattern)
    <3>1. N = n - 1 /\ n - 1 \in 0..n /\ n - 1 # n /\ (n - 1) + 1 = n
      BY <1>2, <1>4, <2>1
    <3>2. g[N] = Before(pattern, path, n, g[n])
      BY <1>3, <3>1
    <3> QED
      BY <1>4, <2>1, <3>2 DEF Before, Ends, n
  <2>2. CASE ~IsAnchored(pattern)
    <3>1. n \in 0..n
      BY <1>2
    <3> QED
      BY <1>3, <2>2, <3>1 DEF Ends, m
  <2> QED
    BY <2>1, <2>2
<1>7. ASSUME NEW i \in 1..N
      PROVE  g[i - 1] = IF pat[i] = "*" THEN {j \in 0..m : \E k \in g[i] : j <= k}
                        ELSE {j \in 0..m : j < m /\ pat[i] = path[j + 1] /\ j + 1 \in g[i]}
  <2>1. i - 1 \in 0..n /\ i - 1 # n /\ (i - 1) + 1 = i /\ i \in 1..n
    BY <1>2, <1>5
  <2>2. ~(pattern[i] = "$" /\ i = n)
    BY <1>2, <1>4, <2>1
  <2>3. g[i - 1] = Before(pattern, path, i, g[i]) /\ pat[i] = pattern[i]
    BY <1>3, <1>5, <2>1
  <2> HIDE DEF pat
  <2> QED
    BY <2>2, <2>3 DEF Before, n, m
<1>8. \A i \in 0..N : g[i] \in SUBSET (0..m)
  <2> TAKE i \in 0..N
  <2>1. CASE i = N
    BY <1>2, <1>6, <2>1 DEF Ends, m
  <2>2. CASE i # N
    <3>1. i + 1 \in 1..N /\ (i + 1) - 1 = i
      BY <1>5, <2>2, <1>2
    <3>2. g[(i + 1) - 1] = IF pat[i + 1] = "*" THEN {j \in 0..m : \E k \in g[i + 1] : j <= k}
                           ELSE {j \in 0..m : j < m /\ pat[i + 1] = path[j + 1] /\ j + 1 \in g[i + 1]}
      BY <1>7, <3>1
    <3> HIDE DEF pat
    <3> QED
      BY <3>1, <3>2
  <2> QED
    BY <2>1, <2>2
<1> DEFINE e == [i \in 0..N |-> g[i]]
<1>9. e \in [0..N -> SUBSET (0..m)] /\ \A i \in 0..N : e[i] = g[i]
  BY <1>8
<1>10. 0 \in 0..N /\ N \in 0..N /\ N = Len(pat) /\ \A i \in 1..N : i \in 0..N /\ i - 1 \in 0..N
  BY <1>2, <1>5
<1> HIDE DEF e, N
<1>11. Along(C, pat, path, Ends(pattern, path), e)
  <2> HIDE DEF pat
  <2>1. /\ \A i \in 1..N : pat[i] = "*" => e[i - 1] = {j \in 0..m : \E k \in e[i] : j <= k}
        /\ \A i \in 1..N : pat[i] # "*" =>
             e[i - 1] = {j \in 0..m : j < m /\ pat[i] = path[j + 1] /\ j + 1 \in e[i]}
    <3>1. \A i \in 1..N : e[i - 1] = g[i - 1] /\ e[i] = g[i]
      BY <1>9, <1>10
    <3> HIDE DEF Along
    <3> QED
      BY <1>7, <3>1
  <2> QED
    BY <1>5, <1>6, <1>9, <1>10, <2>1 DEF Along, m
<1> QED
  BY <1>1, <1>9, <1>10, <1>11

\* A piece of a pattern between wildcards matches where it stands.
IsPiece(s, pat, o) ==
  o + Len(s) <= Len(pat) /\ \A i \in 1..Len(s) : s[i] = pat[o + i] /\ s[i] # "*"

LEMMA PieceMatches ==
  ASSUME NEW C, NEW pat, NEW path, NEW end, NEW g, Along(C, pat, path, end, g),
         NEW s \in Seq(C), NEW o \in Nat, IsPiece(s, pat, o), NEW j \in Nat
  PROVE  j \in g[o] <=> OccursAt(s, path, j) /\ j + Len(s) \in g[o + Len(s)]
<1> o + Len(s) <= Len(pat) /\ \A i \in 1..Len(s) : s[i] = pat[o + i] /\ s[i] # "*"
  BY DEF IsPiece
<1> DEFINE l == Len(s)
           m == Len(path)
           Here(k) == j \in g[o] <=> /\ j + k <= m /\ \A i \in 1..k : s[i] = path[j + i]
                                     /\ j + k \in g[o + k]
           T == {k \in Nat : k <= l => Here(k)}
<1>1. /\ path \in Seq(C) /\ m \in Nat /\ l \in Nat /\ Len(pat) \in Nat
      /\ \A i \in 0..Len(pat) : g[i] \in SUBSET (0..m)
      /\ \A i \in 1..Len(pat) : pat[i] # "*" =>
           g[i - 1] = {x \in 0..m : x < m /\ pat[i] = path[x + 1] /\ x + 1 \in g[i]}
  <2>1. path \in Seq(C) /\ pat \in Seq(C) /\ g \in [0..Len(pat) -> SUBSET (0..m)]
    BY DEF Along
  <2>2. \A i \in 1..Len(pat) : pat[i] # "*" =>
           g[i - 1] = {x \in 0..m : x < m /\ pat[i] = path[x + 1] /\ x + 1 \in g[i]}
    BY DEF Along
  <2>3. m \in Nat /\ l \in Nat /\ Len(pat) \in Nat
    BY <2>1
  <2>4. \A i \in 0..Len(pat) : g[i] \in SUBSET (0..m)
    <3> HIDE DEF m
    <3> QED
      BY <2>1
  <2> QED
    BY <2>1, <2>2, <2>3, <2>4
<1> HIDE DEF m
<1>2. 0 \in T
  <2>1. o \in 0..Len(pat) /\ o + 0 = o /\ j + 0 = j
    BY <1>1
  <2>2. j \in g[o] => j <= m
    BY <1>1, <2>1
  <2> QED
    BY <2>1, <2>2
<1>3. ASSUME NEW k \in Nat, k \in T PROVE k + 1 \in T
  <2>1. k + 1 \in Nat
    OBVIOUS
  <2> SUFFICES ASSUME k + 1 <= l PROVE Here(k + 1)
    BY <2>1
  <2>2. Here(k)
    BY <1>1, <1>3
  <2>3. k + 1 \in 1..l /\ o + (k + 1) \in 1..Len(pat) /\ (o + (k + 1)) - 1 = o + k /\ (j + k) + 1 = j + (k + 1)
    <3> DEFINE n == Len(pat)
    <3>1. l \in Nat /\ n \in Nat /\ o + l <= n
      BY <1>1
    <3> HIDE DEF l, n
    <3>2. k + 1 \in 1..l /\ o + (k + 1) \in 1..n /\ (o + (k + 1)) - 1 = o + k /\ (j + k) + 1 = j + (k + 1)
      BY <3>1
    <3> QED
      BY <3>2 DEF n
  <2>4. s[k + 1] = pat[o + (k + 1)] /\ pat[o + (k + 1)] # "*"
    BY <2>3
  <2>5. j + k \in g[o + k] <=> /\ j + k \in 0..m /\ j + k < m
                               /\ s[k + 1] = path[j + (k + 1)] /\ j + (k + 1) \in g[o + (k + 1)]
    <3>1. g[o + k] = {x \in 0..m : x < m /\ pat[o + (k + 1)] = path[x + 1] /\ x + 1 \in g[o + (k + 1)]}
      BY <1>1, <2>3, <2>4
    <3> QED
      BY <2>3, <2>4, <3>1
  <2>6. (\A i \in 1..k + 1 : s[i] = path[j + i]) <=> (\A i \in 1..k : s[i] = path[j + i]) /\ s[k + 1] = path[j + (k + 1)]
    <3>1. \A i : i \in 1..k + 1 <=> (i \in 1..k \/ i = k + 1)
      BY <2>1
    <3> QED
      BY <3>1
  <2>7. (j + k \in 0..m /\ j + k < m) <=> j + (k + 1) <= m
    BY <1>1
  <2>8. j + (k + 1) <= m => j + k <= m
    BY <1>1
  <2> QED
    BY <2>2, <2>5, <2>6, <2>7, <2>8
<1> HIDE DEF T
<1>4. Here(l)
  <2>1. Nat \subseteq T
    BY <1>2, <1>3, SetInduction
  <2>2. l \in T /\ l <= l
    BY <1>1, <2>1
  <2> QED
    BY <2>2 DEF T
<1> USE DEF m
<1>5. OccursAt(s, path, j) <=> j + l <= m /\ \A i \in 1..l : s[i] = path[j + i]
  <2>1. SUFFICES ASSUME j + l <= m
                 PROVE  SubSeq(path, j + 1, j + l) = s <=> \A i \in 1..l : s[i] = path[j + i]
    BY DEF OccursAt
  <2>2. SubSeq(path, j + 1, j + l) = [i \in 1..l |-> path[j + i]]
    <3>1. SubSeq(path, j + 1, j + l) = [i \in 1..((j + l) - (j + 1)) + 1 |-> path[(i + (j + 1)) - 1]]
      BY <1>1, <2>1
    <3>2. ((j + l) - (j + 1)) + 1 = l /\ \A i \in 1..l : (i + (j + 1)) - 1 = j + i
      BY <1>1
    <3> QED
      BY <3>1, <3>2
  <2>3. s = [i \in 1..l |-> s[i]]
    BY <1>1
  <2> QED
    BY <2>2, <2>3
<1> QED
  BY <1>4, <1>5
\* The fold of rule_matches over the pieces behind the first.
PosRun(start, path, rest, f) ==
  /\ f \in [0 .. Len(rest) -> Nat] /\ f[0] = start
  /\ \A k \in 0 .. Len(rest) - 1 : f[k + 1] = FindFrom(rest[k + 1], path, f[k]) + Len(rest[k + 1])
  /\ FoldLeft(LAMBDA at, seg : FindFrom(seg, path, at) + Len(seg), start, rest) = f[Len(rest)]

LEMMA PosAlong ==
  ASSUME NEW C, NEW path \in Seq(C), NEW start \in Nat, NEW rest \in Seq(Seq(C))
  PROVE  \E f : PosRun(start, path, rest, f)
<1> DEFINE V == Nat
           E == Seq(C)
           step == [x \in V \X E |-> FindFrom(x[2], path, x[1]) + Len(x[2])]
           Solves(g) == g = [S \in SUBSET DOMAIN rest |->
             IF S = {} THEN start ELSE FindFrom(rest[Max(S)], path, g[S \ {Max(S)}]) + Len(rest[Max(S)])]
           c == CHOOSE g : Solves(g)
<1>1. Folding(V, E, start, step)
  <2>1. \A x \in Nat \X Seq(C) : FindFrom(x[2], path, x[1]) + Len(x[2]) \in Nat
    <3> TAKE x \in Nat \X Seq(C)
    <3>1. x[1] \in Nat /\ x[2] \in Seq(C) /\ Len(x[2]) \in Nat
      OBVIOUS
    <3>2. FindFrom(x[2], path, x[1]) \in Nat
      BY <3>1, FindFromIs
    <3> QED
      BY <3>1, <3>2
  <2> QED
    BY <2>1 DEF Folding
<1>2. /\ rest \in Seq(E) /\ DOMAIN rest = 1 .. Len(rest)
      /\ Len(rest) \in Nat /\ \A i \in 1 .. Len(rest) : rest[i] \in E
  OBVIOUS
<1>3. \A S \in SUBSET DOMAIN rest : S # {} => Max(S) \in DOMAIN rest /\ S \ {Max(S)} \in SUBSET DOMAIN rest
  BY <1>2, MaxOfFinite
<1> HIDE DEF V, E
<1>4. \A x \in V, y \in E : step[<<x, y>>] = FindFrom(y, path, x) + Len(y)
  OBVIOUS
<1> HIDE DEF step
<1>5. \E g : Solves(g)
  <2>1. PICK g : FoldsOver(g, start, step, rest) /\ \A S \in SUBSET DOMAIN rest : g[S] \in V
    BY <1>1, <1>2, FoldExists
  <2>2. \A S \in SUBSET DOMAIN rest : S # {} =>
          step[<<g[S \ {Max(S)}], rest[Max(S)]>>] = FindFrom(rest[Max(S)], path, g[S \ {Max(S)}]) + Len(rest[Max(S)])
    BY <1>2, <1>3, <1>4, <2>1
  <2>3. Solves(g)
    BY <2>1, <2>2 DEF FoldsOver
  <2> QED
    BY <2>3
<1>6. Solves(c)
  BY <1>5
<1> HIDE DEF c
<1>7. Follows(c, V, start, step, rest)
  <2>1. c[{}] = start
    BY <1>6
  <2>2. \A S \in SUBSET DOMAIN rest : S # {} /\ c[S \ {Max(S)}] \in V =>
          c[S] = step[<<c[S \ {Max(S)}], rest[Max(S)]>>]
    BY <1>2, <1>3, <1>4, <1>6
  <2> QED
    BY <2>1, <2>2 DEF Follows
<1>8. FoldLeft(LAMBDA at, seg : FindFrom(seg, path, at) + Len(seg), start, rest) = c[DOMAIN rest]
  BY Zenon DEF FoldLeft, MapThenFoldSet, c, Solves
<1> HIDE DEF Solves
<1>9. PICK f \in [0 .. Len(rest) -> V] :
        /\ f[0] = start /\ f[Len(rest)] = c[DOMAIN rest]
        /\ \A k \in 0 .. Len(rest) - 1 : f[k + 1] = step[<<f[k], rest[k + 1]>>]
  <2>1. \E f \in [0 .. Len(rest) -> V] :
        /\ f[0] = start /\ f[Len(rest)] = c[DOMAIN rest]
        /\ \A k \in 0 .. Len(rest) - 1 : f[k + 1] = step[<<f[k], rest[k + 1]>>]
    BY <1>1, <1>2, <1>7, FoldAlong, SMTT(60)
  <2> QED
    BY <2>1
<1>10. \A k \in 0 .. Len(rest) - 1 : f[k + 1] = FindFrom(rest[k + 1], path, f[k]) + Len(rest[k + 1])
  <2> TAKE k \in 0 .. Len(rest) - 1
  <2>1. k \in 0 .. Len(rest) /\ k + 1 \in 1 .. Len(rest)
    BY <1>2
  <2> QED
    BY <1>2, <1>4, <1>9, <2>1
<1> QED
  BY <1>8, <1>9, <1>10 DEF V, PosRun

\* A piece matches at a place and the path goes on behind it.
LEMMA PieceGoesOn ==
  ASSUME NEW C, NEW pat, NEW path, NEW end, NEW g, Along(C, pat, path, end, g),
         NEW s, NEW o, IsCut(C, pat, Len(pat), {"*"}, s, o),
         NEW q \in 1..Len(s), NEW j \in Nat
  PROVE  /\ s[q] \in Seq(C) /\ Len(s[q]) \in Nat
         /\ j \in g[o[q]] <=>
             /\ OccursAt(s[q], path, j)
             /\ q = Len(s) => j + Len(s[q]) \in end
             /\ q < Len(s) => \E k \in g[o[q + 1]] : j + Len(s[q]) <= k
<1> DEFINE N == Len(pat)
           m == Len(path)
           l == Len(s[q])
           u == o[q] + l
<1> DEFINE T == Seq(C)
<1>1. s \in Seq(T) /\ o \in [1..Len(s) -> Nat]
  BY DEF IsCut, Pieces
<1>8. pat \in Seq(C) /\ path \in Seq(C)
  BY DEF Along
<1> HIDE DEF N, m, l, u, T
<1>2. /\ s[q] \in Seq(C) /\ l \in Nat /\ o[q] \in Nat /\ N \in Nat /\ m \in Nat /\ Len(s) \in Nat
  <2>1. s[q] \in T /\ Len(s) \in Nat /\ o[q] \in Nat
    BY <1>1
  <2>2. s[q] \in Seq(C)
    BY <2>1 DEF T
  <2> QED
    BY <1>8, <2>1, <2>2 DEF l, N, m
<1>3. u <= N /\ u \in Nat
  BY <1>2, CutWithin DEF u, l, N
<1>4. \A i \in 1..l : s[q][i] = pat[o[q] + i] /\ s[q][i] # "*"
  BY DEF IsCut, l
<1>5. j \in g[o[q]] <=> OccursAt(s[q], path, j) /\ j + l \in g[u]
  <2>1. \A i \in 1..Len(s[q]) : s[q][i] = pat[o[q] + i] /\ s[q][i] # "*"
    BY <1>4 DEF l
  <2>2. s[q] \in Seq(C) /\ o[q] \in Nat /\ o[q] + Len(s[q]) <= Len(pat)
    BY <1>2, <1>3 DEF u, l, N
  <2>3. IsPiece(s[q], pat, o[q])
    BY <2>1, <2>2 DEF IsPiece
  <2>4. j \in g[o[q]] <=> OccursAt(s[q], path, j) /\ j + Len(s[q]) \in g[o[q] + Len(s[q])]
    BY <2>2, <2>3, PieceMatches
  <2> QED
    BY <2>4 DEF u, l
<1>6. CASE q = Len(s)
  <2>1. u = N
    BY <1>6 DEF IsCut, u, l, N
  <2>2. g[u] = end
    BY <2>1 DEF Along, N
  <2> QED
    BY <1>2, <1>5, <1>6, <2>2 DEF l
<1>7. CASE q < Len(s)
  <2>1. q \in 1..Len(s) - 1
    BY <1>2, <1>7
  <2>2. o[q + 1] = u + 1 /\ pat[u + 1] = "*"
    BY <2>1 DEF IsCut, u, l
  <2>3. u + 1 <= N
    <3>1. q + 1 \in 1..Len(s)
      BY <1>2, <2>1
    <3>2. o[q + 1] + Len(s[q + 1]) <= N /\ Len(s[q + 1]) \in Nat
      <4>1. s[q + 1] \in T
        BY <1>1, <3>1
      <4>2. Len(s[q + 1]) \in Nat
        BY <4>1 DEF T
      <4> QED
        BY <1>2, <3>1, <4>2, CutWithin DEF N
    <3> QED
      <4> DEFINE w == Len(s[q + 1])
      <4>1. (u + 1) + w <= N /\ w \in Nat
        BY <2>2, <3>2
      <4> HIDE DEF w
      <4> QED
        BY <1>2, <1>3, <4>1
  <2>4. u + 1 \in 1..N /\ (u + 1) - 1 = u
    BY <1>2, <1>3, <2>3
  <2>5. g[u] = {x \in 0..m : \E k \in g[u + 1] : x <= k}
    BY <2>2, <2>4 DEF Along, N, m
  <2>6. OccursAt(s[q], path, j) => j + l \in 0..m
    BY <1>2 DEF OccursAt, l, m
  <2>7. q # Len(s)
    BY <1>2, <1>7
  <2> QED
    BY <1>2, <1>5, <1>7, <2>2, <2>5, <2>6, <2>7 DEF l
<1> QED
  BY <1>2, <1>6, <1>7 DEF l

\* Where rule_matches stands behind each piece.
Greedy(path, s, F) ==
  /\ F \in [1..Len(s) -> Nat] /\ F[1] = Len(s[1])
  /\ \A q \in 2..Len(s) : F[q] = FindFrom(s[q], path, F[q - 1]) + Len(s[q])

LEMMA GreedyHops ==
  ASSUME NEW C, NEW path \in Seq(C), NEW s \in Seq(Seq(C)), NEW F, Greedy(path, s, F),
         NEW q \in 2..Len(s)
  PROVE  /\ F[q] \in Nat /\ F[q - 1] \in Nat /\ Len(s[q]) \in Nat
         /\ F[q] <= Len(path) =>
              \E b \in Nat : F[q - 1] <= b /\ OccursAt(s[q], path, b) /\ b + Len(s[q]) = F[q]
         /\ \A j \in F[q - 1]..Len(path) : OccursAt(s[q], path, j) => F[q] <= j + Len(s[q])
<1> DEFINE T == Seq(C)
<1>1. s \in Seq(T)
  OBVIOUS
<1> HIDE DEF T
<1>2. q \in 1..Len(s) /\ q - 1 \in 1..Len(s) /\ s[q] \in T
  BY <1>1
<1>3. s[q] \in Seq(C)
  BY <1>2 DEF T
<1> DEFINE b == FindFrom(s[q], path, F[q - 1])
           l == Len(s[q])
           m == Len(path)
<1>4. F[q] \in Nat /\ F[q - 1] \in Nat /\ F[q] = b + l
  BY <1>2 DEF Greedy
<1>5. l \in Nat
  BY <1>3
<1>6. m \in Nat
  OBVIOUS
<1>7. /\ b \in Nat
      /\ b <= m => F[q - 1] <= b /\ OccursAt(s[q], path, b)
      /\ \A j \in F[q - 1]..m : OccursAt(s[q], path, j) => b <= j
  <2> DEFINE from == F[q - 1]
  <2>1. from \in Nat
    BY <1>4
  <2> HIDE DEF from
  <2>2. /\ FindFrom(s[q], path, from) \in Nat
        /\ FindFrom(s[q], path, from) <= Len(path) =>
              from <= FindFrom(s[q], path, from) /\ OccursAt(s[q], path, FindFrom(s[q], path, from))
        /\ \A i \in from .. Len(path) : OccursAt(s[q], path, i) => FindFrom(s[q], path, from) <= i
    BY <1>3, <2>1, FindFromIs
  <2> QED
    BY <2>2 DEF from
<1> HIDE DEF b, l, m
<1>8. F[q] <= m => b <= m
  BY <1>4, <1>5, <1>6, <1>7
<1>9. \A j \in F[q - 1]..m : j \in Nat
  BY <1>4, <1>6
<1>10. \A j \in F[q - 1]..m : OccursAt(s[q], path, j) => F[q] <= j + l
  BY <1>4, <1>5, <1>7, <1>9
<1> QED
  BY <1>4, <1>5, <1>7, <1>8, <1>10 DEF l, m

\* rule_matches is right when it finds each piece in turn.
LEMMA GreedySound ==
  ASSUME NEW C, NEW pat, NEW path, NEW end, NEW g, Along(C, pat, path, end, g),
         NEW s, NEW o, IsCut(C, pat, Len(pat), {"*"}, s, o), NEW F, Greedy(path, s, F),
         OccursAt(s[1], path, 0), F[Len(s)] <= Len(path),
         F[Len(s)] \in end \/ (Len(s) > 1 /\ s[Len(s)] = <<>> /\ Len(path) \in end)
  PROVE  0 \in g[0]
<1> DEFINE r == Len(s)
           m == Len(path)
           Ok(q) == \E b \in Nat : F[q - 1] <= b /\ b \in g[o[q]]
           T == {d \in Nat : d < r - 1 => Ok(r - d)}
<1>1. path \in Seq(C) /\ m \in Nat
  BY DEF Along
<1>2. s \in Seq(Seq(C)) /\ r \in Nat /\ r > 0 /\ o[1] = 0
  <2>1. s \in Seq(Seq(C)) /\ s # <<>> /\ o[1] = 0
    BY DEF IsCut, Pieces
  <2> QED
    BY <2>1
<1>3. ASSUME NEW q \in 2..r, F[q] <= m
      PROVE  \E b \in Nat : F[q - 1] <= b /\ OccursAt(s[q], path, b) /\ b + Len(s[q]) = F[q]
  BY <1>1, <1>2, <1>3, GreedyHops
<1>4. \A q \in 2..r : F[q] \in Nat /\ F[q - 1] \in Nat /\ Len(s[q]) \in Nat
  BY <1>1, <1>2, GreedyHops
<1>5. ASSUME NEW q \in 1..r, NEW j \in Nat
      PROVE  j \in g[o[q]] <=> /\ OccursAt(s[q], path, j)
                               /\ q = r => j + Len(s[q]) \in end
                               /\ q < r => \E k \in g[o[q + 1]] : j + Len(s[q]) <= k
  BY PieceGoesOn
<1>6. ASSUME NEW q \in 1..r PROVE g[o[q]] \subseteq 0..m
  <2>1. o[q] \in Nat /\ Len(s[q]) \in Nat
    <3>1. q \in 1..Len(s) /\ 0 \in Nat
      OBVIOUS
    <3>2. Len(s[q]) \in Nat
      BY <3>1, PieceGoesOn
    <3>3. o \in [1..Len(s) -> Nat]
      BY DEF IsCut
    <3> QED
      BY <3>1, <3>2, <3>3
  <2>2. o[q] + Len(s[q]) <= Len(pat) /\ Len(pat) \in Nat
    <3>1. Len(pat) \in Nat
      BY DEF Along
    <3> QED
      BY <3>1, CutWithin
  <2>3. o[q] \in 0..Len(pat)
    BY <2>1, <2>2
  <2>4. g \in [0..Len(pat) -> SUBSET (0..m)]
    BY DEF Along
  <2> QED
    BY <2>3, <2>4
<1> HIDE DEF r, m
<1>7. 0 \in T
  <2> SUFFICES ASSUME r > 1 PROVE Ok(r)
    BY <1>2
  <2>1. r \in 2..r /\ r \in 1..r
    BY <1>2
  <2>2. PICK b \in Nat : F[r - 1] <= b /\ OccursAt(s[r], path, b) /\ b + Len(s[r]) = F[r]
    BY <1>3, <2>1 DEF r, m
  <2>3. CASE F[r] \in end
    <3>1. b \in g[o[r]]
      BY <1>2, <1>5, <2>1, <2>2, <2>3
    <3> QED
      BY <2>2, <3>1
  <2>4. CASE s[r] = <<>> /\ m \in end
    <3>1. OccursAt(s[r], path, m) /\ m + Len(s[r]) = m
      <4>1. Len(s[r]) = 0 /\ m + 0 = m /\ m <= m
        BY <1>1, <2>4
      <4>2. SubSeq(path, m + 1, m + 0) = <<>>
        BY <1>1
      <4> QED
        BY <2>4, <4>1, <4>2 DEF OccursAt, m
    <3>2. m \in g[o[r]]
      <4>1. m \in Nat /\ ~(r < r)
        BY <1>1, <1>2 DEF m
      <4>2. m + Len(s[r]) \in end
        BY <2>4, <3>1
      <4> QED
        BY <1>5, <2>1, <3>1, <4>1, <4>2
    <3>3. F[r - 1] <= m
      <4>1. F[r] <= m
        BY DEF r, m
      <4> QED
        BY <1>1, <1>4, <2>1, <2>2, <4>1
    <3> QED
      BY <1>1, <3>2, <3>3
  <2> QED
    BY <2>3, <2>4 DEF r, m
<1>8. ASSUME NEW d \in Nat, d \in T PROVE d + 1 \in T
  <2>1. d + 1 \in Nat
    OBVIOUS
  <2> SUFFICES ASSUME d + 1 < r - 1 PROVE Ok(r - (d + 1))
    BY <2>1
  <2> DEFINE q == r - (d + 1)
  <2>2. q \in 2..r /\ q \in 1..r /\ q < r /\ q # r /\ q + 1 = r - d /\ d < r - 1 /\ (q + 1) - 1 = q /\ q + 1 \in 1..r
    BY <1>2
  <2>3. Ok(r - d)
    BY <1>8, <2>2
  <2> HIDE DEF q
  <2>4. PICK k \in Nat : F[q] <= k /\ k \in g[o[q + 1]]
    BY <2>2, <2>3
  <2>5. F[q] <= m
    <3>1. k \in 0..m
      BY <1>6, <2>2, <2>4
    <3> QED
      BY <1>1, <1>4, <2>2, <2>4, <3>1
  <2>6. PICK b \in Nat : F[q - 1] <= b /\ OccursAt(s[q], path, b) /\ b + Len(s[q]) = F[q]
    BY <1>3, <2>2, <2>5
  <2>7. b \in g[o[q]]
    BY <1>5, <2>2, <2>4, <2>6
  <2>8. Ok(q)
    BY <2>6, <2>7
  <2> QED
    BY <2>8 DEF q
<1> HIDE DEF T
<1>9. Nat \subseteq T
  BY <1>7, <1>8, SetInduction
<1>10. F[1] = Len(s[1]) /\ F[1] \in Nat /\ 1 \in 1..r /\ 0 \in Nat
  BY <1>2 DEF Greedy, r
<1>11. CASE r = 1
  <2>1. 0 + Len(s[1]) \in end
    BY <1>10, <1>11 DEF r
  <2>2. 0 \in g[o[1]]
    BY <1>5, <1>10, <1>11, <2>1
  <2> QED
    BY <1>2, <2>2
<1>12. CASE r > 1
  <2>1. r - 2 \in Nat /\ r - 2 < r - 1 /\ r - (r - 2) = 2 /\ 2 - 1 = 1 /\ 1 < r /\ 1 # r /\ 1 + 1 = 2
    BY <1>2, <1>12
  <2>2. r - 2 \in T
    BY <1>9, <2>1
  <2>3. Ok(r - (r - 2))
    BY <2>1, <2>2 DEF T
  <2>4. PICK k \in Nat : F[1] <= k /\ k \in g[o[2]]
    BY <2>1, <2>3
  <2>5. 0 + Len(s[1]) <= k
    BY <1>10, <2>4
  <2>6. 0 \in g[o[1]]
    BY <1>5, <1>10, <2>1, <2>4, <2>5
  <2> QED
    BY <1>2, <2>6
<1> QED
  BY <1>2, <1>11, <1>12

\* And it finds them, if a path has them.
LEMMA GreedyComplete ==
  ASSUME NEW C, NEW pat, NEW path, NEW end, NEW g, Along(C, pat, path, end, g),
         NEW s, NEW o, IsCut(C, pat, Len(pat), {"*"}, s, o), NEW F, Greedy(path, s, F),
         0 \in g[0]
  PROVE  /\ OccursAt(s[1], path, 0) /\ F[Len(s)] <= Len(path)
         /\ Len(s) = 1 => F[1] \in end
<1> DEFINE r == Len(s)
           m == Len(path)
           Ok(q) == F[q] <= m /\ (q < r => \E k \in g[o[q + 1]] : F[q] <= k)
           T == {d \in Nat : d + 1 <= r => Ok(d + 1)}
<1>1. path \in Seq(C) /\ m \in Nat
  BY DEF Along
<1>2. s \in Seq(Seq(C)) /\ r \in Nat /\ r > 0 /\ o[1] = 0
  <2>1. s \in Seq(Seq(C)) /\ s # <<>> /\ o[1] = 0
    BY DEF IsCut, Pieces
  <2> QED
    BY <2>1
<1>3. ASSUME NEW q \in 2..r
      PROVE  \A j \in F[q - 1]..m : OccursAt(s[q], path, j) => F[q] <= j + Len(s[q])
  BY <1>1, <1>2, GreedyHops
<1>4. \A q \in 2..r : F[q] \in Nat /\ F[q - 1] \in Nat /\ Len(s[q]) \in Nat
  BY <1>1, <1>2, GreedyHops
<1>5. ASSUME NEW q \in 1..r, NEW j \in Nat
      PROVE  j \in g[o[q]] <=> /\ OccursAt(s[q], path, j)
                               /\ q = r => j + Len(s[q]) \in end
                               /\ q < r => \E k \in g[o[q + 1]] : j + Len(s[q]) <= k
  BY PieceGoesOn
<1>6. ASSUME NEW q \in 1..r PROVE g[o[q]] \subseteq 0..m
  <2>1. o[q] \in Nat /\ Len(s[q]) \in Nat
    <3>1. q \in 1..Len(s) /\ 0 \in Nat
      OBVIOUS
    <3>2. Len(s[q]) \in Nat
      BY <3>1, PieceGoesOn
    <3>3. o \in [1..Len(s) -> Nat]
      BY DEF IsCut
    <3> QED
      BY <3>1, <3>2, <3>3
  <2>2. o[q] + Len(s[q]) <= Len(pat) /\ Len(pat) \in Nat
    <3>1. Len(pat) \in Nat
      BY DEF Along
    <3> QED
      BY <3>1, CutWithin
  <2>3. o[q] \in 0..Len(pat)
    BY <2>1, <2>2
  <2>4. g \in [0..Len(pat) -> SUBSET (0..m)]
    BY DEF Along
  <2> QED
    BY <2>3, <2>4
<1>7. F[1] = Len(s[1]) /\ F[1] \in Nat /\ 1 \in 1..r /\ 0 \in Nat
  BY <1>2 DEF Greedy
<1>8. /\ OccursAt(s[1], path, 0)
      /\ r = 1 => 0 + Len(s[1]) \in end
      /\ 1 < r => \E k \in g[o[1 + 1]] : 0 + Len(s[1]) <= k
  BY <1>2, <1>5, <1>7
<1> HIDE DEF r
<1>9. 0 \in T
  <2>1. F[1] <= m
    BY <1>1, <1>7, <1>8 DEF OccursAt
  <2>2. 1 < r => \E k \in g[o[1 + 1]] : F[1] <= k
    BY <1>7, <1>8
  <2> QED
    BY <2>1, <2>2
<1> HIDE DEF m
<1>10. ASSUME NEW d \in Nat, d \in T PROVE d + 1 \in T
  <2>1. d + 1 \in Nat
    OBVIOUS
  <2> DEFINE q == d + 2
  <2> SUFFICES ASSUME q <= r PROVE Ok(q)
    BY <2>1
  <2>2. q \in 2..r /\ q \in 1..r /\ q - 1 = d + 1 /\ (q - 1) + 1 = q /\ d + 1 <= r /\ q - 1 < r
    BY <1>2
  <2>3. Ok(q - 1)
    BY <1>10, <2>2
  <2> HIDE DEF q
  <2>4. PICK k \in g[o[q]] : F[q - 1] <= k
    BY <2>2, <2>3
  <2>5. k \in 0..m /\ k \in Nat
    <3>1. k \in 0..m
      BY <1>6, <2>2, <2>4
    <3> QED
      BY <1>1, <3>1 DEF m
  <2>6. /\ OccursAt(s[q], path, k)
        /\ q < r => \E e \in g[o[q + 1]] : k + Len(s[q]) <= e
    BY <1>5, <2>2, <2>4, <2>5
  <2>7. F[q] <= k + Len(s[q])
    <3>1. k \in F[q - 1]..m
      BY <1>1, <1>4, <2>2, <2>4, <2>5
    <3> QED
      BY <1>3, <2>2, <2>6, <3>1
  <2>8. F[q] <= m
    <3>1. k + Len(s[q]) <= m
      BY <2>6 DEF OccursAt, m
    <3> QED
      BY <1>1, <1>4, <2>2, <2>5, <2>7, <3>1 DEF m
  <2>9. ASSUME q < r PROVE \E e \in g[o[q + 1]] : F[q] <= e
    <3>1. PICK e \in g[o[q + 1]] : k + Len(s[q]) <= e
      BY <2>6, <2>9
    <3>2. e \in 0..m
      <4>1. q + 1 \in 1..r
        BY <1>2, <2>2, <2>9
      <4> QED
        BY <1>6, <3>1, <4>1
    <3>3. F[q] <= e
      <4> DEFINE l == Len(s[q])
      <4>1. l \in Nat /\ F[q] \in Nat /\ e \in Nat /\ m \in Nat
        BY <1>1, <1>4, <2>2, <3>2 DEF m
      <4>2. F[q] <= k + l /\ k + l <= e
        BY <2>7, <3>1
      <4> HIDE DEF l
      <4> QED
        BY <2>5, <4>1, <4>2
    <3> QED
      BY <3>1, <3>3
  <2> QED
    BY <2>8, <2>9
<1> HIDE DEF T
<1>11. Nat \subseteq T
  BY <1>9, <1>10, SetInduction
<1>12. F[r] <= m
  <2>1. r - 1 \in Nat /\ (r - 1) + 1 = r
    BY <1>2
  <2>2. r - 1 \in T
    BY <1>11, <2>1
  <2>3. (r - 1) + 1 <= r
    BY <1>2, <2>1
  <2>4. Ok((r - 1) + 1)
    BY <2>2, <2>3 DEF T
  <2> QED
    BY <2>1, <2>4
<1> QED
  BY <1>7, <1>8, <1>12 DEF r, m

LEMMA RuleMatchesIs ==
  ASSUME NEW C, NEW pattern \in Seq(C), NEW path \in Seq(C)
  PROVE  LET pat == Unanchored(pattern)
             s == SplitAt(pat, {"*"}) IN
         \E F : /\ Greedy(path, s, F)
                /\ RuleMatches(pattern, path) <=>
                     /\ OccursAt(s[1], path, 0)
                     /\ F[Len(s)] <= Len(path)
                     /\ IsAnchored(pattern) /\ (pat = <<>> \/ Last(pat) # "*") => F[Len(s)] = Len(path)
<1> DEFINE pat == Unanchored(pattern)
           s == SplitAt(pat, {"*"})
           r == Len(s)
           first == Head(s)
           rest == Tail(s)
           start == Len(first)
           pos == FoldLeft(LAMBDA at, seg : FindFrom(seg, path, at) + Len(seg), start, rest)
<1>1. pat \in Seq(C)
  BY DenotesAlong DEF Along
<1>2. s \in Seq(Seq(C)) /\ s # <<>>
  <2>1. \E o : IsCut(C, pat, Len(pat), {"*"}, s, o)
    <3> HIDE DEF pat
    <3> QED
      BY <1>1, SplitCuts
  <2> QED
    BY <2>1 DEF IsCut, Pieces
<1> DEFINE E == Seq(C)
<1>3. s \in Seq(E) /\ s # <<>>
  BY <1>2
<1> HIDE DEF E, s
<1>4. /\ r \in Nat /\ r > 0 /\ first = s[1] /\ first \in E /\ rest \in Seq(E) /\ Len(rest) = r - 1
      /\ \A k \in 1..r - 1 : rest[k] = s[k + 1]
  BY <1>3
<1>5. first \in Seq(C) /\ rest \in Seq(Seq(C))
  BY <1>4 DEF E
<1> HIDE DEF rest, first, r
<1>6. start \in Nat
  BY <1>5
<1> HIDE DEF start
<1>7. PICK f : PosRun(start, path, rest, f)
  BY <1>5, <1>6, PosAlong
<1>8. /\ f \in [0..r - 1 -> Nat] /\ f[0] = start /\ pos = f[r - 1]
      /\ \A k \in 0..(r - 1) - 1 : f[k + 1] = FindFrom(rest[k + 1], path, f[k]) + Len(rest[k + 1])
  BY <1>4, <1>7 DEF PosRun
<1> HIDE DEF pos
<1> DEFINE F == [q \in 1..r |-> f[q - 1]]
<1>9. Greedy(path, s, F)
  <2>1. F \in [1..r -> Nat]
    <3>1. \A q \in 1..r : q - 1 \in 0..r - 1
      BY <1>4
    <3> QED
      BY <1>8, <3>1
  <2>2. F[1] = Len(s[1])
    <3>1. 1 \in 1..r /\ 1 - 1 = 0
      BY <1>4
    <3> QED
      BY <1>4, <1>8, <3>1 DEF start
  <2>3. ASSUME NEW q \in 2..r PROVE F[q] = FindFrom(s[q], path, F[q - 1]) + Len(s[q])
    <3> DEFINE k == q - 2
    <3>1. k \in 0..(r - 1) - 1 /\ k + 1 = q - 1 /\ (q - 1) - 1 = k /\ q \in 1..r /\ q - 1 \in 1..r /\ k + 1 \in 1..r - 1 /\ (k + 1) + 1 = q
      BY <1>4
    <3> HIDE DEF k
    <3>2. F[q] = f[k + 1] /\ F[q - 1] = f[k] /\ rest[k + 1] = s[q]
      BY <1>4, <3>1
    <3> HIDE DEF F
    <3> QED
      BY <1>8, <3>1, <3>2
  <2> HIDE DEF F
  <2> QED
    BY <2>1, <2>2, <2>3 DEF Greedy, r
<1>10. pos = F[r]
  BY <1>4, <1>8
<1> HIDE DEF F
<1>11. RuleMatches(pattern, path) <=>
         /\ OccursAt(first, path, 0)
         /\ pos <= Len(path)
         /\ IsAnchored(pattern) /\ (pat = <<>> \/ Last(pat) # "*") => pos = Len(path)
  BY Zenon DEF RuleMatches, pos, rest, first, s, pat, start
<1> QED
  BY <1>4, <1>9, <1>10, <1>11 DEF s, r, pat

\* robots.rs, rule_matches: a pattern matches only paths it denotes, and, unless it
\* has both a wildcard and an anchor, all of them.
THEOREM PatternsDenote ==
  ASSUME NEW C, RobotsPaths \subseteq Seq(C), NEW pattern \in Seq(C)
  PROVE  MatchesWhatItDenotes(pattern)
<1> SUFFICES ASSUME NEW path \in Seq(C)
             PROVE  /\ RuleMatches(pattern, path) => Denotes(pattern, path)
                    /\ Denotes(pattern, path) /\ ~("*" \in ToSet(pattern) /\ IsAnchored(pattern)) =>
                         RuleMatches(pattern, path)
  BY DEF MatchesWhatItDenotes
<1> DEFINE pat == Unanchored(pattern)
           s == SplitAt(pat, {"*"})
           r == Len(s)
           m == Len(path)
           end == Ends(pattern, path)
<1>1. PICK g : Along(C, pat, path, end, g) /\ (Denotes(pattern, path) <=> 0 \in g[0])
  BY DenotesAlong
<1>2. pat \in Seq(C)
  BY <1>1 DEF Along
<1>3. PICK o : IsCut(C, pat, Len(pat), {"*"}, s, o)
  <2> HIDE DEF pat
  <2> QED
    BY <1>2, SplitCuts
<1>4. PICK F : /\ Greedy(path, s, F)
               /\ RuleMatches(pattern, path) <=>
                    /\ OccursAt(s[1], path, 0)
                    /\ F[r] <= m
                    /\ IsAnchored(pattern) /\ (pat = <<>> \/ Last(pat) # "*") => F[r] = m
  BY RuleMatchesIs
<1>5. IsAnchored(pattern) => end = {m}
  BY DEF Ends
<1>6. ~IsAnchored(pattern) => end = 0..m
  BY DEF Ends
<1>7. \A i \in 1..Len(pat) : pat[i] \in ToSet(pattern)
  <2>1. CASE IsAnchored(pattern)
    <3>1. pat = SubSeq(pattern, 1, Len(pattern) - 1) /\ pattern # <<>>
      BY <2>1 DEF Unanchored, Front, IsAnchored
    <3> DEFINE n == Len(pattern)
    <3>2. n \in Nat /\ n > 0
      BY <3>1
    <3>3. n - 1 \in Nat /\ n - 1 <= Len(pattern)
      BY <3>2
    <3>4. Len(pat) = n - 1 /\ \A i \in 1..n - 1 : pat[i] = pattern[i]
      BY <3>1, <3>3, PrefixIs
    <3>5. \A i \in 1..n - 1 : i \in DOMAIN pattern
      BY <3>2
    <3> HIDE DEF n, pat
    <3> QED
      BY <3>4, <3>5 DEF ToSet
  <2>2. CASE ~IsAnchored(pattern)
    BY <2>2 DEF Unanchored, ToSet
  <2> QED
    BY <2>1, <2>2
<1>8. /\ r \in Nat /\ r > 0 /\ F \in [1..r -> Nat] /\ F[r] \in Nat /\ m \in Nat /\ Len(pat) \in Nat
      /\ \A q \in 1..r : Len(s[q]) \in Nat /\ o[q] \in Nat
  <2>1. s \in Seq(Seq(C)) /\ s # <<>> /\ o \in [1..r -> Nat]
    BY <1>3 DEF IsCut, Pieces
  <2>2. F \in [1..r -> Nat]
    BY <1>4 DEF Greedy
  <2>3. Len(pat) \in Nat /\ m \in Nat
    <3> HIDE DEF pat
    <3> QED
      BY <1>2
  <2> HIDE DEF s, m, pat
  <2>4. r \in Nat /\ r > 0 /\ \A q \in 1..r : s[q] \in Seq(C)
    BY <2>1
  <2>5. \A q \in 1..r : Len(s[q]) \in Nat
    BY <2>4
  <2> HIDE DEF r
  <2> QED
    BY <2>1, <2>2, <2>3, <2>4, <2>5
<1>9. r > 1 => "*" \in ToSet(pattern)
  <2> SUFFICES ASSUME r > 1 PROVE "*" \in ToSet(pattern)
    OBVIOUS
  <2>1. 1 \in 1..r - 1 /\ 1 + 1 = 2 /\ 2 \in 1..r
    BY <1>8
  <2>2. pat[o[2]] = "*" /\ o[2] = (o[1] + Len(s[1])) + 1
    BY <1>3, <2>1 DEF IsCut
  <2>3. o[2] + Len(s[2]) <= Len(pat)
    BY <1>3, <1>8, <2>1, CutWithin
  <2>4. o[2] \in 1..Len(pat)
    <3>1. o[1] \in Nat /\ Len(s[1]) \in Nat /\ o[2] \in Nat /\ Len(s[2]) \in Nat
      BY <1>8, <2>1
    <3> HIDE DEF s, pat
    <3> QED
      BY <1>8, <2>2, <2>3, <3>1
  <2> QED
    BY <1>7, <2>2, <2>4
<1>10. pat # <<>> /\ Last(pat) = "*" => r > 1 /\ s[r] = <<>>
  <2> SUFFICES ASSUME pat # <<>>, Last(pat) = "*" PROVE r > 1 /\ s[r] = <<>>
    OBVIOUS
  <2> DEFINE l == Len(s[r])
  <2>1. o[r] + l = Len(pat) /\ o[1] = 0
    BY <1>3 DEF IsCut
  <2>2. \A i \in 1..l : s[r][i] = pat[o[r] + i] /\ s[r][i] # "*"
    BY <1>3, <1>8 DEF IsCut
  <2>3. r \in 1..r /\ l \in Nat /\ o[r] \in Nat
    BY <1>8
  <2>4. pat[Len(pat)] = "*" /\ Len(pat) > 0
    <3> HIDE DEF pat
    <3> QED
      BY <1>2 DEF Last
  <2>5. l = 0
    <3> SUFFICES ASSUME l # 0 PROVE FALSE
      OBVIOUS
    <3> HIDE DEF l, pat
    <3>1. l \in 1..l
      BY <2>3
    <3> QED
      BY <2>1, <2>2, <2>4, <3>1
  <2>6. s[r] = <<>>
    <3>1. s[r] \in Seq(C)
      <4>1. s \in Seq(Seq(C))
        BY <1>3 DEF IsCut, Pieces
      <4> HIDE DEF s
      <4> QED
        BY <1>8, <2>3, <4>1
    <3> HIDE DEF s, r
    <3> QED
      BY <2>5, <3>1
  <2>7. r # 1
    <3> HIDE DEF r, l, pat
    <3> QED
      BY <1>8, <2>1, <2>4, <2>5
  <2> HIDE DEF r, s
  <2> QED
    BY <1>8, <2>6, <2>7
<1> HIDE DEF pat, s, end
<1>11. ASSUME RuleMatches(pattern, path) PROVE Denotes(pattern, path)
  <2>1. OccursAt(s[1], path, 0) /\ F[r] <= m
    BY <1>4, <1>11
  <2>2. F[r] \in end \/ (r > 1 /\ s[r] = <<>> /\ m \in end)
    <3>1. CASE ~IsAnchored(pattern)
      BY <1>6, <1>8, <2>1, <3>1
    <3>2. CASE IsAnchored(pattern) /\ (pat = <<>> \/ Last(pat) # "*")
      BY <1>4, <1>5, <1>11, <3>2
    <3>3. CASE IsAnchored(pattern) /\ pat # <<>> /\ Last(pat) = "*"
      BY <1>5, <1>10, <3>3
    <3> QED
      BY <3>1, <3>2, <3>3
  <2>3. 0 \in g[0]
    BY <1>1, <1>3, <1>4, <2>1, <2>2, GreedySound
  <2> QED
    BY <1>1, <2>3
<1>12. ASSUME Denotes(pattern, path), ~("*" \in ToSet(pattern) /\ IsAnchored(pattern))
       PROVE  RuleMatches(pattern, path)
  <2>1. OccursAt(s[1], path, 0) /\ F[r] <= m /\ (r = 1 => F[1] \in end)
    BY <1>1, <1>3, <1>4, <1>12, GreedyComplete
  <2>2. IsAnchored(pattern) => F[r] = m
    <3> SUFFICES ASSUME IsAnchored(pattern) PROVE F[r] = m
      OBVIOUS
    <3>1. r = 1
      <4>1. ~(r > 1)
        BY <1>9, <1>12
      <4>2. r \in Nat /\ r > 0
        BY <1>8
      <4> HIDE DEF r
      <4> QED
        BY <4>1, <4>2
    <3> QED
      BY <1>5, <2>1, <3>1
  <2> QED
    BY <1>4, <2>1, <2>2
<1> QED
  BY <1>11, <1>12

-----------------------------------------------------------------------------
\* A document is a text over the tokens of its part.

DocumentsInv == part \in Parts /\ doc \in Seq(part[2])

LEMMA DocumentsTyped == TextsSpec => []DocumentsInv
<1>1. TextsInit => DocumentsInv
  BY DEF TextsInit, DocumentsInv
<1>2. DocumentsInv /\ [TextsNext]_<<part, doc>> => DocumentsInv'
  <2> SUFFICES ASSUME DocumentsInv, [TextsNext]_<<part, doc>> PROVE DocumentsInv'
    OBVIOUS
  <2>1. CASE TextsNext
    <3>1. PICK t \in part[2] : doc' = Append(doc, t) /\ part' = part
      BY <2>1 DEF TextsNext
    <3> DEFINE C == part[2]
    <3>2. doc \in Seq(C) /\ t \in C
      BY <3>1 DEF DocumentsInv
    <3> HIDE DEF C
    <3>3. Append(doc, t) \in Seq(C)
      BY <3>2
    <3> QED
      BY <3>1, <3>3 DEF C, DocumentsInv
  <2>2. CASE UNCHANGED <<part, doc>>
    BY <2>2 DEF DocumentsInv
  <2> QED
    BY <2>1, <2>2
<1> QED
  BY <1>1, <1>2, PTL DEF TextsSpec

LEMMA SeqWidens ==
  ASSUME NEW A, NEW B, A \subseteq B, NEW s \in Seq(A)
  PROVE  s \in Seq(B)
OBVIOUS

\* What a line of a file may have as its value.
LineValues == {l.value : l \in UNION {p[2] : p \in Parts}}

\* robots.rs: for every pattern and every file over any tokens, what the matcher, the
\* parser and the verdict return is what the file says.
THEOREM RobotsExactHolds == TextsSpec => []RobotsExact
<1>1. DocumentsInv => RobotsExact
  <2> SUFFICES ASSUME DocumentsInv PROVE RobotsExact
    OBVIOUS
  <2>1. UserAgent \in Seq(STRING) /\ RobotsPaths \subseteq Seq(STRING)
    BY RobotsAssumption
  <2>2. PatternsExact
    <3> SUFFICES ASSUME part[1] = "pattern" PROVE MatchesWhatItDenotes(doc)
      BY DEF PatternsExact, Is
    <3>1. part[2] \subseteq STRING /\ doc \in Seq(part[2])
      BY RobotsAssumption DEF DocumentsInv
    <3>2. doc \in Seq(STRING)
      BY <3>1, SeqWidens
    <3> QED
      BY <2>1, <3>2, PatternsDenote
  <2>3. part[1] = "robots" => doc \in Seq(RobotsLines(STRING, LineValues))
    <3> SUFFICES ASSUME part[1] = "robots" PROVE doc \in Seq(RobotsLines(STRING, LineValues))
      OBVIOUS
    <3>1. part \in Parts /\ doc \in Seq(part[2])
      BY DEF DocumentsInv
    <3>2. ASSUME NEW l \in part[2] PROVE l \in RobotsLines(STRING, LineValues)
      <4>1. /\ l = [field |-> l.field, value |-> l.value]
            /\ l.field \in {"user-agent", "allow", "disallow", "crawl-delay", "other"}
            /\ l.field \in {"user-agent", "allow", "disallow"} => l.value \in Seq(STRING)
        BY <3>1, RobotsAssumption
      <4>2. l.value \in LineValues
        BY <3>1 DEF LineValues
      <4>3. CASE l.field \in {"user-agent", "allow", "disallow"}
        BY <4>1, <4>3 DEF RobotsLines
      <4>4. CASE l.field \in {"crawl-delay", "other"}
        BY <4>1, <4>2, <4>4 DEF RobotsLines
      <4> QED
        BY <4>1, <4>3, <4>4
    <3> QED
      BY <3>1, <3>2, SeqWidens
  <2>4. GroupsExact
    BY <2>3, RobotsGroups DEF GroupsExact, Is
  <2>5. AllowsExact
    BY <2>1, <2>3, RobotsVerdict DEF AllowsExact, Is
  <2> QED
    BY <2>2, <2>4, <2>5 DEF RobotsExact
<1> QED
  BY <1>1, DocumentsTyped, PTL

=============================================================================
