------------------------------- MODULE Crawl -------------------------------
(***************************************************************************)
(* crawl and crawl_incremental (src/crates/amber-core/src/crawl.rs), with  *)
(* the content cache (cache.rs) that the second keeps from run to run.     *)
(* The two do the same requests; crawl returns `visited` and               *)
(* crawl_incremental `changed`.  A link of a page is enqueued in a step of *)
(* its own, so no order among links is lost.  Between requests the site's  *)
(* pages change.                                                           *)
(*                                                                         *)
(* A definition whose name starts with Bug is a seeded defect the model    *)
(* checker must detect; no specification uses it.                          *)
(***************************************************************************)
EXTENDS Frontier, HttpFetch

CONSTANTS
  Seed,        \* the URL the crawl starts from
  Bodies,      \* contents a page can have
  EmptyBody,   \* what stands for a page that was not fetched as HTML
  Unseen,      \* no content: a page the cache knows nothing of
  MaxRuns,     \* bound on the runs
  MaxEdits,    \* bound on the changes of pages
  Sites        \* the sites a run may meet: [links, rules]

ASSUME CrawlAssumption ==
  /\ Seed \in Urls
  /\ \A u \in Urls : Normalize(u) \in Urls
  /\ \A s \in Sites : /\ s.links \in [{Normalize(u) : u \in Urls} -> Seq(Urls)]
                      /\ s.rules \subseteq {u.path : u \in Urls}
  /\ EmptyBody \notin Bodies /\ Unseen \notin Bodies /\ Unseen # EmptyBody

Pages == {Normalize(u) : u \in Urls}
Hashes == Bodies \cup {EmptyBody}   \* content_hash tells contents apart

VARIABLES
  links,     \* the site: the links of each page, in the order of the document
  body,      \* the site: the content of each page
  rules,     \* the site: paths that robots.txt forbids
  robots,    \* the rules this run goes by
  pc,        \* "idle", "ready", "fetching", "linking"
  current,   \* the URL being visited, with its depth
  pending,   \* links of the current page still to be added
  visited,   \* what crawl returns, with depths
  changed,   \* what crawl_incremental returns
  cache,     \* Cache: the hash kept for each URL
  expanded,  \* history: pages whose links this run has read
  lastBody,  \* history: what each page's last visit found
  requests,  \* history: GETs of pages made in this run
  runs,      \* runs begun
  edits      \* changes of pages

siteVars == <<links, body, rules>>
runVars == <<robots, current, pending, visited, changed>>
crawlHistory == <<expanded, lastBody, requests>>
bounds == <<runs, edits>>
crawlVars == <<frontierVars, httpVars, siteVars, runVars, cache, crawlHistory, bounds, pc>>

Visit0 == [url |-> Seed, depth |-> 0]

Init ==
  /\ NoFrontier /\ HttpInit
  /\ \E s \in Sites : links = s.links /\ rules = s.rules
  /\ \E b \in Bodies : body = [p \in Pages |-> b]
  /\ robots = {} /\ current = Visit0 /\ pending = <<>>
  /\ visited = <<>> /\ changed = <<>>
  /\ cache = [u \in Urls |-> Unseen]
  /\ expanded = {} /\ lastBody = [p \in Pages |-> Unseen] /\ requests = 0
  /\ runs = 0 /\ edits = 0
  /\ pc = "idle"

\* The owner of the site changes a page.  What a visit finds is decided once,
\* so it is enough to do so between two visits.
Edit(p) ==
  /\ pc \in {"idle", "ready"} /\ edits < MaxEdits
  /\ \E b \in Bodies \ {body[p]} : body' = [body EXCEPT ![p] = b]
  /\ edits' = edits + 1
  /\ UNCHANGED <<frontierVars, httpVars, links, rules, runVars, cache, crawlHistory, runs, pc>>

\* fetch_robots: any failure allows everything.  A forbidden seed ends the run.
BeginRun ==
  /\ pc = "idle" /\ runs < MaxRuns
  /\ robots' \in {rules, {}}
  /\ IF Seed.path \in robots'
     THEN queue' = <<>> /\ seen' = {} /\ dispatched' = 0
     ELSE Seeded(Seed)
  /\ visited' = <<>> /\ changed' = <<>> /\ pending' = <<>> /\ current' = Visit0
  /\ expanded' = {} /\ requests' = 0
  /\ runs' = runs + 1
  /\ pc' = "ready"
  /\ UNCHANGED <<httpVars, siteVars, cache, lastBody, edits>>

TakeNext ==
  /\ pc = "ready"
  /\ NextUrl
  /\ BeginFetch
  /\ current' = Head(queue)
  /\ pc' = "fetching"
  /\ UNCHANGED <<siteVars, robots, pending, visited, changed, cache, crawlHistory, bounds>>

Request(r) ==
  /\ pc = "fetching"
  /\ Attempt(r, ByteCeiling)
  /\ requests' = requests + 1
  /\ UNCHANGED <<frontierVars, siteVars, runVars, cache, expanded, lastBody, bounds, pc>>

\* Only HTML is read for links.
IsHtml == fetched.ok /\ fetched.type = "html"
FoundBody == IF IsHtml THEN body[Normalize(current.url)] ELSE EmptyBody

\* Links that robots.txt forbids are not added.
Allowed(u) == u.path \notin robots

\* Cache::is_unchanged.
IsUnchanged(u, b) == cache[u] = b

BugRecord ==   \* the cache is updated before it is compared with
  /\ cache' = [cache EXCEPT ![current.url] = FoundBody]
  /\ changed' = IF cache'[current.url] = FoundBody
                THEN changed ELSE Append(changed, current.url)

\* crawl_incremental_with: compare, then record.
Record ==
  /\ cache' = [cache EXCEPT ![current.url] = FoundBody]
  /\ changed' = IF IsUnchanged(current.url, FoundBody)
                THEN changed ELSE Append(changed, current.url)

\* The fetch has ended; so has a page that failed, without links.
Fetched ==
  /\ pc = "fetching" /\ attempt = 0
  /\ Record
  /\ pending' = IF IsHtml THEN links[Normalize(current.url)] ELSE <<>>
  /\ expanded' = IF IsHtml THEN expanded \cup {Normalize(current.url)} ELSE expanded
  /\ lastBody' = [lastBody EXCEPT ![Normalize(current.url)] = FoundBody]
  /\ pc' = "linking"
  /\ UNCHANGED <<frontierVars, httpVars, siteVars, robots, current, visited, requests, bounds>>

BugAddLink ==   \* the link stays among those to add
  /\ pc = "linking" /\ pending # <<>>
  /\ IF Allowed(Head(pending)) THEN Enqueue(Head(pending), current.depth + 1)
     ELSE UNCHANGED frontierVars
  /\ UNCHANGED <<httpVars, siteVars, runVars, cache, crawlHistory, bounds, pc>>

\* add_links, one link at a time.
AddLink ==
  /\ pc = "linking" /\ pending # <<>>
  /\ IF Allowed(Head(pending)) THEN Enqueue(Head(pending), current.depth + 1)
     ELSE UNCHANGED frontierVars
  /\ pending' = Tail(pending)
  /\ UNCHANGED <<httpVars, siteVars, robots, current, visited, changed, cache,
                 crawlHistory, bounds, pc>>

Visited ==
  /\ pc = "linking" /\ pending = <<>>
  /\ visited' = Append(visited, current)
  /\ pc' = "ready"
  /\ UNCHANGED <<frontierVars, httpVars, siteVars, robots, current, pending, changed,
                 cache, crawlHistory, bounds>>

\* The queue is empty or the page budget spent: the run returns.
EndRun ==
  /\ pc = "ready" /\ ~HasNext
  /\ pc' = "idle"
  /\ UNCHANGED <<frontierVars, httpVars, siteVars, runVars, cache, crawlHistory, bounds>>

Step ==
  \/ TakeNext \/ (\E r \in Replies : Request(r)) \/ Fetched \/ AddLink \/ Visited \/ EndRun

Next == BeginRun \/ Step \/ \E p \in {q \in Pages : InScope(q)} : Edit(p)

Spec == Init /\ [][Next]_crawlVars

\* Every step of a crawl ends: a fetch has a timeout, and the rest computes.
FairSpec == Spec /\ WF_crawlVars(Step)

-----------------------------------------------------------------------------

Visit == [url : Urls, depth : 0..MaxDepth]

TypeOK ==
  /\ queue \in Seq(Visit) /\ seen \subseteq Pages /\ dispatched \in 0..MaxPages
  /\ HttpTypeOK
  /\ robots \subseteq {u.path : u \in Urls}
  /\ pc \in {"idle", "ready", "fetching", "linking"}
  /\ current \in Visit
  /\ pending \in Seq(Urls) /\ visited \in Seq(Visit) /\ changed \in Seq(Urls)
  /\ cache \in [Urls -> Hashes \cup {Unseen}]
  /\ body \in [Pages -> Bodies] /\ lastBody \in [Pages -> Hashes \cup {Unseen}]
  /\ expanded \subseteq Pages /\ requests \in Nat
  /\ attempt > 0 => pc = "fetching"

\* The pages handed out in this run.
Taken ==
  {Normalize(visited[i].url) : i \in DOMAIN visited} \cup
  IF pc \in {"fetching", "linking"} THEN {Normalize(current.url)} ELSE {}

UrlsInScope == {u \in Urls : InScope(u)}

\* A crawl finds pages in scope and takes each at most once, at most MaxPages.
Promise == INSTANCE BoundedCrawl WITH
  Permitted <- {Normalize(u) : u \in UrlsInScope}, Limit <- MaxPages,
  found <- seen, taken <- Taken, visits <- dispatched

ImplementsBoundedCrawl == Promise!Spec

\* The pages that a run may visit, of the URLs us.
Open(us) == {Normalize(u) : u \in {v \in us \cap UrlsInScope : Allowed(v)}}

\* The pages at most d links from the seed, over the pages whose links were read.
Within[d \in 0..MaxDepth] ==
  IF d = 0 THEN Open({Seed})
  ELSE LET nearer == Within[d - 1] IN
       nearer \cup Open(UNION {ToSet(links[p]) : p \in expanded \cap nearer})

Entries == ToSet(queue) \cup ToSet(visited) \cup
  IF pc \in {"fetching", "linking"} THEN {current} ELSE {}

\* The depth a page is visited at is its distance from the seed: a longer way
\* found first would cut off pages that are within the depth budget.
DepthIsDistance == \A e \in Entries :
  /\ Normalize(e.url) \in Within[e.depth]
  /\ e.depth > 0 => Normalize(e.url) \notin Within[e.depth - 1]

\* A run that was not cut short by the page budget has visited every page
\* within scope, robots.txt and MaxDepth of the seed, whatever the links'
\* order and their cycles, and however many fetches failed.
ReachesAll ==
  pc = "ready" /\ queue = <<>> =>
    {Normalize(visited[i].url) : i \in DOMAIN visited} = Within[MaxDepth]

\* However pages fail, a run makes no more requests for them than the attempts
\* of the pages it may visit.
RequestsBounded == requests <= MaxAttempts * dispatched

\* The frontier is what it was asked for: depths are distances, and the budgets on
\* depth, pages and attempts hold.
FrontierExact == TypeOK /\ DepthIsDistance /\ RequestsBounded

SoleSpellings == {u \in Urls : \A v \in Urls : Normalize(v) = Normalize(u) => v = u}

\* When this visit and the one before it fetched a page, which has one URL only,
\* crawl_incremental reports it if and only if it has changed in between.
ReportsExact ==
  [][LET p == Normalize(current.url)
         was == lastBody[p] IN
     pc = "fetching" /\ pc' = "linking" /\ current.url \in SoleSpellings
       /\ was \in Bodies /\ lastBody'[p] \in Bodies =>
         (Len(changed') > Len(changed) <=> lastBody'[p] # was)]_crawlVars

\* Every run ends, on cyclic sites too.
RunsEnd == pc = "ready" ~> pc = "idle"

=============================================================================
