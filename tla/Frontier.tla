----------------------------- MODULE Frontier ------------------------------
(***************************************************************************)
(* The frontier of a crawl (src/crates/amber-core/src/crawl.rs): a         *)
(* breadth-first queue with scope, de-duplication and budgets.  It does no *)
(* I/O; Crawl drives it.                                                   *)
(*                                                                         *)
(* A URL is a record of what the frontier tells apart.  Hosts are          *)
(* sequences of labels, paths sequences of characters.                     *)
(*                                                                         *)
(* A definition whose name starts with Bug is a seeded defect the model    *)
(* checker must detect; no specification uses it.                          *)
(***************************************************************************)
EXTENDS Naturals, SequencesExt

CONSTANTS
  Urls,       \* [scheme, host, path, fragment]
  Scope,      \* CrawlScope: [host, subdomains, prefix]
  MaxPages,   \* CrawlLimits.max_pages
  MaxDepth    \* CrawlLimits.max_depth

ASSUME FrontierAssumption == MaxPages \in Nat /\ MaxDepth \in Nat

VARIABLES
  queue,       \* URLs to visit, each with its depth
  seen,        \* normalized URLs ever enqueued
  dispatched   \* number of URLs handed out

frontierVars == <<queue, seen, dispatched>>

\* CrawlScope::in_scope.  No prefix is the empty one.
InScope(u) ==
  /\ u.scheme \in {"http", "https"}
  /\ \/ u.host = Scope.host
     \/ Scope.subdomains /\ IsStrictSuffix(Scope.host, u.host)
  /\ IsPrefix(Scope.prefix, u.path)

\* normalize: URLs that differ in their fragment are one page.
Normalize(u) == [u EXCEPT !.fragment = ""]

\* Frontier::new, before the seed is enqueued.
NoFrontier == queue = <<>> /\ seen = {} /\ dispatched = 0

BugAdmits(u, depth) == depth < MaxDepth /\ InScope(u) /\ Normalize(u) \notin seen
BugAdmitsSpelled(u, depth) == depth <= MaxDepth /\ InScope(u) /\ u \notin seen   \* as it is spelled

\* enqueue: what it adds to a queue.
Admits(u, depth) == depth <= MaxDepth /\ InScope(u) /\ Normalize(u) \notin seen

BugEnqueue(u, depth) ==   \* to the front of the queue
  /\ IF Admits(u, depth)
     THEN /\ queue' = <<[url |-> u, depth |-> depth]>> \o queue
          /\ seen' = seen \cup {Normalize(u)}
     ELSE UNCHANGED <<queue, seen>>
  /\ UNCHANGED dispatched

Enqueue(u, depth) ==
  /\ IF Admits(u, depth)
     THEN /\ queue' = Append(queue, [url |-> u, depth |-> depth])
          /\ seen' = seen \cup {Normalize(u)}
     ELSE UNCHANGED <<queue, seen>>
  /\ UNCHANGED dispatched

\* Frontier::new: the seed is enqueued in an empty frontier.
Seeded(u) ==
  /\ queue' = IF InScope(u) THEN <<[url |-> u, depth |-> 0]>> ELSE <<>>
  /\ seen' = IF InScope(u) THEN {Normalize(u)} ELSE {}
  /\ dispatched' = 0

\* next_url has something to hand out.
HasNext == queue # <<>> /\ dispatched < MaxPages

NextUrl ==
  /\ HasNext
  /\ queue' = Tail(queue)
  /\ dispatched' = dispatched + 1
  /\ UNCHANGED seen

=============================================================================
