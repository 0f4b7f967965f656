----------------------------- MODULE Pagination -----------------------------
(***************************************************************************)
(* capture_paginated (src/crates/amber-core/src/lib.rs): a page, then the  *)
(* page its rel="next" names, and so on.  The site decides next links and  *)
(* may change them; captures may fail.  A URL is what it denotes and how   *)
(* it is spelled: links are resolved, and come canonically spelled.        *)
(*                                                                         *)
(* A definition whose name starts with Bug is a seeded defect the model    *)
(* checker must detect; no specification uses it.                          *)
(***************************************************************************)
EXTENDS Naturals, Sequences

CONSTANTS
  NextPages,   \* pages of the site
  NoNext,      \* no link
  PageLimit    \* max_pages

ASSUME PaginationAssumption == NoNext \notin NextPages /\ PageLimit \in Nat

VARIABLES
  upcoming,   \* `next`: a URL, or NoUrl
  captured,   \* the pages captured, as [url, next]
  visited,    \* URLs captured, as spelled
  walk        \* "walking", "returned" or "failed"

paginationVars == <<upcoming, captured, visited, walk>>

Spelled(page, canonical) == [page |-> page, canonical |-> canonical]
NoUrl == Spelled(NoNext, TRUE)

PaginationInit ==
  /\ \E p \in NextPages, c \in BOOLEAN : upcoming = Spelled(p, c)
  /\ captured = <<>> /\ visited = {} /\ walk = "walking"

BugLoopGuard(url) == url # NoUrl /\ url \in visited'   \* the filter the wrong way round

\* Whether a next link is followed.
LoopGuard(url) == url # NoUrl /\ url \notin visited'

AtLimit == Len(captured) >= PageLimit

\* One turn of the loop; a failure drops what was captured.
Turn ==
  /\ walk = "walking"
  /\ IF upcoming = NoUrl \/ AtLimit \/ upcoming \in visited
     THEN walk' = "returned" /\ UNCHANGED <<upcoming, captured, visited>>
     ELSE \/ walk' = "failed" /\ captured' = <<>> /\ UNCHANGED <<upcoming, visited>>
          \/ \E n \in NextPages \cup {NoNext} :
               LET link == Spelled(n, TRUE) IN
               /\ visited' = visited \cup {upcoming}
               /\ captured' = Append(captured, [url |-> upcoming, next |-> n])
               /\ upcoming' = IF LoopGuard(link) THEN link ELSE NoUrl
               /\ UNCHANGED walk

PaginationSpec == PaginationInit /\ [][Turn]_paginationVars

-----------------------------------------------------------------------------

\* The walk is a chain of next links and ends where one leads back; a page is
\* captured twice only if the walk began at another spelling of its URL.
ChainOfNext ==
  \A i, k \in DOMAIN captured :
    /\ i > 1 => captured[i].url = Spelled(captured[i - 1].next, TRUE)
    /\ i < k /\ captured[i].url.page = captured[k].url.page => i = 1 /\ ~captured[1].url.canonical
    /\ Len(captured) <= PageLimit

\* A walk that returns stopped for a reason.
StopsForReason ==
  walk = "returned" =>
    \/ Len(captured) >= PageLimit
    \/ captured # <<>> /\ LET n == captured[Len(captured)].next IN
                          n = NoNext \/ Spelled(n, TRUE) \in visited

\* The walk follows the site's links for as long as they lead on, and no longer.
WalkExact == ChainOfNext /\ StopsForReason

=============================================================================
