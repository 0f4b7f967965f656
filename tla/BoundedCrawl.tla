---------------------------- MODULE BoundedCrawl ----------------------------
(***************************************************************************)
(* What a crawl promises, without its queue: pages are found and taken,    *)
(* only permitted ones, each at most once in a run and at most Limit of    *)
(* them.                                                                   *)
(***************************************************************************)
EXTENDS Naturals

CONSTANTS
  Permitted,   \* the pages in scope
  Limit        \* the page budget

VARIABLES
  found,   \* pages found
  taken,   \* pages taken
  visits   \* how often a page was taken

crawl == <<found, taken, visits>>

Init == found = {} /\ taken = {} /\ visits = 0

\* A new run, from at most one page.
Restart ==
  /\ found' = {} \/ \E p \in Permitted : found' = {p}
  /\ taken' = {} /\ visits' = 0

Find ==
  /\ \E p \in Permitted \ found : found' = found \cup {p}
  /\ UNCHANGED <<taken, visits>>

Take ==
  /\ visits < Limit /\ visits' = visits + 1
  /\ \E p \in found \ taken : taken' = taken \cup {p}
  /\ UNCHANGED found

Spec == Init /\ [][Restart \/ Find \/ Take]_crawl

=============================================================================
