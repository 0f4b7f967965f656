------------------------------- MODULE Store -------------------------------
(***************************************************************************)
(* The crawl store (src/crates/amber-core/src/store.rs): a map in memory,  *)
(* saved over one JSON file and loaded from it, by a process that may stop *)
(* between any two steps.                                                  *)
(*                                                                         *)
(* A definition whose name starts with Bug is a seeded defect the model    *)
(* checker must detect; no specification uses it.                          *)
(***************************************************************************)
EXTENDS Naturals, Sequences

CONSTANTS
  StoredUrls,   \* URLs recorded
  Hashes,       \* content hashes
  NoPage,       \* no entry
  MaxChanges    \* bound on the changes of the store

ASSUME StoreAssumption == NoPage \notin Hashes /\ MaxChanges \in Nat

VARIABLES
  pages,     \* CrawlStore.pages: the hash of each URL
  file,      \* the file: [whole, pages]; a file cut short is not whole
  phase,     \* "running", "saving", "stopped"
  saved,     \* history: what the last save that returned Ok wrote
  torn,      \* history: a save was begun and did not end
  changes    \* changes so far

storeVars == <<pages, file, phase, saved, torn, changes>>

Empty == [u \in StoredUrls |-> NoPage]

StoreInit ==
  /\ pages = Empty /\ file = [whole |-> FALSE, pages |-> Empty]
  /\ phase = "running" /\ saved = Empty /\ torn = TRUE /\ changes = 0

\* record and upsert.
RecordPage ==
  /\ phase = "running" /\ changes < MaxChanges
  /\ \E u \in StoredUrls, h \in Hashes : pages' = [pages EXCEPT ![u] = h]
  /\ changes' = changes + 1
  /\ UNCHANGED <<file, phase, saved, torn>>

\* to_json writes every entry, from_json reads every entry of an array.  A
\* prefix of the array does not parse, and stands for an empty store; so does
\* here a file that is not there, which load reports.
BugFromJson(f) == f.pages   \* whatever the file holds
FromJson(f) == IF f.whole THEN f.pages ELSE Empty

\* fs::write truncates the file first.
SaveBegins ==
  /\ phase = "running"
  /\ phase' = "saving" /\ torn' = TRUE
  /\ \E some \in SUBSET StoredUrls :
       file' = [whole |-> FALSE, pages |-> [u \in StoredUrls |-> IF u \in some THEN pages[u] ELSE NoPage]]
  /\ UNCHANGED <<pages, saved, changes>>

SaveEnds ==
  /\ phase = "saving"
  /\ phase' = "running" /\ torn' = FALSE
  /\ file' = [whole |-> TRUE, pages |-> pages]
  /\ saved' = pages
  /\ UNCHANGED <<pages, changes>>

\* The write fails, and save returns the error.
SaveFails ==
  /\ phase = "saving" /\ phase' = "running"
  /\ UNCHANGED <<pages, file, saved, torn, changes>>

\* The process stops; another one loads the file.
Stop ==
  /\ phase # "stopped" /\ phase' = "stopped"
  /\ pages' = Empty
  /\ UNCHANGED <<file, saved, torn, changes>>

Load ==
  /\ phase = "stopped" /\ phase' = "running"
  /\ pages' = FromJson(file)
  /\ UNCHANGED <<file, saved, torn, changes>>

StoreNext == RecordPage \/ SaveBegins \/ SaveEnds \/ SaveFails \/ Stop \/ Load

StoreSpec == StoreInit /\ [][StoreNext]_storeVars

-----------------------------------------------------------------------------

StoreTypeOK ==
  /\ pages \in [StoredUrls -> Hashes \cup {NoPage}]
  /\ file \in [whole : BOOLEAN, pages : [StoredUrls -> Hashes \cup {NoPage}]]
  /\ phase \in {"running", "saving", "stopped"} /\ torn \in BOOLEAN
  /\ saved \in [StoredUrls -> Hashes \cup {NoPage}] /\ changes \in 0..MaxChanges

\* What a process loads is what the last save wrote, or nothing at all if one
\* was interrupted since; never a part of it or a mixture of two saves.
LoadsWhatWasSaved ==
  [][phase = "stopped" /\ phase' = "running" => pages' = IF torn THEN Empty ELSE saved]_storeVars

=============================================================================
