--------------------------- MODULE ChromiumCache ---------------------------
(***************************************************************************)
(* ensure_chromium (src/crates/amber-core/src/chromium.rs): processes that *)
(* share one cache directory install the pinned Chrome build into it.  An  *)
(* action is one change or one look at the file system; between any two a  *)
(* process may crash, an operation may fail and other processes may act.   *)
(*                                                                         *)
(* A directory is a function that says how much of each file is there.  A  *)
(* file being written holds the name of the last process that truncated    *)
(* it: all write the same bytes, so it is whole once that one has ended.   *)
(* An open file or directory follows a rename: opened[p] says where what p *)
(* has open is now.                                                        *)
(*                                                                         *)
(* A definition whose name starts with Bug is a seeded defect the model    *)
(* checker must detect; no specification uses it.                          *)
(***************************************************************************)
EXTENDS Naturals

CONSTANTS
  Procs,     \* processes that call ensure_chromium
  Files,     \* the files of the build
  Binary,    \* the one whose path is returned
  NoFile

ASSUME CacheAssumption ==
  /\ Binary \in Files
  /\ NoFile \notin Files
  /\ \A s \in {"nodir", "missing", "whole", "none"} : s \notin Procs

VARIABLES
  zip,         \* the staged archive: "none", "whole", or who is writing it
  staging,     \* the staging directory
  dest,        \* the version directory
  executable,  \* whether the installed binary has been made executable
  pc,          \* what each process does next
  todo,        \* files each process has yet to extract
  writing,     \* the file it is writing
  opened,      \* where the file it writes, or the directory it empties, is
  archive,     \* the archive it extracts from
  result,      \* what its latest call of ensure_chromium came to
  clean,       \* history: no operation of that call failed by itself
  overlapped,  \* history: a process has started while another was installing
  cutShort     \* history: a run has ended between its rename and its chmod

fsVars == <<zip, staging, dest, executable>>
procVars == <<todo, writing, opened, archive>>
history == <<clean, overlapped, cutShort>>
cacheVars == <<fsVars, procVars, pc, result, history>>

NoDir == [f \in Files |-> "nodir"]
Empty == [f \in Files |-> "missing"]
Exists(dir) == dir # NoDir
Has(dir, f) == dir[f] \notin {"nodir", "missing"}
Whole(dir) == \A f \in Files : dir[f] = "whole"

Init ==
  /\ zip = "none" /\ staging = NoDir /\ dest = NoDir /\ executable = FALSE
  /\ pc = [p \in Procs |-> "out"]
  /\ todo = [p \in Procs |-> {}]
  /\ writing = [p \in Procs |-> NoFile]
  /\ opened = [p \in Procs |-> "nowhere"]
  /\ archive = [p \in Procs |-> "none"]
  /\ result = [p \in Procs |-> "none"]
  /\ clean = [p \in Procs |-> TRUE] /\ overlapped = FALSE /\ cutShort = FALSE

Goto(p, l) == pc' = [pc EXCEPT ![p] = l]

\* ensure_chromium returns, and what the process had open is closed.
Ends(p, r) ==
  /\ pc' = [pc EXCEPT ![p] = "out"]
  /\ result' = [result EXCEPT ![p] = r]
  /\ todo' = [todo EXCEPT ![p] = {}]
  /\ writing' = [writing EXCEPT ![p] = NoFile]
  /\ opened' = [opened EXCEPT ![p] = "nowhere"]
  /\ archive' = [archive EXCEPT ![p] = "none"]

-----------------------------------------------------------------------------
\* ensure_chromium, up to the download.

\* bin.exists(): a hit returns at once, whatever the state of the binary.
Start(p) ==
  /\ pc[p] = "out"
  /\ clean' = [clean EXCEPT ![p] = TRUE]
  /\ overlapped' = (overlapped \/ \E q \in Procs : pc[q] # "out")
  /\ UNCHANGED cutShort
  /\ IF Has(dest, Binary)
     THEN Goto(p, "out") /\ result' = [result EXCEPT ![p] = "ok"]
     ELSE Goto(p, "download") /\ result' = [result EXCEPT ![p] = "none"]
  /\ UNCHANGED <<fsVars, procVars>>

\* A truncated archive is torn for those who read it; an unlinked one is not.
Tear == [q \in Procs |-> IF archive[q] = "linked" THEN "torn" ELSE archive[q]]
Unlinked == [q \in Procs |-> IF archive[q] = "linked" THEN "kept" ELSE archive[q]]

BugCreateZip(p) ==   \* the archive of a crashed run is not overwritten
  /\ pc[p] = "download"
  /\ IF zip = "none"
     THEN /\ zip' = p
          /\ Goto(p, "zipping")
          /\ UNCHANGED <<procVars, result>>
     ELSE Ends(p, "err") /\ UNCHANGED zip
  /\ UNCHANGED <<staging, dest, executable, history>>

\* GET succeeds; File::create truncates a stale archive.
CreateZip(p) ==
  /\ pc[p] = "download"
  /\ zip' = p
  /\ archive' = Tear
  /\ Goto(p, "zipping")
  /\ UNCHANGED <<staging, dest, executable, todo, writing, opened, result, history>>

\* io::copy reaches the end of the body.
ZipWritten(p) ==
  /\ pc[p] = "zipping"
  /\ zip' = IF zip = p THEN "whole" ELSE zip
  /\ Goto(p, "prepare")
  /\ UNCHANGED <<staging, dest, executable, procVars, result, history>>

-----------------------------------------------------------------------------
\* A fresh staging directory.

CheckStaging(p) ==
  /\ pc[p] = "prepare"
  /\ Goto(p, IF Exists(staging) THEN "purge" ELSE "fresh")
  /\ UNCHANGED <<fsVars, procVars, result, history>>

\* remove_dir_all: "purge" must succeed, "drop" is best effort.
Purging(p) == pc[p] \in {"purge", "drop"}

AfterPurge(p) == IF pc[p] = "purge" THEN "fresh" ELSE "beaten"

\* It works on the open directory, wherever that has gone meanwhile.
OpenStaging(p) ==
  /\ Purging(p) /\ opened[p] = "nowhere"
  /\ Exists(staging)
  /\ opened' = [opened EXCEPT ![p] = "staging"]
  /\ UNCHANGED <<fsVars, todo, writing, archive, pc, result, history>>

\* Another process removed or published it first.
StagingVanished(p) ==
  /\ Purging(p) /\ opened[p] = "nowhere"
  /\ ~Exists(staging)
  /\ IF pc[p] = "purge"
     THEN Ends(p, "err")
     ELSE Goto(p, "beaten") /\ UNCHANGED <<procVars, result>>
  /\ UNCHANGED <<fsVars, history>>

\* Whoever writes the file goes on writing what has no name any more.
CloseOver(where, f) ==
  [q \in Procs |->
     IF writing[q] = f /\ opened[q] = where THEN "unlinked" ELSE opened[q]]

Unlink(p) ==
  /\ Purging(p)
  /\ \E f \in Files :
       \/ /\ opened[p] = "staging" /\ Has(staging, f)
          /\ staging' = [staging EXCEPT ![f] = "missing"]
          /\ opened' = CloseOver("staging", f)
          /\ UNCHANGED <<dest, executable>>
       \/ /\ opened[p] = "dest" /\ Has(dest, f)
          /\ dest' = [dest EXCEPT ![f] = "missing"]
          /\ executable' = (executable /\ f # Binary)
          /\ opened' = CloseOver("dest", f)
          /\ UNCHANGED staging
  /\ UNCHANGED <<zip, todo, writing, archive, pc, result, history>>

Purged(p) ==
  /\ Purging(p)
  /\ opened[p] = "staging" /\ staging = Empty
  /\ staging' = NoDir
  /\ opened' = [q \in Procs |->
       CASE q = p -> "nowhere"
         [] q # p /\ opened[q] = "staging" -> "unlinked"
         [] OTHER -> opened[q]]
  /\ Goto(p, AfterPurge(p))
  /\ UNCHANGED <<zip, dest, executable, todo, writing, archive, result, history>>

\* The directory was published or removed while it was being emptied; its old
\* name is gone, which remove_dir_all may report or not.
PurgedElsewhere(p) ==
  /\ Purging(p)
  /\ \/ opened[p] = "unlinked"
     \/ opened[p] = "dest" /\ dest = Empty
  /\ UNCHANGED <<fsVars, history>>
  /\ \/ /\ pc[p] = "purge"
        /\ Ends(p, "err")
     \/ /\ opened' = [opened EXCEPT ![p] = "nowhere"]
        /\ Goto(p, AfterPurge(p))
        /\ UNCHANGED <<todo, writing, archive, result>>

Fresh(p) ==
  /\ pc[p] = "fresh"
  /\ staging' = IF Exists(staging) THEN staging ELSE Empty
  /\ Goto(p, "open")
  /\ UNCHANGED <<zip, dest, executable, procVars, result, history>>

-----------------------------------------------------------------------------
\* Extraction.

\* Another process may have removed the archive, or be writing it.
OpenArchive(p) ==
  /\ pc[p] = "open"
  /\ UNCHANGED <<fsVars, history>>
  /\ \/ zip # "whole" /\ Ends(p, "err")
     \/ /\ zip # "none"
        /\ archive' = [archive EXCEPT ![p] = IF zip = "whole" THEN "linked" ELSE "torn"]
        /\ todo' = [todo EXCEPT ![p] = Files]
        /\ Goto(p, "extract")
        /\ UNCHANGED <<writing, opened, result>>

BugCreateFile(p) ==   \* extracts in place, without staging
  /\ pc[p] = "extract"
  /\ \E f \in todo[p] :
       /\ dest' = [(IF Exists(dest) THEN dest ELSE Empty) EXCEPT ![f] = p]
       /\ writing' = [writing EXCEPT ![p] = f]
  /\ opened' = [opened EXCEPT ![p] = "dest"]
  /\ Goto(p, "write")
  /\ UNCHANGED <<zip, staging, executable, todo, archive, result, history>>

\* The zip crate creates the directories of the path that are missing.
CreateFile(p) ==
  /\ pc[p] = "extract"
  /\ \E f \in todo[p] :
       /\ staging' = [(IF Exists(staging) THEN staging ELSE Empty) EXCEPT ![f] = p]
       /\ writing' = [writing EXCEPT ![p] = f]
  /\ opened' = [opened EXCEPT ![p] = "staging"]
  /\ Goto(p, "write")
  /\ UNCHANGED <<zip, dest, executable, todo, archive, result, history>>

Filled(dir, p) ==
  IF dir[writing[p]] = p THEN [dir EXCEPT ![writing[p]] = "whole"] ELSE dir

FileWritten(p) ==
  /\ pc[p] = "write"
  /\ staging' = IF opened[p] = "staging" THEN Filled(staging, p) ELSE staging
  /\ dest' = IF opened[p] = "dest" THEN Filled(dest, p) ELSE dest
  /\ todo' = [todo EXCEPT ![p] = @ \ {writing[p]}]
  /\ writing' = [writing EXCEPT ![p] = NoFile]
  /\ opened' = [opened EXCEPT ![p] = "nowhere"]
  /\ Goto(p, "extract")
  /\ UNCHANGED <<zip, executable, archive, result, history>>

\* A truncated archive fails the checksum of an entry.
TornRead(p) ==
  /\ pc[p] = "write" /\ archive[p] = "torn"
  /\ Ends(p, "err")
  /\ UNCHANGED <<fsVars, history>>

Extracted(p) ==
  /\ pc[p] = "extract" /\ todo[p] = {}
  /\ archive' = [archive EXCEPT ![p] = "none"]
  /\ Goto(p, "publish")
  /\ UNCHANGED <<fsVars, todo, writing, opened, result, history>>

-----------------------------------------------------------------------------
\* Publication.

CheckDest(p) ==
  /\ pc[p] = "publish"
  /\ Goto(p, IF Exists(dest) THEN "drop" ELSE "rename")
  /\ UNCHANGED <<fsVars, procVars, result, history>>

BugRename(p) ==   \* makes room for its own build first
  /\ pc[p] = "rename"
  /\ IF Exists(dest)
     THEN /\ dest' = NoDir
          /\ UNCHANGED <<staging, executable, opened, pc>>
     ELSE /\ dest' = staging
          /\ staging' = NoDir
          /\ executable' = FALSE
          /\ opened' = [q \in Procs |-> IF opened[q] = "staging" THEN "dest" ELSE opened[q]]
          /\ Goto(p, "clean")
  /\ UNCHANGED <<zip, todo, writing, archive, result, history>>

\* rename(2) replaces an empty directory and no other; if it fails, staging is
\* dropped.
Rename(p) ==
  /\ pc[p] = "rename"
  /\ IF Exists(staging) /\ dest \in {NoDir, Empty}
     THEN /\ dest' = staging
          /\ staging' = NoDir
          /\ executable' = FALSE
          /\ opened' = [q \in Procs |->
               CASE opened[q] = "staging" -> "dest"
                 [] opened[q] = "dest" -> "unlinked"
                 [] OTHER -> opened[q]]
          /\ Goto(p, "clean")
     ELSE /\ Goto(p, "drop")
          /\ UNCHANGED <<staging, dest, executable, opened>>
  /\ UNCHANGED <<zip, todo, writing, archive, result, history>>

\* After a rename that failed: has somebody else published?  A process that
\* saw dest before it dropped its staging does not ask again, and need not,
\* for dest stays (DestStays).
Beaten(p) ==
  /\ pc[p] = "beaten"
  /\ IF Exists(dest)
     THEN Goto(p, "clean") /\ UNCHANGED <<zip, procVars, result>>
     ELSE /\ zip' = "none"
          /\ result' = [result EXCEPT ![p] = "err"]
          /\ archive' = Unlinked
          /\ Goto(p, "out")
          /\ todo' = todo /\ writing' = writing /\ opened' = opened
  /\ UNCHANGED <<staging, dest, executable, history>>

CleanZip(p) ==
  /\ pc[p] = "clean"
  /\ zip' = "none"
  /\ archive' = Unlinked
  /\ Goto(p, "resolve")
  /\ UNCHANGED <<staging, dest, executable, todo, writing, opened, result, history>>

Resolve(p) ==
  /\ pc[p] = "resolve"
  /\ IF Has(dest, Binary)
     THEN Goto(p, "chmod") /\ UNCHANGED <<procVars, result>>
     ELSE Ends(p, "err")
  /\ UNCHANGED <<fsVars, history>>

\* ensure_executable: the archive is one that does not store the mode.
Chmod(p) ==
  /\ pc[p] = "chmod"
  /\ IF Has(dest, Binary)
     THEN executable' = TRUE /\ Ends(p, "ok")
     ELSE Ends(p, "err") /\ UNCHANGED executable
  /\ UNCHANGED <<zip, staging, dest, history>>

-----------------------------------------------------------------------------

\* What goes wrong by itself, and whether that leaves a binary without its mode.
Broken(p, last) ==
  /\ clean' = [clean EXCEPT ![p] = FALSE]
  /\ cutShort' = (cutShort \/ pc[p] \in last)
  /\ UNCHANGED overlapped

\* The network, the disk or a permission fails the operation; what is best
\* effort goes on, and Path::exists does not fail.
Fault(p) ==
  /\ pc[p] \notin {"out", "prepare", "publish", "beaten"}
  /\ Broken(p, {"resolve", "chmod"})
  /\ UNCHANGED fsVars
  /\ CASE pc[p] = "drop" ->
            /\ opened' = [opened EXCEPT ![p] = "nowhere"]
            /\ Goto(p, "beaten")
            /\ UNCHANGED <<todo, writing, archive, result>>
       [] pc[p] = "rename" -> Goto(p, "drop") /\ UNCHANGED <<procVars, result>>
       [] pc[p] = "clean" -> Goto(p, "resolve") /\ UNCHANGED <<procVars, result>>
       [] OTHER -> Ends(p, "err")

Crash(p) ==
  /\ pc[p] # "out"
  /\ Broken(p, {"clean", "resolve", "chmod"})
  /\ Ends(p, "none")
  /\ UNCHANGED fsVars

Download(p) == CreateZip(p) \/ ZipWritten(p)
Purge(p) == OpenStaging(p) \/ StagingVanished(p) \/ Unlink(p) \/ Purged(p) \/ PurgedElsewhere(p)
Extract(p) ==
  OpenArchive(p) \/ CreateFile(p) \/ FileWritten(p) \/ TornRead(p) \/ Extracted(p)
Publish(p) ==
  CheckDest(p) \/ Rename(p) \/ Beaten(p) \/ CleanZip(p) \/ Resolve(p) \/ Chmod(p)

Next == \E p \in Procs :
  \/ Start(p) \/ Download(p) \/ CheckStaging(p) \/ Purge(p) \/ Fresh(p)
  \/ Extract(p) \/ Publish(p) \/ Fault(p) \/ Crash(p)

Spec == Init /\ [][Next]_cacheVars

-----------------------------------------------------------------------------

Steps == {"out", "download", "zipping", "prepare", "purge", "fresh", "open",
  "extract", "write", "publish", "rename", "drop", "beaten", "clean", "resolve", "chmod"}

Dirs == {NoDir} \cup [Files -> {"missing", "whole"} \cup Procs]

TypeOK ==
  /\ zip \in {"none", "whole"} \cup Procs
  /\ staging \in Dirs /\ dest \in Dirs
  /\ executable \in BOOLEAN
  /\ pc \in [Procs -> Steps]
  /\ todo \in [Procs -> SUBSET Files]
  /\ writing \in [Procs -> Files \cup {NoFile}]
  /\ opened \in [Procs -> {"nowhere", "staging", "dest", "unlinked"}]
  /\ archive \in [Procs -> {"none", "linked", "kept", "torn"}]
  /\ result \in [Procs -> {"none", "ok", "err"}]
  /\ clean \in [Procs -> BOOLEAN] /\ overlapped \in BOOLEAN /\ cutShort \in BOOLEAN
  /\ \A p \in Procs :
       /\ pc[p] = "write" <=> writing[p] # NoFile
       /\ pc[p] \notin {"write", "purge", "drop"} => opened[p] = "nowhere"

\* The cache-hit check looks at the binary only: whenever it finds one, the
\* whole build is there, as long as processes have taken turns.
TrustedIsComplete == Has(dest, Binary) /\ ~overlapped => Whole(dest)

\* And a run in which no operation failed by itself succeeds, whatever archive
\* and staging directory crashed runs have left.
RunSucceeds == \A p \in Procs : result[p] = "err" /\ ~overlapped => ~clean[p]

\* What ensure_chromium returns can be run, unless an earlier run published the
\* build and ended before it set the mode: a cache hit does not set it.
ReturnsUsable ==
  \A p \in Procs : result[p] = "ok" /\ ~overlapped /\ ~cutShort => executable

\* What failed and crashed runs leave in the cache does no harm to later ones.
LeftoversHarmless == RunSucceeds /\ ReturnsUsable

\* However many processes there are, once there is a version directory it is
\* never removed, only replaced while it is empty.
DestStays == [][Exists(dest) => Exists(dest')]_cacheVars

\* A run that comes after the build is complete, when nobody has a part of it
\* open, leaves it as it is.
InstallSettles ==
  [][Whole(dest) /\ (\A p \in Procs : opened[p] # "dest") => dest' = dest]_cacheVars

-----------------------------------------------------------------------------
\* What a comment in the source says, and the code does not ensure.

\* "the cache-hit check never trusts a half-populated version_dir", processes
\* that install at the same time included.
NeverHalfPopulated == Has(dest, Binary) => Whole(dest)

=============================================================================
