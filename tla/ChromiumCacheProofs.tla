------------------------ MODULE ChromiumCacheProofs ------------------------
(***************************************************************************)
(* For any number of processes and files: as long as the processes have    *)
(* taken turns, however often they crash and whatever fails, the version   *)
(* directory is absent or complete; and it stays in any case.              *)
(***************************************************************************)
EXTENDS ChromiumCache, TLAPS

TakingTurns == \A p, q \in Procs : pc[p] # "out" /\ pc[q] # "out" => p = q

\* What has been extracted is whole in the staging directory.
Staged ==
  \A p \in Procs :
    /\ pc[p] \in {"extract", "write"} => \A f \in Files \ todo[p] : staging[f] = "whole"
    /\ pc[p] \in {"publish", "rename"} => Whole(staging)

\* A process has a directory open only while it purges or writes, and what it
\* has open has not moved.
Still ==
  \A p \in Procs :
    /\ opened[p] \in {"nowhere", "staging"}
    /\ pc[p] = "write" => /\ opened[p] = "staging" /\ writing[p] \in todo[p]
                          /\ staging[writing[p]] = p

Published == dest = NoDir \/ Whole(dest)

CacheInv ==
  /\ TypeOK
  /\ ~overlapped => TakingTurns /\ Staged /\ Still /\ Published

Acts(p) ==
  \/ Start(p) \/ Download(p) \/ CheckStaging(p) \/ Purge(p) \/ Fresh(p)
  \/ Extract(p) \/ Publish(p) \/ Fault(p) \/ Crash(p)

Finishing == {"clean", "resolve", "chmod"}

\* A process that is alone has downloaded the archive it extracts, purges the
\* staging directory it has found, and has a version directory when it looks
\* for the binary, unless an operation of it failed.
SuppliedTo(p) ==
  /\ pc[p] = "zipping" => zip = p
  /\ pc[p] \in {"prepare", "purge", "fresh", "open"} => zip = "whole"
  /\ archive[p] = IF pc[p] \in {"extract", "write"} THEN "linked" ELSE "none"
  /\ pc[p] = "purge" /\ opened[p] = "nowhere" => Exists(staging)
  /\ pc[p] \in {"drop", "beaten"} => Exists(dest) \/ ~clean[p]
  /\ pc[p] \in Finishing => Exists(dest)

Supplied == \A p \in Procs : SuppliedTo(p)

\* Unless a run was cut short, a build that nobody is finishing can be run.
Usable ==
  /\ executable => Exists(dest)
  /\ \A p \in Procs : result[p] = "ok" => executable
  /\ Exists(dest) => executable \/ \E p \in Procs : pc[p] \in Finishing

LeftoversInv == ~overlapped => Supplied /\ RunSucceeds /\ (~cutShort => Usable)

LEMMA DirKinds ==
  /\ \A f \in Files : NoDir[f] = "nodir" /\ Empty[f] = "missing"
  /\ NoDir \in Dirs /\ Empty \in Dirs /\ Empty # NoDir
  /\ \A d \in Dirs : d # NoDir => d \in [Files -> {"missing", "whole"} \cup Procs]
  /\ \A d \in Dirs : Whole(d) => d \in [Files -> {"missing", "whole"} \cup Procs] /\ d # Empty
  BY CacheAssumption DEF NoDir, Empty, Dirs, Whole

\* Every step keeps the types, whatever others do to the directories.
LEMMA TypeStep ==
  ASSUME TypeOK, [Next]_cacheVars
  PROVE  TypeOK'
  <1> USE DEF fsVars, procVars, history
  <1> DEFINE Full == [Files -> {"missing", "whole"} \cup Procs]
  <1>a. \A dir \in Full, f \in Files, v \in {"missing", "whole"} \cup Procs :
          [dir EXCEPT ![f] = v] \in Dirs
    BY DEF Dirs
  <1>1. ASSUME NEW p \in Procs, NEW r \in {"none", "ok", "err"}, Ends(p, r)
        PROVE  /\ pc' \in [Procs -> Steps] /\ todo' \in [Procs -> SUBSET Files]
               /\ writing' \in [Procs -> Files \cup {NoFile}]
               /\ opened' \in [Procs -> {"nowhere", "staging", "dest", "unlinked"}]
               /\ archive' \in [Procs -> {"none", "linked", "kept", "torn"}]
               /\ result' \in [Procs -> {"none", "ok", "err"}]
               /\ \A q \in Procs :
                    /\ pc'[q] = "write" <=> writing'[q] # NoFile
                    /\ pc'[q] \notin {"write", "purge", "drop"} => opened'[q] = "nowhere"
    BY <1>1, CacheAssumption DEF Ends, TypeOK, Steps
  <1>2. ASSUME NEW p \in Procs, Start(p) PROVE TypeOK'
    BY <1>2 DEF Start, Goto, TypeOK, Steps
  <1>3. ASSUME NEW p \in Procs, CreateZip(p) PROVE TypeOK'
    BY <1>3 DEF CreateZip, Tear, Goto, TypeOK, Steps
  <1>4. ASSUME NEW p \in Procs, ZipWritten(p) PROVE TypeOK'
    BY <1>4 DEF ZipWritten, Goto, TypeOK, Steps
  <1>5. ASSUME NEW p \in Procs, CheckStaging(p) PROVE TypeOK'
    BY <1>5 DEF CheckStaging, Goto, TypeOK, Steps
  <1>6. ASSUME NEW p \in Procs, OpenStaging(p) PROVE TypeOK'
    BY <1>6 DEF OpenStaging, Purging, TypeOK, Steps
  <1>7. ASSUME NEW p \in Procs, StagingVanished(p) PROVE TypeOK'
    <2>1. CASE pc[p] = "purge"
      BY <1>1, <1>7, <2>1 DEF StagingVanished, TypeOK
    <2>2. CASE pc[p] # "purge"
      BY <1>7, <2>2 DEF StagingVanished, Purging, Goto, TypeOK, Steps
    <2> QED
      BY <2>1, <2>2
  <1>8. ASSUME NEW p \in Procs, Unlink(p) PROVE TypeOK'
    <2>1. PICK f \in Files :
            \/ /\ opened[p] = "staging" /\ Has(staging, f)
               /\ staging' = [staging EXCEPT ![f] = "missing"]
               /\ opened' = CloseOver("staging", f)
               /\ UNCHANGED <<dest, executable>>
            \/ /\ opened[p] = "dest" /\ Has(dest, f)
               /\ dest' = [dest EXCEPT ![f] = "missing"]
               /\ executable' = (executable /\ f # Binary)
               /\ opened' = CloseOver("dest", f)
               /\ UNCHANGED staging
      BY <1>8 DEF Unlink
    <2>2. staging' \in Dirs /\ dest' \in Dirs
      <3>1. \A dir \in Dirs : Has(dir, f) => dir \in Full
        BY DirKinds DEF Has
      <3> QED
        BY <1>a, <2>1, <3>1 DEF TypeOK
    <2>3. executable' \in BOOLEAN
      BY <2>1 DEF TypeOK
    <2>4. /\ opened' \in [Procs -> {"nowhere", "staging", "dest", "unlinked"}]
          /\ \A q \in Procs : opened'[q] = opened[q] \/ writing[q] = f
      BY <2>1 DEF CloseOver, TypeOK
    <2>5. \A q \in Procs : writing[q] = f => pc[q] = "write"
      BY CacheAssumption DEF TypeOK
    <2> QED
      BY <1>8, <2>2, <2>3, <2>4, <2>5 DEF Unlink, TypeOK
  <1>9. ASSUME NEW p \in Procs, Purged(p) PROVE TypeOK'
    <2>1. /\ opened' \in [Procs -> {"nowhere", "staging", "dest", "unlinked"}]
          /\ opened'[p] = "nowhere"
          /\ \A q \in Procs : opened[q] = "nowhere" => opened'[q] = "nowhere"
      BY <1>9 DEF Purged, TypeOK
    <2> QED
      BY <1>9, <2>1, DirKinds DEF Purged, Purging, AfterPurge, Goto, TypeOK, Steps
  <1>10. ASSUME NEW p \in Procs, PurgedElsewhere(p) PROVE TypeOK'
    <2>1. CASE Ends(p, "err")
      BY <1>1, <1>10, <2>1 DEF PurgedElsewhere, TypeOK
    <2>2. CASE ~Ends(p, "err")
      BY <1>10, <2>2 DEF PurgedElsewhere, Purging, AfterPurge, Goto, TypeOK, Steps
    <2> QED
      BY <2>1, <2>2
  <1>11. ASSUME NEW p \in Procs, Fresh(p) PROVE TypeOK'
    BY <1>11, DirKinds DEF Fresh, Goto, TypeOK, Steps
  <1>12. ASSUME NEW p \in Procs, OpenArchive(p) PROVE TypeOK'
    <2>1. CASE Ends(p, "err")
      BY <1>1, <1>12, <2>1 DEF OpenArchive, TypeOK
    <2>2. CASE ~Ends(p, "err")
      BY <1>12, <2>2 DEF OpenArchive, Goto, TypeOK, Steps
    <2> QED
      BY <2>1, <2>2
  <1>13. ASSUME NEW p \in Procs, CreateFile(p) PROVE TypeOK'
    <2>1. PICK f \in todo[p] :
            /\ staging' = [(IF Exists(staging) THEN staging ELSE Empty) EXCEPT ![f] = p]
            /\ writing' = [writing EXCEPT ![p] = f]
      BY <1>13 DEF CreateFile
    <2>2. f \in Files
      BY DEF TypeOK
    <2>3. staging' \in Dirs
      <3>1. (IF Exists(staging) THEN staging ELSE Empty) \in Full
        BY DirKinds DEF Exists, Empty, TypeOK
      <3> QED
        BY <1>a, <2>1, <2>2, <3>1
    <2> QED
      BY <1>13, <2>1, <2>2, <2>3, CacheAssumption DEF CreateFile, Goto, TypeOK, Steps
  <1>14. ASSUME NEW p \in Procs, FileWritten(p) PROVE TypeOK'
    <2>1. writing[p] \in Files
      BY <1>14 DEF FileWritten, TypeOK
    <2>2. \A dir \in Dirs : Filled(dir, p) \in Dirs
      <3> SUFFICES ASSUME NEW dir \in Dirs, dir[writing[p]] = p PROVE dir \in Full
        BY <1>a, <2>1 DEF Filled
      <3> QED
        BY <2>1, DirKinds, CacheAssumption
    <2>3. staging' \in Dirs /\ dest' \in Dirs
      BY <1>14, <2>2 DEF FileWritten, TypeOK
    <2> QED
      BY <1>14, <2>1, <2>3 DEF FileWritten, Goto, TypeOK, Steps
  <1>15. ASSUME NEW p \in Procs, TornRead(p) PROVE TypeOK'
    BY <1>1, <1>15 DEF TornRead, TypeOK
  <1>16. ASSUME NEW p \in Procs, Extracted(p) PROVE TypeOK'
    BY <1>16 DEF Extracted, Goto, TypeOK, Steps
  <1>17. ASSUME NEW p \in Procs, CheckDest(p) PROVE TypeOK'
    BY <1>17 DEF CheckDest, Goto, TypeOK, Steps
  <1>18. ASSUME NEW p \in Procs, Rename(p) PROVE TypeOK'
    <2>1. /\ opened' \in [Procs -> {"nowhere", "staging", "dest", "unlinked"}]
          /\ \A q \in Procs : opened[q] = "nowhere" => opened'[q] = "nowhere"
      BY <1>18 DEF Rename, TypeOK
    <2>2. /\ pc[p] = "rename" /\ opened[p] = "nowhere"
          /\ \E l \in {"clean", "drop"} : pc' = [pc EXCEPT ![p] = l]
      BY <1>18 DEF Rename, Goto, TypeOK
    <2>3. UNCHANGED <<zip, todo, writing, archive, result, history>>
      BY <1>18 DEF Rename
    <2>4. staging' \in Dirs /\ dest' \in Dirs /\ executable' \in BOOLEAN
      BY <1>18, DirKinds DEF Rename, TypeOK
    <2> QED
      BY <2>1, <2>2, <2>3, <2>4 DEF TypeOK, Steps
  <1>19. ASSUME NEW p \in Procs, Beaten(p) PROVE TypeOK'
    BY <1>19 DEF Beaten, Unlinked, Goto, TypeOK, Steps
  <1>20. ASSUME NEW p \in Procs, CleanZip(p) PROVE TypeOK'
    BY <1>20 DEF CleanZip, Unlinked, Goto, TypeOK, Steps
  <1>21. ASSUME NEW p \in Procs, Resolve(p) PROVE TypeOK'
    <2>1. CASE Has(dest, Binary)
      BY <1>21, <2>1 DEF Resolve, Goto, TypeOK, Steps
    <2>2. CASE ~Has(dest, Binary)
      BY <1>1, <1>21, <2>2 DEF Resolve, TypeOK
    <2> QED
      BY <2>1, <2>2
  <1>22. ASSUME NEW p \in Procs, Chmod(p) PROVE TypeOK'
    BY <1>1, <1>22 DEF Chmod, TypeOK
  <1>23. ASSUME NEW p \in Procs, Fault(p) PROVE TypeOK'
    <2>1. /\ clean' \in [Procs -> BOOLEAN] /\ overlapped' \in BOOLEAN /\ cutShort' \in BOOLEAN
          /\ UNCHANGED fsVars
      BY <1>23 DEF Fault, Broken, TypeOK
    <2>2. CASE pc[p] = "drop"
      <3>1. /\ opened' = [opened EXCEPT ![p] = "nowhere"]
            /\ pc' = [pc EXCEPT ![p] = "beaten"]
            /\ UNCHANGED <<todo, writing, archive, result>>
        BY <1>23, <2>2 DEF Fault, Goto
      <3> QED
        BY <2>1, <2>2, <3>1 DEF TypeOK, Steps
    <2>3. CASE pc[p] \in {"rename", "clean"}
      BY <1>23, <2>1, <2>3 DEF Fault, Goto, TypeOK, Steps
    <2>4. CASE pc[p] \notin {"drop", "rename", "clean"}
      <3>1. Ends(p, "err")
        BY <1>23, <2>4 DEF Fault
      <3> QED
        BY <1>1, <2>1, <3>1 DEF TypeOK
    <2> QED
      BY <2>2, <2>3, <2>4
  <1>24. ASSUME NEW p \in Procs, Crash(p) PROVE TypeOK'
    BY <1>1, <1>24 DEF Crash, Broken, TypeOK
  <1>25. CASE UNCHANGED cacheVars
    BY <1>25 DEF cacheVars, TypeOK
  <1> QED
    BY <1>2, <1>3, <1>4, <1>5, <1>6, <1>7, <1>8, <1>9, <1>10, <1>11, <1>12, <1>13, <1>14,
       <1>15, <1>16, <1>17, <1>18, <1>19, <1>20, <1>21, <1>22, <1>23, <1>24, <1>25
       DEF Next, Download, Purge, Extract, Publish

\* If the processes still take turns after a step, they did before it, and the
\* one that takes the step is alone.
LEMMA TurnStep ==
  ASSUME CacheInv, NEW p \in Procs, Acts(p), ~overlapped'
  PROVE  /\ ~overlapped
         /\ \A q \in Procs \ {p} : pc[q] = "out" /\ pc'[q] = "out"
  <1> USE DEF CacheInv, TypeOK, TakingTurns
  <1>1. CASE Start(p)
    BY <1>1 DEF Start, Goto
  <1>2. CASE ~Start(p)
    <2>1. pc[p] # "out" /\ overlapped' = overlapped
      BY <1>2 DEF Acts, Download, CreateZip, ZipWritten, CheckStaging, Purge, Purging,
        OpenStaging, StagingVanished, Unlink, Purged, PurgedElsewhere, Fresh, Extract,
        OpenArchive, CreateFile, FileWritten, TornRead, Extracted, Publish, CheckDest,
        Rename, Beaten, CleanZip, Resolve, Chmod, Fault, Crash, Broken, history
    <2>2. \A q \in Procs \ {p} : pc'[q] = pc[q]
      BY <1>2 DEF Acts, Download, CreateZip, ZipWritten, CheckStaging, Purge, Purging,
        OpenStaging, StagingVanished, Unlink, Purged, PurgedElsewhere, Fresh, Extract,
        OpenArchive, CreateFile, FileWritten, TornRead, Extracted, Publish, CheckDest,
        Rename, Beaten, CleanZip, Resolve, Chmod, Fault, Crash, Ends, Goto
    <2> QED
      BY <2>1, <2>2
  <1> QED
    BY <1>1, <1>2

\* What a process that is alone finds, from what it or others have left.
LEMMA InstallStep ==
  ASSUME CacheInv, TypeOK', NEW p \in Procs, Acts(p), ~overlapped'
  PROVE  TakingTurns' /\ Staged' /\ Still' /\ Published'
  <1> USE DEF fsVars, procVars, history
  <1>t. TypeOK /\ Staged /\ Still /\ Published
    BY TurnStep DEF CacheInv
  <1>o. \A q \in Procs : q = p \/ (pc'[q] = "out" /\ opened'[q] = "nowhere")
    BY TurnStep DEF TypeOK
  <1>0. TakingTurns'
    BY <1>o DEF TakingTurns
  <1> SUFFICES Staged' /\ Still' /\ Published'
    BY <1>0
  <1> DEFINE Quiet == {"out", "download", "zipping", "prepare", "purge", "fresh", "open",
                       "drop", "beaten", "clean", "resolve", "chmod"}
  \* Where nothing is promised of the staging directory.
  <1>1. ASSUME pc'[p] \in Quiet, opened'[p] \in {"nowhere", "staging"},
               dest' = dest
        PROVE  Staged' /\ Still' /\ Published'
    BY <1>t, <1>o, <1>1 DEF Staged, Still, Published, Whole
  <1>2. ASSUME NEW r, Ends(p, r), dest' = dest
        PROVE  Staged' /\ Still' /\ Published'
    BY <1>t, <1>1, <1>2 DEF Ends, TypeOK
  <1>3. CASE \/ Start(p) \/ CreateZip(p) \/ ZipWritten(p) \/ CheckStaging(p)
           \/ OpenStaging(p) \/ Fresh(p) \/ Beaten(p) \/ CleanZip(p)
    <2>1. dest' = dest
      BY <1>3 DEF Start, CreateZip, ZipWritten, CheckStaging, OpenStaging, Fresh, Beaten, CleanZip
    <2>2. pc'[p] \in Quiet
      BY <1>t, <1>3 DEF Start, CreateZip, ZipWritten, CheckStaging, OpenStaging, Purging, Fresh,
                 Beaten, CleanZip, Goto, TypeOK
    <2>3. opened'[p] \in {"nowhere", "staging"}
      BY <1>t, <1>3 DEF Start, CreateZip, ZipWritten, CheckStaging, OpenStaging, Fresh,
                 Beaten, CleanZip, Still, TypeOK
    <2> QED
      BY <1>1, <2>1, <2>2, <2>3
  <1>4. CASE Purge(p)
    <2>1. CASE OpenStaging(p)
      BY <1>3, <2>1
    <2>2. CASE StagingVanished(p)
      <3>1. CASE pc[p] = "purge"
        BY <1>2, <2>2, <3>1 DEF StagingVanished
      <3>2. CASE pc[p] # "purge"
        BY <1>t, <1>1, <2>2, <3>2 DEF StagingVanished, Goto, TypeOK
      <3> QED
        BY <3>1, <3>2
    <2>3. CASE Unlink(p)
      <3>1. /\ dest' = dest /\ pc'[p] = pc[p] /\ opened'[p] = opened[p]
        BY <1>t, <2>3, CacheAssumption DEF Unlink, Purging, CloseOver, Still, TypeOK
      <3> QED
        BY <1>t, <1>1, <2>3, <3>1 DEF Unlink, Purging, Still
    <2>4. CASE Purged(p)
      BY <1>t, <1>1, <2>4 DEF Purged, Purging, AfterPurge, Goto, TypeOK
    <2>5. CASE PurgedElsewhere(p)
      BY <1>t, <2>5 DEF PurgedElsewhere, Still
    <2> QED
      BY <1>4, <2>1, <2>2, <2>3, <2>4, <2>5 DEF Purge
  <1>5. CASE OpenArchive(p)
    <2>1. CASE Ends(p, "err")
      BY <1>2, <1>5, <2>1 DEF OpenArchive
    <2>2. CASE ~Ends(p, "err")
      BY <1>t, <1>o, <1>5, <2>2 DEF OpenArchive, Goto, Staged, Still, Published, Whole, TypeOK
    <2> QED
      BY <2>1, <2>2
  <1>6. CASE CreateFile(p)
    <2>1. PICK f \in todo[p] :
            /\ staging' = [(IF Exists(staging) THEN staging ELSE Empty) EXCEPT ![f] = p]
            /\ writing' = [writing EXCEPT ![p] = f]
      BY <1>6 DEF CreateFile
    <2>2. f \in Files
      BY <1>t DEF TypeOK
    <2>3. /\ dest' = dest /\ todo' = todo /\ opened'[p] = "staging" /\ pc'[p] = "write"
          /\ writing'[p] = f /\ pc[p] = "extract"
      BY <1>t, <1>6, <2>1 DEF CreateFile, Goto, TypeOK
    <2>4. staging'[f] = p
      BY <1>t, <2>1, <2>2, DirKinds DEF Exists, Empty, TypeOK
    <2>5. \A g \in Files \ todo[p] : staging[g] = "whole" /\ staging'[g] = staging[g]
      <3> SUFFICES ASSUME NEW g \in Files \ todo[p]
                   PROVE  staging[g] = "whole" /\ staging'[g] = staging[g]
        OBVIOUS
      <3>1. staging[g] = "whole"
        BY <1>t, <2>3 DEF Staged
      <3>2. Exists(staging)
        BY <3>1, DirKinds DEF Exists
      <3> QED
        BY <1>t, <2>1, <3>1, <3>2, DirKinds DEF Exists, TypeOK
    <2> QED
      BY <1>t, <1>o, <2>3, <2>4, <2>5 DEF Staged, Still, Published, Whole
  <1>7. CASE FileWritten(p)
    <2>1. /\ opened[p] = "staging" /\ writing[p] \in todo[p] /\ staging[writing[p]] = p
          /\ writing[p] \in Files
      BY <1>t, <1>7 DEF FileWritten, Still, TypeOK
    <2>2. /\ staging' = [staging EXCEPT ![writing[p]] = "whole"] /\ dest' = dest
          /\ todo' = [todo EXCEPT ![p] = @ \ {writing[p]}]
          /\ opened'[p] = "nowhere" /\ pc'[p] = "extract"
      BY <1>t, <1>7, <2>1 DEF FileWritten, Filled, Goto, TypeOK
    <2>3. \A f \in Files \ todo[p] : staging[f] = "whole"
      BY <1>t, <1>7 DEF FileWritten, Staged
    <2>4. \A f \in Files \ todo'[p] : staging'[f] = "whole"
      <3>1. staging # NoDir
        BY <2>1, CacheAssumption, DirKinds
      <3>2. staging \in [Files -> {"missing", "whole"} \cup Procs]
        BY <1>t, <3>1, DirKinds DEF TypeOK
      <3> QED
        BY <1>t, <2>1, <2>2, <2>3, <3>2 DEF TypeOK
    <2> QED
      BY <1>t, <1>o, <2>2, <2>4 DEF Staged, Still, Published, Whole
  <1>8. CASE TornRead(p)
    BY <1>2, <1>8 DEF TornRead
  <1>9. CASE Extracted(p)
    BY <1>t, <1>o, <1>9 DEF Extracted, Goto, Staged, Still, Published, Whole, TypeOK
  <1>10. CASE CheckDest(p)
    BY <1>t, <1>o, <1>10 DEF CheckDest, Goto, Staged, Still, Published, Whole, TypeOK
  <1>11. CASE Rename(p)
    <2>1. Whole(staging) /\ opened[p] = "nowhere"
      BY <1>t, <1>11 DEF Rename, Staged, TypeOK
    <2>2. pc'[p] \in Quiet /\ opened'[p] = "nowhere"
      BY <1>t, <1>11, <2>1 DEF Rename, Goto, TypeOK
    <2>3. dest' = dest \/ dest' = staging
      BY <1>11 DEF Rename
    <2>4. Published'
      BY <1>t, <2>1, <2>3 DEF Published, Whole
    <2> QED
      BY <1>o, <2>2, <2>4 DEF Staged, Still
  <1>12. CASE Resolve(p) \/ Chmod(p)
    <2>1. dest' = dest
      BY <1>12 DEF Resolve, Chmod
    <2>2. pc'[p] \in Quiet /\ opened'[p] \in {"nowhere", "staging"}
      BY <1>t, <1>12 DEF Resolve, Chmod, Ends, Goto, Still, TypeOK
    <2> QED
      BY <1>1, <2>1, <2>2
  <1>13. CASE Fault(p) \/ Crash(p)
    <2>1. dest' = dest
      BY <1>13 DEF Fault, Crash
    <2>2. pc'[p] \in Quiet /\ opened'[p] \in {"nowhere", "staging"}
      <3>1. CASE Fault(p)
        BY <1>t, <3>1 DEF Fault, Ends, Goto, Still, TypeOK
      <3>2. CASE Crash(p)
        BY <1>t, <3>2 DEF Crash, Ends, TypeOK
      <3> QED
        BY <1>13, <3>1, <3>2
    <2> QED
      BY <1>1, <2>1, <2>2
  <1> QED
    BY <1>3, <1>4, <1>5, <1>6, <1>7, <1>8, <1>9, <1>10, <1>11, <1>12, <1>13
       DEF Acts, Download, Extract, Publish

\* What a process that is alone finds serves it, whoever left it.
LEMMA LeftoversStep ==
  ASSUME CacheInv, CacheInv', LeftoversInv, NEW p \in Procs, Acts(p), ~overlapped'
  PROVE  Supplied' /\ RunSucceeds' /\ (~cutShort' => Usable')
  <1> USE DEF fsVars, procVars, history
  <1>t. /\ TypeOK /\ TypeOK' /\ Staged /\ Still /\ Still' /\ Published /\ Published'
        /\ ~overlapped /\ Supplied /\ RunSucceeds /\ (~cutShort => Usable)
    BY TurnStep DEF CacheInv, LeftoversInv
  <1>p. /\ archive[p] = IF pc[p] \in {"extract", "write"} THEN "linked" ELSE "none"
        /\ SuppliedTo(p)
    BY <1>t DEF Supplied, SuppliedTo
  <1>b. Exists(dest) => Whole(dest) /\ Has(dest, Binary)
    BY <1>t, CacheAssumption DEF Exists, Published, Whole, Has
  \* The others are out, and nothing of theirs changes.
  <1>q. \A q \in Procs \ {p} : /\ pc[q] = "out" /\ pc'[q] = "out" /\ archive[q] = "none"
                               /\ opened[q] = "nowhere" /\ opened'[q] = "nowhere"
    BY <1>t, TurnStep DEF Supplied, SuppliedTo, TypeOK
  <1>o. \A q \in Procs \ {p} :
          archive'[q] = "none" /\ result'[q] = result[q] /\ clean'[q] = clean[q]
    BY <1>t, <1>q DEF Acts, Start, Download, CreateZip, ZipWritten, CheckStaging, Purge, Purging,
        OpenStaging, StagingVanished, Unlink, Purged, PurgedElsewhere, Fresh, Extract,
        OpenArchive, CreateFile, FileWritten, TornRead, Extracted, Publish, CheckDest,
        Rename, Beaten, CleanZip, Resolve, Chmod, Fault, Crash, Ends, Goto, Broken, Tear,
        Unlinked, TypeOK
  <1> SUFFICES /\ SuppliedTo(p)'
               /\ result'[p] = "err" => ~clean'[p]
               /\ ~cutShort' =>
                    /\ ~cutShort
                    /\ executable' => Exists(dest')
                    /\ executable => executable'
                    /\ result'[p] = "ok" => executable'
                    /\ Exists(dest') => executable' \/ pc'[p] \in Finishing
    <2>1. Supplied'
      <3> SUFFICES ASSUME NEW q \in Procs \ {p} PROVE SuppliedTo(q)'
        BY DEF Supplied
      <3> QED
        BY <1>q, <1>o DEF SuppliedTo, Finishing
    <2>2. RunSucceeds'
      BY <1>t, <1>o DEF RunSucceeds
    <2>3. ASSUME ~cutShort' PROVE Usable'
      BY <1>t, <1>o, <2>3 DEF Usable
    <2> QED
      BY <2>1, <2>2, <2>3
  \* Steps that leave the version directory and what is said of it alone.
  <1>1. ASSUME dest' = dest, executable' = executable, cutShort' = cutShort,
               result'[p] = "ok" => result[p] = "ok",
               pc[p] \in Finishing => pc'[p] \in Finishing
        PROVE  ~cutShort' =>
                 /\ ~cutShort
                 /\ executable' => Exists(dest')
                 /\ executable => executable'
                 /\ result'[p] = "ok" => executable'
                 /\ Exists(dest') => executable' \/ pc'[p] \in Finishing
    BY <1>t, <1>q, <1>1 DEF Usable, Finishing
  <1>2. CASE Start(p)
    <2>1. /\ SuppliedTo(p)' /\ (result'[p] = "err" => ~clean'[p])
          /\ dest' = dest /\ executable' = executable /\ cutShort' = cutShort
          /\ pc[p] = "out" /\ (result'[p] = "ok" => Has(dest, Binary))
      BY <1>t, <1>p, <1>2 DEF Start, Goto, SuppliedTo, Finishing, TypeOK
    <2>2. Has(dest, Binary) => Exists(dest)
      BY CacheAssumption, DirKinds DEF Has, Exists
    <2> QED
      BY <1>t, <1>q, <2>1, <2>2 DEF Usable, Finishing
  <1>3. CASE Download(p)
    <2>1. SuppliedTo(p)'
      BY <1>t, <1>p, <1>3 DEF Download, CreateZip, ZipWritten, Tear, Goto, SuppliedTo, Finishing,
        TypeOK
    <2> QED
      BY <1>t, <1>1, <1>3, <2>1 DEF Download, CreateZip, ZipWritten, Goto, RunSucceeds, Finishing, TypeOK
  <1>4. CASE CheckStaging(p) \/ Fresh(p)
    <2>1. SuppliedTo(p)'
      BY <1>t, <1>p, <1>4 DEF CheckStaging, Fresh, Goto, SuppliedTo, Finishing, TypeOK
    <2> QED
      BY <1>t, <1>1, <1>4, <2>1 DEF CheckStaging, Fresh, Goto, RunSucceeds, Finishing, TypeOK
  <1>5. CASE Purge(p)
    <2>1. CASE OpenStaging(p)
      BY <1>t, <1>p, <1>1, <2>1 DEF OpenStaging, Purging, SuppliedTo, RunSucceeds, Finishing, TypeOK
    <2>2. CASE StagingVanished(p)
      <3>1. pc[p] = "drop"
        BY <1>p, <2>2 DEF StagingVanished, Purging, SuppliedTo
      <3> QED
        BY <1>t, <1>p, <1>1, <2>2, <3>1 DEF StagingVanished, Goto, SuppliedTo, RunSucceeds, Finishing, TypeOK
    <2>3. CASE Unlink(p)
      <3>1. /\ dest' = dest /\ executable' = executable /\ opened[p] = "staging"
            /\ opened'[p] = "staging"
        BY <1>t, <2>3, CacheAssumption DEF Unlink, Purging, CloseOver, Still, TypeOK
      <3> QED
        BY <1>t, <1>p, <1>1, <2>3, <3>1 DEF Unlink, Purging, SuppliedTo, RunSucceeds, Finishing, TypeOK
    <2>4. CASE Purged(p)
      BY <1>t, <1>p, <1>1, <2>4 DEF Purged, Purging, AfterPurge, Goto, SuppliedTo, RunSucceeds,
        Finishing, TypeOK
    <2>5. CASE PurgedElsewhere(p)
      BY <1>t, <2>5 DEF PurgedElsewhere, Still
    <2> QED
      BY <1>5, <2>1, <2>2, <2>3, <2>4, <2>5 DEF Purge
  <1>6. CASE Extract(p)
    <2>1. ~TornRead(p)
      BY <1>p DEF TornRead
    <2>2. OpenArchive(p) => ~Ends(p, "err") \/ zip # "whole"
      BY <1>t DEF OpenArchive, Ends, Goto, TypeOK
    <2>3. SuppliedTo(p)'
      BY <1>t, <1>p, <1>6, <2>1, <2>2 DEF Extract, OpenArchive, CreateFile, FileWritten, Extracted,
        Goto, SuppliedTo, Finishing, TypeOK
    <2>4. dest' = dest
      BY <1>t, <1>6, <2>1 DEF Extract, OpenArchive, CreateFile, FileWritten, Extracted, Still, TypeOK
    <2> QED
      BY <1>t, <1>p, <1>1, <1>6, <2>1, <2>2, <2>3, <2>4 DEF Extract, OpenArchive, CreateFile, FileWritten,
        Extracted, Goto, SuppliedTo, RunSucceeds, Finishing, TypeOK
  <1>7. CASE CheckDest(p)
    BY <1>t, <1>p, <1>1, <1>7 DEF CheckDest, Goto, SuppliedTo, RunSucceeds, Finishing, TypeOK
  <1>8. CASE Rename(p)
    <2>1. pc[p] = "rename" /\ archive[p] = "none" /\ clean' = clean /\ result' = result
          /\ cutShort' = cutShort /\ archive' = archive
      BY <1>p, <1>8 DEF Rename
    <2>2. Whole(staging) /\ Exists(staging)
      BY <1>t, <2>1, CacheAssumption, DirKinds DEF Staged, Whole, Exists
    <2>3. CASE dest \in {NoDir, Empty}
      <3>1. dest' = staging /\ pc'[p] = "clean" /\ executable' = FALSE /\ ~Exists(dest)
        <4>1. ~Exists(dest)
          BY <1>b, <2>3, CacheAssumption, DirKinds DEF Exists, Whole
        <4> QED
          BY <1>t, <1>8, <2>2, <2>3, <4>1 DEF Rename, Goto, TypeOK
      <3> QED
        BY <1>t, <2>1, <2>2, <3>1 DEF SuppliedTo, RunSucceeds, Usable, Finishing
    <2>4. CASE dest \notin {NoDir, Empty}
      <3>1. dest' = dest /\ pc'[p] = "drop" /\ executable' = executable /\ Exists(dest)
        BY <1>t, <1>8, <2>4 DEF Rename, Goto, Exists, TypeOK
      <3> QED
        BY <1>t, <1>1, <2>1, <3>1 DEF SuppliedTo, RunSucceeds, Finishing
    <2> QED
      BY <2>3, <2>4
  <1>9. CASE Beaten(p) \/ CleanZip(p)
    <2>1. SuppliedTo(p)'
      BY <1>t, <1>p, <1>9 DEF Beaten, CleanZip, Unlinked, Goto, SuppliedTo, Finishing, TypeOK
    <2>2. result'[p] = "err" => ~clean'[p]
      BY <1>t, <1>p, <1>9 DEF Beaten, CleanZip, SuppliedTo, RunSucceeds, TypeOK
    <2> QED
      BY <1>t, <1>p, <1>1, <1>9, <2>1, <2>2 DEF Beaten, CleanZip, Goto, Finishing, SuppliedTo, TypeOK
  <1>10. CASE Resolve(p) \/ Chmod(p)
    <2>1. Has(dest, Binary) /\ Exists(dest)
      BY <1>p, <1>b, <1>10 DEF Resolve, Chmod, SuppliedTo, Finishing
    <2>2. CASE Resolve(p)
      <3>1. pc'[p] = "chmod" /\ pc[p] = "resolve"
        BY <1>t, <2>1, <2>2 DEF Resolve, Goto, TypeOK
      <3> QED
        BY <1>t, <1>p, <1>1, <2>1, <2>2, <3>1 DEF Resolve, SuppliedTo, RunSucceeds, Finishing
    <2>3. CASE Chmod(p)
      <3>1. /\ executable' = TRUE /\ dest' = dest /\ pc'[p] = "out" /\ result'[p] = "ok"
            /\ archive'[p] = "none" /\ cutShort' = cutShort
        BY <1>t, <2>1, <2>3 DEF Chmod, Ends, TypeOK
      <3> QED
        BY <2>1, <3>1 DEF SuppliedTo, Finishing
    <2> QED
      BY <1>10, <2>2, <2>3
  <1>11. CASE Fault(p)
    <2>1. /\ ~clean'[p] /\ dest' = dest /\ executable' = executable /\ zip' = zip
          /\ cutShort' = (cutShort \/ pc[p] \in {"resolve", "chmod"})
      BY <1>t, <1>11 DEF Fault, Broken, TypeOK
    <2>2. /\ SuppliedTo(p)' /\ (result'[p] = "ok" => result[p] = "ok")
          /\ pc[p] = "clean" => pc'[p] = "resolve"
      BY <1>t, <1>p, <1>11, <2>1 DEF Fault, Ends, Goto, SuppliedTo, Finishing, TypeOK
    <2> QED
      BY <1>t, <1>q, <2>1, <2>2 DEF Usable, Finishing
  <1>12. CASE Crash(p)
    <2>1. /\ ~clean'[p] /\ dest' = dest /\ executable' = executable /\ pc'[p] = "out"
          /\ cutShort' = (cutShort \/ pc[p] \in {"clean", "resolve", "chmod"})
          /\ archive'[p] = "none" /\ result'[p] = "none"
      BY <1>t, <1>12 DEF Crash, Broken, Ends, TypeOK
    <2> QED
      BY <1>t, <1>q, <2>1 DEF SuppliedTo, Usable, Finishing
  <1> QED
    BY <1>2, <1>3, <1>4, <1>5, <1>6, <1>7, <1>8, <1>9, <1>10, <1>11, <1>12 DEF Acts, Publish

-----------------------------------------------------------------------------

\* CacheInv holds through crashes, failures and any number of runs.
THEOREM CacheInvariant == Spec => []CacheInv
  <1>1. Init => CacheInv
    <2> SUFFICES ASSUME Init PROVE CacheInv
      OBVIOUS
    <2>1. TypeOK
      BY DirKinds, CacheAssumption DEF Init, TypeOK, Steps
    <2>2. TakingTurns /\ Staged /\ Still /\ Published
      BY DEF Init, TakingTurns, Staged, Still, Published
    <2> QED
      BY <2>1, <2>2 DEF CacheInv
  <1>2. CacheInv /\ [Next]_cacheVars => CacheInv'
    <2> SUFFICES ASSUME CacheInv, [Next]_cacheVars PROVE CacheInv'
      OBVIOUS
    <2>1. TypeOK'
      BY TypeStep DEF CacheInv
    <2>2. CASE Next
      <3>1. PICK p \in Procs : Acts(p)
        BY <2>2 DEF Next, Acts
      <3> QED
        BY <2>1, <3>1, InstallStep DEF CacheInv
    <2>3. CASE UNCHANGED cacheVars
      BY <2>1, <2>3 DEF cacheVars, fsVars, procVars, history, CacheInv, TakingTurns, Staged,
                        Still, Published, Whole
    <2> QED
      BY <2>2, <2>3
  <1> QED
    BY <1>1, <1>2, PTL DEF Spec

\* Processes that take turns never find a version directory that the cache-hit
\* check would wrongly trust, whatever crashed (download_and_extract).
THEOREM TrustedIsCompleteHolds == Spec => []TrustedIsComplete
  <1>1. CacheInv => TrustedIsComplete
    BY CacheAssumption, DirKinds DEF CacheInv, Published, TrustedIsComplete, Has
  <1> QED
    BY <1>1, CacheInvariant, PTL

\* However runs failed or crashed, later ones that take turns succeed unless an
\* operation of theirs fails, and what they return can be run unless a run was
\* cut short between its rename and its chmod (download_and_extract).
THEOREM LeftoversHarmlessHolds == Spec => []LeftoversHarmless
  <1>1. Init => LeftoversInv
    <2> SUFFICES ASSUME Init PROVE LeftoversInv
      OBVIOUS
    <2>1. Supplied
      BY DEF Init, Supplied, SuppliedTo, Finishing
    <2> QED
      BY <2>1 DEF Init, LeftoversInv, RunSucceeds, Usable, Exists
  <1>2. CacheInv /\ CacheInv' /\ LeftoversInv /\ [Next]_cacheVars => LeftoversInv'
    <2> SUFFICES ASSUME CacheInv, CacheInv', LeftoversInv, [Next]_cacheVars
                 PROVE  LeftoversInv'
      OBVIOUS
    <2>1. CASE Next
      <3>1. PICK p \in Procs : Acts(p)
        BY <2>1 DEF Next, Acts
      <3> QED
        BY <3>1, LeftoversStep DEF LeftoversInv
    <2>2. CASE UNCHANGED cacheVars
      BY <2>2 DEF cacheVars, fsVars, procVars, history, LeftoversInv, Supplied, SuppliedTo,
                  RunSucceeds, Usable, Exists, Finishing
    <2> QED
      BY <2>1, <2>2
  <1>3. LeftoversInv => LeftoversHarmless
    BY DEF LeftoversInv, LeftoversHarmless, RunSucceeds, ReturnsUsable, Usable
  <1> QED
    BY <1>1, <1>2, <1>3, CacheInvariant, PTL DEF Spec

\* However many processes install at once, none removes a published version
\* directory: the one that drops its own staging for it need not look again.
THEOREM DestStaysHolds == Spec => DestStays
  <1>1. CacheInv /\ [Next]_cacheVars => [Exists(dest) => Exists(dest')]_cacheVars
    <2> SUFFICES ASSUME CacheInv, Next, Exists(dest) PROVE Exists(dest')
      OBVIOUS
    <2>t. TypeOK
      BY DEF CacheInv
    <2> PICK p \in Procs : Acts(p)
      BY DEF Next, Acts
    <2>1. CASE Unlink(p)
      BY <2>t, <2>1, DirKinds DEF Unlink, Exists, TypeOK
    <2>2. CASE FileWritten(p)
      <3>1. writing[p] \in Files
        BY <2>t, <2>2 DEF FileWritten, TypeOK
      <3>2. dest' = dest \/ dest' = [dest EXCEPT ![writing[p]] = "whole"]
        BY <2>2 DEF FileWritten, Filled
      <3> QED
        BY <2>t, <3>1, <3>2, DirKinds DEF Exists, TypeOK
    <2>3. CASE Rename(p)
      BY <2>3 DEF Rename, Exists
    <2>4. CASE ~Unlink(p) /\ ~FileWritten(p) /\ ~Rename(p)
      <3>1. dest' = dest
        BY <2>4 DEF Acts, Start, Download, CreateZip, ZipWritten, CheckStaging, Purge,
          OpenStaging, StagingVanished, Purged, PurgedElsewhere, Fresh, Extract,
          OpenArchive, CreateFile, TornRead, Extracted, Publish, CheckDest,
          Beaten, CleanZip, Resolve, Chmod, Fault, Crash, fsVars
      <3> QED
        BY <3>1
    <2> QED
      BY <2>1, <2>2, <2>3, <2>4
  <1> QED
    BY <1>1, CacheInvariant, PTL DEF Spec, DestStays

\* A run that comes after the build is complete, when nobody has a part of it
\* open, changes nothing of it: neither its purge nor its rename reaches it.
THEOREM InstallSettlesHolds == Spec => InstallSettles
  <1>1. CacheInv /\ [Next]_cacheVars =>
          [Whole(dest) /\ (\A p \in Procs : opened[p] # "dest") => dest' = dest]_cacheVars
    <2> SUFFICES ASSUME CacheInv, Next, Whole(dest), \A p \in Procs : opened[p] # "dest"
                 PROVE  dest' = dest
      OBVIOUS
    <2> PICK p \in Procs : Acts(p)
      BY DEF Next, Acts
    <2>1. CASE Unlink(p)
      BY <2>1 DEF Unlink
    <2>2. CASE FileWritten(p)
      BY <2>2 DEF FileWritten
    <2>3. CASE Rename(p)
      <3>1. dest \notin {NoDir, Empty}
        BY DirKinds, CacheAssumption DEF CacheInv, TypeOK, Whole
      <3> QED
        BY <2>3, <3>1 DEF Rename, fsVars
    <2>4. CASE ~Unlink(p) /\ ~FileWritten(p) /\ ~Rename(p)
      BY <2>4 DEF Acts, Start, Download, CreateZip, ZipWritten, CheckStaging, Purge,
        OpenStaging, StagingVanished, Purged, PurgedElsewhere, Fresh, Extract,
        OpenArchive, CreateFile, TornRead, Extracted, Publish, CheckDest,
        Beaten, CleanZip, Resolve, Chmod, Fault, Crash, fsVars
    <2> QED
      BY <2>1, <2>2, <2>3, <2>4
  <1> QED
    BY <1>1, CacheInvariant, PTL DEF Spec, InstallSettles

=============================================================================
