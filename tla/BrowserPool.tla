---------------------------- MODULE BrowserPool ----------------------------
(***************************************************************************)
(* BrowserPool (src/crates/amber-core/src/render.rs): captures lease live  *)
(* Chromium processes from a Pool, render on a fresh page target and give  *)
(* the browser back, or discard it when the capture failed.  A step of     *)
(* this module is a step of Pool together with what it does to browsers,   *)
(* or a step of the browsers alone.                                        *)
(*                                                                         *)
(* A browser that is discarded is still running: the lease is given up     *)
(* first and the process is killed when the caller drops it afterwards.    *)
(*                                                                         *)
(* A definition whose name starts with Bug is a seeded defect the model    *)
(* checker must detect; no specification uses it.                          *)
(***************************************************************************)
EXTENDS Pool

CONSTANTS
  Proxies,   \* what a capture may ask for in opts.proxy
  MaxLeft    \* bound on launches that fail with Chromium already running

ASSUME BrowserAssumption == MaxLeft \in Nat

\* The pool's callers are the threads that capture, its resources the
\* identities of spawned browsers.
Browsers == Items
None == NoItem

VARIABLES
  proc,         \* each browser's process: "none", "up", or "dead" (crashed)
  spawnedWith,  \* the proxy each browser was spawned with
  eventsTaken,  \* browsers whose only event receiver has been taken
  stray,        \* browsers with a page left open by an earlier capture
  left,         \* browsers whose launch failed once they ran: nobody has a handle
  want,         \* the proxy each caller's capture asks for
  stage,        \* how far each caller's capture has got
  doomed,       \* the browser each caller has yet to drop
  captured      \* what each caller's latest capture produced, or None

browserVars == <<proc, spawnedWith, eventsTaken, stray, left>>
captureVars == <<want, stage, doomed, captured>>
vars == <<poolVars, browserVars, captureVars>>

Init ==
  /\ PoolInit
  /\ proc = [b \in Browsers |-> "none"]
  /\ spawnedWith = [b \in Browsers |-> None]
  /\ eventsTaken = {} /\ stray = {} /\ left = {}
  /\ want = [c \in Callers |-> None]
  /\ stage = [c \in Callers |-> "none"]
  /\ doomed = [c \in Callers |-> None]
  /\ captured = [c \in Callers |-> None]

-----------------------------------------------------------------------------
\* BrowserPool::capture, up to the lease.

Asks(c) ==
  /\ doomed[c] = None
  /\ \E o \in Proxies : want' = [want EXCEPT ![c] = o]
  /\ captured' = [captured EXCEPT ![c] = None]
  /\ UNCHANGED <<doomed, browserVars>>

\* An idle browser is reused as it is, whatever the capture asks for.
StartReusing(c) ==
  /\ Reuse(c)
  /\ Asks(c)
  /\ stage' = [stage EXCEPT ![c] = "leased"]

StartSpawning(c) ==
  /\ Reserve(c)
  /\ Asks(c)
  /\ UNCHANGED stage

StartRefused(c) ==
  /\ Exhausted(c)
  /\ Asks(c)
  /\ UNCHANGED stage

\* spawn_browser: proxy, display and limits are fixed here for good.
SpawnOk(c) ==
  /\ MakeOk(c)
  /\ LET b == held'[c] IN
       /\ proc[b] = "none"
       /\ proc' = [proc EXCEPT ![b] = "up"]
       /\ spawnedWith' = [spawnedWith EXCEPT ![b] = want[c]]
  /\ stage' = [stage EXCEPT ![c] = "leased"]
  /\ UNCHANGED <<eventsTaken, stray, left, want, doomed, captured>>

\* PipeCdp::spawn returns an error, and acquire_with frees the slot.  Failing
\* before the child is spawned leaves nothing behind; failing to start the
\* reader thread leaves a Chromium that nobody can kill or reap any more.
SpawnErr(c) ==
  /\ MakeErr(c)
  /\ \/ UNCHANGED <<proc, spawnedWith, left>>
     \/ /\ Cardinality(left) < MaxLeft
        /\ \E b \in Browsers :
             /\ proc[b] = "none"
             /\ proc' = [proc EXCEPT ![b] = "up"]
             /\ spawnedWith' = [spawnedWith EXCEPT ![b] = want[c]]
             /\ left' = left \cup {b}
  /\ UNCHANGED <<eventsTaken, stray, captureVars>>

-----------------------------------------------------------------------------
\* render_on_target and render_session.

\* createTarget and attachToTarget.
Attach(c) ==
  /\ stage[c] = "leased"
  /\ proc[held[c]] = "up"
  /\ stage' = [stage EXCEPT ![c] = "attached"]
  /\ UNCHANGED <<poolVars, browserVars, want, doomed, captured>>

\* cdp.events(), then Page.navigate.  Only the first capture of a browser
\* gets the receiver; without it settle does not wait for the page.
Navigate(c) ==
  /\ stage[c] = "attached"
  /\ proc[held[c]] = "up"
  /\ stage' = [stage EXCEPT ![c] =
                 IF held[c] \in eventsTaken THEN "blind" ELSE "settling"]
  /\ eventsTaken' = eventsTaken \cup {held[c]}
  /\ UNCHANGED <<poolVars, proc, spawnedWith, stray, left, want, doomed, captured>>

\* settle and the reads of the page succeed.
Rendered(c) ==
  /\ stage[c] \in {"settling", "blind"}
  /\ proc[held[c]] = "up"
  /\ captured' = [captured EXCEPT ![c] =
       [settled |-> stage[c] = "settling", via |-> spawnedWith[held[c]]]]
  /\ stage' = [stage EXCEPT ![c] = "rendered"]
  /\ UNCHANGED <<poolVars, browserVars, want, doomed>>

\* closeTarget is best effort: its failure is ignored and the browser counts
\* as healthy.  A browser that did not close the page keeps it.
CloseAndRelease(c) ==
  /\ stage[c] = "rendered"
  /\ Release(c)
  /\ stray' \in IF proc[held[c]] = "up" THEN {stray, stray \cup {held[c]}} ELSE {stray}
  /\ stage' = [stage EXCEPT ![c] = "none"]
  /\ UNCHANGED <<proc, spawnedWith, eventsTaken, left, want, doomed, captured>>

BugFailAndDiscard(c) ==   \* the failed browser goes back to the pool
  /\ stage[c] \in {"leased", "attached", "settling", "blind"}
  /\ Release(c)
  /\ doomed' = [doomed EXCEPT ![c] = held[c]]
  /\ stage' = [stage EXCEPT ![c] = "none"]
  /\ UNCHANGED <<browserVars, want, captured>>

BugForgetAndDiscard(c) ==   \* the handle is leaked, so drop never runs
  /\ stage[c] \in {"leased", "attached", "settling", "blind"}
  /\ Discard(c)
  /\ stage' = [stage EXCEPT ![c] = "none"]
  /\ UNCHANGED <<browserVars, want, doomed, captured>>

\* Some command fails: the browser is dead, or it timed out or refused while
\* alive.  closeTarget is tried if a page was attached, the slot is freed, and
\* the browser waits to be dropped at the end of the function.
FailAndDiscard(c) ==
  /\ stage[c] \in {"leased", "attached", "settling", "blind"}
  /\ Discard(c)
  /\ doomed' = [doomed EXCEPT ![c] = held[c]]
  /\ stage' = [stage EXCEPT ![c] = "none"]
  /\ UNCHANGED <<browserVars, want, captured>>

\* A panic: the slot is lost, the browser (if any) dropped while unwinding.
UnwindCapture(c) ==
  /\ Unwind(c)
  /\ doomed' = [doomed EXCEPT ![c] = held[c]]
  /\ stage' = [stage EXCEPT ![c] = "none"]
  /\ captured' = [captured EXCEPT ![c] = None]
  /\ UNCHANGED <<browserVars, want>>

\* PipeCdp's drop: the child is killed and reaped, and its pages and its
\* connection go with it.
Drop(c) ==
  /\ doomed[c] # None
  /\ proc' = [proc EXCEPT ![doomed[c]] = "none"]
  /\ spawnedWith' = [spawnedWith EXCEPT ![doomed[c]] = None]
  /\ eventsTaken' = eventsTaken \ {doomed[c]}
  /\ stray' = stray \ {doomed[c]}
  /\ doomed' = [doomed EXCEPT ![c] = None]
  /\ UNCHANGED <<poolVars, left, want, stage, captured>>

\* A browser ends by itself: it crashes, or it was left by a failed launch
\* and its command pipe has come to its end.  Its process is still there
\* until somebody reaps it.
Crash(b) ==
  /\ proc[b] = "up"
  /\ proc' = [proc EXCEPT ![b] = "dead"]
  /\ UNCHANGED <<poolVars, captureVars, spawnedWith, eventsTaken, stray, left>>

-----------------------------------------------------------------------------

Start(c) == StartReusing(c) \/ StartSpawning(c) \/ StartRefused(c)

Continue(c) ==
  \/ SpawnOk(c) \/ SpawnErr(c)
  \/ Attach(c) \/ Navigate(c) \/ Rendered(c)
  \/ CloseAndRelease(c) \/ FailAndDiscard(c)
  \/ Drop(c)

Next ==
  \/ \E c \in Callers : Start(c) \/ Continue(c) \/ UnwindCapture(c)
  \/ \E b \in Browsers : Crash(b)

Spec == Init /\ [][Next]_vars

\* A capture that has begun goes on: every command it sends returns, for the
\* wait of send_to has a timeout (SendReturns in CdpPipe).
FairSpec == Spec /\ \A c \in Callers : WF_vars(Continue(c))

-----------------------------------------------------------------------------

InIdle(b) == \E k \in 1..Len(idle) : idle[k] = b

Owned(b) ==
  \/ InIdle(b)
  \/ \E c \in Callers : held[c] = b
  \/ \E c \in Callers : doomed[c] = b

Running == {b \in Browsers : proc[b] # "none"}
Dooming == {c \in Callers : doomed[c] # None}

TypeOK ==
  /\ PoolTypeOK
  /\ proc \in [Browsers -> {"none", "up", "dead"}]
  /\ spawnedWith \in [Browsers -> Proxies \cup {None}]
  /\ eventsTaken \in SUBSET Browsers /\ stray \in SUBSET Browsers
  /\ left \in SUBSET Browsers /\ IsFiniteSet(left) /\ Cardinality(left) <= MaxLeft
  /\ want \in [Callers -> Proxies \cup {None}]
  /\ stage \in [Callers ->
       {"none", "leased", "attached", "settling", "blind", "rendered"}]
  /\ doomed \in [Callers -> Browsers \cup {None}]
  /\ captured \in [Callers ->
       [settled : BOOLEAN, via : Proxies \cup {None}] \cup {None}]

\* There is a Chromium process exactly for each browser that somebody will
\* reuse or kill, and for those of a launch that failed after the spawn, which
\* nobody will: neither a failing capture nor a panic leaks one, no browser
\* left by a launch comes into anybody's hands, and nobody holds a handle to
\* a process already reaped.
NoOrphan == \A b \in Browsers :
  /\ proc[b] # "none" <=> Owned(b) \/ b \in left
  /\ ~(Owned(b) /\ b \in left)

\* A browser whose capture failed is out of circulation from that moment:
\* until it is killed it is neither idle nor leased to anyone.
FailedNotReused == \A c \in Callers : doomed[c] # None =>
  /\ ~InIdle(doomed[c])
  /\ \A d \in Callers : held[d] # doomed[c]
  /\ \A d \in Callers : d # c => doomed[d] # doomed[c]

\* The number of Chromium processes the code does guarantee: the capacity,
\* one more for each capture that has discarded its browser and not dropped it
\* yet, and one more for each launch that failed with Chromium running.
ProcessBound ==
  Cardinality(Running) <= Limit + Cardinality(Dooming) + Cardinality(left)

\* The browsers are leased as Pool leases its resources.
UsesPool == PoolSpec

\* Unless every slot was lost to a panic, the pool does not refuse captures
\* for ever: whatever fails, a slot or an idle browser comes back.
KeepsServing == []<>(lost >= Limit \/ idle # <<>> \/ leased < Limit)

-----------------------------------------------------------------------------
\* What the comments in the source say, and the code does not ensure.

\* "A pool spawning at most `capacity` concurrent browsers."
AtMostCapacityBrowsers == Cardinality(Running) <= Limit

\* "Wait until the page is settled before capture."
SettledBeforeCapture ==
  \A c \in Callers : captured[c] # None => captured[c].settled

=============================================================================
