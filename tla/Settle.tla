------------------------------- MODULE Settle -------------------------------
(***************************************************************************)
(* The settle engine (src/crates/amber-core/src/render.rs): after          *)
(* Page.navigate, settle reads the page's lifecycle and network events     *)
(* until SettleTracker says that the page is loaded and quiet, or until an *)
(* overall timeout.  The page goes on changing while its events are on     *)
(* their way, through the pipe and the reader thread to the channel settle *)
(* reads, so the tracker always judges an earlier page.                    *)
(*                                                                         *)
(* Chromium's side is external: it is what the Page and Network domains    *)
(* report of a page that loads, of its frames and of its requests.         *)
(*                                                                         *)
(* A definition whose name starts with Bug is a seeded defect the model    *)
(* checker must detect; no specification uses it.                          *)
(***************************************************************************)
EXTENDS Integers, Sequences, FiniteSets

CONSTANTS
  PageRequests,   \* requests the page can make
  MaxFrames,      \* bound on the child frames that load
  MaxUnread       \* bound on the events that settle has not read

ASSUME SettleAssumption == IsFiniteSet(PageRequests) /\ MaxFrames \in Nat /\ MaxUnread \in Nat

VARIABLES
  policy,       \* SettlePolicy: wait_load and network_idle
  events,       \* events sent by Chromium and not yet read by settle
  arrived,      \* how many of them are in the channel: the others are in
                \* Chromium, in the pipe or with the reader thread
  loaded,       \* SettleTracker.loaded
  inflight,     \* SettleTracker.inflight
  verdict,      \* how settle ended: "none" while it has not
  page,         \* the document navigated to: "loading" or "loaded"
  frames,       \* child frames loaded so far
  outstanding,  \* requests sent and neither finished nor failed
  started,      \* requests ever sent
  redirected,   \* requests that were redirected
  quietSent     \* whether the page's network-idle event was sent

trackerVars == <<loaded, inflight, verdict>>
pageVars == <<page, frames, outstanding, started, redirected, quietSent>>
settleVars == <<policy, events, arrived, trackerVars, pageVars>>

\* Enabling lifecycle events replays those of the target's first document,
\* about:blank, into the channel that events() hands out later.  They come
\* before the answer to that command, so they have arrived.
BlankReplays == {<<>>, <<"load">>, <<"load", "networkIdle">>}

SettleInit ==
  /\ policy \in [wait_load : BOOLEAN, network_idle : BOOLEAN]
  /\ events \in BlankReplays /\ arrived = Len(events)
  /\ loaded = ~policy.wait_load
  /\ inflight = 0
  /\ verdict = "none"
  /\ page = "loading" /\ frames = 0
  /\ outstanding = {} /\ started = {} /\ redirected = {}
  /\ quietSent = FALSE

-----------------------------------------------------------------------------
\* Chromium.

Emits(ev) ==
  /\ Len(events) < MaxUnread
  /\ events' = Append(events, ev)
  /\ UNCHANGED <<policy, arrived, trackerVars>>

RequestStarts(r) ==
  /\ r \notin started
  /\ started' = started \cup {r} /\ outstanding' = outstanding \cup {r}
  /\ Emits("requestWillBeSent")
  /\ UNCHANGED <<page, frames, redirected, quietSent>>

\* A redirect is reported as requestWillBeSent again, with the same id; only
\* the last hop finishes.
RequestRedirects(r) ==
  /\ r \in outstanding \ redirected
  /\ redirected' = redirected \cup {r}
  /\ Emits("requestWillBeSent")
  /\ UNCHANGED <<page, frames, outstanding, started, quietSent>>

RequestEnds(r) ==
  /\ r \in outstanding
  /\ outstanding' = outstanding \ {r}
  /\ \E ev \in {"loadingFinished", "loadingFailed"} : Emits(ev)
  /\ UNCHANGED <<page, frames, started, redirected, quietSent>>

FrameLoads ==
  /\ frames < MaxFrames
  /\ frames' = frames + 1
  /\ Emits("load")
  /\ UNCHANGED <<page, outstanding, started, redirected, quietSent>>

PageLoads ==
  /\ page = "loading"
  /\ page' = "loaded"
  /\ Emits("load")
  /\ UNCHANGED <<frames, outstanding, started, redirected, quietSent>>

\* networkAlmostIdle allows two requests to be outstanding.
GoesIdle ==
  /\ ~quietSent
  /\ \/ outstanding = {} /\ Emits("networkIdle")
     \/ Cardinality(outstanding) <= 2 /\ Emits("networkAlmostIdle")
  /\ quietSent' = TRUE
  /\ UNCHANGED <<page, frames, outstanding, started, redirected>>

\* What the page does after settle has ended is not looked at.
Chromium ==
  /\ verdict = "none"
  /\ \/ \E r \in PageRequests : RequestStarts(r) \/ RequestRedirects(r) \/ RequestEnds(r)
     \/ FrameLoads \/ PageLoads \/ GoesIdle

-----------------------------------------------------------------------------
\* settle's loop.

\* The reader thread puts the next event into the channel.
Deliver ==
  /\ verdict = "none" /\ arrived < Len(events)
  /\ arrived' = arrived + 1
  /\ UNCHANGED <<policy, events, trackerVars, pageVars>>

\* What an event does to the count of requests in flight.
Delta(ev) ==
  CASE ev = "requestWillBeSent" -> 1
    [] ev \in {"loadingFinished", "loadingFailed"} -> -1
    [] OTHER -> 0

\* SettleTracker::observe.  It looks at the name of a lifecycle event, not at
\* the frame or the document it is about.
Observe ==
  /\ verdict = "none" /\ arrived > 0
  /\ LET ev == Head(events) IN
       /\ events' = Tail(events) /\ arrived' = arrived - 1
       /\ loaded' = (loaded \/ ev = "load")
       /\ inflight' = inflight + Delta(ev)
       /\ verdict' = IF /\ loaded' /\ policy.network_idle
                        /\ ev \in {"networkIdle", "networkAlmostIdle"}
                     THEN "idle" ELSE "none"
  /\ UNCHANGED <<policy, pageVars>>

BugGoesQuiet ==   \* the requests in flight are not asked about
  /\ verdict = "none" /\ arrived = 0
  /\ verdict' = IF loaded THEN "quiet" ELSE "none"
  /\ UNCHANGED <<policy, events, arrived, loaded, inflight, pageVars>>

SettledOnQuiet == loaded /\ inflight <= 0

\* No event in the channel for a poll interval, whatever is on its way.
GoesQuiet ==
  /\ verdict = "none" /\ arrived = 0
  /\ verdict' = IF SettledOnQuiet THEN "quiet" ELSE "none"
  /\ UNCHANGED <<policy, events, arrived, loaded, inflight, pageVars>>

\* The overall timeout, looked at between two reads.
GivesUp ==
  /\ verdict = "none"
  /\ verdict' = "timeout"
  /\ UNCHANGED <<policy, events, arrived, loaded, inflight, pageVars>>

SettleNext == Chromium \/ Deliver \/ Observe \/ GoesQuiet \/ GivesUp

SettleSpec == SettleInit /\ [][SettleNext]_settleVars

-----------------------------------------------------------------------------

EventNames == {"load", "networkIdle", "networkAlmostIdle", "requestWillBeSent",
               "loadingFinished", "loadingFailed"}

SettleTypeOK ==
  /\ policy \in [wait_load : BOOLEAN, network_idle : BOOLEAN]
  /\ events \in Seq(EventNames) /\ arrived \in 0..Len(events)
  /\ loaded \in BOOLEAN /\ inflight \in Nat
  /\ verdict \in {"none", "idle", "quiet", "timeout"}
  /\ page \in {"loading", "loaded"} /\ frames \in 0..MaxFrames
  /\ outstanding \subseteq started /\ redirected \subseteq started
  /\ started \subseteq PageRequests
  /\ quietSent \in BOOLEAN

Unread(names) == Cardinality({k \in 1..Len(events) : events[k] \in names})

\* The counter and the events still to be read make up the requests that are
\* outstanding, and one more for every redirect: it never drifts below, so a
\* request cannot hide behind the end of another.
InflightTracks ==
  inflight + Unread({"requestWillBeSent"}) - Unread({"loadingFinished", "loadingFailed"})
    = Cardinality(outstanding) + Cardinality(redirected)

\* settle ends on a quiet interval only if the starts that are still on their
\* way, less the ends that are, make up for all requests outstanding (and for
\* the redirects): it misses no more than it has not been told of, and with
\* nothing on its way no request is outstanding.
QuietMeansIdle ==
  [][verdict = "none" /\ verdict' = "quiet" =>
       Cardinality(outstanding) + Cardinality(redirected)
         <= Unread({"requestWillBeSent"}) - Unread({"loadingFinished", "loadingFailed"})]_settleVars

\* The count settle goes by is the page's, and is right when it matters.
SettleCounts == [](SettleTypeOK /\ InflightTracks) /\ QuietMeansIdle

-----------------------------------------------------------------------------
\* What the comments in the source say, and the code does not ensure.

\* "Wait for the `load` lifecycle event": unless it timed out, settle ends
\* on a page that has loaded.
SettledMeansLoaded ==
  policy.wait_load /\ verdict \in {"idle", "quiet"} => page = "loaded"

=============================================================================
