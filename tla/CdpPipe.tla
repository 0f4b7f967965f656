------------------------------ MODULE CdpPipe ------------------------------
(***************************************************************************)
(* PipeCdp (src/crates/amber-core/src/cdp.rs): the transport that sends    *)
(* CDP commands to Chromium over fd 3 and correlates the answers a reader  *)
(* thread takes from fd 4.  Callers share one transport; a call of send    *)
(* is split where another thread can act: the closed check, registration   *)
(* in `pending`, the writer lock, the write, the wait, the timeout.        *)
(* Chromium is modelled from how the transport uses it: it answers a       *)
(* command at most once, in any order or never, and may die at any time.   *)
(*                                                                         *)
(* A definition whose name starts with Bug is a seeded defect the model    *)
(* checker must detect; no specification uses it.                          *)
(***************************************************************************)
EXTENDS Integers, Sequences, FiniteSets

CONSTANTS
  Callers,      \* threads that share the transport
  MaxCalls,     \* bound on the sends of one caller
  PipeCap,      \* frames either pipe holds before its writer blocks
  MaxEvents,    \* bound on the events the browser emits
  ReadErrors,   \* whether a read of fd 4 may fail while the browser lives
  None

ASSUME CdpAssumption ==
  /\ MaxCalls \in Nat /\ PipeCap \in Nat \ {0} /\ MaxEvents \in Nat
  /\ ReadErrors \in BOOLEAN
  /\ None \notin Callers

VARIABLES
  pc,        \* where each caller is in send_to
  calls,     \* how many sends each caller has begun
  id,        \* the command id of each caller's latest send
  mailbox,   \* the one-shot channel of each caller's send: a message or None
  outcome,   \* what each caller's latest send returned
  nextId,    \* IdAllocator.next
  pending,   \* Shared.pending: which call awaits which id
  closed,    \* Shared.closed
  writer,    \* who holds the lock on the write end of fd 3
  cmdPipe,   \* commands written to fd 3 and not yet read by the browser
  respPipe,  \* frames the browser wrote to fd 4 and the reader has not read
  working,   \* commands the browser has read and not answered
  browser,   \* "up" or "dead"
  reader,    \* what the reader thread does
  inHand,    \* the answer it has matched and not yet sent, or None
  emitted,   \* how many events the browser has emitted
  events,    \* how many events wait in the event channel
  eventRx,   \* the event receiver: "here" until taken, "gone" once dropped
  owner      \* the transport itself: "open", "joining" in drop, "dropped"

callerVars  == <<pc, calls, id, mailbox, outcome>>
sharedVars  == <<nextId, pending, closed, writer>>
browserVars == <<cmdPipe, respPipe, working, browser, emitted>>
readerVars  == <<reader, inHand>>
eventVars   == <<events, eventRx>>
cdpVars == <<callerVars, sharedVars, browserVars, readerVars, eventVars, owner>>

Calls     == Callers \X (1..MaxCalls)
Current(c) == <<c, calls[c]>>
Answers   == [kind : {"result", "protocol"}, call : Calls]
Closed(k) == [kind |-> "closed", call |-> k]
Commands  == [id : Nat, call : Calls]
EventFrame == [kind |-> "event", id |-> 0, call |-> None]
NoiseFrame == [kind |-> "noise", id |-> 0, call |-> None]
Replies   == [kind : {"result", "protocol"}, id : Nat, call : Calls]
Frames    == Replies \cup {EventFrame, NoiseFrame}
Sent      == {"registered", "writing", "waiting", "expired"}
InSend    == Sent \cup {"checked"}

\* None is told from every message.
ASSUME NoMessageAssumption == \A k \in Calls : None # Closed(k) /\ None \notin Answers

\* The receiver of call k's channel lives until its send returns.
Listening(k) == calls[k[1]] = k[2] /\ pc[k[1]] \in InSend

Without(i) == {p \in pending : p.id # i}

\* IdAllocator::new: 0 is never a valid id.
FirstId == 1

Init ==
  /\ pc = [c \in Callers |-> "idle"]
  /\ calls = [c \in Callers |-> 0]
  /\ id = [c \in Callers |-> 0]
  /\ mailbox = [c \in Callers |-> None]
  /\ outcome = [c \in Callers |-> None]
  /\ nextId = FirstId
  /\ pending = {}
  /\ closed = FALSE
  /\ writer = None
  /\ cmdPipe = <<>> /\ respPipe = <<>> /\ working = {}
  /\ browser = "up" /\ emitted = 0
  /\ reader = "reading" /\ inHand = None
  /\ events = 0 /\ eventRx = "here"
  /\ owner = "open"

\* send_to returns `kind` to caller c; its channel is dropped.
Returns(c, kind) ==
  /\ outcome' = [outcome EXCEPT ![c] = [kind |-> kind, call |-> Current(c)]]
  /\ pc' = [pc EXCEPT ![c] = "idle"]
  /\ mailbox' = [mailbox EXCEPT ![c] = None]

-----------------------------------------------------------------------------
\* The caller's side: send_to.

BeginSend(c) ==
  /\ owner = "open"
  /\ pc[c] = "idle"
  /\ calls[c] < MaxCalls
  /\ calls' = [calls EXCEPT ![c] = @ + 1]
  /\ IF closed
     THEN /\ outcome' = [outcome EXCEPT ![c] = Closed(Current(c)')]
          /\ UNCHANGED pc
     ELSE /\ outcome' = [outcome EXCEPT ![c] = None]
          /\ pc' = [pc EXCEPT ![c] = "checked"]
  /\ UNCHANGED <<id, mailbox, sharedVars, browserVars, readerVars, eventVars, owner>>

BugRegister(c) ==   \* the id counter is read without being advanced
  /\ pc[c] = "checked"
  /\ id' = [id EXCEPT ![c] = nextId]
  /\ pending' = Without(nextId) \cup {[id |-> nextId, call |-> Current(c)]}
  /\ pc' = [pc EXCEPT ![c] = "registered"]
  /\ UNCHANGED <<calls, mailbox, outcome, nextId, closed, writer,
                 browserVars, readerVars, eventVars, owner>>

\* The id is known to nobody else until it is in `pending`, so allocating it
\* and inserting it are one step.
Register(c) ==
  /\ pc[c] = "checked"
  /\ id' = [id EXCEPT ![c] = nextId]
  /\ nextId' = nextId + 1
  /\ pending' = Without(nextId) \cup {[id |-> nextId, call |-> Current(c)]}
  /\ pc' = [pc EXCEPT ![c] = "registered"]
  /\ UNCHANGED <<calls, mailbox, outcome, closed, writer,
                 browserVars, readerVars, eventVars, owner>>

LockWriter(c) ==
  /\ pc[c] = "registered"
  /\ writer = None
  /\ writer' = c
  /\ pc' = [pc EXCEPT ![c] = "writing"]
  /\ UNCHANGED <<calls, id, mailbox, outcome, nextId, pending, closed,
                 browserVars, readerVars, eventVars, owner>>

\* write_frame blocks, holding the lock, while the pipe is full.
WriteOk(c) ==
  /\ pc[c] = "writing"
  /\ browser = "up"
  /\ Len(cmdPipe) < PipeCap
  /\ cmdPipe' = Append(cmdPipe, [id |-> id[c], call |-> Current(c)])
  /\ writer' = None
  /\ pc' = [pc EXCEPT ![c] = "waiting"]
  /\ UNCHANGED <<calls, id, mailbox, outcome, nextId, pending, closed,
                 respPipe, working, browser, emitted, readerVars, eventVars, owner>>

\* The browser's end of fd 3 is gone: the registration is taken back.
WriteErr(c) ==
  /\ pc[c] = "writing"
  /\ browser = "dead"
  /\ writer' = None
  /\ pending' = Without(id[c])
  /\ Returns(c, "io")
  /\ UNCHANGED <<calls, id, nextId, closed, browserVars, readerVars, eventVars, owner>>

Receive(c) ==
  /\ pc[c] = "waiting"
  /\ mailbox[c] # None
  /\ outcome' = [outcome EXCEPT ![c] = mailbox[c]]
  /\ pc' = [pc EXCEPT ![c] = "idle"]
  /\ mailbox' = [mailbox EXCEPT ![c] = None]
  /\ UNCHANGED <<calls, id, sharedVars, browserVars, readerVars, eventVars, owner>>

BugExpire(c) ==   \* the wait has no timeout of its own
  /\ pc[c] = "waiting"
  /\ mailbox[c] = None
  /\ reader = "done"
  /\ pc' = [pc EXCEPT ![c] = "expired"]
  /\ UNCHANGED <<calls, id, mailbox, outcome, sharedVars, browserVars,
                 readerVars, eventVars, owner>>

\* recv_timeout gives up.  The slot is reclaimed in a later step: an answer
\* that arrives in between goes into a channel nobody reads any more.
Expire(c) ==
  /\ pc[c] = "waiting"
  /\ mailbox[c] = None
  /\ pc' = [pc EXCEPT ![c] = "expired"]
  /\ UNCHANGED <<calls, id, mailbox, outcome, sharedVars, browserVars,
                 readerVars, eventVars, owner>>

BugReclaim(c) ==   \* the timed-out call stays registered
  /\ pc[c] = "expired"
  /\ Returns(c, "timeout")
  /\ UNCHANGED <<calls, id, sharedVars, browserVars, readerVars, eventVars, owner>>

Reclaim(c) ==
  /\ pc[c] = "expired"
  /\ pending' = Without(id[c])
  /\ Returns(c, "timeout")
  /\ UNCHANGED <<calls, id, nextId, closed, writer, browserVars,
                 readerVars, eventVars, owner>>

-----------------------------------------------------------------------------
\* Chromium.

BrowserReads ==
  /\ browser = "up"
  /\ cmdPipe # <<>>
  /\ working' = working \cup {Head(cmdPipe)}
  /\ cmdPipe' = Tail(cmdPipe)
  /\ UNCHANGED <<callerVars, sharedVars, respPipe, browser, emitted,
                 readerVars, eventVars, owner>>

BrowserAnswers ==
  /\ browser = "up"
  /\ Len(respPipe) < PipeCap
  /\ \E f \in working, kind \in {"result", "protocol"} :
       /\ working' = working \ {f}
       /\ respPipe' = Append(respPipe, [kind |-> kind, id |-> f.id, call |-> f.call])
  /\ UNCHANGED <<callerVars, sharedVars, cmdPipe, browser, emitted,
                 readerVars, eventVars, owner>>

\* An event, or a frame that is empty, malformed or neither kind of message.
BrowserEmits ==
  /\ browser = "up"
  /\ Len(respPipe) < PipeCap
  /\ emitted < MaxEvents
  /\ emitted' = emitted + 1
  /\ \E f \in {EventFrame, NoiseFrame} : respPipe' = Append(respPipe, f)
  /\ UNCHANGED <<callerVars, sharedVars, cmdPipe, working, browser,
                 readerVars, eventVars, owner>>

\* What the browser wrote to fd 4 can still be read; what it has not read
\* from fd 3 is lost, and writing there fails from now on.
BrowserDies ==
  /\ browser = "up"
  /\ browser' = "dead"
  /\ cmdPipe' = <<>>
  /\ working' = {}
  /\ UNCHANGED <<callerVars, sharedVars, respPipe, emitted, readerVars,
                 eventVars, owner>>

-----------------------------------------------------------------------------
\* The reader thread: reader_loop, dispatch_frame, mark_closed.

\* A response leaves `pending` under the lock and is sent after it; one that
\* nobody awaits is dropped.
ReadResponse ==
  /\ reader = "reading"
  /\ respPipe # <<>>
  /\ LET f == Head(respPipe) IN
       /\ f.kind \in {"result", "protocol"}
       /\ \/ \E p \in pending :
               /\ p.id = f.id
               /\ pending' = pending \ {p}
               /\ inHand' = [to |-> p.call, answer |-> [kind |-> f.kind, call |-> f.call]]
               /\ reader' = "delivering"
          \/ /\ \A p \in pending : p.id # f.id
             /\ UNCHANGED <<pending, readerVars>>
  /\ respPipe' = Tail(respPipe)
  /\ UNCHANGED <<callerVars, nextId, closed, writer, cmdPipe, working,
                 browser, emitted, eventVars, owner>>

Deliver ==
  /\ reader = "delivering"
  /\ mailbox' = IF Listening(inHand.to)
                THEN [mailbox EXCEPT ![inHand.to[1]] = inHand.answer]
                ELSE mailbox
  /\ reader' = "reading"
  /\ inHand' = None
  /\ UNCHANGED <<pc, calls, id, outcome, sharedVars, browserVars, eventVars, owner>>

BugReadOther ==   \* a rendezvous channel: the reader waits for a consumer
  /\ reader = "reading"
  /\ respPipe # <<>>
  /\ Head(respPipe).kind \in {"event", "noise"}
  /\ eventRx # "here"
  /\ events' = IF Head(respPipe).kind = "event" /\ eventRx # "gone"
               THEN events + 1 ELSE events
  /\ respPipe' = Tail(respPipe)
  /\ UNCHANGED <<callerVars, sharedVars, cmdPipe, working, browser, emitted,
                 readerVars, eventRx, owner>>

\* An event goes into the unbounded event channel unless its receiver is
\* gone; anything else that is not a response is ignored.
ReadOther ==
  /\ reader = "reading"
  /\ respPipe # <<>>
  /\ Head(respPipe).kind \in {"event", "noise"}
  /\ events' = IF Head(respPipe).kind = "event" /\ eventRx # "gone"
               THEN events + 1 ELSE events
  /\ respPipe' = Tail(respPipe)
  /\ UNCHANGED <<callerVars, sharedVars, cmdPipe, working, browser, emitted,
                 readerVars, eventRx, owner>>

\* EOF after the last frame of a dead browser, or a read error: the loop ends
\* and mark_closed sets the flag before it takes the lock on `pending`.
ReaderStops ==
  /\ reader = "reading"
  /\ ReadErrors \/ (browser = "dead" /\ respPipe = <<>>)
  /\ closed' = TRUE
  /\ reader' = "draining"
  /\ UNCHANGED <<callerVars, nextId, pending, writer, browserVars, inHand,
                 eventVars, owner>>

BugDrain ==   \* the pending calls are cleared without being told
  /\ reader = "draining"
  /\ pending' = {}
  /\ reader' = "done"
  /\ UNCHANGED <<callerVars, nextId, closed, writer, browserVars, inHand,
                 eventVars, owner>>

\* mark_closed fails every call registered by now.
Drain ==
  /\ reader = "draining"
  /\ mailbox' = [c \in Callers |->
       IF pc[c] \in InSend /\ \E p \in pending : p.call = Current(c)
       THEN Closed(Current(c)) ELSE mailbox[c]]
  /\ pending' = {}
  /\ reader' = "done"
  /\ UNCHANGED <<pc, calls, id, outcome, nextId, closed, writer, browserVars,
                 inHand, eventVars, owner>>

-----------------------------------------------------------------------------
\* The event stream and the end of the transport.

\* events() hands out the only receiver; later calls get None.
TakeEvents ==
  /\ owner = "open" /\ eventRx = "here"
  /\ eventRx' = "taken"
  /\ UNCHANGED <<callerVars, sharedVars, browserVars, readerVars, events, owner>>

ConsumeEvent ==
  /\ eventRx = "taken" /\ events > 0
  /\ events' = events - 1
  /\ UNCHANGED <<callerVars, sharedVars, browserVars, readerVars, eventRx, owner>>

DropReceiver ==
  /\ eventRx = "taken"
  /\ eventRx' = "gone" /\ events' = 0
  /\ UNCHANGED <<callerVars, sharedVars, browserVars, readerVars, owner>>

\* drop has the transport to itself: no send is in progress.  The child is
\* killed, then the reader is joined.
DropBegins ==
  /\ owner = "open"
  /\ \A c \in Callers : pc[c] = "idle"
  /\ owner' = "joining"
  /\ browser' = "dead" /\ cmdPipe' = <<>> /\ working' = {}
  /\ UNCHANGED <<callerVars, sharedVars, respPipe, emitted, readerVars, eventVars>>

\* The reader has returned: its profile directory is removed.
DropEnds ==
  /\ owner = "joining"
  /\ reader = "done"
  /\ owner' = "dropped"
  /\ UNCHANGED <<callerVars, sharedVars, browserVars, readerVars, eventVars>>

-----------------------------------------------------------------------------

SendStep(c) ==
  \/ Register(c) \/ LockWriter(c) \/ WriteOk(c) \/ WriteErr(c)
  \/ Receive(c) \/ Expire(c) \/ Reclaim(c)

ReaderStep == ReadResponse \/ Deliver \/ ReadOther \/ ReaderStops \/ Drain

BrowserStep == BrowserReads \/ BrowserAnswers \/ BrowserEmits \/ BrowserDies

OwnerStep == TakeEvents \/ ConsumeEvent \/ DropReceiver \/ DropBegins \/ DropEnds

Next ==
  \/ \E c \in Callers : BeginSend(c) \/ SendStep(c)
  \/ ReaderStep
  \/ BrowserStep
  \/ OwnerStep

Spec == Init /\ [][Next]_cdpVars

\* Threads that have begun something are scheduled.  Nothing is assumed of
\* the browser, nor that anybody calls send, events or drop.
Fairness ==
  /\ \A c \in Callers : WF_cdpVars(SendStep(c))
  /\ WF_cdpVars(ReaderStep)
  /\ WF_cdpVars(DropEnds)

FairSpec == Spec /\ Fairness

-----------------------------------------------------------------------------

TypeOK ==
  /\ pc \in [Callers -> InSend \cup {"idle"}]
  /\ calls \in [Callers -> 0..MaxCalls]
  /\ id \in [Callers -> Nat]
  /\ mailbox \in [Callers -> Answers \cup {Closed(k) : k \in Calls} \cup {None}]
  /\ outcome \in [Callers ->
       [kind : {"result", "protocol", "closed", "io", "timeout"}, call : Calls] \cup {None}]
  /\ nextId \in Nat \ {0}
  /\ pending \in SUBSET Commands
  /\ closed \in BOOLEAN
  /\ writer \in Callers \cup {None}
  /\ cmdPipe \in Seq(Commands)
  /\ respPipe \in Seq(Frames)
  /\ working \in SUBSET Commands
  /\ browser \in {"up", "dead"}
  /\ reader \in {"reading", "delivering", "draining", "done"}
  /\ inHand \in [to : Calls, answer : Answers] \cup {None}
  /\ emitted \in Nat /\ events \in Nat
  /\ eventRx \in {"here", "taken", "gone"}
  /\ owner \in {"open", "joining", "dropped"}

\* A send that returns gets the answer to its own command, whatever order
\* the browser answers in and however many earlier calls of the same caller
\* timed out and were answered late.
OwnAnswer == \A c \in Callers :
  pc[c] = "idle" /\ outcome[c] # None => outcome[c].call = Current(c)

\* Every registration belongs to a send in progress: no way out of send_to
\* (answer, error, timeout, close) leaves its id behind in `pending`.
NoLeakedSlot == \A p \in pending :
  Listening(p.call) /\ pc[p.call[1]] # "checked" /\ id[p.call[1]] = p.id

\* A caller that waits can be woken by something other than its timeout: its
\* message is there or on its way, or it is registered with a reader that
\* still runs.  The check of `closed` before registering does not ensure
\* this; the failing write to a dead browser does.
WaiterReachable == \A c \in Callers : pc[c] = "waiting" =>
  \/ mailbox[c] # None
  \/ reader = "delivering" /\ inHand.to = Current(c)
  \/ reader # "done" /\ \E p \in pending : p.call = Current(c)

\* Every send returns, unless the browser stops reading fd 3 for good: the
\* wait for the answer has a timeout, the write of the command has none.
Writable == browser = "dead" \/ Len(cmdPipe) < PipeCap
SendReturns ==
  []<>Writable => \A c \in Callers : pc[c] # "idle" ~> pc[c] = "idle"

\* The reader empties fd 4 even if nobody ever takes or reads the events, so
\* unread events never stop the answers behind them.
ReaderDrains == respPipe # <<>> ~> respPipe = <<>> \/ reader = "done"

\* Dropping the transport ends: killing the child ends the reader thread
\* that drop joins.
DropCompletes == owner = "joining" ~> owner = "dropped"

\* The reader thread serves while there is something to read, and ends so that
\* drop can join it.
ReaderServes == ReaderDrains /\ DropCompletes

\* What the comment on mark_closed says: once the connection is closed every
\* waiting caller has been failed.
ClosedReachesEveryCaller ==
  reader = "done" => \A c \in Callers : pc[c] = "waiting" => mailbox[c] # None

=============================================================================
