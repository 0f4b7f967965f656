---------------------------- MODULE ServiceProofs ----------------------------
(***************************************************************************)
(* Theorems about the components that stand alone: the HTTP daemon, the    *)
(* settle engine, the crawl store, the C ABI, the launches of Chromium,    *)
(* the walk along next links, the recurring captures and the MCP server.   *)
(* Each has an inductive invariant of its own.                             *)
(***************************************************************************)
EXTENDS Daemon, PoolProofs, Settle, Store, Handles, Launch, Pagination, Recurring, Mcp, Induction

-----------------------------------------------------------------------------
\* The HTTP daemon.  What a connection does to the permits is a step of Pool, so
\* PoolInv holds; the types tie a running capture to a permit, and the pool
\* counts those.

DaemonInv == TypeOK /\ PoolInv

LEMMA PermitStep ==
  ASSUME [Next]_vars
  PROVE  [PoolNext]_poolVars
  BY DEF Next, Routes, vars, Accept, Dropped, Parse, Malformed, TakePermit, NewPermit, Busy,
         Captured, Panics, Handled, Written, PoolNext

\* A connection that only changes what it is doing itself keeps the types.
LEMMA OwnStep ==
  ASSUME TypeOK, [Next]_vars, NEW c \in Callers,
         Accept(c) \/ Dropped(c) \/ Parse(c) \/ Malformed(c) \/ Handled(c) \/ Written(c)
  PROVE  TypeOK'
  <1>1. PoolTypeOK'
    BY PermitStep, TypeStep DEF TypeOK
  <1> USE DEF TypeOK, Moves, Responds, poolVars
  <1>2. NoRequest \in HttpRequests \cup {NoRequest}
    OBVIOUS
  <1>3. CASE Accept(c)
    BY <1>1, <1>2, <1>3 DEF Accept
  <1>4. CASE Dropped(c) \/ Written(c)
    BY <1>1, <1>4 DEF Dropped, Written
  <1>5. CASE Parse(c)
    BY <1>1, <1>5 DEF Parse
  <1>6. CASE Malformed(c)
    BY <1>1, <1>6 DEF Malformed
  <1>7. CASE Handled(c)
    <2>1. \E s \in {200, 404, 405} : status' = [status EXCEPT ![c] = s]
      BY <1>7 DEF Handled
    <2>2. /\ at[c] = "routing" /\ at' = [at EXCEPT ![c] = "writing"]
          /\ pc' = pc /\ req' = req /\ pc[c] \notin {"making", "using"}
      BY <1>7 DEF Handled
    <2> QED
      BY <1>1, <2>1, <2>2
  <1> QED
    BY <1>3, <1>4, <1>5, <1>6, <1>7

\* So does one that takes a permit, gives it back or loses it.
LEMMA LeaseKeepsTypes ==
  ASSUME TypeOK, [Next]_vars, NEW c \in Callers,
         TakePermit(c) \/ NewPermit(c) \/ Busy(c) \/ Captured(c) \/ Panics(c)
  PROVE  TypeOK'
  <1>1. PoolTypeOK'
    BY PermitStep, TypeStep DEF TypeOK
  <1> USE DEF TypeOK, PoolTypeOK, Moves, Responds
  <1>2. CASE TakePermit(c)
    <2>1. /\ req[c].path = "/capture" /\ req' = req /\ status' = status
          /\ at[c] = "routing" /\ pc[c] = "out"
      BY <1>2 DEF TakePermit, Reuse, Reserve
    <2>2. CASE at' = [at EXCEPT ![c] = "capturing"] /\ pc' = [pc EXCEPT ![c] = "using"]
      BY <1>1, <2>1, <2>2
    <2>3. CASE at' = [at EXCEPT ![c] = "routing"] /\ pc' = [pc EXCEPT ![c] = "making"]
      BY <1>1, <2>1, <2>3
    <2> QED
      BY <1>2, <2>2, <2>3 DEF TakePermit, Reuse, Reserve
  <1>3. CASE NewPermit(c)
    BY <1>1, <1>3 DEF NewPermit, MakeOk
  <1>4. CASE Busy(c)
    BY <1>1, <1>4 DEF Busy, Exhausted
  <1>5. CASE Captured(c)
    <2>1. \E s \in {200, 400, 405, 502} : status' = [status EXCEPT ![c] = s]
      BY <1>5 DEF Captured
    <2>2. /\ at' = [at EXCEPT ![c] = "writing"] /\ pc' = [pc EXCEPT ![c] = "out"]
          /\ req' = req
      BY <1>5 DEF Captured, Release
    <2> QED
      BY <1>1, <2>1, <2>2
  <1>6. CASE Panics(c)
    BY <1>1, <1>6 DEF Panics, Unwind
  <1> QED
    BY <1>2, <1>3, <1>4, <1>5, <1>6

\* Types, and what Pool guarantees of the permits.
THEOREM DaemonInvariant == Spec => []DaemonInv
  <1>1. Init => DaemonInv
    <2> SUFFICES ASSUME Init PROVE DaemonInv
      OBVIOUS
    <2>1. PoolInv
      BY PoolInitInv DEF Init
    <2> QED
      BY <2>1 DEF Init, PoolInit, DaemonInv, TypeOK, PoolInv
  <1>2. DaemonInv /\ [Next]_vars => DaemonInv'
    <2> SUFFICES ASSUME DaemonInv, [Next]_vars PROVE DaemonInv'
      OBVIOUS
    <2>1. PoolInv'
      BY PermitStep, TypeStep, CountStep, ExclusiveStep DEF PoolInv, DaemonInv
    <2>2. TypeOK'
      <3>1. CASE UNCHANGED vars
        BY <3>1 DEF vars, connVars, poolVars, DaemonInv, TypeOK, PoolTypeOK
      <3>2. CASE Next
        BY <3>2, OwnStep, LeaseKeepsTypes DEF Next, Routes, DaemonInv
      <3> QED
        BY <3>1, <3>2
    <2> QED
      BY <2>1, <2>2 DEF DaemonInv
  <1> QED
    BY <1>1, <1>2, PTL DEF Spec

\* The permits keep the promise of BoundedLease: granted below the bound, refused
\* only when all are out, forfeited by a panic.
THEOREM PermitsImplementLease == Spec => ImplementsLease
  <1>1. Init => PoolInit
    BY DEF Init
  <1>2. [Next]_vars => [PoolNext]_poolVars
    BY PermitStep
  <1>3. Spec => PoolSpec
    BY <1>1, <1>2, PTL DEF Spec, PoolSpec
  <1> QED
    BY <1>3, PoolImplementsLease, PTL

-----------------------------------------------------------------------------

\* serve's `capacity` bounds the captures that run, and every permit lost to a
\* capture that panicked is one capture less.
THEOREM CapturesBoundedHolds == Spec => []CapturesBounded
  <1>1. DaemonInv => CapturesBounded
    <2> SUFFICES ASSUME DaemonInv PROVE CapturesBounded
      OBVIOUS
    <2>1. Capturing \in SUBSET Holders
      BY DEF DaemonInv, TypeOK, Capturing, Holders
    <2>2. /\ Cardinality(Capturing) \in Nat
          /\ Cardinality(Capturing) <= Cardinality(Holders)
      BY <2>1, HoldersFinite, FS_Subset, FS_CardinalityType
    <2>3. leased + Len(idle) <= Limit /\ leased = Cardinality(Holders) + lost
      BY DEF DaemonInv, PoolInv, Bounded, LeaseAccounting
    <2>4. leased \in Nat /\ lost \in Nat /\ Len(idle) \in Nat
      BY DEF DaemonInv, PoolInv, PoolTypeOK
    <2> QED
      BY <2>2, <2>3, <2>4, HoldersFinite, LimitPositive DEF CapturesBounded
  <1> QED
    BY <1>1, DaemonInvariant, PTL

\* A 503 is answered only when every permit is with a connection or lost: no
\* request is turned away by a counter that has drifted.
THEOREM BusyMeansFullHolds == Spec => BusyMeansFull
  <1>1. DaemonInv /\ [Next]_vars =>
          [\A c \in Callers : status[c] # 503 /\ status'[c] = 503 =>
             Cardinality(Holders) + lost >= Limit]_vars
    <2> SUFFICES ASSUME DaemonInv, Next, NEW c \in Callers,
                        status[c] # 503, status'[c] = 503
                 PROVE  Cardinality(Holders) + lost >= Limit
      OBVIOUS
    <2>1. ASSUME NEW d \in Callers,
                 Accept(d) \/ Dropped(d) \/ Parse(d) \/ Malformed(d) \/ Handled(d) \/ Written(d)
                 \/ TakePermit(d) \/ NewPermit(d) \/ Captured(d) \/ Panics(d)
          PROVE  FALSE
      BY <2>1 DEF Accept, Dropped, Parse, Malformed, Handled, Written, TakePermit, NewPermit,
                  Captured, Panics, Moves, Responds, DaemonInv, TypeOK
    <2>2. PICK d \in Callers : Busy(d)
      BY <2>1 DEF Next, Routes
    <2> QED
      BY <2>2 DEF Busy, Exhausted, DaemonInv, PoolInv, LeaseAccounting
  <1> QED
    BY <1>1, DaemonInvariant, PTL DEF Spec, BusyMeansFull

\* serve's permits are exactly what is out: captures stay within `capacity`, and
\* no request is refused while a permit is free.
THEOREM PermitsExactHolds == Spec => PermitsExact
  BY CapturesBoundedHolds, BusyMeansFullHolds DEF PermitsExact

-----------------------------------------------------------------------------
\* The settle engine: the count of requests in flight.

Sent == {"requestWillBeSent"}
Over == {"loadingFinished", "loadingFailed"}

\* What the count is when the first k events have been read.
CountAfter(e, n, k) == n + Num(e, Sent, k) - Num(e, Over, k)

NeverBelow == \A k \in 0 .. Len(events) : CountAfter(events, inflight, k) >= 0

SettleInv == SettleTypeOK /\ InflightTracks /\ NeverBelow

LEMMA DeltaValues ==
  ASSUME NEW ev
  PROVE  /\ Delta(ev) = (IF ev \in Sent THEN 1 ELSE 0) - (IF ev \in Over THEN 1 ELSE 0)
         /\ Delta(ev) \in {-1, 0, 1}
BY DEF Delta, Sent, Over

LEMMA CountType ==
  ASSUME NEW e, NEW n \in Int, NEW k \in Nat
  PROVE  CountAfter(e, n, k) \in Int
BY FirstFinite DEF CountAfter

LEMMA CountNone == ASSUME NEW e, NEW n \in Int PROVE CountAfter(e, n, 0) = n
BY NumNone DEF CountAfter

\* An event sent changes the counts behind it alone.
LEMMA CountAppended ==
  ASSUME NEW e \in Seq(EventNames), NEW ev \in EventNames, NEW n \in Int
  PROVE  /\ \A k \in 0 .. Len(e) : CountAfter(Append(e, ev), n, k) = CountAfter(e, n, k)
         /\ CountAfter(Append(e, ev), n, Len(e) + 1) = CountAfter(e, n, Len(e)) + Delta(ev)
<1> DEFINE f == Append(e, ev)
<1>1. Len(e) \in Nat /\ (\A i \in 1 .. Len(e) : f[i] = e[i]) /\ f[Len(e) + 1] = ev
  OBVIOUS
<1> HIDE DEF f
<1>2. ASSUME NEW k \in 0 .. Len(e) PROVE CountAfter(f, n, k) = CountAfter(e, n, k)
  <2>1. k \in Nat /\ \A i \in 1 .. k : f[i] = e[i]
    BY <1>1
  <2> QED
    BY <2>1, NumAgrees DEF CountAfter
<1>3. CountAfter(f, n, Len(e) + 1) = CountAfter(f, n, Len(e)) + Delta(ev)
  <2>1. /\ Num(f, Sent, Len(e) + 1) = Num(f, Sent, Len(e)) + IF ev \in Sent THEN 1 ELSE 0
        /\ Num(f, Over, Len(e) + 1) = Num(f, Over, Len(e)) + IF ev \in Over THEN 1 ELSE 0
    BY <1>1, NumNext
  <2>2. Num(f, Sent, Len(e)) \in Nat /\ Num(f, Over, Len(e)) \in Nat
    BY <1>1, FirstFinite
  <2> QED
    BY <2>1, <2>2, DeltaValues DEF CountAfter
<1>4. CountAfter(f, n, Len(e)) = CountAfter(e, n, Len(e))
  BY <1>1, <1>2
<1> QED
  BY <1>2, <1>3, <1>4 DEF f

\* An event read is counted, and the rest as before.
LEMMA CountRead ==
  ASSUME NEW e \in Seq(EventNames), e # <<>>, NEW n \in Int, NEW k \in 0 .. Len(e) - 1
  PROVE  CountAfter(Tail(e), n + Delta(Head(e)), k) = CountAfter(e, n, k + 1)
<1> DEFINE f == Tail(e)
<1>1. k \in Nat /\ e[1] = Head(e) /\ \A i \in 1 .. k : f[i] = e[i + 1]
  OBVIOUS
<1> HIDE DEF f
<1>2. /\ Num(e, Sent, k + 1) = Num(f, Sent, k) + IF Head(e) \in Sent THEN 1 ELSE 0
      /\ Num(e, Over, k + 1) = Num(f, Over, k) + IF Head(e) \in Over THEN 1 ELSE 0
  BY <1>1, NumBehind
<1>3. Num(f, Sent, k) \in Nat /\ Num(f, Over, k) \in Nat
  BY <1>1, FirstFinite
<1>4. Num(e, Sent, k + 1) - Num(e, Over, k + 1) = Num(f, Sent, k) - Num(f, Over, k) + Delta(Head(e))
  BY <1>2, <1>3, DeltaValues
<1>5. Num(e, Sent, k + 1) \in Nat /\ Num(e, Over, k + 1) \in Nat /\ Delta(Head(e)) \in Int
  BY <1>1, FirstFinite, DeltaValues
<1>6. CountAfter(f, n + Delta(Head(e)), k) = CountAfter(e, n, k + 1)
  BY <1>3, <1>4, <1>5 DEF CountAfter
<1> QED
  BY <1>6 DEF f

-----------------------------------------------------------------------------
\* The invariant.

LEMMA TracksCount ==
  ASSUME events \in Seq(EventNames)
  PROVE  InflightTracks <=>
           CountAfter(events, inflight, Len(events)) = Cardinality(outstanding) + Cardinality(redirected)
<1>1. Unread(Sent) = Num(events, Sent, Len(events)) /\ Unread(Over) = Num(events, Over, Len(events))
  BY DEF Unread, Num, First
<1> QED
  BY <1>1 DEF InflightTracks, CountAfter, Sent, Over

\* The page's requests can be counted.
LEMMA RequestsFinite ==
  ASSUME SettleTypeOK
  PROVE  /\ IsFiniteSet(outstanding) /\ Cardinality(outstanding) \in Nat
         /\ IsFiniteSet(redirected) /\ Cardinality(redirected) \in Nat
<1>1. outstanding \in SUBSET PageRequests /\ redirected \in SUBSET PageRequests
  BY DEF SettleTypeOK
<1> QED
  BY <1>1, SettleAssumption, FS_Subset, FS_CardinalityType

\* An event that Chromium sends keeps the count if the page changes with it.
LEMMA EmitsKeeps ==
  ASSUME SettleInv, NEW ev \in EventNames, Emits(ev), SettleTypeOK',
         Cardinality(outstanding') + Cardinality(redirected')
           = Cardinality(outstanding) + Cardinality(redirected) + Delta(ev)
  PROVE  SettleInv'
<1>1. /\ events \in Seq(EventNames) /\ inflight \in Int
      /\ events' = Append(events, ev) /\ inflight' = inflight
      /\ events' \in Seq(EventNames)
  BY DEF SettleInv, SettleTypeOK, Emits, trackerVars
<1>2. Len(events) \in Nat /\ Len(events') = Len(events) + 1
  BY <1>1
<1>3. /\ \A k \in 0 .. Len(events) : CountAfter(events', inflight', k) = CountAfter(events, inflight, k)
      /\ CountAfter(events', inflight', Len(events) + 1) = CountAfter(events, inflight, Len(events)) + Delta(ev)
  BY <1>1, CountAppended
<1>4. CountAfter(events, inflight, Len(events)) = Cardinality(outstanding) + Cardinality(redirected)
  BY <1>1, TracksCount DEF SettleInv
<1>5. CountAfter(events', inflight', Len(events')) = Cardinality(outstanding') + Cardinality(redirected')
  BY <1>2, <1>3, <1>4
<1>6. events' \in Seq(EventNames) => InflightTracks'
  <2>1. Unread(Sent)' = Num(events', Sent, Len(events')) /\ Unread(Over)' = Num(events', Over, Len(events'))
    BY DEF Unread, Num, First
  <2> QED
    BY <1>5, <2>1 DEF InflightTracks, CountAfter, Sent, Over
<1>7. /\ Cardinality(outstanding') \in Nat /\ Cardinality(redirected') \in Nat
  <2>1. outstanding' \in SUBSET PageRequests /\ redirected' \in SUBSET PageRequests
    BY DEF SettleTypeOK
  <2> QED
    BY <2>1, SettleAssumption, FS_Subset, FS_CardinalityType
<1>8. NeverBelow'
  <2> SUFFICES ASSUME NEW k \in 0 .. Len(events') PROVE CountAfter(events', inflight', k) >= 0
    BY DEF NeverBelow
  <2>1. CASE k = Len(events')
    BY <1>5, <1>7, <2>1
  <2>2. CASE k \in 0 .. Len(events)
    BY <1>3, <2>2 DEF SettleInv, NeverBelow
  <2> QED
    BY <1>2, <2>1, <2>2
<1> QED
  BY <1>1, <1>6, <1>8 DEF SettleInv

LEMMA SettleInvInit == SettleInit => SettleInv
<1> SUFFICES ASSUME SettleInit PROVE SettleInv
  OBVIOUS
<1>1. /\ events \in Seq(EventNames) /\ Len(events) \in Nat
      /\ \A i \in 1 .. Len(events) : events[i] \notin Sent \cup Over
  <2>1. "load" \in EventNames \ (Sent \cup Over) /\ "networkIdle" \in EventNames \ (Sent \cup Over)
    BY DEF EventNames, Sent, Over
  <2>2. CASE events = <<>>
    BY <2>2
  <2>3. CASE events = <<"load">>
    BY <2>1, <2>3
  <2>4. CASE events = <<"load", "networkIdle">>
    BY <2>1, <2>4
  <2> QED
    BY <2>2, <2>3, <2>4 DEF SettleInit, BlankReplays
<1>2. SettleTypeOK
  <2>1. loaded \in BOOLEAN
    BY DEF SettleInit
  <2>2. frames = 0 /\ 0 \in 0 .. MaxFrames
    BY SettleAssumption DEF SettleInit
  <2>3. arrived \in 0 .. Len(events)
    BY <1>1 DEF SettleInit
  <2> QED
    BY <1>1, <2>1, <2>2, <2>3 DEF SettleInit, SettleTypeOK
<1>3. ASSUME NEW k \in 0 .. Len(events) PROVE CountAfter(events, inflight, k) = 0
  <2>1. First(events, Sent, k) = {} /\ First(events, Over, k) = {}
    BY <1>1 DEF First
  <2>2. Num(events, Sent, k) = 0 /\ Num(events, Over, k) = 0
    BY <2>1, FS_EmptySet DEF Num
  <2> QED
    BY <2>2 DEF CountAfter, SettleInit
<1>4. Cardinality(outstanding) = 0 /\ Cardinality(redirected) = 0
  BY FS_EmptySet DEF SettleInit
<1>5. InflightTracks
  <2>1. CountAfter(events, inflight, Len(events)) = 0
    BY <1>1, <1>3
  <2> QED
    BY <1>1, <1>4, <2>1, TracksCount
<1> QED
  BY <1>2, <1>3, <1>5 DEF SettleInv, NeverBelow

LEMMA ChromiumKeeps ==
  ASSUME SettleInv, Chromium
  PROVE  SettleInv'
<1> USE DEF SettleInv
<1>1. ASSUME NEW ev \in EventNames, Emits(ev)
      PROVE  /\ events' \in Seq(EventNames) /\ arrived' \in 0 .. Len(events')
             /\ UNCHANGED <<policy, loaded, inflight, verdict>>
  BY <1>1 DEF Emits, trackerVars, SettleTypeOK
<1>2. ASSUME NEW r \in PageRequests, RequestStarts(r) PROVE SettleInv'
  <2>1. /\ r \notin started /\ started' = started \cup {r} /\ outstanding' = outstanding \cup {r}
        /\ Emits("requestWillBeSent") /\ UNCHANGED <<page, frames, redirected, quietSent>>
    BY <1>2 DEF RequestStarts
  <2>2. "requestWillBeSent" \in EventNames /\ Delta("requestWillBeSent") = 1
    BY DEF EventNames, Delta
  <2>3. SettleTypeOK'
    BY <1>1, <2>1, <2>2 DEF SettleTypeOK
  <2>4. Cardinality(outstanding') = Cardinality(outstanding) + 1
    BY <2>1, RequestsFinite, FS_AddElement DEF SettleTypeOK
  <2>5. Cardinality(outstanding') + Cardinality(redirected')
          = Cardinality(outstanding) + Cardinality(redirected) + Delta("requestWillBeSent")
    BY <2>1, <2>2, <2>4, RequestsFinite
  <2> QED
    BY <2>1, <2>2, <2>3, <2>5, EmitsKeeps
<1>3. ASSUME NEW r \in PageRequests, RequestRedirects(r) PROVE SettleInv'
  <2>1. /\ r \in outstanding \ redirected /\ redirected' = redirected \cup {r}
        /\ Emits("requestWillBeSent") /\ UNCHANGED <<page, frames, outstanding, started, quietSent>>
    BY <1>3 DEF RequestRedirects
  <2>2. "requestWillBeSent" \in EventNames /\ Delta("requestWillBeSent") = 1
    BY DEF EventNames, Delta
  <2>3. SettleTypeOK'
    BY <1>1, <2>1, <2>2 DEF SettleTypeOK
  <2>4. Cardinality(redirected') = Cardinality(redirected) + 1
    BY <2>1, RequestsFinite, FS_AddElement
  <2>5. Cardinality(outstanding') + Cardinality(redirected')
          = Cardinality(outstanding) + Cardinality(redirected) + Delta("requestWillBeSent")
    BY <2>1, <2>2, <2>4, RequestsFinite
  <2> QED
    BY <2>1, <2>2, <2>3, <2>5, EmitsKeeps
<1>4. ASSUME NEW r \in PageRequests, RequestEnds(r) PROVE SettleInv'
  <2>1. /\ r \in outstanding /\ outstanding' = outstanding \ {r}
        /\ UNCHANGED <<page, frames, started, redirected, quietSent>>
    BY <1>4 DEF RequestEnds
  <2>2. PICK ev \in {"loadingFinished", "loadingFailed"} : Emits(ev)
    BY <1>4 DEF RequestEnds
  <2>3. ev \in EventNames /\ Delta(ev) = -1
    BY DEF EventNames, Delta
  <2>4. SettleTypeOK'
    BY <1>1, <2>1, <2>2, <2>3 DEF SettleTypeOK
  <2>5. Cardinality(outstanding') = Cardinality(outstanding) - 1
    BY <2>1, RequestsFinite, FS_RemoveElement
  <2>6. Cardinality(outstanding') + Cardinality(redirected')
          = Cardinality(outstanding) + Cardinality(redirected) + Delta(ev)
    BY <2>1, <2>3, <2>5, RequestsFinite
  <2> QED
    BY <2>2, <2>3, <2>4, <2>6, EmitsKeeps
<1>5. ASSUME FrameLoads \/ PageLoads PROVE SettleInv'
  <2>1. Emits("load") /\ UNCHANGED <<outstanding, started, redirected, quietSent>>
    BY <1>5 DEF FrameLoads, PageLoads
  <2>2. "load" \in EventNames /\ Delta("load") = 0
    BY DEF EventNames, Delta
  <2>3. page' \in {"loading", "loaded"} /\ frames' \in 0 .. MaxFrames
    BY <1>5, SettleAssumption DEF FrameLoads, PageLoads, SettleTypeOK
  <2>4. SettleTypeOK'
    BY <1>1, <2>1, <2>2, <2>3 DEF SettleTypeOK
  <2> QED
    BY <2>1, <2>2, <2>4, RequestsFinite, EmitsKeeps
<1>6. ASSUME GoesIdle PROVE SettleInv'
  <2>1. PICK ev \in {"networkIdle", "networkAlmostIdle"} : Emits(ev)
    BY <1>6 DEF GoesIdle
  <2>2. ev \in EventNames /\ Delta(ev) = 0
    BY DEF EventNames, Delta
  <2>3. quietSent' = TRUE /\ UNCHANGED <<page, frames, outstanding, started, redirected>>
    BY <1>6 DEF GoesIdle
  <2>4. SettleTypeOK'
    BY <1>1, <2>1, <2>2, <2>3 DEF SettleTypeOK
  <2> QED
    BY <2>1, <2>2, <2>3, <2>4, RequestsFinite, EmitsKeeps
<1> QED
  BY <1>2, <1>3, <1>4, <1>5, <1>6 DEF Chromium

LEMMA ObserveKeeps ==
  ASSUME SettleInv, Observe
  PROVE  SettleInv'
<1> DEFINE ev == Head(events)
<1>1. /\ events \in Seq(EventNames) /\ events # <<>> /\ inflight \in Int
      /\ arrived \in 1 .. Len(events) /\ arrived' = arrived - 1
      /\ events' = Tail(events) /\ inflight' = inflight + Delta(ev)
      /\ loaded' = (loaded \/ ev = "load")
      /\ verdict' \in {"idle", "none"}
      /\ UNCHANGED <<policy, pageVars>>
  BY DEF SettleInv, SettleTypeOK, Observe
<1>2. /\ Tail(events) \in Seq(EventNames) /\ Len(Tail(events)) = Len(events) - 1
      /\ Len(events) \in Nat /\ Len(events) > 0
  BY <1>1
<1>3. \A k \in 0 .. Len(events') : CountAfter(events', inflight', k) = CountAfter(events, inflight, k + 1)
  BY <1>1, <1>2, CountRead
<1>4. NeverBelow'
  <2> SUFFICES ASSUME NEW k \in 0 .. Len(events') PROVE CountAfter(events', inflight', k) >= 0
    BY DEF NeverBelow
  <2>1. k + 1 \in 0 .. Len(events)
    BY <1>1, <1>2
  <2> QED
    BY <1>3, <2>1 DEF SettleInv, NeverBelow
<1>5. inflight' \in Nat
  <2>1. Delta(ev) \in {-1, 0, 1}
    BY DeltaValues
  <2>2. inflight' \in Int
    BY <1>1, <2>1
  <2>3. 0 \in 0 .. Len(events')
    BY <1>1, <1>2
  <2>4. inflight' >= 0
    BY <1>4, <2>2, <2>3, CountNone DEF NeverBelow
  <2> QED
    BY <2>2, <2>4
<1>6. SettleTypeOK'
  BY <1>1, <1>2, <1>5 DEF SettleInv, SettleTypeOK, pageVars
<1>7. InflightTracks'
  <2>1. CountAfter(events', inflight', Len(events')) = CountAfter(events, inflight, Len(events))
    <3>1. Len(events') \in 0 .. Len(events') /\ Len(events') + 1 = Len(events)
      BY <1>1, <1>2
    <3> QED
      BY <1>3, <3>1
  <2>2. CountAfter(events, inflight, Len(events)) = Cardinality(outstanding) + Cardinality(redirected)
    BY <1>1, TracksCount DEF SettleInv
  <2>3. Unread(Sent)' = Num(events', Sent, Len(events')) /\ Unread(Over)' = Num(events', Over, Len(events'))
    BY DEF Unread, Num, First
  <2>4. outstanding' = outstanding /\ redirected' = redirected
    BY <1>1 DEF pageVars
  <2> QED
    BY <2>1, <2>2, <2>3, <2>4 DEF InflightTracks, CountAfter, Sent, Over
<1> QED
  BY <1>4, <1>6, <1>7 DEF SettleInv

LEMMA SettleInvStep == SettleInv /\ [SettleNext]_settleVars => SettleInv'
<1> SUFFICES ASSUME SettleInv, [SettleNext]_settleVars PROVE SettleInv'
  OBVIOUS
<1>1. ASSUME UNCHANGED <<policy, events, loaded, inflight, pageVars>>,
             arrived' \in 0 .. Len(events),
             verdict' \in {"none", "idle", "quiet", "timeout"}
      PROVE  SettleInv'
  BY <1>1 DEF SettleInv, SettleTypeOK, InflightTracks, Unread, NeverBelow, pageVars
<1>2. CASE UNCHANGED settleVars
  BY <1>1, <1>2 DEF settleVars, trackerVars, SettleInv, SettleTypeOK
<1>3. CASE GoesQuiet \/ GivesUp
  BY <1>1, <1>3 DEF GoesQuiet, GivesUp, SettleInv, SettleTypeOK
<1>4. CASE Deliver
  BY <1>1, <1>4 DEF Deliver, trackerVars, SettleInv, SettleTypeOK
<1> QED
  BY <1>2, <1>3, <1>4, ChromiumKeeps, ObserveKeeps DEF SettleNext

-----------------------------------------------------------------------------

\* render.rs, SettleTracker: the count of requests in flight and the events that
\* settle has still to read, in the channel or on their way to it, make up the
\* page's requests; so the count is never negative, and on a quiet interval
\* only requests whose starts are still on their way are missed.
THEOREM SettleCountsHolds == SettleSpec => SettleCounts
<1>1. SettleSpec => []SettleInv
  BY SettleInvInit, SettleInvStep, PTL DEF SettleSpec
<1>2. SettleInv /\ [SettleNext]_settleVars =>
        [verdict = "none" /\ verdict' = "quiet" =>
           Cardinality(outstanding) + Cardinality(redirected) <= Unread(Sent) - Unread(Over)]_settleVars
  <2> SUFFICES ASSUME SettleInv, SettleNext, verdict = "none", verdict' = "quiet"
               PROVE  Cardinality(outstanding) + Cardinality(redirected) <= Unread(Sent) - Unread(Over)
    OBVIOUS
  <2>1. GoesQuiet
    BY DEF SettleNext, Chromium, RequestStarts, RequestRedirects, RequestEnds, FrameLoads, PageLoads,
           GoesIdle, Emits, trackerVars, Deliver, Observe, GivesUp
  <2>2. inflight = 0
    BY <2>1 DEF GoesQuiet, SettledOnQuiet, SettleInv, SettleTypeOK
  <2>3. 0 + Unread(Sent) - Unread(Over) = Cardinality(outstanding) + Cardinality(redirected)
    BY <2>2 DEF SettleInv, InflightTracks, Sent, Over
  <2>4. Unread(Sent) \in Nat /\ Unread(Over) \in Nat
    <3>1. Unread(Sent) = Num(events, Sent, Len(events)) /\ Unread(Over) = Num(events, Over, Len(events))
      BY DEF Unread, Num, First
    <3>2. Len(events) \in Nat
      BY DEF SettleInv, SettleTypeOK
    <3> QED
      BY <3>1, <3>2, FirstFinite
  <2> QED
    BY <2>3, <2>4, RequestsFinite DEF SettleInv
<1>3. SettleInv => SettleTypeOK /\ InflightTracks
  BY DEF SettleInv
<1> QED
  BY <1>1, <1>2, <1>3, PTL DEF SettleSpec, SettleCounts, QuietMeansIdle, Sent, Over

-----------------------------------------------------------------------------
\* The crawl store.

\* A file is whole exactly if the last save that was begun has ended, and then
\* it holds what that save wrote.
StoreInv ==
  /\ StoreTypeOK
  /\ file.whole <=> ~torn
  /\ ~torn => file.pages = saved

LEMMA StoreInvInit == StoreInit => StoreInv
BY StoreAssumption DEF StoreInit, StoreInv, StoreTypeOK, Empty

LEMMA StoreInvStep == StoreInv /\ [StoreNext]_storeVars => StoreInv'
<1> SUFFICES ASSUME StoreInv, [StoreNext]_storeVars PROVE StoreInv'
  OBVIOUS
<1> USE StoreAssumption DEF StoreInv, StoreTypeOK
<1>1. CASE RecordPage
  BY <1>1 DEF RecordPage
<1>2. CASE SaveBegins
  <2>1. PICK some \in SUBSET StoredUrls :
          file' = [whole |-> FALSE,
                   pages |-> [u \in StoredUrls |-> IF u \in some THEN pages[u] ELSE NoPage]]
    BY <1>2 DEF SaveBegins
  <2>2. [u \in StoredUrls |-> IF u \in some THEN pages[u] ELSE NoPage]
          \in [StoredUrls -> Hashes \cup {NoPage}]
    OBVIOUS
  <2>3. file' \in [whole : BOOLEAN, pages : [StoredUrls -> Hashes \cup {NoPage}]] /\ ~file'.whole
    BY <2>1, <2>2
  <2> QED
    BY <1>2, <2>3 DEF SaveBegins
<1>3. CASE SaveEnds
  BY <1>3 DEF SaveEnds
<1>4. CASE SaveFails
  BY <1>4 DEF SaveFails
<1>5. CASE Stop
  BY <1>5 DEF Stop, Empty
<1>6. CASE Load
  BY <1>6 DEF Load, FromJson, Empty
<1>7. CASE UNCHANGED storeVars
  BY <1>7 DEF storeVars
<1> QED
  BY <1>1, <1>2, <1>3, <1>4, <1>5, <1>6, <1>7 DEF StoreNext

\* store.rs: however saves are interrupted, a store keeps its types.
THEOREM StoreTypes == StoreSpec => []StoreTypeOK
<1>1. StoreInv => StoreTypeOK
  BY DEF StoreInv
<1> QED
  BY <1>1, StoreInvInit, StoreInvStep, PTL DEF StoreSpec

\* store.rs, load and from_json: a process loads what the last save wrote, or
\* nothing if one was interrupted since.
THEOREM LoadsSaved == StoreSpec => LoadsWhatWasSaved
<1>1. StoreInv /\ [StoreNext]_storeVars =>
        [phase = "stopped" /\ phase' = "running" => pages' = IF torn THEN Empty ELSE saved]_storeVars
  <2> SUFFICES ASSUME StoreInv, StoreNext, phase = "stopped", phase' = "running"
               PROVE  pages' = IF torn THEN Empty ELSE saved
    OBVIOUS
  <2>1. Load
    BY DEF StoreNext, RecordPage, SaveBegins, SaveEnds, SaveFails, Stop
  <2> QED
    BY <2>1 DEF Load, FromJson, StoreInv
<1> QED
  BY <1>1, StoreInvInit, StoreInvStep, PTL DEF StoreSpec, LoadsWhatWasSaved

-----------------------------------------------------------------------------
\* The C ABI.

\* The caller holds at most an output and a snapshot; they are different
\* blocks, allocated as what they are, and nothing else is allocated.
HandlesInv ==
  /\ HandlesTypeOK
  /\ owed # "none" /\ out # Null => heap[out] = owed
  /\ handle # Null => heap[handle] = "snapshot"
  /\ \A b \in Blocks : heap[b] # "free" => (b = out /\ owed # "none") \/ b = handle
  /\ faults = 0

LEMMA HandlesInvInit == HandlesInit => HandlesInv
BY HandlesAssumption DEF HandlesInit, HandlesInv, HandlesTypeOK, OK, InvalidInput, CaptureFailed

LEMMA HandlesInvStep == HandlesInv /\ [HandlesNext]_handleVars => HandlesInv'
<1> SUFFICES ASSUME HandlesInv, [HandlesNext]_handleVars PROVE HandlesInv'
  OBVIOUS
<1> USE HandlesAssumption DEF HandlesInv, HandlesTypeOK, OK, InvalidInput, CaptureFailed
<1>1. CASE \E f \in EntryPoints : Call(f)
  <2>1. PICK f \in EntryPoints : Call(f)
    BY <1>1
  <2>2. /\ owed = "none" /\ owed' \in {"bytes", "string"} /\ UNCHANGED <<handle, faults>>
        /\ calls' \in 0..MaxCalls
    BY <2>1 DEF Call, Counted
  <2>3. CASE code' \in {InvalidInput, CaptureFailed} /\ out' = Null /\ UNCHANGED heap
    BY <2>2, <2>3
  <2>4. CASE code' = OK /\ \E b \in Blocks : Allocated(owed', b) /\ out' = b
    <3>1. PICK b \in Blocks : Allocated(owed', b) /\ out' = b
      BY <2>4
    <3>2. heap[b] = "free" /\ heap' = [heap EXCEPT ![b] = owed']
      BY <3>1 DEF Allocated
    <3>3. heap'[b] = owed' /\ \A x \in Blocks \ {b} : heap'[x] = heap[x]
      BY <3>2
    <3>4. handle # b
      BY <3>2
    <3> QED
      BY <2>2, <2>4, <3>1, <3>2, <3>3, <3>4
  <2> QED
    BY <2>1, <2>3, <2>4 DEF Call, Fails
<1>2. CASE NullArgument
  BY <1>2 DEF NullArgument, Counted
<1>3. CASE CallSnapshot
  <2>1. handle = Null /\ calls' \in 0..MaxCalls /\ UNCHANGED <<out, owed, code, faults>>
    BY <1>3 DEF CallSnapshot, Counted
  <2>2. CASE UNCHANGED <<heap, handle>>
    BY <2>1, <2>2
  <2>3. CASE \E b \in Blocks : Allocated("snapshot", b) /\ handle' = b
    <3>1. PICK b \in Blocks : Allocated("snapshot", b) /\ handle' = b
      BY <2>3
    <3>2. heap[b] = "free" /\ heap' = [heap EXCEPT ![b] = "snapshot"]
      BY <3>1 DEF Allocated
    <3>3. heap'[b] = "snapshot" /\ \A x \in Blocks \ {b} : heap'[x] = heap[x]
      BY <3>2
    <3> QED
      BY <2>1, <3>1, <3>2, <3>3
  <2> QED
    BY <1>3, <2>2, <2>3 DEF CallSnapshot
<1>4. CASE FreeOutput
  <2>1. owed # "none" /\ owed' = "none" /\ Releases(out, owed) /\ UNCHANGED <<out, handle, code, calls>>
    BY <1>4 DEF FreeOutput
  <2>2. CASE out = Null
    BY <2>1, <2>2 DEF Releases
  <2>3. CASE out # Null
    <3>1. heap' = [heap EXCEPT ![out] = "free"] /\ faults' = 0
      BY <2>1, <2>3 DEF Releases
    <3>2. heap'[out] = "free" /\ \A x \in Blocks \ {out} : heap'[x] = heap[x]
      BY <2>3, <3>1
    <3>3. handle # out
      BY <2>1, <2>3
    <3> QED
      BY <2>1, <2>3, <3>1, <3>2, <3>3
  <2> QED
    BY <2>2, <2>3
<1>5. CASE FreeSnapshot
  <2>1. handle # Null /\ handle' = Null /\ Releases(handle, "snapshot") /\ UNCHANGED <<out, owed, code, calls>>
    BY <1>5 DEF FreeSnapshot
  <2>2. heap' = [heap EXCEPT ![handle] = "free"] /\ faults' = 0
    BY <2>1 DEF Releases
  <2>3. heap'[handle] = "free" /\ \A x \in Blocks \ {handle} : heap'[x] = heap[x]
    BY <2>1, <2>2
  <2>4. owed # "none" => out # handle
    BY <2>1
  <2> QED
    BY <2>1, <2>2, <2>3, <2>4
<1>6. CASE UNCHANGED handleVars
  BY <1>6 DEF handleVars
<1> QED
  BY <1>1, <1>2, <1>3, <1>4, <1>5, <1>6 DEF HandlesNext

\* capi.rs: a caller that frees each output once, and passes on what failed
\* calls left in its out pointer, frees nothing that is not its own.
THEOREM FreedOnce == HandlesSpec => []NeverFreedTwice
<1>1. HandlesInv => NeverFreedTwice
  BY DEF HandlesInv, NeverFreedTwice
<1> QED
  BY <1>1, HandlesInvInit, HandlesInvStep, PTL DEF HandlesSpec

\* capi.rs: nothing is leaked, by failures either, and an output outlives the
\* snapshot it was rendered from.
THEOREM OwnedByCaller == HandlesSpec => []AllocatedIsOwned
<1>1. HandlesInv => AllocatedIsOwned
  <2> SUFFICES ASSUME HandlesInv PROVE AllocatedIsOwned
    OBVIOUS
  <2> USE HandlesAssumption DEF HandlesInv, HandlesTypeOK
  <2>1. ASSUME NEW b \in Blocks, heap[b] # "free"
        PROVE  <<b, heap[b]>> \in Owned /\ b # Null
    BY <2>1 DEF Owned
  <2>2. ASSUME NEW p \in Owned, p[1] # Null
        PROVE  p[1] \in Blocks /\ heap[p[1]] # "free" /\ p = <<p[1], heap[p[1]]>>
    <3>1. CASE p = <<handle, "snapshot">>
      BY <2>2, <3>1
    <3>2. CASE owed # "none" /\ p = <<out, owed>>
      BY <2>2, <3>2
    <3> QED
      BY <2>2, <3>1, <3>2 DEF Owned
  <2> QED
    BY <2>1, <2>2 DEF AllocatedIsOwned
<1> QED
  BY <1>1, HandlesInvInit, HandlesInvStep, PTL DEF HandlesSpec

\* capi.rs: of what the C ABI hands out nothing is freed twice and nothing is
\* lost, in any sequence of calls that fail at any of their arguments.
THEOREM Ownership == HandlesSpec => []OwnershipExact
BY FreedOnce, OwnedByCaller, PTL DEF OwnershipExact

-----------------------------------------------------------------------------
\* Launches.

\* A pipe end is held by the process that launched it, by the Chromium it is
\* for while that runs, by children that have not executed yet and, on Windows,
\* by every Chromium that was created while it was inheritable.
LaunchInv ==
  /\ LaunchTypeOK
  /\ \A l \in Launches :
       /\ launched[l] = "inheritable" => platform = "windows"
       /\ launched[l] \in {"idle", "gone", "failed"} => ends[l] = {}
       /\ launched[l] \in {"spawned", "running", "joining"} => ends[l] = Ours
       /\ launched[l] = "joining" => chromium[l] = "dead"
       /\ chromium[l] \notin {"forked", "runs"} => copies[l] = {}
       /\ platform = "unix" /\ chromium[l] = "runs" => copies[l] = {l} \X Theirs

LEMMA LaunchInvInit == LaunchInit => LaunchInv
BY DEF LaunchInit, LaunchInv, LaunchTypeOK, Ours, Theirs

LEMMA LaunchInvStep == LaunchInv /\ [LaunchNext]_launchVars => LaunchInv'
<1> SUFFICES ASSUME LaunchInv, [LaunchNext]_launchVars PROVE LaunchInv'
  OBVIOUS
<1> USE DEF LaunchInv, LaunchTypeOK, Ours, Theirs
<1>1. ASSUME NEW l \in Launches, NEW from, ReturnsErr(l, from)
      PROVE  LaunchInv'
  BY <1>1 DEF ReturnsErr, Goes, Keeps
<1>2. ASSUME NEW l \in Launches, OpenPipes(l) PROVE LaunchInv'
  BY <1>1, <1>2 DEF OpenPipes, Goes, Keeps
<1>3. ASSUME NEW l \in Launches, MakeProfile(l) PROVE LaunchInv'
  BY <1>1, <1>3 DEF MakeProfile, Goes, Keeps
<1>4. ASSUME NEW l \in Launches, Fork(l) PROVE LaunchInv'
  BY <1>4 DEF Fork, Goes, Child
<1>5. ASSUME NEW l \in Launches, Exec(l) PROVE LaunchInv'
  BY <1>5 DEF Exec, Child, Mapped
<1>6. ASSUME NEW l \in Launches, MarkInheritable(l) PROVE LaunchInv'
  BY <1>6 DEF MarkInheritable, Goes
<1>7. ASSUME NEW l \in Launches, CreateProcess(l) PROVE LaunchInv'
  <2>1. CASE ReturnsErr(l, "inheritable")
    BY <1>1, <2>1
  <2>2. CASE ~ReturnsErr(l, "inheritable")
    <3>1. PICK kept \in SUBSET (Launches \X (Ours \cup Theirs)) : Child(l, "runs", kept)
      BY <1>7, <2>2 DEF CreateProcess
    <3>2. platform = "windows"
      BY <1>7, <2>2 DEF CreateProcess, Goes
    <3>3. Goes(l, "inheritable", "created") /\ UNCHANGED <<platform, ends, profiles>>
      BY <1>7, <2>2 DEF CreateProcess
    <3> QED
      BY <3>1, <3>2, <3>3 DEF Goes, Child
  <2> QED
    BY <2>1, <2>2
<1>8. ASSUME NEW l \in Launches, Spawned(l) PROVE LaunchInv'
  BY <1>1, <1>8 DEF Spawned, Goes, Keeps
<1>9. ASSUME NEW l \in Launches, StartReader(l) PROVE LaunchInv'
  BY <1>1, <1>9 DEF StartReader, Goes
<1>10. ASSUME NEW l \in Launches, Kill(l) PROVE LaunchInv'
  BY <1>10 DEF Kill, Goes, Child
<1>11. ASSUME NEW l \in Launches, Join(l) PROVE LaunchInv'
  BY <1>11 DEF Join, Goes, Keeps
<1>12. ASSUME NEW l \in Launches, ChromiumExits(l) \/ ChromiumDies(l) PROVE LaunchInv'
  BY <1>12 DEF ChromiumExits, ChromiumDies, Child
<1>13. CASE UNCHANGED launchVars
  BY <1>13 DEF launchVars
<1> QED
  BY <1>2, <1>3, <1>4, <1>5, <1>6, <1>7, <1>8, <1>9, <1>10, <1>11, <1>12, <1>13
  DEF LaunchNext, LaunchStep

\* cdp.rs, spawn_with_limits: types, and which launches have a profile.
THEOREM LaunchTypes == LaunchSpec => []LaunchTypeOK
<1>1. LaunchInv => LaunchTypeOK
  BY DEF LaunchInv
<1> QED
  BY <1>1, LaunchInvInit, LaunchInvStep, PTL DEF LaunchSpec

\* cdp.rs, Drop: for any number of overlapping launches, only another launch
\* can hold up a drop, on Unix between its fork and its exec and on Windows as
\* long as its Chromium runs.
THEOREM DropWaits == LaunchSpec => []DropWaitsForOthers
<1>1. LaunchInv => DropWaitsForOthers
  <2> SUFFICES ASSUME LaunchInv, NEW l \in Launches, launched[l] = "joining",
                      ~EndOfFile(l, "resp_write")
               PROVE  \E k \in Launches \ {l} :
                        chromium[k] = "forked" \/ (platform = "windows" /\ chromium[k] = "runs")
    BY DEF DropWaitsForOthers
  <2>1. "resp_write" \notin ends[l] /\ copies[l] = {}
    BY DEF LaunchInv, Ours
  <2>2. PICK k \in Launches : <<l, "resp_write">> \in copies[k]
    BY <2>1 DEF EndOfFile
  <2>3. k # l /\ chromium[k] \in {"forked", "runs"}
    BY <2>1, <2>2 DEF LaunchInv
  <2>4. platform = "unix" => chromium[k] # "runs"
    BY <2>2, <2>3 DEF LaunchInv
  <2>5. platform \in {"unix", "windows"}
    BY DEF LaunchInv, LaunchTypeOK
  <2> QED
    BY <2>3, <2>4, <2>5
<1> QED
  BY <1>1, LaunchInvInit, LaunchInvStep, PTL DEF LaunchSpec

-----------------------------------------------------------------------------
\* The walk along next links.

Link == [page : NextPages \cup {NoNext}, canonical : BOOLEAN]

\* A link, as a page gives it.
NextLink(p) == Spelled(p, TRUE)

Capture == [url : Link, next : NextPages \cup {NoNext}]

\* The pages captured are a chain without repetition, and were visited.
Chain(walked, seen) ==
  \A i \in DOMAIN walked :
    /\ walked[i].url \in seen
    /\ i > 1 => walked[i].url = NextLink(walked[i - 1].next)
    /\ \A k \in DOMAIN walked : i < k => walked[i].url # walked[k].url

\* The link that comes next continues the chain; a failed walk has none.
WalkInv ==
  /\ upcoming \in Link
  /\ captured \in Seq(Capture)
  /\ walk \in {"walking", "returned", "failed"}
  /\ Len(captured) <= PageLimit
  /\ Chain(captured, visited)
  /\ walk = "walking" /\ captured # <<>> /\ upcoming # NoUrl =>
       upcoming = NextLink(captured[Len(captured)].next)

LEMMA SpelledIsLink ==
  ASSUME NEW p \in NextPages \cup {NoNext}, NEW c \in BOOLEAN
  PROVE  Spelled(p, c) \in Link
BY DEF Spelled, Link

LEMMA LinkIsSpelled ==
  ASSUME NEW u \in Link
  PROVE  u.canonical \in BOOLEAN /\ (u.canonical = TRUE => u = NextLink(u.page))
BY DEF NextLink, Spelled, Link

LEMMA NextLinkPage ==
  ASSUME NEW u, NEW p, u = NextLink(p)
  PROVE  u = NextLink(u.page)
BY DEF NextLink, Spelled

LEMMA NoUrlIsLink == NoUrl \in Link
BY SpelledIsLink DEF NoUrl

LEMMA NextLinkIsLink == ASSUME NEW p \in NextPages \cup {NoNext} PROVE NextLink(p) \in Link
BY SpelledIsLink DEF NextLink

LEMMA WalkInvInit == PaginationInit => WalkInv
<1> SUFFICES ASSUME PaginationInit PROVE WalkInv
  OBVIOUS
<1>1. upcoming \in Link
  BY SpelledIsLink DEF PaginationInit
<1>2. captured = <<>> /\ captured \in Seq(Capture) /\ Len(captured) = 0 /\ DOMAIN captured = {}
  BY DEF PaginationInit
<1>3. Chain(captured, visited)
  BY <1>2 DEF Chain
<1> QED
  BY <1>1, <1>2, <1>3, PaginationAssumption DEF PaginationInit, WalkInv

\* What capturing one more page does.
Extends(n) ==
  /\ walk = "walking" /\ walk' = "walking"
  /\ upcoming # NoUrl /\ upcoming \notin visited
  /\ ~AtLimit
  /\ visited' = visited \cup {upcoming}
  /\ captured' = Append(captured, [url |-> upcoming, next |-> n])
  /\ upcoming' = IF NextLink(n) # NoUrl /\ NextLink(n) \notin visited' THEN NextLink(n) ELSE NoUrl

LEMMA TurnCases ==
  ASSUME Turn
  PROVE  \/ /\ walk = "walking" /\ walk' = "returned" /\ UNCHANGED <<upcoming, captured, visited>>
            /\ upcoming = NoUrl \/ AtLimit \/ upcoming \in visited
         \/ walk' = "failed" /\ captured' = <<>> /\ UNCHANGED <<upcoming, visited>>
         \/ \E n \in NextPages \cup {NoNext} : Extends(n)
<1>1. CASE upcoming = NoUrl \/ AtLimit \/ upcoming \in visited
  BY <1>1 DEF Turn
<1>2. CASE ~(upcoming = NoUrl \/ AtLimit \/ upcoming \in visited) /\ walk' = "failed" /\ captured' = <<>>
           /\ UNCHANGED <<upcoming, visited>>
  BY <1>2
<1>3. ASSUME ~(upcoming = NoUrl \/ AtLimit \/ upcoming \in visited), NEW n \in NextPages \cup {NoNext},
             visited' = visited \cup {upcoming},
             captured' = Append(captured, [url |-> upcoming, next |-> n]),
             upcoming' = IF LoopGuard(Spelled(n, TRUE)) THEN Spelled(n, TRUE) ELSE NoUrl,
             UNCHANGED walk
      PROVE  Extends(n)
  <2>1. walk = "walking"
    BY DEF Turn
  <2> QED
    BY <1>3, <2>1 DEF Extends, NextLink, LoopGuard
<1> QED
  BY <1>1, <1>2, <1>3 DEF Turn

\* A sequence one longer, element by element.
LEMMA Appended ==
  ASSUME NEW S, NEW s \in Seq(S), NEW e \in S
  PROVE  /\ Append(s, e) \in Seq(S)
         /\ Len(s) \in Nat /\ Len(Append(s, e)) = Len(s) + 1
         /\ DOMAIN s = 1 .. Len(s) /\ DOMAIN Append(s, e) = 1 .. Len(s) + 1
         /\ \A i \in 1 .. Len(s) : Append(s, e)[i] = s[i] /\ s[i] \in S
         /\ Append(s, e)[Len(s) + 1] = e
OBVIOUS

LEMMA WalkInvStep == WalkInv /\ [Turn]_paginationVars => WalkInv'
<1> SUFFICES ASSUME WalkInv, [Turn]_paginationVars PROVE WalkInv'
  OBVIOUS
<1> USE PaginationAssumption
<1>1. CASE UNCHANGED paginationVars
  BY <1>1 DEF paginationVars, WalkInv
<1>2. CASE walk' = "returned" /\ UNCHANGED <<upcoming, captured, visited>>
  BY <1>2 DEF WalkInv
<1>3. CASE walk' = "failed" /\ captured' = <<>> /\ UNCHANGED <<upcoming, visited>>
  <2>1. captured' \in Seq(Capture) /\ Len(captured') = 0 /\ DOMAIN captured' = {}
    BY <1>3
  <2>2. Chain(captured', visited')
    BY <2>1 DEF Chain
  <2> QED
    BY <1>3, <2>1, <2>2 DEF WalkInv
<1>4. ASSUME NEW n \in NextPages \cup {NoNext}, Extends(n) PROVE WalkInv'
  <2> DEFINE len == Len(captured)
             e == [url |-> upcoming, next |-> n]
  <2>1. /\ walk = "walking" /\ walk' = "walking"
        /\ upcoming # NoUrl /\ upcoming \notin visited
        /\ visited' = visited \cup {upcoming}
        /\ captured' = Append(captured, e)
        /\ upcoming' \in {NextLink(n), NoUrl}
    BY <1>4 DEF Extends
  <2>2. upcoming \in Link /\ captured \in Seq(Capture)
    BY DEF WalkInv
  <2>3. e \in Capture /\ e.url = upcoming /\ e.next = n
    BY <2>2 DEF Capture
  <2> HIDE DEF e
  <2>4. /\ captured' \in Seq(Capture) /\ len \in Nat /\ Len(captured') = len + 1
        /\ DOMAIN captured = 1 .. len /\ DOMAIN captured' = 1 .. len + 1
        /\ \A i \in 1 .. len : captured'[i] = captured[i]
        /\ captured'[len + 1] = e
    BY <2>1, <2>2, <2>3, Appended
  <2>5. len < PageLimit
    BY <1>4, <2>4 DEF Extends, AtLimit
  <2>6. upcoming' \in Link
    BY <2>1, NextLinkIsLink, NoUrlIsLink
  <2>7. len > 0 => upcoming = NextLink(captured[len].next)
    <3>1. len > 0 => captured # <<>>
      OBVIOUS
    <3> QED
      BY <2>1, <3>1 DEF WalkInv
  <2>8. \A i \in 1 .. len : captured[i].url \in visited /\ captured[i].url # upcoming
    BY <2>1, <2>4 DEF WalkInv, Chain
  <2>9. \A i \in 1 .. len + 1 : captured'[i].url \in visited'
    BY <2>1, <2>3, <2>4, <2>8
  <2>10. ASSUME NEW i \in 1 .. len + 1, i > 1
         PROVE  captured'[i].url = NextLink(captured'[i - 1].next)
    <3>1. i - 1 \in 1 .. len
      BY <2>4, <2>10
    <3>2. CASE i = len + 1
      <4>1. len > 0 /\ i - 1 = len
        BY <2>4, <2>10, <3>2
      <4>2. captured'[i].url = upcoming
        BY <2>3, <2>4, <3>2
      <4>3. captured'[i - 1] = captured[len]
        BY <2>4, <3>1, <4>1
      <4> QED
        BY <2>7, <4>1, <4>2, <4>3
    <3>3. CASE i \in 1 .. len
      BY <2>4, <2>10, <3>1, <3>3 DEF WalkInv, Chain
    <3> QED
      BY <2>4, <2>10, <3>2, <3>3
  <2>11. ASSUME NEW i \in 1 .. len + 1, NEW k \in 1 .. len + 1, i < k
         PROVE  captured'[i].url # captured'[k].url
    <3>1. i \in 1 .. len
      BY <2>4, <2>11
    <3>2. CASE k = len + 1
      BY <2>3, <2>4, <2>8, <3>1, <3>2
    <3>3. CASE k \in 1 .. len
      BY <2>4, <2>11, <3>1, <3>3 DEF WalkInv, Chain
    <3> QED
      BY <2>4, <2>11, <3>2, <3>3
  <2>12. upcoming' # NoUrl => upcoming' = NextLink(captured'[Len(captured')].next)
    BY <2>1, <2>3, <2>4
  <2> HIDE DEF len
  <2>13. Chain(captured', visited')
    BY <2>4, <2>9, <2>10, <2>11 DEF Chain
  <2>14. Len(captured') <= PageLimit
    BY <2>4, <2>5
  <2> QED
    BY <2>1, <2>4, <2>6, <2>12, <2>13, <2>14 DEF WalkInv
<1> QED
  BY <1>1, <1>2, <1>3, <1>4, TurnCases

\* lib.rs, capture_paginated: a walk is a chain of next links without a cycle,
\* within its limit, and only the first page may come twice, under another
\* spelling of its URL.
THEOREM WalkIsChain == PaginationSpec => []ChainOfNext
<1>1. WalkInv => ChainOfNext
  <2> SUFFICES ASSUME WalkInv, NEW i \in DOMAIN captured, NEW k \in DOMAIN captured
               PROVE  /\ i > 1 => captured[i].url = NextLink(captured[i - 1].next)
                      /\ i < k /\ captured[i].url.page = captured[k].url.page
                           => i = 1 /\ ~captured[1].url.canonical
                      /\ Len(captured) <= PageLimit
    BY DEF ChainOfNext, NextLink
  <2>1. captured \in Seq(Capture) /\ Len(captured) <= PageLimit
    BY DEF WalkInv
  <2>2. i \in Nat /\ k \in Nat /\ i >= 1 /\ captured[i] \in Capture /\ captured[k] \in Capture
    BY <2>1
  <2>3. captured[i].url \in Link /\ captured[k].url \in Link
    BY <2>2 DEF Capture
  <2>4. /\ i > 1 => captured[i].url = NextLink(captured[i - 1].next)
        /\ k > 1 => captured[k].url = NextLink(captured[k - 1].next)
        /\ i < k => captured[i].url # captured[k].url
    BY DEF WalkInv, Chain
  <2>5. /\ i > 1 => captured[i].url = NextLink(captured[i].url.page)
        /\ k > 1 => captured[k].url = NextLink(captured[k].url.page)
    BY <2>4, NextLinkPage
  <2>6. k \in Nat /\ i \in Nat /\ i >= 1
    BY <2>2
  <2>7. ASSUME i < k, captured[i].url.page = captured[k].url.page
        PROVE  i = 1 /\ ~captured[1].url.canonical
    <3>1. captured[k].url = NextLink(captured[i].url.page)
      BY <2>5, <2>6, <2>7
    <3>2. captured[i].url # NextLink(captured[i].url.page)
      BY <2>4, <2>7, <3>1
    <3>3. i = 1
      BY <2>5, <2>6, <3>2
    <3>4. captured[i].url.canonical = TRUE => captured[i].url = NextLink(captured[i].url.page)
      BY <2>3, LinkIsSpelled
    <3>5. captured[i].url.canonical \in BOOLEAN
      BY <2>3, LinkIsSpelled
    <3> QED
      BY <3>2, <3>3, <3>4, <3>5
  <2> QED
    BY <2>1, <2>4, <2>7
<1> QED
  BY <1>1, WalkInvInit, WalkInvStep, PTL DEF PaginationSpec

\* The last page captured has no next link that was not visited.
Ended ==
  /\ captured # <<>>
  /\ LET n == captured[Len(captured)].next IN n = NoNext \/ NextLink(n) \in visited

\* A walk that goes on has a link that is new, or ended at a page without one.
StopInv ==
  /\ walk = "walking" /\ upcoming = NoUrl => Ended
  /\ walk = "walking" /\ upcoming # NoUrl => upcoming \notin visited
  /\ walk = "returned" => Ended \/ Len(captured) >= PageLimit

LEMMA StopInvInit == PaginationInit => StopInv
BY PaginationAssumption DEF PaginationInit, StopInv, Spelled, NoUrl

LEMMA StopInvStep == WalkInv /\ StopInv /\ [Turn]_paginationVars => StopInv'
<1> SUFFICES ASSUME WalkInv, StopInv, [Turn]_paginationVars PROVE StopInv'
  OBVIOUS
<1>1. CASE UNCHANGED paginationVars
  BY <1>1 DEF paginationVars, StopInv, Ended
<1>2. CASE /\ walk = "walking" /\ walk' = "returned" /\ UNCHANGED <<upcoming, captured, visited>>
           /\ upcoming = NoUrl \/ AtLimit \/ upcoming \in visited
  BY <1>2 DEF StopInv, Ended, AtLimit
<1>3. CASE walk' = "failed" /\ captured' = <<>> /\ UNCHANGED <<upcoming, visited>>
  BY <1>3 DEF StopInv
<1>4. ASSUME NEW n \in NextPages \cup {NoNext}, Extends(n) PROVE StopInv'
  <2> DEFINE e == [url |-> upcoming, next |-> n]
  <2>1. /\ walk' = "walking" /\ captured' = Append(captured, e)
        /\ upcoming' = IF NextLink(n) # NoUrl /\ NextLink(n) \notin visited' THEN NextLink(n) ELSE NoUrl
    BY <1>4 DEF Extends
  <2>2. upcoming \in Link /\ captured \in Seq(Capture)
    BY DEF WalkInv
  <2>3. e \in Capture /\ e.next = n
    BY <2>2 DEF Capture
  <2> HIDE DEF e
  <2>4. captured' # <<>> /\ captured'[Len(captured')].next = n
    BY <2>1, <2>2, <2>3, Appended
  <2>5. NextLink(n) = NoUrl => n = NoNext
    BY DEF NextLink, NoUrl, Spelled
  <2>6. CASE NextLink(n) # NoUrl /\ NextLink(n) \notin visited'
    BY <2>1, <2>6 DEF StopInv
  <2>7. CASE ~(NextLink(n) # NoUrl /\ NextLink(n) \notin visited')
    <3>1. Ended'
      BY <2>4, <2>5, <2>7 DEF Ended
    <3> QED
      BY <2>1, <2>7, <3>1 DEF StopInv
  <2> QED
    BY <2>6, <2>7
<1> QED
  BY <1>1, <1>2, <1>3, <1>4, TurnCases

\* lib.rs, capture_paginated: the walk follows next links without a cycle and
\* within its limit, and returns only where they end, come round or reach it.
THEOREM Walks == PaginationSpec => []WalkExact
<1>1. StopInv => StopsForReason
  BY DEF StopInv, Ended, StopsForReason, NextLink
<1>2. PaginationSpec => [](WalkInv /\ StopInv)
  BY WalkInvInit, WalkInvStep, StopInvInit, StopInvStep, PTL DEF PaginationSpec
<1> QED
  BY <1>1, <1>2, WalkIsChain, PTL DEF WalkExact

-----------------------------------------------------------------------------
\* Recurring captures.

LEMMA IntervalPositive == Interval \in Nat \ {0}
BY RecurringAssumption DEF Interval

\* Division rounds down, and a multiple has no remainder.
LEMMA DivBounds ==
  ASSUME NEW a \in Nat, NEW i \in Nat \ {0}
  PROVE  a \div i \in Nat /\ (a \div i) * i <= a /\ a < (a \div i) * i + i
BY SMTT(30)

LEMMA MultipleMod == ASSUME NEW m \in Nat, NEW i \in Nat \ {0} PROVE (m * i) % i = 0
BY SMTT(30)

OnBoundary(b) == \E m \in Nat : b = Start + m * Interval

\* Cadence::next_run returns the first boundary that is not over.
LEMMA NextRunIsFirst ==
  ASSUME NEW t \in Nat
  PROVE  /\ NextRun(t) \in Nat /\ OnBoundary(NextRun(t))
         /\ NextRun(t) >= t
         /\ NextRun(t) = Start \/ NextRun(t) < t + Interval
<1>1. CASE t <= Start
  <2>1. NextRun(t) = Start /\ Start = Start + 0 * Interval
    BY <1>1, IntervalPositive, RecurringAssumption DEF NextRun
  <2> QED
    BY <1>1, <2>1, RecurringAssumption DEF OnBoundary
<1>2. CASE t > Start
  <2> DEFINE a == t - Start + Interval - 1
  <2>1. a \in Nat /\ NextRun(t) = Start + (a \div Interval) * Interval
    BY <1>2, IntervalPositive, RecurringAssumption DEF NextRun
  <2>2. /\ a \div Interval \in Nat /\ (a \div Interval) * Interval <= a
        /\ a < (a \div Interval) * Interval + Interval
    BY <2>1, DivBounds, IntervalPositive
  <2> HIDE DEF a
  <2>3. OnBoundary(NextRun(t))
    BY <2>1, <2>2 DEF OnBoundary
  <2>4. (a \div Interval) * Interval \in Nat
    BY <2>2, IntervalPositive
  <2>5. a = t - Start + Interval - 1
    BY DEF a
  <2> QED
    BY <1>2, <2>1, <2>2, <2>3, <2>4, <2>5, IntervalPositive, RecurringAssumption
<1> QED
  BY <1>1, <1>2, RecurringAssumption

\* The boundary after a boundary is one interval later.
LEMMA NextRunAdvances ==
  ASSUME NEW b \in Nat, OnBoundary(b)
  PROVE  NextRun(b + 1) = b + Interval
<1>1. PICK m \in Nat : b = Start + m * Interval
  BY DEF OnBoundary
<1>2. PICK n \in Nat : NextRun(b + 1) = Start + n * Interval
  BY NextRunIsFirst DEF OnBoundary
<1>3. m * Interval \in Nat /\ n * Interval \in Nat /\ b + 1 > Start
  BY <1>1, IntervalPositive, RecurringAssumption
<1>4. m * Interval < n * Interval /\ n * Interval < m * Interval + Interval + 1
  <2>1. NextRun(b + 1) >= b + 1 /\ (NextRun(b + 1) = Start \/ NextRun(b + 1) < b + 1 + Interval)
    BY NextRunIsFirst
  <2> QED
    BY <1>1, <1>2, <1>3, <2>1, IntervalPositive, RecurringAssumption
<1>5. n = m + 1
  <2>1. n > m
    BY <1>4, IntervalPositive
  <2>2. n < m + 2
    <3>1. n * Interval < (m + 2) * Interval
      BY <1>4, IntervalPositive
    <3> QED
      BY <3>1, IntervalPositive
  <2> QED
    BY <2>1, <2>2
<1>6. (m + 1) * Interval = m * Interval + Interval
  BY IntervalPositive
<1> QED
  BY <1>1, <1>2, <1>5, <1>6, IntervalPositive, RecurringAssumption

\* The boundary waited for follows the last one captured for; nobody wakes up
\* before it.
CadenceInv ==
  /\ clock \in Nat /\ target \in Nat /\ wake \in Nat /\ since \in Nat
  /\ progress \in {"begin", "loop", "sleeping", "returned"}
  /\ ran \in Seq([boundary : Nat, at : Nat])
  /\ progress = "begin" => ran = <<>>
  /\ progress # "begin" => OnBoundary(target)
  /\ progress # "begin" /\ ran = <<>> => target >= since /\ (target = Start \/ target < since + Interval)
  /\ progress # "begin" /\ ran # <<>> => target = ran[Len(ran)].boundary + Interval
  /\ progress = "sleeping" => wake >= target
  /\ \A k \in DOMAIN ran :
       /\ OnBoundary(ran[k].boundary) /\ ran[k].at >= ran[k].boundary
       /\ k = 1 => ran[k].boundary >= since
                   /\ (ran[k].boundary = Start \/ ran[k].boundary < since + Interval)
       /\ k > 1 => ran[k].boundary = ran[k - 1].boundary + Interval

LEMMA CadenceInvInit == RecurringInit => CadenceInv
BY IntervalPositive, RecurringAssumption DEF RecurringInit, CadenceInv

LEMMA CadenceInvStep == CadenceInv /\ [RecurringNext]_recurringVars => CadenceInv'
<1> SUFFICES ASSUME CadenceInv, [RecurringNext]_recurringVars PROVE CadenceInv'
  OBVIOUS
<1>1. CASE Tick
  BY <1>1, RecurringAssumption DEF Tick, CadenceInv
<1>2. CASE Begin
  <2>1. NextRun(clock) \in Nat /\ OnBoundary(NextRun(clock)) /\ NextRun(clock) >= clock
          /\ (NextRun(clock) = Start \/ NextRun(clock) < clock + Interval)
    BY NextRunIsFirst DEF CadenceInv
  <2> QED
    BY <1>2, <2>1 DEF Begin, CadenceInv
<1>3. CASE Wait
  <2>1. wake' \in Nat /\ wake' >= target
    BY <1>3 DEF Wait, SleepUntil, CadenceInv
  <2> QED
    BY <1>3, <2>1 DEF Wait, CadenceInv
<1>4. CASE CaptureDue
  <2>1. /\ progress = "sleeping" /\ clock >= wake /\ progress' = "loop"
        /\ ran' = Append(ran, [boundary |-> target, at |-> clock])
        /\ UNCHANGED <<clock, wake, since>>
    BY <1>4 DEF CaptureDue
  <2>2. target' = target + Interval
    BY <1>4, <2>1, NextRunAdvances DEF CaptureDue, Advance, CadenceInv
  <2>3. target' \in Nat /\ OnBoundary(target')
    <3>1. target' = NextRun(target + 1) /\ target + 1 \in Nat
      BY <1>4 DEF CaptureDue, Advance, CadenceInv
    <3> QED
      BY <3>1, NextRunIsFirst
  <2>4. /\ ran' \in Seq([boundary : Nat, at : Nat])
        /\ Len(ran') = Len(ran) + 1 /\ ran' # <<>>
        /\ ran'[Len(ran')] = [boundary |-> target, at |-> clock]
        /\ \A k \in DOMAIN ran : ran'[k] = ran[k]
        /\ DOMAIN ran' = DOMAIN ran \cup {Len(ran')}
        /\ ran = <<>> <=> Len(ran) = 0
    BY <2>1 DEF CadenceInv
  <2>5. clock >= target /\ OnBoundary(target)
    BY <2>1 DEF CadenceInv
  <2>6. ASSUME NEW k \in DOMAIN ran'
        PROVE  /\ OnBoundary(ran'[k].boundary) /\ ran'[k].at >= ran'[k].boundary
               /\ k = 1 => ran'[k].boundary >= since
                           /\ (ran'[k].boundary = Start \/ ran'[k].boundary < since + Interval)
               /\ k > 1 => ran'[k].boundary = ran'[k - 1].boundary + Interval
    <3>1. CASE k \in DOMAIN ran
      <4>1. k > 1 => k - 1 \in DOMAIN ran
        BY <3>1 DEF CadenceInv
      <4>2. ran'[k] = ran[k] /\ (k > 1 => ran'[k - 1] = ran[k - 1])
        BY <2>4, <3>1, <4>1
      <4> QED
        BY <3>1, <4>2 DEF CadenceInv
    <3>2. CASE k = Len(ran')
      <4>1. ran'[k].boundary = target /\ ran'[k].at = clock /\ k = Len(ran) + 1
        BY <2>4, <3>2
      <4>2. CASE ran = <<>>
        <5>1. k = 1
          BY <4>1, <4>2
        <5> QED
          BY <2>1, <2>5, <4>1, <4>2, <5>1 DEF CadenceInv
      <4>3. CASE ran # <<>>
        <5>1. Len(ran) \in DOMAIN ran /\ k - 1 = Len(ran) /\ k # 1
          BY <4>1, <4>3 DEF CadenceInv
        <5>2. ran'[k - 1] = ran[Len(ran)]
          BY <2>4, <5>1
        <5> QED
          BY <2>1, <2>5, <4>1, <4>3, <5>1, <5>2 DEF CadenceInv
      <4> QED
        BY <4>2, <4>3
    <3> QED
      BY <2>4, <3>1, <3>2
  <2>7. since' = since /\ clock' \in Nat /\ wake' \in Nat /\ since' \in Nat
    BY <2>1 DEF CadenceInv
  <2>8. target' = ran'[Len(ran')].boundary + Interval
    BY <2>2, <2>4
  <2> QED
    BY <2>1, <2>3, <2>4, <2>6, <2>7, <2>8 DEF CadenceInv, OnBoundary
<1>5. CASE Return
  BY <1>5 DEF Return, CadenceInv
<1>6. CASE UNCHANGED recurringVars
  BY <1>6 DEF recurringVars, CadenceInv
<1> QED
  BY <1>1, <1>2, <1>3, <1>4, <1>5, <1>6 DEF RecurringNext, RecurringStep

\* recurring.rs, run_schedule_with: boundaries are captured for one after
\* another, none twice and none left out, however long captures take.
THEOREM BoundariesOnce == RecurringSpec => []EveryBoundaryOnce
<1>1. CadenceInv => EveryBoundaryOnce
  <2> SUFFICES ASSUME CadenceInv, NEW k \in DOMAIN ran
               PROVE  /\ ran[k].boundary >= Start /\ (ran[k].boundary - Start) % Interval = 0
                      /\ IF k = 1
                         THEN /\ ran[k].boundary >= since
                              /\ ran[k].boundary = Start \/ ran[k].boundary < since + Interval
                         ELSE ran[k].boundary = ran[k - 1].boundary + Interval
    BY DEF EveryBoundaryOnce
  <2>1. PICK m \in Nat : ran[k].boundary = Start + m * Interval
    BY DEF CadenceInv, OnBoundary
  <2>2. m * Interval \in Nat /\ (m * Interval) % Interval = 0
    BY MultipleMod, IntervalPositive
  <2>3. ran[k].boundary - Start = m * Interval /\ ran[k].boundary >= Start
    BY <2>1, <2>2, RecurringAssumption
  <2> QED
    BY <2>2, <2>3 DEF CadenceInv
<1> QED
  BY <1>1, CadenceInvInit, CadenceInvStep, PTL DEF RecurringSpec

\* recurring.rs, run_schedule_with: no capture is made before its boundary.
THEOREM CapturesWait == RecurringSpec => []NeverEarly
<1>1. CadenceInv => NeverEarly
  BY DEF CadenceInv, NeverEarly
<1> QED
  BY <1>1, CadenceInvInit, CadenceInvStep, PTL DEF RecurringSpec

\* recurring.rs, run_schedule_with: the schedule captures for every boundary
\* once, in order, and never before it.
THEOREM Schedule == RecurringSpec => []ScheduleExact
BY BoundariesOnce, CapturesWait, PTL DEF ScheduleExact

-----------------------------------------------------------------------------
\* The MCP server: what has been answered of the lines read.

Proper(l) ==
  /\ l.form = "message"
  /\ l.method \in Methods
  /\ l.method = "tools/call" => l.params = "good"

\* The response r is one to the line l.
Replies(l, r) ==
  /\ r.id = IF l.form = "message" THEN l.id ELSE NoId
  /\ r.code = 0 <=> Proper(l)

\* The responses replies are those to the lines ls, in their order.
Matched(ls, replies) ==
  /\ Len(replies) = Num(ls, Asking, Len(ls))
  /\ \A i \in DOMAIN ls : ls[i] \in Asking => Replies(ls[i], replies[Num(ls, Asking, i)])

Responses ==
  [id : {NoId} \cup {l.id : l \in Lines}, code : {0, ParseError, MethodNotFound, InvalidParams}, failed : BOOLEAN]

\* The request that a capture runs for is the line read last.
McpInv ==
  /\ McpTypeOK /\ output \in Seq(Responses)
  /\ server \in {"capturing", "failed"} => taken # <<>>
  /\ server = "capturing" =>
       call = Last(taken) /\ call \in Asking /\ Proper(call)
  /\ Matched(Answered, output)

LEMMA FrontAndLast ==
  ASSUME NEW S, NEW s \in Seq(S), s # <<>>
  PROVE  /\ Front(s) \in Seq(S) /\ Last(s) \in S
         /\ s = Append(Front(s), Last(s))
BY DEF Front, Last

LEMMA FrontOfAppended ==
  ASSUME NEW S, NEW s \in Seq(S), NEW e \in S
  PROVE  /\ Append(s, e) # <<>> /\ Append(s, e) \in Seq(S)
         /\ Front(Append(s, e)) = s /\ Last(Append(s, e)) = e
BY DEF Front, Last

\* A line that asks for nothing may go unanswered, one that does gets its answer.
LEMMA MatchedAppended ==
  ASSUME NEW ls \in Seq(Lines), NEW l \in Lines, NEW R, NEW replies \in Seq(R), NEW r \in R,
         Matched(ls, replies)
  PROVE  /\ l \notin Asking => Matched(Append(ls, l), replies)
         /\ l \in Asking /\ Replies(l, r) => Matched(Append(ls, l), Append(replies, r))
<1> DEFINE n == Len(ls)
           m == Append(ls, l)
<1>1. /\ n \in Nat /\ DOMAIN ls = 1 .. n /\ DOMAIN m = 1 .. n + 1 /\ Len(m) = n + 1
      /\ \A i \in 1 .. n : m[i] = ls[i]
      /\ m[n + 1] = l
  OBVIOUS
<1>2. /\ Len(replies) \in Nat /\ Len(Append(replies, r)) = Len(replies) + 1
      /\ \A k \in 1 .. Len(replies) : Append(replies, r)[k] = replies[k]
      /\ Append(replies, r)[Len(replies) + 1] = r
  OBVIOUS
<1> HIDE DEF m, n
<1>3. \A i \in 0 .. n : Num(m, Asking, i) = Num(ls, Asking, i)
  <2> TAKE i \in 0 .. n
  <2>1. i \in Nat /\ \A j \in 1 .. i : m[j] = ls[j]
    BY <1>1
  <2> QED
    BY <2>1, NumAgrees
<1>4. Num(m, Asking, n + 1) = Num(ls, Asking, n) + IF l \in Asking THEN 1 ELSE 0
  <2>1. Num(m, Asking, n + 1) = Num(m, Asking, n) + IF m[n + 1] \in Asking THEN 1 ELSE 0
    BY <1>1, NumNext
  <2>2. Num(m, Asking, n) = Num(ls, Asking, n)
    BY <1>1, <1>3
  <2> QED
    BY <1>1, <2>1, <2>2
<1>5. Len(replies) = Num(ls, Asking, n)
  BY DEF Matched, n
<1>6. \A i \in 1 .. n : ls[i] \in Asking => Replies(ls[i], replies[Num(ls, Asking, i)])
  BY <1>1 DEF Matched
<1>7. \A i \in 1 .. n + 1 : i \in 1 .. n \/ i = n + 1
  BY <1>1
<1>8. \A i \in 1 .. n : i \in 0 .. n
  BY <1>1
<1>9. ASSUME l \notin Asking PROVE Matched(m, replies)
  <2>1. Len(replies) = Num(m, Asking, Len(m))
    BY <1>1, <1>2, <1>4, <1>5, <1>9
  <2>2. ASSUME NEW i \in DOMAIN m, m[i] \in Asking
        PROVE  Replies(m[i], replies[Num(m, Asking, i)])
    BY <1>1, <1>3, <1>6, <1>7, <1>8, <1>9, <2>2
  <2> QED
    BY <2>1, <2>2 DEF Matched
<1>10. ASSUME l \in Asking, Replies(l, r) PROVE Matched(m, Append(replies, r))
  <2>1. Len(Append(replies, r)) = Num(m, Asking, Len(m))
    BY <1>1, <1>2, <1>4, <1>5, <1>10
  <2>2. ASSUME NEW i \in DOMAIN m, m[i] \in Asking
        PROVE  Replies(m[i], Append(replies, r)[Num(m, Asking, i)])
    <3>1. CASE i = n + 1
      <4>1. Num(m, Asking, i) = Len(replies) + 1
        BY <1>4, <1>5, <1>10, <3>1
      <4> QED
        BY <1>1, <1>2, <1>10, <3>1, <4>1
    <3>2. CASE i \in 1 .. n
      <4>1. ls[i] = m[i] /\ Num(m, Asking, i) = Num(ls, Asking, i)
        BY <1>1, <1>3, <1>8, <3>2
      <4>2. Num(ls, Asking, i) \in 1 .. Len(replies)
        <5>1. i \in Nat /\ i - 1 \in Nat /\ (i - 1) + 1 = i /\ i <= n
          BY <1>1, <3>2
        <5>2. /\ Num(ls, Asking, i) <= Num(ls, Asking, n) /\ Num(ls, Asking, i - 1) \in Nat
          BY <1>1, <5>1, NumMonotone, FirstFinite
        <5>3. Num(ls, Asking, (i - 1) + 1) =
                Num(ls, Asking, i - 1) + IF ls[(i - 1) + 1] \in Asking THEN 1 ELSE 0
          BY <5>1, NumNext
        <5>4. Num(ls, Asking, i) = Num(ls, Asking, i - 1) + 1
          BY <2>2, <4>1, <5>1, <5>3
        <5> QED
          BY <1>5, <5>2, <5>4
      <4>3. Append(replies, r)[Num(m, Asking, i)] = replies[Num(ls, Asking, i)]
        BY <1>2, <4>1, <4>2
      <4> QED
        BY <1>6, <2>2, <3>2, <4>1, <4>3
    <3> QED
      BY <1>1, <1>7, <3>1, <3>2
  <2> QED
    BY <2>1, <2>2 DEF Matched
<1> QED
  BY <1>9, <1>10 DEF m

LEMMA McpInvInit == McpInit => McpInv
<1> SUFFICES ASSUME McpInit PROVE McpInv
  OBVIOUS
<1>1. /\ input = <<>> /\ output = <<>> /\ server = "reading" /\ call = NoCall
      /\ reader = TRUE /\ closed = FALSE /\ taken = <<>>
  BY DEF McpInit
<1>2. Answered = <<>>
  BY <1>1 DEF Answered
<1>3. Len(<<>>) = 0 /\ DOMAIN <<>> = {}
  OBVIOUS
<1>4. Matched(<<>>, <<>>)
  BY <1>3, NumNone DEF Matched
<1>5. <<>> \in Seq(Lines) /\ <<>> \in Seq(Responses)
  OBVIOUS
<1>6. reader \in BOOLEAN /\ closed \in BOOLEAN
  BY <1>1, Zenon
<1>7. McpTypeOK
  <2>1. /\ input \in Seq(Lines) /\ taken \in Seq(Lines) /\ call \in Lines \cup {NoCall}
        /\ server \in {"reading", "capturing", "ended", "failed"} /\ DOMAIN output = {}
    BY <1>1, <1>3, <1>5
  <2> QED
    BY <1>6, <2>1 DEF McpTypeOK
<1> QED
  BY <1>1, <1>2, <1>4, <1>5, <1>7 DEF McpInv

\* A response that is written, or fails the server.
LEMMA WritesType ==
  ASSUME output \in Seq(Responses), NEW r \in Responses, Writes(r)
  PROVE  /\ output' \in Seq(Responses)
         /\ \/ server' = "reading" /\ output' = Append(output, r)
            \/ server' = "failed" /\ output' = output
<1>1. Append(output, r) \in Seq(Responses)
  OBVIOUS
<1> QED
  BY <1>1 DEF Writes

LEMMA CodesOfResponses ==
  ASSUME NEW replies \in Seq(Responses)
  PROVE  \A i \in DOMAIN replies : replies[i].code \in {0, ParseError, MethodNotFound, InvalidParams}
<1> TAKE i \in DOMAIN replies
<1>1. replies[i] \in Responses
  OBVIOUS
<1> QED
  BY <1>1 DEF Responses

LEMMA ErrorCodes ==
  /\ ParseError # 0 /\ MethodNotFound # 0 /\ InvalidParams # 0
  /\ ParseError \in Int /\ MethodNotFound \in Int /\ InvalidParams \in Int
BY DEF ParseError, MethodNotFound, InvalidParams

\* A request is answered rightly, or a capture runs for it.
LEMMA DispatchAnswers ==
  ASSUME NEW l \in Lines, l.form = "message", l.id # NoId,
         output \in Seq(Responses), Dispatch(l)
  PROVE  \/ server' = "failed" /\ output' = output /\ call' = call
         \/ /\ server' = "reading" /\ call' = call
            /\ \E r \in Responses : Replies(l, r) /\ output' = Append(output, r)
         \/ server' = "capturing" /\ output' = output /\ call' = l /\ Proper(l)
<1>1. \A c \in {MethodNotFound, InvalidParams} : RpcError(l.id, c) \in Responses
  BY DEF RpcError, Responses
<1>2. Success(l.id) \in Responses
  BY DEF Success, Result, Responses
<1>3. CASE l.method \in Methods \ {"tools/call"}
  <2>1. Writes(Success(l.id)) /\ call' = call
    BY <1>3 DEF Dispatch, Methods
  <2>2. Replies(l, Success(l.id))
    BY <1>3 DEF Replies, Proper, Success, Result
  <2> QED
    BY <1>2, <2>1, <2>2, WritesType
<1>4. CASE l.method = "tools/call" /\ CallError(l) = 0
  <2>1. server' = "capturing" /\ call' = l /\ output' = output
    BY <1>4 DEF Dispatch, Methods
  <2>2. Proper(l)
    BY <1>4, McpAssumption, ErrorCodes DEF Proper, CallError, Methods
  <2> QED
    BY <2>1, <2>2
<1>5. CASE l.method = "tools/call" /\ CallError(l) # 0
  <2>1. Writes(RpcError(l.id, CallError(l))) /\ call' = call
    BY <1>5 DEF Dispatch, Methods
  <2>2. CallError(l) = InvalidParams /\ l.params # "good"
    BY <1>5 DEF CallError
  <2>3. Replies(l, RpcError(l.id, CallError(l)))
    BY <1>5, <2>2, ErrorCodes DEF Replies, Proper, RpcError
  <2> QED
    BY <1>1, <2>1, <2>2, <2>3, WritesType
<1>6. CASE l.method \notin Methods
  <2>1. Writes(RpcError(l.id, MethodNotFound)) /\ call' = call
    BY <1>6 DEF Dispatch, Methods
  <2>2. Replies(l, RpcError(l.id, MethodNotFound))
    BY <1>6, ErrorCodes DEF Replies, Proper, RpcError
  <2> QED
    BY <1>1, <2>1, <2>2, WritesType
<1> QED
  BY <1>3, <1>4, <1>5, <1>6

\* A line is answered rightly, left unanswered, captured for, or fails the server.
LEMMA LineAnswers ==
  ASSUME NEW l \in Lines, output \in Seq(Responses), server = "reading", HandleLine(l)
  PROVE  \/ server' = "failed" /\ output' = output /\ call' = call
         \/ l \notin Asking /\ server' = "reading" /\ output' = output /\ call' = call
         \/ /\ l \in Asking /\ server' = "reading" /\ call' = call
            /\ \E r \in Responses : Replies(l, r) /\ output' = Append(output, r)
         \/ /\ server' = "capturing" /\ output' = output /\ call' = l
            /\ l \in Asking /\ Proper(l)
<1>1. CASE l.form = "not JSON" /\ Writes(RpcError(NoId, ParseError)) /\ UNCHANGED call
  <2>1. RpcError(NoId, ParseError) \in Responses
    BY DEF RpcError, Responses
  <2>2. l.form = "not JSON" /\ Writes(RpcError(NoId, ParseError)) /\ call' = call
    BY <1>1
  <2>3. l \in Asking /\ Replies(l, RpcError(NoId, ParseError))
    BY <2>2, ErrorCodes DEF Asking, Replies, Proper, RpcError
  <2> QED
    BY <2>1, <2>2, <2>3, WritesType
<1>2. CASE l.form \in {"message", "array"} /\ ~IsNotification(l) /\ Dispatch(l)
  <2>1. l.form = "message" /\ l.id # NoId /\ l \in Asking
    BY <1>2 DEF IsNotification, Asking
  <2> QED
    BY <1>2, <2>1, DispatchAnswers
<1>3. CASE l.form = "not UTF-8" /\ server' = "failed" /\ UNCHANGED <<output, call>>
  BY <1>3
<1>4. CASE l.form = "blank" /\ UNCHANGED <<output, server, call>>
  BY <1>4 DEF Asking
<1>5. CASE /\ l.form \in {"message", "array"} /\ IsNotification(l)
           /\ UNCHANGED <<output, server, call>>
  BY <1>5 DEF Asking, IsNotification
<1> QED
  BY <1>1, <1>2, <1>3, <1>4, <1>5 DEF HandleLine

\* A step that leaves the lines read and the responses alone.
McpQuiet == UNCHANGED <<output, server, call, taken>>

LEMMA McpInvStep == McpInv /\ [McpNext]_mcpVars => McpInv'
<1> SUFFICES ASSUME McpInv, [McpNext]_mcpVars PROVE McpInv'
  OBVIOUS
<1>1. /\ input \in Seq(Lines) /\ taken \in Seq(Lines) /\ output \in Seq(Responses)
      /\ call \in Lines \cup {NoCall} /\ Matched(Answered, output)
      /\ server \in {"reading", "capturing", "ended", "failed"}
      /\ reader \in BOOLEAN /\ closed \in BOOLEAN
      /\ server \in {"capturing", "failed"} => taken # <<>>
      /\ server = "capturing" => call = Last(taken) /\ call \in Asking /\ Proper(call)
  BY DEF McpInv, McpTypeOK
\* What is to be shown, without the codes, which follow from the type of output.
<1> DEFINE Good ==
      /\ input' \in Seq(Lines) /\ taken' \in Seq(Lines) /\ output' \in Seq(Responses)
      /\ call' \in Lines \cup {NoCall} /\ Matched(Answered', output')
      /\ server' \in {"reading", "capturing", "ended", "failed"}
      /\ reader' \in BOOLEAN /\ closed' \in BOOLEAN
      /\ server' \in {"capturing", "failed"} => taken' # <<>>
      /\ server' = "capturing" => call' = Last(taken') /\ call' \in Asking /\ Proper(call')
<1>2. ASSUME Good PROVE McpInv'
  <2>1. \A i \in DOMAIN output' : output'[i].code \in {0, ParseError, MethodNotFound, InvalidParams}
    BY <1>2, CodesOfResponses
  <2> QED
    BY <1>2, <2>1 DEF McpInv, McpTypeOK
<1>3. ASSUME McpQuiet, input' \in Seq(Lines), reader' \in BOOLEAN, closed' \in BOOLEAN
      PROVE  Good
  <2>1. Answered' = Answered
    BY <1>3 DEF Answered, McpQuiet
  <2> QED
    BY <1>1, <1>3, <2>1 DEF McpQuiet
<1>4. CASE UNCHANGED mcpVars
  BY <1>1, <1>2, <1>3, <1>4 DEF mcpVars, McpQuiet
<1>5. CASE ClientWrites
  <2>1. PICK l \in Lines : input' = Append(input, l)
    BY <1>5 DEF ClientWrites
  <2>2. input' \in Seq(Lines)
    BY <1>1, <2>1
  <2> QED
    BY <1>1, <1>2, <1>3, <1>5, <2>2 DEF ClientWrites, McpQuiet
<1>6. CASE ClientCloses
  BY <1>1, <1>2, <1>3, <1>6 DEF ClientCloses, McpQuiet
<1>7. CASE ClientStopsReading
  BY <1>1, <1>2, <1>3, <1>7 DEF ClientStopsReading, McpQuiet
<1>8. CASE Handle
  <2> DEFINE l == Head(input)
  <2>1. /\ server = "reading" /\ l \in Lines /\ input' \in Seq(Lines)
        /\ taken' = Append(taken, l) /\ reader' = reader /\ closed' = closed
        /\ HandleLine(l)
    BY <1>1, <1>8 DEF Handle
  <2>2. Answered = taken /\ Matched(taken, output)
    BY <1>1, <2>1 DEF Answered
  <2> HIDE DEF l
  <2>3. /\ taken' # <<>> /\ taken' \in Seq(Lines)
        /\ Front(taken') = taken /\ Last(taken') = l
    BY <1>1, <2>1, FrontOfAppended
  <2>4. CASE server' = "failed" /\ output' = output /\ call' = call
    <3>1. Answered' = taken
      BY <2>3, <2>4 DEF Answered
    <3> QED
      BY <1>1, <1>2, <2>1, <2>2, <2>3, <2>4, <3>1
  <2>5. CASE server' = "capturing" /\ output' = output /\ call' = l /\ l \in Asking /\ Proper(l)
    <3>1. Answered' = taken
      BY <2>3, <2>5 DEF Answered
    <3> QED
      BY <1>1, <1>2, <2>1, <2>2, <2>3, <2>5, <3>1
  <2>6. CASE l \notin Asking /\ server' = "reading" /\ output' = output /\ call' = call
    <3>1. Answered' = Append(taken, l)
      BY <2>1, <2>6 DEF Answered
    <3>2. RpcError(NoId, ParseError) \in Responses
      BY DEF RpcError, Responses
    <3>3. Matched(Append(taken, l), output)
      BY <1>1, <2>1, <2>2, <2>6, <3>2, MatchedAppended
    <3> QED
      BY <1>1, <1>2, <2>1, <2>3, <2>6, <3>1, <3>3
  <2>7. CASE /\ l \in Asking /\ server' = "reading" /\ call' = call
             /\ \E r \in Responses : Replies(l, r) /\ output' = Append(output, r)
    <3>1. Answered' = Append(taken, l)
      BY <2>1, <2>7 DEF Answered
    <3>2. PICK r \in Responses : Replies(l, r) /\ output' = Append(output, r)
      BY <2>7
    <3>3. Matched(Append(taken, l), output')
      BY <1>1, <2>1, <2>2, <2>7, <3>2, MatchedAppended
    <3>4. output' \in Seq(Responses)
      BY <1>1, <3>2
    <3> QED
      BY <1>1, <1>2, <2>1, <2>3, <2>7, <3>1, <3>3, <3>4
  <2> QED
    BY <1>1, <2>1, <2>4, <2>5, <2>6, <2>7, LineAnswers
<1>9. CASE CaptureReturns
  <2>1. PICK failed \in BOOLEAN : Writes(CaptureResult(call.id, failed))
    BY <1>9 DEF CaptureReturns
  <2>2. /\ server = "capturing" /\ call' = NoCall /\ input' = input
        /\ reader' = reader /\ closed' = closed /\ taken' = taken
    BY <1>9 DEF CaptureReturns
  <2>3. /\ call = Last(taken) /\ call \in Asking /\ Proper(call) /\ call \in Lines
        /\ taken # <<>>
    BY <1>1, <2>2 DEF Asking
  <2> DEFINE r == CaptureResult(call.id, failed)
  <2>4. r \in Responses /\ Replies(call, r)
    BY <2>3 DEF CaptureResult, Result, Responses, Replies, Proper
  <2> HIDE DEF r
  <2>5. /\ output' \in Seq(Responses)
        /\ \/ server' = "reading" /\ output' = Append(output, r)
           \/ server' = "failed" /\ output' = output
    BY <1>1, <2>1, <2>4, WritesType DEF r
  <2>6. /\ Front(taken) \in Seq(Lines) /\ taken = Append(Front(taken), call)
        /\ Answered = Front(taken)
    BY <1>1, <2>2, <2>3, FrontAndLast DEF Answered
  <2>7. CASE server' = "reading" /\ output' = Append(output, r)
    <3>1. Answered' = taken
      BY <2>2, <2>7 DEF Answered
    <3>2. Matched(taken, output')
      BY <1>1, <2>3, <2>4, <2>6, <2>7, MatchedAppended
    <3> QED
      BY <1>1, <1>2, <2>2, <2>5, <2>7, <3>1, <3>2
  <2>8. CASE server' = "failed" /\ output' = output
    <3>1. Answered' = Answered
      BY <2>2, <2>3, <2>6, <2>8 DEF Answered
    <3> QED
      BY <1>1, <1>2, <2>2, <2>3, <2>5, <2>8, <3>1
  <2> QED
    BY <2>5, <2>7, <2>8
<1>10. CASE EndOfInput
  <2>1. /\ server = "reading" /\ server' = "ended"
        /\ UNCHANGED <<input, output, call, reader, closed, taken>>
    BY <1>10 DEF EndOfInput
  <2>2. Answered' = Answered
    BY <2>1 DEF Answered
  <2> QED
    BY <1>1, <1>2, <2>1, <2>2
<1> QED
  BY <1>4, <1>5, <1>6, <1>7, <1>8, <1>9, <1>10 DEF McpNext, McpServe

\* The place of a line's response is the number of lines so far that ask for one.
LEMMA McpInvMeans == McpInv => ResponsesExact
<1> SUFFICES ASSUME McpInv PROVE ResponsesExact
  OBVIOUS
<1>1. McpTypeOK /\ Matched(Answered, output)
  BY DEF McpInv
<1>2. \A i : Place(i) = Num(Answered, Asking, i)
  BY DEF Place, Num, First
<1>3. AnswersInOrder
  BY <1>1, <1>2 DEF AnswersInOrder, Matched, Replies
<1>4. CodesAreProtocol
  BY <1>1, <1>2 DEF CodesAreProtocol, Matched, Replies, Proper
<1> QED
  BY <1>1, <1>3, <1>4 DEF ResponsesExact

\* Each request is answered exactly once, with its id, in the order of the
\* requests and with an error code if and only if the request is wrong,
\* whatever lines the client writes and whenever it closes either end.
THEOREM McpResponsesExact == McpSpec => []ResponsesExact
<1>1. McpSpec => []McpInv
  BY McpInvInit, McpInvStep, PTL DEF McpSpec
<1> QED
  BY <1>1, McpInvMeans, PTL

=============================================================================
