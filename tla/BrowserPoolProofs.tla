------------------------- MODULE BrowserPoolProofs -------------------------
(***************************************************************************)
(* Proofs about BrowserPool, for any number of captures, browsers, slots   *)
(* and proxies.  Every step is a step of Pool or leaves it alone, so what  *)
(* is proved of Pool holds here; that a resource has one owner             *)
(* (ExclusiveLease) is what keeps a failed browser out of circulation.     *)
(***************************************************************************)
EXTENDS BrowserPool, PoolProofs

\* A capture in progress has nothing left to drop from the one before.
NothingLeft == \A c \in Callers : pc[c] # "out" => doomed[c] = None

\* It renders only on a browser it has leased.
RendersOnLease == \A c \in Callers : stage[c] # "none" => pc[c] = "using"

BrowserInv ==
  /\ TypeOK /\ PoolInv /\ NothingLeft /\ RendersOnLease
  /\ NoOrphan /\ FailedNotReused

LEMMA PoolStep ==
  ASSUME [Next]_vars
  PROVE  [PoolNext]_poolVars
  BY DEF Next, Start, Continue, vars, StartReusing, StartSpawning, StartRefused,
         SpawnOk, SpawnErr, Attach, Navigate, Rendered, CloseAndRelease, FailAndDiscard,
         UnwindCapture, Drop, Crash, PoolNext

\* The browsers are leased as Pool leases its resources (BrowserPool::capture
\* calls acquire_with, release and discard and nothing else of the pool).
THEOREM BrowserUsesPool == Spec => UsesPool
  <1>1. Init => PoolInit
    BY DEF Init
  <1>2. [Next]_vars => [PoolNext]_poolVars
    BY PoolStep
  <1> QED
    BY <1>1, <1>2, PTL DEF Spec, UsesPool, PoolSpec

\* So the browsers keep the promise of BoundedLease, through crashes, failing
\* captures and panics.
THEOREM BrowsersImplementLease == Spec => ImplementsLease
  <1>1. Spec => PoolSpec
    BY BrowserUsesPool DEF UsesPool
  <1> QED
    BY <1>1, PoolImplementsLease, PTL

-----------------------------------------------------------------------------

LEMMA HeldBrowser ==
  ASSUME PoolTypeOK, NEW c \in Callers
  PROVE  /\ pc[c] = "using" <=> held[c] # None
         /\ pc[c] = "using" => held[c] \in Browsers
         /\ None \notin Browsers
  BY PoolAssumption DEF PoolTypeOK, Browsers, None

\* A finite set below a bound has room for one more member.
LEMMA OneMore ==
  ASSUME NEW S, IsFiniteSet(S), NEW x, NEW n \in Nat, Cardinality(S) < n
  PROVE  IsFiniteSet(S \cup {x}) /\ Cardinality(S \cup {x}) <= n
  <1>1. Cardinality(S) \in Nat
    BY FS_CardinalityType
  <1>2. /\ IsFiniteSet(S \cup {x})
        /\ Cardinality(S \cup {x}) = IF x \in S THEN Cardinality(S) ELSE Cardinality(S) + 1
    BY FS_AddElement
  <1> QED
    BY <1>1, <1>2

LEMMA BrowserTypeStep ==
  ASSUME TypeOK, RendersOnLease, [Next]_vars
  PROVE  TypeOK'
  <1> USE DEF browserVars, captureVars
  <1>1. PoolTypeOK'
    BY PoolStep, TypeStep DEF TypeOK
  <1>2. ASSUME NEW c \in Callers, Start(c) PROVE TypeOK'
    BY <1>1, <1>2 DEF Start, StartReusing, StartSpawning, StartRefused, Asks, TypeOK
  <1>3. ASSUME NEW c \in Callers, SpawnOk(c) PROVE TypeOK'
    <2>1. held'[c] \in Browsers
      BY <1>1, <1>3 DEF SpawnOk, MakeOk, PoolTypeOK, Browsers, TypeOK
    <2> QED
      BY <1>1, <1>3, <2>1 DEF SpawnOk, TypeOK
  <1>4. ASSUME NEW c \in Callers, SpawnErr(c) PROVE TypeOK'
    <2>1. CASE UNCHANGED <<proc, spawnedWith, left>>
      BY <1>1, <1>4, <2>1 DEF SpawnErr, TypeOK
    <2>2. ASSUME Cardinality(left) < MaxLeft,
                 NEW b \in Browsers,
                 proc' = [proc EXCEPT ![b] = "up"],
                 spawnedWith' = [spawnedWith EXCEPT ![b] = want[c]],
                 left' = left \cup {b}
          PROVE  TypeOK'
      <3>1. IsFiniteSet(left') /\ Cardinality(left') <= MaxLeft
        <4>1. IsFiniteSet(left \cup {b}) /\ Cardinality(left \cup {b}) <= MaxLeft
          BY <2>2, OneMore, BrowserAssumption DEF TypeOK
        <4> QED
          BY <2>2, <4>1, Zenon
      <3> QED
        BY <1>1, <1>4, <2>2, <3>1 DEF SpawnErr, TypeOK
    <2> QED
      BY <1>4, <2>1, <2>2 DEF SpawnErr
  <1>5. ASSUME NEW c \in Callers, Attach(c) PROVE TypeOK'
    BY <1>1, <1>5 DEF Attach, TypeOK
  <1>6. ASSUME NEW c \in Callers, Navigate(c) PROVE TypeOK'
    <2>1. held[c] \in Browsers
      BY <1>6, HeldBrowser DEF Navigate, RendersOnLease, TypeOK
    <2> QED
      BY <1>1, <1>6, <2>1 DEF Navigate, TypeOK
  <1>7. ASSUME NEW c \in Callers, Rendered(c) PROVE TypeOK'
    <2>1. held[c] \in Browsers
      BY <1>7, HeldBrowser DEF Rendered, RendersOnLease, TypeOK
    <2>2. [settled |-> stage[c] = "settling", via |-> spawnedWith[held[c]]]
            \in [settled : BOOLEAN, via : Proxies \cup {None}]
      BY <2>1 DEF TypeOK
    <2>3. captured' \in [Callers -> [settled : BOOLEAN, via : Proxies \cup {None}] \cup {None}]
      BY <1>7, <2>2 DEF Rendered, TypeOK
    <2> QED
      BY <1>1, <1>7, <2>3 DEF Rendered, TypeOK
  <1>8. ASSUME NEW c \in Callers, CloseAndRelease(c) PROVE TypeOK'
    <2>1. held[c] \in Browsers
      BY <1>8, HeldBrowser DEF CloseAndRelease, RendersOnLease, TypeOK
    <2>2. stray' \in SUBSET Browsers
      BY <1>8, <2>1 DEF CloseAndRelease, TypeOK
    <2> QED
      BY <1>1, <1>8, <2>2 DEF CloseAndRelease, TypeOK
  <1>9. ASSUME NEW c \in Callers, FailAndDiscard(c) \/ UnwindCapture(c) PROVE TypeOK'
    <2>1. held[c] \in Browsers \cup {None}
      BY DEF TypeOK, PoolTypeOK, Browsers, None
    <2>2. doomed' \in [Callers -> Browsers \cup {None}]
      BY <1>9, <2>1 DEF FailAndDiscard, UnwindCapture, TypeOK
    <2> QED
      BY <1>1, <1>9, <2>2 DEF FailAndDiscard, UnwindCapture, TypeOK
  <1>10. ASSUME NEW c \in Callers, Drop(c) PROVE TypeOK'
    <2>1. spawnedWith' \in [Browsers -> Proxies \cup {None}]
      BY <1>10 DEF Drop, TypeOK
    <2> QED
      BY <1>1, <1>10, <2>1 DEF Drop, TypeOK
  <1>11. ASSUME NEW b \in Browsers, Crash(b) PROVE TypeOK'
    BY <1>1, <1>11 DEF Crash, TypeOK
  <1>12. CASE UNCHANGED vars
    BY <1>1, <1>12 DEF vars, TypeOK
  <1> QED
    BY <1>2, <1>3, <1>4, <1>5, <1>6, <1>7, <1>8, <1>9, <1>10, <1>11, <1>12 DEF Next, Continue

-----------------------------------------------------------------------------

\* A capture ends, or has nothing left to drop, before it starts another.
LEMMA StageStep ==
  ASSUME TypeOK, NothingLeft, RendersOnLease, [Next]_vars
  PROVE  NothingLeft' /\ RendersOnLease'
  <1> USE DEF browserVars, captureVars, NothingLeft, RendersOnLease, TypeOK, PoolTypeOK
  <1>1. ASSUME NEW c \in Callers, Start(c) PROVE NothingLeft' /\ RendersOnLease'
    BY <1>1 DEF Start, StartReusing, StartSpawning, StartRefused, Asks,
                Reuse, Reserve, Exhausted
  <1>2. ASSUME NEW c \in Callers, SpawnOk(c) \/ SpawnErr(c)
        PROVE  NothingLeft' /\ RendersOnLease'
    BY <1>2 DEF SpawnOk, SpawnErr, MakeOk, MakeErr
  <1>3. ASSUME NEW c \in Callers, Attach(c) \/ Navigate(c) \/ Rendered(c)
        PROVE  NothingLeft' /\ RendersOnLease'
    BY <1>3 DEF Attach, Navigate, Rendered, poolVars
  <1>4. ASSUME NEW c \in Callers, CloseAndRelease(c) \/ FailAndDiscard(c) \/ UnwindCapture(c)
        PROVE  NothingLeft' /\ RendersOnLease'
    BY <1>4 DEF CloseAndRelease, FailAndDiscard, UnwindCapture, Release, Discard, Unwind
  <1>5. ASSUME NEW c \in Callers, Drop(c) PROVE NothingLeft' /\ RendersOnLease'
    BY <1>5 DEF Drop, poolVars
  <1>6. CASE (\E b \in Browsers : Crash(b)) \/ UNCHANGED vars
    BY <1>6 DEF Crash, vars, poolVars
  <1> QED
    BY <1>1, <1>2, <1>3, <1>4, <1>5, <1>6 DEF Next, Continue

\* Leasing an idle browser takes exactly that browser out of the stack.
LEMMA ReuseMoves ==
  ASSUME PoolTypeOK, ExclusiveLease, NEW c \in Callers, Reuse(c)
  PROVE  /\ held[c] = None /\ held'[c] \in Browsers
         /\ InIdle(held'[c])
         /\ \A b : InIdle(b)' <=> InIdle(b) /\ b # held'[c]
         /\ \A d \in Callers : d # c => held'[d] = held[d]
  <1>1. /\ Len(idle) \in Nat /\ Len(idle) >= 1
        /\ Len(idle') = Len(idle) - 1
        /\ \A k \in 1..Len(idle') : idle'[k] = idle[k]
        /\ idle[Len(idle)] \in Items
    BY PopIdle DEF Reuse, PoolTypeOK
  <1>2. /\ held'[c] = idle[Len(idle)] /\ held[c] = NoItem
        /\ \A d \in Callers : d # c => held'[d] = held[d]
    BY DEF Reuse, PoolTypeOK
  <1>3. Len(idle) \in 1..Len(idle) /\ 1..Len(idle) = 1..Len(idle') \cup {Len(idle)}
    BY <1>1
  <1>4. \A k \in 1..Len(idle') : idle[k] # idle[Len(idle)]
    <2> TAKE k \in 1..Len(idle')
    <2>1. k \in 1..Len(idle) /\ k # Len(idle)
      BY <1>1
    <2> QED
      BY <1>3, <2>1 DEF ExclusiveLease
  <1>5. \A b : InIdle(b)' <=> InIdle(b) /\ b # held'[c]
    BY <1>1, <1>2, <1>3, <1>4 DEF InIdle
  <1> QED
    BY <1>1, <1>2, <1>3, <1>5 DEF InIdle, Browsers, None

\* Giving a browser back adds exactly that browser to the stack.
LEMMA ReleaseMoves ==
  ASSUME PoolTypeOK, NEW c \in Callers, Release(c)
  PROVE  /\ held[c] \in Browsers /\ held'[c] = None
         /\ \A b : InIdle(b)' <=> InIdle(b) \/ b = held[c]
         /\ \A d \in Callers : d # c => held'[d] = held[d]
  <1>1. held[c] \in Items
    BY PoolAssumption DEF Release, PoolTypeOK
  <1>2. /\ Len(idle) \in Nat /\ Len(idle') = Len(idle) + 1
        /\ \A k \in 1..Len(idle) : idle'[k] = idle[k]
        /\ idle'[Len(idle) + 1] = held[c]
    BY <1>1, AppendProperties, LenProperties DEF Release, PoolTypeOK
  <1>3. 1..Len(idle') = 1..Len(idle) \cup {Len(idle) + 1}
    BY <1>2
  <1>4. \A b : InIdle(b)' <=> InIdle(b) \/ b = held[c]
    BY <1>2, <1>3 DEF InIdle
  <1> QED
    BY <1>1, <1>4 DEF Release, PoolTypeOK, Browsers, None

\* What ExclusiveLease says of the idle browsers.
LEMMA IdleNotHeld ==
  ASSUME PoolTypeOK, ExclusiveLease
  PROVE  /\ \A c \in Callers : ~InIdle(held[c])
         /\ ~InIdle(None)
  BY ElementOfSeq, PoolAssumption DEF InIdle, ExclusiveLease, PoolTypeOK, None

LEMMA OwnerStep ==
  ASSUME BrowserInv, [Next]_vars
  PROVE  NoOrphan' /\ FailedNotReused'
  <1> USE DEF browserVars, captureVars
  <1>t. /\ PoolTypeOK /\ ExclusiveLease /\ NothingLeft /\ RendersOnLease
        /\ NoOrphan /\ FailedNotReused
        /\ proc \in [Browsers -> {"none", "up", "dead"}]
        /\ doomed \in [Callers -> Browsers \cup {None}]
        /\ held \in [Callers -> Browsers \cup {None}]
        /\ None \notin Browsers
    BY PoolAssumption DEF BrowserInv, PoolInv, TypeOK, PoolTypeOK, Browsers, None
  <1>1. ASSUME NEW c \in Callers, StartReusing(c) PROVE NoOrphan' /\ FailedNotReused'
    <2>1. Reuse(c) /\ UNCHANGED <<doomed, proc, left>>
      BY <1>1 DEF StartReusing, Asks
    <2>2. /\ held[c] = None /\ held'[c] \in Browsers
          /\ InIdle(held'[c])
          /\ \A b : InIdle(b)' <=> InIdle(b) /\ b # held'[c]
          /\ \A d \in Callers : d # c => held'[d] = held[d]
      BY <1>t, <2>1, ReuseMoves
    <2>3. \A b \in Browsers : Owned(b)' <=> Owned(b)
      BY <1>t, <2>1, <2>2 DEF Owned
    <2>4. NoOrphan'
      BY <1>t, <2>1, <2>3 DEF NoOrphan
    <2>5. FailedNotReused'
      BY <1>t, <2>1, <2>2 DEF FailedNotReused
    <2> QED
      BY <2>4, <2>5
  <1>2. ASSUME UNCHANGED <<idle, held, doomed, left>>,
               \A b \in Browsers : (proc'[b] # "none") <=> (proc[b] # "none")
        PROVE  NoOrphan' /\ FailedNotReused'
    BY <1>t, <1>2 DEF NoOrphan, FailedNotReused, Owned, InIdle
  <1>3. ASSUME NEW c \in Callers,
               \/ StartSpawning(c) \/ StartRefused(c)
               \/ Attach(c) \/ Navigate(c) \/ Rendered(c)
        PROVE  NoOrphan' /\ FailedNotReused'
    <2>1. UNCHANGED <<idle, held, doomed, proc, left>>
      BY <1>3 DEF StartSpawning, StartRefused, Asks, Reserve, Exhausted,
                  Attach, Navigate, Rendered, poolVars
    <2> QED
      BY <1>2, <2>1
  <1>4. ASSUME NEW c \in Callers, SpawnOk(c) PROVE NoOrphan' /\ FailedNotReused'
    <2> DEFINE new == held'[c]
    <2>1. /\ new \in Browsers /\ proc[new] = "none"
          /\ held[c] = None
          /\ \A d \in Callers : d # c => held'[d] = held[d]
          /\ proc' = [proc EXCEPT ![new] = "up"]
          /\ UNCHANGED <<idle, doomed, left>>
      BY <1>t, <1>4 DEF SpawnOk, MakeOk, PoolTypeOK, Browsers, None
    <2>2. ~Owned(new) /\ new \notin left
      BY <1>t, <2>1 DEF NoOrphan
    <2>3. \A b \in Browsers : Owned(b)' <=> Owned(b) \/ b = new
      BY <1>t, <2>1 DEF Owned, InIdle
    <2>4. NoOrphan'
      BY <1>t, <2>1, <2>2, <2>3 DEF NoOrphan
    <2>5. FailedNotReused'
      BY <1>t, <2>1, <2>2 DEF FailedNotReused, Owned, InIdle
    <2> QED
      BY <2>4, <2>5
  <1>5. ASSUME NEW c \in Callers, CloseAndRelease(c) PROVE NoOrphan' /\ FailedNotReused'
    <2>1. Release(c) /\ UNCHANGED <<doomed, proc, left>>
      BY <1>5 DEF CloseAndRelease
    <2>2. /\ held[c] \in Browsers /\ held'[c] = None
          /\ \A b : InIdle(b)' <=> InIdle(b) \/ b = held[c]
          /\ \A d \in Callers : d # c => held'[d] = held[d]
      BY <1>t, <2>1, ReleaseMoves
    <2>3. \A b \in Browsers : Owned(b)' <=> Owned(b)
      BY <1>t, <2>1, <2>2 DEF Owned
    <2>4. NoOrphan'
      BY <1>t, <2>1, <2>3 DEF NoOrphan
    <2>5. FailedNotReused'
      BY <1>t, <2>1, <2>2 DEF FailedNotReused
    <2> QED
      BY <2>4, <2>5
  <1>6. ASSUME NEW c \in Callers, FailAndDiscard(c) \/ UnwindCapture(c)
        PROVE  NoOrphan' /\ FailedNotReused'
    <2>1. /\ doomed[c] = None /\ doomed' = [doomed EXCEPT ![c] = held[c]]
          /\ held' = [held EXCEPT ![c] = None]
          /\ UNCHANGED <<idle, proc, left>>
      BY <1>t, <1>6 DEF FailAndDiscard, UnwindCapture, Discard, Unwind, NothingLeft, None
    <2>2. ~InIdle(held[c]) /\ \A d \in Callers : d # c /\ held[c] # None => held[d] # held[c]
      BY <1>t, IdleNotHeld DEF ExclusiveLease, None
    <2>3. \A b \in Browsers : Owned(b)' <=> Owned(b)
      BY <1>t, <2>1 DEF Owned, InIdle
    <2>4. NoOrphan'
      BY <1>t, <2>1, <2>3 DEF NoOrphan
    <2>5. FailedNotReused'
      BY <1>t, <2>1, <2>2 DEF FailedNotReused, InIdle
    <2> QED
      BY <2>4, <2>5
  <1>7. ASSUME NEW c \in Callers, Drop(c) PROVE NoOrphan' /\ FailedNotReused'
    <2>1. /\ doomed[c] \in Browsers
          /\ proc' = [proc EXCEPT ![doomed[c]] = "none"]
          /\ doomed' = [doomed EXCEPT ![c] = None]
          /\ UNCHANGED <<idle, held, left>>
      BY <1>t, <1>7 DEF Drop, poolVars
    <2>2. \A b \in Browsers : Owned(b)' <=> Owned(b) /\ b # doomed[c]
      BY <1>t, <2>1 DEF Owned, FailedNotReused, InIdle
    <2>3. NoOrphan'
      <3>1. Owned(doomed[c])
        BY DEF Owned
      <3> QED
        BY <1>t, <2>1, <2>2, <3>1 DEF NoOrphan
    <2>4. FailedNotReused'
      BY <1>t, <2>1 DEF FailedNotReused, InIdle
    <2> QED
      BY <2>3, <2>4
  <1>8. ASSUME NEW b \in Browsers, Crash(b) PROVE NoOrphan' /\ FailedNotReused'
    BY <1>t, <1>2, <1>8 DEF Crash, poolVars
  <1>9. CASE UNCHANGED vars
    BY <1>2, <1>9 DEF vars, poolVars
  \* A launch that fails may leave a browser, one that nobody had.
  <1>10. ASSUME NEW c \in Callers, SpawnErr(c) PROVE NoOrphan' /\ FailedNotReused'
    <2>1. UNCHANGED <<idle, held, doomed>>
      BY <1>10 DEF SpawnErr, MakeErr
    <2>2. \A b \in Browsers : Owned(b)' <=> Owned(b)
      BY <2>1 DEF Owned, InIdle
    <2>3. FailedNotReused'
      BY <1>t, <2>1 DEF FailedNotReused, InIdle
    <2>4. CASE UNCHANGED <<proc, left>>
      BY <1>2, <2>1, <2>4
    <2>5. ASSUME NEW b \in Browsers,
                 proc[b] = "none",
                 proc' = [proc EXCEPT ![b] = "up"],
                 left' = left \cup {b}
          PROVE  NoOrphan'
      <3>1. ~Owned(b)
        BY <1>t, <2>5 DEF NoOrphan
      <3> QED
        BY <1>t, <2>2, <2>5, <3>1 DEF NoOrphan
    <2> QED
      BY <1>10, <2>3, <2>4, <2>5 DEF SpawnErr
  <1> QED
    BY <1>1, <1>3, <1>4, <1>5, <1>6, <1>7, <1>8, <1>9, <1>10 DEF Next, Start, Continue

-----------------------------------------------------------------------------

\* BrowserInv holds whatever captures, failures, panics and crashes happen.
THEOREM BrowserInvariant == Spec => []BrowserInv
  <1>1. Init => BrowserInv
    <2> SUFFICES ASSUME Init PROVE BrowserInv
      OBVIOUS
    <2>1. PoolInv
      BY PoolInitInv DEF Init
    <2>2. TypeOK
      BY <2>1, FS_EmptySet, BrowserAssumption DEF Init, TypeOK, PoolInv
    <2>3. \A b \in Browsers : ~Owned(b)
      BY PoolAssumption, EmptySeq DEF Init, PoolInit, Owned, InIdle, Browsers, None
    <2> QED
      BY <2>1, <2>2, <2>3 DEF Init, PoolInit, BrowserInv, NothingLeft, RendersOnLease,
                              NoOrphan, FailedNotReused
  <1>2. BrowserInv /\ [Next]_vars => BrowserInv'
    <2> SUFFICES ASSUME BrowserInv, [Next]_vars PROVE BrowserInv'
      OBVIOUS
    <2>1. PoolInv'
      BY PoolStep, TypeStep, CountStep, ExclusiveStep DEF PoolInv, BrowserInv
    <2>2. TypeOK'
      BY BrowserTypeStep DEF BrowserInv
    <2>3. NothingLeft' /\ RendersOnLease'
      BY StageStep DEF BrowserInv
    <2> QED
      BY <2>1, <2>2, <2>3, OwnerStep DEF BrowserInv
  <1> QED
    BY <1>1, <1>2, PTL DEF Spec

\* There is a process exactly for the browsers that somebody will reuse or
\* kill and for those that a failed launch has left: no failing capture and no
\* panic leaks one, none that was left comes into anybody's hands, and nobody
\* holds a handle to a reaped one.
THEOREM NoOrphanHolds == Spec => []NoOrphan
  <1>1. BrowserInv => NoOrphan
    BY DEF BrowserInv
  <1> QED
    BY <1>1, BrowserInvariant, PTL

\* A browser whose capture failed is leased to nobody until it is killed.
THEOREM FailedNotReusedHolds == Spec => []FailedNotReused
  <1>1. BrowserInv => FailedNotReused
    BY DEF BrowserInv
  <1> QED
    BY <1>1, BrowserInvariant, PTL

-----------------------------------------------------------------------------

\* The values a function takes on a finite set are no more than its members.
LEMMA ImageCount ==
  ASSUME NEW S, IsFiniteSet(S), NEW f
  PROVE  LET T == {f[x] : x \in S}
         IN  /\ IsFiniteSet(T)
             /\ Cardinality(T) \in Nat /\ Cardinality(S) \in Nat
             /\ Cardinality(T) <= Cardinality(S)
  <1> DEFINE T == {f[x] : x \in S}
             g == [x \in S |-> f[x]]
  <1>1. g \in Surjection(S, T)
    BY DEF Surjection
  <1>2. IsFiniteSet(T) /\ Cardinality(T) <= Cardinality(S)
    BY <1>1, FS_Surjection
  <1> QED
    BY <1>2, FS_CardinalityType

\* Together two finite sets have at most as many members as they have apart.
LEMMA UnionCount ==
  ASSUME NEW S, IsFiniteSet(S), NEW T, IsFiniteSet(T)
  PROVE  /\ IsFiniteSet(S \cup T)
         /\ Cardinality(S \cup T) \in Nat
         /\ Cardinality(S \cup T) <= Cardinality(S) + Cardinality(T)
  <1>1. /\ IsFiniteSet(S \cup T)
        /\ Cardinality(S \cup T) =
             Cardinality(S) + Cardinality(T) - Cardinality(S \cap T)
    BY FS_Union
  <1>2. IsFiniteSet(S \cap T)
    BY FS_Subset
  <1>3. /\ Cardinality(S) \in Nat /\ Cardinality(T) \in Nat
        /\ Cardinality(S \cap T) \in Nat /\ Cardinality(S \cup T) \in Nat
    BY <1>1, <1>2, FS_CardinalityType
  <1> QED
    BY <1>1, <1>3

\* Every running browser is idle, leased, about to be dropped or left by a
\* failed launch, and those are counted by the stack, by the leases, by the
\* captures dropping one and by `left`.
LEMMA RunningCount ==
  ASSUME BrowserInv
  PROVE  ProcessBound
  <1> DEFINE stack   == {idle[k] : k \in 1..Len(idle)}
             leases  == {held[c] : c \in Holders}
             dooming == {doomed[c] : c \in Dooming}
  <1>1. PoolTypeOK /\ Len(idle) \in Nat /\ lost \in Nat /\ leased \in Nat
    BY LenProperties DEF BrowserInv, PoolInv, PoolTypeOK
  <1>2. /\ IsFiniteSet(stack) /\ Cardinality(stack) \in Nat
        /\ Cardinality(stack) <= Len(idle)
    <2>1. IsFiniteSet(1..Len(idle)) /\ Cardinality(1..Len(idle)) = Len(idle)
      <3>1. /\ IsFiniteSet(1..Len(idle))
            /\ Cardinality(1..Len(idle)) = IF 1 > Len(idle) THEN 0 ELSE Len(idle) - 1 + 1
        BY <1>1, FS_Interval
      <3> QED
        BY <1>1, <3>1
    <2> QED
      BY <2>1, ImageCount
  <1>3. /\ IsFiniteSet(leases) /\ Cardinality(leases) \in Nat
        /\ Cardinality(leases) <= Cardinality(Holders)
    BY HoldersFinite, ImageCount
  <1>4. /\ IsFiniteSet(dooming) /\ Cardinality(dooming) \in Nat
        /\ Cardinality(Dooming) \in Nat
        /\ Cardinality(dooming) <= Cardinality(Dooming)
    <2>1. Dooming \in SUBSET Callers
      BY DEF Dooming
    <2>2. IsFiniteSet(Dooming)
      BY <2>1, PoolAssumption, FS_Subset
    <2> QED
      BY <2>2, ImageCount
  <1>5. Running \in SUBSET (((stack \cup leases) \cup dooming) \cup left)
    <2> SUFFICES ASSUME NEW b \in Browsers, Owned(b)
                 PROVE  b \in (stack \cup leases) \cup dooming
      BY DEF Running, BrowserInv, NoOrphan
    <2>1. CASE InIdle(b)
      BY <2>1 DEF InIdle
    <2>2. ASSUME NEW c \in Callers, held[c] = b PROVE b \in leases
      BY <1>1, <2>2, PoolAssumption DEF PoolTypeOK, Holders, Browsers
    <2>3. ASSUME NEW c \in Callers, doomed[c] = b PROVE b \in dooming
      BY <2>3, PoolAssumption DEF Dooming, Browsers, None
    <2> QED
      BY <2>1, <2>2, <2>3 DEF Owned
  <1>6. /\ IsFiniteSet(stack \cup leases) /\ Cardinality(stack \cup leases) \in Nat
        /\ Cardinality(stack \cup leases) <= Cardinality(stack) + Cardinality(leases)
    BY <1>2, <1>3, UnionCount
  <1>7. /\ IsFiniteSet((stack \cup leases) \cup dooming)
        /\ Cardinality((stack \cup leases) \cup dooming) \in Nat
        /\ Cardinality((stack \cup leases) \cup dooming)
             <= Cardinality(stack \cup leases) + Cardinality(dooming)
    BY <1>4, <1>6, UnionCount
  <1>8. /\ IsFiniteSet(left) /\ Cardinality(left) \in Nat
        /\ IsFiniteSet(((stack \cup leases) \cup dooming) \cup left)
        /\ Cardinality(((stack \cup leases) \cup dooming) \cup left) \in Nat
        /\ Cardinality(((stack \cup leases) \cup dooming) \cup left)
             <= Cardinality((stack \cup leases) \cup dooming) + Cardinality(left)
    <2>1. IsFiniteSet(left)
      BY DEF BrowserInv, TypeOK
    <2> QED
      BY <1>7, <2>1, UnionCount, FS_CardinalityType
  <1>9. /\ Cardinality(Running) \in Nat
        /\ Cardinality(Running) <= Cardinality(((stack \cup leases) \cup dooming) \cup left)
    BY <1>5, <1>8, FS_Subset, FS_CardinalityType
  <1>10. /\ leased = Cardinality(Holders) + lost
         /\ leased + Len(idle) <= Limit
    BY DEF BrowserInv, PoolInv, LeaseAccounting, Bounded
  <1> HIDE DEF stack, leases, dooming
  <1>11. Cardinality(Running) <= Limit + Cardinality(Dooming) + Cardinality(left)
    <2>1. Cardinality((stack \cup leases) \cup dooming)
            <= Len(idle) + Cardinality(Holders) + Cardinality(Dooming)
      BY <1>1, <1>2, <1>3, <1>4, <1>6, <1>7, HoldersFinite
    <2>2. /\ Len(idle) + Cardinality(Holders) <= Limit
          /\ Cardinality(Holders) \in Nat /\ Limit \in Nat
      BY <1>1, <1>10, HoldersFinite, LimitPositive
    <2> HIDE DEF Limit
    <2> QED
      BY <1>1, <1>4, <1>7, <1>8, <1>9, <2>1, <2>2
  <1> QED
    BY <1>11 DEF ProcessBound

\* However captures and launches fail, there are no more Chromium processes
\* than the capacity, one for each capture that has discarded its browser and
\* has not yet dropped it, and one for each launch that failed with Chromium
\* already running.
THEOREM ProcessBoundHolds == Spec => []ProcessBound
  <1>1. BrowserInv => ProcessBound
    BY RunningCount
  <1> QED
    BY <1>1, BrowserInvariant, PTL

=============================================================================
