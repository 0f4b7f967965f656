----------------------------- MODULE PoolProofs -----------------------------
(***************************************************************************)
(* Proofs about Pool, for every number of callers, resources and slots.    *)
(* The inductive invariant is PoolInv: the bound on idle resources plus    *)
(* leases is kept by a release only because a caller that releases is      *)
(* counted in `leased`, which is what LeaseAccounting says.                *)
(***************************************************************************)
EXTENDS Pool, FiniteSetTheorems, SequenceTheorems, TLAPS

\* The clamped capacity is a positive number of slots.
LEMMA LimitPositive == Limit \in Nat /\ Limit >= 1
  BY PoolAssumption DEF Limit

\* Only finitely many callers hold a slot, so they can be counted.
LEMMA HoldersFinite ==
  /\ IsFiniteSet(Holders)
  /\ Cardinality(Holders) \in Nat
  <1>1. Holders \in SUBSET Callers
    BY DEF Holders
  <1>2. IsFiniteSet(Holders)
    BY <1>1, PoolAssumption, FS_Subset
  <1> QED
    BY <1>2, FS_CardinalityType

\* A caller that starts an acquisition adds one holder.
LEMMA HolderJoins ==
  ASSUME PoolTypeOK, NEW c \in Callers, NEW s \in {"making", "using"},
         pc[c] = "out", pc' = [pc EXCEPT ![c] = s]
  PROVE  /\ Holders' = Holders \cup {c}
         /\ c \notin Holders
         /\ Cardinality(Holders') = Cardinality(Holders) + 1
  <1>1. Holders' = Holders \cup {c} /\ c \notin Holders
    BY DEF Holders, PoolTypeOK
  <1> QED
    BY <1>1, HoldersFinite, FS_AddElement

\* A caller that ends one removes one holder, and there was at least one.
LEMMA HolderLeaves ==
  ASSUME PoolTypeOK, NEW c \in Callers,
         pc[c] # "out", pc' = [pc EXCEPT ![c] = "out"]
  PROVE  /\ Holders' = Holders \ {c}
         /\ c \in Holders
         /\ Cardinality(Holders) >= 1
         /\ Cardinality(Holders') = Cardinality(Holders) - 1
  <1>1. Holders' = Holders \ {c} /\ c \in Holders
    BY DEF Holders, PoolTypeOK
  <1>2. Cardinality(Holders') = Cardinality(Holders) - 1
    BY <1>1, HoldersFinite, FS_RemoveElement
  <1>3. Cardinality(Holders) # 0
    BY <1>1, HoldersFinite, FS_EmptySet
  <1> QED
    BY <1>1, <1>2, <1>3, HoldersFinite

\* A caller whose factory succeeded stays a holder.
LEMMA HolderStays ==
  ASSUME PoolTypeOK, NEW c \in Callers,
         pc[c] = "making", pc' = [pc EXCEPT ![c] = "using"]
  PROVE  Holders' = Holders /\ c \in Holders
  BY DEF Holders, PoolTypeOK

\* Popping the stack of idle resources.
LEMMA PopIdle ==
  ASSUME NEW s \in Seq(Items), s # <<>>
  PROVE  LET r == SubSeq(s, 1, Len(s) - 1)
         IN  /\ Len(s) \in Nat /\ Len(s) >= 1
             /\ s[Len(s)] \in Items
             /\ r \in Seq(Items)
             /\ Len(r) = Len(s) - 1
             /\ \A k \in 1..Len(r) : r[k] = s[k]
  <1>1. Len(s) \in Nat /\ Len(s) >= 1
    BY EmptySeq, LenProperties
  <1>2. \A k \in 1..Len(s) : s[k] \in Items
    BY ElementOfSeq
  <1>3. /\ SubSeq(s, 1, Len(s) - 1) \in Seq(Items)
        /\ Len(SubSeq(s, 1, Len(s) - 1)) = Len(s) - 1
        /\ \A k \in 1..(Len(s) - 1) : SubSeq(s, 1, Len(s) - 1)[k] = s[k]
    <2> DEFINE n == Len(s) - 1
    <2>1. n \in Int /\ n >= 0
      BY <1>1
    <2>2. \A k \in 1..n : s[k] \in Items
      BY <1>1, <1>2
    <2> HIDE DEF n
    <2>3. /\ SubSeq(s, 1, n) \in Seq(Items)
          /\ Len(SubSeq(s, 1, n)) = IF 1 <= n THEN n - 1 + 1 ELSE 0
          /\ \A k \in 1..(n - 1 + 1) : SubSeq(s, 1, n)[k] = s[1 + k - 1]
      BY <2>1, <2>2, SubSeqProperties
    <2>4. /\ Len(SubSeq(s, 1, n)) = n
          /\ \A k \in 1..n : SubSeq(s, 1, n)[k] = s[k]
      BY <2>1, <2>3
    <2> QED
      BY <2>3, <2>4 DEF n
  <1> QED
    BY <1>1, <1>2, <1>3

\* The type invariant is inductive on its own.
LEMMA TypeStep ==
  ASSUME PoolTypeOK, [PoolNext]_poolVars
  PROVE  PoolTypeOK'
  <1> USE PoolAssumption DEF PoolTypeOK, Answers, Decremented
  <1>1. ASSUME NEW c \in Callers, Reuse(c) PROVE PoolTypeOK'
    <2>1. idle[Len(idle)] \in Items /\ idle' \in Seq(Items)
      BY <1>1, PopIdle DEF Reuse
    <2> QED
      BY <1>1, <2>1 DEF Reuse
  <1>2. ASSUME NEW c \in Callers, Exhausted(c) PROVE PoolTypeOK'
    BY <1>2 DEF Exhausted
  <1>3. ASSUME NEW c \in Callers, Reserve(c) PROVE PoolTypeOK'
    BY <1>3 DEF Reserve
  <1>4. ASSUME NEW c \in Callers, MakeOk(c) PROVE PoolTypeOK'
    BY <1>4 DEF MakeOk
  <1>5. ASSUME NEW c \in Callers, MakeErr(c) PROVE PoolTypeOK'
    BY <1>5 DEF MakeErr
  <1>6. ASSUME NEW c \in Callers, Release(c) PROVE PoolTypeOK'
    <2>1. Append(idle, held[c]) \in Seq(Items)
      BY <1>6 DEF Release
    <2> QED
      BY <1>6, <2>1 DEF Release
  <1>7. ASSUME NEW c \in Callers, Discard(c) PROVE PoolTypeOK'
    BY <1>7 DEF Discard
  <1>8. ASSUME NEW c \in Callers, Unwind(c) PROVE PoolTypeOK'
    BY <1>8 DEF Unwind
  <1>9. CASE UNCHANGED poolVars
    BY <1>9 DEF poolVars
  <1> QED
    BY <1>1, <1>2, <1>3, <1>4, <1>5, <1>6, <1>7, <1>8, <1>9 DEF PoolNext

\* The counter follows the holders, and the bound follows the counter.
LEMMA CountStep ==
  ASSUME PoolTypeOK, LeaseAccounting, Bounded, [PoolNext]_poolVars
  PROVE  LeaseAccounting' /\ Bounded'
  <1> USE LimitPositive, HoldersFinite DEF PoolTypeOK, LeaseAccounting, Bounded
  <1>1. ASSUME NEW c \in Callers, Reuse(c)
        PROVE  LeaseAccounting' /\ Bounded'
    <2>1. Cardinality(Holders') = Cardinality(Holders) + 1
      BY <1>1, HolderJoins DEF Reuse
    <2>2. Len(idle) \in Nat /\ Len(idle') = Len(idle) - 1
      BY <1>1, PopIdle DEF Reuse
    <2> QED
      BY <1>1, <2>1, <2>2 DEF Reuse
  <1>2. ASSUME NEW c \in Callers, Exhausted(c)
        PROVE  LeaseAccounting' /\ Bounded'
    BY <1>2 DEF Exhausted, Holders
  <1>3. ASSUME NEW c \in Callers, Reserve(c)
        PROVE  LeaseAccounting' /\ Bounded'
    <2>1. Cardinality(Holders') = Cardinality(Holders) + 1
      BY <1>3, HolderJoins DEF Reserve
    <2> QED
      BY <1>3, <2>1 DEF Reserve
  <1>4. ASSUME NEW c \in Callers, MakeOk(c)
        PROVE  LeaseAccounting' /\ Bounded'
    BY <1>4, HolderStays DEF MakeOk
  <1>5. ASSUME NEW c \in Callers, pc[c] # "out",
               pc' = [pc EXCEPT ![c] = "out"], leased' = Decremented,
               lost' = lost, Len(idle') \in {Len(idle), Len(idle) + 1}
        PROVE  LeaseAccounting' /\ Bounded'
    <2>1. /\ Cardinality(Holders) >= 1
          /\ Cardinality(Holders') = Cardinality(Holders) - 1
      BY <1>5, HolderLeaves
    <2>2. leased >= 1 /\ leased' = leased - 1
      BY <1>5, <2>1 DEF Decremented
    <2>3. /\ Len(idle) \in Nat /\ Len(idle') \in Nat
          /\ Len(idle') <= Len(idle) + 1
      BY <1>5, LenProperties
    <2>4. LeaseAccounting'
      <3>1. leased = Cardinality(Holders) + lost
        BY <1>5
      <3>2. leased' = Cardinality(Holders') + lost'
        BY <1>5, <2>1, <2>2, <3>1
      <3> QED
        BY <3>2
    <2>5. Bounded'
      BY <2>2, <2>3
    <2> QED
      BY <2>4, <2>5
  <1>6. ASSUME NEW c \in Callers, MakeErr(c) \/ Discard(c)
        PROVE  LeaseAccounting' /\ Bounded'
    BY <1>5, <1>6 DEF MakeErr, Discard
  <1>7. ASSUME NEW c \in Callers, Release(c)
        PROVE  LeaseAccounting' /\ Bounded'
    <2>1. Len(idle') = Len(idle) + 1
      BY <1>7 DEF Release
    <2> QED
      BY <1>5, <1>7, <2>1 DEF Release
  <1>8. ASSUME NEW c \in Callers, Unwind(c)
        PROVE  LeaseAccounting' /\ Bounded'
    <2>1. /\ Cardinality(Holders) >= 1
          /\ Cardinality(Holders') = Cardinality(Holders) - 1
      BY <1>8, HolderLeaves DEF Unwind
    <2> QED
      BY <1>8, <2>1 DEF Unwind
  <1>9. CASE UNCHANGED poolVars
    BY <1>9 DEF poolVars, Holders
  <1> QED
    BY <1>1, <1>2, <1>3, <1>4, <1>6, <1>7, <1>8, <1>9 DEF PoolNext

\* Leaving: c gives up its resource and the idle stack stays as it is.
LEMMA ExclusiveLeave ==
  ASSUME PoolTypeOK, ExclusiveLease, NEW c \in Callers, idle' = idle,
         held' = [held EXCEPT ![c] = NoItem] \/ held' = held
  PROVE  ExclusiveLease'
  <1>1. \A k \in 1..Len(idle) : idle[k] # NoItem
    BY PoolAssumption, ElementOfSeq DEF PoolTypeOK
  <1> QED
    BY <1>1 DEF PoolTypeOK, ExclusiveLease

\* No interleaving gives a resource a second owner.
LEMMA ExclusiveStep ==
  ASSUME PoolTypeOK, ExclusiveLease, [PoolNext]_poolVars
  PROVE  ExclusiveLease'
  <1>1. ASSUME NEW c \in Callers, Reuse(c) PROVE ExclusiveLease'
    <2>1. /\ Len(idle) \in Nat /\ Len(idle) >= 1
          /\ Len(idle') = Len(idle) - 1
          /\ \A k \in 1..Len(idle') : idle'[k] = idle[k]
      BY <1>1, PopIdle DEF Reuse, PoolTypeOK
    <2>2. held' = [held EXCEPT ![c] = idle[Len(idle)]]
      BY <1>1 DEF Reuse
    <2>3. Len(idle) \in 1..Len(idle) /\ 1..Len(idle') \subseteq 1..Len(idle)
      BY <2>1
    <2>4. \A k \in 1..Len(idle') : idle[k] # idle[Len(idle)]
      BY <2>1, <2>3 DEF ExclusiveLease
    <2>5. \A d \in Callers : d # c => held'[d] = held[d]
      BY <2>2 DEF PoolTypeOK
    <2>6. held'[c] = idle[Len(idle)]
      BY <2>2 DEF PoolTypeOK
    <2>7. \A d, e \in Callers :
            d # e /\ held'[d] # NoItem => held'[d] # held'[e]
      BY <2>3, <2>5, <2>6 DEF ExclusiveLease
    <2>8. \A k \in 1..Len(idle'), d \in Callers : idle'[k] # held'[d]
      BY <2>1, <2>3, <2>4, <2>5, <2>6 DEF ExclusiveLease
    <2>9. \A j, k \in 1..Len(idle') : idle'[j] = idle'[k] => j = k
      BY <2>1, <2>3 DEF ExclusiveLease
    <2> QED
      BY <2>7, <2>8, <2>9 DEF ExclusiveLease
  <1>2. ASSUME NEW c \in Callers, MakeOk(c) PROVE ExclusiveLease'
    <2>1. PICK i \in Items \ InUse : held' = [held EXCEPT ![c] = i]
      BY <1>2 DEF MakeOk
    <2>2. /\ \A d \in Callers : held[d] # i
          /\ \A k \in 1..Len(idle) : idle[k] # i
      BY <2>1 DEF InUse
    <2>3. idle' = idle
      BY <1>2 DEF MakeOk
    <2> QED
      BY <2>1, <2>2, <2>3 DEF ExclusiveLease, PoolTypeOK
  <1>3. ASSUME NEW c \in Callers, Release(c) PROVE ExclusiveLease'
    <2>1. held[c] \in Items /\ held[c] # NoItem
      BY <1>3, PoolAssumption DEF Release, PoolTypeOK
    <2>2. /\ Len(idle) \in Nat /\ Len(idle') = Len(idle) + 1
          /\ \A k \in 1..Len(idle) : idle'[k] = idle[k]
          /\ idle'[Len(idle) + 1] = held[c]
      BY <1>3, <2>1, AppendProperties, LenProperties DEF Release, PoolTypeOK
    <2>3. held' = [held EXCEPT ![c] = NoItem]
      BY <1>3 DEF Release
    <2>4. 1..Len(idle') = 1..Len(idle) \cup {Len(idle) + 1}
      BY <2>2
    <2>5. \A k \in 1..Len(idle) : idle[k] # NoItem /\ idle[k] # held[c]
      BY PoolAssumption, ElementOfSeq DEF PoolTypeOK, ExclusiveLease
    <2>6. \A d \in Callers : held'[d] # held[c]
      BY <2>1, <2>3 DEF ExclusiveLease, PoolTypeOK
    <2>7. \A d \in Callers, k \in 1..Len(idle) : idle[k] # held'[d]
      BY <2>3, <2>5 DEF ExclusiveLease, PoolTypeOK
    <2>8. \A k \in 1..Len(idle'), d \in Callers : idle'[k] # held'[d]
      BY <2>2, <2>4, <2>6, <2>7
    <2>9. \A j, k \in 1..Len(idle') : idle'[j] = idle'[k] => j = k
      BY <2>2, <2>4, <2>5 DEF ExclusiveLease
    <2> QED
      BY <2>3, <2>8, <2>9 DEF ExclusiveLease, PoolTypeOK
  <1>4. ASSUME NEW c \in Callers,
               Exhausted(c) \/ Reserve(c) \/ MakeErr(c) \/ Discard(c) \/ Unwind(c)
        PROVE  ExclusiveLease'
    BY <1>4, ExclusiveLeave DEF Exhausted, Reserve, MakeErr, Discard, Unwind
  <1>5. CASE UNCHANGED poolVars
    BY <1>5 DEF poolVars, ExclusiveLease
  <1> QED
    BY <1>1, <1>2, <1>3, <1>4, <1>5 DEF PoolNext

-----------------------------------------------------------------------------

LEMMA PoolInitInv == PoolInit => PoolInv
  <1> SUFFICES ASSUME PoolInit PROVE PoolInv
    OBVIOUS
  <1>1. PoolTypeOK
    BY PoolAssumption, EmptySeq DEF PoolInit, PoolTypeOK, Answers
  <1>2. Holders = {} /\ Len(idle) = 0
    BY EmptySeq DEF PoolInit, Holders
  <1>3. LeaseAccounting /\ Bounded
    BY <1>2, FS_EmptySet, LimitPositive DEF PoolInit, LeaseAccounting, Bounded
  <1>4. ExclusiveLease
    BY <1>2 DEF PoolInit, ExclusiveLease
  <1> QED
    BY <1>1, <1>3, <1>4 DEF PoolInv

\* PoolInv holds in every reachable state of the pool.
THEOREM PoolInvariant == PoolSpec => []PoolInv
  <1>1. PoolInv /\ [PoolNext]_poolVars => PoolInv'
    BY TypeStep, CountStep, ExclusiveStep DEF PoolInv
  <1> QED
    BY <1>1, PoolInitInv, PTL DEF PoolSpec

\* leased counts exactly the slots that are out (pool.rs, every method).
THEOREM LeaseAccountingHolds == PoolSpec => []LeaseAccounting
  <1>1. PoolInv => LeaseAccounting
    BY DEF PoolInv
  <1> QED
    BY <1>1, PoolInvariant, PTL

\* Idle resources and leases together fit in the capacity.
THEOREM BoundedHolds == PoolSpec => []Bounded
  <1>1. PoolInv => Bounded
    BY DEF PoolInv
  <1> QED
    BY <1>1, PoolInvariant, PTL

\* Each resource has one owner.
THEOREM ExclusiveLeaseHolds == PoolSpec => []ExclusiveLease
  <1>1. PoolInv => ExclusiveLease
    BY DEF PoolInv
  <1> QED
    BY <1>1, PoolInvariant, PTL

-----------------------------------------------------------------------------

\* The abstract Full, unfolded.
LEMMA FullMeans == Lease!Full <=> Cardinality(Holders) + lost >= Limit
  <1>1. Lease!Cardinality(Holders) = Cardinality(Holders)
    BY DEF Lease!Cardinality, Cardinality
  <1> QED
    BY <1>1 DEF Lease!Full

\* Every step of the pool is a step of the bounded lease, or none.
LEMMA LeaseStep ==
  ASSUME PoolInv, [PoolNext]_poolVars
  PROVE  [Lease!Next]_(Lease!leaseVars)
  <1> USE DEF PoolInv, LeaseAccounting, Bounded
  <1>t. PoolTypeOK /\ leased \in Nat /\ lost \in Nat /\ Len(idle) \in Nat
    BY LenProperties DEF PoolTypeOK
  <1>1. ASSUME NEW c \in Callers, Reuse(c) \/ Reserve(c)
        PROVE  Lease!Grant(c)
    <2>1. leased < Limit
      <3>1. CASE Reuse(c)
        <4>1. Len(idle) >= 1
          BY <1>t, <3>1, EmptySeq DEF Reuse, PoolTypeOK
        <4> QED
          BY <1>t, <4>1, LimitPositive
      <3>2. CASE Reserve(c)
        BY <3>2 DEF Reserve
      <3> QED
        BY <1>1, <3>1, <3>2
    <2>2. ~Lease!Full
      BY <1>t, <2>1, FullMeans, HoldersFinite, LimitPositive
    <2>3. Holders' = Holders \cup {c} /\ c \notin Holders
      BY <1>1, <1>t, HolderJoins DEF Reuse, Reserve
    <2>4. Refused' = Refused \ {c}
      BY <1>1, <1>t DEF Reuse, Reserve, Refused, PoolTypeOK
    <2> QED
      BY <1>1, <2>2, <2>3, <2>4 DEF Lease!Grant, Reuse, Reserve
  <1>2. ASSUME NEW c \in Callers, Exhausted(c)
        PROVE  Lease!Refuse(c)
    <2>1. Lease!Full
      BY <1>2, <1>t, FullMeans, HoldersFinite, LimitPositive DEF Exhausted
    <2>2. Holders' = Holders /\ c \notin Holders
      BY <1>2 DEF Exhausted, Holders
    <2>3. Refused' = Refused \cup {c}
      BY <1>2, <1>t DEF Exhausted, Refused, PoolTypeOK
    <2> QED
      BY <1>2, <2>1, <2>2, <2>3 DEF Lease!Refuse, Exhausted
  <1>3. ASSUME NEW c \in Callers, MakeOk(c)
        PROVE  UNCHANGED Lease!leaseVars
    <2>1. Holders' = Holders
      BY <1>3, <1>t, HolderStays DEF MakeOk
    <2>2. Refused' = Refused
      BY <1>3, <1>t DEF MakeOk, Refused, PoolTypeOK
    <2> QED
      BY <1>3, <2>1, <2>2 DEF Lease!leaseVars, MakeOk
  <1>4. ASSUME NEW c \in Callers, MakeErr(c) \/ Release(c) \/ Discard(c)
        PROVE  Lease!Return(c)
    <2>1. Holders' = Holders \ {c} /\ c \in Holders
      BY <1>4, <1>t, HolderLeaves DEF MakeErr, Release, Discard
    <2>2. Refused' = Refused
      BY <1>4, <1>t DEF MakeErr, Release, Discard, Refused, PoolTypeOK
    <2> QED
      BY <1>4, <2>1, <2>2 DEF Lease!Return, MakeErr, Release, Discard
  <1>5. ASSUME NEW c \in Callers, Unwind(c)
        PROVE  Lease!Forfeit(c)
    <2>1. Holders' = Holders \ {c} /\ c \in Holders
      BY <1>5, <1>t, HolderLeaves DEF Unwind
    <2>2. Refused' = Refused
      BY <1>5, <1>t DEF Unwind, Refused, PoolTypeOK
    <2> QED
      BY <1>5, <2>1, <2>2 DEF Lease!Forfeit, Unwind
  <1>6. CASE UNCHANGED poolVars
    BY <1>6 DEF poolVars, Lease!leaseVars, Holders, Refused
  <1> QED
    BY <1>1, <1>2, <1>3, <1>4, <1>5, <1>6 DEF PoolNext, Lease!Next

\* Pool implements the bounded lease: reusing an idle resource without
\* looking at the capacity is a legal grant because of Bounded.
THEOREM PoolImplementsLease == PoolSpec => ImplementsLease
  <1>1. PoolInit => Lease!Init
    BY FS_EmptySet DEF PoolInit, Lease!Init, Holders, Refused
  <1>2. PoolInv /\ [PoolNext]_poolVars => [Lease!Next]_(Lease!leaseVars)
    BY LeaseStep
  <1> QED
    BY <1>1, <1>2, PoolInvariant, PTL DEF PoolSpec, ImplementsLease, Lease!Spec

=============================================================================
