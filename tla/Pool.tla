-------------------------------- MODULE Pool --------------------------------
(***************************************************************************)
(* amber-core's Pool<T> (src/crates/amber-core/src/pool.rs) and the        *)
(* callers that lease from it.  Each critical section of the pool's mutex  *)
(* is one action.  The factory `make` runs outside the lock, between the   *)
(* action that reserves a slot and the one that ends the acquisition.      *)
(*                                                                         *)
(* A definition whose name starts with Bug is a seeded defect the model    *)
(* checker must detect; no specification uses it.                          *)
(***************************************************************************)
EXTENDS Integers, Sequences, FiniteSets

CONSTANTS
  Callers,    \* threads that lease from the pool
  Items,      \* resources `make` can create
  Capacity,   \* the argument of Pool::new
  MaxLost,    \* bound on callers that unwind without giving their slot back
  NoItem

ASSUME PoolAssumption ==
  /\ IsFiniteSet(Callers)
  /\ Capacity \in Nat
  /\ MaxLost \in Nat
  /\ NoItem \notin Items

\* The capacity is clamped to at least one.
Limit == IF Capacity < 1 THEN 1 ELSE Capacity

VARIABLES
  idle,    \* Inner.idle: returned resources, a stack whose top is the last
  leased,  \* Inner.leased: the number of slots checked out
  pc,      \* where each caller is: "out", "making" or "using"
  held,    \* the resource each caller has leased
  answer,  \* what the caller's last request has come to
  lost     \* history: slots whose caller unwound without giving them back

poolVars == <<idle, leased, pc, held, answer, lost>>

Answers == {"none", "pending", "leased", "exhausted", "failed"}

InUse == {idle[k] : k \in 1..Len(idle)} \cup {held[c] : c \in Callers}

\* leased.saturating_sub(1)
Decremented == IF leased = 0 THEN 0 ELSE leased - 1

PoolInit ==
  /\ idle = <<>>
  /\ leased = 0
  /\ pc = [c \in Callers |-> "out"]
  /\ held = [c \in Callers |-> NoItem]
  /\ answer = [c \in Callers |-> "none"]
  /\ lost = 0

-----------------------------------------------------------------------------

\* acquire and acquire_with, first branch: an idle resource is leased again.
\* The capacity is not looked at.
Reuse(c) ==
  /\ pc[c] = "out"
  /\ idle # <<>>
  /\ held' = [held EXCEPT ![c] = idle[Len(idle)]]
  /\ idle' = SubSeq(idle, 1, Len(idle) - 1)
  /\ leased' = leased + 1
  /\ pc' = [pc EXCEPT ![c] = "using"]
  /\ answer' = [answer EXCEPT ![c] = "leased"]
  /\ UNCHANGED lost

\* Second branch: nothing idle and every slot out, so the caller gets None.
Exhausted(c) ==
  /\ pc[c] = "out"
  /\ idle = <<>>
  /\ leased >= Limit
  /\ answer' = [answer EXCEPT ![c] = "exhausted"]
  /\ UNCHANGED <<idle, leased, pc, held, lost>>

BugReserve(c) ==   \* off by one: one slot more than the capacity
  /\ pc[c] = "out"
  /\ idle = <<>>
  /\ leased <= Limit
  /\ leased' = leased + 1
  /\ pc' = [pc EXCEPT ![c] = "making"]
  /\ answer' = [answer EXCEPT ![c] = "pending"]
  /\ UNCHANGED <<idle, held, lost>>

\* Third branch: the slot is reserved and the lock released before `make`.
Reserve(c) ==
  /\ pc[c] = "out"
  /\ idle = <<>>
  /\ leased < Limit
  /\ leased' = leased + 1
  /\ pc' = [pc EXCEPT ![c] = "making"]
  /\ answer' = [answer EXCEPT ![c] = "pending"]
  /\ UNCHANGED <<idle, held, lost>>

\* `make` returns a resource nobody else has.
MakeOk(c) ==
  /\ pc[c] = "making"
  /\ \E i \in Items \ InUse : held' = [held EXCEPT ![c] = i]
  /\ pc' = [pc EXCEPT ![c] = "using"]
  /\ answer' = [answer EXCEPT ![c] = "leased"]
  /\ UNCHANGED <<idle, leased, lost>>

BugMakeErr(c) ==   \* the reserved slot is not freed
  /\ pc[c] = "making"
  /\ pc' = [pc EXCEPT ![c] = "out"]
  /\ answer' = [answer EXCEPT ![c] = "failed"]
  /\ UNCHANGED <<idle, leased, held, lost>>

\* `make` fails: acquire_with frees the slot with discard() and propagates.
MakeErr(c) ==
  /\ pc[c] = "making"
  /\ leased' = Decremented
  /\ pc' = [pc EXCEPT ![c] = "out"]
  /\ answer' = [answer EXCEPT ![c] = "failed"]
  /\ UNCHANGED <<idle, held, lost>>

-----------------------------------------------------------------------------

BugRelease(c) ==   \* the resource comes back, its slot does not
  /\ pc[c] = "using"
  /\ idle' = Append(idle, held[c])
  /\ pc' = [pc EXCEPT ![c] = "out"]
  /\ held' = [held EXCEPT ![c] = NoItem]
  /\ UNCHANGED <<leased, answer, lost>>

Release(c) ==
  /\ pc[c] = "using"
  /\ idle' = Append(idle, held[c])
  /\ leased' = Decremented
  /\ pc' = [pc EXCEPT ![c] = "out"]
  /\ held' = [held EXCEPT ![c] = NoItem]
  /\ UNCHANGED <<answer, lost>>

\* The slot is freed and the resource is not returned.
Discard(c) ==
  /\ pc[c] = "using"
  /\ leased' = Decremented
  /\ pc' = [pc EXCEPT ![c] = "out"]
  /\ held' = [held EXCEPT ![c] = NoItem]
  /\ UNCHANGED <<idle, answer, lost>>

\* The caller unwinds out of `make` or of its own work: neither release nor
\* discard runs, for the lease is a plain count and not a guard object.
Unwind(c) ==
  /\ pc[c] # "out"
  /\ lost < MaxLost
  /\ lost' = lost + 1
  /\ pc' = [pc EXCEPT ![c] = "out"]
  /\ held' = [held EXCEPT ![c] = NoItem]
  /\ answer' = [answer EXCEPT ![c] = "failed"]
  /\ UNCHANGED <<idle, leased>>

PoolNext == \E c \in Callers :
  \/ Reuse(c) \/ Exhausted(c) \/ Reserve(c)
  \/ MakeOk(c) \/ MakeErr(c)
  \/ Release(c) \/ Discard(c) \/ Unwind(c)

PoolSpec == PoolInit /\ [][PoolNext]_poolVars

-----------------------------------------------------------------------------

\* Callers whose request the pool has counted.
Holders == {c \in Callers : pc[c] # "out"}

Refused == {c \in Callers : answer[c] = "exhausted"}

PoolTypeOK ==
  /\ idle \in Seq(Items)
  /\ leased \in Nat
  /\ pc \in [Callers -> {"out", "making", "using"}]
  /\ held \in [Callers -> Items \cup {NoItem}]
  /\ answer \in [Callers -> Answers]
  /\ lost \in Nat
  /\ \A c \in Callers :
       /\ pc[c] = "using" <=> held[c] # NoItem
       /\ pc[c] = "making" => answer[c] = "pending"
       /\ pc[c] = "using" => answer[c] = "leased"

\* The counter equals the slots really out, through every interleaving of
\* reservations, failing factories and returns.  Losing a decrement erodes
\* the pool until it refuses everybody; an extra one makes it unbounded.
LeaseAccounting == leased = Cardinality(Holders) + lost

\* The idle resources and the leases together never exceed the capacity.
\* acquire tests the capacity only on the path that creates: reusing an
\* idle resource is safe because of this bound and for no other reason.
Bounded == leased + Len(idle) <= Limit

\* A resource has one owner: no two callers lease the same one, none is
\* idle while it is leased, and none is idle twice.
ExclusiveLease ==
  /\ \A c, d \in Callers :
       c # d /\ held[c] # NoItem => held[c] # held[d]
  /\ \A k \in 1..Len(idle), c \in Callers : idle[k] # held[c]
  /\ \A j, k \in 1..Len(idle) : idle[j] = idle[k] => j = k

\* Together they are kept by every operation, and none of the last three alone:
\* what is leased, idle and lost adds up to the capacity at most, with one owner
\* for each resource.
PoolInv == PoolTypeOK /\ LeaseAccounting /\ Bounded /\ ExclusiveLease

\* The pool keeps the promise of a bounded lease: a caller holds a lease
\* from its reservation on, so `make` running outside the lock cannot
\* overshoot the bound, and nobody is refused while a slot is free.
Lease == INSTANCE BoundedLease WITH
  Clients <- Callers, Bound <- Limit,
  holders <- Holders, refused <- Refused, forfeited <- lost

ImplementsLease == Lease!Spec

=============================================================================
