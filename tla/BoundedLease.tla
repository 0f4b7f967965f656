---------------------------- MODULE BoundedLease ----------------------------
(***************************************************************************)
(* What a bounded pool promises, without saying how: at most Bound leases  *)
(* are out at once, a lease is refused only when that many are out, and a  *)
(* lease whose holder dies without returning it is lost for good.          *)
(***************************************************************************)
EXTENDS Integers, FiniteSets

CONSTANTS
  Clients,   \* who may hold a lease
  Bound      \* how many leases there are

VARIABLES
  holders,   \* clients that hold a lease
  refused,   \* clients whose last request was refused
  forfeited  \* leases whose holder died

leaseVars == <<holders, refused, forfeited>>

Full == Cardinality(holders) + forfeited >= Bound

Init ==
  /\ holders = {}
  /\ refused = {}
  /\ forfeited = 0

Grant(c) ==
  /\ c \notin holders
  /\ ~Full
  /\ holders' = holders \cup {c}
  /\ refused' = refused \ {c}
  /\ UNCHANGED forfeited

Refuse(c) ==
  /\ c \notin holders
  /\ Full
  /\ refused' = refused \cup {c}
  /\ UNCHANGED <<holders, forfeited>>

Return(c) ==
  /\ c \in holders
  /\ holders' = holders \ {c}
  /\ UNCHANGED <<refused, forfeited>>

Forfeit(c) ==
  /\ c \in holders
  /\ holders' = holders \ {c}
  /\ forfeited' = forfeited + 1
  /\ UNCHANGED refused

Next == \E c \in Clients : Grant(c) \/ Refuse(c) \/ Return(c) \/ Forfeit(c)

Spec == Init /\ [][Next]_leaseVars

=============================================================================
