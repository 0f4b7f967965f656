------------------------------- MODULE Daemon -------------------------------
(***************************************************************************)
(* The HTTP daemon (src/crates/amber-core/src/daemon.rs): a thread per     *)
(* connection, and a Pool of permits that a capture holds while it runs.   *)
(* The pool's callers are the connections.  A permit is a unit value; its  *)
(* identity only says who has it.  The steps of Pool that a connection     *)
(* takes are those of `acquire` and `release`: the factory `|| ()` cannot  *)
(* fail and nothing is discarded.                                          *)
(*                                                                         *)
(* A definition whose name starts with Bug is a seeded defect the model    *)
(* checker must detect; no specification uses it.                          *)
(***************************************************************************)
EXTENDS Pool

VARIABLES
  at,       \* where each connection is
  req,      \* the request it has parsed
  status    \* the status of its response, 0 while there is none

connVars == <<at, req, status>>
vars == <<poolVars, connVars>>

NoRequest == [path |-> "none", get |-> FALSE, url |-> FALSE]

\* What routing looks at: the path, whether the method is GET, whether the
\* query has a url.
HttpRequests == [path : {"/capture", "/healthz", "other"}, get : BOOLEAN, url : BOOLEAN]

Init ==
  /\ PoolInit
  /\ at = [c \in Callers |-> "closed"]
  /\ req = [c \in Callers |-> NoRequest]
  /\ status = [c \in Callers |-> 0]

Moves(c, l) == at' = [at EXCEPT ![c] = l]
Responds(c, s) == status' = [status EXCEPT ![c] = s] /\ Moves(c, "writing")

-----------------------------------------------------------------------------

\* serve: the listener accepts and a thread is spawned.
Accept(c) ==
  /\ at[c] = "closed"
  /\ Moves(c, "reading")
  /\ req' = [req EXCEPT ![c] = NoRequest]
  /\ status' = [status EXCEPT ![c] = 0]
  /\ UNCHANGED poolVars

\* The stream cannot be cloned, and is dropped.
Dropped(c) ==
  /\ at[c] = "reading"
  /\ Moves(c, "closed")
  /\ UNCHANGED <<poolVars, req, status>>

\* parse_request waits for the client without a timeout.
Parse(c) ==
  /\ at[c] = "reading"
  /\ \E r \in HttpRequests : req' = [req EXCEPT ![c] = r]
  /\ Moves(c, "routing")
  /\ UNCHANGED <<poolVars, status>>

\* An empty or malformed request line, or a client that goes away.
Malformed(c) ==
  /\ at[c] = "reading"
  /\ Responds(c, 400)
  /\ UNCHANGED <<poolVars, req>>

\* pool.acquire: an idle permit, or a new one.
TakePermit(c) ==
  /\ at[c] = "routing" /\ req[c].path = "/capture"
  /\ \/ Reuse(c) /\ Moves(c, "capturing")
     \/ Reserve(c) /\ Moves(c, "routing")
  /\ UNCHANGED <<req, status>>

\* The factory `|| ()`.
NewPermit(c) ==
  /\ at[c] = "routing"
  /\ MakeOk(c)
  /\ Moves(c, "capturing")
  /\ UNCHANGED <<req, status>>

BugBusy(c) ==   \* asks again until a permit is free
  /\ at[c] = "routing" /\ req[c].path = "/capture"
  /\ Exhausted(c)
  /\ UNCHANGED connVars

\* acquire returns None.
Busy(c) ==
  /\ at[c] = "routing" /\ req[c].path = "/capture"
  /\ Exhausted(c)
  /\ Responds(c, 503)
  /\ UNCHANGED req

BugCaptured(c) ==   \* a failed capture returns early and keeps its permit
  /\ at[c] = "capturing"
  /\ \/ req[c].get /\ req[c].url /\ Release(c) /\ Responds(c, 200)
     \/ /\ ~(req[c].get /\ req[c].url)
        /\ Responds(c, 400)
        /\ pc' = [pc EXCEPT ![c] = "out"]
        /\ held' = [held EXCEPT ![c] = NoItem]
        /\ UNCHANGED <<idle, leased, answer, lost>>
  /\ UNCHANGED req

\* handle returns, with the permit held throughout, and the permit goes back:
\* after a capture, or at once if the request was not one.
Captured(c) ==
  /\ at[c] = "capturing"
  /\ Release(c)
  /\ \/ ~req[c].get /\ Responds(c, 405)
     \/ req[c].get /\ ~req[c].url /\ Responds(c, 400)
     \/ req[c].get /\ req[c].url /\ \E s \in {200, 502} : Responds(c, s)
  /\ UNCHANGED req

\* The capture panics: the thread unwinds out of handle_conn.
Panics(c) ==
  /\ at[c] = "capturing" /\ req[c].get /\ req[c].url
  /\ Unwind(c)
  /\ Moves(c, "closed")
  /\ UNCHANGED <<req, status>>

\* The other routes, without a permit.
Handled(c) ==
  /\ at[c] = "routing" /\ req[c].path # "/capture"
  /\ \/ ~req[c].get /\ Responds(c, 405)
     \/ req[c].get /\ Responds(c, IF req[c].path = "/healthz" THEN 200 ELSE 404)
  /\ UNCHANGED <<poolVars, req>>

\* The response is written, or the client is gone; then the stream is dropped.
Written(c) ==
  /\ at[c] = "writing"
  /\ Moves(c, "closed")
  /\ UNCHANGED <<poolVars, req, status>>

\* What a connection's thread does by itself, the capture apart.
Routes(c) == TakePermit(c) \/ NewPermit(c) \/ Busy(c) \/ Handled(c)

Next == \E c \in Callers :
  \/ Accept(c) \/ Dropped(c) \/ Parse(c) \/ Malformed(c)
  \/ Routes(c) \/ Captured(c) \/ Panics(c) \/ Written(c)

Spec == Init /\ [][Next]_vars

\* Threads that can run are run.  Clients owe nothing.
RoutingFair == Spec /\ \A c \in Callers : WF_vars(Routes(c))

-----------------------------------------------------------------------------

Capturing == {c \in Callers : at[c] = "capturing"}

TypeOK ==
  /\ PoolTypeOK
  /\ at \in [Callers -> {"closed", "reading", "routing", "capturing", "writing"}]
  /\ req \in [Callers -> HttpRequests \cup {NoRequest}]
  /\ status \in [Callers -> {0, 200, 400, 404, 405, 502, 503}]
  /\ \A c \in Callers :
       /\ at[c] = "capturing" <=> pc[c] = "using"
       /\ pc[c] = "making" => at[c] = "routing" /\ req[c].path = "/capture"

\* `concurrency` bounds the captures that run, and a permit lost to a panic
\* is one capture less for good.
CapturesBounded == Cardinality(Capturing) + lost <= Limit

\* Nobody is turned away while a permit is free: when a connection answers
\* 503, every permit is with a connection or lost.
BusyMeansFull ==
  [][\A c \in Callers : status[c] # 503 /\ status'[c] = 503 =>
       Cardinality(Holders) + lost >= Limit]_vars

\* The permits are exactly what is out: none too many, and none kept back.
PermitsExact == []CapturesBounded /\ BusyMeansFull

\* /healthz needs no permit: it is answered even if no capture ever ends.
HealthAnswers == \A c \in Callers :
  at[c] = "routing" /\ req[c] = [path |-> "/healthz", get |-> TRUE, url |-> FALSE]
    ~> status[c] = 200

\* Captures end, for what they wait for has a timeout.  This is a premise of
\* what follows and not of HealthAnswers.
CapturesEnd == \A c \in Callers : WF_vars(Captured(c))

\* Every request is answered or has panicked in the end, though clients may
\* stall before they have sent it or while they should read the answer.
RequestsAnswered == CapturesEnd => \A c \in Callers :
  at[c] = "routing" ~> at[c] \in {"writing", "closed"}

\* And not all permits stay out, unless all are lost.
PermitsReturn == CapturesEnd => []<>(leased < Limit \/ lost >= Limit)

=============================================================================
