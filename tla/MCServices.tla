----------------------------- MODULE MCServices -----------------------------
(***************************************************************************)
(* Parts of the program that do not interact, the capture of the command   *)
(* line among them, share one run: a part is chosen at the start, and only *)
(* its component moves.                                                    *)
(***************************************************************************)
EXTENDS Daemon, Settle, Recurring, Store, Mcp, Pagination, Handles, MCCapture

VARIABLE part

\* Requests of an MCP client: of each kind that the server tells apart.
Message(id, method, params) == [form |-> "message", id |-> id, method |-> method, params |-> params]
Other(form) == [form |-> form, id |-> NoId, method |-> "none", params |-> "none"]
TheLines ==
  { Message(1, "initialize", "none"), Message(2, "tools/call", "good"),
    Message(NoId, "tools/call", "good"), Message(3, "tools/call", "no url"),
    Message(4, "tools/call", "other tool"), Message(5, "other", "none") }
  \cup {Other(f) : f \in {"array", "blank", "not JSON", "not UTF-8"}}

Parts == {"daemon", "settle", "recurring", "store", "mcp", "pagination", "handles", "capture"}

\* The parts that are not chosen stay in one initial state.
Only(p, state) == part = p \/ state

ServicesInit ==
  /\ part \in Parts
  /\ Init /\ StoreInit /\ McpInit /\ HandlesInit
  /\ SettleInit /\ Only("settle", policy.wait_load /\ policy.network_idle /\ events = <<>>)
  /\ RecurringInit /\ Only("recurring", clock = 0)
  /\ PaginationInit /\ Only("pagination", upcoming = Spelled(CHOOSE p \in NextPages : TRUE, TRUE))
  /\ CaptureInit /\ Only("capture", request = Plain)

\* The step of a part leaves the variables of the others as they are.
StepOf(p) ==
  /\ part = p
  /\ IF p = "daemon" THEN Next ELSE UNCHANGED vars
  /\ IF p = "settle" THEN SettleNext ELSE UNCHANGED settleVars
  /\ IF p = "recurring" THEN RecurringNext ELSE UNCHANGED recurringVars
  /\ IF p = "store" THEN StoreNext ELSE UNCHANGED storeVars
  /\ IF p = "mcp" THEN McpNext ELSE UNCHANGED mcpVars
  /\ IF p = "pagination" THEN Turn ELSE UNCHANGED paginationVars
  /\ IF p = "handles" THEN HandlesNext ELSE UNCHANGED handleVars
  /\ IF p = "capture" THEN CaptureNext ELSE UNCHANGED captureVars
  /\ UNCHANGED part

ServicesNext == \E p \in Parts : StepOf(p)

allVars == <<vars, settleVars, recurringVars, storeVars, mcpVars, paginationVars, handleVars,
             captureVars, part>>

\* Threads that can run are run, the clock goes on and captures return.
ServicesSpec ==
  /\ ServicesInit /\ [][ServicesNext]_allVars
  /\ \A c \in Callers : WF_vars(Routes(c))
  /\ WF_recurringVars(part = "recurring" /\ RecurringStep)
  /\ WF_recurringVars(part = "recurring" /\ Tick)
  /\ WF_mcpVars(part = "mcp" /\ McpServe)
  /\ WF_captureVars(part = "capture" /\ CaptureNext)

\* A request, a boundary and a line are dealt with in the end: no client and no
\* capture that hangs keeps the others waiting, and no permit stays out for good.
EveryoneIsServed ==
  HealthAnswers /\ RequestsAnswered /\ PermitsReturn /\ ScheduleReturns /\ ServeEnds

\* A capture that is called ends, whatever fails, and its browser is gone.
CallReturns == part = "capture" => CallEnds

=============================================================================
