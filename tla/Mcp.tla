-------------------------------- MODULE Mcp --------------------------------
(***************************************************************************)
(* The MCP server (src/crates/amber-core/src/mcp.rs): one line in, at most *)
(* one response out.  The client writes lines, reads responses and closes  *)
(* either end when it likes.                                               *)
(*                                                                         *)
(* A definition whose name starts with Bug is a seeded defect the model    *)
(* checker must detect; no specification uses it.                          *)
(***************************************************************************)
EXTENDS Integers, SequencesExt

CONSTANTS
  Lines,      \* what a line may be: [form, id, method, params]
  NoId,       \* a message without an id, or with the id null
  MaxLines    \* bound on the lines

ASSUME McpAssumption ==
  /\ MaxLines \in Nat
  /\ \A l \in Lines :
       /\ l.form \in {"message", "array", "blank", "not JSON", "not UTF-8"}
       /\ l.params \in {"none", "other tool", "no url", "good"}

VARIABLES
  input,     \* lines the client has written and the server not read
  output,    \* responses written
  server,    \* "reading", "capturing", "ended" or "failed"
  call,      \* the request a capture runs for
  reader,    \* whether the client still reads responses
  closed,    \* whether the client has closed its end
  taken      \* history: the lines read

mcpVars == <<input, output, server, call, reader, closed, taken>>

NoCall == [form |-> "none", id |-> NoId, method |-> "none", params |-> "none"]

McpInit ==
  /\ input = <<>> /\ output = <<>> /\ server = "reading" /\ call = NoCall
  /\ reader = TRUE /\ closed = FALSE /\ taken = <<>>

ClientWrites ==
  /\ ~closed /\ Len(input) + Len(taken) < MaxLines
  /\ \E l \in Lines : input' = Append(input, l)
  /\ UNCHANGED <<output, server, call, reader, closed, taken>>

ClientCloses ==
  /\ ~closed /\ closed' = TRUE
  /\ UNCHANGED <<input, output, server, call, reader, taken>>

ClientStopsReading ==
  /\ reader /\ reader' = FALSE
  /\ UNCHANGED <<input, output, server, call, closed, taken>>

ParseError == -32700
MethodNotFound == -32601
InvalidParams == -32602

\* A response is an id with a result or an error code.
Result(id, failed) == [id |-> id, code |-> 0, failed |-> failed]
RpcError(id, code) == [id |-> id, code |-> code, failed |-> FALSE]
Success(id) == Result(id, FALSE)

\* Writing to a client that is gone ends serve with the error.
Writes(r) ==
  \/ /\ output' = Append(output, r) /\ server' = "reading"
  \/ /\ ~reader /\ server' = "failed" /\ UNCHANGED output

BugIsNotification(l) == l.form = "array"   \* a null id is answered

\* A message without an id: also an array, whose requests are not looked at.
IsNotification(l) == l.form = "array" \/ l.id = NoId

\* tools_call, up to the capture: the first thing missing.
CallError(l) == IF l.params \in {"none", "other tool", "no url"} THEN InvalidParams ELSE 0

Methods == {"initialize", "tools/list", "tools/call"}

\* handle_request, for a request.
Dispatch(l) ==
  \/ /\ l.method \in Methods \ {"tools/call"}
     /\ Writes(Success(l.id)) /\ UNCHANGED call
  \/ /\ l.method = "tools/call" /\ CallError(l) = 0
     /\ server' = "capturing" /\ call' = l /\ UNCHANGED output
  \/ /\ l.method = "tools/call" /\ CallError(l) # 0
     /\ Writes(RpcError(l.id, CallError(l))) /\ UNCHANGED call
  \/ /\ l.method \notin Methods
     /\ Writes(RpcError(l.id, MethodNotFound)) /\ UNCHANGED call

\* serve's handling of one line.
HandleLine(l) ==
  \/ l.form = "not UTF-8" /\ server' = "failed" /\ UNCHANGED <<output, call>>
  \/ l.form = "blank" /\ UNCHANGED <<output, server, call>>
  \/ l.form = "not JSON" /\ Writes(RpcError(NoId, ParseError)) /\ UNCHANGED call
  \/ /\ l.form \in {"message", "array"} /\ IsNotification(l)
     /\ UNCHANGED <<output, server, call>>
  \/ l.form \in {"message", "array"} /\ ~IsNotification(l) /\ Dispatch(l)

Handle ==
  /\ server = "reading" /\ input # <<>>
  /\ input' = Tail(input) /\ taken' = Append(taken, Head(input))
  /\ HandleLine(Head(input))
  /\ UNCHANGED <<reader, closed>>

\* A failed capture is a result too.
CaptureResult(id, failed) == Result(id, failed)

\* The capture returns; an action that does not parse fails it as well.
CaptureReturns ==
  /\ server = "capturing"
  /\ \E failed \in BOOLEAN : Writes(CaptureResult(call.id, failed))
  /\ call' = NoCall
  /\ UNCHANGED <<input, reader, closed, taken>>

EndOfInput ==
  /\ server = "reading" /\ input = <<>> /\ closed
  /\ server' = "ended"
  /\ UNCHANGED <<input, output, call, reader, closed, taken>>

McpServe == Handle \/ CaptureReturns \/ EndOfInput
McpNext == ClientWrites \/ ClientCloses \/ ClientStopsReading \/ McpServe

McpSpec == McpInit /\ [][McpNext]_mcpVars

-----------------------------------------------------------------------------

McpTypeOK ==
  /\ input \in Seq(Lines) /\ taken \in Seq(Lines) /\ call \in Lines \cup {NoCall}
  /\ server \in {"reading", "capturing", "ended", "failed"}
  /\ reader \in BOOLEAN /\ closed \in BOOLEAN
  /\ \A i \in DOMAIN output : output[i].code \in {0, ParseError, MethodNotFound, InvalidParams}

\* What of the lines read has been answered: not the request being captured
\* for, nor the line the server failed at.
Answered ==
  IF server = "capturing" \/ (server = "failed" /\ taken # <<>>) THEN Front(taken) ELSE taken

\* The lines that ask for a response.
Asking == {l \in Lines : l.form = "not JSON" \/ (l.form = "message" /\ l.id # NoId)}

\* The response to line i, if that asks for one, has this position.
Place(i) == Cardinality({j \in 1..i : Answered[j] \in Asking})

\* Each request is answered once, with its id and in its order; notifications
\* are not answered, and a line that is no JSON is, without an id.
AnswersInOrder ==
  /\ Len(output) = Place(Len(Answered))
  /\ \A i \in DOMAIN Answered : Answered[i] \in Asking =>
       output[Place(i)].id = IF Answered[i].form = "message" THEN Answered[i].id ELSE NoId

\* A capture that fails is no protocol error: an error code is for requests
\* that are wrong, and no client error is answered with a result.
CodesAreProtocol ==
  \A i \in DOMAIN Answered : Answered[i] \in Asking =>
    (output[Place(i)].code = 0 <=>
      /\ Answered[i].form = "message"
      /\ Answered[i].method \in Methods
      /\ Answered[i].method = "tools/call" => Answered[i].params = "good")

\* A client can match each response to a line it wrote, and tell its own errors
\* from failing captures.
ResponsesExact == McpTypeOK /\ AnswersInOrder /\ CodesAreProtocol

\* If captures return, serve ends once the client has closed its end.
ServeEnds == closed ~> server \in {"ended", "failed"}

=============================================================================
