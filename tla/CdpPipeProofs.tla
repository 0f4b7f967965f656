--------------------------- MODULE CdpPipeProofs ---------------------------
(***************************************************************************)
(* Proofs about CdpPipe, for any number of callers, sends and pipe sizes.  *)
(* The heart of the inductive invariant is that an id stands for one send: *)
(* wherever an id is found (in a registration, in a command on its way, at *)
(* the browser, in an answer, at its caller) it names the same call, and   *)
(* no id in use has been handed out for the future.  At the end, what Wire *)
(* says of a stream, whose frames do not depend on how it is cut into      *)
(* reads, and of the command line of a Windows program, which is divided   *)
(* into the arguments it was made of.                                      *)
(***************************************************************************)
EXTENDS CdpPipe, Wire, Induction, SequenceTheorems

Elements(s) == {s[k] : k \in 1..Len(s)}

\* The command an answer answers.
Tag(f) == [id |-> f.id, call |-> f.call]

ReplyTags == {Tag(f) : f \in {g \in Elements(respPipe) : g.kind \in {"result", "protocol"}}}
SendTags  == {[id |-> id[c], call |-> Current(c)] : c \in {d \in Callers : pc[d] \in Sent}}
Tags == pending \cup working \cup Elements(cmdPipe) \cup ReplyTags \cup SendTags

IdsUnique ==
  /\ \A x \in Tags : x.id < nextId
  /\ \A x, y \in Tags : x.id = y.id => x.call = y.call

\* A send in progress has a number.
Begun == \A c \in Callers : pc[c] # "idle" => calls[c] >= 1

\* A message in the channel of a send is for that send, which is registered
\* no longer.
MailOwn == \A c \in Callers : mailbox[c] # None =>
  /\ pc[c] \in Sent
  /\ mailbox[c].call = Current(c)
  /\ \A p \in pending : p.call # Current(c)

\* So it is with the answer in the reader's hand; its send may be over.
HandOwn == reader = "delivering" =>
  /\ inHand \in [to : Calls, answer : Answers]
  /\ inHand.answer.call = inHand.to
  /\ inHand.to[2] <= calls[inHand.to[1]]
  /\ inHand.to = Current(inHand.to[1]) => pc[inHand.to[1]] # "checked"
  /\ \A p \in pending : p.call # inHand.to

CdpInv ==
  /\ TypeOK /\ Begun /\ IdsUnique
  /\ NoLeakedSlot /\ MailOwn /\ HandOwn /\ OwnAnswer

\* A send past its registration has its message, or the reader holds it, or
\* it is still registered; once the reader is gone, a caller that waits has
\* its message.  The latter is where the browser's death is needed: nobody
\* starts to wait after the drain, for the write fails.
Wakeable ==
  /\ \A c \in Callers : pc[c] \in Sent =>
       \/ mailbox[c] # None
       \/ reader = "delivering" /\ inHand.to = Current(c)
       \/ \E p \in pending : p.call = Current(c)
  /\ reader = "done" => \A c \in Callers : pc[c] = "waiting" => mailbox[c] # None
  /\ reader \in {"draining", "done"} => browser = "dead"

-----------------------------------------------------------------------------
\* Sequences.

LEMMA ElementsTail ==
  ASSUME NEW S, NEW s \in Seq(S), s # <<>>
  PROVE  /\ Head(s) \in Elements(s) /\ Head(s) \in S
         /\ Tail(s) \in Seq(S)
         /\ Elements(Tail(s)) \subseteq Elements(s)
  <1>1. /\ Head(s) = s[1] /\ Len(s) \in Nat \ {0}
        /\ Len(Tail(s)) = Len(s) - 1
        /\ \A i \in 1..Len(Tail(s)) : Tail(s)[i] = s[i + 1]
    BY HeadTailProperties, EmptySeq
  <1> QED
    BY <1>1, HeadTailProperties DEF Elements

LEMMA ElementsAppend ==
  ASSUME NEW S, NEW s \in Seq(S), NEW e \in S
  PROVE  /\ Append(s, e) \in Seq(S)
         /\ Elements(Append(s, e)) = Elements(s) \cup {e}
  <1>1. /\ Len(Append(s, e)) = Len(s) + 1 /\ Len(s) \in Nat
        /\ \A i \in 1..Len(s) : Append(s, e)[i] = s[i]
        /\ Append(s, e)[Len(s) + 1] = e
    BY AppendProperties, LenProperties
  <1>2. Elements(Append(s, e)) \subseteq Elements(s) \cup {e}
    BY <1>1 DEF Elements
  <1>3. Elements(s) \cup {e} \subseteq Elements(Append(s, e))
    BY <1>1 DEF Elements
  <1> QED
    BY <1>2, <1>3, AppendProperties

LEMMA ElementsIn ==
  ASSUME NEW S, NEW s \in Seq(S)
  PROVE  Elements(s) \subseteq S
  BY ElementOfSeq DEF Elements

-----------------------------------------------------------------------------
\* Types.

\* A send in progress names a call.
LEMMA CurrentCall ==
  ASSUME TypeOK, Begun, NEW c \in Callers, pc[c] # "idle"
  PROVE  Current(c) \in Calls /\ Closed(Current(c)).call = Current(c)
  BY CdpAssumption DEF TypeOK, Begun, Current, Calls, Closed

\* What a response names, by the kind of its frame.
LEMMA ResponseFrame ==
  ASSUME NEW f \in Frames
  PROVE  /\ f.kind \in {"result", "protocol"} => f \in Replies /\ f.call \in Calls /\ f.id \in Nat
         /\ f \in Replies => f.kind \in {"result", "protocol"}
  BY DEF Frames, Replies, EventFrame, NoiseFrame

LEMMA TypeStep ==
  ASSUME TypeOK, Begun, HandOwn, [Next]_cdpVars
  PROVE  TypeOK' /\ Begun'
  <1> USE CdpAssumption DEF InSend, Sent, callerVars, sharedVars, browserVars, readerVars, eventVars
  <1>1. ASSUME NEW c \in Callers, BeginSend(c) PROVE TypeOK' /\ Begun'
    <2>1. calls'[c] \in 1..MaxCalls /\ Current(c)' \in Calls
      BY <1>1 DEF BeginSend, TypeOK, Current, Calls
    <2>2. calls' = [calls EXCEPT ![c] = calls[c] + 1] /\ calls[c] + 1 \in 0..MaxCalls
      BY <1>1 DEF BeginSend, TypeOK
    <2>3. calls' \in [Callers -> 0..MaxCalls]
      BY <2>2 DEF TypeOK
    <2>4. pc' \in [Callers -> InSend \cup {"idle"}]
      BY <1>1 DEF BeginSend, TypeOK
    <2>5. Closed(Current(c)') \in
            [kind : {"result", "protocol", "closed", "io", "timeout"}, call : Calls]
      BY <2>1 DEF Closed
    <2>6. outcome' \in [Callers ->
            [kind : {"result", "protocol", "closed", "io", "timeout"}, call : Calls] \cup {None}]
      BY <1>1, <2>5 DEF BeginSend, TypeOK
    <2>7. Begun'
      BY <1>1, <2>1 DEF BeginSend, TypeOK, Begun
    <2> QED
      BY <1>1, <2>3, <2>4, <2>6, <2>7 DEF BeginSend, TypeOK
  <1>2. ASSUME NEW c \in Callers, Register(c) PROVE TypeOK' /\ Begun'
    BY <1>2, CurrentCall DEF Register, TypeOK, Begun, Without, Commands
  <1>3. ASSUME NEW c \in Callers, LockWriter(c) PROVE TypeOK' /\ Begun'
    BY <1>3 DEF LockWriter, TypeOK, Begun
  <1>4. ASSUME NEW c \in Callers, WriteOk(c) PROVE TypeOK' /\ Begun'
    <2>1. [id |-> id[c], call |-> Current(c)] \in Commands
      BY <1>4, CurrentCall DEF WriteOk, TypeOK, Commands
    <2>2. cmdPipe' \in Seq(Commands)
      BY <1>4, <2>1, ElementsAppend DEF WriteOk, TypeOK
    <2> QED
      BY <1>4, <2>2 DEF WriteOk, TypeOK, Begun
  <1>5. ASSUME NEW c \in Callers, WriteErr(c) PROVE TypeOK' /\ Begun'
    BY <1>5, CurrentCall DEF WriteErr, Returns, Without, TypeOK, Begun
  <1>6. ASSUME NEW c \in Callers, Receive(c) PROVE TypeOK' /\ Begun'
    <2>1. mailbox[c] \in [kind : {"result", "protocol", "closed", "io", "timeout"}, call : Calls]
      BY <1>6 DEF Receive, TypeOK, Answers, Closed
    <2> QED
      BY <1>6, <2>1 DEF Receive, TypeOK, Begun
  <1>7. ASSUME NEW c \in Callers, Expire(c) PROVE TypeOK' /\ Begun'
    BY <1>7 DEF Expire, TypeOK, Begun
  <1>8. ASSUME NEW c \in Callers, Reclaim(c) PROVE TypeOK' /\ Begun'
    BY <1>8, CurrentCall DEF Reclaim, Returns, Without, TypeOK, Begun
  <1>9. CASE ReadResponse
    <2>1. Head(respPipe) \in Frames /\ respPipe' \in Seq(Frames)
      BY <1>9, ElementsTail DEF ReadResponse, TypeOK
    <2>2. CASE UNCHANGED <<pending, readerVars>>
      BY <1>9, <2>1, <2>2 DEF ReadResponse, TypeOK, Begun
    <2>3. ASSUME NEW p \in pending,
                 pending' = pending \ {p},
                 inHand' = [to |-> p.call, answer |->
                             [kind |-> Head(respPipe).kind, call |-> Head(respPipe).call]],
                 reader' = "delivering"
          PROVE  TypeOK' /\ Begun'
      <3>1. inHand' \in [to : Calls, answer : Answers]
        BY <1>9, <2>1, <2>3, ResponseFrame DEF ReadResponse, TypeOK, Commands, Answers
      <3> QED
        BY <1>9, <2>1, <2>3, <3>1 DEF ReadResponse, TypeOK, Begun
    <2> QED
      BY <1>9, <2>2, <2>3 DEF ReadResponse
  <1>10. CASE Deliver
    BY <1>10 DEF Deliver, TypeOK, Begun, HandOwn
  <1>11. CASE ReadOther
    <2>1. respPipe' \in Seq(Frames)
      BY <1>11, ElementsTail DEF ReadOther, TypeOK
    <2> QED
      BY <1>11, <2>1 DEF ReadOther, TypeOK, Begun
  <1>12. CASE ReaderStops
    BY <1>12 DEF ReaderStops, TypeOK, Begun
  <1>13. CASE Drain
    <2>1. mailbox' \in [Callers -> Answers \cup {Closed(k) : k \in Calls} \cup {None}]
      BY <1>13, CurrentCall DEF Drain, TypeOK
    <2> QED
      BY <1>13, <2>1 DEF Drain, TypeOK, Begun
  <1>14. CASE BrowserReads
    <2>1. Head(cmdPipe) \in Commands /\ cmdPipe' \in Seq(Commands)
      BY <1>14, ElementsTail DEF BrowserReads, TypeOK
    <2> QED
      BY <1>14, <2>1 DEF BrowserReads, TypeOK, Begun
  <1>15. CASE BrowserAnswers
    <2>1. PICK f \in working, kind \in {"result", "protocol"} :
            /\ working' = working \ {f}
            /\ respPipe' = Append(respPipe, [kind |-> kind, id |-> f.id, call |-> f.call])
      BY <1>15 DEF BrowserAnswers
    <2>2. [kind |-> kind, id |-> f.id, call |-> f.call] \in Frames
      BY DEF TypeOK, Commands, Frames, Replies
    <2>3. respPipe' \in Seq(Frames)
      BY <2>1, <2>2, ElementsAppend DEF TypeOK
    <2> QED
      BY <1>15, <2>1, <2>3 DEF BrowserAnswers, TypeOK, Begun
  <1>16. CASE BrowserEmits
    <2>1. respPipe' \in Seq(Frames)
      BY <1>16, ElementsAppend DEF BrowserEmits, TypeOK, Frames
    <2> QED
      BY <1>16, <2>1 DEF BrowserEmits, TypeOK, Begun
  <1>17. CASE BrowserDies
    BY <1>17 DEF BrowserDies, TypeOK, Begun
  <1>18. CASE OwnerStep
    <2>1. CASE DropBegins
      BY <1>18, <2>1 DEF DropBegins, TypeOK, Begun
    <2>2. CASE TakeEvents \/ ConsumeEvent \/ DropReceiver \/ DropEnds
      BY <2>2 DEF TakeEvents, ConsumeEvent, DropReceiver, DropEnds, TypeOK, Begun
    <2> QED
      BY <1>18, <2>1, <2>2 DEF OwnerStep
  <1>19. CASE UNCHANGED cdpVars
    BY <1>19 DEF cdpVars, TypeOK, Begun
  <1> QED
    BY <1>1, <1>2, <1>3, <1>4, <1>5, <1>6, <1>7, <1>8, <1>9, <1>10, <1>11, <1>12,
       <1>13, <1>14, <1>15, <1>16, <1>17, <1>18, <1>19
    DEF Next, SendStep, ReaderStep, BrowserStep

-----------------------------------------------------------------------------
\* Ids.

\* Every tag is the tag of a command.
LEMMA TagsTyped ==
  ASSUME TypeOK, Begun
  PROVE  Tags \subseteq Commands
  <1>1. Elements(cmdPipe) \subseteq Commands /\ Elements(respPipe) \subseteq Frames
    BY ElementsIn DEF TypeOK
  <1>2. ReplyTags \subseteq Commands
    BY <1>1, ResponseFrame DEF ReplyTags, Tag, Commands
  <1>3. SendTags \subseteq Commands
    BY CurrentCall DEF SendTags, Sent, TypeOK, Commands
  <1> QED
    BY <1>1, <1>2, <1>3 DEF Tags, TypeOK

\* A step that moves no send past or out of its registration.
LEMMA SendTagsStay ==
  ASSUME UNCHANGED <<pc, calls, id>>
  PROVE  SendTags' = SendTags
  BY DEF SendTags, Current

\* A send that returns takes its own tag with it, and adds none.
LEMMA SendTagsShrink ==
  ASSUME TypeOK, NEW c \in Callers, UNCHANGED <<calls, id>>,
         NEW s, pc' = [pc EXCEPT ![c] = s],
         s \in Sent => pc[c] \in Sent
  PROVE  SendTags' \subseteq SendTags
  BY DEF SendTags, Current, TypeOK

LEMMA TagsStep ==
  ASSUME TypeOK, Begun, [Next]_cdpVars
  PROVE  \/ Tags' \subseteq Tags /\ nextId' = nextId
         \/ \E c \in Callers :
              /\ Tags' \subseteq Tags \cup {[id |-> nextId, call |-> Current(c)']}
              /\ nextId' = nextId + 1
  <1> DEFINE Same == Tags' \subseteq Tags /\ nextId' = nextId
  <1> USE DEF callerVars, sharedVars, browserVars, readerVars, eventVars
  <1>1. ASSUME NEW c \in Callers, BeginSend(c) PROVE Same
    <2>1. SendTags' \subseteq SendTags
      BY <1>1 DEF BeginSend, SendTags, Current, Sent, TypeOK
    <2> QED
      BY <1>1, <2>1 DEF BeginSend, Tags, ReplyTags
  <1>2. ASSUME NEW c \in Callers, Register(c)
        PROVE  /\ Tags' \subseteq Tags \cup {[id |-> nextId, call |-> Current(c)']}
               /\ nextId' = nextId + 1
    <2>1. SendTags' \subseteq SendTags \cup {[id |-> nextId, call |-> Current(c)']}
      BY <1>2 DEF Register, SendTags, Current, Sent, TypeOK
    <2>2. pending' \subseteq pending \cup {[id |-> nextId, call |-> Current(c)']}
      BY <1>2 DEF Register, Without, Current
    <2> QED
      BY <1>2, <2>1, <2>2 DEF Register, Tags, ReplyTags
  <1>3. ASSUME NEW c \in Callers, LockWriter(c) PROVE Same
    <2>1. SendTags' \subseteq SendTags
      BY <1>3, SendTagsShrink DEF LockWriter, Sent
    <2> QED
      BY <1>3, <2>1 DEF LockWriter, Tags, ReplyTags
  <1>4. ASSUME NEW c \in Callers, WriteOk(c) PROVE Same
    <2>1. SendTags' \subseteq SendTags
      BY <1>4, SendTagsShrink DEF WriteOk, Sent
    <2>2. [id |-> id[c], call |-> Current(c)] \in SendTags \cap Commands
      BY <1>4, CurrentCall DEF WriteOk, SendTags, Sent, TypeOK, Commands
    <2>3. Elements(cmdPipe)' \subseteq Elements(cmdPipe) \cup SendTags
      BY <1>4, <2>2, ElementsAppend DEF WriteOk, TypeOK
    <2> QED
      BY <1>4, <2>1, <2>3 DEF WriteOk, Tags, ReplyTags
  <1>5. ASSUME NEW c \in Callers,
               WriteErr(c) \/ Receive(c) \/ Expire(c) \/ Reclaim(c)
        PROVE Same
    <2>1. SendTags' \subseteq SendTags
      BY <1>5, SendTagsShrink DEF WriteErr, Receive, Expire, Reclaim, Returns, Sent
    <2>2. /\ pending' \subseteq pending
          /\ UNCHANGED <<nextId, browserVars>>
      BY <1>5 DEF WriteErr, Receive, Expire, Reclaim, Without
    <2> QED
      BY <2>1, <2>2 DEF Tags, ReplyTags
  <1>6. CASE ReadResponse \/ ReadOther
    <2>1. /\ pending' \subseteq pending
          /\ UNCHANGED <<callerVars, nextId, working, cmdPipe>>
          /\ respPipe # <<>> /\ respPipe' = Tail(respPipe)
      BY <1>6 DEF ReadResponse, ReadOther
    <2>2. Elements(respPipe') \subseteq Elements(respPipe)
      BY <2>1, ElementsTail DEF TypeOK
    <2>3. ReplyTags' \subseteq ReplyTags
      BY <2>2 DEF ReplyTags, Tag
    <2> QED
      BY <2>1, <2>3, SendTagsStay DEF Tags
  <1>7. CASE Deliver \/ ReaderStops \/ Drain
    <2>1. /\ pending' \subseteq pending
          /\ UNCHANGED <<pc, calls, id, nextId, browserVars>>
      BY <1>7 DEF Deliver, ReaderStops, Drain
    <2> QED
      BY <2>1, SendTagsStay DEF Tags, ReplyTags
  <1>8. CASE BrowserReads
    <2>1. Head(cmdPipe) \in Elements(cmdPipe) /\ Elements(cmdPipe') \subseteq Elements(cmdPipe)
      BY <1>8, ElementsTail DEF BrowserReads, TypeOK
    <2> QED
      BY <1>8, <2>1, SendTagsStay DEF BrowserReads, Tags, ReplyTags
  <1>9. CASE BrowserAnswers
    <2>1. PICK f \in working, kind \in {"result", "protocol"} :
            /\ working' = working \ {f}
            /\ respPipe' = Append(respPipe, [kind |-> kind, id |-> f.id, call |-> f.call])
      BY <1>9 DEF BrowserAnswers
    <2> DEFINE g == [kind |-> kind, id |-> f.id, call |-> f.call]
    <2>2. g \in Frames /\ Tag(g) = f
      BY DEF TypeOK, Commands, Frames, Replies, Tag
    <2>3. Elements(respPipe') = Elements(respPipe) \cup {g}
      BY <2>1, <2>2, ElementsAppend DEF TypeOK
    <2>4. ReplyTags' \subseteq ReplyTags \cup {f}
      BY <2>2, <2>3 DEF ReplyTags, Tag
    <2> QED
      BY <1>9, <2>1, <2>4, SendTagsStay DEF BrowserAnswers, Tags
  <1>10. CASE BrowserEmits
    <2>1. PICK f \in {EventFrame, NoiseFrame} : respPipe' = Append(respPipe, f)
      BY <1>10 DEF BrowserEmits
    <2>2. f \in Frames /\ f.kind \notin {"result", "protocol"}
      BY DEF Frames, EventFrame, NoiseFrame
    <2>3. Elements(respPipe') = Elements(respPipe) \cup {f}
      BY <2>1, <2>2, ElementsAppend DEF TypeOK
    <2>4. ReplyTags' \subseteq ReplyTags
      BY <2>2, <2>3 DEF ReplyTags, Tag
    <2> QED
      BY <1>10, <2>4, SendTagsStay DEF BrowserEmits, Tags
  <1>11. CASE BrowserDies \/ OwnerStep
    <2>1. /\ UNCHANGED <<callerVars, pending, nextId, respPipe>>
          /\ working' \subseteq working
          /\ cmdPipe' = <<>> \/ cmdPipe' = cmdPipe
      BY <1>11 DEF BrowserDies, OwnerStep, TakeEvents, ConsumeEvent, DropReceiver, DropBegins, DropEnds
    <2>2. Elements(<<>>) = {}
      BY EmptySeq DEF Elements
    <2> QED
      BY <2>1, <2>2, SendTagsStay DEF Tags, ReplyTags
  <1>12. CASE UNCHANGED cdpVars
    BY <1>12, SendTagsStay DEF cdpVars, Tags, ReplyTags
  <1> QED
    BY <1>1, <1>2, <1>3, <1>4, <1>5, <1>6, <1>7, <1>8, <1>9, <1>10, <1>11, <1>12
    DEF Next, SendStep, ReaderStep, BrowserStep

LEMMA IdsStep ==
  ASSUME TypeOK, Begun, IdsUnique, [Next]_cdpVars
  PROVE  IdsUnique'
  <1>1. nextId \in Nat /\ \A x \in Tags : x.id \in Nat
    BY TagsTyped DEF TypeOK, Commands
  <1>2. CASE Tags' \subseteq Tags /\ nextId' = nextId
    BY <1>2 DEF IdsUnique
  <1>3. ASSUME NEW c \in Callers,
               Tags' \subseteq Tags \cup {[id |-> nextId, call |-> Current(c)']},
               nextId' = nextId + 1
        PROVE  IdsUnique'
    BY <1>1, <1>3 DEF IdsUnique
  <1> QED
    BY <1>2, <1>3, TagsStep

-----------------------------------------------------------------------------
\* Registrations and messages.

\* A registration is that of a send past its check, under the send's id; two
\* of the same call are one.
LEMMA SlotOwner ==
  ASSUME TypeOK, NoLeakedSlot, NEW p \in pending
  PROVE  /\ p.call[1] \in Callers
         /\ p.call = Current(p.call[1])
         /\ pc[p.call[1]] \in Sent
         /\ id[p.call[1]] = p.id
         /\ \A q \in pending : q.call = p.call => q = p
  <1>1. /\ pending \subseteq Commands
        /\ \A q \in Commands : q = [id |-> q.id, call |-> q.call]
    BY DEF TypeOK, Commands
  <1>2. /\ p.call[1] \in Callers /\ p.call = <<p.call[1], p.call[2]>>
    BY <1>1 DEF Commands, Calls
  <1>3. \A q \in pending : q.call = p.call => q.id = p.id
    BY DEF NoLeakedSlot
  <1> QED
    BY <1>1, <1>2, <1>3 DEF NoLeakedSlot, Listening, InSend, Current

\* Taking an id out of `pending` takes out the send that has it, no other.
LEMMA OnlyOwn ==
  ASSUME TypeOK, NoLeakedSlot, IdsUnique, NEW c \in Callers, pc[c] \in Sent
  PROVE  \A p \in pending : p \in Without(id[c]) <=> p.call # Current(c)
  <1>1. [id |-> id[c], call |-> Current(c)] \in Tags
    BY DEF Tags, SendTags
  <1>2. \A p \in pending : p.id = id[c] => p.call = Current(c)
    BY <1>1 DEF IdsUnique, Tags
  <1>3. \A p \in pending : p.call = Current(c) => p.id = id[c]
    BY SlotOwner DEF Current
  <1> QED
    BY <1>2, <1>3 DEF Without

LEMMA SlotStep ==
  ASSUME CdpInv, [Next]_cdpVars
  PROVE  NoLeakedSlot'
  <1> USE DEF callerVars, sharedVars, browserVars, readerVars, eventVars
  <1> DEFINE Slot(p) == /\ p.call[1] \in Callers
                        /\ p.call = Current(p.call[1])
                        /\ pc[p.call[1]] \in Sent
                        /\ id[p.call[1]] = p.id
  <1>1. \A p \in pending : Slot(p)
    BY SlotOwner DEF CdpInv
  <1>2. SUFFICES \A p \in pending' : Slot(p)'
    BY DEF NoLeakedSlot, Listening, InSend, Sent, Current
  <1>3. ASSUME NEW c \in Callers, BeginSend(c) PROVE \A p \in pending' : Slot(p)'
    BY <1>1, <1>3 DEF BeginSend, CdpInv, TypeOK, Current, Sent
  <1>4. ASSUME NEW c \in Callers, Register(c) PROVE \A p \in pending' : Slot(p)'
    BY <1>1, <1>4 DEF Register, Without, CdpInv, TypeOK, Current, Sent
  <1>5. ASSUME NEW c \in Callers, LockWriter(c) \/ WriteOk(c) \/ Expire(c)
        PROVE  \A p \in pending' : Slot(p)'
    BY <1>1, <1>5 DEF LockWriter, WriteOk, Expire, CdpInv, TypeOK, Current, Sent
  <1>6. ASSUME NEW c \in Callers, WriteErr(c) \/ Reclaim(c) PROVE \A p \in pending' : Slot(p)'
    <2>1. /\ pc[c] \in Sent /\ pending' = Without(id[c])
          /\ UNCHANGED <<calls, id>> /\ pc' = [pc EXCEPT ![c] = "idle"]
      BY <1>6 DEF WriteErr, Reclaim, Returns, Sent
    <2>2. \A p \in pending' : p \in pending /\ p.call # Current(c)
      BY <2>1, OnlyOwn DEF Without, CdpInv
    <2> QED
      BY <1>1, <2>1, <2>2 DEF CdpInv, TypeOK, Current
  <1>7. ASSUME NEW c \in Callers, Receive(c) PROVE \A p \in pending' : Slot(p)'
    <2>1. \A p \in pending : p.call # Current(c)
      BY <1>7 DEF Receive, CdpInv, MailOwn
    <2> QED
      BY <1>1, <1>7, <2>1 DEF Receive, CdpInv, TypeOK, Current
  <1>8. CASE ReaderStep \/ BrowserStep \/ OwnerStep
    <2>1. pending' \subseteq pending /\ UNCHANGED <<pc, calls, id>>
      BY <1>8 DEF ReaderStep, ReadResponse, Deliver, ReadOther, ReaderStops, Drain,
                  BrowserStep, BrowserReads, BrowserAnswers, BrowserEmits, BrowserDies,
                  OwnerStep, TakeEvents, ConsumeEvent, DropReceiver, DropBegins, DropEnds
    <2> QED
      BY <1>1, <2>1 DEF Current
  <1>9. CASE UNCHANGED cdpVars
    BY <1>1, <1>9 DEF cdpVars, Current
  <1> QED
    BY <1>3, <1>4, <1>5, <1>6, <1>7, <1>8, <1>9 DEF Next, SendStep

LEMMA MailStep ==
  ASSUME CdpInv, [Next]_cdpVars
  PROVE  MailOwn'
  <1> USE DEF callerVars, sharedVars, browserVars, readerVars, eventVars, CdpInv, MailOwn
  <1>1. ASSUME NEW c \in Callers, BeginSend(c) PROVE MailOwn'
    BY <1>1 DEF BeginSend, TypeOK, Current, Sent
  <1>2. ASSUME NEW c \in Callers, Register(c) PROVE MailOwn'
    BY <1>2 DEF Register, Without, TypeOK, Current, Sent
  <1>3. ASSUME NEW c \in Callers, LockWriter(c) \/ WriteOk(c) \/ Expire(c) PROVE MailOwn'
    <2>1. /\ UNCHANGED <<calls, mailbox, pending>>
          /\ \E s \in Sent : pc' = [pc EXCEPT ![c] = s]
      BY <1>3 DEF LockWriter, WriteOk, Expire, Sent
    <2> QED
      BY <2>1 DEF TypeOK, Current
  <1>4. ASSUME NEW c \in Callers, WriteErr(c) \/ Receive(c) \/ Reclaim(c) PROVE MailOwn'
    <2>1. /\ UNCHANGED calls /\ pending' \subseteq pending
          /\ mailbox' = [mailbox EXCEPT ![c] = None]
          /\ pc' = [pc EXCEPT ![c] = "idle"]
      BY <1>4 DEF WriteErr, Receive, Reclaim, Returns, Without
    <2> QED
      BY <2>1 DEF TypeOK, Current
  <1>5. CASE Deliver
    <2>1. CASE ~Listening(inHand.to)
      BY <1>5, <2>1 DEF Deliver, Current
    <2>2. CASE Listening(inHand.to)
      <3> DEFINE d == inHand.to[1]
      <3>1. d \in Callers /\ inHand.to = Current(d) /\ pc[d] \in Sent
        BY <1>5, <2>2 DEF Deliver, HandOwn, Listening, InSend, Calls, Current
      <3>2. mailbox' = [mailbox EXCEPT ![d] = inHand.answer]
            /\ UNCHANGED <<pc, calls, pending>>
        BY <1>5, <2>2 DEF Deliver
      <3>3. inHand.answer.call = Current(d) /\ \A p \in pending : p.call # Current(d)
        BY <1>5, <3>1 DEF Deliver, HandOwn
      <3> QED
        BY <3>1, <3>2, <3>3 DEF TypeOK, Current
    <2> QED
      BY <2>1, <2>2
  <1>6. CASE Drain
    <2>1. \A c \in Callers : (\E p \in pending : p.call = Current(c)) => pc[c] \in Sent
      BY SlotOwner DEF Current
    <2> QED
      BY <1>6, <2>1 DEF Drain, Closed, Current
  <1>7. CASE ReadResponse \/ ReadOther \/ ReaderStops \/ BrowserStep \/ OwnerStep
    <2>1. pending' \subseteq pending /\ UNCHANGED <<pc, calls, mailbox>>
      BY <1>7 DEF ReadResponse, ReadOther, ReaderStops,
                  BrowserStep, BrowserReads, BrowserAnswers, BrowserEmits, BrowserDies,
                  OwnerStep, TakeEvents, ConsumeEvent, DropReceiver, DropBegins, DropEnds
    <2> QED
      BY <2>1 DEF Current
  <1>8. CASE UNCHANGED cdpVars
    BY <1>8 DEF cdpVars, Current
  <1> QED
    BY <1>1, <1>2, <1>3, <1>4, <1>5, <1>6, <1>7, <1>8 DEF Next, SendStep, ReaderStep

LEMMA HandStep ==
  ASSUME CdpInv, [Next]_cdpVars
  PROVE  HandOwn'
  <1> USE DEF callerVars, sharedVars, browserVars, readerVars, eventVars, CdpInv
  <1>1. ASSUME NEW c \in Callers, BeginSend(c) PROVE HandOwn'
    <2>1. /\ UNCHANGED <<reader, inHand, pending>>
          /\ calls' = [calls EXCEPT ![c] = calls[c] + 1]
          /\ \A d \in Callers : d # c => pc'[d] = pc[d]
      BY <1>1 DEF BeginSend, TypeOK
    <2>2. calls \in [Callers -> Nat]
      BY CdpAssumption DEF TypeOK
    <2>3. SUFFICES ASSUME reader = "delivering" PROVE HandOwn'
      BY <2>1 DEF HandOwn
    <2>4. inHand.to[1] \in Callers /\ inHand.to[2] \in Nat
      BY <2>3 DEF HandOwn, Calls
    <2>5. inHand.to[2] <= calls'[inHand.to[1]]
      BY <2>1, <2>2, <2>3, <2>4 DEF HandOwn
    <2>6. inHand.to = Current(inHand.to[1])' => pc'[inHand.to[1]] # "checked"
      BY <2>1, <2>2, <2>3, <2>4 DEF HandOwn, Current
    <2> QED
      BY <2>1, <2>3, <2>5, <2>6 DEF HandOwn, Current
  <1>2. ASSUME NEW c \in Callers, Register(c) PROVE HandOwn'
    BY <1>2 DEF Register, Without, HandOwn, TypeOK, Current
  <1>3. ASSUME NEW c \in Callers, SendStep(c), ~Register(c) PROVE HandOwn'
    <2>1. /\ UNCHANGED <<calls, reader, inHand>> /\ pending' \subseteq pending
          /\ \E s \in Sent \cup {"idle"} : pc' = [pc EXCEPT ![c] = s]
      BY <1>3 DEF SendStep, LockWriter, WriteOk, WriteErr, Receive, Expire, Reclaim,
                  Returns, Without, Sent
    <2> QED
      BY <2>1 DEF HandOwn, TypeOK, Current, Sent
  <1>4. CASE ReadResponse
    <2> DEFINE f == Head(respPipe)
    <2>1. f \in Elements(respPipe) /\ f \in Frames
      BY <1>4, ElementsTail DEF ReadResponse, TypeOK
    <2>2. CASE UNCHANGED <<pending, readerVars>>
      BY <1>4, <2>2 DEF ReadResponse, HandOwn, Current
    <2>3. ASSUME NEW p \in pending, p.id = f.id, pending' = pending \ {p},
                 inHand' = [to |-> p.call, answer |-> [kind |-> f.kind, call |-> f.call]]
          PROVE  HandOwn'
      <3>1. f.kind \in {"result", "protocol"} /\ UNCHANGED <<pc, calls>>
        BY <1>4 DEF ReadResponse
      <3>2. Tag(f) \in Tags /\ p \in Tags
        BY <2>1, <3>1 DEF Tags, ReplyTags
      <3>3. f.call = p.call /\ p.call \in Calls
        BY <2>3, <3>2 DEF IdsUnique, Tag, TypeOK, Commands
      <3>4. /\ p.call = Current(p.call[1]) /\ pc[p.call[1]] \in Sent
            /\ p.call[1] \in Callers
            /\ \A q \in pending' : q.call # p.call
        BY <2>3, SlotOwner
      <3>5. inHand' \in [to : Calls, answer : Answers]
        BY <2>3, <3>1, <3>3 DEF Answers
      <3>6. p.call[2] <= calls[p.call[1]]
        BY <3>4, CdpAssumption DEF Current, TypeOK
      <3> QED
        BY <2>3, <3>1, <3>3, <3>4, <3>5, <3>6 DEF HandOwn, Sent
    <2> QED
      BY <1>4, <2>2, <2>3 DEF ReadResponse
  <1>5. CASE Deliver \/ ReaderStops \/ Drain
    BY <1>5 DEF Deliver, ReaderStops, Drain, HandOwn
  <1>6. CASE ReadOther \/ BrowserStep \/ OwnerStep
    <2>1. UNCHANGED <<pc, calls, pending, reader, inHand>>
      BY <1>6 DEF ReadOther, BrowserStep, BrowserReads, BrowserAnswers, BrowserEmits, BrowserDies,
                  OwnerStep, TakeEvents, ConsumeEvent, DropReceiver, DropBegins, DropEnds
    <2> QED
      BY <2>1 DEF HandOwn, Current
  <1>7. CASE UNCHANGED cdpVars
    BY <1>7 DEF cdpVars, HandOwn, Current
  <1> QED
    BY <1>1, <1>2, <1>3, <1>4, <1>5, <1>6, <1>7 DEF Next, ReaderStep

LEMMA AnswerStep ==
  ASSUME CdpInv, [Next]_cdpVars
  PROVE  OwnAnswer'
  <1> USE DEF callerVars, sharedVars, browserVars, readerVars, eventVars, CdpInv, OwnAnswer
  <1>1. ASSUME NEW c \in Callers, BeginSend(c) PROVE OwnAnswer'
    BY <1>1 DEF BeginSend, Closed, TypeOK, Current
  <1>2. ASSUME NEW c \in Callers, Register(c) \/ LockWriter(c) \/ WriteOk(c) \/ Expire(c)
        PROVE  OwnAnswer'
    <2>1. /\ UNCHANGED <<calls, outcome>>
          /\ \E s \in Sent : pc' = [pc EXCEPT ![c] = s]
      BY <1>2 DEF Register, LockWriter, WriteOk, Expire, Sent
    <2> QED
      BY <2>1 DEF TypeOK, Current, Sent
  <1>3. ASSUME NEW c \in Callers, WriteErr(c) \/ Reclaim(c) PROVE OwnAnswer'
    <2>1. /\ UNCHANGED calls /\ pc' = [pc EXCEPT ![c] = "idle"]
          /\ \E k : outcome' = [outcome EXCEPT ![c] = [kind |-> k, call |-> Current(c)]]
      BY <1>3 DEF WriteErr, Reclaim, Returns
    <2> QED
      BY <2>1 DEF TypeOK, Current
  <1>4. ASSUME NEW c \in Callers, Receive(c) PROVE OwnAnswer'
    <2>1. mailbox[c].call = Current(c)
      BY <1>4 DEF Receive, MailOwn
    <2> QED
      BY <1>4, <2>1 DEF Receive, TypeOK, Current
  <1>5. CASE ReaderStep \/ BrowserStep \/ OwnerStep
    <2>1. UNCHANGED <<pc, calls, outcome>>
      BY <1>5 DEF ReaderStep, ReadResponse, Deliver, ReadOther, ReaderStops, Drain,
                  BrowserStep, BrowserReads, BrowserAnswers, BrowserEmits, BrowserDies,
                  OwnerStep, TakeEvents, ConsumeEvent, DropReceiver, DropBegins, DropEnds
    <2> QED
      BY <2>1 DEF Current
  <1>6. CASE UNCHANGED cdpVars
    BY <1>6 DEF cdpVars, Current
  <1> QED
    BY <1>1, <1>2, <1>3, <1>4, <1>5, <1>6 DEF Next, SendStep

-----------------------------------------------------------------------------

LEMMA CdpInit ==
  ASSUME Init
  PROVE  CdpInv
  <1>1. TypeOK
    <2>1. <<>> \in Seq(Commands) /\ <<>> \in Seq(Frames) /\ 0 \in 0..MaxCalls
      BY CdpAssumption
    <2>2. /\ pc \in [Callers -> InSend \cup {"idle"}]
          /\ calls \in [Callers -> 0..MaxCalls]
          /\ id \in [Callers -> Nat]
      BY <2>1 DEF Init
    <2>3. mailbox \in [Callers -> Answers \cup {Closed(k) : k \in Calls} \cup {None}]
      BY DEF Init
    <2>4. outcome \in [Callers ->
            [kind : {"result", "protocol", "closed", "io", "timeout"}, call : Calls] \cup {None}]
      BY DEF Init
    <2>5. /\ nextId \in Nat \ {0} /\ pending \in SUBSET Commands
          /\ writer \in Callers \cup {None} /\ working \in SUBSET Commands
          /\ cmdPipe \in Seq(Commands) /\ respPipe \in Seq(Frames)
      BY <2>1 DEF Init, FirstId
    <2>6. closed \in BOOLEAN
      BY DEF Init
    <2> QED
      BY <2>2, <2>3, <2>4, <2>5, <2>6 DEF Init, TypeOK
  <1>2. Begun
    BY DEF Init, Begun
  <1>3. Tags = {}
    <2>1. Elements(<<>>) = {}
      BY EmptySeq DEF Elements
    <2> QED
      BY <2>1 DEF Init, Tags, ReplyTags, SendTags, Sent
  <1> QED
    BY <1>1, <1>2, <1>3 DEF Init, CdpInv, IdsUnique, NoLeakedSlot, MailOwn, HandOwn, OwnAnswer

\* The invariant holds of every run, whatever the browser does.
THEOREM CdpInvariant == Spec => []CdpInv
  <1>1. Init => CdpInv
    BY CdpInit
  <1>2. CdpInv /\ [Next]_cdpVars => CdpInv'
    <2> SUFFICES ASSUME CdpInv, [Next]_cdpVars PROVE CdpInv'
      OBVIOUS
    <2>1. TypeOK' /\ Begun' /\ IdsUnique'
      BY TypeStep, IdsStep DEF CdpInv
    <2> QED
      BY <2>1, SlotStep, MailStep, HandStep, AnswerStep DEF CdpInv
  <1> QED
    BY <1>1, <1>2, PTL DEF Spec

\* A send that returns an answer returns the answer to its own command,
\* though answers come in any order and after their timeouts (dispatch_frame).
THEOREM OwnAnswerHolds == Spec => []OwnAnswer
  <1>1. CdpInv => OwnAnswer
    BY DEF CdpInv
  <1> QED
    BY <1>1, CdpInvariant, PTL

\* No way out of send_to leaves its id behind in `pending`.
THEOREM NoLeakedSlotHolds == Spec => []NoLeakedSlot
  <1>1. CdpInv => NoLeakedSlot
    BY DEF CdpInv
  <1> QED
    BY <1>1, CdpInvariant, PTL

-----------------------------------------------------------------------------
\* Waiting callers.

LEMMA WakeStep ==
  ASSUME CdpInv, Wakeable, ~ReadErrors, [Next]_cdpVars
  PROVE  Wakeable'
  <1> USE DEF callerVars, sharedVars, browserVars, readerVars, eventVars
  <1> DEFINE Reached(c) == \/ mailbox[c] # None
                           \/ reader = "delivering" /\ inHand.to = Current(c)
                           \/ \E p \in pending : p.call = Current(c)
  <1>1. reader' \in {"draining", "done"} => browser' = "dead"
    <2>1. ASSUME NEW c \in Callers, BeginSend(c) \/ SendStep(c) PROVE UNCHANGED <<reader, browser>>
      BY <2>1 DEF BeginSend, SendStep, Register, LockWriter, WriteOk, WriteErr, Receive, Expire, Reclaim
    <2>2. CASE ReaderStep
      BY <2>2 DEF ReaderStep, ReadResponse, Deliver, ReadOther, ReaderStops, Drain, Wakeable
    <2>3. CASE BrowserStep \/ OwnerStep \/ UNCHANGED cdpVars
      BY <2>3 DEF BrowserStep, BrowserReads, BrowserAnswers, BrowserEmits, BrowserDies,
                  OwnerStep, TakeEvents, ConsumeEvent, DropReceiver, DropBegins, DropEnds,
                  cdpVars, Wakeable
    <2> QED
      BY <2>1, <2>2, <2>3 DEF Next, Wakeable
  <1>2. \A c \in Callers : pc'[c] \in Sent => Reached(c)'
    <2>1. ASSUME NEW d \in Callers, BeginSend(d) PROVE \A c \in Callers : pc'[c] \in Sent => Reached(c)'
      BY <2>1 DEF BeginSend, Wakeable, CdpInv, TypeOK, Current, Sent
    <2>2. ASSUME NEW d \in Callers, Register(d) PROVE \A c \in Callers : pc'[c] \in Sent => Reached(c)'
      <3> DEFINE r == [id |-> nextId, call |-> Current(d)]
      <3>1. /\ pc' = [pc EXCEPT ![d] = "registered"]
            /\ UNCHANGED <<calls, mailbox, reader, inHand>>
            /\ r \in pending'
        BY <2>2 DEF Register
      <3>2. \A p \in pending : p \in pending'
        <4>1. \A p \in pending : p.id < nextId
          BY DEF CdpInv, IdsUnique, Tags
        <4>2. nextId \in Nat
          BY DEF CdpInv, TypeOK
        <4> QED
          BY <2>2, <4>1, <4>2 DEF Register, Without
      <3>3. Reached(d)'
        BY <3>1 DEF Current
      <3> QED
        BY <3>1, <3>2, <3>3 DEF Wakeable, CdpInv, TypeOK, Current
    <2>3. ASSUME NEW d \in Callers, LockWriter(d) \/ WriteOk(d) \/ Expire(d)
          PROVE \A c \in Callers : pc'[c] \in Sent => Reached(c)'
      <3>1. /\ UNCHANGED <<calls, mailbox, reader, inHand, pending>>
            /\ pc[d] \in Sent /\ \E s \in Sent : pc' = [pc EXCEPT ![d] = s]
        BY <2>3 DEF LockWriter, WriteOk, Expire, Sent
      <3> QED
        BY <3>1 DEF Wakeable, CdpInv, TypeOK, Current
    <2>4. ASSUME NEW d \in Callers, WriteErr(d) \/ Receive(d) \/ Reclaim(d)
          PROVE \A c \in Callers : pc'[c] \in Sent => Reached(c)'
      <3>1. /\ UNCHANGED <<calls, reader, inHand>>
            /\ mailbox' = [mailbox EXCEPT ![d] = None]
            /\ pc[d] \in Sent /\ pc' = [pc EXCEPT ![d] = "idle"]
            /\ pending' = Without(id[d]) \/ pending' = pending
        BY <2>4 DEF WriteErr, Receive, Reclaim, Returns, Sent
      <3>2. \A p \in pending : p.call # Current(d) => p \in pending'
        BY <3>1, OnlyOwn DEF CdpInv
      <3>3. \A c \in Callers : c # d => Current(c) # Current(d)
        BY DEF Current
      <3> QED
        BY <3>1, <3>2, <3>3 DEF Wakeable, CdpInv, TypeOK, Current, Sent
    <2>5. CASE ReadResponse
      <3>1. UNCHANGED <<pc, calls, mailbox>> /\ reader = "reading"
        BY <2>5 DEF ReadResponse
      <3>2. ASSUME NEW p \in pending, pending' = pending \ {p},
                   inHand'.to = p.call, reader' = "delivering"
            PROVE  \A c \in Callers : pc'[c] \in Sent => Reached(c)'
        BY <3>1, <3>2 DEF Wakeable, Current
      <3>3. CASE UNCHANGED <<pending, reader, inHand>>
        BY <3>1, <3>3 DEF Wakeable, Current
      <3> QED
        BY <2>5, <3>2, <3>3 DEF ReadResponse
    <2>6. CASE Deliver
      <3>1. ASSUME NEW c \in Callers, pc[c] \in Sent, inHand.to = Current(c)
            PROVE  mailbox'[c] # None
        <4>1. Listening(inHand.to) /\ inHand.to[1] = c
          BY <3>1 DEF Listening, Current, InSend
        <4>2. inHand.answer \in Answers
          BY <2>6 DEF Deliver, CdpInv, HandOwn
        <4>3. inHand.answer # None
          <5>1. Current(c) \in Calls
            BY <3>1, CurrentCall DEF CdpInv, Sent
          <5> QED
            BY <4>2, <5>1, NoMessageAssumption
        <4> QED
          BY <2>6, <4>1, <4>3 DEF Deliver, CdpInv, TypeOK
      <3>2. ASSUME NEW c \in Callers, mailbox[c] # None PROVE mailbox'[c] # None
        <4>1. pc[c] \in Sent
          BY <3>2 DEF CdpInv, MailOwn
        <4> QED
          BY <2>6, <3>1, <3>2, <4>1 DEF Deliver, CdpInv, TypeOK, HandOwn, Listening, Current, Calls
      <3>3. UNCHANGED <<pc, calls, pending>>
        BY <2>6 DEF Deliver
      <3> QED
        BY <2>6, <3>1, <3>2, <3>3 DEF Deliver, Wakeable, Current
    <2>7. CASE Drain
      <3>1. UNCHANGED <<pc, calls>> /\ reader = "draining"
        BY <2>7 DEF Drain
      <3>2. ASSUME NEW c \in Callers, pc[c] \in Sent PROVE mailbox'[c] # None
        <4>1. Closed(Current(c)) # None
          BY <3>2, CurrentCall, NoMessageAssumption DEF CdpInv, Sent
        <4>2. mailbox[c] # None \/ \E p \in pending : p.call = Current(c)
          BY <3>1, <3>2 DEF Wakeable
        <4> QED
          BY <2>7, <3>2, <4>1, <4>2 DEF Drain, InSend
      <3> QED
        BY <3>1, <3>2 DEF Current
    <2>8. CASE ReadOther \/ ReaderStops \/ BrowserStep \/ OwnerStep \/ UNCHANGED cdpVars
      <3>1. /\ UNCHANGED <<pc, calls, mailbox, pending, inHand>>
            /\ reader = "delivering" => reader' = "delivering"
        BY <2>8 DEF ReadOther, ReaderStops, cdpVars,
                  BrowserStep, BrowserReads, BrowserAnswers, BrowserEmits, BrowserDies,
                  OwnerStep, TakeEvents, ConsumeEvent, DropReceiver, DropBegins, DropEnds
      <3> QED
        BY <3>1 DEF Wakeable, Current
    <2> QED
      BY <2>1, <2>2, <2>3, <2>4, <2>5, <2>6, <2>7, <2>8 DEF Next, SendStep, ReaderStep
  <1>3. reader' = "done" => \A c \in Callers : pc'[c] = "waiting" => mailbox'[c] # None
    <2>1. ASSUME NEW d \in Callers, BeginSend(d) \/ SendStep(d), reader = "done"
          PROVE  \A c \in Callers : pc'[c] = "waiting" => mailbox'[c] # None
      <3>1. ~WriteOk(d)
        BY <2>1 DEF WriteOk, Wakeable
      <3>2. \A c \in Callers : pc'[c] = "waiting" => pc[c] = "waiting" /\ mailbox'[c] = mailbox[c]
        BY <2>1, <3>1 DEF BeginSend, SendStep, Register, LockWriter, WriteErr, Receive, Expire,
                          Reclaim, Returns, CdpInv, TypeOK
      <3> QED
        BY <2>1, <3>2 DEF Wakeable
    <2>2. CASE Drain
      <3>1. ASSUME NEW c \in Callers, pc[c] \in Sent PROVE mailbox'[c] # None
        <4>1. Closed(Current(c)) # None
          BY <3>1, CurrentCall, NoMessageAssumption DEF CdpInv, Sent
        <4>2. mailbox[c] # None \/ \E p \in pending : p.call = Current(c)
          BY <2>2, <3>1 DEF Drain, Wakeable
        <4> QED
          BY <2>2, <3>1, <4>1, <4>2 DEF Drain, InSend
      <3> QED
        BY <2>2, <3>1 DEF Drain, Sent
    <2>3. CASE ReadResponse \/ Deliver \/ ReadOther \/ ReaderStops
      BY <2>3 DEF ReadResponse, Deliver, ReadOther, ReaderStops
    <2>4. CASE BrowserStep \/ OwnerStep \/ UNCHANGED cdpVars
      <3>1. UNCHANGED <<pc, mailbox, reader>>
        BY <2>4 DEF BrowserStep, BrowserReads, BrowserAnswers, BrowserEmits, BrowserDies, cdpVars,
                  OwnerStep, TakeEvents, ConsumeEvent, DropReceiver, DropBegins, DropEnds
      <3> QED
        BY <3>1 DEF Wakeable
    <2>5. ASSUME NEW d \in Callers, BeginSend(d) \/ SendStep(d) PROVE reader' = reader
      BY <2>5 DEF BeginSend, SendStep, Register, LockWriter, WriteOk, WriteErr, Receive, Expire, Reclaim
    <2> QED
      BY <2>1, <2>2, <2>3, <2>4, <2>5 DEF Next, ReaderStep
  <1> QED
    BY <1>1, <1>2, <1>3 DEF Wakeable

\* If fd 4 only fails with its browser, a waiting caller can always be woken
\* otherwise than by its timeout.  The premise is needed: with a read error
\* while the browser lives, ClosedReachesEveryCaller and this fail alike.
THEOREM WaiterReachableHolds == ~ReadErrors => (Spec => []WaiterReachable)
  <1> SUFFICES ASSUME ~ReadErrors PROVE Spec => []WaiterReachable
    OBVIOUS
  <1>1. Init => Wakeable
    BY DEF Init, Wakeable, Sent
  <1>2. CdpInv /\ Wakeable /\ [Next]_cdpVars => Wakeable'
    BY WakeStep
  <1>3. Wakeable => WaiterReachable
    BY DEF Wakeable, WaiterReachable, Sent
  <1> QED
    BY <1>1, <1>2, <1>3, CdpInvariant, PTL DEF Spec

-----------------------------------------------------------------------------
\* Frames, for bytes of any set B.

\* What FrameReader holds: the frames a chunk has completed, and what is pending.
Framing(B) == [out : Seq(Seq(B)), buf : Seq(B)]

PushByte(a, byte) ==
  IF byte = "NUL" THEN [out |-> Append(a.out, a.buf), buf |-> <<>>]
  ELSE [a EXCEPT !.buf = Append(@, byte)]

LEMMA PushByteTyped ==
  ASSUME NEW B, NEW a \in Framing(B), NEW byte \in B
  PROVE  /\ PushByte(a, byte) \in Framing(B)
         /\ byte = "NUL" => PushByte(a, byte) = [out |-> Append(a.out, a.buf), buf |-> <<>>]
         /\ byte # "NUL" => PushByte(a, byte) = [out |-> a.out, buf |-> Append(a.buf, byte)]
<1>1. /\ a.out \in Seq(Seq(B)) /\ a.buf \in Seq(B) /\ a = [out |-> a.out, buf |-> a.buf]
  BY DEF Framing
<1>2. Append(a.out, a.buf) \in Seq(Seq(B)) /\ Append(a.buf, byte) \in Seq(B) /\ <<>> \in Seq(B)
  BY <1>1
<1>3. CASE byte = "NUL"
  BY <1>1, <1>2, <1>3 DEF PushByte, Framing
<1>4. CASE byte # "NUL"
  <2>1. PushByte(a, byte) = [out |-> a.out, buf |-> Append(a.buf, byte)]
    BY <1>1, <1>4 DEF PushByte
  <2> QED
    BY <1>1, <1>2, <1>4, <2>1 DEF Framing
<1> QED
  BY <1>3, <1>4

\* The fold of FrameReader::push, byte after byte.
PushRun(B, buf, chunk, f) ==
  /\ f \in [0 .. Len(chunk) -> Framing(B)] /\ f[0] = [out |-> <<>>, buf |-> buf]
  /\ \A k \in 0 .. Len(chunk) - 1 : f[k + 1] = PushByte(f[k], chunk[k + 1])
  /\ Push(buf, chunk) = f[Len(chunk)]

LEMMA PushAlong ==
  ASSUME NEW B, NEW buf \in Seq(B), NEW chunk \in Seq(B)
  PROVE  \E f : PushRun(B, buf, chunk, f)
<1> DEFINE V == Framing(B)
           E == B
           step == [x \in V \X E |-> PushByte(x[1], x[2])]
           Solves(g) == g = [S \in SUBSET DOMAIN chunk |->
             IF S = {} THEN [out |-> <<>>, buf |-> buf] ELSE PushByte(g[S \ {Max(S)}], chunk[Max(S)])]
           c == CHOOSE g : Solves(g)
<1>1. Folding(V, E, [out |-> <<>>, buf |-> buf], step)
  <2>1. [out |-> <<>>, buf |-> buf] \in V
    BY DEF Framing
  <2>2. \A x \in V \X E : PushByte(x[1], x[2]) \in V
    BY PushByteTyped
  <2> QED
    BY <2>1, <2>2 DEF Folding
<1>2. /\ chunk \in Seq(E) /\ DOMAIN chunk = 1 .. Len(chunk)
      /\ Len(chunk) \in Nat /\ \A i \in 1 .. Len(chunk) : chunk[i] \in E
  OBVIOUS
<1>3. \A S \in SUBSET DOMAIN chunk : S # {} => Max(S) \in DOMAIN chunk /\ S \ {Max(S)} \in SUBSET DOMAIN chunk
  BY <1>2, MaxOfFinite
<1> HIDE DEF V, E
<1>4. \A x \in V, y \in E : step[<<x, y>>] = PushByte(x, y)
  OBVIOUS
<1> HIDE DEF step
<1>5. \E g : Solves(g)
  <2>1. PICK g : FoldsOver(g, [out |-> <<>>, buf |-> buf], step, chunk) /\ \A S \in SUBSET DOMAIN chunk : g[S] \in V
    BY <1>1, <1>2, FoldExists
  <2>2. \A S \in SUBSET DOMAIN chunk : S # {} =>
          step[<<g[S \ {Max(S)}], chunk[Max(S)]>>] = PushByte(g[S \ {Max(S)}], chunk[Max(S)])
    BY <1>2, <1>3, <1>4, <2>1
  <2>3. Solves(g)
    BY <2>1, <2>2 DEF FoldsOver
  <2> QED
    BY <2>3
<1>6. Solves(c)
  BY <1>5
<1> HIDE DEF c
<1>7. Follows(c, V, [out |-> <<>>, buf |-> buf], step, chunk)
  <2>1. c[{}] = [out |-> <<>>, buf |-> buf]
    BY <1>6
  <2>2. \A S \in SUBSET DOMAIN chunk : S # {} /\ c[S \ {Max(S)}] \in V =>
          c[S] = step[<<c[S \ {Max(S)}], chunk[Max(S)]>>]
    BY <1>2, <1>3, <1>4, <1>6
  <2> QED
    BY <2>1, <2>2 DEF Follows
<1>8. Push(buf, chunk) = c[DOMAIN chunk]
  BY Zenon DEF Push, PushByte, FoldLeft, MapThenFoldSet, c, Solves
<1> HIDE DEF Solves
<1>9. PICK f \in [0 .. Len(chunk) -> V] :
        /\ f[0] = [out |-> <<>>, buf |-> buf] /\ f[Len(chunk)] = c[DOMAIN chunk]
        /\ \A k \in 0 .. Len(chunk) - 1 : f[k + 1] = step[<<f[k], chunk[k + 1]>>]
  BY <1>1, <1>2, <1>7, FoldAlong
<1>10. \A k \in 0 .. Len(chunk) - 1 : f[k + 1] = PushByte(f[k], chunk[k + 1])
  <2> TAKE k \in 0 .. Len(chunk) - 1
  <2>1. k \in 0 .. Len(chunk) /\ k + 1 \in 1 .. Len(chunk)
    BY <1>2
  <2> QED
    BY <1>2, <1>4, <1>9, <2>1
<1> QED
  BY <1>8, <1>9, <1>10 DEF V, PushRun

LEMMA PushTyped ==
  ASSUME NEW B, NEW buf \in Seq(B), NEW chunk \in Seq(B)
  PROVE  Push(buf, chunk) \in Framing(B)
<1>1. PICK f : PushRun(B, buf, chunk, f)
  BY PushAlong
<1>2. Len(chunk) \in 0 .. Len(chunk)
  OBVIOUS
<1> QED
  BY <1>1, <1>2 DEF PushRun

\* The reader, a chunk after the other.
PushChunk(a, chunk) ==
  LET p == Push(a.buf, chunk) IN [out |-> a.out \o p.out, buf |-> p.buf]

LEMMA PushChunkTyped ==
  ASSUME NEW B, NEW a \in Framing(B), NEW chunk \in Seq(B)
  PROVE  PushChunk(a, chunk) \in Framing(B)
<1> DEFINE p == Push(a.buf, chunk)
<1>1. a.out \in Seq(Seq(B)) /\ a.buf \in Seq(B)
  BY DEF Framing
<1>2. p.out \in Seq(Seq(B)) /\ p.buf \in Seq(B)
  BY <1>1, PushTyped DEF Framing
<1> HIDE DEF p
<1>3. a.out \o p.out \in Seq(Seq(B))
  BY <1>1, <1>2
<1> QED
  BY <1>2, <1>3 DEF PushChunk, Framing, p

\* The fold of the reader thread, read after read.
FramesRun(B, chunks, f) ==
  /\ f \in [0 .. Len(chunks) -> Framing(B)] /\ f[0] = [out |-> <<>>, buf |-> <<>>]
  /\ \A k \in 0 .. Len(chunks) - 1 : f[k + 1] = PushChunk(f[k], chunks[k + 1])
  /\ FramesOf(chunks) = f[Len(chunks)]

LEMMA FramesAlong ==
  ASSUME NEW B, NEW chunks \in Seq(Seq(B))
  PROVE  \E f : FramesRun(B, chunks, f)
<1> DEFINE V == Framing(B)
           E == Seq(B)
           step == [x \in V \X E |-> PushChunk(x[1], x[2])]
           Solves(g) == g = [S \in SUBSET DOMAIN chunks |->
             IF S = {} THEN [out |-> <<>>, buf |-> <<>>] ELSE PushChunk(g[S \ {Max(S)}], chunks[Max(S)])]
           c == CHOOSE g : Solves(g)
<1>1. Folding(V, E, [out |-> <<>>, buf |-> <<>>], step)
  <2>1. [out |-> <<>>, buf |-> <<>>] \in V
    BY DEF Framing
  <2>2. \A x \in V \X E : PushChunk(x[1], x[2]) \in V
    BY PushChunkTyped
  <2> QED
    BY <2>1, <2>2 DEF Folding
<1>2. /\ chunks \in Seq(E) /\ DOMAIN chunks = 1 .. Len(chunks)
      /\ Len(chunks) \in Nat /\ \A i \in 1 .. Len(chunks) : chunks[i] \in E
  OBVIOUS
<1>3. \A S \in SUBSET DOMAIN chunks : S # {} => Max(S) \in DOMAIN chunks /\ S \ {Max(S)} \in SUBSET DOMAIN chunks
  BY <1>2, MaxOfFinite
<1> HIDE DEF V, E
<1>4. \A x \in V, y \in E : step[<<x, y>>] = PushChunk(x, y)
  OBVIOUS
<1> HIDE DEF step
<1>5. \E g : Solves(g)
  <2>1. PICK g : FoldsOver(g, [out |-> <<>>, buf |-> <<>>], step, chunks) /\ \A S \in SUBSET DOMAIN chunks : g[S] \in V
    BY <1>1, <1>2, FoldExists
  <2>2. \A S \in SUBSET DOMAIN chunks : S # {} =>
          step[<<g[S \ {Max(S)}], chunks[Max(S)]>>] = PushChunk(g[S \ {Max(S)}], chunks[Max(S)])
    BY <1>2, <1>3, <1>4, <2>1
  <2>3. Solves(g)
    BY <2>1, <2>2 DEF FoldsOver
  <2> QED
    BY <2>3
<1>6. Solves(c)
  BY <1>5
<1> HIDE DEF c
<1>7. Follows(c, V, [out |-> <<>>, buf |-> <<>>], step, chunks)
  <2>1. c[{}] = [out |-> <<>>, buf |-> <<>>]
    BY <1>6
  <2>2. \A S \in SUBSET DOMAIN chunks : S # {} /\ c[S \ {Max(S)}] \in V =>
          c[S] = step[<<c[S \ {Max(S)}], chunks[Max(S)]>>]
    BY <1>2, <1>3, <1>4, <1>6
  <2> QED
    BY <2>1, <2>2 DEF Follows
<1>8. FramesOf(chunks) = c[DOMAIN chunks]
  BY Zenon DEF FramesOf, PushChunk, FoldLeft, MapThenFoldSet, c, Solves
<1> HIDE DEF Solves
<1>9. PICK f \in [0 .. Len(chunks) -> V] :
        /\ f[0] = [out |-> <<>>, buf |-> <<>>] /\ f[Len(chunks)] = c[DOMAIN chunks]
        /\ \A k \in 0 .. Len(chunks) - 1 : f[k + 1] = step[<<f[k], chunks[k + 1]>>]
  BY <1>1, <1>2, <1>7, FoldAlong
<1>10. \A k \in 0 .. Len(chunks) - 1 : f[k + 1] = PushChunk(f[k], chunks[k + 1])
  <2> TAKE k \in 0 .. Len(chunks) - 1
  <2>1. k \in 0 .. Len(chunks) /\ k + 1 \in 1 .. Len(chunks)
    BY <1>2
  <2> QED
    BY <1>2, <1>4, <1>9, <2>1
<1> QED
  BY <1>8, <1>9, <1>10 DEF V, FramesRun

LEMMA BehindJoined ==
  ASSUME NEW S, NEW s1 \in Seq(S), NEW s2 \in Seq(S), NEW x \in S
  PROVE  s1 \o Append(s2, x) = Append(s1 \o s2, x)
OBVIOUS

\* Pushing a chunk that starts behind the first i bytes goes on from what is
\* pending there.
LEMMA PushGoesOn ==
  ASSUME NEW B, NEW t \in Seq(B), NEW f, PushRun(B, <<>>, t, f),
         NEW i \in 0 .. Len(t), NEW j \in 0 .. Len(t), i <= j
  PROVE  PushChunk(f[i], SubSeq(t, i + 1, j)) = f[j]
<1> DEFINE chunk == SubSeq(t, i + 1, j)
           n == j - i
<1>0. /\ f \in [0 .. Len(t) -> Framing(B)]
      /\ \A k \in 0 .. Len(t) - 1 : f[k + 1] = PushByte(f[k], t[k + 1])
  BY DEF PushRun
<1>1. /\ i \in Nat /\ j \in Nat /\ n \in Nat /\ i + n = j /\ Len(t) \in Nat /\ j <= Len(t)
      /\ f[i] \in Framing(B)
  BY <1>0
<1>2. /\ chunk \in Seq(B) /\ Len(chunk) = n
      /\ \A k \in 0 .. n - 1 : chunk[k + 1] = t[i + k + 1]
  <2>1. \A k \in 1 .. Len(t) : t[k] \in B
    OBVIOUS
  <2> QED
    BY <1>1, <2>1
<1> HIDE DEF chunk, n
<1>3. f[i].out \in Seq(Seq(B)) /\ f[i].buf \in Seq(B)
  BY <1>1 DEF Framing
<1>11. PICK q : PushRun(B, f[i].buf, chunk, q)
  BY <1>2, <1>3, PushAlong
<1>4. /\ q \in [0 .. n -> Framing(B)] /\ q[0] = [out |-> <<>>, buf |-> f[i].buf]
      /\ \A k \in 0 .. n - 1 : q[k + 1] = PushByte(q[k], chunk[k + 1])
      /\ Push(f[i].buf, chunk) = q[n]
  BY <1>2, <1>11 DEF PushRun
<1> DEFINE Joined(k) == f[i].out \o q[k].out = f[i + k].out /\ q[k].buf = f[i + k].buf
           T == {k \in Nat : k <= n => Joined(k)}
<1>5. 0 \in T
  <2>1. i + 0 = i /\ f[i].out \o <<>> = f[i].out
    <3> DEFINE o == f[i].out
    <3>1. o \in Seq(Seq(B))
      BY <1>3
    <3> HIDE DEF o
    <3>2. o \o <<>> = o
      BY <3>1
    <3> QED
      BY <1>1, <3>2 DEF o
  <2>2. q[0].out = <<>> /\ q[0].buf = f[i].buf
    BY <1>4
  <2>3. Joined(0)
    BY <2>1, <2>2
  <2> HIDE DEF Joined
  <2> QED
    BY <2>3
<1>6. ASSUME NEW k \in Nat, k \in T PROVE k + 1 \in T
  <2>0. k + 1 \in Nat /\ (k <= n => Joined(k))
    <3> HIDE DEF Joined
    <3> QED
      BY <1>6
  <2> SUFFICES ASSUME k + 1 <= n PROVE Joined(k + 1)
    <3> HIDE DEF Joined
    <3> QED
      BY <2>0
  <2>1. /\ k \in 0 .. n - 1 /\ k <= n /\ k \in 0 .. n /\ i + k \in 0 .. Len(t) - 1 /\ i + k \in 0 .. Len(t)
        /\ i + k + 1 \in 1 .. Len(t) /\ i + (k + 1) = (i + k) + 1
    BY <1>1
  <2> DEFINE a == f[i + k]
             b == q[k]
             byte == t[i + k + 1]
  <2>2. a \in Framing(B) /\ b \in Framing(B) /\ byte \in B
    BY <1>0, <1>2, <1>4, <2>1
  <2>3. f[i + (k + 1)] = PushByte(a, byte) /\ q[k + 1] = PushByte(b, byte)
    BY <1>0, <1>2, <1>4, <2>1
  <2>4. f[i].out \o b.out = a.out /\ b.buf = a.buf
    BY <2>0, <2>1
  <2> HIDE DEF a, b, byte, T
  <2>5. b.out \in Seq(Seq(B)) /\ b.buf \in Seq(B)
    BY <2>2 DEF Framing
  <2>6. CASE byte = "NUL"
    <3>1. /\ PushByte(b, byte) = [out |-> Append(b.out, b.buf), buf |-> <<>>]
          /\ PushByte(a, byte) = [out |-> Append(a.out, a.buf), buf |-> <<>>]
      BY <2>2, <2>6, PushByteTyped
    <3>3. /\ q[k + 1].out = Append(b.out, b.buf) /\ q[k + 1].buf = <<>>
          /\ f[i + (k + 1)].out = Append(a.out, a.buf) /\ f[i + (k + 1)].buf = <<>>
      BY <2>3, <3>1
    <3>2. f[i].out \o Append(b.out, b.buf) = Append(f[i].out \o b.out, b.buf)
      <4> DEFINE o == f[i].out
                 p == b.out
                 x == b.buf
                 F == Seq(B)
      <4>1. o \in Seq(F) /\ p \in Seq(F) /\ x \in F
        BY <1>3, <2>5
      <4> HIDE DEF o, p, x, F
      <4>2. o \o Append(p, x) = Append(o \o p, x)
        BY <4>1, BehindJoined
      <4> QED
        BY <4>2 DEF o, p, x
    <3> QED
      BY <2>4, <3>2, <3>3
  <2>7. CASE byte # "NUL"
    <3>1. /\ PushByte(b, byte) = [out |-> b.out, buf |-> Append(b.buf, byte)]
          /\ PushByte(a, byte) = [out |-> a.out, buf |-> Append(a.buf, byte)]
      BY <2>2, <2>7, PushByteTyped
    <3>2. /\ q[k + 1].out = b.out /\ q[k + 1].buf = Append(b.buf, byte)
          /\ f[i + (k + 1)].out = a.out /\ f[i + (k + 1)].buf = Append(a.buf, byte)
      BY <2>3, <3>1
    <3> QED
      BY <2>4, <3>2
  <2> QED
    BY <2>6, <2>7
<1> HIDE DEF T
<1>7. n \in T
  BY <1>1, <1>5, <1>6, SetInduction
<1>8. f[i].out \o q[n].out = f[j].out /\ q[n].buf = f[j].buf
  <2>1. n <= n
    BY <1>1
  <2>2. Joined(n)
    BY <1>7, <2>1 DEF T
  <2> QED
    BY <1>1, <2>2
<1>9. f[j] = [out |-> f[j].out, buf |-> f[j].buf]
  <2>1. f[j] \in Framing(B)
    BY <1>0
  <2> QED
    BY <2>1 DEF Framing
<1> QED
  BY <1>2, <1>4, <1>8, <1>9 DEF PushChunk, chunk

\* cdp.rs, FrameReader and the reader thread: however the stream is cut into
\* reads, its frames are what is between its terminators, in order, and what is
\* pending is behind the last of them.
THEOREM FramesIgnoreCuts ==
  ASSUME NEW B, NEW t \in Seq(B), NEW chunks \in Seq(Seq(B)),
         NEW at \in [0 .. Len(chunks) -> 0 .. Len(t)], at[0] = 0, at[Len(chunks)] = Len(t),
         \A k \in 0 .. Len(chunks) - 1 :
           at[k] <= at[k + 1] /\ chunks[k + 1] = SubSeq(t, at[k] + 1, at[k + 1])
  PROVE  LET pieces == SplitAt(t, {"NUL"}) IN
         FramesOf(chunks) = [out |-> Front(pieces), buf |-> Last(pieces)]
<1> DEFINE n == Len(t)
           m == Len(chunks)
           Terminator == {"NUL"}
<1>1. n \in Nat /\ m \in Nat /\ \A k \in 1 .. n : t[k] \in B
  OBVIOUS
<1>2. PICK f : PushRun(B, <<>>, t, f)
  <2>1. <<>> \in Seq(B)
    OBVIOUS
  <2> QED
    BY <2>1, PushAlong, Zenon
<1>3. PICK p : SplitRun(B, t, Terminator, p)
  BY SplitAlong, Zenon
<1>4. PICK h : FramesRun(B, chunks, h)
  BY FramesAlong, Zenon
<1>7. \A c : c \in Terminator <=> c = "NUL"
  OBVIOUS
<1> HIDE DEF Terminator
<1>8. /\ f \in [0 .. n -> Framing(B)] /\ f[0] = [out |-> <<>>, buf |-> <<>>]
      /\ \A k \in 0 .. n - 1 : f[k + 1] = PushByte(f[k], t[k + 1])
  BY <1>2 DEF PushRun
<1>9. /\ p \in [0 .. n -> Pieces(B)] /\ p[0] = <<<<>>>>
      /\ \A k \in 0 .. n - 1 : p[k + 1] = SplitChar(p[k], t[k + 1], Terminator)
      /\ SplitAt(t, Terminator) = p[n]
  BY <1>3 DEF SplitRun
<1>10. /\ h \in [0 .. m -> Framing(B)] /\ h[0] = [out |-> <<>>, buf |-> <<>>]
       /\ \A k \in 0 .. m - 1 : h[k + 1] = PushChunk(h[k], chunks[k + 1])
       /\ FramesOf(chunks) = h[m]
  BY <1>4 DEF FramesRun
<1>5. h[m] = f[n]
  <2> DEFINE T == {k \in Nat : k <= m => h[k] = f[at[k]]}
  <2>1. 0 \in T
    BY <1>8, <1>10
  <2>2. ASSUME NEW k \in Nat, k \in T PROVE k + 1 \in T
    <3> SUFFICES ASSUME k + 1 <= m PROVE h[k + 1] = f[at[k + 1]]
      OBVIOUS
    <3>1. k \in 0 .. m - 1 /\ k <= m /\ k \in 0 .. m /\ k + 1 \in 0 .. m
      BY <1>1
    <3>2. at[k] \in 0 .. n /\ at[k + 1] \in 0 .. n /\ at[k] <= at[k + 1]
      BY <3>1
    <3>3. h[k + 1] = PushChunk(f[at[k]], SubSeq(t, at[k] + 1, at[k + 1]))
      BY <1>10, <2>2, <3>1
    <3> QED
      BY <1>2, <3>2, <3>3, PushGoesOn
  <2> HIDE DEF T
  <2>3. m \in T
    BY <1>1, <2>1, <2>2, SetInduction
  <2>4. m <= m
    BY <1>1
  <2> QED
    BY <2>3, <2>4 DEF T
<1>6. f[n] = [out |-> Front(p[n]), buf |-> Last(p[n])]
  <2> DEFINE T == {k \in Nat : k <= n => f[k] = [out |-> Front(p[k]), buf |-> Last(p[k])]}
  <2>1. 0 \in T
    <3>1. Front(<<<<>>>>) = <<>> /\ Last(<<<<>>>>) = <<>>
      BY DEF Front, Last
    <3> QED
      BY <1>8, <1>9, <3>1
  <2>2. ASSUME NEW k \in Nat, k \in T PROVE k + 1 \in T
    <3> SUFFICES ASSUME k + 1 <= n PROVE f[k + 1] = [out |-> Front(p[k + 1]), buf |-> Last(p[k + 1])]
      OBVIOUS
    <3>1. k \in 0 .. n - 1 /\ k <= n /\ k \in 0 .. n /\ k + 1 \in 1 .. n
      BY <1>1
    <3> DEFINE a == f[k]
               b == p[k]
               c == t[k + 1]
    <3>2. a \in Framing(B) /\ b \in Pieces(B) /\ c \in B
      BY <1>1, <1>8, <1>9, <3>1
    <3>3. f[k + 1] = PushByte(a, c) /\ p[k + 1] = SplitChar(b, c, Terminator)
      BY <1>8, <1>9, <3>1
    <3>4. a = [out |-> Front(b), buf |-> Last(b)]
      BY <2>2, <3>1
    <3> HIDE DEF a, b, c, T
    <3>8. SplitsTo(B, b, c, Terminator, SplitChar(b, c, Terminator))
      BY <3>2, SplitCharIs
    <3>5. a.out = Front(b) /\ a.buf = Last(b)
      BY <3>4
    <3>6. CASE c = "NUL"
      <4>1. f[k + 1] = [out |-> Append(a.out, a.buf), buf |-> <<>>]
        BY <3>2, <3>3, <3>6, PushByteTyped
      <4>2. Front(p[k + 1]) = Append(Front(b), Last(b)) /\ Last(p[k + 1]) = <<>>
        BY <1>7, <3>3, <3>6, <3>8 DEF SplitsTo
      <4> QED
        BY <3>5, <4>1, <4>2
    <3>7. CASE c # "NUL"
      <4>1. f[k + 1] = [out |-> a.out, buf |-> Append(a.buf, c)]
        BY <3>2, <3>3, <3>7, PushByteTyped
      <4>2. Front(p[k + 1]) = Front(b) /\ Last(p[k + 1]) = Append(Last(b), c)
        BY <1>7, <3>3, <3>7, <3>8 DEF SplitsTo
      <4> QED
        BY <3>5, <4>1, <4>2
    <3> QED
      BY <3>6, <3>7
  <2> HIDE DEF T
  <2>3. n \in T
    BY <1>1, <2>1, <2>2, SetInduction
  <2>4. n <= n
    BY <1>1
  <2> QED
    BY <2>3, <2>4 DEF T
<1> QED
  BY <1>5, <1>6, <1>9, <1>10 DEF Terminator

LEMMA SplitsOff ==
  ASSUME NEW B, NEW t \in Seq(B), NEW seps
  PROVE  SplitAt(t, seps) \in Seq(Seq(B)) /\ SplitAt(t, seps) # <<>>
<1>1. \E o : IsCut(B, t, Len(t), seps, SplitAt(t, seps), o)
  BY SplitCuts
<1> QED
  BY <1>1 DEF IsCut, Pieces

LEMMA ReadsWhole ==
  ASSUME NEW B, NEW t \in Seq(B)
  PROVE  FramesIgnoreReads(t)
<1> DEFINE reads == SplitAt(t, {"|"})
           stream == JoinBy(reads, <<>>)
<1>1. reads \in Seq(Seq(B)) /\ reads # <<>>
  BY SplitsOff
<1> HIDE DEF reads
<1>2. stream \in Seq(B)
  BY <1>1, JoinedAlong
<1>3. PICK at : CutAlong(reads, Len(reads), stream, at)
  BY <1>1, JoinedAlong
<1> HIDE DEF stream
<1>4. LET pieces == SplitAt(stream, {"NUL"}) IN
      FramesOf(reads) = [out |-> Front(pieces), buf |-> Last(pieces)]
  <2>1. /\ at \in [0 .. Len(reads) -> 0 .. Len(stream)] /\ at[0] = 0 /\ at[Len(reads)] = Len(stream)
        /\ \A k \in 0 .. Len(reads) - 1 :
             at[k] <= at[k + 1] /\ reads[k + 1] = SubSeq(stream, at[k] + 1, at[k + 1])
    BY <1>3 DEF CutAlong
  <2> QED
    BY <1>1, <1>2, <2>1, FramesIgnoreCuts, Zenon
<1> QED
  BY <1>4, Zenon DEF FramesIgnoreReads, stream, reads

-----------------------------------------------------------------------------
\* The command line of a Windows program.

\* The characters that quoting is about are among others.
Quotable(B) == BS \in B /\ DQ \in B /\ " " \in B

LEMMA RepeatedIs ==
  ASSUME NEW B, NEW c \in B, NEW n \in Nat
  PROVE  /\ Repeated(n, c) \in Seq(B) /\ Len(Repeated(n, c)) = n
         /\ Append(Repeated(n, c), c) = Repeated(n + 1, c)
<1>1. Repeated(n, c) \in Seq(B) /\ Len(Repeated(n, c)) = n /\ \A i \in 1..n : Repeated(n, c)[i] = c
  BY DEF Repeated
<1>2. Repeated(n + 1, c) = [i \in 1..n + 1 |-> c]
  BY DEF Repeated
<1>3. Append(Repeated(n, c), c) = [i \in 1..n + 1 |-> c]
  <2> DEFINE r == Repeated(n, c)
             a == Append(r, c)
  <2> HIDE DEF r
  <2>1. a \in Seq(B) /\ Len(a) = n + 1 /\ \A i \in 1..n : a[i] = r[i]
    BY <1>1 DEF r
  <2>2. a[n + 1] = c
    BY <1>1 DEF r
  <2> HIDE DEF a
  <2>3. a = [i \in 1..n + 1 |-> a[i]]
    BY <2>1
  <2>4. \A i \in 1..n + 1 : a[i] = c
    BY <1>1, <2>1, <2>2 DEF r
  <2> QED
    BY <2>3, <2>4 DEF a, r
<1> QED
  BY <1>1, <1>2, <1>3

\* What the child has read of a command line.
Modes == {"none", "bare", "quoted"}
Dividing(B) == [args : Seq(Seq(B)), arg : Seq(B), slashes : Nat, mode : Modes]

State(args, arg, slashes, mode) ==
  [args |-> args, arg |-> arg, slashes |-> slashes, mode |-> mode]

LEMMA DivideSlash ==
  ASSUME NEW A, NEW w, NEW n, NEW m
  PROVE  Divide(State(A, w, n, m), BS) = State(A, w, n + 1, Opened(m))
<1> DEFINE b == State(A, w, n, m)
<1>1. b = [args |-> A, arg |-> w, slashes |-> n, mode |-> m]
  BY DEF State
<1> HIDE DEF b
<1>2. /\ b.args = A /\ b.arg = w /\ b.slashes = n /\ b.mode = m
      /\ BS # DQ /\ BS # " " /\ DQ # " "
  BY <1>1 DEF BS, DQ
<1> DEFINE e == Opened(m)
<1>3. Divide(b, BS) = [b EXCEPT !.slashes = b.slashes + 1, !.mode = e]
  BY <1>2 DEF Divide
<1> HIDE DEF e
<1> QED
  BY <1>1, <1>2, <1>3 DEF State, b, e

LEMMA DivideQuoted ==
  ASSUME NEW A, NEW w, NEW n, NEW m, n % 2 = 1
  PROVE  Divide(State(A, w, n, m), DQ) = State(A, Append(w \o Repeated(n \div 2, BS), DQ), 0, Opened(m))
<1> DEFINE b == State(A, w, n, m)
<1>1. b = [args |-> A, arg |-> w, slashes |-> n, mode |-> m]
  BY DEF State
<1> HIDE DEF b
<1>2. /\ b.args = A /\ b.arg = w /\ b.slashes = n /\ b.mode = m
      /\ BS # DQ /\ BS # " " /\ DQ # " "
  BY <1>1 DEF BS, DQ
<1> DEFINE v == Append(b.arg \o Repeated(b.slashes \div 2, BS), DQ)
           e == Opened(b.mode)
<1>3. Divide(b, DQ) = [b EXCEPT !.arg = v, !.slashes = 0, !.mode = e]
  <2>1. b.slashes % 2 = 1
    BY <1>2
  <2> QED
    BY <1>2, <2>1, Zenon DEF Divide
<1>4. v = Append(w \o Repeated(n \div 2, BS), DQ) /\ e = Opened(m)
  BY <1>2
<1> HIDE DEF v, e
<1>5. Divide(b, DQ) = State(A, v, 0, e)
  BY <1>1, <1>3 DEF State
<1> QED
  BY <1>4, <1>5 DEF b

LEMMA DivideQuote ==
  ASSUME NEW A, NEW w, NEW n, NEW m, n % 2 # 1
  PROVE  Divide(State(A, w, n, m), DQ)
           = State(A, w \o Repeated(n \div 2, BS), 0, IF m = "quoted" THEN "bare" ELSE "quoted")
<1> DEFINE b == State(A, w, n, m)
<1>1. b = [args |-> A, arg |-> w, slashes |-> n, mode |-> m]
  BY DEF State
<1> HIDE DEF b
<1>2. /\ b.args = A /\ b.arg = w /\ b.slashes = n /\ b.mode = m
      /\ BS # DQ /\ BS # " " /\ DQ # " "
  BY <1>1 DEF BS, DQ
<1> DEFINE v == b.arg \o Repeated(b.slashes \div 2, BS)
           e == IF b.mode = "quoted" THEN "bare" ELSE "quoted"
<1>3. Divide(b, DQ) = [b EXCEPT !.arg = v, !.slashes = 0, !.mode = e]
  <2>1. b.slashes % 2 # 1
    BY <1>2
  <2> QED
    BY <1>2, <2>1, Zenon DEF Divide
<1>4. v = w \o Repeated(n \div 2, BS) /\ e = IF m = "quoted" THEN "bare" ELSE "quoted"
  BY <1>2
<1> HIDE DEF v, e
<1>5. Divide(b, DQ) = State(A, v, 0, e)
  BY <1>1, <1>3 DEF State
<1> QED
  BY <1>4, <1>5 DEF b

LEMMA DivideBlank ==
  ASSUME NEW A, NEW w, NEW n, NEW m, m # "quoted"
  PROVE  Divide(State(A, w, n, m), " ") = State(IF m = "none" THEN A ELSE Append(A, w \o Repeated(n, BS)), <<>>, 0, "none")
<1> DEFINE b == State(A, w, n, m)
<1>1. b = [args |-> A, arg |-> w, slashes |-> n, mode |-> m]
  BY DEF State
<1> HIDE DEF b
<1>2. /\ b.args = A /\ b.arg = w /\ b.slashes = n /\ b.mode = m
      /\ BS # DQ /\ BS # " " /\ DQ # " "
  BY <1>1 DEF BS, DQ
<1> DEFINE v == IF m = "none" THEN A ELSE Append(A, w \o Repeated(n, BS))
<1>3. Ended(b) = v
  BY <1>2 DEF Ended
<1> HIDE DEF v
<1>4. Divide(b, " ") = State(v, <<>>, 0, "none")
  BY <1>2, <1>3 DEF Divide, State
<1> QED
  BY <1>4 DEF b, v

\* A character that stands for itself.
Plain(c, m) == c # BS /\ c # DQ /\ (c # " " \/ m = "quoted")

LEMMA DivideOther ==
  ASSUME NEW A, NEW w, NEW n, NEW m, NEW c, Plain(c, m)
  PROVE  Divide(State(A, w, n, m), c) = State(A, Append(w \o Repeated(n, BS), c), 0, Opened(m))
<1> DEFINE b == State(A, w, n, m)
<1>1. b = [args |-> A, arg |-> w, slashes |-> n, mode |-> m]
  BY DEF State
<1> HIDE DEF b
<1>2. /\ b.args = A /\ b.arg = w /\ b.slashes = n /\ b.mode = m
      /\ BS # DQ /\ BS # " " /\ DQ # " "
  BY <1>1 DEF BS, DQ
<1> DEFINE v == Append(w \o Repeated(n, BS), c)
           e == Opened(m)
<1>3. Divide(b, c) = [b EXCEPT !.arg = v, !.slashes = 0, !.mode = e]
  BY <1>2 DEF Divide, Plain
<1> HIDE DEF v, e
<1>4. Divide(b, c) = State(A, v, 0, e)
  BY <1>1, <1>3 DEF State
<1> QED
  BY <1>4 DEF b, v, e

LEMMA DivideTyped ==
  ASSUME NEW B, Quotable(B), NEW b \in Dividing(B), NEW c \in B
  PROVE  Divide(b, c) \in Dividing(B)
<1> DEFINE A == b.args
           w == b.arg
           n == b.slashes
           m == b.mode
<1>1. A \in Seq(Seq(B)) /\ w \in Seq(B) /\ n \in Nat /\ m \in Modes /\ b = State(A, w, n, m)
  BY DEF Dividing, State
<1> HIDE DEF A, w, n, m
<1>2. n \div 2 \in Nat /\ n + 1 \in Nat /\ 0 \in Nat
  BY <1>1
<1>3. Opened(m) \in Modes /\ "none" \in Modes /\ (IF m = "quoted" THEN "bare" ELSE "quoted") \in Modes
  BY <1>1 DEF Modes, Opened
<1>4. ASSUME NEW k \in Nat
      PROVE  /\ w \o Repeated(k, BS) \in Seq(B)
             /\ \A d \in B : Append(w \o Repeated(k, BS), d) \in Seq(B)
  <2> DEFINE r == Repeated(k, BS)
  <2>1. r \in Seq(B)
    BY RepeatedIs DEF Quotable
  <2> HIDE DEF r
  <2>2. w \o r \in Seq(B)
    BY <1>1, <2>1
  <2> DEFINE v == w \o r
  <2> HIDE DEF v
  <2>3. \A d \in B : Append(v, d) \in Seq(B)
    BY <2>2 DEF v
  <2> QED
    BY <2>2, <2>3 DEF v, r
<1>5. Append(A, w \o Repeated(n, BS)) \in Seq(Seq(B)) /\ <<>> \in Seq(B)
  <2> DEFINE v == w \o Repeated(n, BS)
             S == Seq(B)
  <2>1. v \in S
    BY <1>1, <1>4
  <2>2. A \in Seq(S) /\ <<>> \in S
    BY <1>1
  <2> HIDE DEF v, S
  <2>3. Append(A, v) \in Seq(S)
    BY <2>1, <2>2
  <2> QED
    BY <2>2, <2>3 DEF v, S
<1>6. ASSUME NEW a \in Seq(Seq(B)), NEW u \in Seq(B), NEW k \in Nat, NEW e \in Modes
      PROVE  State(a, u, k, e) \in Dividing(B)
  BY DEF State, Dividing
<1>7. CASE c = BS
  <2>1. Divide(b, c) = State(A, w, n + 1, Opened(m))
    BY <1>1, <1>7, DivideSlash
  <2> QED
    BY <1>1, <1>2, <1>3, <1>6, <2>1
<1>8. CASE c = DQ /\ n % 2 = 1
  <2> DEFINE v == Append(w \o Repeated(n \div 2, BS), DQ)
  <2>1. Divide(b, c) = State(A, v, 0, Opened(m))
    BY <1>1, <1>8, DivideQuoted
  <2>2. v \in Seq(B)
    BY <1>2, <1>4, <1>8
  <2> HIDE DEF v
  <2> QED
    BY <1>1, <1>2, <1>3, <1>6, <2>1, <2>2
<1>9. CASE c = DQ /\ n % 2 # 1
  <2> DEFINE v == w \o Repeated(n \div 2, BS)
             e == IF m = "quoted" THEN "bare" ELSE "quoted"
  <2>1. Divide(b, c) = State(A, v, 0, e)
    BY <1>1, <1>9, DivideQuote
  <2>2. v \in Seq(B) /\ e \in Modes
    BY <1>2, <1>3, <1>4
  <2> HIDE DEF v, e
  <2> QED
    BY <1>1, <1>2, <1>6, <2>1, <2>2
<1>10. CASE c = " " /\ m # "quoted"
  <2> DEFINE v == IF m = "none" THEN A ELSE Append(A, w \o Repeated(n, BS))
  <2>1. Divide(b, c) = State(v, <<>>, 0, "none")
    BY <1>1, <1>10, DivideBlank
  <2>2. v \in Seq(Seq(B)) /\ <<>> \in Seq(B)
    BY <1>1, <1>5
  <2> HIDE DEF v
  <2> QED
    BY <1>2, <1>3, <1>6, <2>1, <2>2
<1>11. CASE c # BS /\ c # DQ /\ (c # " " \/ m = "quoted")
  <2> DEFINE v == Append(w \o Repeated(n, BS), c)
  <2>1. v \in Seq(B)
    BY <1>1, <1>4
  <2>2. Plain(c, m)
    BY <1>11 DEF Plain
  <2>3. Divide(b, c) = State(A, v, 0, Opened(m))
    BY <1>1, <2>2, DivideOther
  <2> HIDE DEF v
  <2> QED
    BY <1>1, <1>2, <1>3, <1>6, <2>1, <2>3
<1> QED
  BY <1>7, <1>8, <1>9, <1>10, <1>11

Start == State(<<>>, <<>>, 0, "none")

\* The fold of the child.
DivideRun(B, line, f) ==
  /\ f \in [0 .. Len(line) -> Dividing(B)] /\ f[0] = Start
  /\ \A k \in 0 .. Len(line) - 1 : f[k + 1] = Divide(f[k], line[k + 1])
  /\ Divided(line) = Ended(f[Len(line)])

LEMMA DivideAlong ==
  ASSUME NEW B, Quotable(B), NEW line \in Seq(B)
  PROVE  \E f : DivideRun(B, line, f)
<1> DEFINE V == Dividing(B)
           E == B
           step == [x \in V \X E |-> Divide(x[1], x[2])]
           Solves(g) == g = [S \in SUBSET DOMAIN line |->
             IF S = {} THEN Start ELSE Divide(g[S \ {Max(S)}], line[Max(S)])]
           c == CHOOSE g : Solves(g)
<1>1. Folding(V, E, Start, step)
  <2>1. \A x \in Dividing(B) \X B : Divide(x[1], x[2]) \in Dividing(B)
    BY DivideTyped
  <2>2. Start \in Dividing(B)
    <3>1. <<>> \in Seq(B) /\ <<>> \in Seq(Seq(B)) /\ 0 \in Nat
      OBVIOUS
    <3> QED
      BY <3>1 DEF Start, State, Dividing, Modes
  <2> QED
    BY <2>1, <2>2 DEF Folding
<1>2. /\ line \in Seq(E) /\ DOMAIN line = 1 .. Len(line)
      /\ Len(line) \in Nat /\ \A i \in 1 .. Len(line) : line[i] \in E
  OBVIOUS
<1>3. \A S \in SUBSET DOMAIN line : S # {} => Max(S) \in DOMAIN line /\ S \ {Max(S)} \in SUBSET DOMAIN line
  BY <1>2, MaxOfFinite
<1> HIDE DEF V, E
<1>4. \A x \in V, y \in E : step[<<x, y>>] = Divide(x, y)
  OBVIOUS
<1> HIDE DEF step
<1>5. \E g : Solves(g)
  <2>1. PICK g : FoldsOver(g, Start, step, line) /\ \A S \in SUBSET DOMAIN line : g[S] \in V
    BY <1>1, <1>2, FoldExists
  <2>2. \A S \in SUBSET DOMAIN line : S # {} =>
          step[<<g[S \ {Max(S)}], line[Max(S)]>>] = Divide(g[S \ {Max(S)}], line[Max(S)])
    BY <1>2, <1>3, <1>4, <2>1
  <2>3. Solves(g)
    BY <2>1, <2>2 DEF FoldsOver
  <2> QED
    BY <2>3
<1>6. Solves(c)
  BY <1>5
<1> HIDE DEF c
<1>7. Follows(c, V, Start, step, line)
  <2>1. c[{}] = Start
    BY <1>6
  <2>2. \A S \in SUBSET DOMAIN line : S # {} /\ c[S \ {Max(S)}] \in V =>
          c[S] = step[<<c[S \ {Max(S)}], line[Max(S)]>>]
    BY <1>2, <1>3, <1>4, <1>6
  <2> QED
    BY <2>1, <2>2 DEF Follows
<1>8. Divided(line) = Ended(c[DOMAIN line])
  BY Zenon DEF Divided, Start, State, FoldLeft, MapThenFoldSet, c, Solves
<1> HIDE DEF Solves
<1>9. PICK f \in [0 .. Len(line) -> V] :
        /\ f[0] = Start /\ f[Len(line)] = c[DOMAIN line]
        /\ \A k \in 0 .. Len(line) - 1 : f[k + 1] = step[<<f[k], line[k + 1]>>]
  BY <1>1, <1>2, <1>7, FoldAlong
<1>10. \A k \in 0 .. Len(line) - 1 : f[k + 1] = Divide(f[k], line[k + 1])
  <2> TAKE k \in 0 .. Len(line) - 1
  <2>1. k \in 0 .. Len(line) /\ k + 1 \in 1 .. Len(line)
    BY <1>2
  <2> QED
    BY <1>2, <1>4, <1>9, <2>1
<1> QED
  BY <1>8, <1>9, <1>10 DEF V, DivideRun

\* b becomes e while s is read.
Reads(B, b, s, e) ==
  \E f \in [0..Len(s) -> Dividing(B)] :
    /\ f[0] = b /\ f[Len(s)] = e
    /\ \A k \in 0..Len(s) - 1 : f[k + 1] = Divide(f[k], s[k + 1])

LEMMA ReadsOne ==
  ASSUME NEW B, Quotable(B), NEW b \in Dividing(B), NEW c \in B
  PROVE  Reads(B, b, <<c>>, Divide(b, c)) /\ Reads(B, b, <<>>, b)
<1> DEFINE f == [k \in 0..1 |-> IF k = 0 THEN b ELSE Divide(b, c)]
           s == <<c>>
<1>1. Divide(b, c) \in Dividing(B)
  BY DivideTyped
<1>2. Len(s) = 1 /\ s[1] = c
  OBVIOUS
<1>3. f \in [0..1 -> Dividing(B)] /\ f[0] = b /\ f[1] = Divide(b, c)
  BY <1>1
<1> HIDE DEF f, s
<1>4. \A k \in 0..1 - 1 : f[k + 1] = Divide(f[k], s[k + 1])
  BY <1>2, <1>3
<1>5. Reads(B, b, s, Divide(b, c))
  BY <1>2, <1>3, <1>4 DEF Reads
<1>6. Reads(B, b, <<>>, b)
  <2> DEFINE g == [k \in 0..0 |-> b]
             e == <<>>
  <2>1. Len(e) = 0
    OBVIOUS
  <2>2. g \in [0..0 -> Dividing(B)] /\ g[0] = b
    OBVIOUS
  <2> HIDE DEF g, e
  <2>3. Reads(B, b, e, b)
    BY <2>1, <2>2 DEF Reads
  <2> QED
    BY <2>3 DEF e
<1> QED
  BY <1>5, <1>6 DEF s

LEMMA ReadsOn ==
  ASSUME NEW B, NEW b, NEW s \in Seq(B), NEW d, NEW t \in Seq(B), NEW e,
         Reads(B, b, s, d), Reads(B, d, t, e)
  PROVE  Reads(B, b, s \o t, e)
<1> DEFINE m == Len(s)
           n == Len(t)
           u == s \o t
<1>1. PICK f \in [0..m -> Dividing(B)] :
         /\ f[0] = b /\ f[m] = d /\ \A k \in 0..m - 1 : f[k + 1] = Divide(f[k], s[k + 1])
  BY DEF Reads
<1>2. PICK g \in [0..n -> Dividing(B)] :
         /\ g[0] = d /\ g[n] = e /\ \A k \in 0..n - 1 : g[k + 1] = Divide(g[k], t[k + 1])
  BY DEF Reads
<1>3. /\ m \in Nat /\ n \in Nat /\ Len(u) = m + n
      /\ \A k \in 1..m : u[k] = s[k]
      /\ \A k \in 1..n : u[m + k] = t[k]
  OBVIOUS
<1> HIDE DEF m, n, u
<1> DEFINE h == [k \in 0..m + n |-> IF k <= m THEN f[k] ELSE g[k - m]]
<1>4. h \in [0..m + n -> Dividing(B)]
  <2>1. \A k \in 0..m + n : (k <= m => k \in 0..m) /\ (~(k <= m) => k - m \in 0..n)
    BY <1>3
  <2> QED
    BY <2>1
<1>5. /\ \A k \in 0..m : h[k] = f[k]
      /\ \A k \in 0..n : h[m + k] = g[k]
  <2>1. \A k \in 0..m : k \in 0..m + n /\ k <= m
    BY <1>3
  <2>2. \A k \in 0..n : m + k \in 0..m + n /\ (k # 0 => ~(m + k <= m)) /\ (m + k) - m = k /\ m + 0 = m
    BY <1>3
  <2>3. ASSUME NEW k \in 0..n PROVE h[m + k] = g[k]
    <3>1. CASE k = 0
      <4>1. h[m] = f[m]
        BY <1>3, <2>1
      <4> QED
        BY <1>1, <1>2, <2>2, <3>1, <4>1
    <3>2. CASE k # 0
      BY <2>2, <3>2
    <3> QED
      BY <3>1, <3>2
  <2> QED
    BY <2>1, <2>3
<1> HIDE DEF h
<1>6. ASSUME NEW k \in 0..(m + n) - 1 PROVE h[k + 1] = Divide(h[k], u[k + 1])
  <2>1. CASE k < m
    <3>1. k \in 0..m - 1 /\ k \in 0..m /\ k + 1 \in 0..m /\ k + 1 \in 1..m
      BY <1>3, <2>1
    <3> QED
      BY <1>1, <1>3, <1>5, <3>1
  <2>2. CASE ~(k < m)
    <3> DEFINE i == k - m
    <3>1. i \in 0..n - 1 /\ i \in 0..n /\ i + 1 \in 0..n /\ i + 1 \in 1..n /\ m + i = k /\ m + (i + 1) = k + 1
      BY <1>3, <2>2
    <3> HIDE DEF i
    <3>2. h[k] = g[i] /\ h[k + 1] = g[i + 1] /\ u[k + 1] = t[i + 1]
      BY <1>3, <1>5, <3>1
    <3> QED
      BY <1>2, <3>1, <3>2
  <2> QED
    BY <2>1, <2>2
<1>7. h[0] = b /\ h[m + n] = e
  <2>1. 0 \in 0..m /\ n \in 0..n
    BY <1>3
  <2> QED
    BY <1>1, <1>2, <1>5, <2>1
<1> QED
  BY <1>3, <1>4, <1>6, <1>7 DEF Reads, u

\* Reading is deterministic, so that what is read is what the child gets.
LEMMA ReadsDivided ==
  ASSUME NEW B, Quotable(B), NEW line \in Seq(B), NEW e, Reads(B, Start, line, e)
  PROVE  Divided(line) = Ended(e)
<1>1. PICK f : DivideRun(B, line, f)
  BY DivideAlong, Zenon
<1>2. PICK h \in [0..Len(line) -> Dividing(B)] :
         /\ h[0] = Start /\ h[Len(line)] = e
         /\ \A k \in 0..Len(line) - 1 : h[k + 1] = Divide(h[k], line[k + 1])
  BY DEF Reads
<1>3. /\ f[0] = Start /\ Divided(line) = Ended(f[Len(line)])
      /\ \A k \in 0..Len(line) - 1 : f[k + 1] = Divide(f[k], line[k + 1])
  BY <1>1 DEF DivideRun
<1> DEFINE n == Len(line)
           T == {k \in Nat : k <= n => f[k] = h[k]}
<1>4. n \in Nat
  OBVIOUS
<1> HIDE DEF n
<1>5. 0 \in T
  BY <1>2, <1>3
<1>6. ASSUME NEW k \in Nat, k \in T PROVE k + 1 \in T
  <2>1. k + 1 \in Nat
    OBVIOUS
  <2> SUFFICES ASSUME k + 1 <= n PROVE f[k + 1] = h[k + 1]
    BY <2>1
  <2>2. k <= n /\ k \in 0..n - 1
    BY <1>4
  <2>3. f[k] = h[k]
    BY <1>6, <2>2
  <2> QED
    BY <1>2, <1>3, <2>2, <2>3 DEF n
<1> HIDE DEF T
<1>7. n \in T /\ n <= n
  <2>1. Nat \subseteq T
    BY <1>5, <1>6, SetInduction
  <2> QED
    BY <1>4, <2>1
<1> QED
  BY <1>2, <1>3, <1>7 DEF T, n

LEMMA RepeatedBehind ==
  ASSUME NEW B, NEW c \in B, NEW w \in Seq(B), NEW n \in Nat
  PROVE  Append(w \o Repeated(n, c), c) = w \o Repeated(n + 1, c)
<1> DEFINE r == Repeated(n, c)
<1>1. r \in Seq(B) /\ Append(r, c) = Repeated(n + 1, c)
  BY RepeatedIs
<1> HIDE DEF r
<1>2. Append(w \o r, c) = w \o Append(r, c)
  <2>1. \A s1, s2 \in Seq(B) : \A x \in B : s1 \o Append(s2, x) = Append(s1 \o s2, x)
    BY BehindJoined
  <2> QED
    BY <1>1, <2>1, Zenon
<1> QED
  BY <1>1, <1>2 DEF r

\* Backslashes in quotes wait for what is behind them.
LEMMA ReadsSlashes ==
  ASSUME NEW B, Quotable(B), NEW A \in Seq(Seq(B)), NEW w \in Seq(B), NEW k \in Nat
  PROVE  Reads(B, State(A, w, 0, "quoted"), Repeated(k, BS), State(A, w, k, "quoted"))
<1> DEFINE b == State(A, w, 0, "quoted")
           T == {n \in Nat : Reads(B, b, Repeated(n, BS), State(A, w, n, "quoted"))}
<1>1. \A n \in Nat : State(A, w, n, "quoted") \in Dividing(B)
  BY DEF State, Dividing, Modes
<1>2. b \in Dividing(B)
  BY <1>1
<1>3. 0 \in T
  <2>1. Repeated(0, BS) = <<>>
    BY DEF Repeated
  <2>2. Reads(B, b, <<>>, b)
    BY <1>2, ReadsOne DEF Quotable
  <2> QED
    BY <2>1, <2>2
<1> HIDE DEF b
<1>4. ASSUME NEW n \in Nat, n \in T PROVE n + 1 \in T
  <2> DEFINE d == State(A, w, n, "quoted")
             e == State(A, w, n + 1, "quoted")
             r == Repeated(n, BS)
  <2>1. Divide(d, BS) = e
    <3>1. Divide(d, BS) = State(A, w, n + 1, Opened("quoted"))
      BY DivideSlash
    <3>2. Opened("quoted") = "quoted"
      BY DEF Opened
    <3> QED
      BY <3>1, <3>2
  <2>2. d \in Dividing(B)
    BY <1>1
  <2>3. r \in Seq(B) /\ Append(r, BS) = Repeated(n + 1, BS) /\ BS \in B
    BY RepeatedIs DEF Quotable
  <2>4. Reads(B, b, r, d)
    BY <1>4
  <2> HIDE DEF d, e, r
  <2>5. Reads(B, d, <<BS>>, e)
    BY <2>1, <2>2, <2>3, ReadsOne
  <2>6. <<BS>> \in Seq(B) /\ r \o <<BS>> = Append(r, BS)
    BY <2>3, AppendIs
  <2>7. Reads(B, b, r \o <<BS>>, e)
    BY <2>3, <2>4, <2>5, <2>6, ReadsOn
  <2>8. Reads(B, b, Repeated(n + 1, BS), e)
    BY <2>3, <2>6, <2>7, Zenon
  <2> QED
    BY <2>8 DEF e
<1> HIDE DEF T
<1>5. Nat \subseteq T
  BY <1>3, <1>4, SetInduction
<1> QED
  BY <1>5 DEF T, b

\* What is written of an argument, while it is quoted: the child has read w of it, and
\* the rest are backslashes that wait.
Writing(B) == [out : Seq(B), slashes : Nat]

Written(B, A, p, b) ==
  /\ b \in Writing(B)
  /\ \E w \in Seq(B) : /\ p = w \o Repeated(b.slashes, BS)
                       /\ Reads(B, State(A, <<>>, 0, "none"), b.out, State(A, w, 0, "quoted"))

LEMMA QuoteCharTyped ==
  ASSUME NEW B, Quotable(B), NEW b \in Writing(B), NEW c \in B
  PROVE  QuoteChar(b, c) \in Writing(B)
<1> DEFINE o == b.out
           n == b.slashes
<1>1. /\ o \in Seq(B) /\ n \in Nat /\ b = [out |-> o, slashes |-> n]
      /\ b.out = o /\ b.slashes = n
  BY DEF Writing
<1> HIDE DEF o, n
<1>2. ASSUME NEW k \in Nat, NEW d \in B PROVE o \o Repeated(k, BS) \o <<d>> \in Seq(B)
  <2> DEFINE r == Repeated(k, BS)
  <2>1. r \in Seq(B)
    BY RepeatedIs DEF Quotable
  <2> HIDE DEF r
  <2>2. o \o r \o <<d>> \in Seq(B)
    BY <1>1, <2>1
  <2> QED
    BY <2>2 DEF r
<1>3. n + 1 \in Nat /\ 2 * n + 1 \in Nat /\ 0 \in Nat /\ DQ \in B /\ BS # DQ
  <2>1. DQ \in B
    BY DEF Quotable
  <2>2. BS # DQ
    BY DEF BS, DQ
  <2> QED
    BY <1>1, <2>1, <2>2
<1>4. CASE c = BS
  <2>1. QuoteChar(b, c) = [b EXCEPT !.slashes = n + 1]
    <3>1. QuoteChar(b, c) = [b EXCEPT !.slashes = b.slashes + 1]
      BY <1>3, <1>4 DEF QuoteChar
    <3> QED
      BY <1>1, <3>1
  <2>2. QuoteChar(b, c) = [out |-> o, slashes |-> n + 1]
    BY <1>1, <2>1
  <2> QED
    BY <1>1, <1>3, <2>2 DEF Writing
<1>5. CASE c = DQ
  <2> DEFINE v == o \o Repeated(2 * n + 1, BS) \o <<DQ>>
  <2>1. QuoteChar(b, c) = [out |-> v, slashes |-> 0]
    BY <1>1, <1>3, <1>5 DEF QuoteChar, o, n
  <2>2. v \in Seq(B)
    BY <1>2, <1>3
  <2> HIDE DEF v
  <2> QED
    BY <1>3, <2>1, <2>2 DEF Writing
<1>6. CASE c # BS /\ c # DQ
  <2> DEFINE v == o \o Repeated(n, BS) \o <<c>>
  <2>1. QuoteChar(b, c) = [out |-> v, slashes |-> 0]
    BY <1>6 DEF QuoteChar, o, n
  <2>2. v \in Seq(B)
    BY <1>1, <1>2
  <2> HIDE DEF v
  <2> QED
    BY <1>3, <2>1, <2>2 DEF Writing
<1> QED
  BY <1>4, <1>5, <1>6

\* Characters behind slashes are read as they stand for.
LEMMA ReadsBehind ==
  ASSUME NEW B, Quotable(B), NEW b, NEW o \in Seq(B), NEW A \in Seq(Seq(B)), NEW w \in Seq(B),
         Reads(B, b, o, State(A, w, 0, "quoted")), NEW k \in Nat, NEW c \in B
  PROVE  Reads(B, b, o \o Repeated(k, BS) \o <<c>>, Divide(State(A, w, k, "quoted"), c))
<1> DEFINE r == Repeated(k, BS)
           d == State(A, w, k, "quoted")
           e == State(A, w, 0, "quoted")
           u == o \o r
           l == <<c>>
<1>1. r \in Seq(B)
  BY RepeatedIs DEF Quotable
<1>2. d \in Dividing(B)
  BY DEF State, Dividing, Modes
<1>3. Reads(B, e, r, d)
  BY ReadsSlashes
<1>4. Reads(B, b, o, e)
  OBVIOUS
<1> HIDE DEF r, d, e
<1>5. Reads(B, d, l, Divide(d, c))
  BY <1>2, ReadsOne
<1>6. Reads(B, b, u, d)
  BY <1>1, <1>3, <1>4, ReadsOn
<1>7. u \in Seq(B) /\ l \in Seq(B)
  BY <1>1
<1> HIDE DEF u, l
<1>8. Reads(B, b, u \o l, Divide(d, c))
  BY <1>5, <1>6, <1>7, ReadsOn
<1> QED
  BY <1>8 DEF u, l, r, d

LEMMA WrittenOn ==
  ASSUME NEW B, Quotable(B), NEW A \in Seq(Seq(B)), NEW p \in Seq(B), NEW b, Written(B, A, p, b), NEW c \in B
  PROVE  Written(B, A, Append(p, c), QuoteChar(b, c))
<1> DEFINE o == b.out
           n == b.slashes
           s == State(A, <<>>, 0, "none")
           q == QuoteChar(b, c)
<1>1. o \in Seq(B) /\ n \in Nat /\ b.out = o /\ b.slashes = n /\ b \in Writing(B)
  BY DEF Written, Writing
<1>2. PICK w \in Seq(B) : p = w \o Repeated(n, BS) /\ Reads(B, s, o, State(A, w, 0, "quoted"))
  BY DEF Written
<1>3. q \in Writing(B)
  BY <1>1, QuoteCharTyped
<1>4. DQ \in B /\ BS # DQ /\ BS \in B
  <2>1. DQ \in B /\ BS \in B
    BY DEF Quotable
  <2>2. BS # DQ
    BY DEF BS, DQ
  <2> QED
    BY <2>1, <2>2
<1> HIDE DEF o, n, s
\* What is read where the backslashes are resolved.
<1>5. ASSUME NEW v \in Seq(B), v = Append(p, c), q.slashes = 0,
             Reads(B, s, q.out, State(A, v, 0, "quoted"))
      PROVE  Written(B, A, v, q)
  <2>1. Repeated(0, BS) = <<>>
    BY DEF Repeated
  <2>2. v = v \o Repeated(q.slashes, BS)
    BY <1>5, <2>1
  <2> QED
    BY <1>3, <1>5, <2>2 DEF Written, s
<1>6. Append(p, c) \in Seq(B)
  OBVIOUS
<1>7. CASE c = BS
  <2>1. q.slashes = n + 1 /\ q.out = o
    <3>1. QuoteChar(b, c) = [b EXCEPT !.slashes = b.slashes + 1]
      BY <1>4, <1>7 DEF QuoteChar
    <3> QED
      BY <1>1, <3>1 DEF Writing
  <2> HIDE DEF q
  <2>2. Append(w \o Repeated(n, BS), BS) = w \o Repeated(n + 1, BS)
    BY <1>1, <1>4, RepeatedBehind
  <2>5. Append(p, c) = w \o Repeated(q.slashes, BS)
    BY <1>2, <1>7, <2>1, <2>2, Zenon
  <2> QED
    BY <1>2, <1>3, <2>1, <2>5 DEF Written, s, q
<1>8. CASE c = DQ
  <2> DEFINE k == 2 * n + 1
  <2>1. q.out = o \o Repeated(k, BS) \o <<c>> /\ q.slashes = 0
    BY <1>1, <1>4, <1>8 DEF QuoteChar
  <2>2. k \in Nat /\ k % 2 = 1 /\ k \div 2 = n
    BY <1>1
  <2> HIDE DEF q, k
  <2>3. Reads(B, s, q.out, Divide(State(A, w, k, "quoted"), c))
    BY <1>1, <1>2, <2>1, <2>2, ReadsBehind
  <2>4. Divide(State(A, w, k, "quoted"), c) = State(A, Append(p, c), 0, "quoted")
    <3>1. Divide(State(A, w, k, "quoted"), DQ)
            = State(A, Append(w \o Repeated(k \div 2, BS), DQ), 0, Opened("quoted"))
      <4>1. k \in Nat /\ k % 2 = 1
        BY <2>2
      <4> QED
        BY <4>1, DivideQuoted, SMTT(30)
    <3>2. Opened("quoted") = "quoted"
      BY DEF Opened
    <3> QED
      BY <1>2, <1>8, <2>2, <3>1, <3>2
  <2> QED
    BY <1>5, <1>6, <2>1, <2>3, <2>4 DEF q
<1>9. CASE c # BS /\ c # DQ
  <2>1. q.out = o \o Repeated(n, BS) \o <<c>> /\ q.slashes = 0
    BY <1>1, <1>9 DEF QuoteChar
  <2> HIDE DEF q
  <2>3. Reads(B, s, q.out, Divide(State(A, w, n, "quoted"), c))
    BY <1>1, <1>2, <2>1, ReadsBehind
  <2>4. Divide(State(A, w, n, "quoted"), c) = State(A, Append(p, c), 0, "quoted")
    <3>1. Plain(c, "quoted")
      BY <1>9 DEF Plain
    <3>2. Divide(State(A, w, n, "quoted"), c)
            = State(A, Append(w \o Repeated(n, BS), c), 0, Opened("quoted"))
      BY <3>1, DivideOther
    <3>3. Opened("quoted") = "quoted"
      BY DEF Opened
    <3> QED
      BY <1>2, <3>2, <3>3
  <2> QED
    BY <1>5, <1>6, <2>1, <2>3, <2>4 DEF q
<1> QED
  BY <1>7, <1>8, <1>9

\* The fold of append_quoted.
Quoting == [out |-> <<DQ>>, slashes |-> 0]

QuoteRun(B, arg, f) ==
  /\ f \in [0 .. Len(arg) -> Writing(B)] /\ f[0] = Quoting
  /\ \A k \in 0 .. Len(arg) - 1 : f[k + 1] = QuoteChar(f[k], arg[k + 1])
  /\ FoldLeft(QuoteChar, Quoting, arg) = f[Len(arg)]

LEMMA QuoteAlong ==
  ASSUME NEW B, Quotable(B), NEW arg \in Seq(B)
  PROVE  \E f : QuoteRun(B, arg, f)
<1> DEFINE V == Writing(B)
           E == B
           step == [x \in V \X E |-> QuoteChar(x[1], x[2])]
           Solves(g) == g = [S \in SUBSET DOMAIN arg |->
             IF S = {} THEN Quoting ELSE QuoteChar(g[S \ {Max(S)}], arg[Max(S)])]
           c == CHOOSE g : Solves(g)
<1>1. Folding(V, E, Quoting, step)
  <2>1. \A x \in Writing(B) \X B : QuoteChar(x[1], x[2]) \in Writing(B)
    BY QuoteCharTyped
  <2>2. Quoting \in Writing(B)
    <3>1. DQ \in B /\ 0 \in Nat
      BY DEF Quotable
    <3>2. <<DQ>> \in Seq(B)
      BY <3>1
    <3> QED
      BY <3>1, <3>2 DEF Quoting, Writing
  <2> QED
    BY <2>1, <2>2 DEF Folding
<1>2. /\ arg \in Seq(E) /\ DOMAIN arg = 1 .. Len(arg)
      /\ Len(arg) \in Nat /\ \A i \in 1 .. Len(arg) : arg[i] \in E
  OBVIOUS
<1>3. \A S \in SUBSET DOMAIN arg : S # {} => Max(S) \in DOMAIN arg /\ S \ {Max(S)} \in SUBSET DOMAIN arg
  BY <1>2, MaxOfFinite
<1> HIDE DEF V, E
<1>4. \A x \in V, y \in E : step[<<x, y>>] = QuoteChar(x, y)
  OBVIOUS
<1> HIDE DEF step
<1>5. \E g : Solves(g)
  <2>1. PICK g : FoldsOver(g, Quoting, step, arg) /\ \A S \in SUBSET DOMAIN arg : g[S] \in V
    BY <1>1, <1>2, FoldExists
  <2>2. \A S \in SUBSET DOMAIN arg : S # {} =>
          step[<<g[S \ {Max(S)}], arg[Max(S)]>>] = QuoteChar(g[S \ {Max(S)}], arg[Max(S)])
    BY <1>2, <1>3, <1>4, <2>1
  <2>3. Solves(g)
    BY <2>1, <2>2 DEF FoldsOver
  <2> QED
    BY <2>3
<1>6. Solves(c)
  BY <1>5
<1> HIDE DEF c
<1>7. Follows(c, V, Quoting, step, arg)
  <2>1. c[{}] = Quoting
    BY <1>6
  <2>2. \A S \in SUBSET DOMAIN arg : S # {} /\ c[S \ {Max(S)}] \in V =>
          c[S] = step[<<c[S \ {Max(S)}], arg[Max(S)]>>]
    BY <1>2, <1>3, <1>4, <1>6
  <2> QED
    BY <2>1, <2>2 DEF Follows
<1>8. FoldLeft(QuoteChar, Quoting, arg) = c[DOMAIN arg]
  BY Zenon DEF FoldLeft, MapThenFoldSet, c, Solves
<1> HIDE DEF Solves
<1>9. PICK f \in [0 .. Len(arg) -> V] :
        /\ f[0] = Quoting /\ f[Len(arg)] = c[DOMAIN arg]
        /\ \A k \in 0 .. Len(arg) - 1 : f[k + 1] = step[<<f[k], arg[k + 1]>>]
  BY <1>1, <1>2, <1>7, FoldAlong
<1>10. \A k \in 0 .. Len(arg) - 1 : f[k + 1] = QuoteChar(f[k], arg[k + 1])
  <2> TAKE k \in 0 .. Len(arg) - 1
  <2>1. k \in 0 .. Len(arg) /\ k + 1 \in 1 .. Len(arg)
    BY <1>2
  <2> QED
    BY <1>2, <1>4, <1>9, <2>1
<1> QED
  BY <1>8, <1>9, <1>10 DEF V, QuoteRun

\* out is an argument as the child reads it, up to the blank or the end behind it.
Passed(B, A, out, arg) ==
  /\ out \in Seq(B)
  /\ \E w \in Seq(B), n \in Nat :
       /\ arg = w \o Repeated(n, BS)
       /\ Reads(B, State(A, <<>>, 0, "none"), out, State(A, w, n, "bare"))

LEMMA StateIs ==
  ASSUME NEW B, NEW A \in Seq(Seq(B)), NEW w \in Seq(B), NEW n \in Nat, NEW m \in Modes
  PROVE  State(A, w, n, m) \in Dividing(B)
BY DEF State, Dividing

LEMMA ModesAre == "none" \in Modes /\ "bare" \in Modes /\ "quoted" \in Modes
BY DEF Modes

\* The opening quote.
LEMMA WrittenFirst ==
  ASSUME NEW B, Quotable(B), NEW A \in Seq(Seq(B))
  PROVE  Written(B, A, <<>>, Quoting)
<1> DEFINE s == State(A, <<>>, 0, "none")
           e == State(A, <<>>, 0, "quoted")
<1>1. <<>> \in Seq(B) /\ DQ \in B /\ 0 \in Nat
  <2>1. DQ \in B
    BY DEF Quotable
  <2>2. <<>> \in Seq(B) /\ 0 \in Nat
    OBVIOUS
  <2> QED
    BY <2>1, <2>2
<1>2. Repeated(0, BS) = <<>> /\ <<>> = <<>> \o <<>>
  BY DEF Repeated
<1>3. Divide(s, DQ) = e
  <2>1. 0 % 2 # 1 /\ 0 \div 2 = 0
    OBVIOUS
  <2>2. Divide(s, DQ) = State(A, <<>> \o Repeated(0 \div 2, BS), 0, IF "none" = "quoted" THEN "bare" ELSE "quoted")
    BY <2>1, DivideQuote
  <2> QED
    BY <1>2, <2>1, <2>2
<1>4. s \in Dividing(B)
  BY <1>1, StateIs, ModesAre
<1> HIDE DEF s, e
<1>5. Reads(B, s, <<DQ>>, e)
  BY <1>1, <1>3, <1>4, ReadsOne
<1>6. <<DQ>> \in Seq(B)
  BY <1>1
<1>7. Quoting.out = <<DQ>> /\ Quoting.slashes = 0 /\ Quoting \in Writing(B)
  BY <1>1, <1>6 DEF Quoting, Writing
<1>8. <<>> = <<>> \o Repeated(Quoting.slashes, BS)
  BY <1>2, <1>7
<1> QED
  BY <1>1, <1>5, <1>7, <1>8 DEF Written, s, e

LEMMA WrittenAll ==
  ASSUME NEW B, Quotable(B), NEW A \in Seq(Seq(B)), NEW arg \in Seq(B)
  PROVE  Written(B, A, arg, FoldLeft(QuoteChar, Quoting, arg))
<1>1. PICK f : QuoteRun(B, arg, f)
  BY QuoteAlong, Zenon
<1> DEFINE n == Len(arg)
           P(k) == SubSeq(arg, 1, k)
           T == {k \in Nat : k <= n => Written(B, A, P(k), f[k])}
<1>2. /\ f[0] = Quoting /\ f[n] = FoldLeft(QuoteChar, Quoting, arg)
      /\ \A k \in 0 .. n - 1 : f[k + 1] = QuoteChar(f[k], arg[k + 1])
  BY <1>1 DEF QuoteRun
<1>3. n \in Nat /\ P(n) = arg /\ P(0) = <<>>
  OBVIOUS
<1>4. 0 \in T
  BY <1>2, <1>3, WrittenFirst
<1>5. ASSUME NEW k \in Nat, k \in T PROVE k + 1 \in T
  <2>1. k + 1 \in Nat
    OBVIOUS
  <2> SUFFICES ASSUME k + 1 <= n PROVE Written(B, A, P(k + 1), f[k + 1])
    BY <2>1
  <2>2. k < n /\ k <= n /\ k \in 0 .. n - 1
    BY <1>3
  <2>3. P(k) \in Seq(B) /\ arg[k + 1] \in B /\ P(k + 1) = Append(P(k), arg[k + 1])
    BY <2>2, PrefixGrows
  <2>4. Written(B, A, P(k), f[k])
    BY <1>5, <2>2
  <2> DEFINE p == P(k)
             q == P(k + 1)
             b == f[k]
             c == arg[k + 1]
  <2>5. p \in Seq(B) /\ c \in B /\ q = Append(p, c) /\ Written(B, A, p, b)
    BY <2>3, <2>4
  <2>6. f[k + 1] = QuoteChar(b, c)
    BY <1>2, <2>2
  <2> HIDE DEF p, q, b, c
  <2>7. Written(B, A, Append(p, c), QuoteChar(b, c))
    BY <2>5, WrittenOn
  <2>8. Written(B, A, q, f[k + 1])
    BY <2>5, <2>6, <2>7
  <2> QED
    BY <2>8 DEF q
<1> HIDE DEF T
<1>6. n \in T /\ n <= n
  <2>1. Nat \subseteq T
    BY <1>4, <1>5, SetInduction
  <2> QED
    BY <1>3, <2>1
<1> QED
  BY <1>2, <1>3, <1>6 DEF T

LEMMA QuotedPassed ==
  ASSUME NEW B, Quotable(B), NEW A \in Seq(Seq(B)), NEW arg \in Seq(B)
  PROVE  LET b == FoldLeft(QuoteChar, Quoting, arg) IN
         Passed(B, A, b.out \o Closing(b.slashes), arg)
<1> DEFINE b == FoldLeft(QuoteChar, Quoting, arg)
           o == b.out
           n == b.slashes
           s == State(A, <<>>, 0, "none")
<1>1. Written(B, A, arg, b)
  BY WrittenAll
<1> HIDE DEF b
<1>2. o \in Seq(B) /\ n \in Nat
  BY <1>1 DEF Written, Writing
<1>3. PICK w \in Seq(B) : arg = w \o Repeated(n, BS) /\ Reads(B, s, o, State(A, w, 0, "quoted"))
  BY <1>1 DEF Written
<1> DEFINE r == Repeated(2 * n, BS)
           k == 2 * n
           e == State(A, arg, 0, "bare")
<1>4. k \in Nat /\ k % 2 # 1 /\ k \div 2 = n
  BY <1>2
<1> HIDE DEF o, n, s
<1>5. DQ \in B /\ BS \in B
  BY DEF Quotable
<1> HIDE DEF k
<1>6. Reads(B, s, o \o Repeated(k, BS) \o <<DQ>>, Divide(State(A, w, k, "quoted"), DQ))
  BY <1>2, <1>3, <1>4, <1>5, ReadsBehind
<1>7. Divide(State(A, w, k, "quoted"), DQ) = e
  <2>1. Divide(State(A, w, k, "quoted"), DQ)
          = State(A, w \o Repeated(k \div 2, BS), 0, IF "quoted" = "quoted" THEN "bare" ELSE "quoted")
    BY <1>4, DivideQuote, SMTT(30)
  <2> QED
    BY <1>3, <1>4, <2>1
<1>8. r = Repeated(k, BS) /\ r \in Seq(B) /\ <<DQ>> \in Seq(B)
  <2>1. Repeated(k, BS) \in Seq(B)
    BY <1>4, <1>5, RepeatedIs
  <2>2. <<DQ>> \in Seq(B)
    BY <1>5
  <2> QED
    BY <2>1, <2>2 DEF k
<1> DEFINE l == <<DQ>>
<1> HIDE DEF r, e, l
<1>9. o \o (r \o l) = (o \o r) \o l /\ o \o (r \o l) \in Seq(B)
  BY <1>2, <1>8 DEF l
<1>10. Closing(n) = r \o l
  BY DEF Closing, r, l
<1>11. Reads(B, s, o \o Closing(n), e)
  BY <1>6, <1>7, <1>8, <1>9, <1>10 DEF l
<1>12. Repeated(0, BS) = <<>> /\ arg = arg \o <<>> /\ 0 \in Nat
  BY DEF Repeated
<1>13. arg = arg \o Repeated(0, BS)
  BY <1>12
<1> QED
  BY <1>9, <1>10, <1>11, <1>12, <1>13 DEF Passed, e, s, o, n, b

\* An argument that needs no quotes.
Bare(B, A, p, m) ==
  \E w \in Seq(B), n \in Nat :
    /\ p = w \o Repeated(n, BS)
    /\ Reads(B, State(A, <<>>, 0, "none"), p, State(A, w, n, m))

Unquotable(c) == c = DQ \/ c = " "

LEMMA BareOn ==
  ASSUME NEW B, Quotable(B), NEW A \in Seq(Seq(B)), NEW p \in Seq(B),
         NEW m \in Modes, m # "quoted", Bare(B, A, p, m), NEW c \in B, ~Unquotable(c)
  PROVE  Bare(B, A, Append(p, c), "bare")
<1> DEFINE s == State(A, <<>>, 0, "none")
           q == Append(p, c)
<1>1. PICK w \in Seq(B), n \in Nat : p = w \o Repeated(n, BS) /\ Reads(B, s, p, State(A, w, n, m))
  BY DEF Bare
<1> DEFINE d == State(A, w, n, m)
           l == <<c>>
<1>2. d \in Dividing(B) /\ Opened(m) = "bare"
  <2>1. Opened(m) = "bare"
    BY DEF Opened, Modes
  <2> QED
    BY <2>1, StateIs
<1> HIDE DEF s
<1>3. l \in Seq(B) /\ p \o l = q /\ q \in Seq(B)
  BY AppendIs
<1>4. Reads(B, s, p, d)
  BY <1>1
<1> HIDE DEF d
<1>5. Reads(B, d, l, Divide(d, c))
  BY <1>2, ReadsOne
<1> HIDE DEF l
<1>6. Reads(B, s, p \o l, Divide(d, c))
  BY <1>3, <1>4, <1>5, ReadsOn
<1>7. Reads(B, s, q, Divide(d, c))
  BY <1>3, <1>6
<1>8. CASE c = BS
  <2>1. Divide(d, c) = State(A, w, n + 1, "bare")
    <3>1. Divide(State(A, w, n, m), BS) = State(A, w, n + 1, Opened(m))
      BY DivideSlash
    <3> QED
      BY <1>2, <1>8, <3>1 DEF d
  <2>2. q = w \o Repeated(n + 1, BS)
    BY <1>1, <1>8, RepeatedBehind
  <2>3. n + 1 \in Nat
    OBVIOUS
  <2> HIDE DEF q
  <2>4. Reads(B, s, q, State(A, w, n + 1, "bare"))
    BY <1>7, <2>1
  <2> QED
    BY <2>2, <2>3, <2>4 DEF Bare, s, q
<1>9. CASE c # BS
  <2>1. Divide(d, c) = State(A, q, 0, "bare")
    <3>1. Plain(c, m)
      BY <1>9, Zenon DEF Plain, Unquotable
    <3>2. Divide(State(A, w, n, m), c) = State(A, Append(w \o Repeated(n, BS), c), 0, Opened(m))
      BY <3>1, DivideOther
    <3> QED
      BY <1>1, <1>2, <3>2 DEF d
  <2> HIDE DEF q
  <2>2. Repeated(0, BS) = <<>> /\ q = q \o <<>> /\ 0 \in Nat
    BY <1>3 DEF Repeated
  <2>3. q = q \o Repeated(0, BS)
    BY <2>2
  <2>4. Reads(B, s, q, State(A, q, 0, "bare"))
    BY <1>7, <2>1
  <2> QED
    BY <1>3, <2>2, <2>3, <2>4 DEF Bare, s, q
<1> QED
  BY <1>8, <1>9

Unquoted(arg) == arg # <<>> /\ ToSet(arg) \cap {" ", DQ} = {}

LEMMA BarePassed ==
  ASSUME NEW B, Quotable(B), NEW A \in Seq(Seq(B)), NEW arg \in Seq(B), Unquoted(arg)
  PROVE  Passed(B, A, arg, arg)
<1> DEFINE n == Len(arg)
           P(k) == SubSeq(arg, 1, k)
           M(k) == IF k = 0 THEN "none" ELSE "bare"
           T == {k \in Nat : k <= n => Bare(B, A, P(k), M(k))}
<1>1. n \in Nat /\ n # 0 /\ P(n) = arg /\ P(0) = <<>>
  <2>1. arg # <<>>
    BY DEF Unquoted
  <2> QED
    BY <2>1
<1>2. 0 \in T
  <2> DEFINE s == State(A, <<>>, 0, "none")
  <2>1. <<>> \in Seq(B) /\ 0 \in Nat
    OBVIOUS
  <2>2. BS \in B
    BY DEF Quotable
  <2>3. s \in Dividing(B)
    BY <2>1, StateIs, ModesAre
  <2>4. Reads(B, s, <<>>, s)
    <3> HIDE DEF s
    <3> QED
      BY <2>2, <2>3, ReadsOne
  <2>5. Repeated(0, BS) = <<>> /\ <<>> = <<>> \o <<>>
    BY DEF Repeated
  <2>6. <<>> = <<>> \o Repeated(0, BS)
    BY <2>5
  <2>7. Bare(B, A, <<>>, "none")
    BY <2>1, <2>4, <2>6 DEF Bare
  <2> QED
    BY <1>1, <2>7
<1>3. ASSUME NEW k \in Nat, k \in T PROVE k + 1 \in T
  <2>1. k + 1 \in Nat /\ M(k + 1) = "bare"
    OBVIOUS
  <2> SUFFICES ASSUME k + 1 <= n PROVE Bare(B, A, P(k + 1), "bare")
    BY <2>1
  <2>2. k < n /\ k <= n
    BY <1>1
  <2>3. P(k) \in Seq(B) /\ arg[k + 1] \in B /\ P(k + 1) = Append(P(k), arg[k + 1])
    BY <2>2, PrefixGrows
  <2>4. Bare(B, A, P(k), M(k)) /\ M(k) \in Modes /\ M(k) # "quoted"
    BY <1>3, <2>2, ModesAre
  <2>5. ~Unquotable(arg[k + 1])
    <3>1. k + 1 \in DOMAIN arg
      BY <2>2
    <3>2. arg[k + 1] \in ToSet(arg)
      BY <3>1 DEF ToSet
    <3> QED
      BY <3>2, Zenon DEF Unquoted, Unquotable
  <2> DEFINE p == P(k)
             q == P(k + 1)
             m == M(k)
             c == arg[k + 1]
  <2>6. /\ p \in Seq(B) /\ c \in B /\ q = Append(p, c) /\ ~Unquotable(c)
        /\ Bare(B, A, p, m) /\ m \in Modes /\ m # "quoted"
    BY <2>3, <2>4, <2>5
  <2> HIDE DEF p, q, m, c
  <2>7. Bare(B, A, q, "bare")
    BY <2>6, BareOn
  <2> QED
    BY <2>7 DEF q
<1> HIDE DEF T
<1>4. n \in T /\ n <= n
  <2>1. Nat \subseteq T
    BY <1>2, <1>3, SetInduction
  <2> QED
    BY <1>1, <2>1
<1>5. Bare(B, A, arg, "bare")
  BY <1>1, <1>4 DEF T
<1> QED
  BY <1>5 DEF Bare, Passed

LEMMA ArgumentPassed ==
  ASSUME NEW B, Quotable(B), NEW A \in Seq(Seq(B)), NEW arg \in Seq(B)
  PROVE  Passed(B, A, Quoted(arg), arg)
<1> DEFINE b == FoldLeft(QuoteChar, Quoting, arg)
<1>1. CASE Unquoted(arg)
  <2>1. Quoted(arg) = arg
    BY <1>1, Zenon DEF Quoted, Unquoted
  <2> QED
    BY <1>1, <2>1, BarePassed
<1>2. CASE ~Unquoted(arg)
  <2>1. Quoted(arg) = b.out \o Closing(b.slashes)
    BY <1>2, Zenon DEF Quoted, Quoting, Unquoted
  <2> QED
    BY <2>1, QuotedPassed, Zenon
<1> QED
  BY <1>1, <1>2

\* The arguments before the last one are complete, and the last one is as it was.
LinePassed(B, args, k, line) ==
  /\ line \in Seq(B)
  /\ \E w \in Seq(B), n \in Nat :
       /\ args[k + 1] = w \o Repeated(n, BS)
       /\ Reads(B, Start, line, State(SubSeq(args, 1, k), w, n, "bare"))

IsBlank(s) == s = <<" ">>

LEMMA LineOn ==
  ASSUME NEW B, Quotable(B), NEW args \in Seq(Seq(B)), NEW k \in Nat, k + 2 <= Len(args),
         NEW line, LinePassed(B, args, k, line), NEW blank, IsBlank(blank)
  PROVE  LinePassed(B, args, k + 1, JoinedTo(line, Quoted(args[k + 2]), blank))
<1> DEFINE A == SubSeq(args, 1, k)
           C == SubSeq(args, 1, k + 1)
           S == Seq(B)
<1>1. PICK w \in Seq(B), n \in Nat :
        args[k + 1] = w \o Repeated(n, BS) /\ Reads(B, Start, line, State(A, w, n, "bare"))
  BY DEF LinePassed
<1>2. line \in Seq(B)
  BY DEF LinePassed
<1>3. A \in Seq(S) /\ C \in Seq(S) /\ C = Append(A, args[k + 1]) /\ args[k + 1] \in S /\ args[k + 2] \in S
  <2>1. args \in Seq(S)
    OBVIOUS
  <2> HIDE DEF S
  <2>2. k < Len(args) /\ k + 1 \in Nat /\ k + 1 < Len(args) /\ (k + 1) + 1 = k + 2
    BY <2>1
  <2>3. A \in Seq(S) /\ C = Append(A, args[k + 1]) /\ args[k + 1] \in S
    BY <2>1, <2>2, PrefixGrows
  <2>4. C \in Seq(S) /\ args[(k + 1) + 1] \in S
    BY <2>1, <2>2, PrefixGrows
  <2> QED
    BY <2>2, <2>3, <2>4
<1> DEFINE d == State(A, w, n, "bare")
           e == State(C, <<>>, 0, "none")
           b == " "
           arg == args[k + 2]
           q == Quoted(arg)
<1>4. Divide(d, " ") = e
  <2>1. Divide(d, " ")
          = State(IF "bare" = "none" THEN A ELSE Append(A, w \o Repeated(n, BS)), <<>>, 0, "none")
    BY DivideBlank
  <2> QED
    BY <1>1, <1>3, <2>1
<1>5. d \in Dividing(B)
  BY <1>3, StateIs, ModesAre
<1>6. b \in B
  BY Zenon DEF Quotable
<1>7. Passed(B, C, q, arg)
  BY <1>3, ArgumentPassed
<1> HIDE DEF A, C, d, b, arg, q
<1>8. PICK v \in Seq(B), m \in Nat : arg = v \o Repeated(m, BS) /\ Reads(B, e, q, State(C, v, m, "bare"))
  BY <1>7 DEF Passed
<1>9. q \in Seq(B)
  BY <1>7 DEF Passed
<1> HIDE DEF e
<1>10. Divide(d, b) = e /\ blank = <<b>>
  BY <1>4, Zenon DEF IsBlank, b
<1>11. blank \in Seq(B) /\ line \o blank \in Seq(B) /\ (line \o blank) \o q \in Seq(B)
  BY <1>2, <1>6, <1>9, <1>10
<1>12. Reads(B, d, blank, e)
  <2>1. Reads(B, d, <<b>>, Divide(d, b))
    BY <1>5, <1>6, ReadsOne
  <2> QED
    BY <1>10, <2>1
<1>13. Reads(B, Start, line \o blank, e)
  <2>1. Reads(B, Start, line, d)
    BY <1>1 DEF d
  <2> QED
    BY <1>2, <1>11, <1>12, <2>1, ReadsOn
<1>14. Reads(B, Start, (line \o blank) \o q, State(C, v, m, "bare"))
  BY <1>8, <1>9, <1>11, <1>13, ReadsOn
<1>15. args[(k + 1) + 1] = arg
  <2>1. (k + 1) + 1 = k + 2
    OBVIOUS
  <2> QED
    BY <2>1 DEF arg
<1>16. JoinedTo(line, q, blank) = (line \o blank) \o q
  BY DEF JoinedTo
<1>17. LinePassed(B, args, k + 1, JoinedTo(line, q, blank))
  BY <1>8, <1>11, <1>14, <1>15, <1>16 DEF LinePassed, C
<1> QED
  BY <1>17 DEF q, arg

LEMMA LineFirst ==
  ASSUME NEW B, Quotable(B), NEW args \in Seq(Seq(B)), args # <<>>
  PROVE  LinePassed(B, args, 0, Quoted(args[1]))
<1> DEFINE A == SubSeq(args, 1, 0)
           arg == args[1]
           q == Quoted(arg)
           S == Seq(B)
<1>1. arg \in S /\ A = <<>> /\ A \in Seq(S)
  <2>1. args \in Seq(S)
    OBVIOUS
  <2> HIDE DEF S
  <2>2. 1 \in 1 .. Len(args)
    BY <2>1
  <2> QED
    BY <2>1, <2>2
<1>2. Passed(B, A, q, arg)
  BY <1>1, ArgumentPassed
<1>3. State(A, <<>>, 0, "none") = Start /\ 0 + 1 = 1
  <2>1. State(A, <<>>, 0, "none") = Start
    BY <1>1, Zenon DEF Start
  <2> QED
    BY <2>1
<1> HIDE DEF A, q
<1>4. LinePassed(B, args, 0, q)
  BY <1>2, <1>3 DEF LinePassed, Passed, A
<1> QED
  BY <1>4 DEF q

\* However many arguments there are, and whatever they hold.
LEMMA LineArrives ==
  ASSUME NEW B, Quotable(B), NEW args \in Seq(Seq(B)), args # <<>>
  PROVE  Divided(CommandLineOf(args)) = args
<1> DEFINE parts == [i \in DOMAIN args |-> Quoted(args[i])]
           blank == <<" ">>
           n == Len(args)
           S == Seq(B)
<1>1. IsBlank(blank) /\ blank \in Seq(B)
  <2> DEFINE b == " "
  <2>1. b \in B
    BY Zenon DEF Quotable
  <2>2. blank = <<b>>
    BY Zenon
  <2> HIDE DEF b, blank
  <2>3. blank \in Seq(B)
    BY <2>1, <2>2
  <2> QED
    BY <2>3, Zenon DEF IsBlank, blank
<1>2. CommandLineOf(args) = JoinBy(parts, blank)
  BY Zenon DEF CommandLineOf
<1> HIDE DEF blank
<1>3. n \in Nat /\ n > 0 /\ DOMAIN args = 1 .. n /\ args \in Seq(S) /\ \A i \in 1 .. n : args[i] \in S
  <2> args \in Seq(S)
    OBVIOUS
  <2> HIDE DEF S
  <2> QED
    OBVIOUS
<1>4. \A i \in 1 .. n : Quoted(args[i]) \in S
  <2> TAKE i \in 1 .. n
  <2>1. <<>> \in Seq(S) /\ args[i] \in S
    BY <1>3
  <2>2. Passed(B, <<>>, Quoted(args[i]), args[i])
    BY <2>1, ArgumentPassed
  <2> QED
    BY <2>2 DEF Passed
<1> HIDE DEF n, S
<1>5. parts \in Seq(S) /\ Len(parts) = n /\ \A i \in 1 .. n : parts[i] = Quoted(args[i])
  BY <1>3, <1>4
<1> HIDE DEF parts
<1>6. parts # <<>>
  BY <1>3, <1>5
<1>7. PICK f : JoinRun(B, parts, blank, f)
  <2>1. parts \in Seq(Seq(B))
    BY <1>5 DEF S
  <2> QED
    BY <1>1, <1>6, <2>1, JoinAlong, Zenon
<1>8. /\ f[0] = Quoted(args[1])
      /\ \A k \in 0 .. n - 2 : f[k + 1] = JoinedTo(f[k], Quoted(args[k + 2]), blank)
      /\ JoinBy(parts, blank) = f[n - 1]
  <2>1. /\ f[0] = parts[1] /\ JoinBy(parts, blank) = f[n - 1]
        /\ \A k \in 0 .. n - 2 : f[k + 1] = JoinedTo(f[k], parts[k + 2], blank)
    BY <1>5, <1>7 DEF JoinRun
  <2>2. \A k \in 0 .. n - 2 : k + 2 \in 1 .. n
    BY <1>3
  <2>3. 1 \in 1 .. n
    BY <1>3
  <2> QED
    BY <1>5, <2>1, <2>2, <2>3
<1> DEFINE T == {k \in Nat : k < n => LinePassed(B, args, k, f[k])}
<1>9. 0 \in T
  BY <1>8, LineFirst
<1>10. ASSUME NEW k \in Nat, k \in T PROVE k + 1 \in T
  <2>1. k + 1 \in Nat
    OBVIOUS
  <2> SUFFICES ASSUME k + 1 < n PROVE LinePassed(B, args, k + 1, f[k + 1])
    BY <2>1
  <2>2. k < n /\ k + 2 <= n /\ k \in 0 .. n - 2
    BY <1>3
  <2>3. LinePassed(B, args, k, f[k])
    BY <1>10, <2>2
  <2>4. k + 2 <= Len(args)
    BY <2>2 DEF n
  <2>5. LinePassed(B, args, k + 1, JoinedTo(f[k], Quoted(args[k + 2]), blank))
    BY <1>1, <2>3, <2>4, LineOn
  <2> QED
    BY <1>8, <2>2, <2>5
<1> HIDE DEF T
<1> DEFINE m == n - 1
<1>11. m \in Nat /\ m < n /\ m + 1 = n
  BY <1>3
<1> HIDE DEF m
<1>12. LinePassed(B, args, m, f[m])
  <2>1. Nat \subseteq T
    BY <1>9, <1>10, SetInduction
  <2>2. m \in T
    BY <1>11, <2>1
  <2> QED
    BY <1>11, <2>2 DEF T
<1>13. PICK w \in Seq(B), k \in Nat :
          args[m + 1] = w \o Repeated(k, BS) /\ Reads(B, Start, f[m], State(SubSeq(args, 1, m), w, k, "bare"))
  BY <1>12 DEF LinePassed
<1> DEFINE e == State(SubSeq(args, 1, m), w, k, "bare")
<1>14. Divided(f[m]) = Ended(e)
  <2>1. f[m] \in Seq(B) /\ Reads(B, Start, f[m], e)
    BY <1>12, <1>13 DEF LinePassed
  <2> HIDE DEF e
  <2> QED
    BY <2>1, ReadsDivided
<1>15. Ended(e) = Append(SubSeq(args, 1, m), w \o Repeated(k, BS))
  BY DEF Ended, State
<1>16. Append(SubSeq(args, 1, m), args[m + 1]) = args
  <2>1. SubSeq(args, 1, m + 1) = Append(SubSeq(args, 1, m), args[m + 1])
    <3>1. m < Len(args)
      BY <1>11 DEF n
    <3> QED
      BY <1>3, <1>11, <3>1, PrefixGrows
  <2>2. SubSeq(args, 1, n) = args
    BY <1>3 DEF n
  <2> QED
    BY <1>11, <2>1, <2>2
<1>17. CommandLineOf(args) = f[m]
  BY <1>2, <1>8 DEF m
<1> QED
  BY <1>13, <1>14, <1>15, <1>16, <1>17, Zenon

LEMMA ArrivesWhole ==
  ASSUME NEW C, NEW t \in Seq(C)
  PROVE  ArgumentsArrive(t)
<1> DEFINE B == C \cup {BS, DQ, " "}
           args == SplitAt(t, {"|"})
<1>1. Quotable(B) /\ C \subseteq B
  BY Zenon DEF Quotable
<1> HIDE DEF B
<1>2. t \in Seq(B)
  BY <1>1
<1>3. args \in Seq(Seq(B)) /\ args # <<>>
  BY <1>2, SplitsOff
<1> HIDE DEF args
<1>4. Divided(CommandLineOf(args)) = args
  BY <1>1, <1>3, LineArrives
<1>5. /\ HandleAt(CrtBlock(Descriptors), 3) = "cmd_read"
      /\ HandleAt(CrtBlock(Descriptors), 4) = "resp_write"
  BY DEF HandleAt, CrtBlock, Descriptors
<1> QED
  BY <1>4, <1>5, Zenon DEF ArgumentsArrive, args

-----------------------------------------------------------------------------
\* Every document is a text over the tokens of its part.

TextsTyped == doc \in Seq(part[2])

LEMMA TextsGrow == TextsSpec => []TextsTyped
<1>1. TextsInit => TextsTyped
  BY DEF TextsInit, TextsTyped
<1>2. TextsTyped /\ [TextsNext]_<<part, doc>> => TextsTyped'
  <2> SUFFICES ASSUME TextsTyped, [TextsNext]_<<part, doc>> PROVE TextsTyped'
    OBVIOUS
  <2>1. CASE TextsNext
    <3>1. PICK t \in part[2] : doc' = Append(doc, t) /\ part' = part
      BY <2>1 DEF TextsNext
    <3> DEFINE C == part[2]
    <3>2. doc \in Seq(C) /\ t \in C
      BY <3>1 DEF TextsTyped
    <3> HIDE DEF C
    <3>3. Append(doc, t) \in Seq(C)
      BY <3>2
    <3> QED
      BY <3>1, <3>3 DEF C, TextsTyped
  <2>2. CASE UNCHANGED <<part, doc>>
    BY <2>2 DEF TextsTyped
  <2> QED
    BY <2>1, <2>2
<1> QED
  BY <1>1, <1>2, PTL DEF TextsSpec

\* cdp.rs: for every stream over any bytes, cut into reads anywhere, FrameReader
\* returns its frames; and for any number of arguments with any quotes, blanks and
\* backslashes in them, the command line of win_spawn is divided into them again.
THEOREM InputsReadHolds == TextsSpec => []InputsRead
<1>1. TextsTyped => InputsRead
  <2> SUFFICES ASSUME TextsTyped PROVE InputsRead
    OBVIOUS
  <2> DEFINE C == part[2]
  <2>1. doc \in Seq(C)
    BY DEF TextsTyped
  <2> HIDE DEF C
  <2>2. FramesIgnoreReads(doc) /\ ArgumentsArrive(doc)
    BY <2>1, ReadsWhole, ArrivesWhole
  <2> QED
    BY <2>2 DEF InputsRead, FramesWhole, CommandLineKept
<1> QED
  BY <1>1, TextsGrow, PTL

=============================================================================
