----------------------------- MODULE Connection -----------------------------
(***************************************************************************)
(* One accepted connection of the server: handle_connection in server.c,   *)
(* the dispatch of its epoll events in main, the buffer it reads requests  *)
(* into and writes responses from, and, as its environment, the kernel     *)
(* socket, the edge-triggered epoll item and the peer.                     *)
(*                                                                         *)
(* The handler runs on one thread but every recv and send is a system      *)
(* call, and the peer and the kernel move between any two of them: each    *)
(* call is a step of its own.                                              *)
(*                                                                         *)
(* Data.  The byte stream is cut into units.  A unit of a request is       *)
(* "more" (the request goes on), "last" (it carries the blank line that    *)
(* ends the request) or "junk" (the parser rejects what precedes it and    *)
(* it).  A unit of a response is "reply".  "at" is the unit's position in  *)
(* its stream, so that a lost, repeated or misplaced unit shows.           *)
(***************************************************************************)
EXTENDS Integers, Sequences, FiniteSets

CONSTANTS
  PageSize,     \* buffer_page_size: units that fit one page of the read loop
  SizeModulus,  \* size_t arithmetic wraps at this value
  MaxUnits,     \* bound: units the peer sends over the connection's life
  MaxReply,     \* bound: units of the longest rendered response
  SendSpace,    \* units the kernel's send queue holds
  PeerMay       \* what the peer does besides asking one thing at a time

ASSUME ConnectionAssumption ==
  /\ PageSize \in Nat \ {0}
  /\ MaxUnits \in Nat
  /\ MaxReply \in Nat \ {0}
  /\ SendSpace \in Nat \ {0}
  /\ SizeModulus \in Nat
  /\ SizeModulus > MaxUnits + MaxReply
  /\ PeerMay \subseteq {"pipeline", "shutdown", "reset"}

VARIABLES
  \* the peer and the kernel
  inq,       \* units received by the kernel and not yet by the server
  eof,       \* the peer has shut its side down
  reset,     \* the connection has been reset
  outq,      \* units given to the kernel and not yet taken by the peer
  nospace,   \* a send found the queue full: the next free slot is an event
  edge,      \* the item is in epoll's ready list
  sent,      \* units the peer has sent
  asked,     \* messages (ended by "last" or "junk") the peer has sent
  taken,     \* reply units the peer has taken
  \* the thread
  pc,        \* where the thread is with this connection
  event,     \* events[i].events of the batch being dispatched
  page, offset, total, scratch,  \* locals of the read loop
  \* struct connection_information
  state,     \* "waiting" = WaitingRequest, "writing" = WritingResponse
  mem,       \* the block buffer.buffer; its length is buffer.capability
  start, end,\* buffer.start, buffer.end
  \* history
  consumed,  \* request units turned into responses
  replies,   \* responses rendered
  rendered   \* reply units rendered

socket == <<inq, eof, reset, outq, nospace, edge>>
peer == <<sent, asked, taken>>
locals == <<page, offset, total, scratch>>
connection == <<state, mem, start, end>>
history == <<consumed, replies, rendered>>
vars == <<inq, eof, reset, outq, nospace, edge, sent, asked, taken, pc, event,
          page, offset, total, scratch, state, mem, start, end,
          consumed, replies, rendered>>

-----------------------------------------------------------------------------
(* Units and memory                                                        *)

Kinds == {"more", "last", "junk", "reply", "none"}
Unit == [kind : Kinds, at : Nat]
Garbage == [kind |-> "none", at |-> 0]   \* what malloc and realloc leave
Ends == {"last", "junk"}

Smaller(a, b) == IF a < b THEN a ELSE b

(* Mutant of Wrap: an overflowing sum is kept as it is.                    *)
WrapNoCarry(x) == IF x < 0 THEN x + SizeModulus ELSE x

(* A sum or difference of two size_t values.                               *)
Wrap(x) == IF x < 0 THEN x + SizeModulus
           ELSE IF x >= SizeModulus THEN x - SizeModulus ELSE x

(* realloc: the old contents, then whatever was in the heap.               *)
Realloc(m, n) == [i \in 1 .. n |-> IF i <= Len(m) THEN m[i] ELSE Garbage]

(* memcpy of data to offset "to" of the block m.                           *)
CopyIn(m, to, data) ==
  [i \in 1 .. Len(m) |-> IF i \in to + 1 .. to + Len(data) THEN data[i - to]
                                                           ELSE m[i]]

(* memmove of n units at offset "from" to the beginning of the block.      *)
MoveDown(m, from, n) == [i \in 1 .. Len(m) |-> IF i <= n THEN m[i + from] ELSE m[i]]

ReplyUnits(n) == [i \in 1 .. n |-> [kind |-> "reply", at |-> rendered + i]]

-----------------------------------------------------------------------------
(* The read loop's result, gathered into the connection's buffer           *)

Effective == end - start
Copied == page * PageSize + offset

(* The block is resized so that exactly the effective part and the data of *)
(* this round fit; "extra" is negative, that is wrapped, when it shrinks.  *)
NewCapability ==
  LET available == Wrap(Len(mem) - Effective)
      extra     == Wrap(total - available)
  IN  Wrap(Len(mem) + extra)

(* Mutant of Gathered: the new data goes to the beginning of the block.    *)
GatheredOverwrites ==
  CopyIn(Realloc(MoveDown(mem, start, Effective), NewCapability),
         0, SubSeq(scratch, 1, Copied))

Gathered ==
  CopyIn(Realloc(MoveDown(mem, start, Effective), NewCapability),
         Effective, SubSeq(scratch, 1, Copied))
GatheredEnd == Effective + Copied

(* Mutants of Parse: an incomplete request is refused; a malformed one is  *)
(* taken for incomplete.                                                   *)
ParseImpatient(data) ==
  IF data # <<>> /\ data[Len(data)].kind = "last" THEN "succeed" ELSE "error"
ParseLenient(data) ==
  IF data # <<>> /\ data[Len(data)].kind = "last" THEN "succeed" ELSE "incomplete"

(* http_request_from_buffer: the request must end exactly where the buffer *)
(* does, and nothing before its end may be malformed.                      *)
Parse(data) ==
  LET ending == {i \in DOMAIN data : data[i].kind \in Ends}
      first  == CHOOSE i \in ending : \A j \in ending : i <= j
  IN  IF ending = {} THEN "incomplete"
      ELSE IF data[first].kind = "last" /\ first = Len(data) THEN "succeed"
      ELSE "error"

-----------------------------------------------------------------------------
(* The peer and the kernel (external)                                      *)

Open == pc # "closed"

(* A peer that does not pipeline sends a unit only when every message it   *)
(* finished has been answered and the answer has reached it.               *)
MayAsk == "pipeline" \in PeerMay \/ (asked = replies /\ taken = rendered)

PeerSend(kind) ==
  /\ Open /\ ~eof /\ ~reset
  /\ sent < MaxUnits
  /\ MayAsk
  /\ sent' = sent + 1
  /\ asked' = IF kind \in Ends THEN asked + 1 ELSE asked
  /\ inq' = Append(inq, [kind |-> kind, at |-> sent + 1])
  /\ edge' = TRUE
  /\ UNCHANGED <<eof, reset, outq, nospace, taken, pc, event, locals,
                 connection, history>>

(* The peer takes a unit; the room it makes is an edge only if a send was  *)
(* refused since the last one.                                             *)
PeerTake ==
  /\ Open /\ outq # <<>>
  /\ taken' = taken + 1
  /\ outq' = Tail(outq)
  /\ edge' = (edge \/ nospace)
  /\ nospace' = FALSE
  /\ UNCHANGED <<inq, eof, reset, sent, asked, pc, event, locals, connection,
                 history>>

PeerShutdown ==
  /\ "shutdown" \in PeerMay
  /\ Open /\ ~eof /\ ~reset
  /\ eof' = TRUE
  /\ edge' = TRUE
  /\ UNCHANGED <<inq, reset, outq, nospace, peer, pc, event, locals,
                 connection, history>>

PeerReset ==
  /\ "reset" \in PeerMay
  /\ Open /\ ~reset
  /\ reset' = TRUE
  /\ edge' = TRUE
  /\ UNCHANGED <<inq, eof, outq, nospace, peer, pc, event, locals,
                 connection, history>>

(* The readiness epoll reports, of the events the connection subscribed to *)
Mask ==
  (IF inq # <<>> \/ eof \/ reset THEN {"IN"} ELSE {})
    \union (IF Len(outq) < SendSpace \/ reset THEN {"OUT"} ELSE {})
    \union (IF eof \/ reset THEN {"RDHUP"} ELSE {})
    \union (IF reset THEN {"ERR", "HUP"} ELSE {})

-----------------------------------------------------------------------------
(* The server's thread                                                     *)

(* destroy_file_information: the descriptor is closed and all that the     *)
(* connection owns is freed.                                               *)
Destroy ==
  /\ pc' = "closed"
  /\ event' = {}
  /\ page' = 0 /\ offset' = 0 /\ total' = 0 /\ scratch' = <<>>
  /\ state' = "waiting" /\ mem' = <<>> /\ start' = 0 /\ end' = 0
  /\ UNCHANGED <<socket, peer, history>>

(* The handler returns to the event loop.                                  *)
Return ==
  /\ pc' = "wait"
  /\ event' = {}
  /\ page' = 0 /\ offset' = 0 /\ total' = 0 /\ scratch' = <<>>

(* epoll_wait takes the item off the ready list and reports its readiness  *)
(* at that moment; an item that is no longer ready is dropped.             *)
EpollWait ==
  /\ pc = "wait" /\ edge
  /\ edge' = FALSE
  /\ event' = Mask
  /\ pc' = IF Mask = {} THEN "wait" ELSE "dispatch"
  /\ UNCHANGED <<inq, eof, reset, outq, nospace, peer, locals, connection,
                 history>>

HangUp == event \intersect {"ERR", "HUP", "RDHUP"} # {}

DispatchHangUp ==
  /\ pc = "dispatch" /\ HangUp
  /\ Destroy

(* Not the event this state waits for: handle_connection returns at once.  *)
DispatchIgnored ==
  /\ pc = "dispatch" /\ ~HangUp
  /\ \/ state = "waiting" /\ "IN" \notin event
     \/ state = "writing" /\ "OUT" \notin event
  /\ Return
  /\ UNCHANGED <<socket, peer, connection, history>>

DispatchRead ==
  /\ pc = "dispatch" /\ ~HangUp
  /\ state = "waiting" /\ "IN" \in event
  /\ pc' = "recv"
  /\ UNCHANGED <<socket, peer, event, locals, connection, history>>

DispatchWrite ==
  /\ pc = "dispatch" /\ ~HangUp
  /\ state = "writing" /\ "OUT" \in event
  /\ pc' = "send"
  /\ UNCHANGED <<socket, peer, event, locals, connection, history>>

(* Mutants of Received: a page is full one read too late; the carry to the *)
(* next page ignores what the page held; data left in the kernel is lost.  *)
ReceivedLate(n) ==
  /\ total' = total + n
  /\ scratch' = SubSeq(scratch, 1, Copied) \o SubSeq(inq, 1, n)
  /\ inq' = SubSeq(inq, n + 1, Len(inq))
  /\ IF n <= PageSize - offset
       THEN offset' = offset + n /\ page' = page
       ELSE offset' = 0 /\ page' = page + 1
ReceivedBadCarry(n) ==
  /\ total' = total + n
  /\ scratch' = SubSeq(scratch, 1, Copied) \o SubSeq(inq, 1, n)
  /\ inq' = SubSeq(inq, n + 1, Len(inq))
  /\ IF n < PageSize - offset
       THEN offset' = offset + n /\ page' = page
       ELSE offset' = n - PageSize /\ page' = page + 1
ReceivedLossy(n) ==
  /\ total' = total + n
  /\ scratch' = SubSeq(scratch, 1, Copied) \o SubSeq(inq, 1, n)
  /\ inq' = <<>>
  /\ IF n < PageSize - offset
       THEN offset' = offset + n /\ page' = page
       ELSE offset' = 0 /\ page' = page + 1

(* recv returned n units into the current page; a full page opens the      *)
(* next.  n = 0 is the end of the stream: after data was read in this      *)
(* round it takes this path too.                                           *)
Received(n) ==
  /\ total' = total + n
  /\ scratch' = SubSeq(scratch, 1, Copied) \o SubSeq(inq, 1, n)
  /\ inq' = SubSeq(inq, n + 1, Len(inq))
  /\ IF n < PageSize - offset
       THEN offset' = offset + n /\ page' = page
       ELSE offset' = 0 /\ page' = page + 1

(* Mutant of RecvData: one read for each event, without draining.          *)
RecvDataOnce ==
  /\ pc = "recv" /\ inq # <<>>
  /\ \E n \in 1 .. Smaller(Len(inq), PageSize - offset) : Received(n)
  /\ pc' = "process"
  /\ UNCHANGED <<eof, reset, outq, nospace, edge, peer, event, connection,
                 history>>

RecvData ==
  /\ pc = "recv" /\ inq # <<>>
  /\ \E n \in 1 .. Smaller(Len(inq), PageSize - offset) : Received(n)
  /\ UNCHANGED <<eof, reset, outq, nospace, edge, peer, pc, event, connection,
                 history>>

RecvEnd ==
  /\ pc = "recv" /\ inq = <<>> /\ eof
  /\ \/ /\ total = 0
        /\ Destroy
     \/ /\ total # 0
        /\ Received(0)
        /\ UNCHANGED <<eof, reset, outq, nospace, edge, peer, pc, event,
                       connection, history>>

(* recv fails with an errno other than EAGAIN.                             *)
RecvError ==
  /\ pc = "recv" /\ reset
  /\ Destroy

(* recv fails with EAGAIN: the round is over.                              *)
RecvAgain ==
  /\ pc = "recv" /\ inq = <<>> /\ ~eof /\ ~reset
  /\ \/ /\ total = 0
        /\ Return
     \/ /\ total # 0
        /\ pc' = "process"
        /\ UNCHANGED <<event, locals>>
  /\ UNCHANGED <<socket, peer, connection, history>>

(* realloc fails.                                                          *)
ProcessNoMemory ==
  /\ pc = "process"
  /\ Destroy

ProcessIncomplete ==
  /\ pc = "process"
  /\ Parse(SubSeq(Gathered, 1, GatheredEnd)) = "incomplete"
  /\ mem' = Gathered
  /\ start' = 0
  /\ end' = GatheredEnd
  /\ Return
  /\ UNCHANGED <<socket, peer, state, history>>

(* A response of n units is rendered over the request, in the same block   *)
(* if it is large enough and in a new one otherwise, and sending starts.   *)
ProcessReply ==
  /\ pc = "process"
  /\ Parse(SubSeq(Gathered, 1, GatheredEnd)) # "incomplete"
  /\ \E n \in 1 .. MaxReply :
       /\ mem' = IF n <= NewCapability THEN CopyIn(Gathered, 0, ReplyUnits(n))
                                       ELSE ReplyUnits(n)
       /\ end' = n
       /\ rendered' = rendered + n
  /\ start' = 0
  /\ state' = "writing"
  /\ replies' = replies + 1
  /\ consumed' = consumed + GatheredEnd
  /\ pc' = "send"
  /\ page' = 0 /\ offset' = 0 /\ total' = 0 /\ scratch' = <<>>
  /\ UNCHANGED <<socket, peer, event>>

(* Mutants of SendData: the state is left as it was; a partial send counts *)
(* as the whole.                                                           *)
SendDataKeepsState ==
  /\ pc = "send" /\ ~reset
  /\ \E n \in 1 .. Smaller(SendSpace - Len(outq), Effective) :
       /\ outq' = outq \o SubSeq(mem, start + 1, start + n)
       /\ start' = start + n
       /\ \/ n = Effective /\ Return
          \/ n # Effective /\ UNCHANGED <<pc, event, locals>>
  /\ UNCHANGED <<inq, eof, reset, nospace, edge, peer, state, mem, end, history>>
SendDataOnce ==
  /\ pc = "send" /\ ~reset
  /\ \E n \in 1 .. Smaller(SendSpace - Len(outq), Effective) :
       /\ outq' = outq \o SubSeq(mem, start + 1, start + n)
       /\ start' = start + n
  /\ state' = "waiting"
  /\ Return
  /\ UNCHANGED <<inq, eof, reset, nospace, edge, peer, mem, end, history>>

(* send accepted n units; after the last of them the connection waits for  *)
(* the next request and the handler returns.                               *)
SendData ==
  /\ pc = "send" /\ ~reset
  /\ \E n \in 1 .. Smaller(SendSpace - Len(outq), Effective) :
       /\ outq' = outq \o SubSeq(mem, start + 1, start + n)
       /\ start' = start + n
       /\ \/ /\ n = Effective
             /\ state' = "waiting"
             /\ Return
          \/ /\ n # Effective
             /\ UNCHANGED <<state, pc, event, locals>>
  /\ UNCHANGED <<inq, eof, reset, nospace, edge, peer, mem, end, history>>

(* Mutant of SendAgain: the response is sent from its beginning again.     *)
SendAgainRestarts ==
  /\ pc = "send" /\ ~reset
  /\ Len(outq) = SendSpace
  /\ nospace' = TRUE
  /\ Return
  /\ start' = 0
  /\ UNCHANGED <<inq, eof, reset, outq, edge, peer, state, mem, end, history>>

SendAgain ==
  /\ pc = "send" /\ ~reset
  /\ Len(outq) = SendSpace
  /\ nospace' = TRUE
  /\ Return
  /\ UNCHANGED <<inq, eof, reset, outq, edge, peer, connection, history>>

SendError ==
  /\ pc = "send" /\ reset
  /\ Destroy

-----------------------------------------------------------------------------

Init ==
  /\ inq = <<>> /\ eof = FALSE /\ reset = FALSE
  /\ outq = <<>> /\ nospace = FALSE
  /\ edge = TRUE                  \* EPOLL_CTL_ADD of a writable socket
  /\ sent = 0 /\ asked = 0 /\ taken = 0
  /\ pc = "wait" /\ event = {}
  /\ page = 0 /\ offset = 0 /\ total = 0 /\ scratch = <<>>
  /\ state = "waiting" /\ mem = <<>> /\ start = 0 /\ end = 0
  /\ consumed = 0 /\ replies = 0 /\ rendered = 0

Peer ==
  \/ \E kind \in {"more", "last", "junk"} : PeerSend(kind)
  \/ PeerTake
  \/ PeerShutdown
  \/ PeerReset

Server ==
  \/ EpollWait
  \/ DispatchHangUp \/ DispatchIgnored \/ DispatchRead \/ DispatchWrite
  \/ RecvData \/ RecvEnd \/ RecvError \/ RecvAgain
  \/ ProcessNoMemory \/ ProcessIncomplete \/ ProcessReply
  \/ SendData \/ SendAgain \/ SendError

Next == Peer \/ Server

Spec == Init /\ [][Next]_vars

(* The thread keeps running while it has something to do, and the peer     *)
(* keeps reading; it need not send.                                        *)
Fairness == WF_vars(Server) /\ WF_vars(PeerTake)
FairSpec == Spec /\ Fairness

-----------------------------------------------------------------------------
(* Properties                                                              *)

(* The variables keep their types: the handler leaves no other program     *)
(* point, state or kind of data behind in handle_connection.               *)
TypeOK ==
  /\ inq \in Seq(Unit) /\ outq \in Seq(Unit) /\ scratch \in Seq(Unit)
  /\ mem \in Seq(Unit)
  /\ eof \in BOOLEAN /\ reset \in BOOLEAN /\ nospace \in BOOLEAN
  /\ edge \in BOOLEAN
  /\ sent \in Nat /\ asked \in Nat /\ taken \in Nat
  /\ consumed \in Nat /\ replies \in Nat /\ rendered \in Nat
  /\ pc \in {"wait", "dispatch", "recv", "process", "send", "closed"}
  /\ event \subseteq {"IN", "OUT", "RDHUP", "ERR", "HUP"}
  /\ page \in Nat /\ offset \in Nat /\ total \in Nat
  /\ state \in {"waiting", "writing"}
  /\ start \in Nat /\ end \in Nat

(* The effective part of the buffer lies inside its block, whatever        *)
(* sequence of reads, shrinking reallocs and renderings came before, and   *)
(* a response being written is never empty, so that send is never called   *)
(* with nothing to send.                                                   *)
BufferWindow ==
  /\ start <= end
  /\ end <= Len(mem)
  /\ state = "writing" => start < end
  /\ pc = "send" => state = "writing"

(* The read loop's page, offset and total_size agree with each other and   *)
(* with the data read, and a read never asks for zero bytes: it would      *)
(* return 0 and be taken for the end of the stream.                        *)
PageAccounting ==
  /\ total = Copied
  /\ Len(scratch) = total
  /\ offset < PageSize

(* After the data of a round is gathered, the block has exactly the size   *)
(* of the effective part: the wrapped size_t arithmetic neither overruns   *)
(* nor wastes memory.                                                      *)
GatherFits ==
  pc = "process" => Len(Gathered) = GatheredEnd

(* The request bytes not yet answered are, in order and without a gap, in  *)
(* the connection's buffer, in the pages of the read loop and in the       *)
(* kernel.                                                                 *)
Window == IF state = "waiting" THEN Effective ELSE 0
InputIntegrity ==
  Open =>
    /\ consumed + Window + Len(scratch) + Len(inq) = sent
    /\ \A i \in 1 .. Window : mem[start + i].at = consumed + i
    /\ \A i \in 1 .. Len(scratch) : scratch[i].at = consumed + Window + i
    /\ \A i \in 1 .. Len(inq) :
         inq[i].at = consumed + Window + Len(scratch) + i

(* What the peer has taken, what the kernel holds and what remains of the  *)
(* buffer are the rendered responses, in order, nothing lost, repeated or  *)
(* overwritten by the reading of a request.                                *)
ReplyAt(unit, p) == unit = [kind |-> "reply", at |-> p]
Unsent == IF state = "writing" THEN Effective ELSE 0
OutputIntegrity ==
  /\ Open => taken + Len(outq) + Unsent = rendered
  /\ \A i \in 1 .. Len(outq) : ReplyAt(outq[i], taken + i)
  /\ \A i \in 1 .. Unsent : ReplyAt(mem[start + i], taken + Len(outq) + i)

(* Every response answers a message of its own: messages answered and      *)
(* messages still on their way are never more than the messages sent.      *)
CountEnds(units) == Cardinality({i \in DOMAIN units : units[i].kind \in Ends})
InFlight ==
  CountEnds(IF state = "waiting" THEN SubSeq(mem, start + 1, end) ELSE <<>>)
    + CountEnds(scratch) + CountEnds(inq)
NoUnaskedReply == replies + InFlight <= asked

(* Every message of a peer is answered or on its way: none is swallowed    *)
(* with another.                                                           *)
NoRequestSwallowed == Open => replies + InFlight = asked

(* While the thread is in epoll_wait, a connection with work it can do is  *)
(* in the ready list or will be: edge-triggered epoll says everything once *)
(* and a readiness that was reported and not acted on is gone.             *)
WakeupPending ==
  pc = "wait" =>
    /\ state = "waiting" /\ inq # <<>> => edge
    /\ state = "writing" => edge \/ (nospace /\ outq # <<>>)

(* Each message is eventually answered, and the answer taken, unless the   *)
(* connection is closed.                                                   *)
EveryRequestAnswered ==
  \A k \in 1 .. MaxUnits :
    (asked >= k) ~> (pc = "closed" \/ (replies >= k /\ taken = rendered))

(* A connection whose peer has closed it is eventually freed.              *)
PeerCloseFreesConnection == eof ~> (pc = "closed")

(* The promise of HttpExchange, with every answer but the one being sent   *)
(* taken in full.                                                          *)
Exchange == INSTANCE HttpExchange WITH
  MaxAsked <- MaxUnits,
  answered <- replies,
  delivered <- IF taken = rendered THEN replies ELSE replies - 1,
  open <- Open
ImplementsExchange == Exchange!FairSpec

=============================================================================
