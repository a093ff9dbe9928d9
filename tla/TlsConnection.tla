---------------------------- MODULE TlsConnection ----------------------------
(***************************************************************************)
(* A connection of the HTTPS port: tls_connection.c under the handler of   *)
(* server.c.  GnuTLS (external) is modelled by what a call does to the     *)
(* socket and what it returns; each of its reads and writes of the socket  *)
(* is a step.  Connection has the handler's buffer in detail, this module  *)
(* what TLS adds: the handshake inside recv, alerts, records that are sent *)
(* in several pieces, and the farewell.                                    *)
(*                                                                         *)
(* What arrives is a sequence of records: "hs" (a handshake message),      *)
(* "more" and "last" (data, the end of a request), "warn" and "fatal"      *)
(* (alerts) and "bye" (close_notify).                                      *)
(***************************************************************************)
EXTENDS Naturals, Sequences

CONSTANTS
  Script,       \* who sends each message of the handshake; the peer begins
  RecordUnits,  \* pieces in which the kernel may take a record of a response
  SendSpace,    \* units the kernel's send queue holds
  ReceiveSpace, \* records the kernel's receive queue holds
  MaxAsked,     \* bound: requests over the connection's life
  MaxRecords,   \* bound: records of the longest response
  PeerMay       \* what the peer does besides asking one thing at a time

ASSUME TlsConnectionAssumption ==
  /\ Script \in Seq({"peer", "server"}) /\ Len(Script) > 0 /\ Script[1] = "peer"
  /\ {RecordUnits, SendSpace, ReceiveSpace, MaxRecords} \subseteq Nat \ {0}
  /\ MaxAsked \in Nat
  /\ PeerMay \subseteq {"warn", "fatal", "bye", "leave", "eof"}

VARIABLES
  \* the kernel
  inq, eof,         \* records to be read, and the end of the stream
  outq, nospace,    \* units to be taken; a write found no room
  edge,             \* the item is in epoll's ready list
  descriptor,       \* "open" or "closed"
  \* the peer
  progress,         \* its position in the handshake
  asked, taken,     \* requests made, response units taken
  leaving,          \* it has sent "fatal" or "bye"
  \* the thread
  pc, event,
  total,            \* records read in this round
  \* struct connection_information
  state,            \* "waiting" or "writing"
  records,          \* the records read of a request
  left,             \* the records of the response not yet accepted by send
  \* struct connection_underlying
  tls,              \* "initialized", "established" or "failed"
  hs,               \* the session's position in the handshake
  pending,          \* units GnuTLS keeps of a record it could not write
  \* history
  replies, rendered, accepted,  \* responses, their records, those sent
  farewell                      \* close_notify was sent

kernel == <<inq, eof, outq, nospace, edge, descriptor>>
peer == <<progress, asked, taken, leaving>>
control == <<pc, event, total, state, records, left>>
session == <<tls, hs, pending>>
history == <<replies, rendered, accepted, farewell>>
tlsVars ==
  <<inq, eof, outq, nospace, edge, descriptor, progress, asked, taken, leaving, pc, event,
    total, state, records, left, tls, hs, pending, replies, rendered, accepted, farewell>>

Open == pc \notin {"bye", "closed"}
Room == SendSpace - Len(outq)
Handshake == [kind |-> "hs", at |-> 0]

-----------------------------------------------------------------------------
(* The peer and the kernel (external)                                      *)

(* What arrives is an event.                                               *)
Arrives(record) ==
  /\ Open /\ ~eof /\ ~leaving
  /\ Len(inq) < ReceiveSpace
  /\ inq' = Append(inq, record)
  /\ edge' = TRUE
  /\ UNCHANGED <<eof, outq, nospace, descriptor, taken, control, session, history>>

PeerHandshake ==
  /\ progress < Len(Script) /\ Script[progress + 1] = "peer"
  /\ Arrives("hs")
  /\ progress' = progress + 1
  /\ UNCHANGED <<asked, leaving>>

Idle == asked = replies /\ taken = rendered * RecordUnits

Between == records = <<>> /\ "more" \notin {inq[i] : i \in DOMAIN inq}

(* Bound: a request is one or two records.                                 *)
PeerAsk(record) ==
  /\ progress = Len(Script) /\ Idle /\ asked < MaxAsked
  /\ record = "more" => Between
  /\ Arrives(record)
  /\ asked' = IF record = "last" THEN asked + 1 ELSE asked
  /\ UNCHANGED <<progress, leaving>>

(* A peer that may not "leave" ends the session between two exchanges.     *)
PeerAlert(alert) ==
  /\ alert \in PeerMay
  /\ alert # "warn" => "leave" \in PeerMay \/ (Idle /\ Between)
  /\ Arrives(alert)
  /\ leaving' = (alert # "warn")
  /\ UNCHANGED <<progress, asked>>

PeerShutdown ==
  /\ "eof" \in PeerMay
  /\ Open /\ ~eof
  /\ eof' = TRUE
  /\ edge' = TRUE
  /\ UNCHANGED <<inq, outq, nospace, descriptor, peer, control, session, history>>

(* Room is an event only if a write was refused since the last one.        *)
PeerTake ==
  /\ Open /\ outq # <<>>
  /\ outq' = Tail(outq)
  /\ IF Head(outq) = Handshake
       THEN progress' = progress + 1 /\ taken' = taken
       ELSE taken' = taken + 1 /\ progress' = progress
  /\ edge' = (edge \/ nospace)
  /\ nospace' = FALSE
  /\ UNCHANGED <<inq, eof, descriptor, asked, leaving, control, session, history>>

Mask ==
  (IF inq # <<>> \/ eof THEN {"IN"} ELSE {}) \union (IF Room > 0 THEN {"OUT"} ELSE {})
    \union (IF eof THEN {"RDHUP"} ELSE {})

-----------------------------------------------------------------------------
(* How a call of the handler ends                                          *)

(* destroy_file_information: close comes first, then destroy_underlying.   *)
Destroy ==
  /\ descriptor' = "closed"
  /\ pc' = "bye"
  /\ event' = {} /\ total' = 0 /\ records' = <<>> /\ left' = 0
  /\ UNCHANGED state

Return ==
  /\ pc' = "wait"
  /\ event' = {} /\ total' = 0

(* EAGAIN: what a round has read is processed, anything else waits.        *)
Again ==
  /\ IF pc = "recv" /\ total # 0 THEN pc' = "process" /\ UNCHANGED <<event, total>>
                                 ELSE Return
  /\ UNCHANGED <<state, records, left, descriptor>>

Continue == UNCHANGED <<control, descriptor>>

set_errno(code) ==
  CASE code \in {"AGAIN", "WARNING_ALERT_RECEIVED"} -> "EAGAIN"
    [] code = "FATAL_ALERT_RECEIVED" -> "EBADF"
    [] OTHER -> "0"

(* The wrapper returns -1 with this errno: the handler retries or gives up. *)
Fails(code) == IF set_errno(code) = "EAGAIN" THEN Again ELSE Destroy

(* What GnuTLS returns for a record it was not waiting for, or for none.   *)
Code(record) ==
  CASE record = "warn" -> "WARNING_ALERT_RECEIVED"
    [] record = "fatal" -> "FATAL_ALERT_RECEIVED"
    [] OTHER -> "UNEXPECTED_PACKET"
Starved == IF eof THEN "PREMATURE_TERMINATION" ELSE "AGAIN"

-----------------------------------------------------------------------------
(* The event loop                                                          *)

EpollWait ==
  /\ pc = "wait" /\ edge
  /\ edge' = FALSE
  /\ event' = Mask
  /\ pc' = IF Mask = {} THEN "wait" ELSE "dispatch"
  /\ UNCHANGED <<inq, eof, outq, nospace, descriptor, peer, total, state, records,
                 left, session, history>>

Dispatch ==
  /\ pc = "dispatch"
  /\ \/ "RDHUP" \in event /\ Destroy
     \/ /\ "RDHUP" \notin event
        /\ \/ state = "waiting" /\ "IN" \in event /\ pc' = "recv" /\ UNCHANGED <<event, total>>
           \/ state = "writing" /\ "OUT" \in event /\ pc' = "send" /\ UNCHANGED <<event, total>>
           \/ (IF state = "waiting" THEN "IN" ELSE "OUT") \notin event /\ Return
        /\ UNCHANGED <<state, records, left, descriptor>>
  /\ UNCHANGED <<inq, eof, outq, nospace, edge, peer, session, history>>

-----------------------------------------------------------------------------
(* do_handshake, from tls_recv or tls_send                                 *)

Handshaking == pc \in {"recv", "send"} /\ tls = "initialized"
Turn == IF hs = Len(Script) THEN "nobody" ELSE Script[hs + 1]

HandshakeRead ==
  /\ Handshaking /\ Turn = "peer" /\ inq # <<>>
  /\ inq' = Tail(inq)
  /\ \/ Head(inq) = "hs" /\ hs' = hs + 1 /\ Continue
     \/ Head(inq) # "hs" /\ hs' = hs /\ Fails(Code(Head(inq)))
  /\ tls' = IF Head(inq) = "fatal" THEN "failed" ELSE tls
  /\ UNCHANGED <<eof, outq, nospace, edge, peer, pending, history>>

HandshakeStarved ==
  /\ Handshaking /\ Turn = "peer" /\ inq = <<>>
  /\ Fails(Starved)
  /\ UNCHANGED <<inq, eof, outq, nospace, edge, peer, session, history>>

(* Mutant of HandshakeWrite: the call returns when it has written.         *)
HandshakeWriteReturns ==
  /\ Handshaking /\ Turn = "server"
  /\ IF Room > 0
       THEN outq' = Append(outq, Handshake) /\ hs' = hs + 1 /\ nospace' = nospace
       ELSE outq' = outq /\ hs' = hs /\ nospace' = TRUE
  /\ Again
  /\ UNCHANGED <<inq, eof, edge, peer, tls, pending, history>>

(* The kernel takes the message, or the call ends with GNUTLS_E_AGAIN.     *)
HandshakeWrite ==
  /\ Handshaking /\ Turn = "server"
  /\ IF Room > 0
       THEN outq' = Append(outq, Handshake) /\ hs' = hs + 1 /\ nospace' = nospace /\ Continue
       ELSE outq' = outq /\ hs' = hs /\ nospace' = TRUE /\ Fails("AGAIN")
  /\ UNCHANGED <<inq, eof, edge, peer, tls, pending, history>>

(* Mutant of HandshakeDone: the call that completes the handshake returns  *)
(* without trying the operation it was made for.                           *)
HandshakeDoneReturns ==
  /\ Handshaking /\ Turn = "nobody"
  /\ tls' = "established"
  /\ Again
  /\ UNCHANGED <<inq, eof, outq, nospace, edge, peer, hs, pending, history>>

(* The operation follows in the same call.                                 *)
HandshakeDone ==
  /\ Handshaking /\ Turn = "nobody"
  /\ tls' = "established"
  /\ Continue
  /\ UNCHANGED <<inq, eof, outq, nospace, edge, peer, hs, pending, history>>

-----------------------------------------------------------------------------
(* gnutls_record_recv, and the end of the round                            *)

Receiving == pc = "recv" /\ tls = "established"

RecordData ==
  /\ Receiving /\ inq # <<>> /\ Head(inq) \in {"more", "last"}
  /\ inq' = Tail(inq)
  /\ records' = Append(records, Head(inq))
  /\ total' = total + 1
  /\ UNCHANGED <<eof, outq, nospace, edge, descriptor, peer, pc, event, state, left,
                 session, history>>

RecordAlert ==
  /\ Receiving /\ inq # <<>> /\ Head(inq) \in {"warn", "fatal"}
  /\ inq' = Tail(inq)
  /\ Fails(Code(Head(inq)))
  /\ UNCHANGED <<eof, outq, nospace, edge, peer, session, history>>

(* After close_notify every call returns 0.  When the round has read data  *)
(* the handler then calls again, for ever: a step that changes nothing.    *)
RecordBye ==
  /\ Receiving /\ inq # <<>> /\ Head(inq) = "bye"
  /\ total = 0
  /\ Destroy
  /\ UNCHANGED <<inq, eof, outq, nospace, edge, peer, session, history>>

RecordStarved ==
  /\ Receiving /\ inq = <<>>
  /\ Fails(Starved)
  /\ UNCHANGED <<inq, eof, outq, nospace, edge, peer, session, history>>

Process ==
  /\ pc = "process"
  /\ \/ /\ records[Len(records)] # "last"
        /\ Return
        /\ UNCHANGED <<state, records, left, history>>
     \/ /\ records[Len(records)] = "last"
        /\ left' \in 1 .. MaxRecords
        /\ rendered' = rendered + left'
        /\ replies' = replies + 1
        /\ records' = <<>> /\ total' = 0
        /\ state' = "writing"
        /\ pc' = "send"
        /\ UNCHANGED <<event, accepted, farewell>>
  /\ UNCHANGED <<kernel, peer, session>>

-----------------------------------------------------------------------------
(* gnutls_record_send.  A record that was encrypted and not written whole  *)
(* stays with the session; the next call, which must have the same data,   *)
(* goes on with it.                                                        *)

Sending == pc = "send" /\ tls = "established"
Todo == IF pending = 0 THEN RecordUnits ELSE pending
Units(n) ==
  [i \in 1 .. n |-> [kind |-> "reply", at |-> (accepted + 1) * RecordUnits - Todo + i]]

(* Mutant of Sent: the first record ends the response.                     *)
SentOnce == left' = left - 1 /\ state' = "waiting" /\ Return

(* send returned the length of a record.                                   *)
Sent ==
  /\ left' = left - 1
  /\ IF left = 1 THEN state' = "waiting" /\ Return
                 ELSE UNCHANGED <<state, pc, event, total>>

SendRecord ==
  /\ Sending
  /\ \E n \in 1 .. IF Room < Todo THEN Room ELSE Todo :
       /\ outq' = outq \o Units(n)
       /\ pending' = Todo - n
       /\ IF n < Todo
            THEN Continue /\ accepted' = accepted
            ELSE /\ accepted' = accepted + 1
                 /\ Sent
                 /\ UNCHANGED <<records, descriptor>>
  /\ UNCHANGED <<inq, eof, nospace, edge, peer, tls, hs, replies, rendered, farewell>>

(* Mutant of SendBlocked: what was written of the record is forgotten.     *)
SendBlockedForgets ==
  /\ Sending /\ Room = 0
  /\ pending' = 0
  /\ nospace' = TRUE
  /\ Fails("AGAIN")
  /\ UNCHANGED <<inq, eof, outq, edge, peer, tls, hs, history>>

SendBlocked ==
  /\ Sending /\ Room = 0
  /\ pending' = Todo
  /\ nospace' = TRUE
  /\ Fails("AGAIN")
  /\ UNCHANGED <<inq, eof, outq, edge, peer, tls, hs, history>>

(* tls_destroy_underlying: gnutls_bye on the connection's descriptor.      *)
Bye ==
  /\ pc = "bye"
  /\ farewell' = (descriptor = "open")
  /\ pc' = "closed"
  /\ UNCHANGED <<kernel, peer, event, total, state, records, left, session, replies,
                 rendered, accepted>>

-----------------------------------------------------------------------------

TlsInit ==
  /\ inq = <<>> /\ eof = FALSE /\ outq = <<>> /\ nospace = FALSE
  /\ edge = TRUE /\ descriptor = "open"
  /\ progress = 0 /\ asked = 0 /\ taken = 0 /\ leaving = FALSE
  /\ pc = "wait" /\ event = {} /\ total = 0
  /\ state = "waiting" /\ records = <<>> /\ left = 0
  /\ tls = "initialized" /\ hs = 0 /\ pending = 0
  /\ replies = 0 /\ rendered = 0 /\ accepted = 0 /\ farewell = FALSE

Peer ==
  \/ PeerHandshake
  \/ \E record \in {"more", "last"} : PeerAsk(record)
  \/ \E alert \in {"warn", "fatal", "bye"} : PeerAlert(alert)
  \/ PeerShutdown
  \/ PeerTake

Server ==
  \/ EpollWait \/ Dispatch
  \/ HandshakeRead \/ HandshakeStarved \/ HandshakeWrite \/ HandshakeDone
  \/ RecordData \/ RecordAlert \/ RecordBye \/ RecordStarved
  \/ Process
  \/ SendRecord \/ SendBlocked
  \/ Bye

TlsNext == Peer \/ Server

TlsSpec == TlsInit /\ [][TlsNext]_tlsVars

(* The thread runs while it has something to do; the peer takes its part   *)
(* in the handshake and reads.  It need not ask anything.                  *)
FairSpec == TlsSpec /\ WF_tlsVars(Server) /\ WF_tlsVars(PeerHandshake) /\ WF_tlsVars(PeerTake)

-----------------------------------------------------------------------------
(* Properties                                                              *)

(* The variables keep their types, and tls_send is never called before the *)
(* handshake is over.                                                      *)
TlsTypeOK ==
  /\ inq \in Seq({"hs", "more", "last", "warn", "fatal", "bye"})
  /\ outq \in Seq([kind : {"hs", "reply"}, at : Nat])
  /\ {eof, nospace, edge, leaving, farewell} \subseteq BOOLEAN
  /\ descriptor \in {"open", "closed"}
  /\ {progress, asked, taken, total, left, hs, pending} \subseteq Nat
  /\ {replies, rendered, accepted} \subseteq Nat
  /\ pc \in {"wait", "dispatch", "recv", "process", "send", "bye", "closed"}
  /\ event \subseteq {"IN", "OUT", "RDHUP"}
  /\ state \in {"waiting", "writing"}
  /\ tls \in {"initialized", "established", "failed"}
  /\ pc = "send" => tls = "established" /\ state = "writing" /\ left > 0

(* The responses reach the peer as rendered, behind what it has not yet    *)
(* taken of the handshake: every record whole, once and in its place,      *)
(* although it may have been written in several calls.                     *)
Unwritten == left * RecordUnits - (RecordUnits - Todo)
Ahead == IF progress < hs THEN hs - progress ELSE 0
RecordsIntact ==
  /\ Ahead <= Len(outq)
  /\ \A i \in 1 .. Ahead : outq[i] = Handshake
  /\ \A i \in 1 .. Len(outq) - Ahead :
       outq[Ahead + i] = [kind |-> "reply", at |-> taken + i]
  /\ Open => taken + (Len(outq) - Ahead) + Unwritten = rendered * RecordUnits

(* "break directly since we cannot get any further data for now": when a   *)
(* connection that waits for a request is back in epoll_wait and nothing   *)
(* it has not seen has arrived, it has read all there is; and when its     *)
(* handshake is not over it is the peer's turn in it.  For EPOLLIN is the  *)
(* only event such a connection looks at.                                  *)
WaitsForInput ==
  pc = "wait" /\ state = "waiting" =>
    /\ edge \/ inq = <<>>
    /\ tls = "initialized" => Turn = "peer"

(* A handshake that was begun is completed.                                *)
HandshakeCompletes == (progress > 0) ~> (tls = "established" \/ ~Open)

(* Over TLS, too, a connection keeps the promise of HttpExchange.          *)
Exchange == INSTANCE HttpExchange WITH
  answered <- replies,
  delivered <- IF taken = rendered * RecordUnits THEN replies ELSE replies - 1,
  open <- Open
ImplementsExchange == Exchange!FairSpec

-----------------------------------------------------------------------------
(* What the code says and does not keep                                    *)

(* The session ends as tls_destroy_underlying means it to: with            *)
(* close_notify, "TLS session closed gracefully".                          *)
ClosedGracefully == pc = "closed" /\ tls = "established" => farewell

=============================================================================
