-------------------------- MODULE ConnectionProofs --------------------------
(***************************************************************************)
(* Proofs about Connection, for every page size, every bound and every     *)
(* behaviour of the peer: its types, the window of the buffer, the account *)
(* of the pages and the size_t arithmetic of the resize, and then the two  *)
(* byte streams.  About its messages: no response without a message of its *)
(* own, whoever the peer is; and for a peer that asks one thing at a time, *)
(* that no message is swallowed, that no wakeup is lost, and that every    *)
(* step is one of HttpExchange's.                                          *)
(***************************************************************************)
EXTENDS Connection, SequenceTheorems, FiniteSetTheorems, TLAPS

-----------------------------------------------------------------------------
(* The inductive invariant                                                 *)

(* The block never outgrows the stream and the longest response.           *)
Bounds ==
  /\ sent <= MaxUnits
  /\ Len(mem) <= MaxUnits + MaxReply

(* The pages exist only during the read loop, which only a waiting         *)
(* connection enters.                                                      *)
Phases ==
  /\ pc \in {"recv", "process"} => state = "waiting"
  /\ pc \notin {"recv", "process"} => page = 0 /\ offset = 0 /\ scratch = <<>>

(* Every unit the peer sent is somewhere.                                  *)
InputCount == Open => consumed + Window + Len(scratch) + Len(inq) = sent

IInv ==
  /\ TypeOK
  /\ BufferWindow
  /\ PageAccounting
  /\ Bounds
  /\ Phases
  /\ InputCount

-----------------------------------------------------------------------------
(* Sequences and the wrapped arithmetic                                    *)

(* A function on 1 .. n is a sequence of length n.                         *)
LEMMA FunctionIsSeq ==
  ASSUME NEW S, NEW n \in Nat, NEW f \in [1 .. n -> S]
  PROVE  f \in Seq(S) /\ Len(f) = n
<1>1. f \in Seq(S)
  BY SeqDef
<1>2. DOMAIN f = 1 .. Len(f) /\ Len(f) \in Nat
  BY <1>1, LenProperties
<1>3. 1 .. n = 1 .. Len(f)
  BY <1>2
<1>4. Len(f) = n
  BY <1>2, <1>3
<1> QED
  BY <1>1, <1>4

(* The wrapped sums of NewCapability come out as the plain sum, whether    *)
(* the block grows or shrinks: "size_t extra = total_size - available" of  *)
(* handle_connection.                                                      *)
LEMMA CapabilityIsPlainSum ==
  ASSUME TypeOK, BufferWindow, Bounds, Effective + total <= MaxUnits
  PROVE  NewCapability = Effective + total
<1> DEFINE L == Len(mem)
           E == Effective
           M == SizeModulus
<1>1. L \in Nat /\ E \in Nat /\ total \in Nat /\ M \in Nat /\ E <= L
  BY ConnectionAssumption, LenProperties DEF TypeOK, BufferWindow, Effective
<1>2. L < M /\ E + total < M
  BY <1>1, ConnectionAssumption DEF Bounds
<1> HIDE DEF L, E, M
<1>3. Wrap(L - E) = L - E
  BY <1>1, <1>2 DEF Wrap, M
<1>4. CASE total >= L - E
  <2>1. Wrap(total - (L - E)) = total - (L - E)
    BY <1>1, <1>2, <1>4 DEF Wrap, M
  <2>2. Wrap(L + (total - (L - E))) = E + total
    BY <1>1, <1>2, <1>4 DEF Wrap, M
  <2> QED
    BY <1>3, <2>1, <2>2 DEF NewCapability, L, E
<1>5. CASE total < L - E
  <2>1. Wrap(total - (L - E)) = total - (L - E) + M
    BY <1>1, <1>2, <1>5 DEF Wrap, M
  <2>2. Wrap(L + (total - (L - E) + M)) = E + total
    BY <1>1, <1>2, <1>5 DEF Wrap, M
  <2> QED
    BY <1>3, <2>1, <2>2 DEF NewCapability, L, E
<1> QED
  BY <1>1, <1>4, <1>5

(* The block the data of a round is gathered into: as long as what it is   *)
(* to hold, the rest of the buffer first and then the data read.           *)
LEMMA GatheredIsConcatenation ==
  ASSUME TypeOK, BufferWindow, PageAccounting, NewCapability = Effective + total
  PROVE  /\ Gathered \in Seq(Unit)
         /\ Len(Gathered) = GatheredEnd
         /\ \A i \in 1 .. Effective : Gathered[i] = mem[start + i]
         /\ \A i \in 1 .. total : Gathered[Effective + i] = scratch[i]
<1> DEFINE E == Effective
           N == E + total
           down == MoveDown(mem, start, E)
           data == SubSeq(scratch, 1, Copied)
           block == Realloc(down, N)
<1>1. /\ E \in Nat /\ N \in Nat /\ total \in Nat /\ Len(mem) \in Nat
      /\ start \in Nat /\ start + E <= Len(mem)
  BY LenProperties DEF TypeOK, BufferWindow, Effective
<1>2. mem \in [1 .. Len(mem) -> Unit] /\ scratch \in [1 .. total -> Unit]
  BY LenProperties DEF TypeOK, PageAccounting
<1>3. data = scratch /\ Len(data) = total
  BY SubSeqFull DEF TypeOK, PageAccounting
<1>4. down \in [1 .. Len(mem) -> Unit] /\ Len(down) = Len(mem)
  <2>1. down \in [1 .. Len(mem) -> Unit]
    BY <1>1, <1>2 DEF MoveDown, TypeOK
  <2> QED
    BY <2>1, <1>1, FunctionIsSeq
<1>5. block \in [1 .. N -> Unit] /\ Len(block) = N
  <2>1. Garbage \in Unit
    BY DEF Garbage, Unit, Kinds
  <2>2. block \in [1 .. N -> Unit]
    BY <2>1, <1>1, <1>4 DEF Realloc
  <2> QED
    BY <2>2, <1>1, FunctionIsSeq
<1>6. Gathered = [i \in 1 .. N |-> IF i \in E + 1 .. E + total THEN scratch[i - E]
                                                               ELSE block[i]]
  BY <1>3, <1>5 DEF Gathered, CopyIn
<1>7. Gathered \in [1 .. N -> Unit]
  BY <1>1, <1>2, <1>5, <1>6
<1>8. ASSUME NEW i \in 1 .. E PROVE Gathered[i] = mem[start + i]
  <2>1. i \in 1 .. N /\ i \in 1 .. Len(mem) /\ i \notin E + 1 .. E + total
    BY <1>1
  <2>2. Gathered[i] = block[i]
    BY <1>6, <2>1
  <2>3. block[i] = down[i]
    BY <1>4, <2>1 DEF Realloc
  <2>4. down[i] = mem[i + start]
    BY <1>1, <2>1 DEF MoveDown
  <2> QED
    BY <1>1, <2>1, <2>2, <2>3, <2>4
<1>9. \A i \in 1 .. total : Gathered[E + i] = scratch[i]
  BY <1>1, <1>6
<1>10. GatheredEnd = N
  BY DEF GatheredEnd, PageAccounting
<1> QED
  BY <1>1, <1>7, <1>8, <1>9, <1>10, FunctionIsSeq

-----------------------------------------------------------------------------
(* The invariant is inductive                                              *)

LEMMA InitIInv == Init => IInv
<1> SUFFICES ASSUME Init PROVE IInv
  OBVIOUS
<1>1. <<>> \in Seq(Unit) /\ Len(<<>>) = 0
  BY EmptySeq
<1>2. TypeOK
  BY <1>1 DEF Init, TypeOK
<1>3. BufferWindow /\ PageAccounting
  BY <1>1, ConnectionAssumption DEF Init, BufferWindow, PageAccounting, Copied
<1>4. Bounds /\ Phases /\ InputCount
  BY <1>1, ConnectionAssumption
  DEF Init, Bounds, Phases, InputCount, Window, Effective
<1> QED
  BY <1>2, <1>3, <1>4 DEF IInv

(* destroy_file_information leaves nothing behind.                         *)
LEMMA DestroyIInv == IInv /\ Destroy => IInv'
<1> SUFFICES ASSUME IInv, Destroy PROVE IInv'
  OBVIOUS
<1> USE DEF IInv, Destroy
<1>1. <<>> \in Seq(Unit) /\ Len(<<>>) = 0
  BY EmptySeq
<1>2. TypeOK'
  BY <1>1 DEF TypeOK, socket, peer, history
<1>3. BufferWindow' /\ PageAccounting'
  BY <1>1, ConnectionAssumption DEF BufferWindow, PageAccounting, Copied
<1>4. Bounds' /\ Phases' /\ InputCount'
  BY <1>1, ConnectionAssumption
  DEF Bounds, Phases, InputCount, Open, peer
<1> QED
  BY <1>2, <1>3, <1>4

(* The peer adds a unit to the stream.                                     *)
LEMMA PeerSendIInv ==
  ASSUME IInv, NEW kind \in {"more", "last", "junk"}, PeerSend(kind)
  PROVE  IInv'
<1> USE DEF IInv, PeerSend
<1> DEFINE unit == [kind |-> kind, at |-> sent + 1]
<1>1. unit \in Unit
  BY DEF Unit, Kinds, TypeOK
<1>2. inq' = Append(inq, unit) /\ inq \in Seq(Unit)
  BY DEF TypeOK
<1> HIDE DEF unit
<1>3. inq' \in Seq(Unit) /\ Len(inq') = Len(inq) + 1
  BY <1>1, <1>2, AppendProperties
<1>4. TypeOK'
  BY <1>3 DEF TypeOK, locals, connection, history
<1>5. BufferWindow' /\ PageAccounting' /\ Phases'
  BY DEF BufferWindow, PageAccounting, Phases, Copied, locals, connection
<1>6. Bounds'
  BY ConnectionAssumption DEF Bounds, TypeOK, connection
<1>7. InputCount'
  <2>1. Len(inq) \in Nat /\ Len(scratch) \in Nat /\ sent \in Nat /\ consumed \in Nat
    BY LenProperties DEF TypeOK
  <2>2. /\ Window' = Window /\ Window \in Nat /\ Open
        /\ consumed' = consumed /\ scratch' = scratch /\ sent' = sent + 1
    BY DEF Window, Effective, TypeOK, BufferWindow, locals, connection, history
  <2>3. consumed + Window + Len(scratch) + Len(inq) = sent
    BY <2>2 DEF InputCount
  <2> QED
    BY <1>3, <2>1, <2>2, <2>3 DEF InputCount
<1> QED
  BY <1>4, <1>5, <1>6, <1>7

(* What the peer and the kernel do besides touches no unit of the request. *)
LEMMA PeerRestIInv ==
  ASSUME IInv, PeerTake \/ PeerShutdown \/ PeerReset
  PROVE  IInv'
<1> USE DEF IInv, PeerTake, PeerShutdown, PeerReset
<1>1. outq' \in Seq(Unit)
  BY HeadTailProperties DEF TypeOK
<1>2. /\ eof' \in BOOLEAN /\ reset' \in BOOLEAN
      /\ nospace' \in BOOLEAN /\ edge' \in BOOLEAN
  <2>1. (edge \/ nospace) \in BOOLEAN
    BY Zenon
  <2>2. edge' = (edge \/ nospace) \/ edge' = edge \/ edge' = TRUE
    BY Zenon
  <2>3. edge' \in BOOLEAN
    BY <2>1, <2>2, Zenon DEF TypeOK
  <2>4. eof' = eof \/ eof' = TRUE
    BY Zenon
  <2>5. reset' = reset \/ reset' = TRUE
    BY Zenon
  <2>6. nospace' = nospace \/ nospace' = FALSE
    BY Zenon
  <2> QED
    BY <2>3, <2>4, <2>5, <2>6, Zenon DEF TypeOK
<1>3. TypeOK'
  <2>1. sent' \in Nat /\ asked' \in Nat /\ taken' \in Nat
    BY DEF TypeOK, peer
  <2>2. UNCHANGED <<inq, pc, event, locals, connection, history>>
    BY Zenon
  <2> QED
    BY <1>1, <1>2, <2>1, <2>2, Zenon DEF TypeOK, locals, connection, history
<1>4. BufferWindow' /\ PageAccounting' /\ Phases' /\ Bounds'
  BY DEF BufferWindow, PageAccounting, Phases, Bounds, Copied, peer, locals, connection
<1>5. InputCount'
  BY DEF InputCount, Open, Window, Effective, peer, locals, connection, history
<1> QED
  BY <1>3, <1>4, <1>5

(* epoll_wait, and the dispatch of an event up to the first system call.   *)
LEMMA DispatchIInv ==
  ASSUME IInv, EpollWait \/ DispatchIgnored \/ DispatchRead \/ DispatchWrite
  PROVE  IInv'
<1> USE DEF IInv, EpollWait, DispatchIgnored, DispatchRead, DispatchWrite, Return
<1>1. Mask \subseteq {"IN", "OUT", "RDHUP", "ERR", "HUP"}
  BY DEF Mask
<1>2. page' = page /\ offset' = offset /\ total' = total /\ scratch' = scratch
  <2>1. Phases /\ PageAccounting /\ pc \in {"wait", "dispatch"}
    OBVIOUS
  <2>2. page = 0 /\ offset = 0 /\ scratch = <<>> /\ total = 0
    BY <2>1, ConnectionAssumption DEF Phases, PageAccounting, Copied
  <2> QED
    BY <2>2 DEF locals
<1>3. TypeOK'
  BY <1>1, <1>2 DEF TypeOK, socket, peer, connection, history
<1>4. BufferWindow'
  BY DEF BufferWindow, connection
<1>5. PageAccounting' /\ Bounds'
  BY <1>2 DEF PageAccounting, Copied, Bounds, peer, connection
<1>6. Phases'
  BY <1>2 DEF Phases, connection
<1>7. InputCount'
  BY <1>2 DEF InputCount, Open, Window, Effective, socket, peer, connection, history
<1> QED
  BY <1>3, <1>4, <1>5, <1>6, <1>7

(* A read of n units: the pages take them in, in the place the account     *)
(* says, and leave room for the next read.                                 *)
LEMMA ReceivedIInv ==
  ASSUME IInv, pc = "recv", NEW n \in 0 .. Len(inq), n <= PageSize - offset,
         Received(n),
         UNCHANGED <<eof, reset, outq, nospace, edge, peer, pc, event, connection,
                     history>>
  PROVE  IInv'
<1> USE DEF IInv, Received
<1> DEFINE taking == SubSeq(inq, 1, n)
<1>1. /\ n \in Nat /\ Len(inq) \in Nat /\ Len(scratch) \in Nat
      /\ page \in Nat /\ offset \in Nat /\ total \in Nat
      /\ PageSize \in Nat \ {0} /\ n <= Len(inq)
  BY LenProperties, ConnectionAssumption DEF TypeOK
<1>2. taking \in Seq(Unit) /\ Len(taking) = n
  BY <1>1, ElementOfSeq, SubSeqProperties DEF TypeOK
<1>3. inq' \in Seq(Unit) /\ Len(inq') = Len(inq) - n
  BY <1>1, ElementOfSeq, SubSeqProperties DEF TypeOK
<1>4. SubSeq(scratch, 1, Copied) = scratch
  BY SubSeqFull DEF TypeOK, PageAccounting
<1> HIDE DEF taking
<1>5. scratch' \in Seq(Unit) /\ Len(scratch') = Len(scratch) + n
  <2>1. scratch' = scratch \o taking
    BY <1>4 DEF taking
  <2>2. scratch \in Seq(Unit)
    BY DEF TypeOK
  <2> QED
    BY <1>2, <2>1, <2>2, ConcatProperties
<1>6. /\ page' \in Nat /\ offset' \in Nat /\ offset' < PageSize
      /\ Copied' = Copied + n
  <2>1. CASE n < PageSize - offset
    BY <1>1, <2>1 DEF Copied
  <2>2. CASE n = PageSize - offset
    <3>1. offset' = 0 /\ page' = page + 1
      BY <1>1, <2>2
    <3>2. (page + 1) * PageSize = page * PageSize + PageSize
      BY <1>1
    <3> QED
      BY <1>1, <2>2, <3>1, <3>2 DEF Copied
  <2> QED
    BY <1>1, <2>1, <2>2
<1>7. TypeOK'
  <2>1. TypeOK
    OBVIOUS
  <2>2. total' \in Nat
    <3>1. total' = total + n
      OBVIOUS
    <3> QED
      BY <1>1, <3>1
  <2> HIDE DEF IInv, Received
  <2>3. /\ outq' \in Seq(Unit) /\ mem' \in Seq(Unit)
        /\ start' \in Nat /\ end' \in Nat /\ state' \in {"waiting", "writing"}
    BY <2>1, Zenon DEF TypeOK, connection
  <2>4. /\ sent' \in Nat /\ asked' \in Nat /\ taken' \in Nat
        /\ consumed' \in Nat /\ replies' \in Nat /\ rendered' \in Nat
    BY <2>1, Zenon DEF TypeOK, peer, history
  <2>5. /\ eof' \in BOOLEAN /\ reset' \in BOOLEAN /\ nospace' \in BOOLEAN
        /\ edge' \in BOOLEAN /\ event' \subseteq {"IN", "OUT", "RDHUP", "ERR", "HUP"}
        /\ pc' \in {"wait", "dispatch", "recv", "process", "send", "closed"}
    BY <2>1, Zenon DEF TypeOK
  <2> QED
    BY <1>3, <1>5, <1>6, <2>2, <2>3, <2>4, <2>5, Zenon DEF TypeOK
<1>8. BufferWindow' /\ Bounds' /\ Phases'
  BY DEF BufferWindow, Bounds, Phases, peer, connection
<1>9. PageAccounting'
  BY <1>1, <1>5, <1>6 DEF PageAccounting
<1>10. InputCount'
  <2>1. Window' = Window /\ Window \in Nat /\ consumed' = consumed /\ sent' = sent
    BY DEF Window, Effective, connection, peer, history, BufferWindow, TypeOK
  <2>2. consumed \in Nat /\ sent \in Nat /\ Open' = Open
    BY DEF TypeOK, Open
  <2>3. Open => consumed + Window + Len(scratch) + Len(inq) = sent
    BY DEF InputCount
  <2> HIDE DEF IInv, Received
  <2>4. Open => consumed' + Window' + Len(scratch') + Len(inq') = sent'
    BY <1>1, <1>3, <1>5, <2>1, <2>2, <2>3
  <2> QED
    BY <2>2, <2>4 DEF InputCount
<1> QED
  BY <1>7, <1>8, <1>9, <1>10

LEMMA RecvIInv ==
  ASSUME IInv, RecvData \/ RecvEnd \/ RecvError \/ RecvAgain
  PROVE  IInv'
<1>1. CASE RecvData
  <2>1. PICK n \in 1 .. Smaller(Len(inq), PageSize - offset) : Received(n)
    BY <1>1 DEF RecvData
  <2>2. n \in 0 .. Len(inq) /\ n <= PageSize - offset
    BY LenProperties, ConnectionAssumption DEF Smaller, IInv, TypeOK
  <2> QED
    BY <1>1, <2>1, <2>2, ReceivedIInv DEF RecvData
<1>2. CASE RecvEnd
  <2>1. CASE Destroy
    BY <2>1, DestroyIInv
  <2>2. CASE ~Destroy
    <3>1. 0 \in 0 .. Len(inq) /\ 0 <= PageSize - offset
      BY LenProperties, ConnectionAssumption DEF IInv, TypeOK, PageAccounting
    <3> QED
      BY <1>2, <2>2, <3>1, ReceivedIInv DEF RecvEnd
  <2> QED
    BY <2>1, <2>2
<1>3. CASE RecvError
  BY <1>3, DestroyIInv DEF RecvError
<1>4. CASE RecvAgain
  <2> USE <1>4 DEF IInv, RecvAgain, Return
  <2>1. CASE total = 0
    <3>1. <<>> \in Seq(Unit) /\ Len(<<>>) = 0
      BY EmptySeq
    <3>2. Len(scratch) = 0
      BY <2>1 DEF PageAccounting
    <3>3. TypeOK'
      BY <2>1, <3>1 DEF TypeOK, socket, peer, connection, history
    <3>4. BufferWindow' /\ PageAccounting' /\ Bounds' /\ Phases'
      BY <2>1, <3>1, ConnectionAssumption
      DEF BufferWindow, PageAccounting, Copied, Bounds, Phases, peer, connection
    <3>5. InputCount'
      BY <2>1, <3>1, <3>2
      DEF InputCount, Open, Window, Effective, socket, peer, connection, history
    <3> QED
      BY <3>3, <3>4, <3>5
  <2>2. CASE total # 0
    <3>1. TypeOK'
      BY <2>2 DEF TypeOK, socket, peer, locals, connection, history
    <3>2. BufferWindow' /\ PageAccounting' /\ Bounds' /\ Phases'
      BY <2>2 DEF BufferWindow, PageAccounting, Copied, Bounds, Phases, peer,
                  locals, connection
    <3>3. InputCount'
      BY <2>2 DEF InputCount, Open, Window, Effective, socket, peer, locals,
                  connection, history
    <3> QED
      BY <3>1, <3>2, <3>3
  <2> QED
    BY <2>1, <2>2
<1> QED
  BY <1>1, <1>2, <1>3, <1>4

(* handle_connection's work on a round of data: the resize, the parse, and *)
(* the response rendered in the block or in a new one.                     *)
LEMMA ProcessIInv ==
  ASSUME IInv, ProcessNoMemory \/ ProcessIncomplete \/ ProcessReply
  PROVE  IInv'
<1>1. CASE ProcessNoMemory
  BY <1>1, DestroyIInv DEF ProcessNoMemory
<1>2. CASE ProcessIncomplete \/ ProcessReply
  <2> USE DEF IInv
  <2>1. pc = "process" /\ state = "waiting" /\ Open
    BY <1>2 DEF ProcessIncomplete, ProcessReply, Phases, Open
  <2>2. /\ Effective \in Nat /\ total \in Nat /\ consumed \in Nat /\ sent \in Nat
        /\ Len(inq) \in Nat /\ Len(scratch) = total /\ rendered \in Nat
        /\ replies \in Nat
    BY LenProperties DEF TypeOK, BufferWindow, PageAccounting, Effective
  <2>3. consumed + Effective + total + Len(inq) = sent
    BY <2>1, <2>2 DEF InputCount, Window
  <2>4. Effective + total <= MaxUnits
    BY <2>2, <2>3, ConnectionAssumption DEF Bounds
  <2>5. NewCapability = Effective + total
    BY <2>4, CapabilityIsPlainSum
  <2>6. /\ Gathered \in Seq(Unit) /\ Len(Gathered) = GatheredEnd
        /\ GatheredEnd = Effective + total
    BY <2>5, GatheredIsConcatenation DEF GatheredEnd, PageAccounting
  <2>7. <<>> \in Seq(Unit) /\ Len(<<>>) = 0
    BY EmptySeq
  <2>8. CASE ProcessIncomplete
    <3> USE <2>8 DEF ProcessIncomplete, Return
    <3> HIDE DEF IInv
    <3>1. IInv
      OBVIOUS
    <3> USE DEF IInv
    <3>2. TypeOK'
      BY <2>2, <2>6, <2>7 DEF TypeOK, socket, peer, history
    <3>3. BufferWindow' /\ PageAccounting'
      BY <2>1, <2>2, <2>6, <2>7, ConnectionAssumption
      DEF BufferWindow, PageAccounting, Copied
    <3>4. Bounds'
      BY <2>2, <2>4, <2>6, ConnectionAssumption DEF Bounds, peer
    <3>5. Phases' /\ InputCount'
      BY <2>1, <2>2, <2>3, <2>6, <2>7
      DEF Phases, InputCount, Window, Effective, socket, peer, history
    <3> QED
      BY <3>2, <3>3, <3>4, <3>5
  <2>9. CASE ProcessReply
    <3> USE <2>9 DEF ProcessReply
    <3>1. PICK n \in 1 .. MaxReply :
            /\ mem' = IF n <= NewCapability THEN CopyIn(Gathered, 0, ReplyUnits(n))
                                            ELSE ReplyUnits(n)
            /\ end' = n
            /\ rendered' = rendered + n
      OBVIOUS
    <3>2. n \in Nat \ {0} /\ n <= MaxReply
      BY ConnectionAssumption
    <3>3. ReplyUnits(n) \in [1 .. n -> Unit] /\ Len(ReplyUnits(n)) = n
      <4>1. ReplyUnits(n) \in [1 .. n -> Unit]
        BY <2>2, <3>2 DEF ReplyUnits, Unit, Kinds
      <4> QED
        BY <3>2, <4>1, FunctionIsSeq
    <3>4. /\ mem' \in Seq(Unit)
          /\ Len(mem') = IF n <= NewCapability THEN NewCapability ELSE n
      <4>1. CASE n <= NewCapability
        <5>1. Gathered \in [1 .. NewCapability -> Unit] /\ NewCapability \in Nat
          BY <2>2, <2>5, <2>6, LenProperties
        <5>2. mem' = [i \in 1 .. NewCapability |->
                        IF i \in 0 + 1 .. 0 + n THEN ReplyUnits(n)[i - 0] ELSE Gathered[i]]
          BY <2>5, <2>6, <3>1, <3>3, <4>1 DEF CopyIn
        <5>3. mem' \in [1 .. NewCapability -> Unit]
          BY <3>2, <3>3, <5>1, <5>2
        <5> QED
          BY <4>1, <5>1, <5>3, FunctionIsSeq
      <4>2. CASE ~(n <= NewCapability)
        BY <3>1, <3>2, <3>3, <4>2, FunctionIsSeq
      <4> QED
        BY <4>1, <4>2
    <3>5. TypeOK'
      BY <2>2, <2>6, <2>7, <3>1, <3>2, <3>4 DEF TypeOK, socket, peer
    <3>6. BufferWindow' /\ PageAccounting'
      BY <2>2, <2>5, <2>7, <3>1, <3>2, <3>4, ConnectionAssumption
      DEF BufferWindow, PageAccounting, Copied
    <3>7. Bounds'
      BY <2>2, <2>4, <2>5, <3>2, <3>4, ConnectionAssumption DEF Bounds, peer
    <3>8. Phases' /\ InputCount'
      BY <2>1, <2>2, <2>3, <2>6, <2>7
      DEF Phases, InputCount, Window, socket, peer
    <3> QED
      BY <3>5, <3>6, <3>7, <3>8
  <2> QED
    BY <1>2, <2>8, <2>9
<1> QED
  BY <1>1, <1>2

(* A send takes units off the front of the effective part only.            *)
LEMMA SendIInv ==
  ASSUME IInv, SendData \/ SendAgain \/ SendError
  PROVE  IInv'
<1> USE DEF IInv
<1>1. CASE SendError
  BY <1>1, DestroyIInv DEF SendError
<1>2. CASE SendData \/ SendAgain
  <2>1. pc = "send" /\ state = "writing" /\ Open
    BY <1>2 DEF SendData, SendAgain, BufferWindow, Open
  <2>2. page = 0 /\ offset = 0 /\ scratch = <<>> /\ total = 0
    BY <2>1, ConnectionAssumption DEF Phases, PageAccounting, Copied
  <2>3. UNCHANGED locals
    BY <1>2, <2>2, Zenon DEF SendData, SendAgain, Return, locals
  <2>4. PageAccounting' /\ page' = 0 /\ offset' = 0 /\ scratch' = <<>>
    BY <2>2, <2>3 DEF PageAccounting, Copied, locals
  <2>5. CASE SendAgain
    <3> USE <2>5 DEF SendAgain, Return
    <3>1. TypeOK'
      BY <2>3 DEF TypeOK, peer, locals, connection, history
    <3>2. BufferWindow' /\ Bounds' /\ Phases'
      BY <2>1, <2>4 DEF BufferWindow, Bounds, Phases, peer, connection
    <3>3. InputCount'
      BY <2>1, <2>3 DEF InputCount, Window, Effective, Open, peer, locals, connection, history
    <3> QED
      BY <2>4, <3>1, <3>2, <3>3
  <2>6. CASE SendData
    <3> USE <2>6 DEF SendData, Return
    <3>1. PICK n \in 1 .. Smaller(SendSpace - Len(outq), Effective) :
            /\ outq' = outq \o SubSeq(mem, start + 1, start + n)
            /\ start' = start + n
            /\ \/ n = Effective /\ state' = "waiting" /\ pc' = "wait" /\ event' = {}
               \/ n # Effective /\ UNCHANGED <<state, pc, event>>
      BY DEF locals
    <3>2. /\ start \in Nat /\ end \in Nat /\ Len(mem) \in Nat /\ Len(outq) \in Nat
          /\ start <= end /\ end <= Len(mem) /\ Effective = end - start
      BY LenProperties DEF TypeOK, BufferWindow, Effective
    <3>3. n \in Nat \ {0} /\ n <= Effective
      BY <3>2, ConnectionAssumption DEF Smaller
    <3>4. SubSeq(mem, start + 1, start + n) \in Seq(Unit)
      <4>1. \A i \in start + 1 .. start + n : mem[i] \in Unit
        <5>1. mem \in Seq(Unit) /\ \A i \in start + 1 .. start + n : i \in 1 .. Len(mem)
          BY <3>2, <3>3 DEF TypeOK
        <5> QED
          BY <5>1, ElementOfSeq
      <4> QED
        BY <3>2, <3>3, <4>1, SubSeqProperties
    <3>5. outq' \in Seq(Unit)
      <4>1. outq \in Seq(Unit)
        BY DEF TypeOK
      <4>2. outq \o SubSeq(mem, start + 1, start + n) \in Seq(Unit)
        BY <3>4, <4>1, ConcatProperties
      <4> QED
        BY <3>1, <4>2
    <3>6. TypeOK'
      <4>1. /\ start' \in Nat /\ state' \in {"waiting", "writing"}
            /\ pc' \in {"wait", "dispatch", "recv", "process", "send", "closed"}
            /\ event' \subseteq {"IN", "OUT", "RDHUP", "ERR", "HUP"}
        <5>1. start' \in Nat
          BY <3>1, <3>2, <3>3
        <5>2. \/ state' = "waiting" /\ pc' = "wait" /\ event' = {}
              \/ UNCHANGED <<state, pc, event>>
          BY <3>1
        <5>3. state' \in {"waiting", "writing"}
          BY <5>2 DEF TypeOK
        <5>4. pc' \in {"wait", "dispatch", "recv", "process", "send", "closed"}
          BY <2>1, <5>2
        <5>5. event' \subseteq {"IN", "OUT", "RDHUP", "ERR", "HUP"}
          BY <5>2, Zenon DEF TypeOK
        <5> QED
          BY <5>1, <5>3, <5>4, <5>5
      <4>2. UNCHANGED <<inq, eof, reset, nospace, edge, peer, mem, end, history>>
        BY Zenon
      <4> QED
        BY <2>3, <3>5, <4>1, <4>2, Zenon DEF TypeOK, peer, locals, history
    <3>7. BufferWindow'
      BY <2>1, <3>1, <3>2, <3>3 DEF BufferWindow
    <3>8. Bounds' /\ Phases'
      BY <2>1, <2>4, <3>1 DEF Bounds, Phases, peer
    <3>9. Window' = 0 /\ Window = 0
      BY <2>1, <3>1, <3>2, <3>3 DEF Window, Effective
    <3>10. InputCount'
      BY <2>1, <2>3, <3>1, <3>9 DEF InputCount, Open, peer, locals, history
    <3> QED
      BY <2>4, <3>6, <3>7, <3>8, <3>10
  <2> QED
    BY <1>2, <2>5, <2>6
<1> QED
  BY <1>1, <1>2

LEMMA StepIInv == IInv /\ [Next]_vars => IInv'
<1> SUFFICES ASSUME IInv, [Next]_vars PROVE IInv'
  OBVIOUS
<1>1. CASE \E kind \in {"more", "last", "junk"} : PeerSend(kind)
  BY <1>1, PeerSendIInv
<1>2. CASE PeerTake \/ PeerShutdown \/ PeerReset
  BY <1>2, PeerRestIInv
<1>3. CASE EpollWait \/ DispatchIgnored \/ DispatchRead \/ DispatchWrite
  BY <1>3, DispatchIInv
<1>4. CASE DispatchHangUp
  BY <1>4, DestroyIInv DEF DispatchHangUp
<1>5. CASE RecvData \/ RecvEnd \/ RecvError \/ RecvAgain
  BY <1>5, RecvIInv
<1>6. CASE ProcessNoMemory \/ ProcessIncomplete \/ ProcessReply
  BY <1>6, ProcessIInv
<1>7. CASE SendData \/ SendAgain \/ SendError
  BY <1>7, SendIInv
<1>8. CASE UNCHANGED vars
  <2>1. TypeOK'
    BY <1>8 DEF IInv, TypeOK, vars
  <2>2. BufferWindow' /\ PageAccounting'
    BY <1>8 DEF IInv, BufferWindow, PageAccounting, Copied, vars
  <2>3. Bounds' /\ Phases' /\ InputCount'
    BY <1>8 DEF IInv, Bounds, Phases, InputCount, Open, Window, Effective, vars
  <2> QED
    BY <2>1, <2>2, <2>3 DEF IInv
<1> QED
  BY <1>1, <1>2, <1>3, <1>4, <1>5, <1>6, <1>7, <1>8 DEF Next, Peer, Server

THEOREM Invariance == Spec => []IInv
<1>1. Init => IInv
  BY InitIInv
<1>2. IInv /\ [Next]_vars => IInv'
  BY StepIInv
<1> QED
  BY <1>1, <1>2, PTL DEF Spec

-----------------------------------------------------------------------------
(* What follows from it                                                    *)

(* The variables keep their types for every page size, every stream and    *)
(* every interleaving of the peer with the handler.                        *)
THEOREM TypeCorrect == Spec => []TypeOK
<1>1. IInv => TypeOK
  BY DEF IInv
<1> QED
  BY <1>1, Invariance, PTL

(* The effective part of the buffer never leaves its block, and send is    *)
(* never called with nothing to send.                                      *)
THEOREM WindowInsideBlock == Spec => []BufferWindow
<1>1. IInv => BufferWindow
  BY DEF IInv
<1> QED
  BY <1>1, Invariance, PTL

(* The read loop's page, offset and total agree with the data read, and no *)
(* read asks for zero bytes.                                               *)
THEOREM PagesAccounted == Spec => []PageAccounting
<1>1. IInv => PageAccounting
  BY DEF IInv
<1> QED
  BY <1>1, Invariance, PTL

(* The wrapped arithmetic of the resize gives the block exactly the size   *)
(* of what it is to hold, whether it grows or shrinks.                     *)
THEOREM ResizeIsExact == Spec => []GatherFits
<1>1. IInv => GatherFits
  <2> SUFFICES ASSUME IInv, pc = "process" PROVE Len(Gathered) = GatheredEnd
    BY DEF GatherFits
  <2>1. /\ Effective \in Nat /\ total \in Nat /\ consumed \in Nat
        /\ Len(inq) \in Nat /\ Len(scratch) = total /\ sent \in Nat
    BY LenProperties DEF IInv, TypeOK, BufferWindow, PageAccounting, Effective
  <2>2. consumed + Effective + total + Len(inq) = sent
    BY <2>1 DEF IInv, InputCount, Phases, Window, Open
  <2>3. Effective + total <= MaxUnits
    BY <2>1, <2>2, ConnectionAssumption DEF IInv, Bounds
  <2>4. NewCapability = Effective + total
    BY <2>3, CapabilityIsPlainSum DEF IInv
  <2> QED
    BY <2>4, GatheredIsConcatenation DEF IInv
<1> QED
  BY <1>1, Invariance, PTL

-----------------------------------------------------------------------------
(* The two byte streams: whatever the sizes and the interleaving, no unit  *)
(* of a request or of a response is lost, repeated, misplaced or           *)
(* overwritten.                                                            *)

StreamInv == InputIntegrity /\ OutputIntegrity

-----------------------------------------------------------------------------
(* Facts of the inductive invariant in the form the steps use              *)

LEMMA Sizes ==
  ASSUME IInv
  PROVE  /\ Len(mem) \in Nat /\ Len(inq) \in Nat /\ Len(outq) \in Nat
         /\ Len(scratch) \in Nat /\ total \in Nat /\ Effective \in Nat
         /\ Effective = end - start /\ Window \in Nat /\ Unsent \in Nat
         /\ start \in Nat /\ end \in Nat /\ end <= Len(mem)
         /\ sent \in Nat /\ taken \in Nat /\ consumed \in Nat /\ rendered \in Nat
BY LenProperties DEF IInv, TypeOK, BufferWindow, Effective, Window, Unsent

(* The n units of a piece of the stream are its units base + 1 and up.     *)
Run(units, n, base) == \A i \in 1 .. n : units[i].at = base + i

LEMMA RunGrows ==
  ASSUME NEW base \in Nat, NEW n \in Nat, NEW old, NEW new, Run(old, n, base),
         \A i \in 1 .. n : new[i] = old[i], new[n + 1].at = base + n + 1
  PROVE  Run(new, n + 1, base)
<1> SUFFICES ASSUME NEW i \in 1 .. n + 1 PROVE new[i].at = base + i
  BY DEF Run
<1>1. CASE i = n + 1
  BY <1>1
<1>2. CASE i # n + 1
  <2>1. i \in 1 .. n
    BY <1>2
  <2> QED
    BY <2>1 DEF Run
<1> QED
  BY <1>1, <1>2

(* The first n units of a run go to the end of the run before it.          *)
LEMMA RunsShift ==
  ASSUME NEW base \in Nat, NEW k \in Nat, NEW q \in Nat, NEW n \in Nat, n <= q,
         NEW front, NEW back, NEW newFront, NEW newBack,
         Run(front, k, base), Run(back, q, base + k),
         \A i \in 1 .. k + n :
           newFront[i] = IF i <= k THEN front[i] ELSE back[i - k],
         \A i \in 1 .. q - n : newBack[i] = back[n + i]
  PROVE  Run(newFront, k + n, base) /\ Run(newBack, q - n, base + k + n)
<1>1. ASSUME NEW i \in 1 .. k + n PROVE newFront[i].at = base + i
  <2>1. CASE i <= k
    <3>1. i \in 1 .. k /\ newFront[i] = front[i]
      BY <2>1
    <3> QED
      BY <3>1 DEF Run
  <2>2. CASE ~(i <= k)
    <3>1. i - k \in 1 .. q /\ newFront[i] = back[i - k]
      BY <2>2
    <3>2. back[i - k].at = base + k + (i - k)
      BY <3>1 DEF Run
    <3> QED
      BY <3>1, <3>2
  <2> QED
    BY <2>1, <2>2
<1>2. ASSUME NEW i \in 1 .. q - n PROVE newBack[i].at = base + k + n + i
  <2>1. n + i \in 1 .. q /\ newBack[i] = back[n + i]
    OBVIOUS
  <2>2. back[n + i].at = base + k + (n + i)
    BY <2>1 DEF Run
  <2> QED
    BY <2>1, <2>2
<1> QED
  BY <1>1, <1>2 DEF Run

LEMMA InitStream == Init => StreamInv
<1> SUFFICES ASSUME Init PROVE StreamInv
  OBVIOUS
<1>1. Len(<<>>) = 0
  BY EmptySeq
<1> QED
  BY <1>1 DEF Init, StreamInv, InputIntegrity, OutputIntegrity, Open, Window,
              Unsent, Effective

(* A destroyed connection owes nothing; what the kernel holds is still in  *)
(* order.                                                                  *)
LEMMA DestroyStream ==
  ASSUME StreamInv, Destroy
  PROVE  StreamInv'
BY DEF StreamInv, InputIntegrity, OutputIntegrity, Open, Unsent, Destroy, socket,
       peer, history, ReplyAt

(* Steps that leave every unit where it is.                                *)
LEMMA NoUnitMoves ==
  ASSUME StreamInv, Open,
         UNCHANGED <<inq, outq, sent, taken, scratch, state, mem, start, end,
                     consumed, rendered>>
  PROVE  StreamInv'
BY DEF StreamInv, InputIntegrity, OutputIntegrity, Open, Window, Unsent, Effective,
       ReplyAt

Quiet ==
  \/ PeerShutdown \/ PeerReset
  \/ EpollWait \/ DispatchIgnored \/ DispatchRead \/ DispatchWrite
  \/ RecvAgain \/ SendAgain

LEMMA QuietKeeps ==
  ASSUME IInv, Quiet
  PROVE  /\ Open
         /\ UNCHANGED <<inq, outq, peer, scratch, connection, history>>
<1> USE DEF Quiet
<1>1. Open
  BY DEF PeerShutdown, PeerReset, EpollWait, DispatchIgnored, DispatchRead,
         DispatchWrite, RecvAgain, SendAgain, Open
<1>2. UNCHANGED <<inq, outq, peer, connection, history>>
  BY DEF PeerShutdown, PeerReset, EpollWait, DispatchIgnored, DispatchRead,
         DispatchWrite, RecvAgain, SendAgain, socket, peer, connection, history
<1>3. scratch' = scratch
  <2>1. CASE PeerShutdown \/ PeerReset \/ EpollWait \/ DispatchRead \/ DispatchWrite
    BY <2>1 DEF PeerShutdown, PeerReset, EpollWait, DispatchRead, DispatchWrite, locals
  <2>2. CASE DispatchIgnored \/ SendAgain
    BY <2>2 DEF DispatchIgnored, SendAgain, Return, IInv, Phases
  <2>3. CASE RecvAgain
    <3>1. CASE total = 0
      <4>1. scratch \in Seq(Unit) /\ Len(scratch) = 0
        BY <3>1 DEF IInv, TypeOK, PageAccounting
      <4>2. scratch = <<>>
        BY <4>1, EmptySeq
      <4> QED
        BY <2>3, <3>1, <4>2 DEF RecvAgain, Return
    <3>2. CASE total # 0
      BY <2>3, <3>2 DEF RecvAgain, locals
    <3> QED
      BY <3>1, <3>2
  <2> QED
    BY <2>1, <2>2, <2>3
<1> QED
  BY <1>1, <1>2, <1>3

LEMMA QuietStream ==
  ASSUME IInv, StreamInv, Quiet
  PROVE  StreamInv'
BY QuietKeeps, NoUnitMoves DEF peer, connection, history

-----------------------------------------------------------------------------
(* The request stream moves                                                *)

LEMMA PeerSendStream ==
  ASSUME IInv, StreamInv, NEW kind \in {"more", "last", "junk"}, PeerSend(kind)
  PROVE  StreamInv'
<1> DEFINE unit == [kind |-> kind, at |-> sent + 1]
           q == Len(inq)
           base == consumed + Window + Len(scratch)
<1>1. inq' = Append(inq, unit) /\ inq \in Seq(Unit) /\ unit \in Unit /\ unit.at = sent + 1
  BY DEF PeerSend, IInv, TypeOK, Unit, Kinds
<1> HIDE DEF unit
<1>2. /\ Len(inq') = q + 1
      /\ \A i \in 1 .. q : inq'[i] = inq[i]
      /\ inq'[q + 1] = unit
  BY <1>1, AppendProperties
<1>3. /\ Open /\ Open' = Open /\ sent' = sent + 1
      /\ UNCHANGED <<outq, taken, scratch, state, mem, start, end, consumed, rendered>>
      /\ Window' = Window /\ Unsent' = Unsent
  BY DEF PeerSend, Open, locals, connection, history, Window, Unsent, Effective
<1>4. OutputIntegrity'
  BY <1>3 DEF StreamInv, OutputIntegrity, ReplyAt
<1>5. /\ base + q = sent
      /\ \A i \in 1 .. Window : mem[start + i].at = consumed + i
      /\ \A i \in 1 .. Len(scratch) : scratch[i].at = consumed + Window + i
      /\ Run(inq, q, base)
  BY <1>3 DEF StreamInv, InputIntegrity, Run
<1>6. q \in Nat /\ base \in Nat /\ sent \in Nat
  BY Sizes
<1>7. base' = base /\ Len(scratch') = Len(scratch)
  BY <1>3
<1> HIDE DEF q, base
<1>8. unit.at = base + q + 1
  BY <1>1, <1>5
<1>9. Run(inq', q + 1, base)
  BY <1>2, <1>5, <1>6, <1>8, RunGrows
<1>10. base + (q + 1) = sent'
  BY <1>3, <1>5, <1>6
<1>11. base' + Len(inq') = sent' /\ Run(inq', Len(inq'), base')
  BY <1>2, <1>7, <1>9, <1>10
<1>12. InputIntegrity'
  BY <1>3, <1>5, <1>11 DEF InputIntegrity, Run, base
<1> QED
  BY <1>4, <1>12 DEF StreamInv

(* The units of a read leave the front of the kernel's queue for the end   *)
(* of the pages.                                                           *)
LEMMA ReceivedPieces ==
  ASSUME IInv, NEW n \in 0 .. Len(inq), Received(n)
  PROVE  /\ SubSeq(inq, 1, n) \in Seq(Unit) /\ Len(SubSeq(inq, 1, n)) = n
         /\ \A i \in 1 .. n : SubSeq(inq, 1, n)[i] = inq[i]
         /\ scratch' = scratch \o SubSeq(inq, 1, n)
         /\ Len(scratch') = Len(scratch) + n
         /\ \A i \in 1 .. Len(scratch) + n :
              scratch'[i] = IF i <= Len(scratch) THEN scratch[i] ELSE inq[i - Len(scratch)]
         /\ inq' \in Seq(Unit) /\ Len(inq') = Len(inq) - n
         /\ \A i \in 1 .. Len(inq) - n : inq'[i] = inq[n + i]
<1> DEFINE taking == SubSeq(inq, 1, n)
           k == Len(scratch)
           q == Len(inq)
<1>1. n \in Nat /\ n <= q /\ inq \in Seq(Unit) /\ scratch \in Seq(Unit)
  BY Sizes DEF IInv, TypeOK
<1>2. \A i \in 1 .. q : inq[i] \in Unit
  BY <1>1, ElementOfSeq
<1>3. /\ taking \in Seq(Unit) /\ Len(taking) = n
      /\ \A i \in 1 .. n : taking[i] = inq[i]
  BY <1>1, <1>2, Sizes, SubSeqProperties
<1>4. /\ inq' \in Seq(Unit)
      /\ Len(inq') = q - n
      /\ \A i \in 1 .. q - n : inq'[i] = inq[n + i]
  <2>1. inq' = SubSeq(inq, n + 1, q)
    BY DEF Received
  <2>2. \A i \in n + 1 .. q : inq[i] \in Unit
    BY <1>1, <1>2, Sizes
  <2>3. n + 1 \in Int /\ q \in Int /\ n <= q
    BY <1>1, Sizes
  <2>4. /\ inq' \in Seq(Unit)
        /\ Len(inq') = IF n + 1 <= q THEN q - (n + 1) + 1 ELSE 0
        /\ \A i \in 1 .. q - (n + 1) + 1 : inq'[i] = inq[(n + 1) + i - 1]
    <3> HIDE DEF q
    <3> QED
      BY <2>1, <2>2, <2>3, SubSeqProperties
  <2> QED
    <3> HIDE DEF q
    <3>1. \A i \in 1 .. q - n : i \in 1 .. q - (n + 1) + 1 /\ (n + 1) + i - 1 = n + i
      BY <2>3
    <3>2. Len(inq') = q - n
      BY <1>1, <2>3, <2>4
    <3> QED
      BY <2>4, <3>1, <3>2
<1>5. scratch' = scratch \o taking
  <2>1. SubSeq(scratch, 1, Copied) = scratch
    BY SubSeqFull DEF IInv, TypeOK, PageAccounting
  <2> QED
    BY <2>1 DEF Received
<1> HIDE DEF taking
<1>6. /\ Len(scratch') = k + n
      /\ \A i \in 1 .. k + n :
           scratch'[i] = IF i <= k THEN scratch[i] ELSE taking[i - k]
  BY <1>1, <1>3, <1>5, ConcatProperties
<1>7. k \in Nat /\ q \in Nat
  BY Sizes
<1> HIDE DEF k, q
<1>8. ASSUME NEW i \in 1 .. k + n
      PROVE  scratch'[i] = IF i <= k THEN scratch[i] ELSE inq[i - k]
  <2>1. CASE i <= k
    BY <1>6, <2>1
  <2>2. CASE ~(i <= k)
    <3>1. i - k \in 1 .. n
      BY <1>1, <1>7, <2>2
    <3> QED
      BY <1>3, <1>6, <2>2, <3>1
  <2> QED
    BY <2>1, <2>2
<1> QED
  BY <1>3, <1>4, <1>5, <1>6, <1>8 DEF taking, k, q

LEMMA ReceivedStream ==
  ASSUME IInv, StreamInv, pc = "recv", NEW n \in 0 .. Len(inq), Received(n),
         UNCHANGED <<outq, peer, pc, connection, history>>
  PROVE  StreamInv'
<1> DEFINE k == Len(scratch)
           q == Len(inq)
           base == consumed + Window
<1>1. n \in Nat /\ n <= q
  BY Sizes
<1>2. Len(inq') = q - n /\ \A i \in 1 .. q - n : inq'[i] = inq[n + i]
  BY ReceivedPieces
<1>3. /\ Len(scratch') = k + n
      /\ \A i \in 1 .. k + n :
           scratch'[i] = IF i <= k THEN scratch[i] ELSE inq[i - k]
  BY ReceivedPieces
<1>4. /\ Open /\ Open'
      /\ UNCHANGED <<sent, taken, state, mem, start, end, consumed, rendered>>
      /\ Window' = Window /\ Unsent' = Unsent
  BY DEF Open, peer, connection, history, Window, Unsent, Effective
<1>5. OutputIntegrity'
  BY <1>4 DEF StreamInv, OutputIntegrity, ReplyAt
<1>6. /\ base + k + q = sent
      /\ \A i \in 1 .. Window : mem[start + i].at = consumed + i
      /\ Run(scratch, k, base)
      /\ Run(inq, q, base + k)
  BY <1>4 DEF StreamInv, InputIntegrity, Run
<1>7. k \in Nat /\ q \in Nat /\ base \in Nat /\ base' = base
  BY <1>4, Sizes
<1> HIDE DEF k, q, base
<1>8. Run(scratch', k + n, base) /\ Run(inq', q - n, base + k + n)
  <2>1. \A i \in 1 .. k + n :
          scratch'[i] = IF i <= k THEN scratch[i] ELSE inq[i - k]
    BY <1>3
  <2>2. n \in Nat /\ n <= q /\ \A i \in 1 .. q - n : inq'[i] = inq[n + i]
    BY <1>1, <1>2
  <2> QED
    BY <1>6, <1>7, <2>1, <2>2, RunsShift, Zenon
<1>9. base + (k + n) + (q - n) = sent /\ base + (k + n) = base + k + n
  BY <1>1, <1>6, <1>7
<1>10. /\ base' + Len(scratch') + Len(inq') = sent'
       /\ Run(scratch', Len(scratch'), base')
       /\ Run(inq', Len(inq'), base' + Len(scratch'))
  BY <1>2, <1>3, <1>4, <1>7, <1>8, <1>9
<1>11. InputIntegrity'
  BY <1>4, <1>6, <1>10 DEF InputIntegrity, Run, base
<1> QED
  BY <1>5, <1>11 DEF StreamInv

LEMMA RecvStream ==
  ASSUME IInv, StreamInv, RecvData \/ RecvEnd \/ RecvError
  PROVE  StreamInv'
<1>1. CASE RecvData
  <2>1. PICK n \in 1 .. Smaller(Len(inq), PageSize - offset) : Received(n)
    BY <1>1 DEF RecvData
  <2>2. n \in 0 .. Len(inq)
    BY Sizes, ConnectionAssumption DEF Smaller, IInv, TypeOK
  <2> QED
    BY <1>1, <2>1, <2>2, ReceivedStream DEF RecvData
<1>2. CASE RecvEnd
  <2>1. CASE Destroy
    BY <2>1, DestroyStream
  <2>2. CASE ~Destroy
    <3>1. 0 \in 0 .. Len(inq)
      BY Sizes
    <3> QED
      BY <1>2, <2>2, <3>1, ReceivedStream DEF RecvEnd
  <2> QED
    BY <2>1, <2>2
<1>3. CASE RecvError
  BY <1>3, DestroyStream DEF RecvError
<1> QED
  BY <1>1, <1>2, <1>3

-----------------------------------------------------------------------------
(* The request stream is consumed                                          *)

(* What the two steps of a gathered round share.                           *)
LEMMA RoundFacts ==
  ASSUME IInv, StreamInv, pc = "process"
  PROVE  /\ Open /\ state = "waiting" /\ Window = Effective /\ Unsent = 0
         /\ GatheredEnd = Effective + Len(scratch) /\ NewCapability = GatheredEnd
         /\ Gathered \in Seq(Unit) /\ Len(Gathered) = GatheredEnd
         /\ \A i \in 1 .. Effective : Gathered[i] = mem[start + i]
         /\ \A i \in 1 .. Len(scratch) : Gathered[Effective + i] = scratch[i]
         /\ \A i \in 1 .. GatheredEnd : Gathered[i].at = consumed + i
         /\ consumed + GatheredEnd + Len(inq) = sent
         /\ \A i \in 1 .. Len(inq) : inq[i].at = consumed + GatheredEnd + i
         /\ taken + Len(outq) = rendered
<1>1. Open /\ state = "waiting" /\ Window = Effective /\ Unsent = 0
  BY DEF IInv, Phases, Open, Window, Unsent
<1>2. GatheredEnd = Effective + Len(scratch) /\ total = Len(scratch)
  BY DEF GatheredEnd, IInv, PageAccounting
<1>3. /\ consumed + Effective + Len(scratch) + Len(inq) = sent
      /\ \A i \in 1 .. Effective : mem[start + i].at = consumed + i
      /\ \A i \in 1 .. Len(scratch) : scratch[i].at = consumed + Effective + i
      /\ \A i \in 1 .. Len(inq) : inq[i].at = consumed + Effective + Len(scratch) + i
  BY <1>1 DEF StreamInv, InputIntegrity
<1> DEFINE e == Effective
           k == Len(scratch)
           q == Len(inq)
<1>4. e \in Nat /\ k \in Nat /\ q \in Nat /\ consumed \in Nat /\ sent \in Nat
  BY Sizes
<1> HIDE DEF e, k, q
<1>5. Effective + total <= MaxUnits
  <2>1. e + k <= sent
    BY <1>3, <1>4 DEF e, k, q
  <2>2. sent <= MaxUnits
    BY DEF IInv, Bounds
  <2> QED
    BY <1>2, <1>4, <2>1, <2>2, ConnectionAssumption DEF e, k
<1>6. NewCapability = Effective + total
  BY <1>5, CapabilityIsPlainSum DEF IInv
<1>7. /\ Gathered \in Seq(Unit) /\ Len(Gathered) = GatheredEnd
      /\ \A i \in 1 .. e : Gathered[i] = mem[start + i]
      /\ \A i \in 1 .. k : Gathered[e + i] = scratch[i]
  BY <1>2, <1>6, GatheredIsConcatenation DEF IInv, e, k
<1>8. ASSUME NEW i \in 1 .. e + k
      PROVE  Gathered[i].at = consumed + i
  <2>1. CASE i <= e
    <3>1. i \in 1 .. e
      BY <1>4, <2>1
    <3>2. mem[start + i].at = consumed + i
      BY <1>3, <3>1 DEF e
    <3> QED
      BY <1>7, <3>1, <3>2
  <2>2. CASE ~(i <= e)
    <3> DEFINE j == i - e
    <3>1. j \in 1 .. k /\ i = e + j
      BY <1>4, <2>2
    <3> HIDE DEF j
    <3>2. scratch[j].at = consumed + e + j
      BY <1>3, <3>1 DEF e, k
    <3>3. Gathered[i] = scratch[j]
      BY <1>7, <3>1
    <3>4. consumed + e + j = consumed + i
      BY <1>4, <3>1
    <3> QED
      BY <3>2, <3>3, <3>4
  <2> QED
    BY <2>1, <2>2
<1>9. consumed + GatheredEnd + q = sent /\ consumed + GatheredEnd = consumed + e + k
  BY <1>2, <1>3, <1>4 DEF e, k, q
<1>10. \A i \in 1 .. q : inq[i].at = consumed + GatheredEnd + i
  BY <1>3, <1>9 DEF e, k, q
<1>11. taken + Len(outq) = rendered
  BY <1>1, Sizes DEF StreamInv, OutputIntegrity
<1> QED
  BY <1>1, <1>2, <1>6, <1>7, <1>8, <1>9, <1>10, <1>11 DEF e, k, q

LEMMA IncompleteStream ==
  ASSUME IInv, StreamInv, ProcessIncomplete
  PROVE  StreamInv'
<1>1. /\ pc = "process" /\ Open' /\ state' = "waiting"
      /\ mem' = Gathered /\ start' = 0 /\ end' = GatheredEnd /\ scratch' = <<>>
      /\ UNCHANGED <<inq, outq, sent, taken, consumed, rendered>>
  BY RoundFacts DEF ProcessIncomplete, Return, Open, socket, peer, history
<1>2. Len(scratch') = 0
  BY <1>1, EmptySeq
<1>3. GatheredEnd \in Nat
  BY <1>1, RoundFacts, Sizes
<1>4. Window' = GatheredEnd /\ Unsent' = 0
  BY <1>1, <1>3 DEF Window, Unsent, Effective
<1>5. InputIntegrity'
  <2>1. \A i \in 1 .. Window' : mem'[start' + i].at = consumed' + i
    BY <1>1, <1>3, <1>4, RoundFacts
  <2>2. consumed' + Window' + Len(scratch') = consumed + GatheredEnd
    BY <1>1, <1>2, <1>3, <1>4, Sizes
  <2>3. consumed' + Window' + Len(scratch') + Len(inq') = sent'
    BY <1>1, <2>2, RoundFacts
  <2>4. \A i \in 1 .. Len(inq') :
          inq'[i].at = consumed' + Window' + Len(scratch') + i
    BY <1>1, <2>2, RoundFacts
  <2>5. 1 .. Len(scratch') = {}
    BY <1>2
  <2> QED
    BY <2>1, <2>3, <2>4, <2>5 DEF InputIntegrity
<1>6. OutputIntegrity'
  <2>1. taken' + Len(outq') + Unsent' = rendered'
    BY <1>1, <1>4, RoundFacts, Sizes
  <2>2. \A i \in 1 .. Len(outq') : ReplyAt(outq'[i], taken' + i)
    BY <1>1 DEF StreamInv, OutputIntegrity
  <2>3. 1 .. Unsent' = {}
    BY <1>4
  <2> QED
    BY <2>1, <2>2, <2>3 DEF OutputIntegrity, ReplyAt
<1> QED
  BY <1>5, <1>6 DEF StreamInv

LEMMA ReplyStream ==
  ASSUME IInv, StreamInv, ProcessReply
  PROVE  StreamInv'
<1>1. PICK n \in 1 .. MaxReply :
        /\ mem' = IF n <= NewCapability THEN CopyIn(Gathered, 0, ReplyUnits(n))
                                        ELSE ReplyUnits(n)
        /\ end' = n
        /\ rendered' = rendered + n
  BY DEF ProcessReply
<1>2. /\ pc = "process" /\ Open' /\ state' = "writing" /\ start' = 0 /\ scratch' = <<>>
      /\ consumed' = consumed + GatheredEnd
      /\ UNCHANGED <<inq, outq, sent, taken>>
  BY DEF ProcessReply, Open, socket, peer
<1>3. Len(scratch') = 0 /\ n \in Nat
  BY <1>2, EmptySeq, ConnectionAssumption
<1>4. Window' = 0 /\ Unsent' = n
  BY <1>1, <1>2, <1>3 DEF Window, Unsent, Effective
<1>5. InputIntegrity'
  <2>1. GatheredEnd \in Nat
    BY <1>2, RoundFacts, Sizes
  <2>2. consumed' + Window' + Len(scratch') = consumed + GatheredEnd
    BY <1>2, <1>3, <1>4, <2>1, Sizes
  <2>3. consumed' + Window' + Len(scratch') + Len(inq') = sent'
    BY <1>2, <2>2, RoundFacts
  <2>4. \A i \in 1 .. Len(inq') :
          inq'[i].at = consumed' + Window' + Len(scratch') + i
    BY <1>2, <2>2, RoundFacts
  <2>5. 1 .. Len(scratch') = {} /\ 1 .. Window' = {}
    BY <1>3, <1>4
  <2> QED
    BY <2>3, <2>4, <2>5 DEF InputIntegrity
<1>6. ReplyUnits(n) = [i \in 1 .. n |-> [kind |-> "reply", at |-> rendered + i]]
  BY DEF ReplyUnits
<1>7. Len(ReplyUnits(n)) = n
  <2>1. ASSUME NEW i \in 1 .. n
        PROVE  [kind |-> "reply", at |-> rendered + i] \in Unit
    <3>1. rendered \in Nat
      BY Sizes
    <3>2. i \in Nat /\ rendered + i \in Nat
      BY <1>3, <3>1
    <3> QED
      BY <3>2 DEF Unit, Kinds
  <2>2. ReplyUnits(n) \in [1 .. n -> Unit]
    BY <1>6, <2>1
  <2> QED
    BY <1>3, <2>2, FunctionIsSeq
<1>8. ASSUME NEW i \in 1 .. n
      PROVE  mem'[i] = [kind |-> "reply", at |-> rendered + i]
  <2>1. CASE n <= NewCapability
    <3>1. i \in 1 .. Len(Gathered) /\ i \in 0 + 1 .. 0 + n /\ i - 0 = i
      <4>1. Len(Gathered) = NewCapability /\ NewCapability \in Nat
        BY <1>2, RoundFacts, LenProperties
      <4> QED
        BY <1>3, <2>1, <4>1
    <3>2. mem' = CopyIn(Gathered, 0, ReplyUnits(n))
      BY <1>1, <2>1
    <3>3. mem'[i] = ReplyUnits(n)[i]
      BY <1>7, <3>1, <3>2 DEF CopyIn
    <3> QED
      BY <1>6, <3>3
  <2>2. CASE ~(n <= NewCapability)
    BY <1>1, <1>6, <2>2
  <2> QED
    BY <2>1, <2>2
<1>9. OutputIntegrity'
  <2>1. taken' + Len(outq') + Unsent' = rendered' /\ taken' + Len(outq') = rendered
    BY <1>1, <1>2, <1>4, RoundFacts
  <2>2. \A i \in 1 .. Len(outq') : ReplyAt(outq'[i], taken' + i)
    BY <1>2 DEF StreamInv, OutputIntegrity
  <2>3. ASSUME NEW i \in 1 .. Unsent'
        PROVE  ReplyAt(mem'[start' + i], taken' + Len(outq') + i)
    <3>1. i \in 1 .. n /\ start' + i = i
      BY <1>2, <1>3, <1>4
    <3>2. mem'[i] = [kind |-> "reply", at |-> rendered + i]
      BY <1>8, <3>1
    <3> QED
      BY <2>1, <3>1, <3>2 DEF ReplyAt
  <2> QED
    BY <2>1, <2>2, <2>3 DEF OutputIntegrity, ReplyAt
<1> QED
  BY <1>5, <1>9 DEF StreamInv

-----------------------------------------------------------------------------
(* The response stream moves                                               *)

LEMMA PeerTakeStream ==
  ASSUME IInv, StreamInv, PeerTake
  PROVE  StreamInv'
<1> DEFINE m == Len(outq)
           u == Unsent
<1>1. /\ Open /\ Open' /\ outq \in Seq(Unit) /\ outq # <<>>
      /\ outq' = Tail(outq) /\ taken' = taken + 1
      /\ UNCHANGED <<inq, sent, scratch, state, mem, start, end, consumed, rendered>>
  BY DEF PeerTake, IInv, TypeOK, Open, locals, connection, history
<1>2. Window' = Window /\ Unsent' = u
  BY <1>1 DEF Window, Unsent, Effective
<1>3. InputIntegrity'
  BY <1>1, <1>2 DEF StreamInv, InputIntegrity
<1>4. /\ Len(outq') = m - 1
      /\ \A i \in 1 .. m - 1 : outq'[i] = outq[i + 1]
  BY <1>1, HeadTailProperties
<1>5. m \in Nat /\ u \in Nat /\ taken \in Nat /\ start \in Nat
  BY Sizes
<1>6. /\ taken + m + u = rendered
      /\ \A i \in 1 .. m : ReplyAt(outq[i], taken + i)
      /\ \A i \in 1 .. u : ReplyAt(mem[start + i], taken + m + i)
  BY <1>1 DEF StreamInv, OutputIntegrity
<1> HIDE DEF m, u
<1>7. taken' + Len(outq') = taken + m
  BY <1>1, <1>4, <1>5
<1>8. ASSUME NEW i \in 1 .. m - 1
      PROVE  ReplyAt(outq'[i], taken' + i)
  <2>1. i + 1 \in 1 .. m /\ taken' + i = taken + (i + 1)
    BY <1>1, <1>5
  <2>2. ReplyAt(outq[i + 1], taken + (i + 1))
    BY <1>6, <2>1
  <2>3. outq'[i] = outq[i + 1]
    BY <1>4
  <2> QED
    BY <2>1, <2>2, <2>3
<1>9. OutputIntegrity'
  BY <1>1, <1>2, <1>4, <1>6, <1>7, <1>8 DEF OutputIntegrity, ReplyAt
<1> QED
  BY <1>3, <1>9 DEF StreamInv

LEMMA SendDataStream ==
  ASSUME IInv, StreamInv, SendData
  PROVE  StreamInv'
<1>1. PICK n \in 1 .. Smaller(SendSpace - Len(outq), Effective) :
        /\ outq' = outq \o SubSeq(mem, start + 1, start + n)
        /\ start' = start + n
        /\ \/ n = Effective /\ state' = "waiting" /\ Return
           \/ n # Effective /\ UNCHANGED <<state, pc, event, locals>>
  BY DEF SendData
<1> DEFINE m == Len(outq)
           u == Effective
           data == SubSeq(mem, start + 1, start + n)
<1>2. /\ Open /\ state = "writing" /\ Window = 0 /\ Unsent = u
      /\ UNCHANGED <<inq, sent, taken, mem, end, consumed, rendered>>
  BY DEF SendData, IInv, BufferWindow, Open, Window, Unsent, peer, history
<1>3. /\ m \in Nat /\ u \in Nat /\ start \in Nat /\ end \in Nat /\ taken \in Nat
      /\ u = end - start /\ end <= Len(mem) /\ Len(mem) \in Nat
  BY Sizes
<1>4. n \in Nat /\ n <= u /\ n >= 1
  BY <1>3, ConnectionAssumption DEF Smaller
<1>5. /\ taken + m + u = rendered
      /\ \A i \in 1 .. m : ReplyAt(outq[i], taken + i)
      /\ \A i \in 1 .. u : ReplyAt(mem[start + i], taken + m + i)
  BY <1>2 DEF StreamInv, OutputIntegrity
<1>6. scratch = <<>> /\ scratch' = <<>> /\ Open'
  BY <1>1 DEF SendData, IInv, Phases, Return, locals, Open
<1>7. Window' = 0 /\ Unsent' = u - n
  BY <1>1, <1>2, <1>3 DEF Window, Unsent, Effective
<1>8. InputIntegrity'
  <2>1. 1 .. Window' = {}
    BY <1>7
  <2> QED
    BY <1>2, <1>6, <1>7, <2>1 DEF StreamInv, InputIntegrity
<1>9. /\ data \in Seq(Unit) /\ Len(data) = n
      /\ \A i \in 1 .. n : data[i] = mem[start + i]
  <2>1. mem \in Seq(Unit)
    BY DEF IInv, TypeOK
  <2>2. \A i \in start + 1 .. start + n : mem[i] \in Unit
    BY <1>3, <1>4, <2>1, ElementOfSeq
  <2>3. /\ data \in Seq(Unit)
        /\ Len(data) = IF start + 1 <= start + n THEN start + n - (start + 1) + 1 ELSE 0
        /\ \A i \in 1 .. start + n - (start + 1) + 1 : data[i] = mem[start + 1 + i - 1]
    BY <1>3, <1>4, <2>2, SubSeqProperties
  <2> HIDE DEF data
  <2> QED
    BY <1>3, <1>4, <2>3
<1>10. outq \in Seq(Unit) /\ outq' = outq \o data
  BY <1>1 DEF IInv, TypeOK
<1> HIDE DEF data
<1>11. /\ Len(outq') = m + n
       /\ \A i \in 1 .. m + n : outq'[i] = IF i <= m THEN outq[i] ELSE data[i - m]
  BY <1>9, <1>10, ConcatProperties
<1> HIDE DEF m, u
<1>12. ASSUME NEW i \in 1 .. m + n
       PROVE  ReplyAt(outq'[i], taken' + i)
  <2>1. CASE i <= m
    <3>1. i \in 1 .. m /\ outq'[i] = outq[i]
      BY <1>3, <1>11, <2>1
    <3> QED
      BY <1>2, <1>5, <3>1
  <2>2. CASE ~(i <= m)
    <3> DEFINE j == i - m
    <3>1. j \in 1 .. n /\ j \in 1 .. u /\ taken + m + j = taken + i
      BY <1>3, <1>4, <2>2
    <3>2. outq'[i] = data[j]
      BY <1>11, <2>2
    <3> HIDE DEF j
    <3>3. data[j] = mem[start + j]
      BY <1>9, <3>1
    <3>4. ReplyAt(mem[start + j], taken + m + j)
      BY <1>5, <3>1
    <3> QED
      BY <1>2, <3>1, <3>2, <3>3, <3>4
  <2> QED
    BY <2>1, <2>2
<1>13. ASSUME NEW i \in 1 .. u - n
       PROVE  ReplyAt(mem'[start' + i], taken' + Len(outq') + i)
  <2> DEFINE j == n + i
  <2>1. j \in 1 .. u /\ start' + i = start + j /\ taken + m + j = taken + (m + n) + i
    BY <1>1, <1>3, <1>4
  <2> HIDE DEF j
  <2>2. ReplyAt(mem[start + j], taken + m + j)
    BY <1>5, <2>1
  <2> QED
    BY <1>2, <1>11, <2>1, <2>2
<1>14. taken' + Len(outq') + Unsent' = rendered'
  BY <1>2, <1>3, <1>4, <1>5, <1>7, <1>11
<1>15. OutputIntegrity'
  BY <1>7, <1>11, <1>12, <1>13, <1>14 DEF OutputIntegrity, ReplyAt
<1> QED
  BY <1>8, <1>15 DEF StreamInv

-----------------------------------------------------------------------------
(* The theorems                                                            *)

LEMMA StepStream ==
  ASSUME IInv, StreamInv, [Next]_vars
  PROVE  StreamInv'
<1>1. CASE UNCHANGED vars
  BY <1>1 DEF vars, StreamInv, InputIntegrity, OutputIntegrity, Open, Window, Unsent,
              Effective, ReplyAt
<1>2. CASE Peer
  <2>1. CASE \E kind \in {"more", "last", "junk"} : PeerSend(kind)
    BY <2>1, PeerSendStream
  <2>2. CASE PeerTake
    BY <2>2, PeerTakeStream
  <2>3. CASE PeerShutdown \/ PeerReset
    BY <2>3, QuietStream DEF Quiet
  <2> QED
    BY <1>2, <2>1, <2>2, <2>3 DEF Peer
<1>3. CASE Server
  <2>1. CASE EpollWait \/ DispatchIgnored \/ DispatchRead \/ DispatchWrite \/ RecvAgain
               \/ SendAgain
    BY <2>1, QuietStream DEF Quiet
  <2>2. CASE DispatchHangUp \/ ProcessNoMemory \/ SendError
    BY <2>2, DestroyStream DEF DispatchHangUp, ProcessNoMemory, SendError
  <2>3. CASE RecvData \/ RecvEnd \/ RecvError
    BY <2>3, RecvStream
  <2>4. CASE ProcessIncomplete
    BY <2>4, IncompleteStream
  <2>5. CASE ProcessReply
    BY <2>5, ReplyStream
  <2>6. CASE SendData
    BY <2>6, SendDataStream
  <2> QED
    BY <1>3, <2>1, <2>2, <2>3, <2>4, <2>5, <2>6 DEF Server
<1> QED
  BY <1>1, <1>2, <1>3 DEF Next

LEMMA StreamInvariance == Spec => []StreamInv
<1>1. Init => StreamInv
  BY InitStream
<1>2. IInv /\ StreamInv /\ [Next]_vars => StreamInv'
  BY StepStream
<1>3. Spec => []IInv
  BY Invariance
<1> QED
  BY <1>1, <1>2, <1>3, PTL DEF Spec

(* The request bytes of a connection are read by handle_connection without *)
(* loss, repetition or reordering, for every page size and every way recv  *)
(* cuts the stream.                                                        *)
THEOREM InputIsPreserved == Spec => []InputIntegrity
<1>1. StreamInv => InputIntegrity
  BY DEF StreamInv
<1> QED
  BY <1>1, StreamInvariance, PTL

(* The response bytes reach the peer as they were rendered, for every      *)
(* length of response and every way send cuts it.                          *)
THEOREM OutputIsPreserved == Spec => []OutputIntegrity
<1>1. StreamInv => OutputIntegrity
  BY DEF StreamInv
<1> QED
  BY <1>1, StreamInvariance, PTL

-----------------------------------------------------------------------------
(* Counting the ends of messages in a piece of the stream                  *)

EndsOf(units) == {i \in DOMAIN units : units[i].kind \in Ends}

LEMMA CountType ==
  ASSUME NEW s \in Seq(Unit)
  PROVE  /\ IsFiniteSet(EndsOf(s)) /\ CountEnds(s) = Cardinality(EndsOf(s))
         /\ CountEnds(s) \in Nat
         /\ EndsOf(s) = {i \in 1 .. Len(s) : s[i].kind \in Ends}
<1>1. DOMAIN s = 1 .. Len(s) /\ Len(s) \in Nat
  BY LenProperties
<1>2. IsFiniteSet(1 .. Len(s))
  BY <1>1, FS_Interval
<1>3. EndsOf(s) \in SUBSET (1 .. Len(s))
  BY <1>1 DEF EndsOf
<1>4. IsFiniteSet(EndsOf(s))
  BY <1>2, <1>3, FS_Subset
<1>5. CountEnds(s) = Cardinality(EndsOf(s))
  BY DEF CountEnds, EndsOf
<1> QED
  BY <1>1, <1>4, <1>5, FS_CardinalityType DEF EndsOf

LEMMA CountNone ==
  ASSUME NEW s \in Seq(Unit)
  PROVE  CountEnds(s) = 0 <=> \A i \in 1 .. Len(s) : s[i].kind \notin Ends
<1>1. CountEnds(s) = 0 <=> EndsOf(s) = {}
  BY CountType, FS_EmptySet
<1> QED
  BY <1>1, CountType

LEMMA CountEmpty == CountEnds(<<>>) = 0
<1>1. <<>> \in Seq(Unit) /\ Len(<<>>) = 0
  BY EmptySeq
<1>2. 1 .. Len(<<>>) = {}
  BY <1>1
<1> QED
  BY <1>1, <1>2, CountNone

(* A piece that consists of two has the ends of both.                      *)
LEMMA CountJoined ==
  ASSUME NEW s \in Seq(Unit), NEW t \in Seq(Unit), NEW r \in Seq(Unit),
         Len(r) = Len(s) + Len(t),
         \A i \in 1 .. Len(s) : r[i] = s[i],
         \A i \in 1 .. Len(t) : r[Len(s) + i] = t[i]
  PROVE  CountEnds(r) = CountEnds(s) + CountEnds(t)
<1> DEFINE a == Len(s)
           b == Len(t)
           moved == {a + i : i \in EndsOf(t)}
           f == [i \in EndsOf(t) |-> a + i]
<1>1. a \in Nat /\ b \in Nat
  BY LenProperties
<1>2. EndsOf(t) \subseteq 1 .. b /\ EndsOf(s) \subseteq 1 .. a
  BY CountType
<1>3. f \in Bijection(EndsOf(t), moved)
  <2>1. f \in [EndsOf(t) -> moved]
    OBVIOUS
  <2>2. \A i, j \in EndsOf(t) : f[i] = f[j] => i = j
    BY <1>1, <1>2
  <2>3. \A j \in moved : \E i \in EndsOf(t) : f[i] = j
    OBVIOUS
  <2> QED
    BY <2>1, <2>2, <2>3 DEF Bijection, Injection, Surjection, IsInjective
<1>4. IsFiniteSet(moved) /\ Cardinality(moved) = CountEnds(t)
  <2>1. ExistsBijection(EndsOf(t), moved)
    BY <1>3 DEF ExistsBijection
  <2> QED
    BY <2>1, CountType, FS_Bijection
<1>5. EndsOf(s) \cap moved = {}
  BY <1>1, <1>2
<1>6. EndsOf(r) = EndsOf(s) \cup moved
  <2>1. ASSUME NEW j \in EndsOf(r) PROVE j \in EndsOf(s) \cup moved
    <3>1. j \in 1 .. a + b /\ r[j].kind \in Ends
      BY <2>1, CountType
    <3>2. CASE j <= a
      <4>1. j \in 1 .. a
        BY <1>1, <3>1, <3>2
      <4> QED
        BY <3>1, <4>1, CountType
    <3>3. CASE ~(j <= a)
      <4>1. j - a \in 1 .. b /\ j = a + (j - a)
        BY <1>1, <3>1, <3>3
      <4>2. t[j - a].kind \in Ends
        BY <3>1, <4>1
      <4>3. j - a \in EndsOf(t)
        BY <4>1, <4>2, CountType
      <4> QED
        BY <4>1, <4>3
    <3> QED
      BY <3>2, <3>3
  <2>2. ASSUME NEW j \in EndsOf(s) PROVE j \in EndsOf(r)
    <3>1. j \in 1 .. a /\ s[j].kind \in Ends
      BY CountType
    <3>2. j \in 1 .. Len(r) /\ r[j] = s[j]
      BY <1>1, <3>1
    <3> QED
      BY <3>1, <3>2, CountType
  <2>3. ASSUME NEW i \in EndsOf(t) PROVE a + i \in EndsOf(r)
    <3>1. i \in 1 .. b /\ t[i].kind \in Ends
      BY CountType
    <3>2. a + i \in 1 .. Len(r) /\ r[a + i] = t[i]
      BY <1>1, <3>1
    <3> QED
      BY <3>1, <3>2, CountType
  <2> QED
    BY <2>1, <2>2, <2>3
<1>7. Cardinality(EndsOf(r)) = CountEnds(s) + CountEnds(t) - Cardinality({})
  BY <1>4, <1>5, <1>6, CountType, FS_Union
<1> QED
  BY <1>7, CountType, FS_EmptySet

-----------------------------------------------------------------------------
(* Where messages are                                                      *)

(* The units of a request that wait in the connection's buffer.            *)
Held == IF state = "waiting" THEN SubSeq(mem, start + 1, end) ELSE <<>>

LEMMA WindowSeq ==
  ASSUME NEW m \in Seq(Unit), NEW s \in Nat, NEW e \in Nat, s <= e, e <= Len(m)
  PROVE  /\ SubSeq(m, s + 1, e) \in Seq(Unit)
         /\ Len(SubSeq(m, s + 1, e)) = e - s
         /\ \A i \in 1 .. e - s : SubSeq(m, s + 1, e)[i] = m[s + i]
<1>1. Len(m) \in Nat /\ \A i \in s + 1 .. e : m[i] \in Unit
  <2>1. Len(m) \in Nat
    BY LenProperties
  <2> QED
    BY <2>1, ElementOfSeq
<1>2. /\ SubSeq(m, s + 1, e) \in Seq(Unit)
      /\ Len(SubSeq(m, s + 1, e)) = IF s + 1 <= e THEN e - (s + 1) + 1 ELSE 0
      /\ \A i \in 1 .. e - (s + 1) + 1 : SubSeq(m, s + 1, e)[i] = m[s + 1 + i - 1]
  BY <1>1, SubSeqProperties
<1> QED
  BY <1>2

LEMMA HeldFacts ==
  ASSUME IInv
  PROVE  /\ Held \in Seq(Unit) /\ scratch \in Seq(Unit) /\ inq \in Seq(Unit)
         /\ Len(Held) = Window
         /\ \A i \in 1 .. Window : Held[i] = mem[start + i]
         /\ InFlight = CountEnds(Held) + CountEnds(scratch) + CountEnds(inq)
         /\ CountEnds(Held) \in Nat /\ CountEnds(scratch) \in Nat /\ CountEnds(inq) \in Nat
<1>1. scratch \in Seq(Unit) /\ inq \in Seq(Unit)
  BY DEF IInv, TypeOK
<1>2. CASE state = "waiting"
  <2>1. Held = SubSeq(mem, start + 1, end) /\ Window = end - start
    BY <1>2 DEF Held, Window, Effective
  <2>2. mem \in Seq(Unit) /\ start \in Nat /\ end \in Nat /\ start <= end /\ end <= Len(mem)
    BY DEF IInv, TypeOK, BufferWindow
  <2>3. /\ Held \in Seq(Unit) /\ Len(Held) = Window
        /\ \A i \in 1 .. Window : Held[i] = mem[start + i]
    BY <2>1, <2>2, WindowSeq
  <2> QED
    BY <1>1, <2>3, CountType DEF InFlight, Held
<1>3. CASE state # "waiting"
  <2>1. Held = <<>> /\ Window = 0
    BY <1>3 DEF Held, Window
  <2>2. Held \in Seq(Unit) /\ Len(Held) = 0
    BY <2>1, EmptySeq
  <2>3. 1 .. Window = {}
    BY <2>1
  <2> QED
    BY <1>1, <2>1, <2>2, <2>3, CountType DEF InFlight, Held
<1> QED
  BY <1>2, <1>3

-----------------------------------------------------------------------------
(* What a step does to the messages in flight                              *)

LEMMA FlightKept ==
  ASSUME UNCHANGED <<inq, scratch, state, mem, start, end>>
  PROVE  InFlight' = InFlight
BY DEF InFlight, CountEnds

LEMMA PeerSendFlight ==
  ASSUME IInv, NEW kind \in {"more", "last", "junk"}, PeerSend(kind)
  PROVE  InFlight' = InFlight + IF kind \in Ends THEN 1 ELSE 0
<1> DEFINE unit == [kind |-> kind, at |-> sent + 1]
           one == <<unit>>
<1>1. inq' = Append(inq, unit) /\ inq \in Seq(Unit) /\ unit \in Unit /\ unit.kind = kind
  BY DEF PeerSend, IInv, TypeOK, Unit, Kinds
<1> HIDE DEF unit
<1>2. one \in Seq(Unit) /\ Len(one) = 1 /\ one[1] = unit
  BY <1>1
<1> HIDE DEF one
<1>3. /\ inq' \in Seq(Unit) /\ Len(inq') = Len(inq) + 1
      /\ \A i \in 1 .. Len(inq) : inq'[i] = inq[i]
      /\ inq'[Len(inq) + 1] = unit
  BY <1>1, AppendProperties
<1>4. CountEnds(inq') = CountEnds(inq) + CountEnds(one)
  <2>1. /\ Len(inq') = Len(inq) + Len(one)
        /\ \A i \in 1 .. Len(one) : inq'[Len(inq) + i] = one[i]
    <3> DEFINE q == Len(inq)
               l == Len(one)
    <3>1. q \in Nat /\ l = 1
      BY <1>1, <1>2, HeldFacts
    <3>2. Len(inq') = q + 1 /\ inq'[q + 1] = one[1]
      BY <1>2, <1>3, Zenon
    <3> HIDE DEF q, l
    <3>3. Len(inq') = q + l /\ \A i \in 1 .. l : inq'[q + i] = one[i]
      BY <3>1, <3>2
    <3> QED
      BY <3>3, Zenon DEF q, l
  <2> QED
    BY <1>1, <1>2, <1>3, <2>1, CountJoined
<1>5. CountEnds(one) = IF kind \in Ends THEN 1 ELSE 0
  <2>1. EndsOf(one) = {i \in {1} : one[i].kind \in Ends}
    BY <1>2, CountType
  <2>2. EndsOf(one) = IF kind \in Ends THEN {1} ELSE {}
    BY <1>1, <1>2, <2>1
  <2>3. CountEnds(one) = Cardinality(EndsOf(one))
    BY <1>2, CountType
  <2>4. Cardinality({}) = 0 /\ Cardinality({1}) = 1
    BY FS_EmptySet, FS_Singleton
  <2> QED
    BY <2>2, <2>3, <2>4
<1>6. UNCHANGED <<scratch, state, mem, start, end>>
  BY DEF PeerSend, locals, connection
<1>7. InFlight' = CountEnds(Held) + CountEnds(scratch) + CountEnds(inq')
  BY <1>6 DEF InFlight, Held, CountEnds
<1> QED
  BY <1>4, <1>5, <1>7, HeldFacts

(* A read moves ends from the kernel to the pages.                         *)
LEMMA ReceivedFlight ==
  ASSUME IInv, NEW n \in 0 .. Len(inq), Received(n), UNCHANGED connection
  PROVE  InFlight' = InFlight
<1> DEFINE taking == SubSeq(inq, 1, n)
<1>1. n \in Nat /\ n <= Len(inq) /\ Len(inq) \in Nat /\ Len(scratch) \in Nat
  BY Sizes
<1>2. /\ taking \in Seq(Unit) /\ Len(taking) = n
      /\ \A i \in 1 .. n : taking[i] = inq[i]
      /\ scratch' = scratch \o taking
      /\ inq' \in Seq(Unit) /\ Len(inq') = Len(inq) - n
      /\ \A i \in 1 .. Len(inq) - n : inq'[i] = inq[n + i]
  BY ReceivedPieces
<1>3. scratch \in Seq(Unit) /\ inq \in Seq(Unit)
  BY HeldFacts
<1> HIDE DEF taking
<1>4. /\ scratch' \in Seq(Unit) /\ Len(scratch') = Len(scratch) + Len(taking)
      /\ \A i \in 1 .. Len(scratch) : scratch'[i] = scratch[i]
      /\ \A i \in 1 .. Len(taking) : scratch'[Len(scratch) + i] = taking[i]
  <2>1. /\ scratch' \in Seq(Unit) /\ Len(scratch') = Len(scratch) + Len(taking)
        /\ \A i \in 1 .. Len(scratch) + Len(taking) :
             scratch'[i] = IF i <= Len(scratch) THEN scratch[i]
                                                ELSE taking[i - Len(scratch)]
    BY <1>2, <1>3, ConcatProperties
  <2> DEFINE k == Len(scratch)
             t == Len(taking)
  <2>2. k \in Nat /\ t \in Nat
    BY <1>1, <1>2
  <2>5. /\ scratch' \in Seq(Unit) /\ Len(scratch') = k + t
        /\ \A i \in 1 .. k + t : scratch'[i] = IF i <= k THEN scratch[i] ELSE taking[i - k]
    BY <2>1, Zenon
  <2> HIDE DEF k, t
  <2>3. \A i \in 1 .. k : scratch'[i] = scratch[i]
    <3>1. \A i \in 1 .. k : i \in 1 .. k + t /\ i <= k
      BY <2>2
    <3> QED
      BY <2>5, <3>1
  <2>4. ASSUME NEW i \in 1 .. t PROVE scratch'[k + i] = taking[i]
    <3>1. k + i \in 1 .. k + t /\ ~(k + i <= k) /\ (k + i) - k = i
      BY <2>2
    <3> QED
      BY <2>5, <3>1
  <2> QED
    BY <2>5, <2>3, <2>4 DEF k, t
<1>5. CountEnds(scratch') = CountEnds(scratch) + CountEnds(taking)
  <2>1. scratch \in Seq(Unit) /\ taking \in Seq(Unit)
    BY <1>2, <1>3
  <2> QED
    BY <2>1, <1>4, CountJoined
<1>6. CountEnds(inq) = CountEnds(taking) + CountEnds(inq')
  <2>1. /\ Len(inq) = Len(taking) + Len(inq')
        /\ \A i \in 1 .. Len(taking) : inq[i] = taking[i]
        /\ \A i \in 1 .. Len(inq') : inq[Len(taking) + i] = inq'[i]
    BY <1>1, <1>2
  <2> QED
    <3>1. taking \in Seq(Unit) /\ inq \in Seq(Unit) /\ inq' \in Seq(Unit)
      BY <1>2, <1>3
    <3> QED
      BY <2>1, <3>1, CountJoined
<1>7. InFlight' = CountEnds(Held) + CountEnds(scratch') + CountEnds(inq')
  BY DEF InFlight, Held, CountEnds, connection
<1>8. /\ CountEnds(taking) \in Nat /\ CountEnds(inq') \in Nat
      /\ CountEnds(scratch) \in Nat /\ CountEnds(Held) \in Nat
      /\ InFlight = CountEnds(Held) + CountEnds(scratch) + CountEnds(inq)
  BY <1>2, CountType, HeldFacts
<1> QED
  BY <1>5, <1>6, <1>7, <1>8

LEMMA DestroyFlight ==
  ASSUME IInv, Destroy
  PROVE  InFlight' \in Nat /\ InFlight' <= InFlight
<1>1. state' = "waiting" /\ mem' = <<>> /\ start' = 0 /\ end' = 0 /\ scratch' = <<>>
      /\ inq' = inq
  BY DEF Destroy, socket
<1>2. <<>> \in Seq(Unit) /\ Len(<<>>) = 0
  BY EmptySeq
<1>3. SubSeq(<<>>, 0 + 1, 0) \in Seq(Unit) /\ Len(SubSeq(<<>>, 0 + 1, 0)) = 0 - 0
  BY <1>2, WindowSeq
<1>4. 1 .. Len(SubSeq(<<>>, 0 + 1, 0)) = {}
  BY <1>3
<1>5. CountEnds(SubSeq(<<>>, 0 + 1, 0)) = 0
  BY <1>3, <1>4, CountNone
<1>6. InFlight' = 0 + 0 + CountEnds(inq)
  BY <1>1, <1>5, CountEmpty DEF InFlight, CountEnds
<1> QED
  BY <1>6, HeldFacts

-----------------------------------------------------------------------------
(* The messages of a gathered round                                        *)

LEMMA RoundFlight ==
  ASSUME IInv, StreamInv, pc = "process"
  PROVE  /\ CountEnds(Gathered) \in Nat
         /\ InFlight = CountEnds(Gathered) + CountEnds(inq)
         /\ Parse(SubSeq(Gathered, 1, GatheredEnd)) = "incomplete"
              <=> CountEnds(Gathered) = 0
<1>1. /\ Gathered \in Seq(Unit) /\ Len(Gathered) = Len(Held) + Len(scratch)
      /\ \A i \in 1 .. Len(Held) : Gathered[i] = Held[i]
      /\ \A i \in 1 .. Len(scratch) : Gathered[Len(Held) + i] = scratch[i]
  BY RoundFacts, HeldFacts
<1>2. CountEnds(Gathered) = CountEnds(Held) + CountEnds(scratch)
  BY <1>1, HeldFacts, CountJoined
<1>3. SubSeq(Gathered, 1, GatheredEnd) = Gathered
  BY RoundFacts, SubSeqFull
<1>4. Parse(Gathered) = "incomplete" <=> EndsOf(Gathered) = {}
  BY DEF Parse, EndsOf
<1>5. CountEnds(Gathered) = 0 <=> EndsOf(Gathered) = {}
  BY <1>1, CountType, FS_EmptySet
<1> QED
  BY <1>1, <1>2, <1>3, <1>4, <1>5, CountType, HeldFacts

LEMMA IncompleteFlight ==
  ASSUME IInv, StreamInv, ProcessIncomplete
  PROVE  InFlight' = InFlight
<1>1. /\ pc = "process" /\ state' = "waiting" /\ mem' = Gathered /\ start' = 0
      /\ end' = GatheredEnd /\ scratch' = <<>> /\ inq' = inq
  BY RoundFacts DEF ProcessIncomplete, Return, socket
<1>2. SubSeq(Gathered, 0 + 1, GatheredEnd) = Gathered
  BY <1>1, RoundFacts, SubSeqFull
<1>3. InFlight' = CountEnds(Gathered) + 0 + CountEnds(inq)
  BY <1>1, <1>2, CountEmpty DEF InFlight, CountEnds
<1> QED
  BY <1>1, <1>3, RoundFlight, HeldFacts

LEMMA ReplyFlight ==
  ASSUME IInv, StreamInv, ProcessReply
  PROVE  /\ pc = "process" /\ CountEnds(Gathered) >= 1
         /\ InFlight' = CountEnds(inq)
<1>1. pc = "process" /\ state' = "writing" /\ scratch' = <<>> /\ inq' = inq
      /\ Parse(SubSeq(Gathered, 1, GatheredEnd)) # "incomplete"
  BY DEF ProcessReply, socket
<1>2. CountEnds(Gathered) >= 1
  BY <1>1, RoundFlight
<1>3. InFlight' = 0 + 0 + CountEnds(inq)
  BY <1>1, CountEmpty DEF InFlight, CountEnds
<1> QED
  BY <1>1, <1>2, <1>3, HeldFacts

(* While a response is sent, and when its last unit is, the buffer holds   *)
(* nothing of a request.                                                   *)
LEMMA SendDataFlight ==
  ASSUME IInv, IInv', SendData
  PROVE  InFlight' = InFlight /\ state = "writing" /\ scratch' = scratch
<1>1. PICK n \in 1 .. Smaller(SendSpace - Len(outq), Effective) :
        /\ start' = start + n
        /\ \/ n = Effective /\ state' = "waiting" /\ Return
           \/ n # Effective /\ UNCHANGED <<state, pc, event, locals>>
  BY DEF SendData
<1>2. state = "writing" /\ inq' = inq /\ mem' = mem /\ end' = end /\ scratch = <<>>
  BY DEF SendData, IInv, BufferWindow, Phases
<1>3. scratch' = <<>>
  BY <1>1, <1>2 DEF Return, locals
<1>4. CASE n # Effective
  BY <1>1, <1>2, <1>3, <1>4 DEF InFlight, CountEnds
<1>5. CASE n = Effective
  <2>1. state' = "waiting" /\ start' = end
    BY <1>1, <1>5, Sizes
  <2>2. mem \in Seq(Unit) /\ end \in Nat /\ end <= Len(mem)
    BY DEF IInv, TypeOK, BufferWindow
  <2>3. SubSeq(mem, end + 1, end) \in Seq(Unit) /\ Len(SubSeq(mem, end + 1, end)) = end - end
    BY <2>2, WindowSeq
  <2>4. 1 .. Len(SubSeq(mem, end + 1, end)) = {}
    BY <2>2, <2>3
  <2>5. CountEnds(SubSeq(mem, end + 1, end)) = 0
    BY <2>3, <2>4, CountNone
  <2>6. InFlight' = 0 + CountEnds(scratch) + CountEnds(inq)
    BY <1>2, <1>3, <2>1, <2>5 DEF InFlight, CountEnds
  <2>7. InFlight = 0 + CountEnds(scratch) + CountEnds(inq)
    BY <1>2, CountEmpty DEF InFlight
  <2> QED
    BY <1>2, <1>3, <2>6, <2>7
<1> QED
  BY <1>2, <1>3, <1>4, <1>5

-----------------------------------------------------------------------------
(* No response without a message of its own                                *)

(* What InFlight can do in a step, whichever it is.                        *)
LEMMA FlightStep ==
  ASSUME IInv, IInv', StreamInv, Next
  PROVE  \/ /\ \E kind \in {"more", "last", "junk"} : PeerSend(kind)
            /\ replies' = replies
            /\ \/ asked' = asked /\ InFlight' = InFlight
               \/ asked' = asked + 1 /\ InFlight' = InFlight + 1
         \/ /\ ProcessReply
            /\ replies' = replies + 1 /\ asked' = asked
            /\ InFlight = CountEnds(Gathered) + InFlight'
            /\ CountEnds(Gathered) \in Nat /\ CountEnds(Gathered) >= 1
         \/ /\ Destroy
            /\ replies' = replies /\ asked' = asked
            /\ InFlight' \in Nat /\ InFlight' <= InFlight
         \/ /\ ~ProcessReply
            /\ replies' = replies /\ asked' = asked /\ InFlight' = InFlight
<1>1. CASE \E kind \in {"more", "last", "junk"} : PeerSend(kind)
  <2>1. PICK kind \in {"more", "last", "junk"} : PeerSend(kind)
    BY <1>1
  <2>2. replies' = replies /\ asked' = IF kind \in Ends THEN asked + 1 ELSE asked
    BY <2>1 DEF PeerSend, history
  <2>3. InFlight' = InFlight + IF kind \in Ends THEN 1 ELSE 0
    BY <2>1, PeerSendFlight
  <2>4. InFlight \in Nat
    BY HeldFacts
  <2> QED
    BY <1>1, <2>2, <2>3, <2>4
<1>2. CASE PeerTake
  <2>1. UNCHANGED <<inq, scratch, state, mem, start, end, replies, asked, pc>>
    BY <1>2 DEF PeerTake, locals, connection, history
  <2>2. ~ProcessReply
    <3>1. replies \in Nat /\ replies' = replies
      BY <2>1 DEF IInv, TypeOK
    <3>2. ProcessReply => replies' = replies + 1
      BY DEF ProcessReply
    <3> QED
      BY <3>1, <3>2
  <2> QED
    BY <2>1, <2>2, FlightKept
<1>3. CASE Quiet
  <2>1. UNCHANGED <<inq, scratch, state, mem, start, end, replies, asked>>
    BY <1>3, QuietKeeps DEF connection, history, peer
  <2>2. ~ProcessReply
    <3>1. replies \in Nat /\ replies' = replies
      BY <2>1 DEF IInv, TypeOK
    <3>2. ProcessReply => replies' = replies + 1
      BY DEF ProcessReply
    <3> QED
      BY <3>1, <3>2
  <2> QED
    BY <2>1, <2>2, FlightKept
<1>4. CASE Destroy
  BY <1>4, DestroyFlight DEF Destroy, peer, history
<1>5. CASE (RecvData \/ RecvEnd) /\ ~Destroy
  <2>1. PICK n \in 0 .. Len(inq) : Received(n)
    <3>1. CASE RecvData
      <4>1. PICK n \in 1 .. Smaller(Len(inq), PageSize - offset) : Received(n)
        BY <3>1 DEF RecvData
      <4>2. n \in 0 .. Len(inq)
        <5> DEFINE l == Len(inq)
        <5>1. l \in Nat /\ offset \in Nat /\ PageSize \in Nat
          BY Sizes, ConnectionAssumption DEF IInv, TypeOK
        <5>2. n \in 1 .. IF l < PageSize - offset THEN l ELSE PageSize - offset
          BY Zenon DEF Smaller
        <5> HIDE DEF l
        <5>3. n \in 0 .. l
          BY <5>1, <5>2
        <5> QED
          BY <5>3 DEF l
      <4> QED
        BY <4>1, <4>2
    <3>2. CASE RecvEnd
      <4>1. Received(0)
        BY <1>5, <3>2 DEF RecvEnd
      <4>2. 0 \in 0 .. Len(inq)
        BY Sizes
      <4> QED
        BY <4>1, <4>2
    <3> QED
      BY <1>5, <3>1, <3>2
  <2>2. UNCHANGED <<connection, peer, history, pc>> /\ pc = "recv"
    BY <1>5 DEF RecvData, RecvEnd
  <2>3. InFlight' = InFlight
    BY <2>1, <2>2, ReceivedFlight
  <2> QED
    BY <2>2, <2>3 DEF ProcessReply, peer, history
<1>6. CASE ProcessIncomplete
  <2>1. ~ProcessReply
    BY <1>6 DEF ProcessIncomplete, ProcessReply
  <2> QED
    BY <1>6, <2>1, IncompleteFlight DEF ProcessIncomplete, peer, history
<1>7. CASE ProcessReply
  <2>1. replies' = replies + 1 /\ asked' = asked
    BY <1>7 DEF ProcessReply, peer
  <2>2. CountEnds(Gathered) >= 1 /\ InFlight' = CountEnds(inq) /\ pc = "process"
    BY <1>7, ReplyFlight
  <2> QED
    BY <1>7, <2>1, <2>2, RoundFlight
<1>8. CASE SendData
  <2>1. InFlight' = InFlight /\ ~ProcessReply
    BY <1>8, SendDataFlight DEF SendData, ProcessReply
  <2> QED
    BY <1>8, <2>1 DEF SendData, peer, history
<1> QED
  <2>1. Peer => \/ \E kind \in {"more", "last", "junk"} : PeerSend(kind)
                \/ PeerTake \/ Quiet
    BY DEF Peer, Quiet
  <2>2. Server => \/ Quiet \/ Destroy \/ RecvData \/ RecvEnd
                  \/ ProcessIncomplete \/ ProcessReply \/ SendData
    BY DEF Server, Quiet, DispatchHangUp, RecvError, ProcessNoMemory, SendError
  <2> QED
    BY <1>1, <1>2, <1>3, <1>4, <1>5, <1>6, <1>7, <1>8, <2>1, <2>2 DEF Next

LEMMA InitUnasked == Init => NoUnaskedReply
<1> SUFFICES ASSUME Init PROVE NoUnaskedReply
  OBVIOUS
<1>1. IInv /\ state = "waiting" /\ scratch = <<>> /\ inq = <<>>
  BY InitIInv DEF Init
<1>2. Len(Held) = 0
  BY <1>1, HeldFacts DEF Init, Window, Effective
<1>3. 1 .. Len(Held) = {}
  BY <1>2
<1>4. CountEnds(Held) = 0
  BY <1>1, <1>3, HeldFacts, CountNone
<1>5. InFlight = 0
  BY <1>1, <1>4, HeldFacts, CountEmpty
<1> QED
  BY <1>5 DEF Init, NoUnaskedReply

LEMMA StepUnasked ==
  ASSUME IInv, IInv', StreamInv, NoUnaskedReply, [Next]_vars
  PROVE  NoUnaskedReply'
<1>1. CASE UNCHANGED vars
  BY <1>1, FlightKept DEF vars, NoUnaskedReply
<1>2. CASE Next
  <2>1. /\ InFlight \in Nat /\ InFlight' \in Nat
        /\ replies \in Nat /\ asked \in Nat
    <3>1. InFlight \in Nat
      BY HeldFacts
    <3>2. CountEnds(inq) \in Nat
      BY HeldFacts
    <3>3. ProcessReply => InFlight' = CountEnds(inq)
      BY ReplyFlight
    <3>4. InFlight' \in Nat
      BY <1>2, <3>1, <3>2, <3>3, FlightStep
    <3> QED
      BY <3>1, <3>4 DEF IInv, TypeOK
  <2> QED
    BY <1>2, <2>1, FlightStep DEF NoUnaskedReply
<1> QED
  BY <1>1, <1>2

(* Every response of handle_connection answers a message of its own,       *)
(* whatever the peer sends, however recv cuts it, and whenever the         *)
(* connection ends.                                                        *)
THEOREM NoReplyUnasked == Spec => []NoUnaskedReply
<1>1. Init => NoUnaskedReply
  BY InitUnasked
<1>2. IInv /\ IInv' /\ StreamInv /\ NoUnaskedReply /\ [Next]_vars => NoUnaskedReply'
  BY StepUnasked
<1>3. Spec => []IInv
  BY Invariance
<1>4. Spec => []StreamInv
  BY StreamInvariance
<1> QED
  BY <1>1, <1>2, <1>3, <1>4, PTL DEF Spec

-----------------------------------------------------------------------------
(* A peer that asks one thing at a time                                    *)

OneAtATime == "pipeline" \notin PeerMay

(* At most one message is unanswered, and none while an answer is on its   *)
(* way.                                                                    *)
TurnInv ==
  /\ asked <= replies + 1 /\ asked <= sent
  /\ taken # rendered => asked = replies
  /\ NoRequestSwallowed

LEMMA OtherSteps ==
  ASSUME IInv, StreamInv, Next, ~ProcessReply,
         ~ \E kind \in {"more", "last", "junk"} : PeerSend(kind)
  PROVE  /\ Open /\ UNCHANGED <<sent, asked, replies, rendered>>
         /\ \/ Open' /\ taken' = taken + 1 /\ taken < rendered
            \/ taken' = taken
<1>1. CASE PeerTake
  <2>1. /\ Open /\ Open' /\ UNCHANGED <<sent, asked, replies, rendered>>
        /\ taken' = taken + 1 /\ outq # <<>>
    BY <1>1 DEF PeerTake, Open, history
  <2>2. Len(outq) # 0
    BY <2>1, EmptySeq DEF IInv, TypeOK
  <2>3. taken < rendered
    <3>1. taken + Len(outq) + Unsent = rendered
      BY <2>1 DEF StreamInv, OutputIntegrity
    <3>2. taken \in Nat /\ Len(outq) \in Nat /\ Unsent \in Nat /\ rendered \in Nat
      BY Sizes
    <3> QED
      BY <2>2, <3>1, <3>2
  <2> QED
    BY <2>1, <2>3
<1>2. CASE Quiet
  BY <1>2, QuietKeeps DEF peer, history
<1>3. CASE DispatchHangUp \/ RecvError \/ ProcessNoMemory \/ SendError
  BY <1>3 DEF DispatchHangUp, RecvError, ProcessNoMemory, SendError, Destroy, Open,
              peer, history
<1>4. CASE RecvData \/ RecvEnd
  BY <1>4 DEF RecvData, RecvEnd, Destroy, Open, peer, history
<1>5. CASE ProcessIncomplete \/ SendData
  BY <1>5 DEF ProcessIncomplete, SendData, Open, peer, history
<1> QED
  <2>1. Peer => PeerTake \/ Quiet
    BY DEF Peer, Quiet
  <2>2. Server => \/ Quiet \/ DispatchHangUp \/ RecvError \/ ProcessNoMemory \/ SendError
                  \/ RecvData \/ RecvEnd \/ ProcessIncomplete \/ SendData
    BY DEF Server, Quiet
  <2> QED
    BY <1>1, <1>2, <1>3, <1>4, <1>5, <2>1, <2>2 DEF Next

(* When the peer speaks nothing of the server's is on its way.             *)
LEMMA PeerSendTurn ==
  ASSUME OneAtATime, IInv, StreamInv, NoUnaskedReply,
         NEW kind \in {"more", "last", "junk"}, PeerSend(kind)
  PROVE  /\ Open /\ Open' /\ asked = replies /\ taken = rendered
         /\ state = "waiting" /\ InFlight = 0
         /\ sent' = sent + 1 /\ UNCHANGED <<replies, taken, rendered, pc, state>>
         /\ asked' = IF kind \in Ends THEN asked + 1 ELSE asked
<1>1. /\ Open /\ Open' /\ asked = replies /\ taken = rendered
      /\ sent' = sent + 1 /\ UNCHANGED <<replies, taken, rendered, pc, state>>
      /\ asked' = IF kind \in Ends THEN asked + 1 ELSE asked
  BY DEF OneAtATime, PeerSend, MayAsk, Open, connection, history
<1>2. InFlight = 0
  BY <1>1, HeldFacts DEF NoUnaskedReply, IInv, TypeOK
<1>3. state = "waiting"
  <2> SUFFICES ASSUME state = "writing" PROVE FALSE
    BY DEF IInv, TypeOK
  <2>1. Unsent = Effective /\ Effective > 0
    BY Sizes DEF Unsent, IInv, BufferWindow
  <2>2. taken + Len(outq) + Unsent = rendered
    BY <1>1 DEF StreamInv, OutputIntegrity
  <2>3. taken \in Nat /\ Len(outq) \in Nat /\ Effective \in Nat /\ rendered \in Nat
    BY Sizes
  <2> QED
    BY <1>1, <2>1, <2>2, <2>3
<1> QED
  BY <1>1, <1>2, <1>3

(* A response is rendered for the one message there is, when the response  *)
(* to the last has been taken.                                             *)
LEMMA ReplyTurn ==
  ASSUME IInv, IInv', StreamInv, NoUnaskedReply, TurnInv, ProcessReply
  PROVE  /\ Open /\ Open' /\ asked = replies + 1 /\ taken = rendered
         /\ CountEnds(Gathered) = 1 /\ InFlight' = 0
         /\ replies' = replies + 1 /\ UNCHANGED <<sent, asked, taken>>
         /\ rendered' > rendered /\ rendered' \in Nat
<1>1. /\ pc = "process" /\ Open /\ Open' /\ replies' = replies + 1
      /\ UNCHANGED <<sent, asked, taken>>
  BY DEF ProcessReply, Open, peer
<1>2. rendered' > rendered /\ rendered' \in Nat
  <2>1. PICK n \in 1 .. MaxReply : rendered' = rendered + n
    BY DEF ProcessReply
  <2> QED
    BY <2>1, Sizes, ConnectionAssumption
<1>3. /\ CountEnds(Gathered) \in Nat /\ CountEnds(Gathered) >= 1
      /\ CountEnds(inq) \in Nat /\ InFlight' = CountEnds(inq)
      /\ InFlight = CountEnds(Gathered) + CountEnds(inq)
  BY <1>1, ReplyFlight, RoundFlight, HeldFacts
<1>4. /\ replies + InFlight <= asked /\ asked <= replies + 1
      /\ replies \in Nat /\ asked \in Nat
  BY DEF NoUnaskedReply, TurnInv, IInv, TypeOK
<1>5. asked = replies + 1 /\ CountEnds(Gathered) = 1 /\ InFlight' = 0
  BY <1>3, <1>4
<1>6. taken = rendered
  BY <1>4, <1>5 DEF TurnInv
<1> QED
  BY <1>1, <1>2, <1>5, <1>6

LEMMA StepTurns ==
  ASSUME OneAtATime, IInv, IInv', StreamInv, NoUnaskedReply, TurnInv, [Next]_vars
  PROVE  TurnInv'
<1>1. /\ asked \in Nat /\ replies \in Nat /\ sent \in Nat /\ InFlight \in Nat
      /\ taken \in Nat /\ rendered \in Nat
  <2>1. InFlight \in Nat
    BY HeldFacts
  <2> QED
    BY <2>1 DEF IInv, TypeOK
<1>2. CASE UNCHANGED vars
  <2>1. UNCHANGED <<asked, replies, sent, taken, rendered, pc, InFlight>>
    BY <1>2, FlightKept DEF vars
  <2> QED
    BY <2>1 DEF TurnInv, NoRequestSwallowed, Open
<1>3. CASE \E kind \in {"more", "last", "junk"} : PeerSend(kind)
  <2>1. PICK kind \in {"more", "last", "junk"} : PeerSend(kind)
    BY <1>3
  <2>2. InFlight' = InFlight + IF kind \in Ends THEN 1 ELSE 0
    BY <2>1, PeerSendFlight
  <2>3. /\ asked = replies /\ taken = rendered /\ InFlight = 0 /\ sent' = sent + 1
        /\ UNCHANGED <<replies, taken, rendered>>
        /\ asked' = IF kind \in Ends THEN asked + 1 ELSE asked
    BY <2>1, PeerSendTurn
  <2>4. asked <= sent
    BY DEF TurnInv
  <2>5. CASE kind \in Ends
    BY <1>1, <2>2, <2>3, <2>4, <2>5 DEF TurnInv, NoRequestSwallowed
  <2>6. CASE kind \notin Ends
    BY <1>1, <2>2, <2>3, <2>4, <2>6 DEF TurnInv, NoRequestSwallowed
  <2> QED
    BY <2>5, <2>6
<1>4. CASE ProcessReply
  BY <1>1, <1>4, ReplyTurn DEF TurnInv, NoRequestSwallowed
<1>5. CASE /\ Next /\ ~ProcessReply
           /\ ~ \E kind \in {"more", "last", "junk"} : PeerSend(kind)
  <2>1. /\ Open /\ UNCHANGED <<sent, asked, replies, rendered>>
        /\ \/ Open' /\ taken' = taken + 1 /\ taken < rendered
           \/ taken' = taken
    BY <1>5, OtherSteps
  <2>2. asked' <= replies' + 1 /\ asked' <= sent' /\ (taken' # rendered' => asked' = replies')
    BY <1>1, <2>1 DEF TurnInv
  <2>3. Open' => InFlight' = InFlight
    <3>1. Destroy => ~Open'
      BY DEF Destroy, Open
    <3> QED
      BY <1>5, <3>1, FlightStep
  <2>4. NoRequestSwallowed'
    BY <2>1, <2>3 DEF TurnInv, NoRequestSwallowed
  <2> QED
    BY <2>2, <2>4 DEF TurnInv
<1> QED
  BY <1>2, <1>3, <1>4, <1>5

LEMMA TurnInvariance ==
  ASSUME OneAtATime
  PROVE  Spec => [](IInv /\ StreamInv /\ NoUnaskedReply /\ TurnInv)
<1>1. Init => TurnInv
  <2> SUFFICES ASSUME Init PROVE TurnInv
    OBVIOUS
  <2>1. InFlight = 0
    <3>1. NoUnaskedReply /\ InFlight \in Nat
      BY InitUnasked, InitIInv, HeldFacts
    <3> QED
      BY <3>1 DEF Init, NoUnaskedReply
  <2> QED
    BY <2>1 DEF Init, TurnInv, NoRequestSwallowed
<1>2. /\ IInv /\ IInv' /\ StreamInv /\ NoUnaskedReply /\ TurnInv /\ [Next]_vars
      => TurnInv'
  BY StepTurns
<1>3. Spec => []IInv
  BY Invariance
<1>4. Spec => []StreamInv
  BY StreamInvariance
<1>5. Spec => []NoUnaskedReply
  BY NoReplyUnasked
<1> QED
  BY <1>1, <1>2, <1>3, <1>4, <1>5, PTL DEF Spec

(* No message of a peer that waits for its answers is swallowed with       *)
(* another by http_request_from_buffer's one request per round.            *)
THEOREM NoneSwallowed ==
  ASSUME OneAtATime
  PROVE  Spec => []NoRequestSwallowed
<1>1. TurnInv => NoRequestSwallowed
  BY DEF TurnInv
<1> QED
  BY <1>1, TurnInvariance, PTL

-----------------------------------------------------------------------------
(* Connection implements HttpExchange                                      *)

LEMMA ExchangeStep ==
  ASSUME OneAtATime, IInv, IInv', StreamInv, NoUnaskedReply, TurnInv, [Next]_vars
  PROVE  [Exchange!Next]_(Exchange!vars)
<1> USE DEF Exchange!Next, Exchange!vars
<1>1. /\ asked \in Nat /\ replies \in Nat /\ sent \in Nat
      /\ taken \in Nat /\ rendered \in Nat
  BY DEF IInv, TypeOK
<1>2. CASE UNCHANGED vars
  BY <1>2 DEF vars, Open
<1>3. CASE \E kind \in {"more", "last", "junk"} : PeerSend(kind)
  <2>1. PICK kind \in {"more", "last", "junk"} : PeerSend(kind)
    BY <1>3
  <2>2. /\ Open /\ Open' /\ asked = replies /\ taken = rendered
        /\ UNCHANGED <<replies, taken, rendered>>
        /\ asked' = IF kind \in Ends THEN asked + 1 ELSE asked
    BY <2>1, PeerSendTurn
  <2>3. asked < MaxUnits
    <3>1. asked <= sent /\ sent < MaxUnits
      BY <2>1 DEF PeerSend, TurnInv
    <3> QED
      BY <1>1, <3>1, ConnectionAssumption
  <2>4. CASE kind \in Ends
    BY <2>2, <2>3, <2>4 DEF Exchange!Ask
  <2>5. CASE kind \notin Ends
    BY <2>2, <2>5
  <2> QED
    BY <2>4, <2>5
<1>4. CASE ProcessReply
  <2>1. /\ Open /\ Open' /\ asked = replies + 1 /\ taken = rendered
        /\ replies' = replies + 1 /\ UNCHANGED <<asked, taken>>
        /\ rendered' > rendered
    BY <1>4, ReplyTurn
  <2> QED
    BY <1>1, <2>1 DEF Exchange!Answer
<1>5. CASE /\ Next /\ ~ProcessReply
           /\ ~ \E kind \in {"more", "last", "junk"} : PeerSend(kind)
  <2>1. /\ Open /\ UNCHANGED <<asked, replies, rendered>>
        /\ \/ Open' /\ taken' = taken + 1 /\ taken < rendered
           \/ taken' = taken
    BY <1>5, OtherSteps
  <2>2. CASE taken' = taken
    <3>1. CASE Open'
      BY <2>1, <2>2, <3>1 DEF Open
    <3>2. CASE ~Open'
      BY <2>1, <2>2, <3>2 DEF Exchange!Close, Open
    <3> QED
      BY <3>1, <3>2
  <2>3. CASE Open' /\ taken' = taken + 1 /\ taken < rendered
    <3>1. taken # rendered /\ taken' # taken
      BY <1>1, <2>3
    <3>2. CASE taken' = rendered'
      <4>1. replies - 1 < replies /\ replies = (replies - 1) + 1
        BY <1>1
      <4> QED
        BY <2>1, <2>3, <3>1, <3>2, <4>1 DEF Exchange!Deliver
    <3>3. CASE taken' # rendered'
      BY <2>1, <2>3, <3>1, <3>3
    <3> QED
      BY <3>2, <3>3
  <2> QED
    BY <2>1, <2>2, <2>3
<1> QED
  BY <1>2, <1>3, <1>4, <1>5

(* With a peer that asks one thing at a time every step of the connection  *)
(* is one of HttpExchange's or leaves the exchange as it is: an answer is  *)
(* begun only when one is owed, and the next message comes only after the  *)
(* answer to the last was taken whole.                                     *)
THEOREM ImplementsExchangeSafety ==
  ASSUME OneAtATime
  PROVE  Spec => Exchange!Spec
<1>1. Init => Exchange!Init
  BY DEF Init, Exchange!Init, Open
<1>2. /\ IInv /\ IInv' /\ StreamInv /\ NoUnaskedReply /\ TurnInv /\ [Next]_vars
      => [Exchange!Next]_(Exchange!vars)
  BY ExchangeStep
<1>3. Spec => [](IInv /\ StreamInv /\ NoUnaskedReply /\ TurnInv)
  BY TurnInvariance
<1> QED
  BY <1>1, <1>2, <1>3, PTL DEF Spec, Exchange!Spec

-----------------------------------------------------------------------------
(* No wakeup is lost                                                       *)

(* Once a message is complete in the connection's hands the kernel holds   *)
(* nothing more: the peer waits for the answer.                            *)
DrainInv ==
  /\ pc = "process" => CountEnds(Held) + CountEnds(scratch) = 0 \/ inq = <<>>
  /\ state = "writing" => inq = <<>>

(* Whatever the thread waits for is in the ready list, in the event it is  *)
(* dispatching, or bound to be an event.                                   *)
ReadWake ==
  state = "waiting" /\ inq # <<>> =>
    /\ pc \in {"wait", "process"} => edge
    /\ pc = "dispatch" => edge \/ "IN" \in event
WriteWake ==
  state = "writing" /\ pc \in {"wait", "dispatch"} =>
    IF Len(outq) < SendSpace THEN edge \/ (pc = "dispatch" /\ "OUT" \in event)
                             ELSE nospace
QueueBound == Len(outq) <= SendSpace
WakeInv == DrainInv /\ QueueBound /\ ReadWake /\ WriteWake

LEMMA PeerSendWake ==
  ASSUME OneAtATime, IInv, StreamInv, NoUnaskedReply, WakeInv,
         NEW kind \in {"more", "last", "junk"}, PeerSend(kind)
  PROVE  WakeInv'
<1>1. /\ state = "waiting" /\ state' = "waiting" /\ InFlight = 0
      /\ UNCHANGED <<pc, scratch, mem, start, end>> /\ edge' = TRUE
  BY PeerSendTurn DEF PeerSend, locals, connection
<1>2. CountEnds(Held) + CountEnds(scratch) = 0
  BY <1>1, HeldFacts
<1>3. DrainInv'
  BY <1>1, <1>2 DEF DrainInv, Held, CountEnds
<1>4. outq' = outq
  BY DEF PeerSend
<1> QED
  BY <1>1, <1>3, <1>4 DEF WakeInv, QueueBound, ReadWake, WriteWake

LEMMA PeerRestWake ==
  ASSUME IInv, WakeInv, PeerTake \/ PeerShutdown \/ PeerReset
  PROVE  WakeInv'
<1>1. /\ UNCHANGED <<inq, pc, event, state, scratch, mem, start, end>>
      /\ edge => edge'
  BY DEF PeerTake, PeerShutdown, PeerReset, locals, connection
<1>2. DrainInv' /\ ReadWake'
  BY <1>1 DEF WakeInv, DrainInv, ReadWake, Held, CountEnds
<1>3. QueueBound' /\ WriteWake'
  <2>1. CASE PeerTake
    <3>1. outq # <<>> /\ outq' = Tail(outq) /\ edge' = (edge \/ nospace)
      BY <2>1 DEF PeerTake
    <3>2. Len(outq') = Len(outq) - 1 /\ Len(outq) \in Nat
      BY <3>1, Sizes, HeadTailProperties DEF IInv, TypeOK
    <3>3. Len(outq') < SendSpace /\ Len(outq') <= SendSpace
      BY <3>2, ConnectionAssumption DEF WakeInv, QueueBound
    <3>4. ASSUME state = "writing", pc \in {"wait", "dispatch"}
          PROVE  edge' \/ (pc = "dispatch" /\ "OUT" \in event)
      <4>1. nospace => edge'
        BY <3>1
      <4> QED
        BY <1>1, <3>4, <4>1 DEF WakeInv, WriteWake
    <3> QED
      BY <1>1, <3>3, <3>4 DEF WriteWake, QueueBound
  <2>2. CASE PeerShutdown \/ PeerReset
    <3>1. UNCHANGED <<outq, nospace>> /\ edge' = TRUE
      BY <2>2 DEF PeerShutdown, PeerReset
    <3> QED
      BY <1>1, <3>1 DEF WakeInv, QueueBound, WriteWake
  <2> QED
    BY <2>1, <2>2
<1> QED
  BY <1>2, <1>3 DEF WakeInv

LEMMA DispatchWake ==
  ASSUME IInv, WakeInv,
         EpollWait \/ DispatchIgnored \/ DispatchRead \/ DispatchWrite
  PROVE  WakeInv'
<1>1. UNCHANGED <<inq, outq, nospace, state>>
  BY DEF EpollWait, DispatchIgnored, DispatchRead, DispatchWrite, socket, connection
<1>2. pc' # "process"
  BY DEF EpollWait, DispatchIgnored, DispatchRead, DispatchWrite, Return
<1>3. DrainInv' /\ QueueBound'
  BY <1>1, <1>2 DEF WakeInv, DrainInv, QueueBound
<1>4. CASE EpollWait
  <2>1. /\ pc = "wait" /\ edge /\ event' = Mask
        /\ pc' = IF Mask = {} THEN "wait" ELSE "dispatch"
    BY <1>4 DEF EpollWait
  <2>2. inq # <<>> => "IN" \in Mask
    BY DEF Mask
  <2>3. Len(outq) < SendSpace => "OUT" \in Mask
    BY DEF Mask
  <2>4. ReadWake'
    BY <1>1, <2>1, <2>2 DEF ReadWake
  <2>5. WriteWake'
    BY <1>1, <2>1, <2>3 DEF WriteWake, WakeInv
  <2> QED
    BY <1>3, <2>4, <2>5 DEF WakeInv
<1>5. CASE DispatchIgnored
  <2>1. /\ pc = "dispatch" /\ pc' = "wait" /\ edge' = edge
        /\ \/ state = "waiting" /\ "IN" \notin event
           \/ state = "writing" /\ "OUT" \notin event
    BY <1>5 DEF DispatchIgnored, Return, socket
  <2> QED
    BY <1>1, <1>3, <2>1 DEF WakeInv, ReadWake, WriteWake
<1>6. CASE DispatchRead \/ DispatchWrite
  <2>1. pc' \in {"recv", "send"}
    BY <1>6 DEF DispatchRead, DispatchWrite
  <2> QED
    BY <1>3, <2>1 DEF WakeInv, ReadWake, WriteWake
<1> QED
  BY <1>4, <1>5, <1>6

LEMMA RecvWake ==
  ASSUME IInv, WakeInv, RecvData \/ RecvEnd \/ RecvAgain, ~Destroy
  PROVE  WakeInv'
<1>1. /\ pc = "recv" /\ state = "waiting" /\ state' = "waiting" /\ outq' = outq
  BY DEF RecvData, RecvEnd, RecvAgain, connection, socket, IInv, Phases
<1>2. CASE RecvData \/ RecvEnd
  <2>1. pc' = "recv"
    BY <1>1, <1>2 DEF RecvData, RecvEnd
  <2> QED
    BY <1>1, <2>1 DEF WakeInv, DrainInv, QueueBound, ReadWake, WriteWake
<1>3. CASE RecvAgain
  <2>1. inq = <<>> /\ inq' = <<>>
    BY <1>3 DEF RecvAgain, socket
  <2> QED
    BY <1>1, <2>1 DEF WakeInv, DrainInv, QueueBound, ReadWake, WriteWake
<1> QED
  BY <1>2, <1>3

LEMMA ProcessWake ==
  ASSUME IInv, StreamInv, WakeInv, ProcessIncomplete \/ ProcessReply
  PROVE  WakeInv'
<1>1. pc = "process" /\ state = "waiting" /\ UNCHANGED <<inq, outq, edge>>
  BY DEF ProcessIncomplete, ProcessReply, socket, IInv, Phases
<1>2. CASE ProcessIncomplete
  <2>1. pc' = "wait" /\ state' = "waiting"
    BY <1>1, <1>2 DEF ProcessIncomplete, Return
  <2> QED
    BY <1>1, <2>1 DEF WakeInv, DrainInv, QueueBound, ReadWake, WriteWake
<1>3. CASE ProcessReply
  <2>1. pc' = "send" /\ state' = "writing"
    BY <1>3 DEF ProcessReply
  <2>2. inq = <<>>
    <3>1. CountEnds(Gathered) >= 1
      BY <1>3, ReplyFlight
    <3>2. CountEnds(Held) + CountEnds(scratch) = CountEnds(Gathered)
      BY <1>1, RoundFlight, HeldFacts
    <3> QED
      BY <1>1, <3>1, <3>2 DEF WakeInv, DrainInv
  <2> QED
    BY <1>1, <2>1, <2>2 DEF WakeInv, DrainInv, QueueBound, ReadWake, WriteWake
<1> QED
  BY <1>2, <1>3

LEMMA SendWake ==
  ASSUME IInv, IInv', StreamInv, WakeInv, SendData \/ SendAgain
  PROVE  WakeInv'
<1>1. /\ pc = "send" /\ state = "writing" /\ inq = <<>> /\ inq' = <<>>
  BY DEF SendData, SendAgain, IInv, BufferWindow, WakeInv, DrainInv
<1>2. CASE SendAgain
  <2>1. /\ pc' = "wait" /\ state' = state /\ nospace' = TRUE /\ outq' = outq
        /\ Len(outq) = SendSpace
    BY <1>2 DEF SendAgain, Return, connection
  <2> QED
    BY <1>1, <2>1, ConnectionAssumption
    DEF WakeInv, DrainInv, QueueBound, ReadWake, WriteWake
<1>3. CASE SendData
  <2>1. PICK n \in 1 .. Smaller(SendSpace - Len(outq), Effective) :
          /\ outq' = outq \o SubSeq(mem, start + 1, start + n)
          /\ start' = start + n
          /\ \/ n = Effective /\ state' = "waiting" /\ Return
             \/ n # Effective /\ UNCHANGED <<state, pc, event, locals>>
    BY <1>3 DEF SendData
  <2>2. n \in Nat /\ n <= SendSpace - Len(outq) /\ n <= Effective
    <3> DEFINE room == SendSpace - Len(outq)
    <3>1. room \in Int /\ Effective \in Nat
      BY Sizes, ConnectionAssumption
    <3>2. n \in 1 .. IF room < Effective THEN room ELSE Effective
      BY Zenon DEF Smaller
    <3> HIDE DEF room
    <3>3. n \in Nat /\ n <= room /\ n <= Effective
      BY <3>1, <3>2
    <3> QED
      BY <3>3 DEF room
  <2>3. Len(outq') = Len(outq) + n
    <3>1. /\ mem \in Seq(Unit) /\ start \in Nat /\ start + n <= Len(mem)
          /\ outq \in Seq(Unit)
      <4>1. mem \in Seq(Unit) /\ outq \in Seq(Unit)
        BY DEF IInv, TypeOK
      <4>2. start \in Nat /\ start + n <= Len(mem)
        BY <2>2, Sizes
      <4> QED
        BY <4>1, <4>2
    <3>2. /\ SubSeq(mem, start + 1, start + n) \in Seq(Unit)
          /\ Len(SubSeq(mem, start + 1, start + n)) = n
      <4> DEFINE e == start + n
      <4>1. e \in Nat /\ start <= e /\ e <= Len(mem) /\ e - start = n
        BY <2>2, <3>1
      <4> HIDE DEF e
      <4>2. /\ SubSeq(mem, start + 1, e) \in Seq(Unit)
            /\ Len(SubSeq(mem, start + 1, e)) = e - start
        BY <3>1, <4>1, WindowSeq
      <4> QED
        BY <4>1, <4>2 DEF e
    <3> QED
      BY <2>1, <3>1, <3>2, ConcatProperties
  <2>4. QueueBound'
    BY <2>2, <2>3, Sizes, ConnectionAssumption DEF QueueBound
  <2>5. \/ pc' = "send"
        \/ pc' = "wait" /\ state' = "waiting"
    BY <1>1, <2>1 DEF Return
  <2> QED
    BY <1>1, <2>4, <2>5 DEF WakeInv, DrainInv, ReadWake, WriteWake
<1> QED
  BY <1>2, <1>3

LEMMA StepWake ==
  ASSUME OneAtATime, IInv, IInv', StreamInv, NoUnaskedReply, WakeInv, [Next]_vars
  PROVE  WakeInv'
<1>1. CASE UNCHANGED vars
  <2>1. UNCHANGED <<inq, outq, nospace, edge, pc, event, state, scratch, mem, start, end>>
    BY <1>1 DEF vars
  <2> QED
    BY <2>1 DEF WakeInv, DrainInv, QueueBound, ReadWake, WriteWake, Held, CountEnds
<1>2. CASE Destroy
  BY <1>2 DEF Destroy, socket, WakeInv, DrainInv, QueueBound, ReadWake, WriteWake
<1>3. CASE Peer
  BY <1>3, PeerSendWake, PeerRestWake DEF Peer
<1>4. CASE Server /\ ~Destroy
  BY <1>4, DispatchWake, RecvWake, ProcessWake, SendWake
  DEF Server, DispatchHangUp, RecvError, ProcessNoMemory, SendError
<1> QED
  BY <1>1, <1>2, <1>3, <1>4 DEF Next

(* With a peer that asks one thing at a time no readiness is lost to the   *)
(* edge-triggered interface: whenever the thread is in epoll_wait and the  *)
(* connection has work, it is in the ready list or the next slot the peer  *)
(* frees puts it there.                                                    *)
THEOREM NoWakeupLost ==
  ASSUME OneAtATime
  PROVE  Spec => []WakeupPending
<1>1. Init => WakeInv
  BY EmptySeq, ConnectionAssumption
  DEF Init, WakeInv, DrainInv, QueueBound, ReadWake, WriteWake
<1>2. /\ IInv /\ IInv' /\ StreamInv /\ NoUnaskedReply /\ WakeInv /\ [Next]_vars
      => WakeInv'
  BY StepWake
<1>3. WakeInv /\ IInv => WakeupPending
  <2> SUFFICES ASSUME WakeInv, IInv, pc = "wait"
               PROVE  /\ state = "waiting" /\ inq # <<>> => edge
                      /\ state = "writing" => edge \/ (nospace /\ outq # <<>>)
    BY DEF WakeupPending
  <2>1. state = "waiting" /\ inq # <<>> => edge
    BY DEF WakeInv, ReadWake
  <2>2. ~(Len(outq) < SendSpace) => outq # <<>>
    BY EmptySeq, ConnectionAssumption
  <2>3. state = "writing" => edge \/ (nospace /\ outq # <<>>)
    BY <2>2 DEF WakeInv, WriteWake
  <2> QED
    BY <2>1, <2>3
<1>4. Spec => [](IInv /\ StreamInv /\ NoUnaskedReply)
  BY TurnInvariance, PTL
<1> QED
  BY <1>1, <1>2, <1>3, <1>4, PTL DEF Spec

=============================================================================
