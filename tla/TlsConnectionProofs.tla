------------------------ MODULE TlsConnectionProofs ------------------------
(***************************************************************************)
(* Proofs about TlsConnection, for every script of the handshake, every    *)
(* size of the kernel's queues and of a record, and every behaviour of the *)
(* peer unless a theorem says otherwise: types, the records of the         *)
(* responses, the steps of HttpExchange, and the reading of all input; and *)
(* about the credentials of TlsSessions.                                   *)
(***************************************************************************)
EXTENDS TlsConnection, TlsSessions, SequenceTheorems, FiniteSetTheorems, TLAPS

RecordKinds == {"hs", "more", "last", "warn", "fatal", "bye"}

-----------------------------------------------------------------------------
(* Counting the records of a kind in a queue                               *)

Places(kind, queue) == {i \in DOMAIN queue : queue[i] = kind}
Count(kind, queue) == Cardinality(Places(kind, queue))

LEMMA PlacesFinite ==
  ASSUME NEW q \in Seq(RecordKinds), NEW kind
  PROVE  /\ IsFiniteSet(Places(kind, q)) /\ Count(kind, q) \in Nat
         /\ Places(kind, q) = {i \in 1 .. Len(q) : q[i] = kind}
<1>1. DOMAIN q = 1 .. Len(q) /\ Len(q) \in Nat
  BY LenProperties
<1>2. IsFiniteSet(1 .. Len(q))
  BY <1>1, FS_Interval
<1>3. Places(kind, q) \in SUBSET (1 .. Len(q))
  BY <1>1 DEF Places
<1>4. IsFiniteSet(Places(kind, q))
  BY <1>2, <1>3, FS_Subset
<1> QED
  BY <1>1, <1>4, FS_CardinalityType DEF Places, Count

LEMMA CountNone ==
  ASSUME NEW kind
  PROVE  Count(kind, <<>>) = 0
<1>1. Places(kind, <<>>) = {}
  <2>1. <<>> \in Seq(RecordKinds) /\ Len(<<>>) = 0
    BY EmptySeq
  <2>2. Places(kind, <<>>) = {i \in 1 .. 0 : <<>>[i] = kind}
    BY <2>1, PlacesFinite
  <2> QED
    BY <2>2
<1> QED
  BY <1>1, FS_EmptySet DEF Count

LEMMA PlacesAppend ==
  ASSUME NEW q \in Seq(RecordKinds), NEW kind, NEW record \in RecordKinds
  PROVE  Count(kind, Append(q, record))
           = Count(kind, q) + IF record = kind THEN 1 ELSE 0
<1> DEFINE r == Append(q, record)
           n == Len(q) + 1
<1>1. /\ r \in Seq(RecordKinds) /\ Len(r) = n /\ n \in Nat /\ Len(q) \in Nat
      /\ \A i \in 1 .. Len(q) : r[i] = q[i]
      /\ r[n] = record
  BY AppendProperties, LenProperties
<1> HIDE DEF r
<1>2. /\ Places(kind, r) = {i \in 1 .. n : r[i] = kind}
      /\ Places(kind, q) = {i \in 1 .. Len(q) : q[i] = kind}
  BY <1>1, PlacesFinite
<1>3. CASE record = kind
  <2>1. Places(kind, r) = Places(kind, q) \cup {n} /\ n \notin Places(kind, q)
    BY <1>1, <1>2, <1>3
  <2> QED
    BY <1>3, <2>1, PlacesFinite, FS_AddElement DEF r, Count
<1>4. CASE record # kind
  <2>1. Places(kind, r) = Places(kind, q)
    BY <1>1, <1>2, <1>4
  <2> QED
    BY <1>4, <2>1, PlacesFinite DEF r, Count
<1> QED
  BY <1>3, <1>4

LEMMA PlacesTail ==
  ASSUME NEW q \in Seq(RecordKinds), NEW kind, q # <<>>
  PROVE  /\ Tail(q) \in Seq(RecordKinds) /\ Head(q) \in RecordKinds
         /\ Count(kind, q)
              = Count(kind, Tail(q)) + IF Head(q) = kind THEN 1 ELSE 0
<1> DEFINE r == Tail(q)
           n == Len(q)
           f == [i \in Places(kind, r) |-> i + 1]
           moved == {i + 1 : i \in Places(kind, r)}
<1>1. /\ r \in Seq(RecordKinds) /\ Head(q) \in RecordKinds /\ Head(q) = q[1]
      /\ n \in Nat /\ n >= 1 /\ Len(r) = n - 1
      /\ \A i \in 1 .. n - 1 : r[i] = q[i + 1]
  BY HeadTailProperties, LenProperties, EmptySeq
<1> HIDE DEF r
<1>2. /\ Places(kind, r) = {i \in 1 .. n - 1 : r[i] = kind}
      /\ Places(kind, q) = {i \in 1 .. n : q[i] = kind}
  BY <1>1, PlacesFinite
<1>3. f \in Bijection(Places(kind, r), moved)
  <2>1. f \in [Places(kind, r) -> moved]
    OBVIOUS
  <2>2. \A i, j \in Places(kind, r) : f[i] = f[j] => i = j
    BY <1>1, <1>2
  <2>3. \A j \in moved : \E i \in Places(kind, r) : f[i] = j
    OBVIOUS
  <2> QED
    BY <2>1, <2>2, <2>3 DEF Bijection, Injection, Surjection, IsInjective
<1>4. IsFiniteSet(moved) /\ Cardinality(moved) = Count(kind, r)
  <2>1. ExistsBijection(Places(kind, r), moved)
    BY <1>3 DEF ExistsBijection
  <2> QED
    BY <1>1, <2>1, PlacesFinite, FS_Bijection DEF Count
<1>5. ASSUME NEW j \in 2 .. n
      PROVE  j \in Places(kind, q) <=> j \in moved
  <2>1. j - 1 \in 1 .. n - 1 /\ (j - 1) + 1 = j /\ j \in 1 .. n
    BY <1>1
  <2>2. r[j - 1] = q[j]
    BY <1>1, <2>1
  <2>3. j \in moved <=> j - 1 \in Places(kind, r)
    BY <1>1, <1>2, <2>1
  <2> QED
    BY <1>2, <2>1, <2>2, <2>3
<1>6. 1 \notin moved /\ moved \subseteq 2 .. n /\ Places(kind, q) \subseteq {1} \cup 2 .. n
  BY <1>1, <1>2
<1>7. 1 \in Places(kind, q) <=> Head(q) = kind
  BY <1>1, <1>2
<1> HIDE DEF moved, f
<1>8. CASE Head(q) = kind
  <2>1. Places(kind, q) = moved \cup {1}
    BY <1>5, <1>6, <1>8, <1>7
  <2>2. Cardinality(moved \cup {1}) = Cardinality(moved) + 1
    BY <1>4, <1>6, FS_AddElement
  <2>3. Count(kind, q) = Count(kind, r) + 1
    BY <1>4, <2>1, <2>2 DEF Count
  <2> QED
    BY <1>1, <1>8, <2>3 DEF r
<1>9. CASE Head(q) # kind
  <2>1. Places(kind, q) = moved
    BY <1>5, <1>6, <1>9, <1>7
  <2> QED
    BY <1>1, <1>4, <1>9, <2>1, PlacesFinite DEF r, Count
<1> QED
  BY <1>1, <1>8, <1>9 DEF r

-----------------------------------------------------------------------------
(* The inductive invariant                                                 *)

(* Both ends are at the same place of the script, but for the messages on  *)
(* their way, which all go one way.                                        *)
HandshakeInv ==
  /\ progress <= Len(Script) /\ hs <= Len(Script)
  /\ \A k \in hs + 1 .. progress : Script[k] = "peer"
  /\ \A k \in progress + 1 .. hs : Script[k] = "server"
  /\ Count("hs", inq) = IF hs <= progress THEN progress - hs ELSE 0
  /\ tls = "established" => hs = Len(Script)

(* What the handler's place in its cycle says of its variables.            *)
PhaseInv ==
  /\ pc \in {"process", "send"} => tls = "established"
  /\ pc \in {"recv", "process"} => state = "waiting"
  /\ pc = "process" => total # 0
  /\ total # 0 => tls = "established"
  /\ records \in Seq({"more", "last"}) /\ total <= Len(records)
  /\ state = "waiting" => left = 0 /\ pending = 0
  /\ Open /\ state = "writing" => left > 0
  /\ tls # "established" => state = "waiting" /\ rendered = 0
  /\ pending <= RecordUnits
  /\ Open => accepted + left = rendered

IInv == TlsTypeOK /\ HandshakeInv /\ PhaseInv /\ RecordsIntact

(* The types one by one.                                                   *)
KernelType ==
  /\ inq \in Seq(RecordKinds)
  /\ outq \in Seq([kind : {"hs", "reply"}, at : Nat])
  /\ eof \in BOOLEAN /\ nospace \in BOOLEAN /\ edge \in BOOLEAN
  /\ descriptor \in {"open", "closed"}
PeerType ==
  progress \in Nat /\ asked \in Nat /\ taken \in Nat /\ leaving \in BOOLEAN
ControlType ==
  /\ pc \in {"wait", "dispatch", "recv", "process", "send", "bye", "closed"}
  /\ event \subseteq {"IN", "OUT", "RDHUP"} /\ total \in Nat
  /\ state \in {"waiting", "writing"} /\ left \in Nat
  /\ pc = "send" => tls = "established" /\ state = "writing" /\ left > 0
SessionType ==
  /\ tls \in {"initialized", "established", "failed"} /\ hs \in Nat /\ pending \in Nat
HistoryType ==
  /\ replies \in Nat /\ rendered \in Nat /\ accepted \in Nat /\ farewell \in BOOLEAN

LEMMA Types ==
  TlsTypeOK <=> KernelType /\ PeerType /\ ControlType /\ SessionType /\ HistoryType
BY DEF TlsTypeOK, KernelType, PeerType, ControlType, SessionType, HistoryType, RecordKinds

LEMMA TypesNext ==
  KernelType' /\ PeerType' /\ ControlType' /\ SessionType' /\ HistoryType' => TlsTypeOK'
BY DEF TlsTypeOK, KernelType, PeerType, ControlType, SessionType, HistoryType, RecordKinds

LEMMA Constants ==
  /\ Len(Script) \in Nat /\ Len(Script) > 0 /\ Script[1] = "peer"
  /\ \A k \in 1 .. Len(Script) : Script[k] \in {"peer", "server"}
  /\ RecordUnits \in Nat /\ RecordUnits > 0 /\ SendSpace \in Nat /\ SendSpace > 0
  /\ MaxAsked \in Nat /\ MaxRecords \in Nat /\ MaxRecords > 0
BY TlsConnectionAssumption, LenProperties, ElementOfSeq DEF TlsConnectionAssumption

LEMMA Numbers ==
  ASSUME IInv
  PROVE  /\ progress \in Nat /\ hs \in Nat /\ taken \in Nat /\ rendered \in Nat
         /\ accepted \in Nat /\ left \in Nat /\ pending \in Nat /\ total \in Nat
         /\ asked \in Nat /\ replies \in Nat
         /\ Len(outq) \in Nat /\ Len(inq) \in Nat /\ Len(records) \in Nat
         /\ Ahead \in Nat /\ Todo \in Nat /\ Todo <= RecordUnits /\ Todo > 0
<1>1. /\ progress \in Nat /\ hs \in Nat /\ taken \in Nat /\ rendered \in Nat
      /\ accepted \in Nat /\ left \in Nat /\ pending \in Nat /\ total \in Nat
      /\ asked \in Nat /\ replies \in Nat
  BY Types DEF IInv, PeerType, ControlType, SessionType, HistoryType
<1>2. Len(outq) \in Nat /\ Len(inq) \in Nat /\ Len(records) \in Nat
  BY Types, LenProperties DEF IInv, KernelType, PhaseInv
<1>3. Ahead \in Nat
  BY <1>1 DEF Ahead
<1>4. Todo \in Nat /\ Todo <= RecordUnits /\ Todo > 0
  BY <1>1, Constants DEF Todo, IInv, PhaseInv
<1> QED
  BY <1>1, <1>2, <1>3, <1>4

-----------------------------------------------------------------------------
(* What steps leave alone                                                  *)

LEMMA HandshakeKept ==
  ASSUME HandshakeInv, UNCHANGED <<progress, hs>>,
         Count("hs", inq') = Count("hs", inq),
         tls' = "established" => tls = "established"
  PROVE  HandshakeInv'
BY DEF HandshakeInv

LEMMA RecordsKept ==
  ASSUME RecordsIntact, UNCHANGED <<outq, progress, hs, taken, rendered>>,
         Open' => Open /\ left' = left /\ Todo' = Todo
  PROVE  RecordsIntact'
<1>1. Ahead' = Ahead
  BY DEF Ahead
<1>2. Open' => Unwritten' = Unwritten
  BY DEF Unwritten
<1> QED
  BY <1>1, <1>2 DEF RecordsIntact, Handshake

(* How a call that failed leaves the handler: back in epoll_wait, with the *)
(* round it has read, or having destroyed the connection.                  *)
Ended ==
  /\ state' = state
  /\ \/ /\ pc' = "wait" /\ event' = {} /\ total' = 0
        /\ UNCHANGED <<records, left, descriptor>>
     \/ /\ pc = "recv" /\ total # 0 /\ pc' = "process"
        /\ UNCHANGED <<event, total, records, left, descriptor>>
     \/ /\ pc' = "bye" /\ event' = {} /\ total' = 0 /\ records' = <<>> /\ left' = 0
        /\ descriptor' = "closed"

LEMMA CallsEnd ==
  /\ Again => Ended
  /\ Destroy => Ended
  /\ \A code : Fails(code) => Ended
<1>1. Again => Ended
  BY DEF Again, Ended, Return
<1>2. Destroy => Ended
  BY DEF Destroy, Ended
<1> QED
  BY <1>1, <1>2 DEF Fails

LEMMA EndedControl ==
  ASSUME IInv, Open, Ended, UNCHANGED <<rendered, accepted>>,
         pending' <= RecordUnits, state = "waiting" => pending' = pending,
         tls' = tls \/ (tls = "initialized" /\ tls' = "failed")
  PROVE  ControlType' /\ descriptor' \in {"open", "closed"} /\ PhaseInv'
<1>1. ControlType /\ PhaseInv /\ descriptor \in {"open", "closed"}
  BY Types DEF IInv, KernelType
<1>2. CASE /\ state' = state /\ pc' = "wait" /\ event' = {} /\ total' = 0
           /\ UNCHANGED <<records, left, descriptor>>
  <2>1. ControlType' /\ descriptor' \in {"open", "closed"}
    BY <1>1, <1>2 DEF ControlType
  <2>2. Len(records) \in Nat
    BY Numbers
  <2>3. PhaseInv'
    BY <1>1, <1>2, <2>2 DEF PhaseInv, Open
  <2> QED
    BY <2>1, <2>3
<1>3. CASE /\ state' = state /\ pc = "recv" /\ total # 0 /\ pc' = "process"
           /\ UNCHANGED <<event, total, records, left, descriptor>>
  <2>1. ControlType' /\ descriptor' \in {"open", "closed"}
    BY <1>1, <1>3 DEF ControlType
  <2>2. PhaseInv'
    BY <1>1, <1>3 DEF PhaseInv, Open
  <2> QED
    BY <2>1, <2>2
<1>4. CASE /\ state' = state /\ pc' = "bye" /\ event' = {} /\ total' = 0
           /\ records' = <<>> /\ left' = 0 /\ descriptor' = "closed"
  <2>1. ControlType' /\ descriptor' \in {"open", "closed"}
    BY <1>1, <1>4 DEF ControlType
  <2>2. <<>> \in Seq({"more", "last"}) /\ Len(<<>>) = 0
    BY EmptySeq
  <2>3. PhaseInv'
    BY <1>1, <1>4, <2>2 DEF PhaseInv, Open
  <2> QED
    BY <2>1, <2>3
<1> QED
  BY <1>2, <1>3, <1>4 DEF Ended

-----------------------------------------------------------------------------
(* The steps of the peer                                                   *)

LEMMA ArrivesIInv ==
  ASSUME IInv, NEW record \in RecordKinds, Arrives(record),
         progress' \in Nat, asked' \in Nat, leaving' \in BOOLEAN
  PROVE  /\ TlsTypeOK' /\ PhaseInv'
         /\ Count("hs", inq')
              = Count("hs", inq) + IF record = "hs" THEN 1 ELSE 0
<1>1. /\ inq' = Append(inq, record) /\ inq \in Seq(RecordKinds) /\ edge' = TRUE
      /\ UNCHANGED <<eof, outq, nospace, descriptor, taken>>
      /\ UNCHANGED <<control, session, history>>
  BY Types DEF Arrives, IInv, KernelType
<1>2. inq' \in Seq(RecordKinds)
  BY <1>1, AppendProperties
<1>3. KernelType'
  BY <1>1, <1>2, Types DEF IInv, KernelType
<1>4. PeerType'
  BY <1>1, Types DEF IInv, PeerType
<1>5. ControlType' /\ SessionType' /\ HistoryType'
  BY <1>1, Types
  DEF IInv, ControlType, SessionType, HistoryType, control, session, history
<1>6. PhaseInv'
  BY <1>1 DEF IInv, PhaseInv, Open, control, session, history
<1> QED
  BY <1>1, <1>3, <1>4, <1>5, <1>6, TypesNext, PlacesAppend

LEMMA PeerHandshakeIInv ==
  ASSUME IInv, PeerHandshake
  PROVE  IInv'
<1>1. /\ progress < Len(Script) /\ Script[progress + 1] = "peer" /\ Arrives("hs")
      /\ progress' = progress + 1 /\ UNCHANGED <<asked, leaving>>
      /\ UNCHANGED <<outq, taken, pc, left, tls, hs, pending, rendered>>
  BY DEF PeerHandshake, Arrives, control, session, history
<1>2. /\ progress \in Nat /\ hs \in Nat /\ asked \in Nat /\ leaving \in BOOLEAN
      /\ Len(Script) \in Nat
  BY Numbers, Types, Constants DEF IInv, PeerType
<1>3. hs <= progress
  <2> SUFFICES ASSUME progress < hs PROVE FALSE
    BY <1>2
  <2>1. progress + 1 \in progress + 1 .. hs
    BY <1>2
  <2> QED
    BY <1>1, <2>1 DEF IInv, HandshakeInv
<1>4. /\ TlsTypeOK' /\ PhaseInv'
      /\ Count("hs", inq') = Count("hs", inq) + 1
  BY <1>1, <1>2, ArrivesIInv DEF RecordKinds
<1>5. HandshakeInv'
  BY <1>1, <1>2, <1>3, <1>4 DEF IInv, HandshakeInv
<1>6. RecordsIntact'
  <2>1. Ahead' = Ahead /\ Unwritten' = Unwritten /\ Open' = Open
    BY <1>1, <1>2, <1>3 DEF Ahead, Unwritten, Todo, Open
  <2> QED
    BY <1>1, <2>1 DEF IInv, RecordsIntact, Handshake
<1> QED
  BY <1>4, <1>5, <1>6 DEF IInv

(* A request or an alert.                                                  *)
LEMMA PeerSpeaksIInv ==
  ASSUME IInv,
         \/ \E record \in {"more", "last"} : PeerAsk(record)
         \/ \E alert \in {"warn", "fatal", "bye"} : PeerAlert(alert)
  PROVE  IInv'
<1>1. PICK record \in {"more", "last", "warn", "fatal", "bye"} :
        /\ Arrives(record) /\ progress' = progress
        /\ asked' = asked \/ asked' = asked + 1
        /\ leaving' = leaving \/ leaving' = (record # "warn")
  BY DEF PeerAsk, PeerAlert
<1>2. leaving' \in BOOLEAN
  BY <1>1, Types DEF IInv, PeerType
<1>3. progress' \in Nat /\ asked' \in Nat
  BY <1>1, Numbers
<1>4. /\ TlsTypeOK' /\ PhaseInv'
      /\ Count("hs", inq') = Count("hs", inq)
  <2>1. record \in RecordKinds /\ record # "hs"
    BY DEF RecordKinds
  <2>2. Count("hs", inq) \in Nat
    BY Types, PlacesFinite DEF IInv, KernelType
  <2> QED
    BY <1>1, <1>2, <1>3, <2>1, <2>2, ArrivesIInv
<1>5. UNCHANGED <<outq, taken, pc, left, tls, hs, pending, rendered>>
  BY <1>1 DEF Arrives, control, session, history
<1>6. HandshakeInv'
  BY <1>1, <1>4, <1>5, HandshakeKept DEF IInv
<1>7. RecordsIntact'
  BY <1>1, <1>5, RecordsKept DEF IInv, Open, Todo
<1> QED
  BY <1>4, <1>6, <1>7 DEF IInv

LEMMA PeerShutdownIInv ==
  ASSUME IInv, PeerShutdown
  PROVE  IInv'
<1>1. /\ eof' = TRUE /\ edge' = TRUE /\ UNCHANGED <<inq, outq, nospace, descriptor>>
      /\ UNCHANGED <<peer, control, session, history>>
  BY DEF PeerShutdown
<1>2. TlsTypeOK'
  <2>1. KernelType' /\ PeerType'
    BY <1>1, Types DEF IInv, KernelType, PeerType, peer
  <2>2. ControlType' /\ SessionType' /\ HistoryType'
    BY <1>1, Types
    DEF IInv, ControlType, SessionType, HistoryType, control, session, history
  <2> QED
    BY <2>1, <2>2, TypesNext
<1>3. HandshakeInv'
  BY <1>1, HandshakeKept DEF IInv, peer, session
<1>4. PhaseInv'
  BY <1>1 DEF IInv, PhaseInv, Open, control, session, history
<1>5. RecordsIntact'
  BY <1>1, RecordsKept DEF IInv, Open, Todo, peer, control, session, history
<1> QED
  BY <1>2, <1>3, <1>4, <1>5 DEF IInv

LEMMA PeerTakeIInv ==
  ASSUME IInv, PeerTake
  PROVE  IInv'
<1> DEFINE m == Len(outq)
           a == Ahead
<1>1. /\ outq # <<>> /\ outq' = Tail(outq) /\ nospace' = FALSE
      /\ edge' = (edge \/ nospace)
      /\ UNCHANGED <<inq, eof, descriptor, asked, leaving>>
      /\ UNCHANGED <<control, session, history>>
      /\ \/ Head(outq) = Handshake /\ progress' = progress + 1 /\ taken' = taken
         \/ Head(outq) # Handshake /\ progress' = progress /\ taken' = taken + 1
  BY DEF PeerTake
<1>2. outq \in Seq([kind : {"hs", "reply"}, at : Nat])
  BY Types DEF IInv, KernelType
<1>3. /\ outq' \in Seq([kind : {"hs", "reply"}, at : Nat])
      /\ Len(outq') = m - 1 /\ m \in Nat /\ m >= 1 /\ Head(outq) = outq[1]
      /\ \A i \in 1 .. m - 1 : outq'[i] = outq[i + 1]
  BY <1>1, <1>2, HeadTailProperties, EmptySeq, LenProperties
<1>4. /\ progress \in Nat /\ taken \in Nat /\ hs \in Nat /\ a \in Nat /\ a <= m
      /\ a = IF progress < hs THEN hs - progress ELSE 0
  BY Numbers DEF Ahead, IInv, RecordsIntact
<1>5. /\ \A i \in 1 .. a : outq[i] = Handshake
      /\ \A i \in 1 .. m - a : outq[a + i] = [kind |-> "reply", at |-> taken + i]
      /\ Open => taken + (m - a) + Unwritten = rendered * RecordUnits
  BY DEF IInv, RecordsIntact
<1>6. Open' = Open /\ Unwritten' = Unwritten
  BY <1>1 DEF Open, Unwritten, Todo, control, session
<1>7. TlsTypeOK' /\ PhaseInv'
  <2>1. edge' \in BOOLEAN
    BY <1>1, Zenon
  <2>2. KernelType'
    BY <1>1, <1>3, <2>1, Types DEF IInv, KernelType
  <2>3. PeerType'
    BY <1>1, <1>4, Types DEF IInv, PeerType
  <2>4. ControlType' /\ SessionType' /\ HistoryType'
    BY <1>1, Types
    DEF IInv, ControlType, SessionType, HistoryType, control, session, history
  <2>5. PhaseInv'
    BY <1>1 DEF IInv, PhaseInv, Open, control, session, history
  <2> QED
    BY <2>2, <2>3, <2>4, <2>5, TypesNext
<1> HIDE DEF m, a
<1>8. CASE Head(outq) = Handshake
  <2>1. a > 0
    <3> SUFFICES ASSUME a = 0 PROVE FALSE
      BY <1>4
    <3>1. 1 \in 1 .. m - a /\ outq[a + 1] = outq[1]
      BY <1>3
    <3>2. outq[1] = [kind |-> "reply", at |-> taken + 1]
      BY <1>5, <3>1
    <3> QED
      BY <1>3, <1>8, <3>2 DEF Handshake
  <2>2. /\ progress < hs /\ progress' = progress + 1 /\ taken' = taken /\ hs' = hs
        /\ inq' = inq /\ tls' = tls /\ rendered' = rendered
    BY <1>1, <1>4, <1>8, <2>1 DEF session, history
  <2>3. Ahead' = a - 1
    BY <1>4, <2>2 DEF Ahead
  <2>4. HandshakeInv'
    BY <1>4, <2>2, Constants DEF IInv, HandshakeInv
  <2>5. ASSUME NEW i \in 1 .. a - 1 PROVE outq'[i] = Handshake
    <3>1. i + 1 \in 1 .. a /\ i \in 1 .. m - 1
      BY <1>3, <1>4
    <3> QED
      BY <1>3, <1>5, <3>1
  <2>6. ASSUME NEW i \in 1 .. (m - 1) - (a - 1)
        PROVE  outq'[(a - 1) + i] = [kind |-> "reply", at |-> taken + i]
    <3>1. i \in 1 .. m - a /\ (a - 1) + i \in 1 .. m - 1 /\ ((a - 1) + i) + 1 = a + i
      BY <1>3, <1>4, <2>1
    <3>2. outq'[(a - 1) + i] = outq[a + i]
      BY <1>3, <3>1
    <3> QED
      BY <1>5, <3>1, <3>2
  <2>7. a - 1 <= m - 1 /\ (m - 1) - (a - 1) = m - a
    BY <1>3, <1>4
  <2>8. RecordsIntact'
    BY <1>3, <1>5, <1>6, <2>2, <2>3, <2>5, <2>6, <2>7 DEF RecordsIntact, Handshake
  <2> QED
    BY <1>7, <2>4, <2>8 DEF IInv
<1>9. CASE Head(outq) # Handshake
  <2>1. a = 0
    <3> SUFFICES ASSUME a > 0 PROVE FALSE
      BY <1>4
    <3>1. 1 \in 1 .. a
      BY <1>4
    <3> QED
      BY <1>3, <1>5, <1>9, <3>1
  <2>2. /\ progress' = progress /\ taken' = taken + 1 /\ hs' = hs
        /\ inq' = inq /\ tls' = tls /\ rendered' = rendered
    BY <1>1, <1>9 DEF session, history
  <2>3. Ahead' = 0
    BY <1>4, <2>1, <2>2 DEF Ahead
  <2>4. HandshakeInv'
    BY <2>2, HandshakeKept DEF IInv
  <2>5. ASSUME NEW i \in 1 .. m - 1
        PROVE  outq'[0 + i] = [kind |-> "reply", at |-> taken' + i]
    <3>1. i + 1 \in 1 .. m - a /\ a + (i + 1) = i + 1 /\ 0 + i = i
          /\ taken' + i = taken + (i + 1)
      BY <1>3, <1>4, <2>1, <2>2
    <3>2. outq[a + (i + 1)] = [kind |-> "reply", at |-> taken + (i + 1)]
      BY <1>5, <3>1
    <3> QED
      BY <1>3, <3>1, <3>2
  <2>6. taken' + (m - 1 - 0) = taken + (m - a)
    BY <1>3, <1>4, <2>1, <2>2
  <2>7. 0 <= m - 1 /\ m - 1 - 0 = m - 1 /\ 1 .. 0 = {}
    BY <1>3
  <2>8. RecordsIntact'
    BY <1>3, <1>5, <1>6, <2>2, <2>3, <2>5, <2>6, <2>7 DEF RecordsIntact, Handshake
  <2> QED
    BY <1>7, <2>4, <2>8 DEF IInv
<1> QED
  BY <1>8, <1>9

-----------------------------------------------------------------------------
(* The steps of the event loop                                             *)

LEMMA LoopIInv ==
  ASSUME IInv, EpollWait \/ Dispatch
  PROVE  IInv'
<1>1. Open /\ UNCHANGED <<inq, eof, outq, nospace>> /\ UNCHANGED <<peer, session, history>>
      /\ edge' \in BOOLEAN
  BY Types DEF EpollWait, Dispatch, Open, IInv, KernelType
<1>2. Mask \subseteq {"IN", "OUT", "RDHUP"}
  BY DEF Mask
<1>3. ControlType' /\ descriptor' \in {"open", "closed"} /\ PhaseInv'
  <2>1. CASE Dispatch /\ Destroy
    <3>1. tls' = tls /\ pending' = pending /\ rendered' = rendered /\ accepted' = accepted
      BY <1>1 DEF session, history
    <3>2. pending <= RecordUnits
      BY DEF IInv, PhaseInv
    <3> QED
      BY <1>1, <2>1, <3>1, <3>2, CallsEnd, EndedControl
  <2>2. CASE EpollWait
    <3>1. /\ pc = "wait" /\ event' = Mask /\ pc' \in {"wait", "dispatch"}
          /\ UNCHANGED <<total, state, records, left, descriptor>>
      BY <2>2 DEF EpollWait
    <3> QED
      BY <1>1, <1>2, <3>1, Types
      DEF IInv, ControlType, KernelType, PhaseInv, Open, session, history
  <2>3. CASE Dispatch /\ ~Destroy
    <3>1. /\ pc = "dispatch" /\ UNCHANGED <<state, records, left, descriptor>>
          /\ \/ state = "waiting" /\ pc' = "recv" /\ UNCHANGED <<event, total>>
             \/ state = "writing" /\ pc' = "send" /\ UNCHANGED <<event, total>>
             \/ pc' = "wait" /\ event' = {} /\ total' = 0
      BY <2>3 DEF Dispatch, Return
    <3>2. ControlType /\ PhaseInv /\ descriptor \in {"open", "closed"} /\ Len(records) \in Nat
      BY Types, Numbers DEF IInv, KernelType
    <3>3. UNCHANGED <<tls, pending, rendered, accepted>>
      BY <1>1 DEF session, history
    <3> HIDE DEF IInv
    <3>4. CASE pc' = "send" /\ state = "writing" /\ UNCHANGED <<event, total>>
      <4>1. tls = "established" /\ left > 0
        BY <3>1, <3>2, <3>4 DEF PhaseInv, Open, ControlType
      <4> QED
        BY <3>1, <3>2, <3>3, <3>4, <4>1 DEF ControlType, PhaseInv, Open
    <3>5. CASE pc' = "recv" /\ state = "waiting" /\ UNCHANGED <<event, total>>
      BY <3>1, <3>2, <3>3, <3>5 DEF ControlType, PhaseInv, Open
    <3>6. CASE pc' = "wait" /\ event' = {} /\ total' = 0
      BY <3>1, <3>2, <3>3, <3>6 DEF ControlType, PhaseInv, Open
    <3> QED
      BY <3>1, <3>4, <3>5, <3>6
  <2> QED
    BY <2>1, <2>2, <2>3
<1>4. TlsTypeOK'
  <2>1. KernelType' /\ PeerType'
    BY <1>1, <1>3, Types DEF IInv, KernelType, PeerType, peer
  <2>2. SessionType' /\ HistoryType'
    BY <1>1, Types DEF IInv, SessionType, HistoryType, session, history
  <2> QED
    BY <1>3, <2>1, <2>2, TypesNext
<1>5. HandshakeInv'
  BY <1>1, HandshakeKept DEF IInv, peer, session
<1>6. RecordsIntact'
  <2>1. Open' => left' = left
    BY DEF EpollWait, Dispatch, Destroy, Open
  <2> QED
    BY <1>1, <2>1, RecordsKept DEF IInv, Todo, peer, session, history
<1> QED
  BY <1>3, <1>4, <1>5, <1>6 DEF IInv

-----------------------------------------------------------------------------
(* The steps of the handshake                                              *)

(* While it lasts nothing but its own messages is in the peer's queue.     *)
LEMMA HandshakeFacts ==
  ASSUME IInv, Handshaking
  PROVE  /\ Open /\ state = "waiting" /\ pc = "recv" /\ total = 0
         /\ Len(outq) = Ahead /\ taken = 0 /\ rendered = 0
<1>1. /\ pc \in {"recv", "send"} /\ tls = "initialized" /\ Open
  BY DEF Handshaking, Open
<1>2. state = "waiting" /\ rendered = 0 /\ total = 0 /\ left = 0 /\ pending = 0
  BY <1>1 DEF IInv, PhaseInv
<1>3. pc = "recv"
  BY <1>1, <1>2, Types DEF IInv, ControlType
<1>4. Unwritten = 0
  BY <1>2, Constants DEF Unwritten, Todo
<1>5. taken + (Len(outq) - Ahead) = 0 /\ Ahead <= Len(outq)
  BY <1>1, <1>2, <1>4, Constants, Numbers DEF IInv, RecordsIntact
<1> QED
  BY <1>1, <1>2, <1>3, <1>5, Numbers

LEMMA HandshakeReadIInv ==
  ASSUME IInv, HandshakeRead
  PROVE  IInv'
<1>1. /\ Handshaking /\ Turn = "peer" /\ inq # <<>> /\ inq' = Tail(inq)
      /\ UNCHANGED <<eof, outq, nospace, edge, pending>>
      /\ UNCHANGED <<peer, history>>
      /\ \/ Head(inq) = "hs" /\ hs' = hs + 1 /\ tls' = tls /\ Continue
         \/ /\ Head(inq) # "hs" /\ hs' = hs /\ Ended
            /\ tls' = tls \/ tls' = "failed"
  BY CallsEnd DEF HandshakeRead
<1>2. inq \in Seq(RecordKinds)
  BY Types DEF IInv, KernelType
<1>3. /\ inq' \in Seq(RecordKinds)
      /\ Count("hs", inq)
           = Count("hs", inq') + IF Head(inq) = "hs" THEN 1 ELSE 0
      /\ Count("hs", inq') \in Nat
  BY <1>1, <1>2, PlacesTail, PlacesFinite
<1>4. tls = "initialized" /\ Open /\ pc = "recv"
  BY <1>1, HandshakeFacts DEF Handshaking
<1>5. PeerType' /\ HistoryType'
  BY <1>1, Types DEF IInv, PeerType, HistoryType, peer, history
<1>6. CASE Head(inq) = "hs"
  <2>1. hs' = hs + 1 /\ tls' = tls /\ UNCHANGED <<control, descriptor>>
    BY <1>1, <1>6 DEF Continue
  <2>2. KernelType' /\ ControlType' /\ SessionType'
    BY <1>1, <1>3, <2>1, Types DEF IInv, KernelType, ControlType, SessionType, control
  <2>3. PhaseInv'
    BY <1>1, <2>1 DEF IInv, PhaseInv, Open, control, history
  <2>4. hs < progress /\ progress' = progress
    <3>1. Count("hs", inq) > 0
      BY <1>3, <1>6
    <3>2. hs \in Nat /\ progress \in Nat
      BY Numbers
    <3> QED
      BY <1>1, <3>1, <3>2 DEF IInv, HandshakeInv, peer
  <2>5. hs \in Nat /\ progress \in Nat
    BY Numbers
  <2>6. HandshakeInv'
    BY <1>3, <1>4, <1>6, <2>1, <2>4, <2>5 DEF IInv, HandshakeInv
  <2>7. RecordsIntact'
    <3>1. Ahead' = 0 /\ Ahead = 0
      BY <2>1, <2>4, <2>5 DEF Ahead
    <3>2. Unwritten' = Unwritten /\ Open' = Open
      BY <1>1, <2>1 DEF Unwritten, Todo, Open, control
    <3> QED
      BY <1>1, <3>1, <3>2 DEF IInv, RecordsIntact, Handshake, peer, history
  <2> QED
    BY <1>5, <2>2, <2>3, <2>6, <2>7, TypesNext DEF IInv
<1>7. CASE Head(inq) # "hs"
  <2>1. hs' = hs /\ Ended /\ (tls' = tls \/ tls' = "failed")
    BY <1>1, <1>7
  <2>2. ControlType' /\ descriptor' \in {"open", "closed"} /\ PhaseInv'
    <3>1. pending <= RecordUnits
      BY DEF IInv, PhaseInv
    <3>2. UNCHANGED <<rendered, accepted, pending>>
      BY <1>1 DEF history
    <3> QED
      BY <1>4, <2>1, <3>1, <3>2, EndedControl
  <2>3. KernelType' /\ SessionType'
    BY <1>1, <1>3, <2>1, <2>2, Types DEF IInv, KernelType, SessionType
  <2>4. HandshakeInv'
    BY <1>1, <1>3, <1>4, <1>7, <2>1, HandshakeKept DEF IInv, peer
  <2>5. RecordsIntact'
    <3>1. Open' => left' = left
      BY <2>1 DEF Ended, Open
    <3> QED
      BY <1>1, <1>4, <2>1, <3>1, RecordsKept DEF IInv, Todo, peer, history
  <2> QED
    BY <1>5, <2>2, <2>3, <2>4, <2>5, TypesNext DEF IInv
<1> QED
  BY <1>6, <1>7

LEMMA HandshakeWriteIInv ==
  ASSUME IInv, HandshakeWrite, Room > 0
  PROVE  IInv'
<1>1. /\ Handshaking /\ Turn = "server"
      /\ outq' = Append(outq, Handshake) /\ hs' = hs + 1 /\ nospace' = nospace
      /\ UNCHANGED <<control, descriptor>> /\ UNCHANGED <<inq, eof, edge, tls, pending>>
      /\ UNCHANGED <<peer, history>>
  BY DEF HandshakeWrite, Continue
<1>2. /\ Open /\ Len(outq) = Ahead /\ taken = 0 /\ rendered = 0
  BY <1>1, HandshakeFacts
<1>3. outq \in Seq([kind : {"hs", "reply"}, at : Nat])
      /\ Handshake \in [kind : {"hs", "reply"}, at : Nat]
  BY Types DEF IInv, KernelType, Handshake
<1>4. /\ outq' \in Seq([kind : {"hs", "reply"}, at : Nat])
      /\ Len(outq') = Len(outq) + 1
      /\ \A i \in 1 .. Len(outq) : outq'[i] = outq[i]
      /\ outq'[Len(outq) + 1] = Handshake
  BY <1>1, <1>3, AppendProperties
<1>5. hs \in Nat /\ progress \in Nat /\ Len(outq) \in Nat
  BY Numbers
<1>6. hs < Len(Script) /\ Script[hs + 1] = "server"
  BY <1>1, <1>5, Constants DEF Turn, IInv, HandshakeInv
<1>7. progress <= hs
  <2> SUFFICES ASSUME hs < progress PROVE FALSE
    BY <1>5
  <2>1. hs + 1 \in hs + 1 .. progress
    BY <1>5
  <2> QED
    BY <1>6, <2>1 DEF IInv, HandshakeInv
<1>8. HandshakeInv'
  <2>1. UNCHANGED <<progress, inq, tls>> /\ tls # "established"
    BY <1>1 DEF peer, Handshaking
  <2> QED
    BY <1>1, <1>5, <1>6, <1>7, <2>1, Constants DEF IInv, HandshakeInv
<1>9. TlsTypeOK' /\ PhaseInv'
  <2>1. KernelType' /\ PeerType'
    BY <1>1, <1>4, Types DEF IInv, KernelType, PeerType, peer
  <2>2. ControlType' /\ SessionType' /\ HistoryType'
    BY <1>1, <1>5, Types DEF IInv, ControlType, SessionType, HistoryType, control, history
  <2>3. PhaseInv'
    BY <1>1 DEF IInv, PhaseInv, Open, control, history
  <2> QED
    BY <2>1, <2>2, <2>3, TypesNext
<1>10. RecordsIntact'
  <2>1. Ahead' = Ahead + 1 /\ taken' = taken /\ rendered' = rendered
    BY <1>1, <1>5, <1>7 DEF Ahead, peer, history
  <2>2. Unwritten' = Unwritten /\ Open' = Open
    BY <1>1 DEF Unwritten, Todo, Open, control
  <2>3. \A i \in 1 .. Ahead' : outq'[i] = Handshake
    <3> SUFFICES ASSUME NEW i \in 1 .. Len(outq) + 1 PROVE outq'[i] = Handshake
      BY <1>2, <2>1
    <3>1. i \in 1 .. Len(outq) \/ i = Len(outq) + 1
      BY <1>5
    <3>2. \A k \in 1 .. Len(outq) : outq[k] = Handshake
      BY <1>2 DEF IInv, RecordsIntact
    <3> QED
      BY <1>4, <3>1, <3>2
  <2>4. Len(outq') = Ahead' /\ Len(outq') - Ahead' = 0 /\ Len(outq) - Ahead = 0
    BY <1>2, <1>4, <1>5, <2>1
  <2>5. 1 .. 0 = {} /\ Len(outq') <= Len(outq')
    BY <1>4, <1>5
  <2>6. taken + (Len(outq) - Ahead) + Unwritten = rendered * RecordUnits
    BY <1>2 DEF IInv, RecordsIntact
  <2> QED
    BY <2>1, <2>2, <2>3, <2>4, <2>5, <2>6 DEF RecordsIntact, Handshake
<1> QED
  BY <1>8, <1>9, <1>10 DEF IInv

LEMMA HandshakeDoneIInv ==
  ASSUME IInv, HandshakeDone
  PROVE  IInv'
<1>1. /\ Handshaking /\ Turn = "nobody" /\ tls' = "established"
      /\ UNCHANGED <<control, descriptor>> /\ UNCHANGED <<inq, eof, outq, nospace, edge>>
      /\ UNCHANGED <<hs, pending>> /\ UNCHANGED <<peer, history>>
  BY DEF HandshakeDone, Continue
<1>2. Open /\ state = "waiting" /\ pc = "recv"
  BY <1>1, HandshakeFacts
<1>3. hs = Len(Script)
  <2> SUFFICES ASSUME hs # Len(Script) PROVE FALSE
    OBVIOUS
  <2>1. hs + 1 \in 1 .. Len(Script)
    <3>1. hs \in Nat /\ Len(Script) \in Nat
      BY Numbers, Constants
    <3>2. hs <= Len(Script)
      BY DEF IInv, HandshakeInv
    <3> QED
      BY <3>1, <3>2
  <2> QED
    BY <1>1, <2>1, Constants DEF Turn
<1>4. HandshakeInv'
  BY <1>1, <1>3 DEF IInv, HandshakeInv, peer
<1>5. TlsTypeOK'
  <2>1. KernelType' /\ PeerType'
    BY <1>1, Types DEF IInv, KernelType, PeerType, peer
  <2>2. ControlType' /\ SessionType' /\ HistoryType'
    BY <1>1, <1>2, Types DEF IInv, ControlType, SessionType, HistoryType, control, history
  <2> QED
    BY <2>1, <2>2, TypesNext
<1>6. PhaseInv'
  BY <1>1, <1>2 DEF IInv, PhaseInv, Open, control, history
<1>7. RecordsIntact'
  BY <1>1, RecordsKept DEF IInv, Open, Todo, peer, control, history
<1> QED
  BY <1>4, <1>5, <1>6, <1>7 DEF IInv

-----------------------------------------------------------------------------
(* Calls that fail                                                         *)

(* A call that ends without having moved a record either way.              *)
LEMMA FailedCallIInv ==
  ASSUME IInv, Open, Ended, UNCHANGED <<eof, outq, edge>>,
         UNCHANGED <<peer, history>>, UNCHANGED <<tls, hs>>,
         inq' = inq \/ (inq # <<>> /\ inq' = Tail(inq) /\ Head(inq) # "hs"),
         nospace' \in BOOLEAN,
         pending' = pending \/ (state = "writing" /\ pending' = Todo)
  PROVE  IInv'
<1>1. /\ inq' \in Seq(RecordKinds)
      /\ Count("hs", inq') = Count("hs", inq)
  <2>1. inq \in Seq(RecordKinds)
    BY Types DEF IInv, KernelType
  <2>2. CASE inq' = inq
    BY <2>1, <2>2
  <2>3. CASE inq # <<>> /\ inq' = Tail(inq) /\ Head(inq) # "hs"
    <3>1. /\ Tail(inq) \in Seq(RecordKinds)
          /\ Count("hs", inq) = Count("hs", Tail(inq)) + 0
      BY <2>1, <2>3, PlacesTail
    <3>2. Count("hs", Tail(inq)) \in Nat
      BY <3>1, PlacesFinite
    <3> QED
      BY <2>3, <3>1, <3>2
  <2> QED
    BY <2>2, <2>3
<1>2. /\ pending' \in Nat /\ pending' <= RecordUnits /\ Todo' = Todo
      /\ state = "waiting" => pending' = pending
  BY Numbers DEF IInv, PhaseInv, Todo
<1>3. ControlType' /\ descriptor' \in {"open", "closed"} /\ PhaseInv'
  <2>1. UNCHANGED <<rendered, accepted>>
    BY DEF history
  <2> QED
    BY <1>2, <2>1, EndedControl
<1>4. TlsTypeOK'
  <2>1. KernelType' /\ PeerType'
    BY <1>1, <1>3, Types DEF IInv, KernelType, PeerType, peer
  <2>2. SessionType' /\ HistoryType'
    BY <1>2, Types DEF IInv, SessionType, HistoryType, history
  <2> QED
    BY <1>3, <2>1, <2>2, TypesNext
<1>5. HandshakeInv'
  BY <1>1, HandshakeKept DEF IInv, peer
<1>6. RecordsIntact'
  <2>1. Open' => left' = left
    BY DEF Ended, Open
  <2> QED
    BY <1>2, <2>1, RecordsKept DEF IInv, peer, history
<1> QED
  BY <1>3, <1>4, <1>5, <1>6 DEF IInv

LEMMA FailuresIInv ==
  ASSUME IInv,
         \/ HandshakeStarved \/ (HandshakeWrite /\ ~(Room > 0))
         \/ RecordAlert \/ RecordBye \/ RecordStarved \/ SendBlocked
  PROVE  IInv'
<1> DEFINE Failed ==
      /\ Open /\ Ended /\ UNCHANGED <<eof, outq, edge>> /\ UNCHANGED <<peer, history>>
      /\ UNCHANGED <<tls, hs>>
      /\ inq' = inq \/ (inq # <<>> /\ inq' = Tail(inq) /\ Head(inq) # "hs")
      /\ nospace' = nospace \/ nospace' = TRUE
      /\ pending' = pending \/ (state = "writing" /\ pending' = Todo)
<1> SUFFICES Failed
  <2>1. ASSUME Failed PROVE nospace' \in BOOLEAN
    BY <2>1, Types DEF IInv, KernelType
  <2> QED
    BY <2>1, FailedCallIInv
<1>1. CASE HandshakeStarved
  <2>1. Fails(Starved) /\ Open
    BY <1>1 DEF HandshakeStarved, Handshaking, Open
  <2>2. Ended
    BY <2>1, CallsEnd
  <2> QED
    BY <1>1, <2>1, <2>2 DEF HandshakeStarved, session
<1>2. CASE HandshakeWrite /\ ~(Room > 0)
  <2>1. Fails("AGAIN") /\ Open /\ outq' = outq /\ hs' = hs /\ nospace' = TRUE
    BY <1>2 DEF HandshakeWrite, Handshaking, Open
  <2>2. Ended
    BY <2>1, CallsEnd
  <2> QED
    BY <1>2, <2>1, <2>2 DEF HandshakeWrite
<1>3. CASE RecordAlert
  <2>1. Fails(Code(Head(inq))) /\ Open
    BY <1>3 DEF RecordAlert, Receiving, Open
  <2>2. Ended
    BY <2>1, CallsEnd
  <2> QED
    BY <1>3, <2>1, <2>2 DEF RecordAlert, session
<1>4. CASE SendBlocked
  <2>1. state = "writing" /\ Open
    BY <1>4, Types DEF SendBlocked, Sending, IInv, ControlType, Open
  <2>2. Fails("AGAIN") /\ nospace' = TRUE /\ pending' = Todo
    BY <1>4 DEF SendBlocked
  <2>3. Ended
    BY <2>2, CallsEnd
  <2> QED
    BY <1>4, <2>1, <2>2, <2>3 DEF SendBlocked
<1>5. CASE RecordBye
  <2>1. Destroy /\ Open
    BY <1>5 DEF RecordBye, Receiving, Open
  <2>2. Ended
    BY <2>1, CallsEnd
  <2> QED
    BY <1>5, <2>1, <2>2 DEF RecordBye, session
<1>6. CASE RecordStarved
  <2>1. Fails(Starved) /\ Open
    BY <1>6 DEF RecordStarved, Receiving, Open
  <2>2. Ended
    BY <2>1, CallsEnd
  <2> QED
    BY <1>6, <2>1, <2>2 DEF RecordStarved, session
<1> QED
  BY <1>1, <1>2, <1>3, <1>4, <1>5, <1>6

-----------------------------------------------------------------------------
(* The steps of a round, and the farewell                                  *)

LEMMA RecordDataIInv ==
  ASSUME IInv, RecordData
  PROVE  IInv'
<1>1. /\ pc = "recv" /\ tls = "established" /\ Open /\ inq # <<>>
      /\ Head(inq) \in {"more", "last"} /\ inq' = Tail(inq)
      /\ records' = Append(records, Head(inq)) /\ total' = total + 1
      /\ UNCHANGED <<eof, outq, nospace, edge, descriptor, pc, event, state, left>>
      /\ UNCHANGED <<peer, session, history>>
  BY DEF RecordData, Receiving, Open
<1>2. inq \in Seq(RecordKinds) /\ records \in Seq({"more", "last"})
  BY Types DEF IInv, KernelType, PhaseInv
<1>3. /\ inq' \in Seq(RecordKinds)
      /\ Count("hs", inq) = Count("hs", inq') + 0
  BY <1>1, <1>2, PlacesTail
<1>4. Count("hs", inq') \in Nat
  BY <1>3, PlacesFinite
<1>5. records' \in Seq({"more", "last"}) /\ Len(records') = Len(records) + 1
  BY <1>1, <1>2, AppendProperties
<1>6. TlsTypeOK'
  <2>1. KernelType' /\ PeerType'
    BY <1>1, <1>3, Types DEF IInv, KernelType, PeerType, peer
  <2>2. ControlType' /\ SessionType' /\ HistoryType'
    BY <1>1, Types DEF IInv, ControlType, SessionType, HistoryType, session, history
  <2> QED
    BY <2>1, <2>2, TypesNext
<1>7. HandshakeInv'
  BY <1>1, <1>3, <1>4, HandshakeKept DEF IInv, peer, session
<1>8. PhaseInv'
  <2>1. total \in Nat /\ Len(records) \in Nat
    BY Numbers
  <2> QED
    BY <1>1, <1>5, <2>1 DEF IInv, PhaseInv, Open, session, history
<1>9. RecordsIntact'
  BY <1>1, RecordsKept DEF IInv, Open, Todo, peer, session, history
<1> QED
  BY <1>6, <1>7, <1>8, <1>9 DEF IInv

LEMMA ProcessIInv ==
  ASSUME IInv, Process
  PROVE  IInv'
<1>1. /\ pc = "process" /\ Open /\ Open' /\ UNCHANGED <<kernel, peer, session>>
      /\ \/ /\ pc' = "wait" /\ event' = {} /\ total' = 0
            /\ UNCHANGED <<state, records, left, history>>
         \/ /\ left' \in 1 .. MaxRecords /\ rendered' = rendered + left'
            /\ replies' = replies + 1 /\ records' = <<>> /\ total' = 0
            /\ state' = "writing" /\ pc' = "send"
            /\ UNCHANGED <<event, accepted, farewell>>
  BY DEF Process, Return, Open
<1>2. /\ tls = "established" /\ state = "waiting" /\ left = 0 /\ pending = 0
      /\ accepted = rendered /\ rendered \in Nat /\ replies \in Nat
      /\ records \in Seq({"more", "last"}) /\ Len(records) \in Nat
  BY <1>1, Numbers DEF IInv, PhaseInv
<1>3. left' \in Nat /\ (state' = "writing" => left' > 0)
  BY <1>1, <1>2, Constants
<1>4. TlsTypeOK'
  <2>1. KernelType' /\ PeerType' /\ SessionType'
    BY <1>1, Types DEF IInv, KernelType, PeerType, SessionType, kernel, peer, session
  <2>2. HistoryType'
    BY <1>1, <1>2, <1>3, Types DEF IInv, HistoryType, history
  <2>3. ControlType'
    BY <1>1, <1>2, <1>3, Types DEF IInv, ControlType, session
  <2> QED
    BY <2>1, <2>2, <2>3, TypesNext
<1>5. HandshakeInv'
  BY <1>1, HandshakeKept DEF IInv, kernel, peer, session
<1>6. PhaseInv'
  <2>1. tls' = "established" /\ pending' = 0 /\ pending' <= RecordUnits
    BY <1>1, <1>2, Constants DEF session
  <2>2. CASE pc' = "wait" /\ total' = 0 /\ UNCHANGED <<state, records, left, history>>
    BY <1>2, <2>1, <2>2 DEF IInv, PhaseInv, Open, history
  <2>3. CASE /\ left' \in 1 .. MaxRecords /\ rendered' = rendered + left'
             /\ records' = <<>> /\ total' = 0 /\ accepted' = accepted
             /\ state' = "writing" /\ pc' = "send"
    <3>1. <<>> \in Seq({"more", "last"}) /\ Len(<<>>) = 0
      BY EmptySeq
    <3> QED
      BY <1>2, <1>3, <2>1, <2>3, <3>1 DEF PhaseInv, Open
  <2> QED
    BY <1>1, <2>2, <2>3
<1>7. RecordsIntact'
  <2>1. UNCHANGED <<outq, progress, hs, taken, pending>> /\ Todo' = Todo /\ Ahead' = Ahead
    BY <1>1 DEF kernel, peer, session, Todo, Ahead
  <2>2. CASE UNCHANGED <<left, rendered>>
    BY <1>1, <2>1, <2>2, RecordsKept DEF IInv
  <2>3. CASE left' \in 1 .. MaxRecords /\ rendered' = rendered + left'
    <3>1. Todo = RecordUnits /\ Unwritten = 0
      BY <1>2, Constants DEF Todo, Unwritten
    <3>2. Unwritten' = left' * RecordUnits - (RecordUnits - RecordUnits)
      BY <2>1, <3>1 DEF Unwritten
    <3>3. Unwritten' = left' * RecordUnits
      BY <1>3, <3>2, Constants
    <3>4. rendered' * RecordUnits = rendered * RecordUnits + left' * RecordUnits
      BY <1>2, <1>3, <2>3, Constants
    <3>5. taken + (Len(outq) - Ahead) = rendered * RecordUnits
      BY <1>1, <1>2, <3>1, Numbers, Constants DEF IInv, RecordsIntact
    <3>6. taken + (Len(outq) - Ahead) + Unwritten' = rendered' * RecordUnits
      BY <3>3, <3>4, <3>5
    <3> QED
      BY <2>1, <3>6 DEF IInv, RecordsIntact, Handshake
  <2> QED
    BY <1>1, <2>2, <2>3 DEF history
<1> QED
  BY <1>4, <1>5, <1>6, <1>7 DEF IInv

LEMMA ByeIInv ==
  ASSUME IInv, Bye
  PROVE  IInv'
<1>1. /\ pc = "bye" /\ pc' = "closed" /\ farewell' \in BOOLEAN /\ UNCHANGED kernel
      /\ UNCHANGED <<peer, session>>
      /\ UNCHANGED <<event, total, state, records, left, replies, rendered, accepted>>
  BY DEF Bye
<1>2. TlsTypeOK'
  <2>1. KernelType' /\ PeerType'
    BY <1>1, Types DEF IInv, KernelType, PeerType, kernel, peer
  <2>2. ControlType' /\ SessionType' /\ HistoryType'
    BY <1>1, Types DEF IInv, ControlType, SessionType, HistoryType, session
  <2> QED
    BY <2>1, <2>2, TypesNext
<1>3. HandshakeInv'
  BY <1>1, HandshakeKept DEF IInv, kernel, peer, session
<1>4. PhaseInv'
  BY <1>1 DEF IInv, PhaseInv, Open, session
<1>5. RecordsIntact'
  BY <1>1, RecordsKept DEF IInv, Open, kernel, peer, session
<1> QED
  BY <1>2, <1>3, <1>4, <1>5 DEF IInv

(* The units written come where the responses' units so far end.           *)
LEMMA SendRecordIInv ==
  ASSUME IInv, SendRecord
  PROVE  IInv'
<1> DEFINE m == Len(outq)
           a == Ahead
           R == RecordUnits
           t == Todo
<1>1. PICK n \in 1 .. (IF Room < Todo THEN Room ELSE Todo) :
        /\ outq' = outq \o Units(n) /\ pending' = t - n
        /\ IF n < t
             THEN Continue /\ accepted' = accepted
             ELSE accepted' = accepted + 1 /\ Sent /\ UNCHANGED <<records, descriptor>>
  BY DEF SendRecord
<1>2. /\ pc = "send" /\ tls = "established" /\ Open
      /\ UNCHANGED <<inq, eof, nospace, edge>> /\ UNCHANGED peer
      /\ UNCHANGED <<tls, hs, replies, rendered, farewell>>
  BY DEF SendRecord, Sending, Open
<1>3. /\ m \in Nat /\ a \in Nat /\ R \in Nat /\ t \in Nat /\ t <= R /\ t > 0
      /\ taken \in Nat /\ rendered \in Nat /\ accepted \in Nat /\ left \in Nat
      /\ pending \in Nat /\ hs \in Nat /\ progress \in Nat /\ replies \in Nat
      /\ total \in Nat
  BY Numbers, Constants
<1>4. /\ state = "writing" /\ left > 0 /\ accepted + left = rendered
      /\ records \in Seq({"more", "last"}) /\ Len(records) \in Nat
  BY <1>2, Types, Numbers DEF IInv, ControlType, PhaseInv
<1>5. n \in Nat /\ n >= 1 /\ n <= t
  <2>1. CASE Room < Todo
    BY <1>1, <1>3, <2>1, Constants DEF Room
  <2>2. CASE ~(Room < Todo)
    BY <1>1, <1>3, <2>2
  <2> QED
    BY <2>1, <2>2
<1>6. a <= m /\ taken + (m - a) = (accepted + 1) * R - t
  <2>1. a <= m /\ taken + (m - a) + Unwritten = rendered * R
    BY <1>2 DEF IInv, RecordsIntact
  <2>2. Unwritten = left * R - (R - t)
    BY DEF Unwritten
  <2>3. /\ rendered * R = accepted * R + left * R /\ (accepted + 1) * R = accepted * R + R
        /\ accepted * R \in Nat /\ left * R \in Nat
    BY <1>3, <1>4
  <2> QED
    BY <1>3, <2>1, <2>2, <2>3
<1>7. /\ outq' \in Seq([kind : {"hs", "reply"}, at : Nat]) /\ Len(outq') = m + n
      /\ \A i \in 1 .. m : outq'[i] = outq[i]
      /\ \A j \in 1 .. n : outq'[m + j] = [kind |-> "reply", at |-> taken + (m - a) + j]
  <2> DEFINE u == Units(n)
  <2>1. u = [j \in 1 .. n |-> [kind |-> "reply", at |-> taken + (m - a) + j]]
    BY <1>6 DEF Units
  <2>2. u \in Seq([kind : {"hs", "reply"}, at : Nat]) /\ Len(u) = n
        /\ \A j \in 1 .. n : u[j] = [kind |-> "reply", at |-> taken + (m - a) + j]
    <3> HIDE DEF u, a, m
    <3>1. \A j \in 1 .. n : taken + (m - a) + j \in Nat
      BY <1>3, <1>5, <1>6
    <3>2. u \in [1 .. n -> [kind : {"hs", "reply"}, at : Nat]]
      BY <2>1, <3>1
    <3>3. u \in Seq([kind : {"hs", "reply"}, at : Nat])
      <4> DEFINE S == [kind : {"hs", "reply"}, at : Nat]
      <4>1. u \in [1 .. n -> S]
        BY <3>2
      <4> HIDE DEF S
      <4>2. u \in Seq(S)
        BY <1>5, <4>1, SeqDef
      <4> QED
        BY <4>2 DEF S
    <3>4. Len(u) = n
      BY <1>5, <2>1, <3>3, LenProperties
    <3> QED
      BY <2>1, <3>3, <3>4
  <2>3. outq \in Seq([kind : {"hs", "reply"}, at : Nat])
    BY Types DEF IInv, KernelType
  <2> HIDE DEF u
  <2>4. /\ outq \o u \in Seq([kind : {"hs", "reply"}, at : Nat]) /\ Len(outq \o u) = m + n
        /\ \A i \in 1 .. m + n : (outq \o u)[i] = IF i <= m THEN outq[i] ELSE u[i - m]
    BY <2>2, <2>3, ConcatProperties
  <2>5. \A i \in 1 .. m : i \in 1 .. m + n /\ i <= m
    BY <1>3, <1>5
  <2>6. \A j \in 1 .. n : m + j \in 1 .. m + n /\ ~(m + j <= m) /\ (m + j) - m = j
    BY <1>3, <1>5
  <2>7. outq' = outq \o u
    BY <1>1 DEF u
  <2> QED
    BY <2>2, <2>4, <2>5, <2>6, <2>7
<1>8. Ahead' = a /\ taken' = taken
  BY <1>2 DEF Ahead, peer
<1> HIDE DEF a, m, t
<1>9. ASSUME NEW i \in 1 .. (m + n) - a
      PROVE  outq'[a + i] = [kind |-> "reply", at |-> taken + i]
  <2>1. CASE i <= m - a
    <3>1. i \in 1 .. m - a /\ a + i \in 1 .. m
      BY <1>3, <1>5, <1>6, <2>1
    <3>2. outq[a + i] = [kind |-> "reply", at |-> taken + i]
      BY <3>1 DEF IInv, RecordsIntact, a, m
    <3> QED
      BY <1>7, <3>1, <3>2
  <2>2. CASE ~(i <= m - a)
    <3> DEFINE j == i - (m - a)
    <3>1. j \in 1 .. n /\ m + j = a + i /\ taken + (m - a) + j = taken + i
      BY <1>3, <1>5, <1>6, <2>2
    <3> HIDE DEF j
    <3>2. outq'[m + j] = [kind |-> "reply", at |-> taken + (m - a) + j]
      BY <1>7, <3>1
    <3> QED
      BY <3>1, <3>2
  <2> QED
    BY <2>1, <2>2
<1>10. /\ pending' \in Nat /\ pending' <= R /\ left' \in Nat /\ accepted' \in Nat
       /\ accepted' + left' = rendered /\ Open'
       /\ state' = "waiting" => left' = 0 /\ pending' = 0
       /\ state' = "writing" => left' > 0
       /\ state' \in {"waiting", "writing"}
       /\ \/ pc' = "send" /\ state' = "writing" /\ UNCHANGED <<event, total>>
          \/ pc' = "wait" /\ event' = {} /\ total' = 0
       /\ UNCHANGED <<records, descriptor>>
       /\ Unwritten' = Unwritten - n
  <2>1. pending' = t - n /\ Unwritten = left * R - (R - t) /\ left * R \in Nat
    BY <1>1, <1>3 DEF Unwritten, t
  <2>2. CASE n < t
    <3>1. /\ UNCHANGED <<control, descriptor>> /\ accepted' = accepted
      BY <1>1, <2>2 DEF Continue
    <3>2. UNCHANGED <<pc, event, total, state, records, left, descriptor>>
      BY <3>1 DEF control
    <3>3. pending' \in Nat /\ pending' <= R /\ pending' # 0
      BY <1>3, <1>5, <2>1, <2>2
    <3>4. Todo' = t - n
      BY <2>1, <3>3 DEF Todo
    <3>5. Unwritten' = left * R - (R - (t - n))
      BY <3>2, <3>4 DEF Unwritten
    <3>6. Unwritten' = Unwritten - n
      BY <1>3, <1>5, <2>1, <3>5
    <3> QED
      BY <1>2, <1>3, <1>4, <3>1, <3>2, <3>3, <3>6 DEF Open
  <2>3. CASE ~(n < t)
    <3>1. n = t /\ pending' = 0
      BY <1>3, <1>5, <2>1, <2>3
    <3>2. accepted' = accepted + 1 /\ left' = left - 1 /\ UNCHANGED <<records, descriptor>>
          /\ IF left = 1 THEN state' = "waiting" /\ pc' = "wait" /\ event' = {} /\ total' = 0
                         ELSE UNCHANGED <<state, pc, event, total>>
      BY <1>1, <2>3 DEF Sent, Return
    <3>3. Todo' = R
      BY <3>1 DEF Todo
    <3>4. Unwritten' = (left - 1) * R - (R - R)
      BY <3>2, <3>3 DEF Unwritten
    <3>5. (left - 1) * R = left * R - R
      BY <1>3
    <3>6. Unwritten' = Unwritten - n
      BY <1>3, <1>5, <2>1, <3>1, <3>4, <3>5
    <3>7. left' \in Nat /\ accepted' \in Nat /\ accepted' + left' = rendered
      BY <1>3, <1>4, <3>2
    <3>8. CASE left = 1
      BY <1>3, <3>1, <3>2, <3>6, <3>7, <3>8 DEF Open
    <3>9. CASE left # 1
      BY <1>2, <1>3, <1>4, <3>1, <3>2, <3>6, <3>7, <3>9 DEF Open
    <3> QED
      BY <3>8, <3>9
  <2> QED
    BY <2>2, <2>3
<1>11. TlsTypeOK'
  <2>1. KernelType' /\ PeerType'
    BY <1>2, <1>7, <1>10, Types DEF IInv, KernelType, PeerType, peer
  <2>2. SessionType' /\ HistoryType'
    BY <1>2, <1>10, Types DEF IInv, SessionType, HistoryType
  <2>3. ControlType'
    BY <1>2, <1>10, Types DEF IInv, ControlType
  <2> QED
    BY <2>1, <2>2, <2>3, TypesNext
<1>12. HandshakeInv'
  BY <1>2, HandshakeKept DEF IInv, peer
<1>13. PhaseInv'
  BY <1>2, <1>4, <1>10 DEF IInv, PhaseInv, Open
<1>14. RecordsIntact'
  <2>1. a <= m + n /\ \A i \in 1 .. a : outq'[i] = Handshake
    <3>1. a <= m + n
      BY <1>3, <1>5, <1>6
    <3>2. ASSUME NEW i \in 1 .. a PROVE outq'[i] = Handshake
      <4>1. i \in 1 .. m
        BY <1>3, <1>6
      <4>2. outq[i] = Handshake
        BY DEF IInv, RecordsIntact, a
      <4> QED
        BY <1>7, <4>1, <4>2
    <3> QED
      BY <3>1, <3>2
  <2>2. taken + ((m + n) - a) + Unwritten' = rendered * R
    <3>1. taken + (m - a) + Unwritten = rendered * R
      BY <1>2 DEF IInv, RecordsIntact, a, m
    <3>2. Unwritten = left * R - (R - t) /\ left * R \in Nat
      BY <1>3 DEF Unwritten, t
    <3> QED
      BY <1>3, <1>5, <1>6, <1>10, <3>1, <3>2
  <2>3. rendered' = rendered
    BY <1>2
  <2> QED
    BY <1>7, <1>8, <1>9, <2>1, <2>2, <2>3 DEF RecordsIntact, Handshake
<1> QED
  BY <1>11, <1>12, <1>13, <1>14 DEF IInv

-----------------------------------------------------------------------------
(* The invariant, and what follows from it                                 *)

LEMMA InitIInv == TlsInit => IInv
<1> SUFFICES ASSUME TlsInit PROVE IInv
  OBVIOUS
<1>1. /\ <<>> \in Seq(RecordKinds) /\ <<>> \in Seq({"more", "last"}) /\ Len(<<>>) = 0
      /\ <<>> \in Seq([kind : {"hs", "reply"}, at : Nat])
  BY EmptySeq
<1>2. TlsTypeOK
  <2>1. KernelType /\ PeerType
    BY <1>1 DEF TlsInit, KernelType, PeerType
  <2>2. ControlType /\ SessionType /\ HistoryType
    BY DEF TlsInit, ControlType, SessionType, HistoryType
  <2> QED
    BY <2>1, <2>2, Types
<1>3. HandshakeInv
  <2>1. Count("hs", inq) = 0
    BY CountNone DEF TlsInit
  <2> QED
    BY <2>1, Constants DEF TlsInit, HandshakeInv
<1>4. PhaseInv
  BY <1>1, Constants DEF TlsInit, PhaseInv, Open
<1>5. RecordsIntact
  <2>1. Ahead = 0 /\ Len(outq) = 0 /\ Unwritten = 0
    BY <1>1, Constants DEF TlsInit, Ahead, Unwritten, Todo
  <2> QED
    BY <2>1, Constants DEF TlsInit, RecordsIntact
<1> QED
  BY <1>2, <1>3, <1>4, <1>5 DEF IInv

LEMMA StepIInv == IInv /\ [TlsNext]_tlsVars => IInv'
<1> SUFFICES ASSUME IInv, [TlsNext]_tlsVars PROVE IInv'
  OBVIOUS
<1>1. CASE PeerHandshake
  BY <1>1, PeerHandshakeIInv
<1>2. CASE \/ \E record \in {"more", "last"} : PeerAsk(record)
           \/ \E alert \in {"warn", "fatal", "bye"} : PeerAlert(alert)
  BY <1>2, PeerSpeaksIInv
<1>3. CASE PeerShutdown
  BY <1>3, PeerShutdownIInv
<1>4. CASE PeerTake
  BY <1>4, PeerTakeIInv
<1>5. CASE EpollWait \/ Dispatch
  BY <1>5, LoopIInv
<1>6. CASE HandshakeRead
  BY <1>6, HandshakeReadIInv
<1>7. CASE HandshakeWrite /\ Room > 0
  BY <1>7, HandshakeWriteIInv
<1>8. CASE HandshakeDone
  BY <1>8, HandshakeDoneIInv
<1>9. CASE \/ HandshakeStarved \/ (HandshakeWrite /\ ~(Room > 0))
           \/ RecordAlert \/ RecordBye \/ RecordStarved \/ SendBlocked
  BY <1>9, FailuresIInv
<1>10. CASE RecordData
  BY <1>10, RecordDataIInv
<1>11. CASE Process
  BY <1>11, ProcessIInv
<1>12. CASE SendRecord
  BY <1>12, SendRecordIInv
<1>13. CASE Bye
  BY <1>13, ByeIInv
<1>14. CASE UNCHANGED tlsVars
  <2>1. /\ UNCHANGED <<inq, eof, outq, nospace, edge, descriptor>>
        /\ UNCHANGED <<peer, control, session, history>>
    BY <1>14 DEF tlsVars, peer, control, session, history
  <2>2. TlsTypeOK'
    <3>1. KernelType' /\ PeerType'
      BY <2>1, Types DEF IInv, KernelType, PeerType, peer
    <3>2. ControlType' /\ SessionType' /\ HistoryType'
      BY <2>1, Types
      DEF IInv, ControlType, SessionType, HistoryType, control, session, history
    <3> QED
      BY <3>1, <3>2, TypesNext
  <2>3. HandshakeInv' /\ PhaseInv'
    BY <2>1, HandshakeKept DEF IInv, PhaseInv, Open, peer, control, session, history
  <2>4. RecordsIntact'
    BY <2>1, RecordsKept DEF IInv, Open, Todo, peer, control, session, history
  <2> QED
    BY <2>2, <2>3, <2>4 DEF IInv
<1> QED
  BY <1>1, <1>2, <1>3, <1>4, <1>5, <1>6, <1>7, <1>8, <1>9, <1>10, <1>11, <1>12, <1>13,
     <1>14 DEF TlsNext, Peer, Server

THEOREM Invariance == TlsSpec => []IInv
BY InitIInv, StepIInv, PTL DEF TlsSpec

(* The types, and that tls_send is only called on an established session   *)
(* with a response to send, whatever the peer does.                        *)
THEOREM TypeCorrect == TlsSpec => []TlsTypeOK
<1>1. IInv => TlsTypeOK
  BY DEF IInv
<1> QED
  BY <1>1, Invariance, PTL

(* tls_send and the cycle that calls it: the kernel's queue always holds   *)
(* what the peer still has to take of the handshake, then the units of the *)
(* responses in their order, none lost, repeated or out of place.          *)
THEOREM RecordsArriveIntact == TlsSpec => []RecordsIntact
<1>1. IInv => RecordsIntact
  BY DEF IInv
<1> QED
  BY <1>1, Invariance, PTL

-----------------------------------------------------------------------------
(* TlsConnection implements HttpExchange                                   *)

(* A request that was made is in one place, or lost with the connection,   *)
(* until it is answered; and the peer has taken all that was rendered when *)
(* it makes one.                                                           *)
OneOwed ==
  /\ replies <= asked /\ asked <= replies + 1
  /\ Count("last", inq) + Count("last", records) <= asked - replies
AllTaken == asked = replies + 1 => taken = rendered * RecordUnits
TurnInv == OneOwed /\ AllTaken

(* The steps in which no request is made, read or answered and no unit of  *)
(* a response is taken.                                                    *)
Quiet ==
  /\ UNCHANGED <<asked, replies, taken, rendered>>
  /\ \/ inq' = inq
     \/ inq # <<>> /\ inq' = Tail(inq)
     \/ \E record \in RecordKinds \ {"last"} : inq' = Append(inq, record)
  /\ records' = records \/ records' = <<>>
  /\ Open

LEMMA QuietSteps ==
  ASSUME IInv, TlsNext
  PROVE  Quiet \/ PeerAsk("last") \/ PeerTake \/ RecordData \/ Process \/ Bye
<1> SUFFICES ASSUME ~(PeerAsk("last") \/ PeerTake \/ RecordData \/ Process \/ Bye)
             PROVE  Quiet
  OBVIOUS
<1>1. CASE PeerHandshake
  BY <1>1 DEF PeerHandshake, Arrives, Quiet, RecordKinds, control, history
<1>2. CASE \E record \in {"more", "last"} : PeerAsk(record)
  <2>1. PeerAsk("more")
    BY <1>2
  <2> QED
    BY <2>1 DEF PeerAsk, Arrives, Quiet, RecordKinds, control, history
<1>3. CASE \E alert \in {"warn", "fatal", "bye"} : PeerAlert(alert)
  BY <1>3 DEF PeerAlert, Arrives, Quiet, RecordKinds, control, history
<1>4. CASE PeerShutdown
  BY <1>4 DEF PeerShutdown, Quiet, peer, control, history
<1>5. CASE EpollWait
  BY <1>5 DEF EpollWait, Quiet, Open, peer, history
<1>6. CASE Dispatch
  BY <1>6 DEF Dispatch, Destroy, Quiet, Open, peer, history
<1>7. CASE HandshakeRead
  <2>1. Ended \/ Continue
    BY <1>7, CallsEnd DEF HandshakeRead
  <2> QED
    BY <1>7, <2>1 DEF HandshakeRead, Handshaking, Ended, Continue, Quiet, Open, peer,
      control, history
<1>8. CASE HandshakeWrite \/ HandshakeStarved \/ HandshakeDone
  <2>1. Ended \/ Continue
    BY <1>8, CallsEnd DEF HandshakeWrite, HandshakeStarved, HandshakeDone
  <2> QED
    BY <1>8, <2>1 DEF HandshakeWrite, HandshakeStarved, HandshakeDone, Handshaking,
      Ended, Continue, Quiet, Open, peer, control, history
<1>9. CASE RecordAlert \/ RecordBye \/ RecordStarved
  <2>1. Ended
    BY <1>9, CallsEnd DEF RecordAlert, RecordBye, RecordStarved
  <2> QED
    BY <1>9, <2>1 DEF RecordAlert, RecordBye, RecordStarved, Receiving, Ended, Quiet,
      Open, peer, history
<1>10. CASE SendBlocked
  <2>1. Ended
    BY <1>10, CallsEnd DEF SendBlocked
  <2> QED
    BY <1>10, <2>1 DEF SendBlocked, Sending, Ended, Quiet, Open, peer, history
<1>11. CASE SendRecord
  BY <1>11 DEF SendRecord, Sending, Continue, Quiet, Open, peer, control
<1> QED
  BY <1>1, <1>2, <1>3, <1>4, <1>5, <1>6, <1>7, <1>8, <1>9, <1>10, <1>11
  DEF TlsNext, Peer, Server

LEMMA RequestCounts ==
  ASSUME NEW q \in Seq(RecordKinds), NEW r \in Seq({"more", "last"})
  PROVE  r \in Seq(RecordKinds) /\ Count("last", q) \in Nat /\ Count("last", r) \in Nat
<1>1. r \in [1 .. Len(r) -> {"more", "last"}] /\ Len(r) \in Nat
  BY LenProperties
<1>2. r \in [1 .. Len(r) -> RecordKinds]
  BY <1>1 DEF RecordKinds
<1>3. r \in Seq(RecordKinds)
  BY <1>1, <1>2, SeqDef
<1> QED
  BY <1>3, PlacesFinite

LEMMA Lasts ==
  ASSUME IInv
  PROVE  /\ inq \in Seq(RecordKinds) /\ records \in Seq(RecordKinds)
         /\ Count("last", inq) \in Nat /\ Count("last", records) \in Nat
<1>1. inq \in Seq(RecordKinds) /\ records \in Seq({"more", "last"})
  BY Types DEF IInv, KernelType, PhaseInv
<1> QED
  BY <1>1, RequestCounts

LEMMA LastsNext ==
  ASSUME IInv'
  PROVE  Count("last", inq') \in Nat /\ Count("last", records') \in Nat
<1>1. inq' \in Seq(RecordKinds) /\ records' \in Seq({"more", "last"})
  BY DEF IInv, TlsTypeOK, PhaseInv, RecordKinds
<1> QED
  BY <1>1, RequestCounts

LEMMA QuietTurn ==
  ASSUME IInv, IInv', TurnInv, Quiet
  PROVE  TurnInv'
<1>1. /\ asked \in Nat /\ replies \in Nat
      /\ Count("last", inq) \in Nat /\ Count("last", records) \in Nat
      /\ Count("last", inq') \in Nat /\ Count("last", records') \in Nat
      /\ inq \in Seq(RecordKinds)
  BY Numbers, Lasts, LastsNext
<1>2. Count("last", inq') <= Count("last", inq)
  <2>1. CASE inq' = inq
    BY <1>1, <2>1
  <2>2. CASE inq # <<>> /\ inq' = Tail(inq)
    <3>1. Count("last", inq) = Count("last", inq') + IF Head(inq) = "last" THEN 1 ELSE 0
      BY <1>1, <2>2, PlacesTail
    <3> QED
      BY <1>1, <3>1
  <2>3. CASE \E record \in RecordKinds \ {"last"} : inq' = Append(inq, record)
    <3>1. PICK record \in RecordKinds \ {"last"} : inq' = Append(inq, record)
      BY <2>3
    <3>2. Count("last", inq') = Count("last", inq) + IF record = "last" THEN 1 ELSE 0
      BY <1>1, <3>1, PlacesAppend
    <3> QED
      BY <1>1, <3>1, <3>2
  <2> QED
    BY <2>1, <2>2, <2>3 DEF Quiet
<1>3. Count("last", records') <= Count("last", records)
  BY <1>1, CountNone DEF Quiet
<1>4. UNCHANGED <<asked, replies, taken, rendered>>
  BY DEF Quiet
<1>5. OneOwed'
  BY <1>1, <1>2, <1>3, <1>4 DEF TurnInv, OneOwed
<1>6. AllTaken'
  BY <1>4 DEF TurnInv, AllTaken
<1> QED
  BY <1>5, <1>6 DEF TurnInv

(* What the peer still has to take when a unit of a response arrives.      *)
LEMMA TakenShort ==
  ASSUME IInv, PeerTake, Head(outq) # Handshake
  PROVE  taken + 1 <= rendered * RecordUnits
<1> DEFINE m == Len(outq)
           a == Ahead
<1>1. /\ m \in Nat /\ a \in Nat /\ a <= m /\ m >= 1 /\ Head(outq) = outq[1]
  <2>1. outq # <<>> /\ outq \in Seq([kind : {"hs", "reply"}, at : Nat])
    BY Types DEF IInv, KernelType, PeerTake
  <2> QED
    BY <2>1, Numbers, HeadTailProperties, EmptySeq DEF IInv, RecordsIntact
<1>2. a = 0
  <2>1. \A i \in 1 .. a : outq[i] = Handshake
    BY DEF IInv, RecordsIntact
  <2> SUFFICES ASSUME a # 0 PROVE FALSE
    OBVIOUS
  <2>2. 1 \in 1 .. a
    BY <1>1
  <2> QED
    BY <1>1, <2>1, <2>2
<1>3. Unwritten \in Nat
  <2>1. /\ left \in Nat /\ RecordUnits \in Nat /\ RecordUnits > 0
        /\ Todo \in Nat /\ Todo <= RecordUnits
    BY Numbers, Constants
  <2>2. left = 0 => Todo = RecordUnits
    BY Types DEF IInv, PhaseInv, ControlType, Todo, PeerTake
  <2>3. CASE left = 0
    BY <2>1, <2>2, <2>3 DEF Unwritten
  <2>4. CASE left > 0
    <3>1. left * RecordUnits >= RecordUnits /\ left * RecordUnits \in Nat
      BY <2>1, <2>4
    <3> QED
      BY <2>1, <3>1 DEF Unwritten
  <2> QED
    BY <2>1, <2>3, <2>4
<1>4. taken + (m - a) + Unwritten = rendered * RecordUnits
  BY DEF PeerTake, IInv, RecordsIntact
<1> DEFINE all == rendered * RecordUnits
           rest == Unwritten
<1>5. taken \in Nat /\ all \in Nat /\ rest \in Nat /\ taken + (m - a) + rest = all
  <2>1. taken \in Nat /\ rendered \in Nat /\ RecordUnits \in Nat
    BY Numbers, Constants
  <2>2. all \in Nat
    BY <2>1
  <2> QED
    BY <1>3, <1>4, <2>1, <2>2
<1> HIDE DEF m, a, all, rest
<1>6. taken + 1 <= all
  BY <1>1, <1>2, <1>5
<1> QED
  BY <1>6 DEF all

LEMMA StepTurn ==
  ASSUME IInv, IInv', TurnInv, TlsNext
  PROVE  TurnInv'
<1>1. /\ asked \in Nat /\ replies \in Nat /\ taken \in Nat /\ rendered \in Nat
      /\ Count("last", inq) \in Nat /\ Count("last", records) \in Nat
      /\ Count("last", inq') \in Nat /\ Count("last", records') \in Nat
      /\ inq \in Seq(RecordKinds) /\ records \in Seq(RecordKinds)
  BY Numbers, Lasts, LastsNext
<1>2. CASE Quiet
  BY <1>2, QuietTurn
<1>3. CASE PeerAsk("last")
  <2>1. /\ Idle /\ asked' = asked + 1 /\ inq' = Append(inq, "last")
        /\ UNCHANGED <<records, replies, taken, rendered>>
    BY <1>3 DEF PeerAsk, Arrives, control, history
  <2>2. Count("last", inq') = Count("last", inq) + 1
    <3>1. Count("last", Append(inq, "last"))
            = Count("last", inq) + IF "last" = "last" THEN 1 ELSE 0
      BY <1>1, PlacesAppend DEF RecordKinds
    <3> QED
      BY <2>1, <3>1
  <2>3. OneOwed'
    BY <1>1, <2>1, <2>2 DEF TurnInv, OneOwed, Idle
  <2>4. AllTaken'
    BY <2>1 DEF AllTaken, Idle
  <2> QED
    BY <2>3, <2>4 DEF TurnInv
<1>4. CASE PeerTake
  <2>1. /\ UNCHANGED <<inq, asked, records, replies, rendered>>
        /\ taken' = IF Head(outq) = Handshake THEN taken ELSE taken + 1
    BY <1>4 DEF PeerTake, control, history
  <2>2. Head(outq) # Handshake => taken # rendered * RecordUnits
    <3>1. rendered * RecordUnits \in Nat
      BY <1>1, Constants
    <3> QED
      BY <1>1, <1>4, <3>1, TakenShort
  <2>3. asked' = replies' + 1 => taken' = rendered' * RecordUnits
    BY <2>1, <2>2 DEF TurnInv, AllTaken
  <2> QED
    BY <2>1, <2>3 DEF TurnInv, OneOwed, AllTaken
<1>5. CASE RecordData
  <2>1. /\ UNCHANGED <<asked, replies, taken, rendered>>
        /\ inq # <<>> /\ inq' = Tail(inq) /\ records' = Append(records, Head(inq))
    BY <1>5 DEF RecordData, peer, history
  <2> DEFINE moved == IF Head(inq) = "last" THEN 1 ELSE 0
  <2>2. Count("last", inq) = Count("last", inq') + moved /\ Head(inq) \in RecordKinds
    BY <1>1, <2>1, PlacesTail
  <2>3. Count("last", records') = Count("last", records) + moved
    BY <1>1, <2>1, <2>2, PlacesAppend
  <2>4. moved \in Nat
    OBVIOUS
  <2> HIDE DEF moved
  <2>5. OneOwed'
    BY <1>1, <2>1, <2>2, <2>3, <2>4 DEF TurnInv, OneOwed
  <2> QED
    BY <2>1, <2>5 DEF TurnInv, AllTaken
<1>6. CASE Process
  <2>1. UNCHANGED <<inq, asked, taken>>
    BY <1>6 DEF Process, kernel, peer
  <2>2. CASE UNCHANGED <<records, history>>
    BY <2>1, <2>2 DEF TurnInv, OneOwed, AllTaken, history
  <2>3. CASE records[Len(records)] = "last" /\ replies' = replies + 1 /\ records' = <<>>
    <3>1. Count("last", records) >= 1
      <4>1. Len(records) \in 1 .. Len(records)
        BY <1>6, Numbers DEF Process, IInv, PhaseInv
      <4>2. Len(records) \in Places("last", records)
        BY <1>1, <2>3, <4>1, PlacesFinite
      <4>3. IsFiniteSet(Places("last", records)) /\ Places("last", records) # {}
        BY <1>1, <4>2, PlacesFinite
      <4>4. Cardinality(Places("last", records)) # 0
        BY <4>3, FS_EmptySet
      <4> QED
        BY <1>1, <4>4 DEF Count
    <3>2. Count("last", records') = 0
      BY <2>3, CountNone
    <3>3. asked = replies + 1 /\ Count("last", inq) = 0
      BY <1>1, <3>1 DEF TurnInv, OneOwed
    <3> QED
      BY <1>1, <2>1, <2>3, <3>2, <3>3 DEF TurnInv, OneOwed, AllTaken
  <2> QED
    BY <1>6, <2>2, <2>3 DEF Process
<1>7. CASE Bye
  BY <1>7 DEF Bye, kernel, peer, TurnInv, OneOwed, AllTaken
<1> QED
  BY <1>2, <1>3, <1>4, <1>5, <1>6, <1>7, QuietSteps

LEMMA ExchangeStep ==
  ASSUME IInv, TurnInv, TlsNext
  PROVE  [Exchange!Next]_(Exchange!vars)
<1> DEFINE whole == taken = rendered * RecordUnits
           delivered == IF whole THEN replies ELSE replies - 1
<1> USE DEF Exchange!Next, Exchange!vars
<1>1. /\ asked \in Nat /\ replies \in Nat /\ taken \in Nat /\ rendered \in Nat
      /\ Count("last", inq) \in Nat /\ Count("last", records) \in Nat
      /\ records \in Seq(RecordKinds) /\ RecordUnits \in Nat /\ RecordUnits > 0
      /\ rendered * RecordUnits \in Nat
  <2>1. asked \in Nat /\ replies \in Nat /\ taken \in Nat /\ rendered \in Nat
    BY Numbers
  <2>2. RecordUnits \in Nat /\ RecordUnits > 0
    BY Constants
  <2>3. /\ Count("last", inq) \in Nat /\ Count("last", records) \in Nat
        /\ records \in Seq(RecordKinds)
    BY Lasts
  <2>4. rendered * RecordUnits \in Nat
    BY <2>1, <2>2
  <2> QED
    BY <2>1, <2>2, <2>3, <2>4
<1>2. CASE Quiet
  <2>1. UNCHANGED <<asked, replies, taken, rendered>> /\ Open
    BY <1>2 DEF Quiet
  <2>2. CASE Open'
    BY <2>1, <2>2
  <2>3. CASE ~Open'
    <3>1. Open' = FALSE /\ (Open <=> TRUE)
      BY <2>1, <2>3 DEF Open
    <3> QED
      BY <2>1, <3>1 DEF Exchange!Close
  <2> QED
    BY <2>2, <2>3
<1>3. CASE PeerAsk("last")
  <2>1. /\ whole /\ asked = replies /\ asked < MaxAsked /\ asked' = asked + 1
        /\ UNCHANGED <<replies, taken, rendered>> /\ Open /\ Open'
    BY <1>3 DEF PeerAsk, Arrives, Idle, Open, control, history
  <2> QED
    BY <2>1 DEF Exchange!Ask
<1>4. CASE PeerTake
  <2>1. /\ UNCHANGED <<asked, replies, rendered>> /\ Open /\ Open'
        /\ taken' = IF Head(outq) = Handshake THEN taken ELSE taken + 1
    BY <1>4 DEF PeerTake, Open, control, history
  <2>2. CASE Head(outq) = Handshake
    BY <2>1, <2>2
  <2>3. CASE Head(outq) # Handshake
    <3>1. ~whole /\ taken' = taken + 1
      BY <1>1, <1>4, <2>1, <2>3, TakenShort
    <3>2. CASE whole'
      BY <1>1, <2>1, <3>1, <3>2 DEF Exchange!Deliver
    <3>3. CASE ~whole'
      BY <2>1, <3>1, <3>3
    <3> QED
      BY <3>2, <3>3
  <2> QED
    BY <2>2, <2>3
<1>5. CASE RecordData
  <2>1. UNCHANGED <<asked, replies, taken, rendered>> /\ Open' = Open
    BY <1>5 DEF RecordData, Open, peer, history
  <2> QED
    BY <2>1
<1>6. CASE Process
  <2>1. UNCHANGED <<asked, taken>> /\ Open /\ Open'
    BY <1>6 DEF Process, Return, Open, kernel, peer
  <2>2. CASE UNCHANGED history
    BY <2>1, <2>2 DEF history
  <2>3. CASE /\ records[Len(records)] = "last" /\ left' \in 1 .. MaxRecords
             /\ rendered' = rendered + left' /\ replies' = replies + 1
    <3>1. asked = replies + 1 /\ whole
      <4>1. Len(records) \in 1 .. Len(records)
        BY <1>6, Numbers DEF Process, IInv, PhaseInv
      <4>2. Len(records) \in Places("last", records)
        BY <1>1, <2>3, <4>1, PlacesFinite
      <4>3. Cardinality(Places("last", records)) # 0
        BY <1>1, <4>2, PlacesFinite, FS_EmptySet
      <4>4. Count("last", records) >= 1
        BY <1>1, <4>3 DEF Count
      <4> QED
        BY <1>1, <4>4 DEF TurnInv, OneOwed, AllTaken
    <3>2. taken # rendered' * RecordUnits
      <4>1. left' \in Nat /\ left' >= 1
        BY <2>3, Constants
      <4>2. rendered' * RecordUnits = rendered * RecordUnits + left' * RecordUnits
        <5>1. rendered \in Nat /\ RecordUnits \in Nat /\ rendered' = rendered + left'
          BY <1>1, <2>3
        <5> QED
          BY <4>1, <5>1
      <4>3. left' * RecordUnits \in Nat /\ left' * RecordUnits >= 1
        <5> DEFINE k == left'
                   R == RecordUnits
        <5>1. k \in Nat /\ k >= 1 /\ R \in Nat /\ R >= 1
          BY <1>1, <4>1
        <5> HIDE DEF k, R
        <5>2. k * R = (k - 1) * R + R /\ (k - 1) * R \in Nat
          BY <5>1
        <5>3. k * R \in Nat /\ k * R >= 1
          BY <5>1, <5>2
        <5> QED
          BY <5>3 DEF k, R
      <4> QED
        BY <1>1, <3>1, <4>2, <4>3
    <3>3. delivered' = delivered
      BY <1>1, <2>1, <2>3, <3>1, <3>2
    <3>4. replies < asked /\ replies' = replies + 1
      BY <1>1, <2>3, <3>1
    <3> QED
      BY <2>1, <3>3, <3>4 DEF Exchange!Answer
  <2> QED
    BY <1>6, <2>2, <2>3 DEF Process
<1>7. CASE Bye
  <2>1. UNCHANGED <<asked, replies, taken, rendered>> /\ Open' = Open
    BY <1>7 DEF Bye, Open, peer
  <2> QED
    BY <2>1
<1> QED
  BY <1>2, <1>3, <1>4, <1>5, <1>6, <1>7, QuietSteps

(* A connection over TLS implements the safety part of HttpExchange,       *)
(* whatever alerts the peer sends and however it leaves: every step is one *)
(* of HttpExchange's or leaves the exchange as it is, so no answer is      *)
(* begun that was not asked for and the next request finds the answer to   *)
(* the last delivered whole.                                               *)
THEOREM ImplementsExchangeSafety == TlsSpec => Exchange!Spec
<1>1. TlsInit => Exchange!Init /\ TurnInv
  <2> SUFFICES ASSUME TlsInit PROVE Exchange!Init /\ TurnInv
    OBVIOUS
  <2>1. /\ Count("last", inq) = 0 /\ Count("last", records) = 0
        /\ asked = 0 /\ replies = 0
    BY CountNone DEF TlsInit
  <2>2. taken = rendered * RecordUnits
    BY Constants DEF TlsInit
  <2>3. Open = TRUE
    BY DEF TlsInit, Open
  <2>4. Exchange!Init
    BY <2>1, <2>2, <2>3 DEF Exchange!Init
  <2>5. TurnInv
    BY <2>1, <2>2 DEF TurnInv, OneOwed, AllTaken
  <2> QED
    BY <2>4, <2>5
<1>2. IInv /\ IInv' /\ TurnInv /\ [TlsNext]_tlsVars
      => TurnInv' /\ [Exchange!Next]_(Exchange!vars)
  <2>1. ASSUME IInv, TurnInv, UNCHANGED tlsVars
        PROVE  TurnInv' /\ UNCHANGED Exchange!vars
    BY <2>1 DEF tlsVars, TurnInv, OneOwed, AllTaken, Exchange!vars, Open
  <2> QED
    BY <2>1, StepTurn, ExchangeStep
<1> QED
  BY <1>1, <1>2, Invariance, PTL DEF TlsSpec, Exchange!Spec

-----------------------------------------------------------------------------
(* All input is read, with an orderly peer                                 *)

(* The peer sends no warning, which makes tls_recv return with input       *)
(* unread, and does not end the session while something is owed.           *)
Orderly == "warn" \notin PeerMay /\ "leave" \notin PeerMay

(* The kernel's queue has room for what the server says in one go.         *)
FlightsFit ==
  \A i, j \in 1 .. Len(Script) :
    (\A k \in i .. j : Script[k] = "server") => j + 1 - i <= SendSpace

(* Nothing follows the request that is being answered.                     *)
Answering ==
  \/ Open /\ state = "writing"
  \/ pc = "process" /\ Count("last", records) > 0

(* An event is kept, in the ready list or in what epoll_wait returned, for *)
(* whatever a connection that waits for a request has not read.            *)
NothingMissed ==
  state = "waiting" =>
    /\ pc \in {"wait", "process"} => edge \/ inq = <<>>
    /\ pc = "dispatch" => edge \/ "IN" \in event \/ inq = <<>>

PeersTurn == pc \in {"wait", "dispatch"} /\ tls = "initialized" => Turn = "peer"

SeenInv ==
  /\ Count("warn", inq) = 0
  /\ Answering => inq = <<>>
  /\ NothingMissed
  /\ PeersTurn

LEMMA EmptySeen ==
  ASSUME inq' = <<>>, PeersTurn'
  PROVE  SeenInv'
BY CountNone DEF SeenInv, NothingMissed

LEMMA ElsewhereSeen ==
  ASSUME Count("warn", inq') = 0,
         pc' \in {"bye", "closed"} \/ (pc' = "recv" /\ state' = "waiting")
  PROVE  SeenInv'
BY DEF SeenInv, Answering, NothingMissed, PeersTurn, Open

LEMMA WarningsTail ==
  ASSUME IInv, SeenInv, inq # <<>>
  PROVE  Count("warn", Tail(inq)) = 0 /\ Head(inq) # "warn"
<1>1. inq \in Seq(RecordKinds)
  BY Lasts
<1>2. /\ Tail(inq) \in Seq(RecordKinds)
      /\ Count("warn", inq) = Count("warn", Tail(inq)) + IF Head(inq) = "warn" THEN 1 ELSE 0
  BY <1>1, PlacesTail
<1>3. Count("warn", Tail(inq)) \in Nat /\ Count("warn", inq) = 0
  BY <1>2, PlacesFinite DEF SeenInv
<1> QED
  BY <1>2, <1>3

(* While an answer is owed the peer waits for it.                          *)
LEMMA AnsweringFacts ==
  ASSUME IInv, TurnInv, Answering
  PROVE  ~Idle /\ ~PeerHandshake
<1>1. tls = "established"
  BY DEF Answering, IInv, PhaseInv
<1>2. ~PeerHandshake
  <2> SUFFICES ASSUME PeerHandshake PROVE FALSE
    OBVIOUS
  <2>1. progress < Len(Script) /\ Script[progress + 1] = "peer"
    BY DEF PeerHandshake
  <2>2. hs = Len(Script) /\ progress \in Nat /\ hs \in Nat
    BY <1>1, Numbers DEF IInv, HandshakeInv
  <2>3. progress + 1 \in progress + 1 .. hs
    BY <2>1, <2>2
  <2> QED
    BY <2>1, <2>3 DEF IInv, HandshakeInv
<1>3. CASE pc = "process" /\ Count("last", records) > 0
  <2>1. asked # replies
    BY <1>3, Lasts, Numbers DEF TurnInv, OneOwed
  <2> QED
    BY <1>2, <2>1 DEF Idle
<1>4. CASE Open /\ state = "writing"
  <2> DEFINE all == rendered * RecordUnits
             rest == Unwritten
             r == Len(outq) - Ahead
  <2>1. taken + r + rest = all
    BY <1>4 DEF IInv, RecordsIntact
  <2>2. r \in Nat /\ taken \in Nat
    BY Numbers DEF IInv, RecordsIntact
  <2>3. rest \in Nat /\ rest > 0
    <3>1. /\ left \in Nat /\ left > 0 /\ RecordUnits \in Nat /\ Todo \in Nat
          /\ Todo > 0 /\ Todo <= RecordUnits
      BY <1>4, Numbers, Constants DEF IInv, PhaseInv
    <3> DEFINE more == (left - 1) * RecordUnits
    <3>2. more \in Nat /\ left * RecordUnits = more + RecordUnits
      BY <3>1
    <3>3. rest = left * RecordUnits - (RecordUnits - Todo)
      BY DEF Unwritten
    <3> HIDE DEF rest, more
    <3> QED
      BY <3>1, <3>2, <3>3
  <2> HIDE DEF all, rest, r
  <2>4. taken # all
    BY <2>1, <2>2, <2>3
  <2> QED
    BY <1>2, <2>4 DEF Idle, all
<1> QED
  BY <1>3, <1>4 DEF Answering

LEMMA ArrivesSeen ==
  ASSUME IInv, SeenInv, NEW record \in RecordKinds \ {"warn"}, Arrives(record),
         ~Answering
  PROVE  SeenInv'
<1>1. /\ inq' = Append(inq, record) /\ edge' = TRUE
      /\ UNCHANGED <<pc, event, state, records, tls, hs>>
  BY DEF Arrives, control, session
<1>2. Count("warn", inq') = Count("warn", inq) + 0
  <2>1. inq \in Seq(RecordKinds)
    BY Lasts
  <2>2. Count("warn", Append(inq, record))
          = Count("warn", inq) + IF record = "warn" THEN 1 ELSE 0
    BY <2>1, PlacesAppend
  <2> QED
    BY <1>1, <2>2
<1>3. ~Answering'
  BY <1>1 DEF Answering, Open
<1>4. NothingMissed' /\ PeersTurn'
  BY <1>1 DEF SeenInv, NothingMissed, PeersTurn, Turn
<1> QED
  BY <1>2, <1>3, <1>4 DEF SeenInv

LEMMA PeerSeen ==
  ASSUME Orderly, IInv, TurnInv, SeenInv, Peer
  PROVE  SeenInv'
<1>1. CASE PeerHandshake
  <2>1. ~Answering
    BY <1>1, AnsweringFacts
  <2> QED
    BY <1>1, <2>1, ArrivesSeen DEF PeerHandshake, RecordKinds
<1>2. CASE \E record \in {"more", "last"} : PeerAsk(record)
  <2>1. ~Answering
    BY <1>2, AnsweringFacts DEF PeerAsk
  <2> QED
    BY <1>2, <2>1, ArrivesSeen DEF PeerAsk, RecordKinds
<1>3. CASE \E alert \in {"warn", "fatal", "bye"} : PeerAlert(alert)
  <2>1. PICK alert \in {"warn", "fatal", "bye"} : PeerAlert(alert)
    BY <1>3
  <2>2. alert # "warn" /\ Idle /\ Arrives(alert)
    BY <2>1 DEF PeerAlert, Orderly
  <2>3. ~Answering
    BY <2>2, AnsweringFacts
  <2> QED
    BY <2>2, <2>3, ArrivesSeen DEF RecordKinds
<1>4. CASE PeerShutdown \/ PeerTake
  <2>1. /\ UNCHANGED <<inq, pc, event, state, records, tls, hs>>
        /\ edge => edge'
    BY <1>4 DEF PeerShutdown, PeerTake, control, session
  <2>2. Count("warn", inq') = 0 /\ (Answering' => inq' = <<>>) /\ PeersTurn'
    BY <2>1 DEF SeenInv, Answering, PeersTurn, Open, Turn
  <2>3. NothingMissed'
    <3>1. CASE edge'
      BY <3>1 DEF NothingMissed
    <3>2. CASE ~edge
      BY <2>1, <3>2 DEF SeenInv, NothingMissed
    <3> QED
      BY <2>1, <3>1, <3>2
  <2> QED
    BY <2>2, <2>3 DEF SeenInv
<1> QED
  BY <1>1, <1>2, <1>3, <1>4 DEF Peer

LEMMA LoopSeen ==
  ASSUME IInv, SeenInv, EpollWait \/ Dispatch
  PROVE  SeenInv'
<1>1. UNCHANGED <<inq, state, tls, hs>>
  BY DEF EpollWait, Dispatch, Destroy, session
<1>2. CASE EpollWait
  <2>1. /\ pc = "wait" /\ records' = records /\ event' = Mask
        /\ \/ pc' = "wait" /\ Mask = {}
           \/ pc' = "dispatch"
    BY <1>2 DEF EpollWait
  <2>2. inq # <<>> => "IN" \in Mask
    BY DEF Mask
  <2> QED
    BY <1>1, <2>1, <2>2 DEF SeenInv, Answering, NothingMissed, PeersTurn, Open, Turn
<1>3. CASE Dispatch
  <2>1. /\ pc = "dispatch" /\ edge' = edge
        /\ \/ pc' = "bye"
           \/ pc' = "recv" /\ state = "waiting"
           \/ pc' = "send" /\ state = "writing"
           \/ pc' = "wait" /\ (state = "waiting" => "IN" \notin event)
    BY <1>3 DEF Dispatch, Destroy, Return
  <2> QED
    BY <1>1, <2>1 DEF SeenInv, Answering, NothingMissed, PeersTurn, Open, Turn
<1> QED
  BY <1>2, <1>3

(* The server's messages never wait for room.                              *)
LEMMA FlightHasRoom ==
  ASSUME FlightsFit, IInv, Handshaking, Turn = "server"
  PROVE  Room > 0
<1>1. Len(outq) = Ahead
  BY HandshakeFacts
<1>2. /\ hs \in Nat /\ progress \in Nat /\ Len(Script) \in Nat /\ SendSpace \in Nat
      /\ SendSpace > 0
  BY Numbers, Constants
<1>3. hs < Len(Script) /\ Script[hs + 1] = "server"
  BY <1>2, Constants DEF Turn, IInv, HandshakeInv
<1>4. CASE progress < hs
  <2>1. \A k \in progress + 1 .. hs : Script[k] = "server"
    BY DEF IInv, HandshakeInv
  <2>2. \A k \in progress + 1 .. hs + 1 : k \in progress + 1 .. hs \/ k = hs + 1
    BY <1>2
  <2>3. \A k \in progress + 1 .. hs + 1 : Script[k] = "server"
    BY <1>3, <2>1, <2>2
  <2>4. progress + 1 \in 1 .. Len(Script) /\ hs + 1 \in 1 .. Len(Script)
    BY <1>2, <1>3, <1>4
  <2>5. (hs + 1) + 1 - (progress + 1) <= SendSpace
    BY <2>3, <2>4 DEF FlightsFit
  <2> QED
    BY <1>1, <1>2, <1>4, <2>5 DEF Ahead, Room
<1>5. CASE ~(progress < hs)
  BY <1>1, <1>2, <1>5 DEF Ahead, Room
<1> QED
  BY <1>4, <1>5

LEMMA HandshakeSeen ==
  ASSUME FlightsFit, IInv, SeenInv,
         HandshakeRead \/ HandshakeStarved \/ HandshakeWrite \/ HandshakeDone
  PROVE  SeenInv'
<1>1. Handshaking /\ pc = "recv" /\ state = "waiting"
  BY HandshakeFacts DEF HandshakeRead, HandshakeStarved, HandshakeWrite, HandshakeDone
<1>2. CASE HandshakeRead
  <2>1. inq # <<>> /\ inq' = Tail(inq)
    BY <1>2 DEF HandshakeRead
  <2>2. Count("warn", inq') = 0 /\ Head(inq) # "warn"
    BY <2>1, WarningsTail
  <2>3. CASE Continue
    BY <1>1, <2>2, <2>3, ElsewhereSeen DEF Continue, control
  <2>4. CASE Fails(Code(Head(inq)))
    <3>1. Code(Head(inq)) \in {"FATAL_ALERT_RECEIVED", "UNEXPECTED_PACKET"}
      BY <2>2 DEF Code
    <3>2. set_errno(Code(Head(inq))) # "EAGAIN"
      BY <3>1 DEF set_errno
    <3> QED
      BY <2>2, <2>4, <3>2, ElsewhereSeen DEF Fails, Destroy
  <2> QED
    BY <1>2, <2>3, <2>4 DEF HandshakeRead
<1>3. CASE HandshakeStarved
  BY <1>3, EmptySeen DEF HandshakeStarved, session, PeersTurn, Turn
<1>4. CASE HandshakeWrite \/ HandshakeDone
  <2>1. Continue /\ inq' = inq
    BY <1>4, FlightHasRoom DEF HandshakeWrite, HandshakeDone
  <2> QED
    BY <1>1, <2>1, ElsewhereSeen DEF Continue, control, SeenInv
<1> QED
  BY <1>2, <1>3, <1>4

LEMMA RoundSeen ==
  ASSUME IInv, IInv', SeenInv,
         \/ RecordData \/ RecordAlert \/ RecordBye \/ RecordStarved
         \/ Process \/ SendRecord \/ SendBlocked \/ Bye
  PROVE  SeenInv'
<1>1. CASE RecordData
  <2>1. inq # <<>> /\ inq' = Tail(inq) /\ pc' = "recv" /\ state' = "waiting"
    BY <1>1 DEF RecordData, Receiving, IInv, PhaseInv
  <2> QED
    BY <2>1, WarningsTail, ElsewhereSeen
<1>2. CASE RecordAlert
  <2>1. inq # <<>> /\ inq' = Tail(inq) /\ Head(inq) = "fatal"
    BY <1>2, WarningsTail DEF RecordAlert
  <2>2. set_errno(Code(Head(inq))) # "EAGAIN"
    BY <2>1 DEF set_errno, Code
  <2>3. pc' = "bye"
    BY <1>2, <2>2 DEF RecordAlert, Fails, Destroy
  <2> QED
    BY <2>1, <2>3, WarningsTail, ElsewhereSeen
<1>3. CASE RecordBye \/ Bye
  BY <1>3, ElsewhereSeen DEF RecordBye, Bye, Destroy, SeenInv, kernel
<1>4. CASE RecordStarved \/ SendRecord \/ SendBlocked
  <2>1. /\ inq' = inq /\ tls = "established" /\ tls' = "established"
        /\ inq = <<>> \/ pc = "send"
    BY <1>4 DEF RecordStarved, Receiving, SendRecord, SendBlocked, Sending, session
  <2>2. inq = <<>>
    BY <2>1, Types DEF IInv, ControlType, SeenInv, Answering, Open
  <2> QED
    BY <2>1, <2>2, EmptySeen DEF PeersTurn
<1>5. CASE Process
  <2>1. /\ pc = "process" /\ state = "waiting" /\ tls = "established"
        /\ UNCHANGED <<inq, edge, tls>>
    BY <1>5 DEF Process, IInv, PhaseInv, kernel, session
  <2>2. CASE pc' = "wait" /\ UNCHANGED state
    BY <2>1, <2>2 DEF SeenInv, Answering, NothingMissed, PeersTurn, Open
  <2>3. CASE records[Len(records)] = "last"
    <3>1. Count("last", records) > 0
      <4>1. Len(records) \in 1 .. Len(records)
        BY <1>5, Numbers DEF Process, IInv, PhaseInv
      <4>2. Len(records) \in Places("last", records)
        BY <2>3, <4>1, Lasts, PlacesFinite
      <4>3. Cardinality(Places("last", records)) # 0
        BY <4>2, Lasts, PlacesFinite, FS_EmptySet
      <4> QED
        BY <4>3, Lasts DEF Count
    <3> QED
      BY <2>1, <3>1, EmptySeen DEF PeersTurn, SeenInv, Answering
  <2> QED
    BY <1>5, <2>2, <2>3 DEF Process, Return
<1> QED
  BY <1>1, <1>2, <1>3, <1>4, <1>5

(* With a peer that sends no warning and leaves only between exchanges,    *)
(* and room for a flight of the handshake, tls_recv leaves nothing unread: *)
(* a connection that waits for a request in epoll_wait has read all there  *)
(* is or will be woken for it, and in the handshake it is the peer's turn. *)
THEOREM AllInputRead ==
  ASSUME Orderly, FlightsFit
  PROVE  TlsSpec => []WaitsForInput
<1>1. TlsInit => SeenInv /\ TurnInv
  <2> SUFFICES ASSUME TlsInit PROVE SeenInv /\ TurnInv
    OBVIOUS
  <2>1. /\ Count("last", inq) = 0 /\ Count("last", records) = 0
        /\ Count("warn", inq) = 0 /\ asked = 0 /\ replies = 0 /\ inq = <<>> /\ hs = 0
    BY CountNone DEF TlsInit
  <2>2. taken = rendered * RecordUnits
    BY Constants DEF TlsInit
  <2>3. Turn = "peer"
    BY <2>1, Constants DEF Turn
  <2>4. TurnInv
    BY <2>1, <2>2 DEF TurnInv, OneOwed, AllTaken
  <2> QED
    BY <2>1, <2>3, <2>4 DEF SeenInv, NothingMissed, PeersTurn
<1>2. IInv /\ IInv' /\ TurnInv /\ SeenInv /\ [TlsNext]_tlsVars => TurnInv' /\ SeenInv'
  <2>1. ASSUME TurnInv, SeenInv, UNCHANGED tlsVars PROVE TurnInv' /\ SeenInv'
    BY <2>1 DEF tlsVars, TurnInv, OneOwed, AllTaken, SeenInv, Answering, NothingMissed,
      PeersTurn, Open, Turn
  <2>2. ASSUME IInv, IInv', TurnInv, SeenInv, TlsNext PROVE SeenInv'
    BY <2>2, PeerSeen, LoopSeen, HandshakeSeen, RoundSeen DEF TlsNext, Server
  <2> QED
    BY <2>1, <2>2, StepTurn
<1>3. SeenInv => WaitsForInput
  BY DEF SeenInv, NothingMissed, PeersTurn, WaitsForInput
<1> QED
  BY <1>1, <1>2, <1>3, Invariance, PTL DEF TlsSpec

-----------------------------------------------------------------------------
(* The sessions of the process and their credentials                       *)

(* A session that came through has a credential that was allocated; and    *)
(* none is freed before the process exits, because get_credential never    *)
(* learns that it has loaded one.                                          *)
CredentialInv ==
  /\ loaded \in Nat /\ initialize = TRUE /\ freed = {}
  /\ phase \in [Sessions -> {"none", "failed", "initialized", "closed"}]
  /\ given \in [Sessions -> Nat]
  /\ \A s \in Sessions : phase[s] = "initialized" => given[s] \in 1 .. loaded

LEMMA AcceptKeepsCredentials ==
  ASSUME CredentialInv, NEW s \in Sessions, Accept(s)
  PROVE  CredentialInv'
<1>1. ASSUME NEW call \in Calls, FailsAt(s, call) PROVE CredentialInv'
  <2>1. /\ phase' = [phase EXCEPT ![s] = "failed"] /\ given' = given
        /\ loaded' \in {loaded, loaded + 1} /\ initialize' = TRUE /\ freed' = {}
    BY <1>1 DEF CredentialInv, FailsAt, GetCredential, Loads, statics
  <2>2. loaded \in Nat /\ loaded' \in Nat /\ loaded <= loaded'
    BY <2>1 DEF CredentialInv
  <2>3. phase' \in [Sessions -> {"none", "failed", "initialized", "closed"}]
    BY <2>1 DEF CredentialInv
  <2>4. \A t \in Sessions : phase'[t] = "initialized" => phase[t] = "initialized"
    BY <2>1 DEF CredentialInv
  <2> QED
    BY <2>1, <2>2, <2>3, <2>4 DEF CredentialInv
<1>2. ASSUME Succeeds(s) PROVE CredentialInv'
  BY <1>2 DEF CredentialInv, Succeeds, GetCredential, Loads
<1>3. ASSUME LoadFails PROVE CredentialInv'
  BY <1>3 DEF CredentialInv, LoadFails
<1> QED
  BY <1>1, <1>2, <1>3 DEF Accept

(* tls_initialize_underlying gives every session it does not mark failed a *)
(* credential, and what other sessions load, or fail to, does not take it  *)
(* away while the process runs; for any number of sessions and whichever   *)
(* calls of GnuTLS fail (UsableSessionHasCredential).                      *)
THEOREM SessionsKeepTheirCredentials ==
  SessionsSpec => []UsableSessionHasCredential
<1>1. SessionsInit => CredentialInv
  BY DEF SessionsInit, CredentialInv
<1>2. CredentialInv /\ [SessionsNext]_sessionsVars => CredentialInv'
  <2> SUFFICES ASSUME CredentialInv, [SessionsNext]_sessionsVars PROVE CredentialInv'
    OBVIOUS
  <2>1. ASSUME NEW s \in Sessions, Call(s) PROVE CredentialInv'
    BY <2>1 DEF CredentialInv, Call, statics
  <2>2. CASE StopProcess
    BY <2>2 DEF CredentialInv, StopProcess, statics
  <2>3. CASE Exit
    BY <2>3 DEF CredentialInv, Exit
  <2>4. CASE UNCHANGED sessionsVars
    BY <2>4 DEF CredentialInv, sessionsVars
  <2> QED
    BY <2>1, <2>2, <2>3, <2>4, AcceptKeepsCredentials DEF SessionsNext
<1>3. CredentialInv => UsableSessionHasCredential
  BY DEF CredentialInv, UsableSessionHasCredential
<1> QED
  BY <1>1, <1>2, <1>3, PTL DEF SessionsSpec

=============================================================================
