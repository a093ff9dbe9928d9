-------------------------- MODULE EventLoopProofs ---------------------------
(***************************************************************************)
(* Proofs about EventLoop, for any heap, any number of listening addresses *)
(* and connections and any batch size: no event of a batch is dispatched   *)
(* to a node that has been freed, and the epoll set and the heap agree.    *)
(* With one connection at a time the list is the heap as well, and the     *)
(* loop keeps the pool of descriptors it promises.                         *)
(***************************************************************************)
EXTENDS EventLoop, SequenceTheorems, FiniteSetTheorems, WellFoundedInduction, TLAPS

-----------------------------------------------------------------------------
(* The inductive invariant                                                 *)

(* epoll_wait reports a descriptor once: dispatching an event can only     *)
(* free the node of that event.                                            *)
DistinctEvents ==
  \A i, j \in DOMAIN batch : batch[i].addr = batch[j].addr => i = j

(* A batch exists only while it is dispatched, and none is collected after *)
(* the server was told to stop.                                            *)
Phases ==
  /\ pc # "dispatch" => batch = <<>>
  /\ pc \in {"listen", "wait"} => running

IInv ==
  /\ TypeOK
  /\ NoStaleEvent
  /\ EpollMatchesHeap
  /\ DistinctEvents
  /\ Phases

-----------------------------------------------------------------------------
(* What registering and releasing do to the heap                           *)

LEMMA RegisterEffect ==
  ASSUME TypeOK, NEW a \in Addr, NEW type \in {"listen", "connection"},
         Register(a, type)
  PROVE  /\ node' \in [Addr -> Node] /\ head' \in Addr \union {NULL}
         /\ a \notin Live
         /\ Live' = Live \union {a}
<1> USE DEF Register, TypeOK, Node
<1>1. node' \in [Addr -> Node] /\ head' \in Addr \union {NULL}
  OBVIOUS
<1>2. a \notin Live
  BY DEF Live
<1>3. \A b \in Addr : node'[b].live = (b = a \/ node[b].live)
  OBVIOUS
<1> QED
  BY <1>1, <1>2, <1>3 DEF Live

LEMMA ReleaseEffect ==
  ASSUME TypeOK, NEW a \in Addr, Release(a)
  PROVE  /\ node' \in [Addr -> Node] /\ head' \in Addr \union {NULL}
         /\ Live' = Live \ {a}
<1> USE DEF TypeOK, Node
<1>1. CASE node[a].prev = HeadSlot
  <2>1. head' = node[a].next /\ node' = [node EXCEPT ![a].live = FALSE]
    BY <1>1 DEF Release
  <2>2. node' \in [Addr -> Node] /\ head' \in Addr \union {NULL}
    BY <2>1
  <2>3. \A b \in Addr : node'[b].live = (b # a /\ node[b].live)
    BY <2>1
  <2> QED
    BY <2>2, <2>3 DEF Live
<1>2. CASE node[a].prev # HeadSlot
  <2> DEFINE slot == node[a].prev
  <2>1. slot \in Addr
    BY <1>2
  <2>2. /\ head' = head
        /\ node' = [node EXCEPT ![slot].next = node[a].next, ![a].live = FALSE]
    BY <1>2 DEF Release
  <2> DEFINE record == [node[slot] EXCEPT !.next = node[a].next]
             relinked == [node EXCEPT ![slot] = record]
  <2>3. relinked \in [Addr -> Node] /\ \A b \in Addr : relinked[b].live = node[b].live
    <3>1. node[slot] \in Node /\ node[a].next \in Addr \union {NULL}
      BY <2>1
    <3> HIDE DEF slot
    <3>2. record \in Node /\ record.live = node[slot].live
      BY <3>1
    <3> HIDE DEF record
    <3> QED
      BY <2>1, <3>2
  <2>4. node' = [relinked EXCEPT ![a].live = FALSE]
    BY <2>2
  <2>5. /\ node' \in [Addr -> Node]
        /\ \A b \in Addr : node'[b].live = (b # a /\ node[b].live)
    <3> DEFINE freed == [relinked[a] EXCEPT !.live = FALSE]
    <3> HIDE DEF relinked
    <3>1. relinked[a] \in Node
      BY <2>3
    <3>2. freed \in Node /\ freed.live = FALSE
      BY <3>1
    <3>3. node' = [relinked EXCEPT ![a] = freed]
      BY <2>4
    <3> HIDE DEF freed
    <3> QED
      BY <2>3, <3>2, <3>3
  <2>6. head' \in Addr \union {NULL}
    BY <2>2
  <2> QED
    BY <2>5, <2>6 DEF Live
<1> QED
  BY <1>1, <1>2

(* The events left after the first are events of the batch, on nodes other *)
(* than the first one's.                                                   *)
LEMMA RestOfBatch ==
  ASSUME IInv, batch # <<>>
  PROVE  /\ Current \in Event
         /\ Current.addr \in Live \ fresh
         /\ Tail(batch) \in Seq(Event)
         /\ \A i \in DOMAIN Tail(batch) :
              Tail(batch)[i].addr \in (Live \ fresh) \ {Current.addr}
         /\ \A i, j \in DOMAIN Tail(batch) :
              Tail(batch)[i].addr = Tail(batch)[j].addr => i = j
<1>1. batch \in Seq(Event)
  BY DEF IInv, TypeOK
<1>2. Len(batch) \in Nat \ {0} /\ DOMAIN batch = 1 .. Len(batch)
  BY <1>1, EmptySeq, LenProperties
<1>3. /\ Current \in Event /\ Tail(batch) \in Seq(Event)
      /\ Len(Tail(batch)) = Len(batch) - 1
      /\ \A i \in 1 .. Len(Tail(batch)) : Tail(batch)[i] = batch[i + 1]
  BY <1>1, HeadTailProperties DEF Current
<1>4. Current = batch[1] /\ 1 \in DOMAIN batch
  BY <1>1, <1>2 DEF Current
<1>5. DOMAIN Tail(batch) = 1 .. Len(batch) - 1
  BY <1>3, LenProperties
<1>6. \A i \in DOMAIN Tail(batch) :
        i + 1 \in DOMAIN batch /\ i + 1 # 1 /\ Tail(batch)[i] = batch[i + 1]
  BY <1>2, <1>3, <1>5
<1>7. Current.addr \in Live \ fresh
  BY <1>4 DEF IInv, NoStaleEvent
<1>8. ASSUME NEW i \in DOMAIN Tail(batch)
      PROVE  Tail(batch)[i].addr \in (Live \ fresh) \ {Current.addr}
  BY <1>4, <1>6 DEF IInv, NoStaleEvent, DistinctEvents
<1>9. ASSUME NEW i \in DOMAIN Tail(batch), NEW j \in DOMAIN Tail(batch),
             Tail(batch)[i].addr = Tail(batch)[j].addr
      PROVE  i = j
  <2>1. i + 1 = j + 1
    BY <1>6, <1>9 DEF IInv, DistinctEvents
  <2> QED
    BY <2>1, <1>5, <1>2
<1> QED
  BY <1>3, <1>7, <1>8, <1>9

-----------------------------------------------------------------------------
(* The invariant is inductive                                              *)

LEMMA InitIInv == Init => IInv
<1> SUFFICES ASSUME Init PROVE IInv
  OBVIOUS
<1> USE DEF Init, RegistryInit
<1>1. batch \in Seq(Event) /\ DOMAIN batch = {}
  BY EmptySeq, LenProperties
<1>2. TypeOK
  BY <1>1, EventLoopAssumption DEF TypeOK, Node
<1>3. EpollMatchesHeap
  BY DEF EpollMatchesHeap, Live
<1>4. NoStaleEvent /\ DistinctEvents /\ Phases
  BY <1>1 DEF NoStaleEvent, DistinctEvents, Phases
<1> QED
  BY <1>2, <1>3, <1>4 DEF IInv

(* Listening sockets are opened before there is a batch.                   *)
LEMMA ListenIInv ==
  ASSUME IInv, (\E a \in Addr : Listen(a)) \/ ListenFails \/ ListenDone
  PROVE  IInv'
<1> USE DEF IInv
<1>1. CASE \E a \in Addr : Listen(a)
  <2>1. PICK a \in Addr : Listen(a)
    BY <1>1
  <2> USE <2>1 DEF Listen
  <2>2. /\ node' \in [Addr -> Node] /\ head' \in Addr \union {NULL}
        /\ Live' = Live \union {a}
    BY RegisterEffect
  <2>3. TypeOK'
    BY <2>2 DEF TypeOK
  <2>4. NoStaleEvent' /\ DistinctEvents' /\ EpollMatchesHeap' /\ Phases'
    BY <2>2 DEF NoStaleEvent, DistinctEvents, EpollMatchesHeap, Phases
  <2> QED
    BY <2>3, <2>4
<1>2. CASE ListenFails \/ ListenDone
  <2>1. TypeOK'
    BY <1>2 DEF TypeOK, ListenFails, ListenDone
  <2>2. NoStaleEvent' /\ DistinctEvents' /\ EpollMatchesHeap' /\ Phases'
    BY <1>2 DEF NoStaleEvent, DistinctEvents, EpollMatchesHeap, Phases, Live,
                ListenFails, ListenDone
  <2> QED
    BY <2>1, <2>2
<1> QED
  BY <1>1, <1>2

(* A batch is collected from the epoll set, that is from the heap.         *)
LEMMA EpollWaitIInv == IInv /\ EpollWait => IInv'
<1> SUFFICES ASSUME IInv, EpollWait PROVE IInv'
  OBVIOUS
<1> USE DEF IInv, EpollWait
<1>1. PICK n \in 1 .. MaxEvents : \E events \in [1 .. n -> Event] :
        /\ \A i \in 1 .. n : events[i].addr \in epoll
        /\ \A i, j \in 1 .. n : events[i].addr = events[j].addr => i = j
        /\ batch' = events
  OBVIOUS
<1>2. n \in Nat
  BY EventLoopAssumption
<1>3. /\ batch' \in Seq(Event) /\ DOMAIN batch' = 1 .. n
      /\ \A i \in 1 .. n : batch'[i].addr \in epoll
      /\ \A i, j \in 1 .. n : batch'[i].addr = batch'[j].addr => i = j
  BY <1>1, <1>2, SeqDef
<1>4. TypeOK'
  BY <1>3 DEF TypeOK
<1>5. EpollMatchesHeap' /\ Live' = Live
  BY DEF EpollMatchesHeap, Live
<1>6. NoStaleEvent' /\ DistinctEvents' /\ Phases'
  BY <1>3, <1>5 DEF NoStaleEvent, DistinctEvents, Phases, EpollMatchesHeap
<1> QED
  BY <1>4, <1>5, <1>6

(* The node of the event is freed, by main or by the handler: the events   *)
(* that remain are not about it.                                           *)
LEMMA DestroyIInv ==
  ASSUME IInv, HangUp \/ HandleDestroys
  PROVE  IInv'
<1> USE DEF IInv
<1> DEFINE a == Current.addr
<1>1. /\ pc = "dispatch" /\ pc' = pc /\ batch # <<>> /\ CloseAndRelease(a)
      /\ batch' = Tail(batch) \/ batch' = <<>>
      /\ unbound' = unbound /\ fresh' = fresh /\ running' \in BOOLEAN
  BY DEF HangUp, HandleDestroys, Dispatching, TypeOK
<1>2. a \in Addr
  BY <1>1, RestOfBatch DEF Event
<1> HIDE DEF a
<1>3. /\ node' \in [Addr -> Node] /\ head' \in Addr \union {NULL}
      /\ Live' = Live \ {a} /\ epoll' = epoll \ {a}
  BY <1>1, <1>2, ReleaseEffect DEF CloseAndRelease
<1>4. /\ batch' \in Seq(Event)
      /\ \A i \in DOMAIN batch' : batch'[i].addr \in (Live \ fresh) \ {a}
      /\ \A i, j \in DOMAIN batch' : batch'[i].addr = batch'[j].addr => i = j
  <2>1. CASE batch' = Tail(batch)
    BY <1>1, <2>1, RestOfBatch DEF a
  <2>2. CASE batch' = <<>>
    <3>1. batch' \in Seq(Event) /\ DOMAIN batch' = {}
      BY <2>2, EmptySeq, LenProperties
    <3> QED
      BY <3>1
  <2> QED
    BY <1>1, <2>1, <2>2
<1>5. TypeOK'
  BY <1>1, <1>3, <1>4 DEF TypeOK
<1>6. EpollMatchesHeap' /\ NoStaleEvent' /\ DistinctEvents' /\ Phases'
  BY <1>1, <1>3, <1>4 DEF EpollMatchesHeap, NoStaleEvent, DistinctEvents, Phases
<1> QED
  BY <1>5, <1>6

(* A connection accepted in the middle of a batch takes a free block: no   *)
(* event of the batch is about it.                                         *)
LEMMA AcceptIInv ==
  ASSUME IInv, NEW a \in Addr, AcceptConnection(a)
  PROVE  IInv'
<1> USE DEF IInv, AcceptConnection
<1>1. /\ node' \in [Addr -> Node] /\ head' \in Addr \union {NULL}
      /\ Live' = Live \union {a} /\ a \notin Live
  BY RegisterEffect
<1>2. batch # <<>> /\ pc = "dispatch"
  BY DEF Dispatching
<1>3. TypeOK'
  BY <1>1, <1>2, RestOfBatch DEF TypeOK
<1>4. EpollMatchesHeap'
  BY <1>1 DEF EpollMatchesHeap
<1>5. NoStaleEvent' /\ DistinctEvents' /\ Phases'
  BY <1>1, <1>2, RestOfBatch DEF NoStaleEvent, DistinctEvents, Phases
<1> QED
  BY <1>3, <1>4, <1>5

(* An event whose dispatch frees nothing, and the end of a batch.          *)
LEMMA KeepIInv ==
  ASSUME IInv, AcceptNone \/ HandleKeeps \/ BatchDone
  PROVE  IInv'
<1> USE DEF IInv
<1>1. UNCHANGED <<head, node, unbound, epoll, fresh>> /\ Live' = Live
  BY DEF AcceptNone, HandleKeeps, BatchDone, Live
<1>2. CASE AcceptNone \/ HandleKeeps
  <2>1. /\ batch # <<>> /\ batch' = Tail(batch) /\ pc = "dispatch" /\ pc' = pc
        /\ running' \in BOOLEAN
    BY <1>2 DEF AcceptNone, HandleKeeps, Dispatching, TypeOK
  <2>2. TypeOK'
    BY <1>1, <2>1, RestOfBatch DEF TypeOK
  <2>3. EpollMatchesHeap' /\ NoStaleEvent' /\ DistinctEvents' /\ Phases'
    BY <1>1, <2>1, RestOfBatch
    DEF EpollMatchesHeap, NoStaleEvent, DistinctEvents, Phases
  <2> QED
    BY <2>2, <2>3
<1>3. CASE BatchDone
  <2>1. TypeOK'
    BY <1>3 DEF BatchDone, TypeOK
  <2>2. EpollMatchesHeap' /\ NoStaleEvent' /\ DistinctEvents' /\ Phases'
    BY <1>1, <1>3
    DEF BatchDone, EpollMatchesHeap, NoStaleEvent, DistinctEvents, Phases
  <2> QED
    BY <2>1, <2>2
<1> QED
  BY <1>2, <1>3

(* The list is closed when no batch is left.                               *)
LEMMA CloseIInv ==
  ASSUME IInv, CloseNext \/ CloseFreed \/ Exit
  PROVE  IInv'
<1> USE DEF IInv
<1>1. CASE CloseNext
  <2> USE <1>1 DEF CloseNext, CloseAndRelease
  <2>1. head \in Addr /\ batch = <<>>
    BY DEF Live, Phases
  <2>2. /\ node' \in [Addr -> Node] /\ head' \in Addr \union {NULL}
        /\ Live' = Live \ {head}
    BY <2>1, ReleaseEffect
  <2>3. TypeOK'
    BY <2>2 DEF TypeOK
  <2>4. EpollMatchesHeap'
    BY <2>2 DEF EpollMatchesHeap
  <2>5. NoStaleEvent' /\ DistinctEvents' /\ Phases'
    <3>1. DOMAIN batch' = {}
      BY <2>1, EmptySeq, LenProperties
    <3> QED
      BY <2>1, <3>1 DEF NoStaleEvent, DistinctEvents, Phases
  <2> QED
    BY <2>3, <2>4, <2>5
<1>2. CASE CloseFreed \/ Exit
  <2>1. TypeOK'
    BY <1>2 DEF TypeOK, CloseFreed, Exit
  <2>2. EpollMatchesHeap' /\ NoStaleEvent' /\ DistinctEvents' /\ Phases'
    BY <1>2 DEF EpollMatchesHeap, NoStaleEvent, DistinctEvents, Phases, Live,
                CloseFreed, Exit
  <2> QED
    BY <2>1, <2>2
<1> QED
  BY <1>1, <1>2

LEMMA StepIInv == IInv /\ [Next]_vars => IInv'
<1> SUFFICES ASSUME IInv, [Next]_vars PROVE IInv'
  OBVIOUS
<1>1. CASE (\E a \in Addr : Listen(a)) \/ ListenFails \/ ListenDone
  BY <1>1, ListenIInv
<1>2. CASE EpollWait
  BY <1>2, EpollWaitIInv
<1>3. CASE HangUp \/ HandleDestroys
  BY <1>3, DestroyIInv
<1>4. CASE \E a \in Addr : AcceptConnection(a)
  BY <1>4, AcceptIInv
<1>5. CASE AcceptNone \/ HandleKeeps \/ BatchDone
  BY <1>5, KeepIInv
<1>6. CASE CloseNext \/ CloseFreed \/ Exit
  BY <1>6, CloseIInv
<1>7. CASE UNCHANGED vars
  BY <1>7 DEF vars, IInv, TypeOK, NoStaleEvent, EpollMatchesHeap, DistinctEvents,
              Phases, Live
<1> QED
  BY <1>1, <1>2, <1>3, <1>4, <1>5, <1>6, <1>7 DEF Next

THEOREM Invariance == Spec => []IInv
<1>1. Init => IInv
  BY InitIInv
<1>2. IInv /\ [Next]_vars => IInv'
  BY StepIInv
<1> QED
  BY <1>1, <1>2, PTL DEF Spec

-----------------------------------------------------------------------------
(* What follows from it                                                    *)

(* The variables keep their types, also after a release that went wrong.   *)
THEOREM TypeCorrect == Spec => []TypeOK
<1>1. IInv => TypeOK
  BY DEF IInv
<1> QED
  BY <1>1, Invariance, PTL

(* main never dispatches an event to a node that an earlier event of the   *)
(* same batch freed, however many descriptors, events and reallocations.   *)
THEOREM EventsNeverStale == Spec => []NoStaleEvent
<1>1. IInv => NoStaleEvent
  BY DEF IInv
<1> QED
  BY <1>1, Invariance, PTL

(* The epoll set is the heap, although the list may have lost a node.      *)
THEOREM EpollIsHeap == Spec => []EpollMatchesHeap
<1>1. IInv => EpollMatchesHeap
  BY DEF IInv
<1> QED
  BY <1>1, Invariance, PTL

(* Once told to stop, the server collects no further batch.                *)
THEOREM StopIsFinal == Spec => NoBatchAfterStop
<1>1. IInv /\ [Next]_vars => [~running => pc' # "wait" /\ ~running']_vars
  <2> SUFFICES ASSUME IInv, Next, ~running PROVE pc' # "wait" /\ ~running'
    BY DEF vars
  <2>1. pc # "listen" /\ pc # "wait"
    BY DEF IInv, Phases
  <2>2. CASE HangUp \/ HandleKeeps \/ HandleDestroys
    <3>1. pc' = "dispatch"
      BY <2>2 DEF HangUp, HandleKeeps, HandleDestroys, Dispatching
    <3>2. running' = running \/ running' = FALSE
      BY <2>2, Zenon DEF HangUp, HandleKeeps, HandleDestroys
    <3> QED
      BY <3>1, <3>2
  <2>3. CASE AcceptNone \/ \E a \in Addr : AcceptConnection(a)
    BY <2>3 DEF AcceptNone, AcceptConnection, Dispatching
  <2>4. CASE BatchDone \/ CloseNext \/ CloseFreed \/ Exit
    BY <2>4 DEF BatchDone, CloseNext, CloseFreed, Exit
  <2>5. CASE (\E a \in Addr : Listen(a)) \/ ListenFails \/ ListenDone \/ EpollWait
    BY <2>1, <2>5 DEF Listen, ListenFails, ListenDone, EpollWait
  <2> QED
    BY <2>2, <2>3, <2>4, <2>5 DEF Next
<1> QED
  BY <1>1, Invariance, PTL DEF Spec, NoBatchAfterStop


-----------------------------------------------------------------------------
(* The list, when there is one connection at a time                        *)

(* With two connections, or a listening socket that hangs up, a node is    *)
(* released that has another in front of it, and the list loses that one.  *)
OneClient ==
  /\ IsFiniteSet(Addr)
  /\ MaxConnections <= 1
  /\ MayHangUp \subseteq {"connection"}

(* The nodes of the list in their order: the live ones, each once, linked  *)
(* by "next", and listening sockets behind the first.                      *)
Chain(c) ==
  /\ c \in Seq(Addr)
  /\ \A j, k \in 1 .. Len(c) : c[j] = c[k] => j = k
  /\ \A a \in Addr : a \in Live <=> \E k \in 1 .. Len(c) : c[k] = a
  /\ head = IF c = <<>> THEN NULL ELSE c[1]
  /\ \A k \in 1 .. Len(c) :
       /\ node[c[k]].next = IF k < Len(c) THEN c[k + 1] ELSE NULL
       /\ node[c[k]].prev = HeadSlot
       /\ k > 1 => node[c[k]].type = "listen"

(* Only a connection has hung up.                                          *)
ConnectionsHangUp ==
  \A i \in DOMAIN batch :
    batch[i].kind = "hangup" => node[batch[i].addr].type = "connection"

ListInv ==
  /\ pc # "undefined"
  /\ \E c \in Seq(Addr) : Chain(c)
  /\ pc = "listen" => Connections = {}
  /\ ConnectionsHangUp

LEMMA ChainParts ==
  ASSUME NEW c, Chain(c)
  PROVE  /\ c \in Seq(Addr) /\ Len(c) \in Nat /\ DOMAIN c = 1 .. Len(c)
         /\ \A k \in 1 .. Len(c) : c[k] \in Addr /\ c[k] \in Live
         /\ c = <<>> <=> Len(c) = 0
BY EmptySeq, LenProperties DEF Chain

LEMMA ZeroOrLeast ==
  ASSUME NEW T, T \subseteq Nat, T # {}
  PROVE  \E x \in T : x = 0 \/ x - 1 \in Nat \ T
<1>1. PICK x \in T : \A y \in T : ~(<<y, x>> \in OpToRel(<, Nat))
  BY NatLessThanWellFounded, WFMin
<1>2. \A y \in T : ~(y < x)
  BY <1>1 DEF OpToRel
<1>3. x \in Nat /\ (x = 0 \/ (x - 1 \in Nat /\ x - 1 < x))
  OBVIOUS
<1> QED
  BY <1>2, <1>3

(* Following "next" visits the chain and then stays at NULL.               *)
LEMMA WalkIs ==
  ASSUME IsFiniteSet(Addr), NEW c, Chain(c)
  PROVE  /\ DOMAIN Walk = 0 .. Cardinality(Addr)
         /\ \A i \in 0 .. Cardinality(Addr) :
              Walk[i] = IF i < Len(c) THEN c[i + 1] ELSE NULL
<1> DEFINE n == Cardinality(Addr)
           Step(s, i) == IF i = 0 THEN head
                         ELSE IF s[i - 1] = NULL THEN NULL ELSE node[s[i - 1]].next
           along == [i \in 0 .. n |-> IF i < Len(c) THEN c[i + 1] ELSE NULL]
<1>1. n \in Nat
  BY FS_CardinalityType
<1>2. Len(c) \in Nat /\ (c = <<>> <=> Len(c) = 0)
      /\ \A k \in 1 .. Len(c) : c[k] # NULL
  BY ChainParts, RegistryAssumption
<1>3. Walk = CHOOSE s : s = [i \in 0 .. n |-> Step(s, i)]
  BY DEF Walk
<1>4. along = [i \in 0 .. n |-> Step(along, i)]
  <2>1. ASSUME NEW i \in 0 .. n
        PROVE  along[i] = Step(along, i)
    <3>1. CASE i = 0
      BY <3>1, <1>1, <1>2 DEF Chain
    <3>2. CASE i > 0 /\ i - 1 < Len(c)
      <4>1. along[i - 1] = c[i] /\ i \in 1 .. Len(c)
        BY <3>2, <1>1, <1>2
      <4>2. Step(along, i) = node[c[i]].next
        BY <3>2, <4>1, <1>2
      <4> QED
        BY <4>1, <4>2 DEF Chain
    <3>3. CASE i > 0 /\ ~(i - 1 < Len(c))
      <4>1. along[i - 1] = NULL /\ along[i] = NULL
        BY <3>3, <1>1, <1>2
      <4> QED
        BY <3>3, <4>1
    <3> QED
      BY <3>1, <3>2, <3>3, <1>1
  <2> QED
    BY <2>1
<1>5. Walk = [i \in 0 .. n |-> Step(Walk, i)]
  <2> HIDE DEF along, Step
  <2> QED
    BY <1>3, <1>4
<1> DEFINE Wrong == {i \in 0 .. n : Walk[i] # along[i]}
<1>6. Wrong = {}
  <2> SUFFICES ASSUME Wrong # {} PROVE FALSE
    OBVIOUS
  <2>1. Wrong \subseteq Nat
    BY <1>1
  <2>2. PICK x \in Wrong : x = 0 \/ x - 1 \in Nat \ Wrong
    <3> HIDE DEF Wrong
    <3> QED
      BY <2>1, ZeroOrLeast
  <2>3. x \in 0 .. n /\ Walk[x] # along[x]
    BY <2>2
  <2>4. Walk[x] = Step(Walk, x) /\ along[x] = Step(along, x)
    <3> HIDE DEF along, Step
    <3> QED
      BY <2>3, <1>4, <1>5
  <2>5. CASE x = 0
    BY <2>3, <2>4, <2>5
  <2>6. CASE x # 0
    <3>1. x - 1 \in 0 .. n /\ x - 1 \notin Wrong
      BY <2>2, <2>3, <2>6, <1>1
    <3>2. Walk[x - 1] = along[x - 1]
      BY <3>1
    <3> HIDE DEF along
    <3> QED
      BY <2>3, <2>4, <2>6, <3>2
  <2> QED
    BY <2>5, <2>6
<1>7. DOMAIN Walk = 0 .. n
  <2> HIDE DEF Step
  <2> QED
    BY <1>5
<1> QED
  BY <1>6, <1>7

LEMMA ChainIsList ==
  ASSUME IsFiniteSet(Addr), NEW c, Chain(c)
  PROVE  Listed = Live /\ Walk[Cardinality(Addr)] = NULL
<1> DEFINE n == Cardinality(Addr)
<1>1. n \in Nat
  BY FS_CardinalityType
<1>2. /\ Len(c) \in Nat /\ \A k \in 1 .. Len(c) : c[k] \in Addr /\ c[k] # NULL
      /\ DOMAIN c = 1 .. Len(c)
  BY ChainParts, RegistryAssumption
<1>3. Len(c) <= n
  <2>1. c \in Injection(1 .. Len(c), Addr)
    BY <1>2, ChainParts DEF Chain, Injection, IsInjective
  <2>2. IsFiniteSet(1 .. Len(c)) /\ Cardinality(1 .. Len(c)) = Len(c)
    BY <1>2, FS_Interval
  <2> QED
    BY <2>1, <2>2, FS_Injection
<1>4. \A i \in 0 .. n : Walk[i] = IF i < Len(c) THEN c[i + 1] ELSE NULL
  BY WalkIs
<1>5. Walk[n] = NULL
  BY <1>1, <1>2, <1>3, <1>4
<1>6. DOMAIN Walk = 0 .. n
  BY WalkIs
<1>7. Listed = Live
  <2>1. ASSUME NEW a \in Live PROVE a \in Listed
    <3>1. PICK k \in 1 .. Len(c) : c[k] = a
      BY DEF Chain, Live
    <3>2. k - 1 \in 0 .. n /\ k - 1 < Len(c) /\ (k - 1) + 1 = k
      BY <1>1, <1>2, <1>3
    <3>3. Walk[k - 1] = a
      BY <1>4, <3>1, <3>2
    <3> QED
      BY <1>2, <1>6, <3>1, <3>2, <3>3 DEF Listed
  <2>2. ASSUME NEW a \in Listed PROVE a \in Live
    <3>1. PICK i \in 0 .. n : Walk[i] = a /\ a # NULL
      BY <1>6 DEF Listed
    <3>2. i + 1 \in 1 .. Len(c) /\ a = c[i + 1]
      BY <1>1, <1>2, <1>4, <3>1
    <3> QED
      BY <3>2, ChainParts
  <2> QED
    BY <2>1, <2>2
<1> QED
  BY <1>5, <1>7

LEMMA RegisterChain ==
  ASSUME TypeOK, NEW c, Chain(c), NEW a \in Addr, NEW type \in {"listen", "connection"},
         Register(a, type), \A k \in 1 .. Len(c) : node[c[k]].type = "listen"
  PROVE  Chain(<<a>> \o c)'
<1> DEFINE d == <<a>> \o c
<1>1. /\ c \in Seq(Addr) /\ Len(c) \in Nat
      /\ \A k \in 1 .. Len(c) : c[k] \in Addr /\ c[k] \in Live
      /\ c = <<>> <=> Len(c) = 0
  BY ChainParts
<1>2. /\ d \in Seq(Addr) /\ Len(d) = Len(c) + 1 /\ d # <<>>
      /\ d[1] = a
      /\ \A k \in 2 .. Len(d) : k - 1 \in 1 .. Len(c) /\ d[k] = c[k - 1]
  BY <1>1
<1>3. /\ a \notin Live /\ Live' = Live \union {a}
  BY RegisterEffect
<1> HIDE DEF d
<1>4. /\ head' = a
      /\ node'[a] = [live |-> TRUE, type |-> type, next |-> head, prev |-> HeadSlot]
      /\ \A b \in Addr \ {a} : node'[b] = node[b]
  BY DEF Register, TypeOK
<1>5. \A k \in 2 .. Len(d) : node'[d[k]] = node[d[k]] /\ d[k] # a
  BY <1>1, <1>2, <1>3, <1>4
<1>6. \A j, k \in 1 .. Len(d) : d[j] = d[k] => j = k
  <2>1. ASSUME NEW j \in 1 .. Len(d), NEW k \in 1 .. Len(d), d[j] = d[k]
        PROVE  j = k
    <3>1. CASE j = 1 \/ k = 1
      BY <2>1, <3>1, <1>1, <1>2, <1>5
    <3>2. CASE j # 1 /\ k # 1
      <4>1. j - 1 \in 1 .. Len(c) /\ k - 1 \in 1 .. Len(c) /\ c[j - 1] = c[k - 1]
        BY <2>1, <3>2, <1>1, <1>2
      <4>2. j - 1 = k - 1
        BY <4>1 DEF Chain
      <4> QED
        BY <4>2
    <3> QED
      BY <3>1, <3>2
  <2> QED
    BY <2>1
<1>7. \A b \in Addr : b \in Live' <=> \E k \in 1 .. Len(d) : d[k] = b
  <2>1. ASSUME NEW b \in Live' PROVE \E k \in 1 .. Len(d) : d[k] = b
    <3>1. CASE b = a
      BY <3>1, <1>1, <1>2
    <3>2. CASE b # a
      <4>1. b \in Live /\ b \in Addr
        BY <2>1, <3>2, <1>3 DEF Live
      <4>2. PICK k \in 1 .. Len(c) : c[k] = b
        BY <4>1 DEF Chain
      <4>3. k + 1 \in 2 .. Len(d) /\ (k + 1) - 1 = k
        BY <1>1, <1>2
      <4>4. d[k + 1] = b
        BY <4>2, <4>3, <1>2
      <4> QED
        BY <1>1, <4>3, <4>4
    <3> QED
      BY <3>1, <3>2
  <2>2. ASSUME NEW k \in 1 .. Len(d) PROVE d[k] \in Live'
    BY <1>1, <1>2, <1>3
  <2> QED
    BY <2>1, <2>2
<1>8. ASSUME NEW k \in 1 .. Len(d)
      PROVE  /\ node'[d[k]].next = IF k < Len(d) THEN d[k + 1] ELSE NULL
             /\ node'[d[k]].prev = HeadSlot
             /\ k > 1 => node'[d[k]].type = "listen"
  <2>1. CASE k = 1
    <3>1. head = IF 1 < Len(d) THEN d[2] ELSE NULL
      <4>1. CASE c = <<>>
        BY <4>1, <1>1, <1>2 DEF Chain
      <4>2. CASE c # <<>>
        <5>1. 2 \in 2 .. Len(d) /\ d[2] = c[1] /\ 1 < Len(d)
          BY <4>2, <1>1, <1>2
        <5> QED
          BY <4>2, <5>1 DEF Chain
      <4> QED
        BY <4>1, <4>2
    <3> QED
      BY <2>1, <3>1, <1>2, <1>4
  <2>2. CASE k # 1
    <3>1. k \in 2 .. Len(d) /\ k - 1 \in 1 .. Len(c) /\ d[k] = c[k - 1]
      BY <2>2, <1>1, <1>2
    <3>2. node'[d[k]] = node[c[k - 1]] /\ node[c[k - 1]].type = "listen"
      BY <3>1, <1>5
    <3>3. node[c[k - 1]].next = IF k < Len(d) THEN d[k + 1] ELSE NULL
      <4>1. CASE k < Len(d)
        <5>1. k + 1 \in 2 .. Len(d) /\ (k + 1) - 1 = k /\ k - 1 < Len(c)
          BY <4>1, <3>1, <1>1, <1>2
        <5>2. d[k + 1] = c[k] /\ (k - 1) + 1 = k
          BY <5>1, <1>2
        <5> QED
          BY <3>1, <4>1, <5>1, <5>2 DEF Chain
      <4>2. CASE ~(k < Len(d))
        BY <3>1, <4>2, <1>1, <1>2 DEF Chain
      <4> QED
        BY <4>1, <4>2
    <3> QED
      BY <3>1, <3>2, <3>3 DEF Chain
  <2> QED
    BY <2>1, <2>2
<1> QED
  BY <1>2, <1>4, <1>6, <1>7, <1>8 DEF Chain, d

LEMMA ReleaseChain ==
  ASSUME TypeOK, NEW c, Chain(c), c # <<>>, Release(c[1])
  PROVE  Chain(Tail(c))'
<1> DEFINE d == Tail(c)
           a == c[1]
<1>1. /\ c \in Seq(Addr) /\ Len(c) \in Nat /\ Len(c) >= 1
      /\ \A k \in 1 .. Len(c) : c[k] \in Addr /\ c[k] \in Live
      /\ 1 \in 1 .. Len(c) /\ a \in Addr
  BY ChainParts
<1>2. /\ d \in Seq(Addr) /\ Len(d) = Len(c) - 1
      /\ d = <<>> <=> Len(d) = 0
      /\ \A k \in 1 .. Len(d) : k + 1 \in 2 .. Len(c) /\ d[k] = c[k + 1]
  <2>1. /\ d \in Seq(Addr) /\ Len(d) = Len(c) - 1
        /\ \A k \in 1 .. Len(d) : d[k] = c[k + 1]
    BY <1>1, HeadTailProperties
  <2> QED
    BY <2>1, <1>1, EmptySeq
<1>3. /\ node[a].prev = HeadSlot
      /\ node[a].next = IF 1 < Len(c) THEN c[2] ELSE NULL
  BY <1>1 DEF Chain
<1>4. Live' = Live \ {a}
  BY <1>1, ReleaseEffect
<1> HIDE DEF a, d
<1>5. head' = node[a].next /\ node' = [node EXCEPT ![a].live = FALSE]
  BY <1>3 DEF Release, a
<1>6. /\ \A b \in Addr \ {a} : node'[b] = node[b]
  BY <1>5 DEF TypeOK
<1>7. \A k \in 1 .. Len(d) : d[k] # a /\ d[k] \in Addr /\ node'[d[k]] = node[c[k + 1]]
  <2>1. ASSUME NEW k \in 1 .. Len(d) PROVE d[k] # a /\ d[k] \in Addr
    <3>1. k + 1 \in 1 .. Len(c) /\ k + 1 # 1 /\ d[k] = c[k + 1]
      BY <1>1, <1>2
    <3> QED
      BY <3>1, <1>1 DEF Chain, a
  <2> QED
    BY <2>1, <1>2, <1>6
<1>8. \A j, k \in 1 .. Len(d) : d[j] = d[k] => j = k
  <2>1. ASSUME NEW j \in 1 .. Len(d), NEW k \in 1 .. Len(d), d[j] = d[k]
        PROVE  j = k
    <3>1. j + 1 \in 1 .. Len(c) /\ k + 1 \in 1 .. Len(c) /\ c[j + 1] = c[k + 1]
      BY <2>1, <1>1, <1>2
    <3>2. j + 1 = k + 1
      BY <3>1 DEF Chain
    <3> QED
      BY <3>2
  <2> QED
    BY <2>1
<1>9. \A b \in Addr : b \in Live' <=> \E k \in 1 .. Len(d) : d[k] = b
  <2>1. ASSUME NEW b \in Live' PROVE \E k \in 1 .. Len(d) : d[k] = b
    <3>1. b \in Live /\ b # a /\ b \in Addr
      BY <1>4 DEF Live
    <3>2. PICK k \in 1 .. Len(c) : c[k] = b
      BY <3>1 DEF Chain
    <3>3. k - 1 \in 1 .. Len(d) /\ (k - 1) + 1 = k
      BY <1>1, <1>2, <3>1, <3>2 DEF a
    <3> QED
      BY <1>2, <3>2, <3>3
  <2>2. ASSUME NEW k \in 1 .. Len(d) PROVE d[k] \in Live'
    <3>1. k + 1 \in 1 .. Len(c)
      BY <1>1, <1>2
    <3> QED
      BY <3>1, <1>1, <1>2, <1>4, <1>7
  <2> QED
    BY <2>1, <2>2
<1>10. head' = IF d = <<>> THEN NULL ELSE d[1]
  <2>1. CASE Len(c) = 1
    BY <2>1, <1>2, <1>3, <1>5
  <2>2. CASE Len(c) # 1
    <3>1. 1 \in 1 .. Len(d) /\ d # <<>> /\ 1 < Len(c)
      BY <2>2, <1>1, <1>2
    <3>2. d[1] = c[2]
      BY <3>1, <1>2
    <3> QED
      BY <3>1, <3>2, <1>3, <1>5
  <2> QED
    BY <2>1, <2>2
<1>11. ASSUME NEW k \in 1 .. Len(d)
       PROVE  /\ node'[d[k]].next = IF k < Len(d) THEN d[k + 1] ELSE NULL
              /\ node'[d[k]].prev = HeadSlot
              /\ k > 1 => node'[d[k]].type = "listen"
  <2>1. k + 1 \in 1 .. Len(c) /\ k + 1 > 1 /\ d[k] = c[k + 1]
    BY <1>1, <1>2
  <2>2. node[c[k + 1]].next = IF k < Len(d) THEN d[k + 1] ELSE NULL
    <3>1. CASE k < Len(d)
      <4>1. k + 1 \in 1 .. Len(d) /\ k + 1 < Len(c)
        BY <3>1, <1>1, <1>2
      <4>2. d[k + 1] = c[(k + 1) + 1]
        BY <4>1, <1>2
      <4> QED
        BY <2>1, <3>1, <4>1, <4>2 DEF Chain
    <3>2. CASE ~(k < Len(d))
      <4>1. ~(k + 1 < Len(c))
        BY <3>2, <1>1, <1>2
      <4> QED
        BY <2>1, <3>2, <4>1 DEF Chain
    <3> QED
      BY <3>1, <3>2
  <2> QED
    BY <2>1, <2>2, <1>7 DEF Chain
<1> QED
  BY <1>2, <1>8, <1>9, <1>10, <1>11 DEF Chain, d

LEMMA NoConnections ==
  ASSUME OneClient, TypeOK, Cardinality(Connections) < MaxConnections
  PROVE  Connections = {}
<1>1. IsFiniteSet(Connections)
  <2>1. Connections \subseteq Addr /\ IsFiniteSet(Addr)
    BY DEF Connections, Live, OneClient
  <2> QED
    BY <2>1, FS_Subset
<1>2. Cardinality(Connections) \in Nat
  BY <1>1, FS_CardinalityType
<1>3. Cardinality(Connections) = 0
  BY <1>2, EventLoopAssumption DEF OneClient
<1> QED
  BY <1>1, <1>3, FS_EmptySet

LEMMA AllListen ==
  ASSUME TypeOK, NEW c, Chain(c), Connections = {}
  PROVE  \A k \in 1 .. Len(c) : node[c[k]].type = "listen"
BY ChainParts DEF Connections, TypeOK, Node

LEMMA ConnectionIsFirst ==
  ASSUME NEW c, Chain(c), NEW a \in Addr, a \in Live, node[a].type # "listen"
  PROVE  c # <<>> /\ a = c[1]
<1>1. PICK k \in 1 .. Len(c) : c[k] = a
  BY DEF Chain
<1>2. k \in Nat /\ k >= 1 /\ ~(k > 1) /\ Len(c) \in Nat /\ (c = <<>> <=> Len(c) = 0)
  BY <1>1, ChainParts DEF Chain
<1> QED
  BY <1>1, <1>2

LEMMA InitList == Init => ListInv
<1> SUFFICES ASSUME Init PROVE ListInv
  OBVIOUS
<1>1. Live = {} /\ Connections = {}
  BY DEF Init, RegistryInit, Live, Connections
<1>2. <<>> \in Seq(Addr) /\ Len(<<>>) = 0
  BY EmptySeq
<1>3. Chain(<<>>)
  BY <1>1, <1>2 DEF Init, RegistryInit, Chain
<1>4. batch = <<>> /\ DOMAIN batch = {}
  BY EmptySeq, LenProperties DEF Init
<1> QED
  BY <1>1, <1>2, <1>3, <1>4 DEF Init, ListInv, ConnectionsHangUp

(* A step that leaves the heap alone.                                      *)
LEMMA SameHeap ==
  ASSUME UNCHANGED <<head, node>>
  PROVE  /\ Live' = Live /\ Connections' = Connections
         /\ \A c : Chain(c) => Chain(c)'
BY DEF Live, Connections, Chain

LEMMA ListenList ==
  ASSUME OneClient, IInv, ListInv, (\E a \in Addr : Listen(a)) \/ ListenFails \/ ListenDone
  PROVE  ListInv'
<1>1. pc = "listen" /\ batch' = batch /\ DOMAIN batch' = {} /\ pc' \in {"listen", "wait"}
  <2>1. pc = "listen" /\ batch' = batch /\ pc' \in {"listen", "wait"}
    BY DEF Listen, ListenFails, ListenDone
  <2>2. DOMAIN batch = {}
    BY <2>1, EmptySeq, LenProperties DEF IInv, Phases
  <2> QED
    BY <2>1, <2>2
<1>2. ConnectionsHangUp' /\ pc' # "undefined"
  BY <1>1 DEF ConnectionsHangUp
<1>3. PICK c \in Seq(Addr) : Chain(c)
  BY DEF ListInv
<1>4. Connections = {} /\ TypeOK
  BY <1>1 DEF ListInv, IInv
<1>5. CASE \E a \in Addr : Listen(a)
  <2>1. PICK a \in Addr : Register(a, "listen")
    BY <1>5 DEF Listen
  <2>2. Chain(<<a>> \o c)'
    BY <2>1, <1>3, <1>4, AllListen, RegisterChain
  <2>3. <<a>> \o c \in Seq(Addr)
    BY <1>3
  <2>4. Connections' = {}
    <3>1. Live' = Live \union {a}
      BY <2>1, <1>4, RegisterEffect
    <3>2. node'[a].type = "listen" /\ \A b \in Addr \ {a} : node'[b] = node[b]
      BY <2>1, <1>4 DEF Register, TypeOK
    <3> QED
      BY <3>1, <3>2, <1>4 DEF Connections, Live
  <2> QED
    BY <2>2, <2>3, <2>4, <1>2 DEF ListInv
<1>6. CASE ListenFails \/ ListenDone
  <2>1. UNCHANGED <<head, node>>
    BY <1>6 DEF ListenFails, ListenDone
  <2> QED
    BY <2>1, <1>2, <1>3, <1>4, SameHeap DEF ListInv
<1> QED
  BY <1>5, <1>6

LEMMA EpollWaitList ==
  ASSUME OneClient, IInv, ListInv, EpollWait
  PROVE  ListInv'
<1>1. PICK n \in 1 .. MaxEvents : \E events \in [1 .. n -> Event] :
        /\ \A i \in 1 .. n : /\ events[i].addr \in epoll
                             /\ events[i].kind = "hangup" =>
                                  node[events[i].addr].type \in MayHangUp
        /\ batch' = events
  BY DEF EpollWait
<1>2. DOMAIN batch' = 1 .. n
  BY <1>1
<1>3. pc' = "dispatch" /\ UNCHANGED <<head, node>>
  BY DEF EpollWait
<1>4. ConnectionsHangUp'
  BY <1>1, <1>2, <1>3 DEF ConnectionsHangUp, OneClient
<1> QED
  BY <1>3, <1>4, SameHeap DEF ListInv

(* What is left of the batch is about nodes the step does not touch.       *)
LEMMA RestHangsUp ==
  ASSUME IInv, ListInv, batch # <<>>, batch' = Tail(batch),
         \A b \in Live : node'[b].type = node[b].type
  PROVE  ConnectionsHangUp'
<1>1. batch \in Seq(Event) /\ Len(batch) \in Nat \ {0} /\ DOMAIN batch = 1 .. Len(batch)
  BY EmptySeq, LenProperties DEF IInv, TypeOK
<1>2. /\ Len(Tail(batch)) = Len(batch) - 1 /\ Tail(batch) \in Seq(Event)
      /\ \A i \in 1 .. Len(Tail(batch)) : Tail(batch)[i] = batch[i + 1]
  BY <1>1, HeadTailProperties
<1>3. DOMAIN Tail(batch) = 1 .. Len(batch) - 1
  BY <1>2, LenProperties
<1>4. \A i \in DOMAIN Tail(batch) : Tail(batch)[i].addr \in Live
  BY RestOfBatch
<1>5. \A i \in DOMAIN Tail(batch) : i + 1 \in DOMAIN batch /\ Tail(batch)[i] = batch[i + 1]
  BY <1>1, <1>2, <1>3
<1> QED
  BY <1>4, <1>5 DEF ListInv, ConnectionsHangUp

(* Every node released is the first one of the list.                       *)
LEMMA DestroyList ==
  ASSUME OneClient, IInv, ListInv, HangUp \/ HandleDestroys
  PROVE  ListInv'
<1> DEFINE a == Current.addr
<1>1. /\ pc = "dispatch" /\ pc' = pc /\ batch # <<>> /\ Release(a)
      /\ batch' = Tail(batch) \/ batch' = <<>>
  BY DEF HangUp, HandleDestroys, Dispatching, CloseAndRelease
<1>2. a \in Addr /\ a \in Live /\ TypeOK
  BY <1>1, RestOfBatch DEF Event, IInv
<1>3. node[a].type # "listen"
  <2>1. CASE HangUp
    <3>1. batch \in Seq(Event) /\ Len(batch) \in Nat \ {0} /\ DOMAIN batch = 1 .. Len(batch)
      BY <1>1, EmptySeq, LenProperties DEF IInv, TypeOK
    <3>2. 1 \in DOMAIN batch /\ batch[1] = Current
      BY <3>1 DEF Current
    <3> QED
      BY <2>1, <3>2 DEF HangUp, Dispatching, ListInv, ConnectionsHangUp
  <2>2. CASE HandleDestroys
    BY <2>2 DEF HandleDestroys, Listening
  <2> QED
    BY <2>1, <2>2
<1> HIDE DEF a
<1>4. PICK c \in Seq(Addr) : Chain(c)
  BY DEF ListInv
<1>5. c # <<>> /\ a = c[1]
  BY <1>2, <1>3, <1>4, ConnectionIsFirst
<1>6. Chain(Tail(c))' /\ Tail(c) \in Seq(Addr)
  BY <1>1, <1>2, <1>4, <1>5, ReleaseChain
<1>7. ConnectionsHangUp'
  <2>1. \A b \in Live : node'[b].type = node[b].type
    <3>1. node[a].prev = HeadSlot
      BY <1>4, <1>5, ChainParts DEF Chain
    <3> QED
      BY <3>1, <1>1, <1>2 DEF Release, TypeOK, Live, Node
  <2>2. CASE batch' = Tail(batch)
    BY <1>1, <2>1, <2>2, RestHangsUp
  <2>3. CASE batch' = <<>>
    <3>1. DOMAIN batch' = {}
      BY <2>3, EmptySeq, LenProperties
    <3> QED
      BY <3>1 DEF ConnectionsHangUp
  <2> QED
    BY <1>1, <2>2, <2>3
<1> QED
  BY <1>1, <1>6, <1>7 DEF ListInv

LEMMA AcceptList ==
  ASSUME OneClient, IInv, ListInv, NEW a \in Addr, AcceptConnection(a)
  PROVE  ListInv'
<1>1. /\ pc = "dispatch" /\ pc' = pc /\ batch # <<>> /\ batch' = Tail(batch)
      /\ Register(a, "connection") /\ TypeOK
      /\ Cardinality(Connections) < MaxConnections
  BY DEF AcceptConnection, Dispatching, IInv
<1>2. Connections = {}
  BY <1>1, NoConnections
<1>3. PICK c \in Seq(Addr) : Chain(c)
  BY DEF ListInv
<1>4. Chain(<<a>> \o c)' /\ <<a>> \o c \in Seq(Addr)
  BY <1>1, <1>2, <1>3, AllListen, RegisterChain
<1>5. \A b \in Live : node'[b].type = node[b].type
  <2>1. a \notin Live
    BY <1>1, RegisterEffect
  <2> QED
    BY <2>1, <1>1 DEF Register, TypeOK, Live
<1>6. ConnectionsHangUp'
  BY <1>1, <1>5, RestHangsUp
<1> QED
  BY <1>1, <1>4, <1>6 DEF ListInv

LEMMA KeepList ==
  ASSUME OneClient, IInv, ListInv, AcceptNone \/ HandleKeeps \/ BatchDone
  PROVE  ListInv'
<1>1. /\ UNCHANGED <<head, node>> /\ pc = "dispatch"
      /\ pc' \in {"dispatch", "wait", "close"}
  BY DEF AcceptNone, HandleKeeps, BatchDone, Dispatching
<1>2. ConnectionsHangUp'
  <2>1. CASE AcceptNone \/ HandleKeeps
    <3>1. batch # <<>> /\ batch' = Tail(batch)
      BY <2>1 DEF AcceptNone, HandleKeeps, Dispatching
    <3> QED
      BY <3>1, <1>1, RestHangsUp
  <2>2. CASE BatchDone
    BY <2>2 DEF BatchDone, ListInv, ConnectionsHangUp
  <2> QED
    BY <2>1, <2>2
<1> QED
  BY <1>1, <1>2, SameHeap DEF ListInv

LEMMA CloseList ==
  ASSUME OneClient, IInv, ListInv, CloseNext \/ CloseFreed \/ Exit
  PROVE  ListInv'
<1>1. PICK c \in Seq(Addr) : Chain(c)
  BY DEF ListInv
<1>2. c # <<>> => c[1] \in Addr /\ c[1] \in Live
  BY <1>1, ChainParts
<1>3. head = IF c = <<>> THEN NULL ELSE c[1]
  BY <1>1 DEF Chain
<1>4. ~CloseFreed
  BY <1>2, <1>3 DEF CloseFreed
<1>5. pc = "close" /\ DOMAIN batch' = {}
  <2>1. pc = "close" /\ batch' = batch
    BY DEF CloseNext, CloseFreed, Exit
  <2> QED
    BY <2>1, EmptySeq, LenProperties DEF IInv, Phases
<1>6. ConnectionsHangUp'
  BY <1>5 DEF ConnectionsHangUp
<1>7. CASE CloseNext
  <2>1. head \in Live /\ Release(head) /\ pc' = pc
    BY <1>7 DEF CloseNext, CloseAndRelease
  <2>2. c # <<>> /\ head = c[1]
    BY <2>1, <1>3, RegistryAssumption DEF Live
  <2>3. Chain(Tail(c))' /\ Tail(c) \in Seq(Addr)
    BY <2>1, <2>2, <1>1, ReleaseChain DEF IInv
  <2> QED
    BY <2>1, <2>3, <1>5, <1>6 DEF ListInv
<1>8. CASE Exit
  <2>1. UNCHANGED <<head, node>> /\ pc' = "exited"
    BY <1>8 DEF Exit
  <2> QED
    BY <2>1, <1>1, <1>6, SameHeap DEF ListInv
<1> QED
  BY <1>4, <1>7, <1>8

LEMMA StepList ==
  ASSUME OneClient, IInv, ListInv, [Next]_vars
  PROVE  ListInv'
<1>1. CASE UNCHANGED vars
  <2>1. UNCHANGED <<head, node, pc, batch>>
    BY <1>1 DEF vars
  <2>2. ConnectionsHangUp'
    BY <2>1 DEF ListInv, ConnectionsHangUp
  <2> QED
    BY <2>1, <2>2, SameHeap DEF ListInv
<1>2. CASE Next
  BY <1>2, ListenList, EpollWaitList, DestroyList, AcceptList, KeepList, CloseList
     DEF Next
<1> QED
  BY <1>1, <1>2

(* With one connection at a time, and listening sockets that never hang    *)
(* up, every open descriptor is on the list main walks and nothing else    *)
(* is, although destroy_file_information leaves "prev" of the node behind  *)
(* as it was.                                                              *)
THEOREM ListIsHeap ==
  ASSUME OneClient
  PROVE  Spec => []ListMatchesHeap
<1>1. Init => ListInv
  BY InitList
<1>2. IInv /\ ListInv /\ [Next]_vars => ListInv'
  BY StepList
<1>3. ListInv => ListMatchesHeap
  <2> SUFFICES ASSUME ListInv PROVE ListMatchesHeap
    OBVIOUS
  <2>1. PICK c \in Seq(Addr) : Chain(c)
    BY DEF ListInv
  <2> QED
    BY <2>1, ChainIsList DEF ListMatchesHeap, OneClient
<1> QED
  BY <1>1, <1>2, <1>3, Invariance, PTL DEF Spec

(* Then main keeps the pool of descriptors it is meant to keep: none is    *)
(* opened once it is closing, and it exits only when all are closed.       *)
THEOREM ImplementsPoolSafety ==
  ASSUME OneClient
  PROVE  Spec => Pool!Spec
<1>1. Init => Pool!Init
  BY DEF Init, RegistryInit, Live, Pool!Init
<1>2. IInv /\ ListInv /\ [Next]_vars => [Pool!Next]_Pool!vars
  <2> SUFFICES ASSUME IInv, ListInv, [Next]_vars
               PROVE  Pool!Next \/ UNCHANGED Pool!vars
    OBVIOUS
  <2> USE DEF Pool!Next, Pool!vars
  <2>1. CASE \E a \in Addr : Listen(a) \/ AcceptConnection(a)
    <3>1. PICK a \in Addr : Listen(a) \/ AcceptConnection(a)
      BY <2>1
    <3>2. /\ pc \in {"listen", "dispatch"} /\ pc' = pc
          /\ \E type \in {"listen", "connection"} : Register(a, type)
      BY <3>1 DEF Listen, AcceptConnection, Dispatching
    <3>3. a \notin Live /\ Live' = Live \union {a}
      BY <3>2, RegisterEffect DEF IInv
    <3>4. Pool!Open(a)
      BY <3>2, <3>3 DEF Pool!Open
    <3> QED
      BY <3>4
  <2>2. CASE ListenFails \/ ListenDone \/ EpollWait \/ AcceptNone \/ HandleKeeps
    <3>1. /\ UNCHANGED <<head, node>>
          /\ pc \in {"listen", "wait", "dispatch"} /\ pc' \in {"listen", "wait", "dispatch"}
      BY <2>2 DEF ListenFails, ListenDone, EpollWait, AcceptNone, HandleKeeps, Dispatching
    <3> QED
      BY <3>1, SameHeap
  <2>3. CASE HangUp \/ HandleDestroys
    <3>1. /\ pc = "dispatch" /\ pc' = pc /\ batch # <<>> /\ Release(Current.addr)
      BY <2>3 DEF HangUp, HandleDestroys, Dispatching, CloseAndRelease
    <3>2. Current.addr \in Addr /\ Current.addr \in Live
      BY <3>1, RestOfBatch DEF Event
    <3>3. Live' = Live \ {Current.addr}
      BY <3>1, <3>2, ReleaseEffect DEF IInv
    <3>4. Pool!Close(Current.addr)
      BY <3>1, <3>2, <3>3 DEF Pool!Close
    <3> QED
      BY <3>2, <3>4
  <2>4. CASE BatchDone
    <3>1. Live' = Live /\ pc = "dispatch" /\ pc' \in {"wait", "close"}
      BY <2>4 DEF BatchDone, Live
    <3>2. CASE pc' = "wait"
      BY <3>1, <3>2
    <3>3. CASE pc' = "close"
      BY <3>1, <3>3 DEF Pool!Stop
    <3> QED
      BY <3>1, <3>2, <3>3
  <2>5. PICK c \in Seq(Addr) : Chain(c)
    BY DEF ListInv
  <2>6. CASE CloseNext
    <3>1. pc = "close" /\ pc' = pc /\ head \in Live /\ head \in Addr /\ Release(head)
      BY <2>6 DEF CloseNext, CloseAndRelease, Live
    <3>2. Live' = Live \ {head}
      BY <3>1, ReleaseEffect DEF IInv
    <3>3. Pool!Close(head)
      BY <3>1, <3>2 DEF Pool!Close
    <3> QED
      BY <3>1, <3>3
  <2>7. CASE CloseFreed
    BY <2>5, <2>7, ChainParts DEF CloseFreed, Chain
  <2>8. CASE Exit
    <3>1. pc = "close" /\ pc' = "exited" /\ head = NULL /\ Live' = Live
      BY <2>8 DEF Exit, Live
    <3>2. c = <<>> /\ Len(c) = 0
      BY <3>1, <2>5, ChainParts, RegistryAssumption DEF Chain
    <3>3. Live = {}
      BY <2>5, <3>2 DEF Chain, Live
    <3>4. Pool!Exit
      BY <3>1, <3>3 DEF Pool!Exit
    <3> QED
      BY <3>4
  <2>9. CASE UNCHANGED vars
    BY <2>9 DEF vars, Live
  <2> QED
    BY <2>1, <2>2, <2>3, <2>4, <2>6, <2>7, <2>8, <2>9 DEF Next
<1>3. Init => ListInv
  BY InitList
<1>4. IInv /\ ListInv /\ [Next]_vars => ListInv'
  BY StepList
<1> QED
  BY <1>1, <1>2, <1>3, <1>4, Invariance, PTL DEF Spec, Pool!Spec
=============================================================================
