----------------------------- MODULE EventLoop ------------------------------
(***************************************************************************)
(* main in server.c: the listening sockets are opened, then batches of     *)
(* epoll events are collected and dispatched one by one until the server   *)
(* is told to stop, and then every descriptor on the list is closed.       *)
(*                                                                         *)
(* What handle_connection does to its own connection is the subject of     *)
(* Connection; here it keeps the connection or destroys it, and may carry  *)
(* the call that stops the server.                                         *)
(***************************************************************************)
EXTENDS Registry, Sequences

CONSTANTS
  MaxEvents,       \* events fetched by one epoll_wait (128)
  Endpoints,       \* addresses getaddrinfo returns for the two ports
  MaxConnections,  \* bound: connections open at the same time
  MayHangUp        \* the kinds of descriptor epoll reports errors for

ASSUME EventLoopAssumption ==
  /\ MaxEvents \in Nat \ {0}
  /\ Endpoints \in Nat
  /\ MaxConnections \in Nat
  /\ MayHangUp \subseteq {"listen", "connection"}

VARIABLES
  pc,        \* where the thread is
  unbound,   \* addresses still to be listened to
  epoll,     \* descriptors in the epoll set, by their data.ptr
  batch,     \* events collected and not yet dispatched
  fresh,     \* history: nodes registered since the batch was collected
  running    \* *get_running()

vars == <<head, node, pc, unbound, epoll, batch, fresh, running>>

(* "hangup" stands for EPOLLERR, EPOLLHUP and EPOLLRDHUP.                  *)
Event == [addr : Addr, kind : {"hangup", "ready"}]

Init ==
  /\ RegistryInit
  /\ pc = "listen"
  /\ unbound = Endpoints
  /\ epoll = {}
  /\ batch = <<>>
  /\ fresh = {}
  /\ running = TRUE

-----------------------------------------------------------------------------
(* Start: listen_addresses, listen_address                                 *)

Listen(a) ==
  /\ pc = "listen" /\ unbound > 0
  /\ Register(a, "listen")
  /\ epoll' = epoll \union {a}
  /\ unbound' = unbound - 1
  /\ UNCHANGED <<pc, batch, fresh, running>>

(* socket, bind or listen fails: the address is logged and skipped.        *)
ListenFails ==
  /\ pc = "listen" /\ unbound > 0
  /\ unbound' = unbound - 1
  /\ UNCHANGED <<head, node, pc, epoll, batch, fresh, running>>

ListenDone ==
  /\ pc = "listen" /\ unbound = 0
  /\ pc' = "wait"
  /\ UNCHANGED <<head, node, unbound, epoll, batch, fresh, running>>

-----------------------------------------------------------------------------
(* The loop                                                                *)

(* epoll_wait reports each ready descriptor once, in any order.            *)
EpollWait ==
  /\ pc = "wait"
  /\ \E n \in 1 .. MaxEvents : \E events \in [1 .. n -> Event] :
       /\ \A i \in 1 .. n : /\ events[i].addr \in epoll
                            /\ events[i].kind = "hangup" =>
                                 node[events[i].addr].type \in MayHangUp
       /\ \A i, j \in 1 .. n : events[i].addr = events[j].addr => i = j
       /\ batch' = events
  /\ fresh' = {}
  /\ pc' = "dispatch"
  /\ UNCHANGED <<head, node, unbound, epoll, running>>

Current == Head(batch)
Dispatching(kind) ==
  pc = "dispatch" /\ batch # <<>> /\ Current.kind = kind

(* Mutant of CloseAndRelease: the descriptor is not closed.                *)
ReleaseOnly(a) == epoll' = epoll /\ Release(a)

(* close takes the descriptor out of the epoll set.                        *)
CloseAndRelease(a) ==
  /\ epoll' = epoll \ {a}
  /\ Release(a)

(* Mutant of HangUp: without "continue" the event is dispatched as well.   *)
HangUpFallsThrough ==
  /\ Dispatching("hangup")
  /\ CloseAndRelease(Current.addr)
  /\ IF head' = NULL
       THEN running' = FALSE /\ batch' = <<>>
       ELSE running' = running /\ batch' = [batch EXCEPT ![1].kind = "ready"]
  /\ UNCHANGED <<pc, unbound, fresh>>

(* The descriptor is freed; an empty list ends the server at once.         *)
HangUp ==
  /\ Dispatching("hangup")
  /\ CloseAndRelease(Current.addr)
  /\ IF head' = NULL
       THEN running' = FALSE /\ batch' = <<>>
       ELSE running' = running /\ batch' = Tail(batch)
  /\ UNCHANGED <<pc, unbound, fresh>>

Listening(a) == node[a].type = "listen"

(* accept_connection returns without a connection: accept failed, or the   *)
(* local address is not one of the two ports and the socket is closed.     *)
AcceptNone ==
  /\ Dispatching("ready") /\ Listening(Current.addr)
  /\ batch' = Tail(batch)
  /\ UNCHANGED <<head, node, pc, unbound, epoll, fresh, running>>

AcceptConnection(a) ==
  /\ Dispatching("ready") /\ Listening(Current.addr)
  /\ Cardinality(Connections) < MaxConnections
  /\ Register(a, "connection")
  /\ epoll' = epoll \union {a}
  /\ fresh' = fresh \union {a}
  /\ batch' = Tail(batch)
  /\ UNCHANGED <<pc, unbound, running>>

(* Mutant of HandleKeeps: every request says anew whether to run.          *)
HandleKeepsResets ==
  /\ Dispatching("ready") /\ ~Listening(Current.addr)
  /\ running' \in BOOLEAN
  /\ batch' = Tail(batch)
  /\ UNCHANGED <<head, node, pc, unbound, epoll, fresh>>

(* handle_connection keeps the connection; if the request was the shutdown *)
(* call, the loop ends after this batch.                                   *)
HandleKeeps ==
  /\ Dispatching("ready") /\ ~Listening(Current.addr)
  /\ running' \in {running, FALSE}
  /\ batch' = Tail(batch)
  /\ UNCHANGED <<head, node, pc, unbound, epoll, fresh>>

(* handle_connection destroys the connection: end of stream, an error of   *)
(* recv or send, no memory.  The list is not looked at.                    *)
HandleDestroys ==
  /\ Dispatching("ready") /\ ~Listening(Current.addr)
  /\ CloseAndRelease(Current.addr)
  /\ running' \in {running, FALSE}
  /\ batch' = Tail(batch)
  /\ UNCHANGED <<pc, unbound, fresh>>

(* Mutant of BatchDone: the loop does not look at running.                 *)
BatchDoneForEver ==
  /\ pc = "dispatch" /\ batch = <<>>
  /\ pc' = "wait"
  /\ UNCHANGED <<head, node, unbound, epoll, batch, fresh, running>>

BatchDone ==
  /\ pc = "dispatch" /\ batch = <<>>
  /\ pc' = IF running THEN "wait" ELSE "close"
  /\ UNCHANGED <<head, node, unbound, epoll, batch, fresh, running>>

-----------------------------------------------------------------------------
(* The end: close_all_file_descriptors                                     *)

(* Mutant of CloseNext: only the head is closed.                           *)
CloseFirst ==
  /\ pc = "close" /\ head \in Live
  /\ CloseAndRelease(head)
  /\ pc' = "exited"
  /\ UNCHANGED <<unbound, batch, fresh, running>>

CloseNext ==
  /\ pc = "close" /\ head \in Live
  /\ CloseAndRelease(head)
  /\ UNCHANGED <<pc, unbound, batch, fresh, running>>

(* The head points to a freed node: what follows is undefined.             *)
CloseFreed ==
  /\ pc = "close" /\ head # NULL /\ head \notin Live
  /\ pc' = "undefined"
  /\ UNCHANGED <<head, node, unbound, epoll, batch, fresh, running>>

Exit ==
  /\ pc = "close" /\ head = NULL
  /\ pc' = "exited"
  /\ UNCHANGED <<head, node, unbound, epoll, batch, fresh, running>>

-----------------------------------------------------------------------------

Next ==
  \/ \E a \in Addr : Listen(a) \/ AcceptConnection(a)
  \/ ListenFails \/ ListenDone
  \/ EpollWait \/ HangUp \/ AcceptNone \/ HandleKeeps \/ HandleDestroys
  \/ BatchDone
  \/ CloseNext \/ CloseFreed \/ Exit

Spec == Init /\ [][Next]_vars

(* Everything but the wait for events goes on by itself.                   *)
Fairness == WF_vars(Next /\ pc # "wait")
FairSpec == Spec /\ Fairness

-----------------------------------------------------------------------------
(* Properties                                                              *)

(* The variables keep their types; "undefined" is the only state in which  *)
(* the program has lost its meaning.                                       *)
TypeOK ==
  /\ head \in Addr \union {NULL}
  /\ node \in [Addr -> Node]
  /\ pc \in {"listen", "wait", "dispatch", "close", "exited", "undefined"}
  /\ unbound \in Nat
  /\ epoll \subseteq Addr /\ fresh \subseteq Addr
  /\ batch \in Seq(Event)
  /\ running \in BOOLEAN

(* No event waiting in the batch points to a node that has been freed, or  *)
(* freed and allocated again, by the dispatch of an earlier event of the   *)
(* same batch: main uses data.ptr without a check.                         *)
NoStaleEvent ==
  \A i \in DOMAIN batch : batch[i].addr \in Live \ fresh

(* The epoll set and the heap agree: whatever is allocated will be served  *)
(* and whatever is freed will not be reported, even when the list has lost *)
(* the node.                                                               *)
EpollMatchesHeap == epoll = Live

(* Once told to stop, the server collects no further batch, dispatches the *)
(* rest of this one and comes to its end.                                  *)
StopEnds == ~running ~> pc \in {"exited", "undefined"}
NoBatchAfterStop == [][~running => pc' # "wait" /\ ~running']_vars

(* The list holds every open descriptor and no freed one, and it ends:     *)
(* main takes an empty list for "all connections are gone", and            *)
(* close_all_file_descriptors closes what it finds there.                  *)
ListMatchesHeap ==
  pc # "undefined" => Listed = Live /\ Walk[Cardinality(Addr)] = NULL

(* The pool of descriptors this loop is meant to keep.                     *)
Pool == INSTANCE DescriptorPool WITH
  Descriptor <- Addr,
  open <- Live,
  phase <- CASE pc \in {"listen", "wait", "dispatch"} -> "serving"
             [] pc = "close" -> "closing"
             [] OTHER -> "exited"
ImplementsPool == Pool!FairSpec

=============================================================================
