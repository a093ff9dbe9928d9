---------------------------- MODULE HttpExchange ----------------------------
(***************************************************************************)
(* What a keep-alive connection promises to a peer that asks one thing at  *)
(* a time: each request is answered once, in its turn, and its answer      *)
(* reaches the peer whole before the next one is begun, unless the         *)
(* connection is closed.  Connection implements it.                        *)
(***************************************************************************)
EXTENDS Naturals

CONSTANT MaxAsked   \* bound: requests over the connection's life

VARIABLES
  asked,      \* requests made
  answered,   \* answers begun
  delivered,  \* answers the peer has in full
  open        \* the connection exists

vars == <<asked, answered, delivered, open>>

Init == asked = 0 /\ answered = 0 /\ delivered = 0 /\ open = TRUE

(* The next request follows the delivery of the answer to the last.        *)
Ask ==
  /\ open /\ asked < MaxAsked
  /\ delivered = asked
  /\ asked' = asked + 1
  /\ UNCHANGED <<answered, delivered, open>>

Answer ==
  /\ open /\ answered < asked
  /\ answered' = answered + 1
  /\ UNCHANGED <<asked, delivered, open>>

Deliver ==
  /\ open /\ delivered < answered
  /\ delivered' = delivered + 1
  /\ UNCHANGED <<asked, answered, open>>

(* Either side may end the connection at any time.                         *)
Close ==
  /\ open
  /\ open' = FALSE
  /\ UNCHANGED <<asked, answered, delivered>>

Next == Ask \/ Answer \/ Deliver \/ Close

Spec == Init /\ [][Next]_vars

(* An answer owed is given and delivered, unless the connection is closed. *)
FairSpec == Spec /\ WF_vars(Answer) /\ WF_vars(Deliver)

=============================================================================
