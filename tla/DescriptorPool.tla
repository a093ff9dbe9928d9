--------------------------- MODULE DescriptorPool ---------------------------
(***************************************************************************)
(* What the event loop promises about descriptors: they are opened and     *)
(* closed while the server serves, none is opened once it is closing, and  *)
(* it exits when, and only when, all of them are closed.                   *)
(***************************************************************************)
EXTENDS FiniteSets

CONSTANT Descriptor

VARIABLES open, phase

vars == <<open, phase>>

Init == open = {} /\ phase = "serving"

Open(d) ==
  /\ phase = "serving" /\ d \notin open
  /\ open' = open \union {d}
  /\ UNCHANGED phase

Close(d) ==
  /\ phase # "exited" /\ d \in open
  /\ open' = open \ {d}
  /\ UNCHANGED phase

Stop ==
  /\ phase = "serving"
  /\ phase' = "closing"
  /\ UNCHANGED open

Exit ==
  /\ phase = "closing" /\ open = {}
  /\ phase' = "exited"
  /\ UNCHANGED open

Next == Stop \/ Exit \/ \E d \in Descriptor : Open(d) \/ Close(d)

Spec == Init /\ [][Next]_vars

(* Closing goes through to the exit.                                       *)
FairSpec ==
  /\ Spec
  /\ WF_vars(Exit)
  /\ \A d \in Descriptor : WF_vars(phase = "closing" /\ Close(d))

=============================================================================
