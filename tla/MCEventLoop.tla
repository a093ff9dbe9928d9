---------------------------- MODULE MCEventLoop -----------------------------
(* Instances of EventLoop for TLC.                                         *)
EXTENDS EventLoop

CONSTANTS a1, a2, a3, a4

ThreeBlocks == {a1, a2, a3}
FourBlocks == {a1, a2, a3, a4}
AnyDescriptor == {"listen", "connection"}
OnlyConnections == {"connection"}

=============================================================================
