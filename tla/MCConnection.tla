---------------------------- MODULE MCConnection ----------------------------
(* Instances of Connection for TLC.                                        *)
EXTENDS Connection

AnyPeer == {"pipeline", "shutdown", "reset"}
TurnTakingPeer == {"reset"}
HalfClosingPeer == {"shutdown"}
PipeliningPeer == {"pipeline"}

=============================================================================
