--------------------------- MODULE MCTransaction ----------------------------
(* Instances of Transaction for TLC.                                       *)
EXTENDS Transaction

BothBuilds == {"debug", "release"}
DebugBuild == {"debug"}
ReleaseBuild == {"release"}

=============================================================================
