-------------------------- MODULE MCTlsConnection ---------------------------
(* Instances of TlsConnection for TLC.                                     *)
EXTENDS TlsConnection

(* The messages of a TLS 1.2 handshake, where the server is last.          *)
Tls12 == <<"peer", "server", "peer", "server">>

(* A peer that sends no warnings, and leaves only between two exchanges.   *)
OrderlyPeer == {"fatal", "bye", "eof"}

=============================================================================
