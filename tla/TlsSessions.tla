----------------------------- MODULE TlsSessions -----------------------------
(***************************************************************************)
(* The life of the TLS sessions and of the credentials they share:         *)
(* tls_initialize_underlying, get_credential and the destructor it leaves  *)
(* with atexit in tls_connection.c.  What goes on inside a session is      *)
(* TlsConnection's.                                                        *)
(***************************************************************************)
EXTENDS Naturals, FiniteSets

CONSTANTS
  Sessions,   \* bound: connections to the HTTPS port over the server's life
  MayFail     \* which of the calls in Calls may fail

Calls == {"init", "priority", "load", "credentials"}
TlsSessionsAssumption == IsFiniteSet(Sessions) /\ MayFail \subseteq Calls

VARIABLES
  phase,        \* of each session: "none", "failed", "initialized", "closed"
  wrappers,     \* recv, send and destroy_underlying: "unset" or "tls"
  given,        \* the credential each session was given, 0 for none
  initialize,   \* get_credential's static variable
  credential,   \* get_credential's static variable
  loaded,       \* credentials allocated so far: 1 .. loaded
  freed,        \* those freed again
  registered,   \* destroy_credential's registrations with atexit
  process,      \* "running", "exiting" or "gone"
  astray        \* a function pointer that was never set was called

sessionsVars ==
  <<phase, wrappers, given, initialize, credential, loaded, freed, registered, process,
    astray>>

-----------------------------------------------------------------------------

(* Mutant of Loads: what was loaded before is freed first.                 *)
LoadsAnew ==
  /\ loaded' = loaded + 1
  /\ credential' = loaded + 1
  /\ freed' = freed \union (IF credential = 0 THEN {} ELSE {credential})
  /\ registered' = registered + 1
  /\ initialize' = TRUE

(* get_credential(false) loads the key pair and remembers how to free it;  *)
(* it then assigns to initialize the value it has already.                 *)
Loads ==
  /\ loaded' = loaded + 1
  /\ credential' = loaded + 1
  /\ registered' = registered + 1
  /\ initialize' = TRUE
  /\ UNCHANGED freed
GetCredential ==
  IF initialize THEN Loads
  ELSE UNCHANGED <<loaded, credential, registered, initialize, freed>>

statics == <<initialize, credential, loaded, freed, registered>>

(* tls_initialize_underlying up to a GnuTLS call that fails: the session   *)
(* is marked failed before the first of them, and stays so.                *)
FailsAt(s, call) ==
  /\ call \in MayFail /\ call # "load"
  /\ phase' = [phase EXCEPT ![s] = "failed"]
  /\ IF call = "credentials" THEN GetCredential ELSE UNCHANGED statics
  /\ UNCHANGED <<wrappers, given, process, astray>>

Succeeds(s) ==
  /\ GetCredential
  /\ given' = [given EXCEPT ![s] = credential']
  /\ phase' = [phase EXCEPT ![s] = "initialized"]
  /\ wrappers' = [wrappers EXCEPT ![s] = "tls"]
  /\ UNCHANGED <<process, astray>>

(* The key pair cannot be loaded: exit, whatever sessions there are.       *)
LoadFails ==
  /\ "load" \in MayFail /\ initialize
  /\ loaded' = loaded + 1 /\ credential' = loaded + 1
  /\ process' = "exiting"
  /\ UNCHANGED <<phase, wrappers, given, initialize, freed, registered, astray>>

Accept(s) ==
  /\ process = "running" /\ phase[s] = "none" /\ ~astray
  /\ (\E call \in Calls : FailsAt(s, call)) \/ Succeeds(s) \/ LoadFails

(* The handler calls connection->recv, or the connection is destroyed and  *)
(* connection->destroy_underlying called.  An unset pointer holds what     *)
(* malloc left in it.                                                      *)
Call(s) ==
  /\ process = "running" /\ phase[s] \in {"failed", "initialized"} /\ ~astray
  /\ \/ /\ wrappers[s] = "unset"
        /\ astray' = TRUE
        /\ UNCHANGED phase
     \/ /\ wrappers[s] = "tls"
        /\ phase' = [phase EXCEPT ![s] = "closed"]
        /\ UNCHANGED astray
  /\ UNCHANGED <<wrappers, given, statics, process>>

(* main returns when it has closed all connections.                        *)
StopProcess ==
  /\ process = "running" /\ ~astray
  /\ \A s \in Sessions : phase[s] \in {"none", "closed"}
  /\ process' = "exiting"
  /\ UNCHANGED <<phase, wrappers, given, statics, astray>>

(* The handlers registered with atexit: get_credential(true) frees nothing *)
(* while initialize is set.                                                *)
Exit ==
  /\ process = "exiting"
  /\ process' = "gone"
  /\ freed' = IF registered = 0 \/ initialize THEN freed ELSE freed \union {credential}
  /\ UNCHANGED <<phase, wrappers, given, initialize, credential, loaded, registered,
                 astray>>

SessionsInit ==
  /\ phase = [s \in Sessions |-> "none"]
  /\ wrappers = [s \in Sessions |-> "unset"]
  /\ given = [s \in Sessions |-> 0]
  /\ initialize = TRUE /\ credential = 0 /\ loaded = 0 /\ freed = {} /\ registered = 0
  /\ process = "running" /\ astray = FALSE

SessionsNext == (\E s \in Sessions : Accept(s) \/ Call(s)) \/ StopProcess \/ Exit

SessionsSpec == SessionsInit /\ [][SessionsNext]_sessionsVars

-----------------------------------------------------------------------------
(* Properties                                                              *)

(* A session that can be used has a credential, and one that exists: also  *)
(* when others were loaded after it, failed, or were closed.               *)
UsableSessionHasCredential ==
  \A s \in Sessions :
    phase[s] = "initialized" /\ process = "running" => given[s] \in 1 .. loaded \ freed

-----------------------------------------------------------------------------
(* What the code says and does not keep                                    *)

(* "get credential used for all sessions": they share one.                 *)
OneCredential == loaded <= 1

(* "register automatic destroy of credential": at the end of the process   *)
(* what was loaded is freed.                                               *)
CredentialsFreed == process = "gone" => freed = 1 .. loaded

(* "the connection has failed": a session in TLS_STATE_Failed refuses      *)
(* every call with EBADF, and can be destroyed.                            *)
FailedSessionRefuses == ~astray

=============================================================================
