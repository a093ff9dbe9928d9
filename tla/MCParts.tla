------------------------------- MODULE MCParts -------------------------------
(***************************************************************************)
(* The parts of the server that share no state with each other, each       *)
(* explored to its end by itself: the transactions of a connection, the    *)
(* response object, the request parser, the range parser, a TLS connection *)
(* with a peer that may do anything, the TLS sessions, the lookup of files *)
(* and the authorization code.  A behaviour chooses one part, which makes  *)
(* all its steps.                                                          *)
(***************************************************************************)
EXTENDS MCTransaction, ResponseObject, HttpRequest, ByteRange, TlsConnection,
        TlsSessions, FileLookup, AuthorizationCode

VARIABLE part

-----------------------------------------------------------------------------
(* The values of the constants                                             *)

(* The characters of the messages: 32 is the blank, 58 the colon.          *)
H(key, value) == [key |-> key, colon |-> <<58>>, value |-> value]
A == <<65>>
B == <<66>>
AB == <<65, 66>>
V == <<118>>
Blanked(value) == <<32>> \o value \o <<32>>

(* Header lists that are well-formed, in and out of order, with blanks     *)
(* around and inside values; ones that are not; and repeated keys.         *)
GoodFields ==
  {<<>>, <<H(A, V)>>, <<H(AB, Blanked(V))>>, <<H(A, V), H(B, V)>>,
   <<H(B, V), H(A, V \o Blanked(V))>>, <<H(AB, V), H(B, V), H(A, A)>>,
   <<H(<<>>, V), H(A, V)>>}
BadFields ==
  {<<H(A, <<>>)>>, <<H(A, <<32>>)>>, <<H(A \o <<32>>, V), H(B, V)>>,
   <<H(A, V), [key |-> A, colon |-> <<>>, value |-> V]>>,
   <<[key |-> A, colon |-> <<>>, value |-> V], H(B, V)>>}
RepeatedFields == {<<H(A, V), H(A, V)>>, <<H(A, V), H(B, V), H(A, B)>>}
SomeMethods == {<<71, 69, 84>>, <<>>, <<71>>, <<71, 69, 84, 65>>, <<65>>}
AnyFields == GoodFields \union BadFields \union RepeatedFields

(* Every beginning before two lists, and every list behind a good one: the *)
(* parser comes to the headers only behind a beginning it accepts.         *)
AnyMessage ==
  [method : SomeMethods, url : {<<47>>, <<>>}, version : {V, <<>>},
   fields : {<<>>, <<H(A, V)>>}]
  \union [method : {<<71, 69, 84>>}, url : {<<47>>}, version : {V}, fields : AnyFields]
AnyTrail == {<<0>>, <<32, 0>>, <<58, 0>>, <<65, 58, 0>>, <<13, 10, 65, 0>>}

Tls13 == <<"peer", "server", "server", "peer">>
AnyPeer == {"warn", "fatal", "bye", "leave", "eof"}

(* A name that another begins with.                                        *)
TwoNames == {<<1>>, <<1, 2>>}

(* Words of 16 bits: each of the last four bits alone, over two patterns   *)
(* of the others.                                                          *)
SomeWords == {4096 * top + low : top \in {0, 1, 2, 4, 8, 15}, low \in {0, 2731}}

SomeDescriptions == {<<0>>, <<2>>, <<7>>}
SomeLengths == {0, 1, 12}
SomeCalls == {"init", "priority", "load", "credentials"}

ASSUME PartsAssumption ==
  /\ ResponseObjectAssumption
  /\ HttpRequestAssumption
  /\ ByteRangeAssumption
  /\ TlsSessionsAssumption
  /\ FileLookupAssumption
  /\ AuthorizationCodeAssumption

-----------------------------------------------------------------------------

Parts ==
  {"transaction", "response", "request", "range", "tls", "sessions", "lookup", "code"}

(* A part that is not the one chosen stays in one of its initial states.   *)
PartsInit ==
  /\ part \in Parts
  /\ part = "transaction" \/ (build = "debug" /\ type = "TLS" /\ response = Initialized("OK"))
  /\ part = "range" \/ (range_build = "debug" /\ size = 0
                         /\ specs = <<[kind |-> "from", first |-> 0, last |-> 0]>>)
  /\ part = "lookup" \/ here = <<>>
  /\ part = "code" \/ random = [k \in 1 .. 3 |-> 0]
  /\ Init /\ ObjectInit /\ ParserInit /\ RangeInit /\ TlsInit /\ SessionsInit
  /\ LookupInit /\ CodeInit

PartsNext ==
  \/ /\ part = "transaction" /\ Next
     /\ UNCHANGED <<part, objectVars, parserVars, rangeVars, tlsVars,
                    sessionsVars, lookupVars, codeVars>>
  \/ /\ part = "response" /\ ObjectNext
     /\ UNCHANGED <<part, vars, parserVars, rangeVars, tlsVars,
                    sessionsVars, lookupVars, codeVars>>
  \/ /\ part = "request" /\ ParserNext
     /\ UNCHANGED <<part, vars, objectVars, rangeVars, tlsVars,
                    sessionsVars, lookupVars, codeVars>>
  \/ /\ part = "range" /\ RangeNext
     /\ UNCHANGED <<part, vars, objectVars, parserVars, tlsVars,
                    sessionsVars, lookupVars, codeVars>>
  \/ /\ part = "tls" /\ TlsNext
     /\ UNCHANGED <<part, vars, objectVars, parserVars, rangeVars,
                    sessionsVars, lookupVars, codeVars>>
  \/ /\ part = "sessions" /\ SessionsNext
     /\ UNCHANGED <<part, vars, objectVars, parserVars, rangeVars,
                    tlsVars, lookupVars, codeVars>>
  \/ /\ part = "lookup" /\ LookupNext
     /\ UNCHANGED <<part, vars, objectVars, parserVars, rangeVars,
                    tlsVars, sessionsVars, codeVars>>
  \/ /\ part = "code" /\ CodeNext
     /\ UNCHANGED <<part, vars, objectVars, parserVars, rangeVars,
                    tlsVars, sessionsVars, lookupVars>>

partsVars ==
  <<part, vars, objectVars, parserVars, rangeVars, tlsVars, sessionsVars,
    lookupVars, codeVars>>
PartsSpec == PartsInit /\ [][PartsNext]_partsVars

-----------------------------------------------------------------------------
(* The properties are those of the parts; the types are checked together   *)

(* The variables of the parts keep their types: no sum in parse_range      *)
(* leaves size_t, only a parsed request answers queries, tls_send is never *)
(* called before the handshake is over.                                    *)
PartsTypeOK == TypeOK /\ ParserTypeOK /\ RangeTypeOK /\ TlsTypeOK

=============================================================================
