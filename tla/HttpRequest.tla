---------------------------- MODULE HttpRequest -----------------------------
(***************************************************************************)
(* struct http_request of http.c over the life of a connection: the parser *)
(* is run from the beginning on every round over the buffer read so far    *)
(* (handle_connection), with what it allocates and frees.                  *)
(*                                                                         *)
(* Bytes are the codes strcmp and isspace see.  The buffer's block ends    *)
(* with the buffer, and the parser looks beyond it: the bytes that follow  *)
(* in memory are arbitrary.                                                *)
(***************************************************************************)
EXTENDS Integers, Sequences, SequencesExt

CONSTANTS
  Messages,    \* what the peer may send: records with the fields of Message
  Trails,      \* what may follow the buffer in memory, each ended by NUL
  MaxMessages  \* bound: messages on one connection

NUL == 0
LF == 10
CR == 13
SP == 32
COLON == 58
GET == <<71, 69, 84>>
Blank == {LF, CR, SP}   \* isspace
Bytes == Seq(0 .. 127)
Headers == Seq([key : Bytes, value : Bytes])

VARIABLES
  message,       \* the peer: the message being sent
  incoming,      \* the peer: bytes not yet read by the server
  turns,         \* the peer: messages begun
  buffer,        \* the effective part of the connection's buffer
  parsed,        \* connection->request
  verdict,       \* what the parser returned last for this buffer
  request_heap,  \* blocks that are allocated
  open,          \* the connection exists
  repeated       \* history: a header was refused because its key was there

parserVars == <<message, incoming, turns, buffer, parsed, verdict, request_heap, open, repeated>>

-----------------------------------------------------------------------------
(* The text of a message (the peer)                                        *)

Line(field) == field.key \o field.colon \o field.value \o <<CR, LF>>
Lines(fields) ==
  LET lines[k \in 0 .. Len(fields)] ==
        IF k = 0 THEN <<>> ELSE lines[k - 1] \o Line(fields[k])
  IN  lines[Len(fields)]
Text(m) ==
  m.method \o <<SP>> \o m.url \o <<SP>> \o m.version \o <<CR, LF>>
    \o Lines(m.fields) \o <<CR, LF>>

Message ==
  [method : Bytes, url : Bytes, version : Bytes,
   fields : Seq([key : Bytes, colon : Bytes, value : Bytes])]

(* What is sent, and what is in memory, are bytes.                         *)
HttpRequestAssumption ==
  /\ MaxMessages \in Nat
  /\ Messages \subseteq Message
  /\ \A t \in Trails : t \in Bytes /\ t # <<>> /\ t[Len(t)] = NUL

-----------------------------------------------------------------------------
(* Scanning.  mem is the buffer and what follows it, length the buffer's;  *)
(* a position p is the number of bytes before it.                          *)

(* Mutant of NonBlank: the length is not looked at.                        *)
NonBlankUnbounded(mem, length, p) ==
  CHOOSE q \in p .. Len(mem) :
    /\ q < Len(mem) => mem[q + 1] \in Blank \union {NUL}
    /\ \A k \in p + 1 .. q : mem[k] \notin Blank \union {NUL}

(* range_non_blank: where the blank at or after p is, or the end.          *)
NonBlank(mem, length, p) ==
  IF p >= length THEN p
  ELSE CHOOSE q \in p .. length :
         /\ q < length => mem[q + 1] \in Blank
         /\ \A k \in p + 1 .. q : mem[k] \notin Blank

(* skip_whitespaces: it stops short when a blank ends the buffer; from the *)
(* end of the buffer it goes on behind it.                                 *)
RunsOut(mem, length, p) == p < length /\ \A k \in p + 1 .. length : mem[k] \in Blank
SkipBlanks(mem, p) ==
  CHOOSE q \in p .. Len(mem) - 1 :
    mem[q + 1] \notin Blank /\ \A k \in p + 1 .. q : mem[k] \in Blank

(* Mutant of LineEnds: a CR is taken for the pair.                         *)
LineEndsAtCR(mem, length, p) == {q \in p .. length - 1 : mem[q + 1] = CR}

(* range_line: the line from p on ends with CR LF inside the buffer.       *)
LineEnds(mem, length, p) == {q \in p .. length - 2 : mem[q + 1] = CR /\ mem[q + 2] = LF}
First(positions) == CHOOSE q \in positions : \A r \in positions : q <= r

(* strchr from p on: it knows no length and stops at a NUL.                *)
Colons(mem, p) ==
  {k \in p .. Len(mem) - 1 : mem[k + 1] = COLON /\ \A j \in p + 1 .. k : mem[j] # NUL}

Slice(mem, p, q) == SubSeq(mem, p + 1, q)

(* The value of a header is what remains between the blanks at both ends.  *)
Trimmed(mem, p, q) ==
  LET kept == {k \in p + 1 .. q : mem[k] \notin Blank}
  IN  IF kept = {} THEN <<>>
      ELSE SubSeq(mem, First(kept), CHOOSE k \in kept : \A j \in kept : j <= k)

(* One header line from p to q, or none when it is malformed.              *)
Field(mem, p, q) ==
  LET colon == First(Colons(mem, p))
      value == Trimmed(mem, colon + 1, q)
  IN  IF \/ Colons(mem, p) = {}
         \/ \E k \in p + 1 .. colon : mem[k] \in Blank
         \/ value = <<>>
      THEN <<>>
      ELSE <<[key |-> Slice(mem, p, colon), value |-> value]>>

-----------------------------------------------------------------------------
(* The list of headers                                                     *)

(* strcmp(a, b) < 0                                                        *)
Before(a, b) ==
  \E n \in 0 .. Len(b) - 1 :
    /\ n <= Len(a) /\ SubSeq(a, 1, n) = SubSeq(b, 1, n)
    /\ n = Len(a) \/ a[n + 1] < b[n + 1]

(* Mutant of RequestPlace: the search goes on through equal keys.          *)
RequestPlaceAfter(list, key) ==
  CHOOSE k \in 1 .. Len(list) + 1 :
    /\ \A j \in 1 .. k - 1 : ~Before(key, list[j].key)
    /\ k <= Len(list) => Before(key, list[k].key)

(* lookup_header and the search of http_request_get_header: the first key  *)
(* that is not smaller.                                                    *)
RequestPlace(list, key) ==
  CHOOSE k \in 1 .. Len(list) + 1 :
    /\ \A j \in 1 .. k - 1 : Before(list[j].key, key)
    /\ k <= Len(list) => ~Before(list[k].key, key)

Found(list, key) ==
  RequestPlace(list, key) <= Len(list) /\ list[RequestPlace(list, key)].key = key

(* insert_header, for a key that was not found.                            *)
Insert(list, field) ==
  InsertAt(list, RequestPlace(list, field.key), field)

-----------------------------------------------------------------------------
(* http_request_from_buffer                                                *)

RequestBlocks(r) ==
  (IF r.url # <<>> THEN 1 ELSE 0) + (IF r.version # <<>> THEN 1 ELSE 0)
    + 3 * Len(r.headers)

(* http_request_initialize; an empty url or version is a null pointer.     *)
InitializedRequest == [state |-> "initialized", url |-> <<>>, version |-> <<>>, headers |-> <<>>]

(* What a call returns: its verdict, the request it leaves, and the blocks *)
(* it allocated and let go of.                                             *)
Outcome(v, s, url, version, headers, lost) ==
  [verdict |-> v, lost |-> lost,
   request |-> [state |-> s, url |-> url, version |-> version, headers |-> headers]]

(* Mutant of Stop: an incomplete request is left as if nothing had been    *)
(* parsed.                                                                 *)
StopUnmarked(v, url, version, headers) ==
  Outcome(v, IF v = "incomplete" THEN "initialized" ELSE "invalid", url, version, headers, 0)

(* trigger_incomplete, trigger_invalid                                     *)
Stop(v, url, version, headers) == Outcome(v, "invalid", url, version, headers, 0)

(* The header lines from position p on, for the headers read before it.  A *)
(* line with a key that is there already keeps its three blocks.           *)
HeaderLines(mem, length, url, version) ==
  LET from[p \in 0 .. length] ==
        LET ends == LineEnds(mem, length, p)
            end  == First(ends)
        IN  [list \in Headers |->
               LET field == Field(mem, p, end)
               IN  IF ends = {} THEN Stop("incomplete", url, version, list)
                   ELSE IF end = p THEN
                     IF p + 2 = length
                       THEN Outcome("succeed", "parsed", url, version, list, 0)
                       ELSE Stop("invalid", url, version, list)
                   ELSE IF field = <<>> THEN Stop("invalid", url, version, list)
                   ELSE IF Found(list, field[1].key)
                     THEN Outcome("duplicate", "invalid", url, version, list, 3)
                   ELSE from[end + 2][Insert(list, field[1])]]
  IN  from

(* strncmp("GET", buffer, n) = 0: n is the length of what was sent.        *)
MethodAccepted(mem, n) ==
  n <= Len(GET) /\ \A k \in 1 .. n : mem[k] = GET[k]

FromMemory(mem, length) ==
  LET m0 == NonBlank(mem, length, 0)
      u  == SkipBlanks(mem, m0)
      u0 == NonBlank(mem, length, u)
      url == Slice(mem, u, u0)
      v  == SkipBlanks(mem, u0)
      v0 == NonBlank(mem, length, v)
      version == Slice(mem, v, v0)
  IN  IF ~MethodAccepted(mem, m0)
        THEN Outcome("unsupported", "initialized", <<>>, <<>>, <<>>, 0)
      ELSE IF RunsOut(mem, length, m0) \/ u = u0 THEN Stop("incomplete", <<>>, <<>>, <<>>)
      ELSE IF RunsOut(mem, length, u0) \/ v = v0 THEN Stop("incomplete", url, <<>>, <<>>)
      ELSE IF v0 + 1 >= length THEN Stop("incomplete", url, version, <<>>)
      ELSE IF mem[v0 + 1] # CR \/ mem[v0 + 2] # LF THEN Stop("invalid", url, version, <<>>)
      ELSE HeaderLines(mem, length, url, version)[v0 + 2][<<>>]

FromBuffer(data, trail) == FromMemory(data \o trail, Len(data))

(* http_request_destroy                                                    *)
Freed(r) == IF r.state = "initialized" THEN 0 ELSE RequestBlocks(r)
Destroyed(r) == IF r.state = "initialized" THEN r ELSE InitializedRequest

(* http_request_get_header, for a request that was parsed.                 *)
GetHeader(r, name) ==
  IF r.state = "parsed" /\ Found(r.headers, name)
  THEN r.headers[RequestPlace(r.headers, name)].value ELSE <<>>

-----------------------------------------------------------------------------

NoMessage == [method |-> <<>>, url |-> <<>>, version |-> <<>>, fields |-> <<>>]

ParserInit ==
  /\ message = NoMessage /\ incoming = <<>> /\ turns = 0
  /\ buffer = <<>>
  /\ parsed = InitializedRequest
  /\ verdict = "none"
  /\ request_heap = 0
  /\ open = TRUE /\ repeated = FALSE

(* The peer sends a message when the last one was answered.                *)
Send ==
  /\ open /\ turns < MaxMessages
  /\ incoming = <<>> /\ buffer = <<>>
  /\ message' \in Messages
  /\ incoming' = Text(message')
  /\ turns' = turns + 1
  /\ UNCHANGED <<buffer, parsed, verdict, request_heap, open, repeated>>

Unanswered == verdict \in {"none", "incomplete"}

(* A round: what arrived is added to the buffer and the whole is parsed    *)
(* anew, over the request the last round left.                             *)
Round ==
  /\ open /\ Unanswered
  /\ \E n \in 1 .. Len(incoming), trail \in Trails :
       LET data    == buffer \o SubSeq(incoming, 1, n)
           outcome == FromBuffer(data, trail)
       IN  /\ buffer' = data
           /\ incoming' = SubSeq(incoming, n + 1, Len(incoming))
           /\ verdict' = outcome.verdict
           /\ parsed' = outcome.request
           /\ request_heap' = request_heap - Freed(parsed) + RequestBlocks(outcome.request)
                                + outcome.lost
           /\ repeated' = (repeated \/ outcome.verdict = "duplicate")
  /\ UNCHANGED <<message, turns, open>>

(* The request is answered and destroyed, and the response is rendered     *)
(* over the buffer.                                                        *)
AnswerParsed ==
  /\ open /\ ~Unanswered
  /\ parsed' = Destroyed(parsed)
  /\ request_heap' = request_heap - Freed(parsed)
  /\ buffer' = <<>>
  /\ verdict' = "none"
  /\ UNCHANGED <<message, incoming, turns, open, repeated>>

(* destroy_connection_information, while the connection waits.             *)
Close ==
  /\ open /\ Unanswered
  /\ parsed' = Destroyed(parsed)
  /\ request_heap' = request_heap - Freed(parsed)
  /\ open' = FALSE
  /\ UNCHANGED <<message, incoming, turns, buffer, verdict, repeated>>

ParserNext == Send \/ Round \/ AnswerParsed \/ Close

ParserSpec == ParserInit /\ [][ParserNext]_parserVars

-----------------------------------------------------------------------------
(* Properties                                                              *)

(* The variables keep their types, and a request is in the state its       *)
(* verdict calls for: only a parsed one answers queries.                   *)
ParserTypeOK ==
  /\ incoming \in Bytes /\ buffer \in Bytes
  /\ parsed.state \in {"initialized", "parsed", "invalid"}
  /\ parsed.url \in Bytes /\ parsed.version \in Bytes
  /\ \A k \in DOMAIN parsed.headers :
       parsed.headers[k].key \in Bytes /\ parsed.headers[k].value \in Bytes \ {<<>>}
  /\ verdict \in {"none", "succeed", "incomplete", "invalid", "duplicate", "unsupported"}
  /\ open => (parsed.state = "parsed" <=> verdict = "succeed")
  /\ request_heap \in Nat /\ {open, repeated} \subseteq BOOLEAN

(* No blank in a word, no colon in a key, no line end in a value, and no   *)
(* key twice.                                                              *)
WellFormed(m) ==
  /\ m.method = GET
  /\ \A word \in {m.url, m.version} : word # <<>> /\ ToSet(word) \intersect Blank = {}
  /\ \A f \in ToSet(m.fields) :
       /\ ToSet(f.key) \intersect (Blank \union {NUL, COLON}) = {} /\ f.colon = <<COLON>>
       /\ ~(ToSet(f.value) \subseteq Blank)
       /\ LineEnds(f.value, Len(f.value), 0) = {}
  /\ \A j, k \in DOMAIN m.fields : j # k => m.fields[j].key # m.fields[k].key

(* A well-formed request is answered when its last byte has arrived and    *)
(* not before, however its bytes are cut into rounds, and the queries then *)
(* give what was sent.                                                     *)
ParsedIsSent ==
  open /\ WellFormed(message) /\ buffer # <<>> =>
    IF incoming # <<>> THEN verdict = "incomplete"
    ELSE /\ verdict = "succeed"
         /\ parsed.url = message.url
         /\ \A f \in ToSet(message.fields) :
              GetHeader(parsed, f.key) = Trimmed(f.value, 0, Len(f.value))

VerdictOn(n) == FromBuffer(SubSeq(buffer, 1, n), <<NUL>>).verdict

(* The verdict does not depend on where the rounds cut the stream: what is *)
(* wrong with the beginning of a buffer is wrong with the whole of it, and *)
(* a complete request is wrong as soon as anything follows it.             *)
VerdictIsSettled ==
  \A n \in 1 .. Len(buffer) - 1 :
    VerdictOn(n) # "incomplete" => VerdictOn(Len(buffer)) \notin {"incomplete", "succeed"}

(* skip_whitespaces and strchr look behind the buffer's block; whatever    *)
(* they find there, the result is the same.                                *)
MemoryBehindIgnored ==
  buffer # <<>> =>
    \A trail \in Trails : FromBuffer(buffer, trail) = FromBuffer(buffer, <<NUL>>)

(* Every allocated block can be reached from the request, so that          *)
(* http_request_destroy frees it: over any number of rounds, and also when *)
(* the connection goes in the middle of a request.  It is not so for a     *)
(* header that is refused because its key is there already, although the   *)
(* code says of it "no more error is expected to be encountered from now   *)
(* on for this line".                                                      *)
RequestOwnsAll == ~repeated => request_heap = RequestBlocks(parsed)

-----------------------------------------------------------------------------
(* What the code says and does not keep                                    *)

(* "we only support GET"                                                   *)
OnlyGet == verdict = "succeed" => message.method = GET

=============================================================================
