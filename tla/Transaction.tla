---------------------------- MODULE Transaction -----------------------------
(***************************************************************************)
(* The requests one keep-alive connection answers one after the other:     *)
(* handle_http_transaction of server.c and the lines of handle_connection  *)
(* that surround it, from the parser's verdict to the rendered response.   *)
(*                                                                         *)
(* The response object belongs to the connection and lives as long as it.  *)
(* A request is modelled by what the handler finds out about it.           *)
(***************************************************************************)
EXTENDS HttpResponse

CONSTANTS
  Builds,       \* "debug" and "release" (NDEBUG: assertions are not checked)
  MaxSize,      \* bound: length of the largest file
  MaxRequests   \* bound: requests on one connection

ASSUME TransactionAssumption ==
  /\ Builds \subseteq {"debug", "release"}
  /\ MaxSize \in Nat /\ MaxRequests \in Nat

VARIABLES
  build,     \* how the server was built
  type,      \* information->type: "TCP" or "TLS"
  response,  \* connection->response
  request,   \* the request being answered, or the last one
  answer,    \* the response as last rendered
  served,    \* responses rendered
  running,   \* *get_running()
  level,     \* the logging level was changed
  failed     \* the assertion that failed or the access that faulted

vars == <<build, type, response, request, answer, served, running, level, failed>>

-----------------------------------------------------------------------------
(* Requests                                                                *)

None == [start |-> 0, end |-> 0]   \* parse_range: the full file

(* What a magic call finds in the Authorization header and in its path.    *)
MagicCalls == [kind : {"magic"}, code : {"absent", "wrong", "right"},
               call : {"shutdown", "set-log-level", "no-such-level", "other"}]

(* What a path leads to.  "outside" is a canonical path beyond the root,   *)
(* "denied" one open refuses; a directory opens, but cannot be mapped;     *)
(* "garbled" is a file asked for with a Range that has no '-' where the    *)
(* parser asserts one.                                                     *)
PathLookups == [kind : {"missing", "outside", "denied", "directory", "garbled"},
                slash : BOOLEAN]

(* What parse_range returns: its ends are not limited to the file's size.  *)
Ranges ==
  {None} \union {r \in [start : 0 .. MaxSize + 1, end : 0 .. MaxSize + 1] :
                   r.start < r.end}
FileReads == [kind : {"file"}, slash : BOOLEAN, size : 0 .. MaxSize, range : Ranges]

Requests == {[kind |-> "malformed"]} \union MagicCalls \union PathLookups
              \union FileReads
NoRequest == [kind |-> "none"]

IsPath(q) ==
  q.kind \in {"missing", "outside", "denied", "directory", "garbled", "file"}
FullRange(q) == q.range.start = q.range.end

-----------------------------------------------------------------------------
(* The response each kind of request leaves in the response object         *)

Redirect(r) ==
  SetHeader(SetCode(r, "Moved Permanently"), Location, <<>>)

(* Mutant of Obeyed: the authorization code is not compared.               *)
ObeyedUnchecked(q) == type = "TLS" /\ q.kind = "magic" /\ q.code # "absent"

(* The magic call is obeyed only after the authorization code was compared *)
(* with the one in the request, and only over TLS.                         *)
Obeyed(q) == type = "TLS" /\ q.kind = "magic" /\ q.code = "right"

Magic(r, q) ==
  SetCode(r, CASE q.code = "absent" -> "Not Found"
               [] q.code = "wrong" -> "Forbidden"
               [] q.code = "right" /\ q.call # "other" -> "No Content"
               [] OTHER -> "Not Implemented")

(* Mutants of File: the range's end is taken as inclusive, in the length   *)
(* of the body or in Content-Range.                                        *)
FileOneMore(r, q) ==
  LET length == IF FullRange(q) THEN q.size ELSE q.range.end - q.range.start + 1
      body   == SetBody(r, length)
  IN  IF FullRange(q) THEN SetCode(body, "OK")
      ELSE SetHeader(SetCode(body, "Partial Content"), ContentRange,
                     <<q.range.start, q.range.end - 1, q.size>>)
FileEndAsLast(r, q) ==
  LET length == IF FullRange(q) THEN q.size ELSE q.range.end - q.range.start
      body   == SetBody(r, length)
  IN  IF FullRange(q) THEN SetCode(body, "OK")
      ELSE SetHeader(SetCode(body, "Partial Content"), ContentRange,
                     <<q.range.start, q.range.end, q.size>>)

(* The whole file or the range of it, with the headers that tell which.    *)
File(r, q) ==
  LET length == IF FullRange(q) THEN q.size ELSE q.range.end - q.range.start
      body   == SetBody(r, length)
  IN  IF FullRange(q) THEN SetCode(body, "OK")
      ELSE SetHeader(SetCode(body, "Partial Content"), ContentRange,
                     <<q.range.start, q.range.end - 1, q.size>>)

Handled(r, q) ==
  CASE q.kind = "malformed" -> SetCode(r, "Bad Request")
    [] q.kind # "malformed" /\ type = "TCP" -> Redirect(r)
    [] q.kind = "magic" /\ type = "TLS" -> Magic(r, q)
    [] q.kind = "file" /\ type = "TLS" -> File(r, q)
    [] OTHER -> SetCode(r, "Not Found")

(* Every answer gets the Server header before it is rendered.              *)
Complete(r, q) == SetHeader(Handled(r, q), ServerHeader, <<>>)

-----------------------------------------------------------------------------

Alive == failed = "none" /\ served < MaxRequests

(* The handler asserts that the url begins with '/' before it looks a path *)
(* up, and the range parser that '-' follows the first position.           *)
SlashMissing(q) == build = "debug" /\ type = "TLS" /\ IsPath(q) /\ ~q.slash
DashMissing(q) == build = "debug" /\ type = "TLS" /\ q.kind = "garbled"

AssertFails(q) ==
  /\ Alive
  /\ request' = q
  /\ \/ SlashMissing(q) /\ failed' = "slash"
     \/ DashMissing(q) /\ ~SlashMissing(q) /\ failed' = "dash"
  /\ UNCHANGED <<build, type, response, answer, served, running, level>>

(* mmap of a directory or of nothing fails and its result is used as an    *)
(* address all the same.                                                   *)
Unmapped(q) ==
  /\ type = "TLS"
  /\ \/ q.kind = "directory"
     \/ q.kind = "file" /\ q.size = 0 /\ ~FullRange(q)

(* Beyond the end of a mapped file, memcpy finds a fault or other bytes.   *)
PastTheFile(q) ==
  type = "TLS" /\ q.kind = "file" /\ ~FullRange(q) /\ q.range.end > q.size

Faults(q) ==
  /\ Alive /\ ~SlashMissing(q)
  /\ Unmapped(q) \/ PastTheFile(q)
  /\ request' = q
  /\ failed' = "fault"
  /\ UNCHANGED <<build, type, response, answer, served, running, level>>

(* Without assertions a garbled range is parsed as some other one, and its *)
(* request is then one of FileReads.                                       *)
Answer(q) ==
  LET r == Complete(response, q)
  IN  /\ Alive /\ ~SlashMissing(q) /\ ~Unmapped(q)
      /\ ~(q.kind = "garbled" /\ type = "TLS")
      /\ request' = q
      /\ running' = (running /\ ~(Obeyed(q) /\ q.call = "shutdown"))
      /\ level' = (level \/ (Obeyed(q) /\ q.call = "set-log-level"))
      /\ UNCHANGED <<build, type>>
      /\ \/ /\ build = "debug" /\ ~RenderAsserts(r)
            /\ response' = r
            /\ failed' = "body"
            /\ UNCHANGED <<answer, served>>
         \/ /\ build = "debug" => RenderAsserts(r)
            /\ response' = Rendered(r)
            /\ answer' = Rendered(r)
            /\ served' = served + 1
            /\ UNCHANGED failed

Init ==
  /\ build \in Builds
  /\ type \in {"TCP", "TLS"}
  /\ \E code \in Codes : response = Initialized(code)
  /\ request = NoRequest
  /\ answer = response
  /\ served = 0
  /\ running = TRUE
  /\ level = FALSE
  /\ failed = "none"

Next == \E q \in Requests : AssertFails(q) \/ Faults(q) \/ Answer(q)

Spec == Init /\ [][Next]_vars

-----------------------------------------------------------------------------
(* Properties                                                              *)

(* The variables keep their types: no answer carries a code or a header    *)
(* the handler does not know, and the assertions are those of the code.    *)
TypeOK ==
  /\ build \in Builds /\ type \in {"TCP", "TLS"}
  /\ response.code \in Codes /\ response.description \in Codes \union {""}
  /\ \A i \in DOMAIN response.headers : response.headers[i].key \in Keys
  /\ response.body.allocated \in BOOLEAN
  /\ response.body.length \in 0 .. MaxSize + 1
  /\ served \in 0 .. MaxRequests
  /\ running \in BOOLEAN /\ level \in BOOLEAN
  /\ failed \in {"none", "slash", "dash", "fault", "body"}

(* The header list stays sorted, with one entry for each key, through any  *)
(* sequence of requests: lookup_header stops at the first key that is not  *)
(* smaller, and would miss a key in an unsorted list.                      *)
HeadersSorted == StrictlySorted(response.headers)

(* The Content-Length of every rendered response is the length of the body *)
(* it is rendered with, also when that body was left by an earlier request *)
(* of the connection.                                                      *)
ContentLengthMatchesBody ==
  served > 0 =>
    /\ HasKey(answer.headers, ContentLength)
    /\ ValueOf(answer.headers, ContentLength) = <<answer.body.length>>

(* A 206 response tells which part it carries and carries just that many   *)
(* bytes, whatever ranges earlier requests of the connection asked for.    *)
PartialContentDescribed ==
  served > 0 /\ answer.code = "Partial Content" =>
    /\ HasKey(answer.headers, ContentRange)
    /\ LET range == ValueOf(answer.headers, ContentRange)
       IN  range[2] + 1 - range[1] = answer.body.length

(* The server stops, and logging changes, only for a magic call that came  *)
(* over TLS with the authorization code.                                   *)
OnlyAuthorizedCallsObeyed ==
  [][running' # running \/ level' # level =>
       type = "TLS" /\ request'.kind = "magic" /\ request'.code = "right"]_vars

(* "the request is now ready [...] generate response accordingly": a       *)
(* response carries what its own request called for and nothing of the     *)
(* requests before it.                                                     *)
AnswersItsOwnRequest ==
  served > 0 /\ failed = "none" =>
    answer = Rendered(Complete(Initialized(answer.code), request))

(* http_response_render asserts that a response without a body never had   *)
(* one set: assert(response->body.body == NULL).                           *)
EmptyBodyNeverSet == failed # "body"

(* handle_http_transaction asserts that the url of a parsed request begins *)
(* with '/'.                                                               *)
UrlStartsWithSlash == failed # "slash"

=============================================================================
