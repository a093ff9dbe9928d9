---------------------------- MODULE HttpResponse ----------------------------
(***************************************************************************)
(* struct http_response of http.c and the operations that build it.  A     *)
(* response is a record; each operation gives the record it leaves.        *)
(*                                                                         *)
(* The header list is kept sorted by key in strcmp's order: a key is       *)
(* modelled by its rank in that order, the list by a sequence, and a value *)
(* by the numbers printed in it.                                           *)
(***************************************************************************)
EXTENDS Integers, Sequences

ContentLength == 1   \* "Content-Length"
ContentRange  == 2   \* "Content-Range"
Location      == 3   \* "Location"
ServerHeader  == 4   \* "Server"
Keys == {ContentLength, ContentRange, Location, ServerHeader}

(* The codes the server sets; description "" is none set.                  *)
Codes == {"OK", "No Content", "Partial Content", "Moved Permanently",
          "Bad Request", "Forbidden", "Not Found", "Not Implemented"}

(* http_response_initialize leaves the code as malloc left it.             *)
Initialized(code) ==
  [code |-> code, description |-> "", headers |-> <<>>,
   body |-> [allocated |-> FALSE, length |-> 0]]

-----------------------------------------------------------------------------
(* Headers                                                                 *)

(* Mutant of Place: the first key that is greater.                         *)
PlaceAfter(headers, key) ==
  CHOOSE i \in 1 .. Len(headers) + 1 :
    /\ \A j \in 1 .. i - 1 : headers[j].key <= key
    /\ i <= Len(headers) => headers[i].key > key

(* lookup_header: the place of the first key that is not smaller.          *)
Place(headers, key) ==
  CHOOSE i \in 1 .. Len(headers) + 1 :
    /\ \A j \in 1 .. i - 1 : headers[j].key < key
    /\ i <= Len(headers) => headers[i].key >= key

HasKey(headers, key) == \E i \in DOMAIN headers : headers[i].key = key
ValueOf(headers, key) ==
  headers[CHOOSE i \in DOMAIN headers : headers[i].key = key].value

(* http_response_set_header: replace the value, or insert at its place.    *)
SetHeader(r, key, value) ==
  LET at  == Place(r.headers, key)
      new == [key |-> key, value |-> value]
      hit == at <= Len(r.headers) /\ r.headers[at].key = key
  IN  [r EXCEPT !.headers =
         SubSeq(@, 1, at - 1) \o <<new>>
           \o SubSeq(@, IF hit THEN at + 1 ELSE at, Len(@))]

-----------------------------------------------------------------------------
(* Status line, body, rendering                                            *)

(* http_response_set_code with the default description.                    *)
SetCode(r, code) == [r EXCEPT !.code = code, !.description = code]

(* Mutant of SetBody: a Content-Length that is there is kept.              *)
SetBodyKeepsLength(r, n) ==
  LET body == [r EXCEPT !.body = [allocated |-> TRUE, length |-> n]]
  IN  IF HasKey(r.headers, ContentLength) THEN body
      ELSE SetHeader(body, ContentLength, <<n>>)

(* http_response_set_body: the block is allocated whatever the length, and *)
(* Content-Length is written anew.                                         *)
SetBody(r, n) ==
  SetHeader([r EXCEPT !.body = [allocated |-> TRUE, length |-> n]],
            ContentLength, <<n>>)

(* http_response_render asserts that an empty body was never set and gives *)
(* it a Content-Length.                                                    *)
RenderAsserts(r) == r.body.length = 0 => ~r.body.allocated
Rendered(r) == IF r.body.length = 0 THEN SetHeader(r, ContentLength, <<0>>) ELSE r

(* Keys in strictly increasing order: sorted, and none twice.              *)
StrictlySorted(headers) ==
  \A i, j \in DOMAIN headers : i < j => headers[i].key < headers[j].key

=============================================================================
