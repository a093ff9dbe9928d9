--------------------------- MODULE ResponseObject ---------------------------
(***************************************************************************)
(* struct http_response of http.c as an object in memory: what each        *)
(* operation allocates and frees, and the size of what it renders.         *)
(* HttpResponse has the contents; here a description and a header's value  *)
(* are their lengths.  The operations may be called in any order.          *)
(***************************************************************************)
EXTENDS HttpResponse, Functions

CONSTANTS
  Described,  \* what set_code may find: <<n>>, a description of length n, or
              \* <<>> for a code that has no default one and was given none
  Lengths     \* lengths of header values and bodies

ResponseObjectAssumption ==
  /\ Described \subseteq Seq(Nat)
  /\ Lengths \subseteq Nat

VARIABLES
  object,       \* code, description (its length), headers and body
  pointer,      \* state_line.description: "null", "live" or "dangling"
  object_heap,  \* blocks allocated and not freed
  rendering,    \* the rendering just done: what was offered, returned and written
  fault         \* a block was freed twice

objectVars == <<object, pointer, object_heap, rendering, fault>>

Nothing == [offered |-> 0, returned |-> 0, written |-> 0]

KeyLength(key) == 4 + key
Bit(b) == IF b THEN 1 ELSE 0

-----------------------------------------------------------------------------

(* The description is freed when there is one, and set again when there is *)
(* a new one.                                                              *)
SetCodeOf(d) ==
  /\ fault' = (fault \/ pointer = "dangling")
  /\ object_heap' = object_heap - Bit(pointer = "live") + Bit(d # <<>>)
  /\ pointer' = IF d # <<>> THEN "live"
                ELSE IF pointer = "null" THEN "null" ELSE "dangling"
  /\ object' = [object EXCEPT !.description = IF d = <<>> THEN 0 ELSE d[1]]
  /\ rendering' = Nothing

(* A value is replaced, or a header added: itself, its key and its value.  *)
HeaderBlocks(r, key) == IF HasKey(r.headers, key) THEN 0 ELSE 3

SetHeaderOf(key, length) ==
  /\ object' = SetHeader(object, key, <<length>>)
  /\ object_heap' = object_heap + HeaderBlocks(object, key)
  /\ rendering' = Nothing
  /\ UNCHANGED <<pointer, fault>>

(* Mutant of BodyBlocks: the old body is not freed.                        *)
BodyBlocksKept(r) == 1

(* destroy_body and malloc.                                                *)
BodyBlocks(r) == 1 - Bit(r.body.allocated)

SetBodyOf(length) ==
  /\ object_heap' = object_heap + BodyBlocks(object) + HeaderBlocks(object, ContentLength)
  /\ object' = SetBody(object, length)
  /\ rendering' = Nothing
  /\ UNCHANGED <<pointer, fault>>

(* Mutant of measure_response_size: the blank before the description is    *)
(* not counted.                                                            *)
measure_without_blank(r) ==
  (IF r.description # 0 THEN 8 + 3 + r.description + 3 ELSE 8 + 3 + 3)
    + SumFunction([i \in DOMAIN r.headers |->
                     KeyLength(r.headers[i].key) + r.headers[i].value[1] + 4])
    + 2 + r.body.length

measure_response_size(r) ==
  (IF r.description # 0 THEN 8 + 3 + r.description + 4 ELSE 8 + 3 + 3)
    + SumFunction([i \in DOMAIN r.headers |->
                     KeyLength(r.headers[i].key) + r.headers[i].value[1] + 4])
    + 2 + r.body.length

(* What the rendering writes, one copy_and_advance after the other.        *)
Copied(r) ==
  LET stateLine == 8 + 1 + 3 + (IF r.description # 0 THEN 1 + r.description ELSE 0) + 2
      headers == [i \in DOMAIN r.headers |->
                    KeyLength(r.headers[i].key) + 2 + r.headers[i].value[1] + 2]
  IN  stateLine + SumFunction(headers) + 2 + r.body.length

(* A buffer that is too short is left alone, and the size wanted returned. *)
(* Content-Length is set to "0", one digit, when there is no body (a debug *)
(* build first asserts that none was set: EmptyBodyNeverSet).  The         *)
(* caller's buffer is as long as measured, or longer or shorter.           *)
Render(slack) ==
  LET r    == IF object.body.length = 0 THEN SetHeader(object, ContentLength, <<1>>)
                                        ELSE object
      size == measure_response_size(r)
      offered == size + slack
  IN  /\ object' = r
      /\ object_heap' = object_heap + IF object.body.length = 0
                                        THEN HeaderBlocks(object, ContentLength) ELSE 0
      /\ rendering' = [offered |-> offered, returned |-> size,
                        written |-> IF offered < size THEN 0 ELSE Copied(r)]
      /\ UNCHANGED <<pointer, fault>>

ResponseBlocks(r) == 3 * Len(r.headers) + Bit(r.body.allocated)
Empty == [Initialized("OK") EXCEPT !.description = 0]

(* http_response_destroy, which ends in http_response_initialize.          *)
DestroyResponse ==
  /\ fault' = (fault \/ pointer = "dangling")
  /\ object_heap' = object_heap - Bit(pointer = "live") - ResponseBlocks(object)
  /\ pointer' = "null"
  /\ object' = Empty
  /\ rendering' = Nothing

ObjectInit ==
  /\ object = Empty /\ pointer = "null" /\ object_heap = 0 /\ fault = FALSE
  /\ rendering = Nothing

ObjectNext ==
  \/ \E d \in Described : SetCodeOf(d)
  \/ \E key \in Keys \ {ContentLength}, n \in Lengths : SetHeaderOf(key, n)
  \/ \E n \in Lengths : SetBodyOf(n)
  \/ \E slack \in {-1, 0, 1} : Render(slack)
  \/ DestroyResponse

ObjectSpec == ObjectInit /\ [][ObjectNext]_objectVars

-----------------------------------------------------------------------------
(* Properties                                                              *)

(* Every block is held by the response, through any sequence of calls: one *)
(* http_response_destroy frees all, and no call frees a block again.  A    *)
(* code that has no description, for which get_default_description gives   *)
(* "NULL if such code is not matched", would break the second part; the    *)
(* server sets none.                                                       *)
ResponseOwnsAll == object_heap = ResponseBlocks(object) + Bit(pointer = "live") /\ ~fault

(* "measure the size of buffer required to render the response": a buffer  *)
(* of the measured size is filled exactly, and a shorter one not touched.  *)
WritesWhatItMeasured ==
  rendering.written \in {0, rendering.returned} /\ rendering.written <= rendering.offered

=============================================================================
