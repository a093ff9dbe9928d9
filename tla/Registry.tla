------------------------------ MODULE Registry ------------------------------
(***************************************************************************)
(* The list of struct file_descriptor_information in server.c: every open  *)
(* descriptor, listening or connected, has a node on the heap, and a       *)
(* static head points to the most recent one.  The nodes are linked by     *)
(* "next", and by "prev" to the place that points to them.                 *)
(*                                                                         *)
(* A node is named by its heap address.  An address freed may be returned  *)
(* by a later malloc; a pointer to a freed node is kept as it is, because  *)
(* that is what the program has.                                           *)
(***************************************************************************)
EXTENDS Integers, FiniteSets

CONSTANTS
  Addr,   \* heap addresses of nodes
  NULL

ASSUME RegistryAssumption == NULL \notin Addr

VARIABLES
  head,   \* *get_file_descriptor_list()
  node    \* the heap: what is or was at each address

HeadSlot == "head"   \* the address of head itself, a value of "prev"

Node == [live : BOOLEAN, type : {"listen", "connection"},
         next : Addr \union {NULL}, prev : {HeadSlot} \union Addr]

Live == {a \in Addr : node[a].live}
Connections == {a \in Live : node[a].type = "connection"}

RegistryInit ==
  /\ head = NULL
  /\ node = [a \in Addr |-> [live |-> FALSE, type |-> "listen",
                             next |-> NULL, prev |-> HeadSlot]]

(* Mutant of Register: the rest of the list is dropped.                    *)
RegisterAlone(a, type) ==
  /\ ~node[a].live
  /\ node' = [node EXCEPT ![a] = [live |-> TRUE, type |-> type,
                                  next |-> NULL, prev |-> HeadSlot]]
  /\ head' = a

(* register_file_descriptor: the new node is put in front.                 *)
Register(a, type) ==
  /\ ~node[a].live
  /\ node' = [node EXCEPT ![a] = [live |-> TRUE, type |-> type,
                                  next |-> head, prev |-> HeadSlot]]
  /\ head' = a

(* Mutant of Release: the place that points to it gets its own address.    *)
ReleaseWrongLink(a) ==
  /\ head' = node[a].prev
  /\ node' = [node EXCEPT ![a].live = FALSE]

(* destroy_file_information: *prev = next, and the node is freed.          *)
Release(a) ==
  LET slot == node[a].prev
  IN  IF slot = HeadSlot
      THEN /\ head' = node[a].next
           /\ node' = [node EXCEPT ![a].live = FALSE]
      ELSE /\ head' = head
           /\ node' = [node EXCEPT ![slot].next = node[a].next,
                                   ![a].live = FALSE]

(* The nodes met by following "next" from the head, freed ones included.   *)
Walk ==
  LET step[i \in 0 .. Cardinality(Addr)] ==
        IF i = 0 THEN head
        ELSE IF step[i - 1] = NULL THEN NULL ELSE node[step[i - 1]].next
  IN  step
Listed == {Walk[i] : i \in DOMAIN Walk} \ {NULL}

=============================================================================
