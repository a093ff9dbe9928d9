-------------------------- MODULE AuthorizationCode --------------------------
(***************************************************************************)
(* get_authorization_code of server.c: random words are spelled in an      *)
(* alphabet of 64 characters, six bits a character; what is left of three  *)
(* words makes two more.  The code keeps 64-bit words, that is ten rounds  *)
(* and four bits left of each.                                             *)
(***************************************************************************)
EXTENDS Integers, Sequences

CONSTANTS
  Triples,  \* AuthorizationCodeLength / 32: groups of three words
  Rounds,   \* characters taken from each word before the last bits
  Words     \* what getrandom may give, of 6 * Rounds + 4 bits each

(* How many words of 6 * k + 4 bits there are.                             *)
Limit ==
  LET limit[k \in 0 .. Rounds] == IF k = 0 THEN 16 ELSE 64 * limit[k - 1]
  IN  limit

AuthorizationCodeAssumption ==
  /\ Triples \in Nat \ {0} /\ Rounds \in Nat
  /\ Words \subseteq 0 .. Limit[Rounds] - 1

VARIABLES
  random,         \* history: the words as drawn
  word_buffer,    \* the words, shifted as they are used
  code,           \* the characters written, up to target
  code_i, code_j  \* the loops' variables

codeVars == <<random, word_buffer, code, code_i, code_j>>

buffer_length == 3 * Triples
Span(first, n) == [k \in 1 .. n |-> first + k - 1]
map ==
  Span(48, 10) \o Span(65, 6) \o Span(87, 4) \o Span(97, 12) \o Span(71, 16)
    \o Span(109, 14) \o <<126, 64>>
Character(value) == map[value + 1]

(* a | b, on the six bits a character has.                                 *)
Or(a, b) ==
  LET bit(weight) == IF 1 \in {(a \div weight) % 2, (b \div weight) % 2} THEN weight ELSE 0
  IN  bit(1) + bit(2) + bit(4) + bit(8) + bit(16) + bit(32)

(* b & 0xc and b & 0x3                                                     *)
Upper(b) == 4 * ((b \div 4) % 4)
Lower(b) == b % 4

Spell ==
  /\ code_i < buffer_length
  /\ IF code_j < Rounds
       THEN /\ code' = Append(code, Character(word_buffer[code_i + 1] % 64))
            /\ word_buffer' = [word_buffer EXCEPT ![code_i + 1] = @ \div 64]
            /\ code_j' = code_j + 1 /\ code_i' = code_i
       ELSE code_i' = code_i + 1 /\ code_j' = 0 /\ UNCHANGED <<code, word_buffer>>
  /\ UNCHANGED random

(* Mutant of Rest: the upper bits of the second word are shifted one place *)
(* too few, onto bits that are in use.                                     *)
RestShiftedShort(a, b, c) ==
  <<Character(Or(a, Upper(b) * 2)), Character(Or(c, Lower(b) * 16))>>

(* Two characters of what is left of three words.                          *)
Rest(a, b, c) ==
  <<Character(Or(a, Upper(b) * 4)), Character(Or(c, Lower(b) * 16))>>

(* The second loop starts over; code_i goes on from buffer_length here.    *)
Pack ==
  LET first == code_i - buffer_length
  IN  /\ code_i >= buffer_length /\ first < buffer_length
      /\ code' =
           code \o Rest(word_buffer[first + 1], word_buffer[first + 2], word_buffer[first + 3])
      /\ code_i' = code_i + 3
      /\ UNCHANGED <<random, word_buffer, code_j>>

CodeInit ==
  /\ random \in [1 .. buffer_length -> Words]
  /\ word_buffer = random
  /\ code = <<>> /\ code_i = 0 /\ code_j = 0

CodeNext == Spell \/ Pack

CodeSpec == CodeInit /\ [][CodeNext]_codeVars

-----------------------------------------------------------------------------

(* Every bit of the random words is in the code: the words can be read     *)
(* back from it, so that all codes are equally likely.                     *)
Value(character) == (CHOOSE v \in 1 .. 64 : map[v] = character) - 1
Digit(word, k) == Value(code[(word - 1) * Rounds + k])
Left(word) ==   \* the last bits of a word, of the pair its group ends with
  LET group == (word - 1) \div 3
      one   == Value(code[buffer_length * Rounds + 2 * group + 1])
      two   == Value(code[buffer_length * Rounds + 2 * group + 2])
  IN  CASE word % 3 = 1 -> one % 16
        [] word % 3 = 2 -> 4 * (one \div 16) + two \div 16
        [] word % 3 = 0 -> two % 16
ReadBack(word) ==
  LET read[k \in 0 .. Rounds] ==
        IF k = 0 THEN Left(word) ELSE Digit(word, Rounds - k + 1) + 64 * read[k - 1]
  IN  read[Rounds]
NoBitLost ==
  code_i = 2 * buffer_length =>
    /\ Len(code) = Triples * (3 * Rounds + 2)
    /\ \A word \in 1 .. buffer_length : ReadBack(word) = random[word]

=============================================================================
