------------------------- MODULE HttpRequestProofs -------------------------
(***************************************************************************)
(* Proofs about HttpRequest, for any bytes the peer sends, however they    *)
(* are cut, and any memory behind the buffer: the types, that what is      *)
(* behind the buffer does not matter, that the verdict does not depend on  *)
(* the cuts, that what is allocated can be reached, and that a well-formed *)
(* message is parsed to what was sent.                                     *)
(***************************************************************************)
EXTENDS HttpRequest, SequenceTheorems, WellFoundedInduction, TLAPS

Byte == 0 .. 127

LEMMA Least ==
  ASSUME NEW T, T \subseteq Nat, T # {}
  PROVE  \E x \in T : \A y \in T : x <= y
<1>1. PICK x \in T : \A y \in T : ~(<<y, x>> \in OpToRel(<, Nat))
  BY NatLessThanWellFounded, WFMin
<1>2. \A y \in T : ~(y < x)
  BY <1>1 DEF OpToRel
<1> QED
  BY <1>2

LEMMA FirstIs ==
  ASSUME NEW T, T \subseteq Nat, T # {}
  PROVE  First(T) \in T /\ \A y \in T : First(T) <= y
<1>1. \E x \in T : \A y \in T : x <= y
  BY Least
<1> QED
  BY <1>1 DEF First

LEMMA FirstUnique ==
  ASSUME NEW T, T \subseteq Nat, NEW x \in T, \A y \in T : x <= y
  PROVE  First(T) = x
<1>1. First(T) \in T /\ First(T) <= x /\ x <= First(T)
  BY FirstIs
<1>2. First(T) \in Nat /\ x \in Nat
  BY <1>1
<1> QED
  BY <1>1, <1>2

-----------------------------------------------------------------------------
(* Memory                                                                  *)

(* A buffer of n bytes and what is behind it, up to a NUL.                 *)
Memory(mem, n) == mem \in Bytes /\ n \in Nat /\ n < Len(mem) /\ mem[Len(mem)] = NUL

Agree(mem, other, n) == \A k \in 1 .. n : mem[k] = other[k]

LEMMA MemoryParts ==
  ASSUME NEW mem, NEW n, Memory(mem, n)
  PROVE  /\ mem \in Seq(Byte) /\ Len(mem) \in Nat /\ n \in Nat /\ n < Len(mem)
         /\ \A k \in 1 .. Len(mem) : mem[k] \in Byte
         /\ \A k \in 1 .. n : mem[k] \in Byte
<1>1. mem \in Seq(Byte) /\ Len(mem) \in Nat /\ n \in Nat /\ n < Len(mem)
  BY LenProperties DEF Memory, Bytes, Byte
<1>2. \A k \in 1 .. Len(mem) : mem[k] \in Byte
  BY <1>1, ElementOfSeq
<1> QED
  BY <1>1, <1>2

LEMMA PieceIs ==
  ASSUME NEW mem, NEW n, Memory(mem, n), NEW a \in Nat \ {0}, NEW b \in Nat, b < Len(mem)
  PROVE  /\ SubSeq(mem, a, b) \in Bytes
         /\ Len(SubSeq(mem, a, b)) = IF a <= b THEN b - a + 1 ELSE 0
         /\ \A i \in 1 .. b - a + 1 : SubSeq(mem, a, b)[i] = mem[a + i - 1]
<1>1. \A i \in a .. b : mem[i] \in Byte
  BY MemoryParts
<1> QED
  BY <1>1, SubSeqProperties DEF Bytes, Byte

LEMMA PiecesAgree ==
  ASSUME NEW mem, NEW other, NEW n, Memory(mem, n), Memory(other, n), Agree(mem, other, n),
         NEW a \in Nat \ {0}, NEW b \in Nat, b <= n
  PROVE  SubSeq(mem, a, b) = SubSeq(other, a, b)
<1> DEFINE s == SubSeq(mem, a, b)
           t == SubSeq(other, a, b)
           l == b - a + 1
<1>1. n \in Nat /\ b < Len(mem) /\ b < Len(other)
  BY MemoryParts
<1>2. /\ s \in Bytes /\ Len(s) = (IF a <= b THEN l ELSE 0)
      /\ \A i \in 1 .. l : s[i] = mem[a + i - 1]
      /\ t \in Bytes /\ Len(t) = (IF a <= b THEN l ELSE 0)
      /\ \A i \in 1 .. l : t[i] = other[a + i - 1]
  BY <1>1, PieceIs
<1> HIDE DEF s, t
<1>3. \A i \in 1 .. Len(s) : i \in 1 .. l /\ a + i - 1 \in 1 .. n
  BY <1>1, <1>2
<1>4. \A i \in 1 .. Len(s) : mem[a + i - 1] = other[a + i - 1]
  BY <1>3 DEF Agree
<1>5. Len(s) = Len(t) /\ \A i \in 1 .. Len(s) : s[i] = t[i]
  <2>1. Len(s) = Len(t)
    BY <1>2
  <2>2. \A i \in 1 .. Len(s) : s[i] = mem[a + i - 1] /\ t[i] = other[a + i - 1]
    BY <1>2, <1>3
  <2> QED
    BY <1>4, <2>1, <2>2
<1>6. s = t
  BY <1>2, <1>5, SeqEqual DEF Bytes
<1> QED
  BY <1>6 DEF s, t

-----------------------------------------------------------------------------
(* Scanning                                                                *)

LEMMA NonBlankIs ==
  ASSUME NEW mem, NEW n, Memory(mem, n), NEW p \in 0 .. n
  PROVE  LET q == NonBlank(mem, n, p)
         IN  /\ q \in p .. n
             /\ q < n => mem[q + 1] \in Blank
             /\ \A k \in p + 1 .. q : mem[k] \notin Blank
<1> DEFINE At(q) == /\ q < n => mem[q + 1] \in Blank
                    /\ \A k \in p + 1 .. q : mem[k] \notin Blank
           T == {q \in p .. n : q < n => mem[q + 1] \in Blank}
<1>1. n \in Nat /\ T \subseteq Nat /\ n \in T
  BY MemoryParts
<1>2. PICK q \in T : \A y \in T : q <= y
  BY <1>1, Least
<1>3. q \in p .. n /\ At(q)
  <2>1. ASSUME NEW k \in p + 1 .. q PROVE mem[k] \notin Blank
    <3> DEFINE j == k - 1
    <3>1. j \in p .. n /\ j < n /\ ~(q <= j) /\ j + 1 = k
      BY <1>1
    <3> HIDE DEF j
    <3>2. j \notin T
      BY <1>2, <3>1
    <3> QED
      BY <3>1, <3>2
  <2> QED
    BY <2>1
<1>4. CASE p >= n
  <2>1. NonBlank(mem, n, p) = p /\ p = n
    BY <1>1, <1>4 DEF NonBlank
  <2> QED
    BY <1>1, <2>1
<1>5. CASE ~(p >= n)
  <2>1. NonBlank(mem, n, p) = CHOOSE r \in p .. n : At(r)
    BY <1>5 DEF NonBlank
  <2> HIDE DEF At
  <2>2. NonBlank(mem, n, p) \in p .. n /\ At(NonBlank(mem, n, p))
    BY <1>3, <2>1
  <2> QED
    BY <2>2 DEF At
<1> QED
  BY <1>4, <1>5

LEMMA SkipBlanksIs ==
  ASSUME NEW mem, NEW n, Memory(mem, n), NEW p \in 0 .. n
  PROVE  LET q == SkipBlanks(mem, p)
         IN  /\ q \in p .. Len(mem) - 1 /\ q \in Nat
             /\ mem[q + 1] \notin Blank
             /\ \A k \in p + 1 .. q : mem[k] \in Blank
<1> DEFINE At(q) == mem[q + 1] \notin Blank /\ \A k \in p + 1 .. q : mem[k] \in Blank
           l == Len(mem) - 1
           T == {q \in p .. l : mem[q + 1] \notin Blank}
<1>1. n \in Nat /\ l \in Nat /\ n <= l /\ l + 1 = Len(mem)
  BY MemoryParts
<1>2. mem[l + 1] \notin Blank
  BY <1>1 DEF Memory, Blank, NUL, LF, CR, SP
<1> HIDE DEF l
<1>3. T \subseteq Nat /\ l \in T
  BY <1>1, <1>2
<1>4. PICK q \in T : \A y \in T : q <= y
  BY <1>3, Least
<1>5. q \in p .. l /\ At(q)
  <2>1. ASSUME NEW k \in p + 1 .. q PROVE mem[k] \in Blank
    <3> DEFINE j == k - 1
    <3>1. j \in p .. l /\ ~(q <= j) /\ j + 1 = k
      BY <1>1
    <3> HIDE DEF j
    <3>2. j \notin T
      BY <1>4, <3>1
    <3> QED
      BY <3>1, <3>2
  <2> QED
    BY <2>1
<1>6. SkipBlanks(mem, p) = CHOOSE r \in p .. l : At(r)
  BY DEF SkipBlanks, l
<1> HIDE DEF At
<1>7. SkipBlanks(mem, p) \in p .. l /\ At(SkipBlanks(mem, p))
  BY <1>5, <1>6
<1> QED
  BY <1>1, <1>7 DEF At, l

LEMMA NonBlanksAgree ==
  ASSUME NEW mem, NEW other, NEW n, Memory(mem, n), Memory(other, n), Agree(mem, other, n),
         NEW p \in 0 .. n
  PROVE  NonBlank(mem, n, p) = NonBlank(other, n, p)
<1> DEFINE q == NonBlank(mem, n, p)
           r == NonBlank(other, n, p)
<1>1. /\ n \in Nat /\ q \in p .. n /\ r \in p .. n
      /\ q < n => mem[q + 1] \in Blank
      /\ r < n => other[r + 1] \in Blank
      /\ \A k \in p + 1 .. q : mem[k] \notin Blank
      /\ \A k \in p + 1 .. r : other[k] \notin Blank
  BY MemoryParts, NonBlankIs
<1> HIDE DEF q, r
<1>2. ~(q < r)
  <2> SUFFICES ASSUME q < r PROVE FALSE
    OBVIOUS
  <2>1. q + 1 \in p + 1 .. r /\ q < n /\ q + 1 \in 1 .. n
    BY <1>1
  <2> QED
    BY <1>1, <2>1 DEF Agree
<1>3. ~(r < q)
  <2> SUFFICES ASSUME r < q PROVE FALSE
    OBVIOUS
  <2>1. r + 1 \in p + 1 .. q /\ r < n /\ r + 1 \in 1 .. n
    BY <1>1
  <2> QED
    BY <1>1, <2>1 DEF Agree
<1>4. q = r
  BY <1>1, <1>2, <1>3
<1> QED
  BY <1>4 DEF q, r

(* With more of the buffer there the scan gets to the same blank, or goes  *)
(* on where it had to stop.                                                *)
LEMMA NonBlankLonger ==
  ASSUME NEW mem, NEW n, NEW m, Memory(mem, n), Memory(mem, m), n < m, NEW p \in 0 .. n
  PROVE  LET q == NonBlank(mem, n, p)
         IN  IF q < n THEN NonBlank(mem, m, p) = q ELSE NonBlank(mem, m, p) >= n
<1> DEFINE q == NonBlank(mem, n, p)
           r == NonBlank(mem, m, p)
<1>1. p \in 0 .. m /\ n \in Nat /\ m \in Nat
  BY MemoryParts
<1>2. /\ q \in p .. n /\ r \in p .. m
      /\ q < n => mem[q + 1] \in Blank
      /\ r < m => mem[r + 1] \in Blank
      /\ \A k \in p + 1 .. q : mem[k] \notin Blank
      /\ \A k \in p + 1 .. r : mem[k] \notin Blank
  BY <1>1, NonBlankIs
<1> HIDE DEF q, r
<1>3. ASSUME r < q PROVE FALSE
  <2>1. r + 1 \in p + 1 .. q /\ r < m
    BY <1>1, <1>2, <1>3
  <2> QED
    BY <1>2, <2>1
<1>4. ASSUME q < n, q < r PROVE FALSE
  <2>1. q + 1 \in p + 1 .. r
    BY <1>1, <1>2, <1>4
  <2> QED
    BY <1>2, <1>4, <2>1
<1>5. IF q < n THEN r = q ELSE r >= n
  BY <1>1, <1>2, <1>3, <1>4
<1> QED
  BY <1>5 DEF q, r

(* If the blanks end inside the buffer, so does skipping them.             *)
LEMMA SkipInside ==
  ASSUME NEW mem, NEW n, Memory(mem, n), NEW p \in 0 .. n, p < n, ~RunsOut(mem, n, p)
  PROVE  /\ SkipBlanks(mem, p) \in p .. n - 1 /\ SkipBlanks(mem, p) \in 0 .. n
         /\ NonBlank(mem, n, SkipBlanks(mem, p)) # SkipBlanks(mem, p)
<1> DEFINE q == SkipBlanks(mem, p)
           e == NonBlank(mem, n, q)
<1>1. PICK k \in p + 1 .. n : mem[k] \notin Blank
  BY DEF RunsOut
<1>2. /\ n \in Nat /\ q \in Nat /\ q >= p /\ mem[q + 1] \notin Blank
      /\ \A j \in p + 1 .. q : mem[j] \in Blank
  BY MemoryParts, SkipBlanksIs
<1> HIDE DEF q
<1>3. q < n
  <2> SUFFICES ASSUME q >= n PROVE FALSE
    BY <1>2
  <2>1. k \in p + 1 .. q
    BY <1>2
  <2> QED
    BY <1>1, <1>2, <2>1
<1>4. q \in p .. n - 1 /\ q \in 0 .. n
  BY <1>2, <1>3
<1>5. e < n => mem[e + 1] \in Blank
  BY <1>4, NonBlankIs
<1>6. e # q
  BY <1>2, <1>3, <1>5
<1> QED
  BY <1>4, <1>6 DEF q, e

LEMMA SkipsAgree ==
  ASSUME NEW mem, NEW other, NEW n, Memory(mem, n), Memory(other, n), Agree(mem, other, n),
         NEW p \in 0 .. n, p < n, ~RunsOut(mem, n, p)
  PROVE  ~RunsOut(other, n, p) /\ SkipBlanks(mem, p) = SkipBlanks(other, p)
<1> DEFINE q == SkipBlanks(mem, p)
           r == SkipBlanks(other, p)
<1>1. ~RunsOut(other, n, p)
  <2>1. PICK k \in p + 1 .. n : mem[k] \notin Blank
    BY DEF RunsOut
  <2>2. k \in 1 .. n
    BY MemoryParts
  <2> QED
    BY <2>1, <2>2 DEF RunsOut, Agree
<1>2. /\ n \in Nat /\ q \in p .. n - 1 /\ r \in p .. n - 1
      /\ mem[q + 1] \notin Blank /\ other[r + 1] \notin Blank
      /\ \A k \in p + 1 .. q : mem[k] \in Blank
      /\ \A k \in p + 1 .. r : other[k] \in Blank
  BY <1>1, MemoryParts, SkipBlanksIs, SkipInside
<1> HIDE DEF q, r
<1>3. ~(q < r)
  <2> SUFFICES ASSUME q < r PROVE FALSE
    OBVIOUS
  <2>1. q + 1 \in p + 1 .. r /\ q + 1 \in 1 .. n
    BY <1>2
  <2> QED
    BY <1>2, <2>1 DEF Agree
<1>4. ~(r < q)
  <2> SUFFICES ASSUME r < q PROVE FALSE
    OBVIOUS
  <2>1. r + 1 \in p + 1 .. q /\ r + 1 \in 1 .. n
    BY <1>2
  <2> QED
    BY <1>2, <2>1 DEF Agree
<1>5. q = r
  BY <1>2, <1>3, <1>4
<1> QED
  BY <1>1, <1>5 DEF q, r

(* From the end of the buffer on there is no word in it.                   *)
LEMMA NoWordBehind ==
  ASSUME NEW mem, NEW n, Memory(mem, n)
  PROVE  NonBlank(mem, n, SkipBlanks(mem, n)) = SkipBlanks(mem, n)
<1>1. n \in 0 .. n /\ n \in Nat
  BY MemoryParts
<1>2. SkipBlanks(mem, n) >= n
  BY <1>1, SkipBlanksIs
<1> QED
  BY <1>2 DEF NonBlank

-----------------------------------------------------------------------------
(* A header line                                                           *)

(* The colons inside the line from p to q.                                 *)
ColonsInside(mem, p, q) ==
  {k \in p .. q - 1 : mem[k + 1] = COLON /\ \A j \in p + 1 .. k : mem[j] # NUL}

FieldAt(mem, p, colon, q) ==
  IF (\E k \in p + 1 .. colon : mem[k] \in Blank) \/ Trimmed(mem, colon + 1, q) = <<>>
  THEN <<>>
  ELSE <<[key |-> Slice(mem, p, colon), value |-> Trimmed(mem, colon + 1, q)]>>

(* A colon that strchr finds behind the line does not make it a header.    *)
LEMMA FieldIs ==
  ASSUME NEW mem, NEW n, Memory(mem, n), NEW p \in 0 .. n, NEW q \in p .. n - 2,
         mem[q + 1] = CR
  PROVE  LET inside == ColonsInside(mem, p, q)
         IN  Field(mem, p, q)
               = IF inside = {} THEN <<>> ELSE FieldAt(mem, p, First(inside), q)
<1> DEFINE inside == ColonsInside(mem, p, q)
           all == Colons(mem, p)
           c == First(all)
<1>1. /\ n \in Nat /\ Len(mem) \in Nat /\ n < Len(mem) /\ p \in Nat /\ q \in Nat
      /\ p <= q /\ q + 2 <= n
  BY MemoryParts
<1>2. /\ all \subseteq Nat /\ inside \subseteq all
      /\ \A k \in all : k \in p .. Len(mem) - 1 /\ mem[k + 1] = COLON
      /\ \A k \in all : k < q => k \in inside
      /\ \A k \in inside : k < q /\ k \in p .. q
  BY <1>1 DEF ColonsInside, Colons
<1>3. CR \in Blank /\ CR # COLON
  BY DEF Blank, CR, COLON
<1>4. Field(mem, p, q) = IF all = {} THEN <<>> ELSE FieldAt(mem, p, c, q)
  BY DEF Field, FieldAt
<1> HIDE DEF inside, all
<1>5. CASE inside = {}
  <2>1. CASE all = {}
    BY <1>4, <1>5, <2>1 DEF inside
  <2>2. CASE all # {}
    <3>1. c \in all /\ c \in Nat
      BY <1>2, <2>2, FirstIs
    <3> HIDE DEF c
    <3>2. c >= q /\ c # q
      BY <1>1, <1>2, <1>3, <1>5, <3>1
    <3>3. q + 1 \in p + 1 .. c
      BY <1>1, <3>1, <3>2
    <3>4. FieldAt(mem, p, c, q) = <<>>
      BY <1>3, <3>3 DEF FieldAt
    <3> QED
      BY <1>4, <1>5, <2>2, <3>4 DEF c, inside
  <2> QED
    BY <2>1, <2>2
<1>6. CASE inside # {}
  <2>1. inside \subseteq Nat
    BY <1>2
  <2> DEFINE d == First(inside)
  <2>2. d \in inside /\ \A k \in inside : d <= k
    BY <1>6, <2>1, FirstIs
  <2> HIDE DEF d
  <2>3. d \in all /\ \A k \in all : d <= k
    <3>1. d \in all /\ d < q /\ d \in Nat
      BY <1>2, <2>2
    <3>2. ASSUME NEW k \in all PROVE d <= k
      <4>1. k \in Nat /\ (k < q => k \in inside)
        BY <1>2
      <4> QED
        BY <1>1, <2>2, <3>1, <4>1
    <3> QED
      BY <3>1, <3>2
  <2>4. c = d
    BY <1>2, <2>3, FirstUnique
  <2>5. all # {}
    BY <2>3
  <2>6. Field(mem, p, q) = FieldAt(mem, p, d, q)
    BY <1>4, <2>4, <2>5
  <2> QED
    BY <1>6, <2>6 DEF d, inside
<1> QED
  BY <1>5, <1>6 DEF inside

LEMMA LastExists ==
  ASSUME NEW T, T \subseteq Nat, T # {}, NEW q \in Nat, \A k \in T : k <= q
  PROVE  \E k \in T : \A j \in T : j <= k
<1> DEFINE rest == {i \in Nat : q - i \in T}
<1>1. rest # {}
  <2>1. PICK k \in T : TRUE
    OBVIOUS
  <2>2. q - k \in Nat /\ q - (q - k) = k
    OBVIOUS
  <2> QED
    BY <2>1, <2>2
<1>2. PICK i \in rest : \A j \in rest : i <= j
  BY <1>1, Least
<1>3. \A j \in T : j <= q - i
  <2> TAKE j \in T
  <2>1. q - j \in Nat /\ q - (q - j) = j
    OBVIOUS
  <2>2. q - j \in rest
    BY <2>1
  <2>3. i <= q - j
    BY <1>2, <2>2
  <2> QED
    BY <1>2, <2>3
<1> QED
  BY <1>2, <1>3

LEMMA LastIs ==
  ASSUME NEW T, T \subseteq Nat, T # {}, NEW q \in Nat, \A k \in T : k <= q
  PROVE  (CHOOSE k \in T : \A j \in T : j <= k) \in T
<1>1. \E k \in T : \A j \in T : j <= k
  BY LastExists
<1> QED
  BY <1>1

LEMMA TrimmedIs ==
  ASSUME NEW mem, NEW n, Memory(mem, n), NEW p \in 0 .. n, NEW q \in 0 .. n
  PROVE  Trimmed(mem, p, q) \in Bytes
<1> DEFINE kept == {k \in p + 1 .. q : mem[k] \notin Blank}
           last == CHOOSE k \in kept : \A j \in kept : j <= k
<1>1. Trimmed(mem, p, q) = IF kept = {} THEN <<>> ELSE SubSeq(mem, First(kept), last)
  BY DEF Trimmed
<1>2. /\ kept \subseteq Nat /\ \A k \in kept : k \in Nat \ {0} /\ k <= n /\ k <= q
      /\ n \in Nat /\ n < Len(mem) /\ Len(mem) \in Nat /\ q \in Nat
  BY MemoryParts
<1> HIDE DEF kept
<1>3. CASE kept = {}
  <2>1. <<>> \in Bytes
    BY EmptySeq DEF Bytes
  <2> QED
    BY <1>1, <1>3, <2>1
<1>4. CASE kept # {}
  <2>1. last \in kept /\ First(kept) \in kept
    BY <1>2, <1>4, FirstIs, LastIs
  <2> HIDE DEF last
  <2>2. First(kept) \in Nat \ {0} /\ last \in Nat /\ last < Len(mem)
    <3>1. First(kept) \in Nat \ {0} /\ last \in Nat /\ last <= n
      BY <1>2, <2>1, Zenon
    <3> QED
      BY <1>2, <3>1
  <2>3. SubSeq(mem, First(kept), last) \in Bytes
    BY <2>2, PieceIs
  <2> QED
    BY <1>1, <1>4, <2>3
<1> QED
  BY <1>3, <1>4

LEMMA TrimsAgree ==
  ASSUME NEW mem, NEW other, NEW n, Memory(mem, n), Memory(other, n), Agree(mem, other, n),
         NEW p \in 0 .. n, NEW q \in 0 .. n
  PROVE  Trimmed(mem, p, q) = Trimmed(other, p, q)
<1> DEFINE kept == {k \in p + 1 .. q : mem[k] \notin Blank}
           same == {k \in p + 1 .. q : other[k] \notin Blank}
           last == CHOOSE k \in kept : \A j \in kept : j <= k
           end == CHOOSE k \in same : \A j \in same : j <= k
<1>1. same = kept
  <2>1. \A k \in p + 1 .. q : k \in 1 .. n
    BY MemoryParts
  <2> QED
    BY <2>1 DEF Agree
<1>2. /\ Trimmed(mem, p, q) = IF kept = {} THEN <<>> ELSE SubSeq(mem, First(kept), last)
      /\ Trimmed(other, p, q) = IF same = {} THEN <<>> ELSE SubSeq(other, First(same), end)
  BY DEF Trimmed
<1>3. /\ kept \subseteq Nat /\ \A k \in kept : k \in Nat \ {0} /\ k <= n /\ k <= q
      /\ n \in Nat /\ q \in Nat
  BY MemoryParts
<1> HIDE DEF kept, same
<1>4. end = last
  BY <1>1
<1>5. CASE kept = {}
  BY <1>1, <1>2, <1>5
<1>6. CASE kept # {}
  <2>1. last \in kept /\ First(kept) \in kept
    BY <1>3, <1>6, FirstIs, LastIs
  <2> HIDE DEF last, end
  <2>2. First(kept) \in Nat \ {0} /\ last \in Nat /\ last <= n
    BY <1>3, <2>1
  <2>3. SubSeq(mem, First(kept), last) = SubSeq(other, First(kept), last)
    BY <2>2, PiecesAgree
  <2> QED
    BY <1>1, <1>2, <1>4, <2>3
<1> QED
  BY <1>5, <1>6

(* What is between a header's blanks and colon is in the buffer.           *)
LEMMA ColonsAre ==
  ASSUME NEW mem, NEW n, Memory(mem, n), NEW p \in 0 .. n, NEW q \in p .. n - 2
  PROVE  LET inside == ColonsInside(mem, p, q)
         IN  /\ inside \subseteq Nat
             /\ \A k \in inside : k \in 0 .. n /\ k + 1 \in 0 .. n /\ k >= p /\ k < q
BY MemoryParts DEF ColonsInside

LEMMA FieldsAgree ==
  ASSUME NEW mem, NEW other, NEW n, Memory(mem, n), Memory(other, n), Agree(mem, other, n),
         NEW p \in 0 .. n, NEW q \in p .. n - 2, mem[q + 1] = CR
  PROVE  Field(mem, p, q) = Field(other, p, q)
<1> DEFINE inside == ColonsInside(mem, p, q)
           c == First(inside)
<1>1. n \in Nat /\ q \in 0 .. n /\ q + 1 \in 1 .. n
  BY MemoryParts
<1>2. other[q + 1] = CR
  BY <1>1 DEF Agree
<1>3. ColonsInside(other, p, q) = inside
  <2>1. \A k \in p .. q - 1 : k + 1 \in 1 .. n /\ \A j \in p + 1 .. k : j \in 1 .. n
    BY <1>1
  <2>2. \A k \in p .. q - 1 : /\ mem[k + 1] = other[k + 1]
                              /\ \A j \in p + 1 .. k : mem[j] = other[j]
    BY <2>1, Zenon DEF Agree
  <2> QED
    BY <2>2 DEF ColonsInside
<1>4. /\ Field(mem, p, q) = IF inside = {} THEN <<>> ELSE FieldAt(mem, p, c, q)
      /\ Field(other, p, q) = IF inside = {} THEN <<>> ELSE FieldAt(other, p, c, q)
  BY <1>2, <1>3, FieldIs
<1>5. inside # {} => c \in 0 .. n /\ c + 1 \in 0 .. n
  BY ColonsAre, FirstIs
<1> HIDE DEF inside, c
<1>6. CASE inside = {}
  BY <1>4, <1>6
<1>7. CASE inside # {}
  <2>1. Trimmed(mem, c + 1, q) = Trimmed(other, c + 1, q)
    BY <1>1, <1>5, <1>7, TrimsAgree
  <2>2. Slice(mem, p, c) = Slice(other, p, c)
    <3>1. p + 1 \in Nat \ {0} /\ c \in Nat /\ c <= n
      BY <1>1, <1>5, <1>7
    <3> QED
      BY <3>1, PiecesAgree DEF Slice
  <2>3. (\E k \in p + 1 .. c : mem[k] \in Blank) <=> (\E k \in p + 1 .. c : other[k] \in Blank)
    <3>1. \A k \in p + 1 .. c : k \in 1 .. n
      BY <1>1, <1>5, <1>7
    <3> QED
      BY <3>1 DEF Agree
  <2>4. FieldAt(mem, p, c, q) = FieldAt(other, p, c, q)
    BY <2>1, <2>2, <2>3 DEF FieldAt
  <2> QED
    BY <1>4, <2>4
<1> QED
  BY <1>6, <1>7

FieldType == [key : Bytes, value : Bytes \ {<<>>}]

LEMMA FieldTyped ==
  ASSUME NEW mem, NEW n, Memory(mem, n), NEW p \in 0 .. n, NEW q \in p .. n - 2,
         mem[q + 1] = CR, Field(mem, p, q) # <<>>
  PROVE  Field(mem, p, q)[1] \in FieldType
<1> DEFINE inside == ColonsInside(mem, p, q)
           c == First(inside)
           value == Trimmed(mem, c + 1, q)
           key == Slice(mem, p, c)
<1>1. n \in Nat /\ q \in 0 .. n
  BY MemoryParts
<1>2. Field(mem, p, q) = IF inside = {} THEN <<>> ELSE FieldAt(mem, p, c, q)
  BY FieldIs
<1>3. inside # {} /\ FieldAt(mem, p, c, q) # <<>>
  BY <1>2
<1>4. value # <<>> /\ FieldAt(mem, p, c, q) = <<[key |-> key, value |-> value]>>
  BY <1>3 DEF FieldAt
<1>5. c \in 0 .. n /\ c + 1 \in 0 .. n
  BY <1>3, ColonsAre, FirstIs
<1> HIDE DEF inside, c
<1>6. value \in Bytes
  BY <1>1, <1>5, TrimmedIs
<1>7. key \in Bytes
  <2>1. p + 1 \in Nat \ {0} /\ c \in Nat /\ c < Len(mem)
    BY <1>5, MemoryParts
  <2> QED
    BY <2>1, PieceIs DEF Slice
<1> HIDE DEF key, value
<1>8. Field(mem, p, q)[1] = [key |-> key, value |-> value]
  BY <1>2, <1>3, <1>4
<1> QED
  BY <1>4, <1>6, <1>7, <1>8 DEF FieldType

-----------------------------------------------------------------------------
(* The header list                                                         *)

(* Every header of a list has a value, as http_request_get_header expects. *)
Filled(list) == list \in Headers /\ \A k \in 1 .. Len(list) : list[k] \in FieldType

(* lookup_header finds a place in any list.                                *)
LEMMA PlaceHolds ==
  ASSUME NEW list, Len(list) \in Nat, NEW key
  PROVE  LET k == RequestPlace(list, key)
         IN  /\ k \in 1 .. Len(list) + 1
             /\ \A j \in 1 .. k - 1 : Before(list[j].key, key)
             /\ k <= Len(list) => ~Before(list[k].key, key)
<1> DEFINE l == Len(list)
           At(k) == /\ \A j \in 1 .. k - 1 : Before(list[j].key, key)
                    /\ k <= Len(list) => ~Before(list[k].key, key)
           T == {k \in 1 .. l + 1 : k <= l => ~Before(list[k].key, key)}
<1>1. T \subseteq Nat /\ l + 1 \in T
  OBVIOUS
<1>2. PICK k \in T : \A y \in T : k <= y
  BY <1>1, Least
<1>3. k \in 1 .. Len(list) + 1 /\ At(k)
  <2>1. ASSUME NEW j \in 1 .. k - 1 PROVE Before(list[j].key, key)
    <3>1. j \in 1 .. l /\ ~(k <= j)
      BY <1>2
    <3>2. j \notin T
      BY <1>2, <3>1
    <3> QED
      BY <3>1, <3>2
  <2> QED
    BY <2>1
<1>4. RequestPlace(list, key) = CHOOSE i \in 1 .. Len(list) + 1 : At(i)
  BY DEF RequestPlace
<1> HIDE DEF At
<1>5. RequestPlace(list, key) \in 1 .. Len(list) + 1 /\ At(RequestPlace(list, key))
  BY <1>3, <1>4
<1> QED
  BY <1>5 DEF At

LEMMA InsertFills ==
  ASSUME NEW list, Filled(list), NEW field \in FieldType
  PROVE  Filled(Insert(list, field)) /\ Len(Insert(list, field)) = Len(list) + 1
<1> DEFINE p == RequestPlace(list, field.key)
           n == Len(list)
           a == SubSeq(list, 1, p - 1)
           one == <<field>>
           b == SubSeq(list, p, n)
           c == a \o one
           s == c \o b
<1>1. n \in Nat /\ p \in 1 .. n + 1 /\ \A k \in 1 .. n : list[k] \in FieldType
  BY PlaceHolds DEF Filled, Headers
<1>2. a \in Seq(FieldType) /\ Len(a) = p - 1
  <2> DEFINE e == p - 1
  <2>1. e \in Int /\ e <= n /\ 1 \in Int /\ (1 <= e \/ e = 0)
    BY <1>1
  <2>2. \A i \in 1 .. e : list[i] \in FieldType
    BY <1>1, <2>1
  <2> HIDE DEF e, p, n
  <2>3. SubSeq(list, 1, e) \in Seq(FieldType)
        /\ Len(SubSeq(list, 1, e)) = IF 1 <= e THEN e - 1 + 1 ELSE 0
    BY <2>1, <2>2, SubSeqProperties
  <2> QED
    BY <2>1, <2>3 DEF e
<1>3. b \in Seq(FieldType) /\ Len(b) = n + 1 - p
  <2> HIDE DEF p, n
  <2>1. p \in Int /\ n \in Int /\ \A i \in p .. n : list[i] \in FieldType
    BY <1>1
  <2>2. SubSeq(list, p, n) \in Seq(FieldType)
        /\ Len(SubSeq(list, p, n)) = IF p <= n THEN n - p + 1 ELSE 0
    BY <2>1, SubSeqProperties
  <2> QED
    BY <1>1, <2>2
<1>4. one \in Seq(FieldType) /\ Len(one) = 1
  OBVIOUS
<1> HIDE DEF a, b, one, p, n
<1>5. c \in Seq(FieldType) /\ Len(c) = Len(a) + Len(one)
  BY <1>2, <1>4, ConcatProperties
<1> HIDE DEF c
<1>6. s \in Seq(FieldType) /\ Len(s) = Len(c) + Len(b)
  BY <1>3, <1>5, ConcatProperties
<1>7. Len(s) = n + 1
  BY <1>1, <1>2, <1>3, <1>4, <1>5, <1>6
<1>8. Insert(list, field) = s
  BY DEF Insert, InsertAt, s, c, a, b, one, p, n
<1> HIDE DEF s
<1>9. s \in Headers
  <2> DEFINE R == [key : Bytes, value : Bytes]
  <2>1. FieldType \subseteq R
    BY DEF FieldType
  <2>2. Headers = Seq(R)
    BY DEF Headers
  <2> HIDE DEF R
  <2>3. s \in [1 .. Len(s) -> FieldType] /\ Len(s) \in Nat
    BY <1>6, LenProperties
  <2>4. s \in [1 .. Len(s) -> R]
    BY <2>1, <2>3
  <2> QED
    BY <2>2, <2>3, <2>4, SeqDef
<1>10. Filled(s)
  BY <1>6, <1>9, ElementOfSeq DEF Filled
<1> QED
  BY <1>7, <1>8, <1>10 DEF n


-----------------------------------------------------------------------------
(* The header lines                                                        *)

(* What is made of the line at p, for any list before it, when g tells     *)
(* what is made of the lines after it.                                     *)
LineAt(mem, n, url, version, g, p) ==
  LET ends == LineEnds(mem, n, p)
      end  == First(ends)
  IN  [list \in Headers |->
         LET field == Field(mem, p, end)
         IN  IF ends = {} THEN Stop("incomplete", url, version, list)
             ELSE IF end = p THEN
               IF p + 2 = n
                 THEN Outcome("succeed", "parsed", url, version, list, 0)
                 ELSE Stop("invalid", url, version, list)
             ELSE IF field = <<>> THEN Stop("invalid", url, version, list)
             ELSE IF Found(list, field[1].key)
               THEN Outcome("duplicate", "invalid", url, version, list, 3)
             ELSE g[end + 2][Insert(list, field[1])]]

(* The same for one list.                                                  *)
LineFor(mem, n, url, version, g, p, ends, end, field, list) ==
  IF ends = {} THEN Stop("incomplete", url, version, list)
  ELSE IF end = p THEN
    IF p + 2 = n
      THEN Outcome("succeed", "parsed", url, version, list, 0)
      ELSE Stop("invalid", url, version, list)
  ELSE IF field = <<>> THEN Stop("invalid", url, version, list)
  ELSE IF Found(list, field[1].key)
    THEN Outcome("duplicate", "invalid", url, version, list, 3)
  ELSE g[end + 2][Insert(list, field[1])]

LEMMA LineIs ==
  ASSUME NEW mem, NEW n, NEW url, NEW version, NEW g, NEW p, NEW list \in Headers
  PROVE  LineAt(mem, n, url, version, g, p)[list]
           = LineFor(mem, n, url, version, g, p, LineEnds(mem, n, p),
                     First(LineEnds(mem, n, p)),
                     Field(mem, p, First(LineEnds(mem, n, p))), list)
<1> DEFINE ends == LineEnds(mem, n, p)
           end == First(ends)
           F(l) == LineFor(mem, n, url, version, g, p, ends, end, Field(mem, p, end), l)
<1>1. LineAt(mem, n, url, version, g, p) = [l \in Headers |-> F(l)]
  BY Zenon DEF LineAt, LineFor
<1> HIDE DEF F
<1>2. [l \in Headers |-> F(l)][list] = F(list)
  OBVIOUS
<1> QED
  BY <1>1, <1>2, Zenon DEF F

LEMMA LineEndIs ==
  ASSUME NEW mem, NEW n \in Nat, NEW p \in 0 .. n, LineEnds(mem, n, p) # {}
  PROVE  LET end == First(LineEnds(mem, n, p))
         IN  /\ end \in p .. n - 2 /\ end + 2 \in p + 1 .. n
             /\ mem[end + 1] = CR /\ mem[end + 2] = LF
<1>1. LineEnds(mem, n, p) \subseteq Nat
  BY DEF LineEnds
<1>2. First(LineEnds(mem, n, p)) \in LineEnds(mem, n, p)
  BY <1>1, FirstIs
<1> QED
  BY <1>2 DEF LineEnds

(* A line looks only at what comes after it.                               *)
LEMMA LineLooksAhead ==
  ASSUME NEW mem, NEW n \in Nat, NEW url, NEW version, NEW p \in 0 .. n, NEW g, NEW h,
         \A q \in p + 1 .. n : g[q] = h[q]
  PROVE  LineAt(mem, n, url, version, g, p) = LineAt(mem, n, url, version, h, p)
<1> DEFINE ends == LineEnds(mem, n, p)
           end == First(ends)
<1>1. ends # {} => g[end + 2] = h[end + 2]
  BY LineEndIs
<1> HIDE DEF ends, end
<1> QED
  BY <1>1, Zenon DEF LineAt, ends, end

LinesFrom(g, mem, n, url, version, from) ==
  \A p \in from .. n : g[p] = LineAt(mem, n, url, version, g, p)

LEMMA LinesExist ==
  ASSUME NEW mem, NEW n \in Nat, NEW url, NEW version
  PROVE  \E g : LinesFrom(g, mem, n, url, version, 0)
<1> DEFINE Good(m) == \E g : LinesFrom(g, mem, n, url, version, n - m)
           T == {m \in 0 .. n : ~Good(m)}
<1>1. ASSUME NEW m \in 0 .. n, NEW g,
             \A p \in n - m + 1 .. n : g[p] = LineAt(mem, n, url, version, g, p)
      PROVE  Good(m)
  <2> DEFINE from == n - m
             h == [p \in 0 .. n |->
                    IF p = from THEN LineAt(mem, n, url, version, g, from) ELSE g[p]]
  <2>1. from \in 0 .. n /\ \A q \in from + 1 .. n : h[q] = g[q]
    OBVIOUS
  <2>2. h[from] = LineAt(mem, n, url, version, g, from)
    BY <2>1
  <2>3. \A p \in from + 1 .. n : g[p] = LineAt(mem, n, url, version, g, p)
    BY <1>1
  <2> HIDE DEF from, h
  <2>4. ASSUME NEW p \in from .. n
        PROVE  h[p] = LineAt(mem, n, url, version, h, p)
    <3>1. p \in 0 .. n /\ \A q \in p + 1 .. n : g[q] = h[q]
      BY <2>1
    <3>2. LineAt(mem, n, url, version, g, p) = LineAt(mem, n, url, version, h, p)
      BY <3>1, LineLooksAhead
    <3>3. p = from \/ p \in from + 1 .. n
      BY <2>1
    <3> QED
      BY <2>1, <2>2, <2>3, <3>2, <3>3
  <2>5. LinesFrom(h, mem, n, url, version, from)
    BY <2>4 DEF LinesFrom
  <2> QED
    BY <2>5 DEF from
<1>2. T = {}
  <2> SUFFICES ASSUME T # {} PROVE FALSE
    OBVIOUS
  <2>1. T \subseteq Nat
    OBVIOUS
  <2>2. PICK m \in T : \A k \in T : m <= k
    BY <2>1, Least
  <2>3. m \in 0 .. n /\ ~Good(m)
    OBVIOUS
  <2>4. CASE m = 0
    <3>1. \A p \in n - m + 1 .. n : mem[p] = LineAt(mem, n, url, version, mem, p)
      BY <2>4
    <3> QED
      BY <1>1, <2>3, <3>1
  <2>5. CASE m # 0
    <3>1. m - 1 \in 0 .. n /\ n - (m - 1) = n - m + 1
      BY <2>3, <2>5
    <3>2. m - 1 \notin T
      BY <2>2, <2>3, <3>1
    <3>3. PICK g : LinesFrom(g, mem, n, url, version, n - (m - 1))
      BY <3>1, <3>2
    <3>4. \A p \in n - m + 1 .. n : g[p] = LineAt(mem, n, url, version, g, p)
      BY <3>1, <3>3 DEF LinesFrom
    <3> QED
      BY <1>1, <2>3, <3>4
  <2> QED
    BY <2>4, <2>5
<1>3. Good(n)
  BY <1>2
<1>4. n - n = 0
  OBVIOUS
<1> QED
  BY <1>3, <1>4

LEMMA HeaderLinesAre ==
  ASSUME NEW mem, NEW n \in Nat, NEW url, NEW version
  PROVE  LinesFrom(HeaderLines(mem, n, url, version), mem, n, url, version, 0)
<1> DEFINE Is(g) == g = [p \in 0 .. n |-> LineAt(mem, n, url, version, g, p)]
           F == CHOOSE g : Is(g)
<1>1. HeaderLines(mem, n, url, version) = F
  BY Zenon DEF HeaderLines, LineAt
<1>2. PICK g : LinesFrom(g, mem, n, url, version, 0)
  BY LinesExist
<1>3. \E h : Is(h)
  <2> DEFINE h == [p \in 0 .. n |-> g[p]]
  <2>1. \A p \in 0 .. n : h[p] = g[p]
    OBVIOUS
  <2> HIDE DEF h
  <2>2. ASSUME NEW p \in 0 .. n
        PROVE  g[p] = LineAt(mem, n, url, version, h, p)
    <3>1. \A q \in p + 1 .. n : g[q] = h[q]
      BY <2>1
    <3>2. LineAt(mem, n, url, version, g, p) = LineAt(mem, n, url, version, h, p)
      BY <3>1, LineLooksAhead
    <3> QED
      BY <1>2, <3>2 DEF LinesFrom
  <2>3. h = [p \in 0 .. n |-> LineAt(mem, n, url, version, h, p)]
    BY <2>2, Zenon DEF h
  <2> QED
    BY <2>3
<1>4. Is(F)
  BY <1>3, Zenon
<1> HIDE DEF F
<1>5. \A p \in 0 .. n : F[p] = LineAt(mem, n, url, version, F, p)
  BY <1>4
<1> QED
  BY <1>1, <1>5 DEF LinesFrom

(* The header lines do not depend on what is behind the buffer.            *)
LEMMA HeaderLinesAgree ==
  ASSUME NEW mem, NEW other, NEW n, Memory(mem, n), Memory(other, n), Agree(mem, other, n),
         NEW url, NEW version
  PROVE  HeaderLines(mem, n, url, version) = HeaderLines(other, n, url, version)
<1>0. n \in Nat
  BY MemoryParts
<1>1. ASSUME NEW p \in 0 .. n, NEW g
      PROVE  LineAt(mem, n, url, version, g, p) = LineAt(other, n, url, version, g, p)
  <2>1. LineEnds(mem, n, p) = LineEnds(other, n, p)
    BY <1>0 DEF LineEnds, Agree
  <2>2. CASE LineEnds(mem, n, p) = {}
    BY <2>1, <2>2, Zenon DEF LineAt
  <2>3. CASE LineEnds(mem, n, p) # {}
    <3>1. Field(mem, p, First(LineEnds(mem, n, p))) = Field(other, p, First(LineEnds(mem, n, p)))
      BY <1>0, <2>3, LineEndIs, FieldsAgree
    <3> QED
      BY <2>1, <3>1, Zenon DEF LineAt
  <2> QED
    BY <2>2, <2>3
<1> DEFINE Mine(g) == [p \in 0 .. n |-> LineAt(mem, n, url, version, g, p)]
           Other(g) == [p \in 0 .. n |-> LineAt(other, n, url, version, g, p)]
<1>2. \A g : Mine(g) = Other(g)
  BY <1>1, Zenon
<1>3. HeaderLines(mem, n, url, version) = CHOOSE g : g = Mine(g)
  BY Zenon DEF HeaderLines, LineAt
<1>4. HeaderLines(other, n, url, version) = CHOOSE g : g = Other(g)
  BY Zenon DEF HeaderLines, LineAt
<1> HIDE DEF Mine, Other
<1>5. \A g : (g = Mine(g)) = (g = Other(g))
  BY <1>2
<1>6. (CHOOSE g : g = Mine(g)) = (CHOOSE g : g = Other(g))
  BY <1>5
<1> QED
  BY <1>3, <1>4, <1>6

-----------------------------------------------------------------------------
(* What is behind the buffer                                               *)

(* The words of the first line end inside the buffer or at its end, and    *)
(* a word is looked for behind it only to be found missing.                *)
LEMMA NextWord ==
  ASSUME NEW mem, NEW n, Memory(mem, n), NEW p \in 0 .. n,
         ~RunsOut(mem, n, p), NonBlank(mem, n, SkipBlanks(mem, p)) # SkipBlanks(mem, p)
  PROVE  LET u  == SkipBlanks(mem, p)
             u0 == NonBlank(mem, n, u)
         IN  p < n /\ u \in p .. n - 1 /\ u \in 0 .. n /\ u0 \in u + 1 .. n /\ u0 \in 0 .. n
<1> DEFINE u == SkipBlanks(mem, p)
           u0 == NonBlank(mem, n, u)
<1>1. n \in Nat
  BY MemoryParts
<1>2. p # n
  BY NoWordBehind
<1>3. p < n
  BY <1>1, <1>2
<1>4. u \in p .. n - 1 /\ u \in 0 .. n
  BY <1>3, SkipInside
<1>5. u0 \in u .. n /\ u0 # u
  BY <1>4, NonBlankIs
<1> HIDE DEF u, u0
<1>6. u0 \in u + 1 .. n /\ u0 \in 0 .. n
  BY <1>1, <1>4, <1>5
<1> QED
  BY <1>3, <1>4, <1>6 DEF u, u0

NoWord(mem, n, p) ==
  RunsOut(mem, n, p) \/ SkipBlanks(mem, p) = NonBlank(mem, n, SkipBlanks(mem, p))

LEMMA WordsAgree ==
  ASSUME NEW mem, NEW other, NEW n, Memory(mem, n), Memory(other, n), Agree(mem, other, n),
         NEW p \in 0 .. n
  PROVE  /\ NoWord(mem, n, p) <=> NoWord(other, n, p)
         /\ ~NoWord(mem, n, p) =>
              /\ SkipBlanks(mem, p) = SkipBlanks(other, p)
              /\ NonBlank(mem, n, SkipBlanks(mem, p)) = NonBlank(other, n, SkipBlanks(other, p))
<1>1. ASSUME NEW a, NEW b, Memory(a, n), Memory(b, n), Agree(a, b, n), ~NoWord(a, n, p)
      PROVE  /\ ~NoWord(b, n, p) /\ SkipBlanks(a, p) = SkipBlanks(b, p)
             /\ NonBlank(a, n, SkipBlanks(a, p)) = NonBlank(b, n, SkipBlanks(b, p))
  <2>1. ~RunsOut(a, n, p) /\ NonBlank(a, n, SkipBlanks(a, p)) # SkipBlanks(a, p)
    BY <1>1 DEF NoWord
  <2>2. p < n /\ SkipBlanks(a, p) \in 0 .. n
    BY <1>1, <2>1, NextWord
  <2>3. ~RunsOut(b, n, p) /\ SkipBlanks(a, p) = SkipBlanks(b, p)
    BY <1>1, <2>1, <2>2, SkipsAgree
  <2>4. NonBlank(a, n, SkipBlanks(a, p)) = NonBlank(b, n, SkipBlanks(a, p))
    BY <1>1, <2>2, NonBlanksAgree
  <2> QED
    BY <2>1, <2>3, <2>4 DEF NoWord
<1>2. Agree(other, mem, n)
  BY DEF Agree
<1> QED
  BY <1>1, <1>2

(* A slice inside the buffer.                                              *)
LEMMA SlicesAgree ==
  ASSUME NEW mem, NEW other, NEW n, Memory(mem, n), Memory(other, n), Agree(mem, other, n),
         NEW p \in 0 .. n, NEW q \in 0 .. n
  PROVE  Slice(mem, p, q) = Slice(other, p, q)
<1>1. p + 1 \in Nat \ {0} /\ q \in Nat /\ q <= n
  BY MemoryParts
<1> QED
  BY <1>1, PiecesAgree DEF Slice

(* FromMemory by its stages: what follows the method, the url, the version.*)
AfterVersion(mem, n, url, v, v0) ==
  LET version == Slice(mem, v, v0)
  IN  IF v0 + 1 >= n THEN Stop("incomplete", url, version, <<>>)
      ELSE IF mem[v0 + 1] # CR \/ mem[v0 + 2] # LF THEN Stop("invalid", url, version, <<>>)
      ELSE HeaderLines(mem, n, url, version)[v0 + 2][<<>>]

AfterUrl(mem, n, url, u0) ==
  IF NoWord(mem, n, u0) THEN Stop("incomplete", url, <<>>, <<>>)
  ELSE AfterVersion(mem, n, url, SkipBlanks(mem, u0), NonBlank(mem, n, SkipBlanks(mem, u0)))

AfterMethod(mem, n, m0) ==
  IF NoWord(mem, n, m0) THEN Stop("incomplete", <<>>, <<>>, <<>>)
  ELSE AfterUrl(mem, n, Slice(mem, SkipBlanks(mem, m0), NonBlank(mem, n, SkipBlanks(mem, m0))),
                NonBlank(mem, n, SkipBlanks(mem, m0)))

LEMMA Stages ==
  ASSUME NEW mem, NEW n
  PROVE  FromMemory(mem, n)
           = IF ~MethodAccepted(mem, NonBlank(mem, n, 0))
             THEN Outcome("unsupported", "initialized", <<>>, <<>>, <<>>, 0)
             ELSE AfterMethod(mem, n, NonBlank(mem, n, 0))
BY Zenon DEF FromMemory, AfterMethod, AfterUrl, AfterVersion, NoWord

LEMMA VersionsAgree ==
  ASSUME NEW mem, NEW other, NEW n, Memory(mem, n), Memory(other, n), Agree(mem, other, n),
         NEW url, NEW v \in 0 .. n, NEW v0 \in 0 .. n
  PROVE  AfterVersion(mem, n, url, v, v0) = AfterVersion(other, n, url, v, v0)
<1> DEFINE version == Slice(mem, v, v0)
<1>1. version = Slice(other, v, v0)
  BY SlicesAgree
<1>2. HeaderLines(mem, n, url, version) = HeaderLines(other, n, url, version)
  BY HeaderLinesAgree
<1>3. ~(v0 + 1 >= n) => mem[v0 + 1] = other[v0 + 1] /\ mem[v0 + 2] = other[v0 + 2]
  BY MemoryParts DEF Agree
<1> HIDE DEF version
<1>4. CASE v0 + 1 >= n
  BY <1>1, <1>4, Zenon DEF AfterVersion, version
<1>5. CASE ~(v0 + 1 >= n)
  <2>1. mem[v0 + 1] = other[v0 + 1] /\ mem[v0 + 2] = other[v0 + 2]
    BY <1>3, <1>5
  <2> QED
    BY <1>1, <1>2, <2>1, Zenon DEF AfterVersion, version
<1> QED
  BY <1>4, <1>5

LEMMA BehindIgnored ==
  ASSUME NEW mem, NEW other, NEW n, Memory(mem, n), Memory(other, n), Agree(mem, other, n)
  PROVE  FromMemory(mem, n) = FromMemory(other, n)
<1> DEFINE m0 == NonBlank(mem, n, 0)
           u  == SkipBlanks(mem, m0)
           u0 == NonBlank(mem, n, u)
           url == Slice(mem, u, u0)
           v  == SkipBlanks(mem, u0)
           v0 == NonBlank(mem, n, v)
<1>1. n \in Nat /\ 0 \in 0 .. n
  BY MemoryParts
<1>2. m0 \in 0 .. n
  BY <1>1, NonBlankIs
<1>3. m0 = NonBlank(other, n, 0)
  BY <1>1, NonBlanksAgree
<1>4. MethodAccepted(mem, m0) <=> MethodAccepted(other, m0)
  BY <1>1, <1>2 DEF MethodAccepted, Agree
<1>5. AfterMethod(mem, n, m0) = AfterMethod(other, n, m0)
  <2>1. CASE NoWord(mem, n, m0)
    BY <1>2, <2>1, WordsAgree, Zenon DEF AfterMethod
  <2>2. CASE ~NoWord(mem, n, m0)
    <3>1. /\ ~NoWord(other, n, m0) /\ u = SkipBlanks(other, m0)
          /\ u0 = NonBlank(other, n, SkipBlanks(other, m0))
      BY <1>2, <2>2, WordsAgree
    <3>2. u \in 0 .. n /\ u0 \in 0 .. n
      BY <1>2, <2>2, NextWord DEF NoWord
    <3>3. url = Slice(other, u, u0)
      BY <3>2, SlicesAgree
    <3>4. AfterUrl(mem, n, url, u0) = AfterUrl(other, n, url, u0)
      <4>1. CASE NoWord(mem, n, u0)
        BY <3>2, <4>1, WordsAgree, Zenon DEF AfterUrl
      <4>2. CASE ~NoWord(mem, n, u0)
        <5>1. /\ ~NoWord(other, n, u0) /\ v = SkipBlanks(other, u0)
              /\ v0 = NonBlank(other, n, SkipBlanks(other, u0))
          BY <3>2, <4>2, WordsAgree
        <5>2. v \in 0 .. n /\ v0 \in 0 .. n
          BY <3>2, <4>2, NextWord DEF NoWord
        <5>3. AfterVersion(mem, n, url, v, v0) = AfterVersion(other, n, url, v, v0)
          BY <5>2, VersionsAgree
        <5> HIDE DEF m0, u, u0, url
        <5>4. AfterUrl(mem, n, url, u0) = AfterVersion(mem, n, url, v, v0)
          BY <4>2, Zenon DEF AfterUrl
        <5>5. AfterUrl(other, n, url, u0) = AfterVersion(other, n, url, v, v0)
          BY <5>1, Zenon DEF AfterUrl
        <5> QED
          BY <5>3, <5>4, <5>5
      <4> QED
        BY <4>1, <4>2
    <3>5. AfterMethod(mem, n, m0) = AfterUrl(mem, n, url, u0)
      BY <2>2, Zenon DEF AfterMethod
    <3>6. AfterMethod(other, n, m0) = AfterUrl(other, n, url, u0)
      BY <3>1, <3>3, Zenon DEF AfterMethod
    <3> QED
      BY <3>4, <3>5, <3>6
  <2> QED
    BY <2>1, <2>2
<1> QED
  BY <1>3, <1>4, <1>5, Stages

(* A buffer and what is behind it, up to the NUL, are a memory.            *)
LEMMA BufferInMemory ==
  ASSUME NEW data \in Bytes, NEW trail \in Bytes, trail # <<>>, trail[Len(trail)] = NUL
  PROVE  /\ Memory(data \o trail, Len(data))
         /\ \A k \in 1 .. Len(data) : (data \o trail)[k] = data[k]
<1>1. data \in Seq(Byte) /\ trail \in Seq(Byte)
  BY DEF Bytes, Byte
<1>2. Len(data) \in Nat /\ Len(trail) \in Nat \ {0}
  BY <1>1, LenProperties, EmptySeq
<1>3. /\ data \o trail \in Seq(Byte) /\ Len(data \o trail) = Len(data) + Len(trail)
      /\ \A k \in 1 .. Len(data) + Len(trail) :
           (data \o trail)[k] = IF k <= Len(data) THEN data[k] ELSE trail[k - Len(data)]
  BY <1>1, ConcatProperties
<1>4. (data \o trail)[Len(data) + Len(trail)] = trail[Len(trail)]
  BY <1>2, <1>3
<1> QED
  BY <1>2, <1>3, <1>4 DEF Memory, Bytes, Byte

LEMMA TrailsIgnored ==
  ASSUME HttpRequestAssumption, NEW data \in Bytes, NEW trail \in Trails
  PROVE  FromBuffer(data, trail) = FromBuffer(data, <<NUL>>)
<1>1. trail \in Bytes /\ trail # <<>> /\ trail[Len(trail)] = NUL
  BY DEF HttpRequestAssumption
<1>2. <<NUL>> \in Bytes /\ <<NUL>> # <<>> /\ <<NUL>>[Len(<<NUL>>)] = NUL
  BY DEF Bytes, NUL
<1>3. /\ Memory(data \o trail, Len(data)) /\ Memory(data \o <<NUL>>, Len(data))
      /\ \A k \in 1 .. Len(data) : (data \o trail)[k] = data[k] /\ (data \o <<NUL>>)[k] = data[k]
  BY <1>1, <1>2, BufferInMemory
<1>4. Agree(data \o trail, data \o <<NUL>>, Len(data))
  BY <1>3 DEF Agree
<1> QED
  BY <1>3, <1>4, BehindIgnored DEF FromBuffer

-----------------------------------------------------------------------------
(* What a call leaves                                                      *)

(* A request that was initialized, or that a call of the parser left.      *)
FitRequest(r) ==
  /\ r.state \in {"initialized", "parsed", "invalid"}
  /\ r.state = "initialized" => r = InitializedRequest
  /\ r.url \in Bytes /\ r.version \in Bytes /\ Filled(r.headers)

Verdicts == {"succeed", "incomplete", "invalid", "duplicate", "unsupported"}

(* Only a parsed request is marked as one, and only a header whose key was *)
(* there is let go of.                                                     *)
FitOutcome(o) ==
  /\ o.verdict \in Verdicts
  /\ FitRequest(o.request)
  /\ o.request.state = "parsed" <=> o.verdict = "succeed"
  /\ o.lost = IF o.verdict = "duplicate" THEN 3 ELSE 0

LEMMA EmptyFilled == <<>> \in Bytes /\ Filled(<<>>)
<1>1. <<>> \in Bytes /\ <<>> \in Headers /\ Len(<<>>) = 0
  BY EmptySeq DEF Bytes, Headers
<1> QED
  BY <1>1 DEF Filled

LEMMA OutcomesFit ==
  ASSUME NEW url \in Bytes, NEW version \in Bytes, NEW list, Filled(list)
  PROVE  /\ FitOutcome(Stop("incomplete", url, version, list))
         /\ FitOutcome(Stop("invalid", url, version, list))
         /\ FitOutcome(Outcome("succeed", "parsed", url, version, list, 0))
         /\ FitOutcome(Outcome("duplicate", "invalid", url, version, list, 3))
BY DEF FitOutcome, FitRequest, Stop, Outcome, Verdicts

LEMMA HeaderLinesFit ==
  ASSUME NEW mem, NEW n, Memory(mem, n), NEW url \in Bytes, NEW version \in Bytes,
         NEW at \in 0 .. n, NEW some, Filled(some)
  PROVE  FitOutcome(HeaderLines(mem, n, url, version)[at][some])
<1> DEFINE F == HeaderLines(mem, n, url, version)
           Good(p) == \A list : Filled(list) => FitOutcome(F[p][list])
           T == {m \in 0 .. n : ~Good(n - m)}
<1>0. n \in Nat
  BY MemoryParts
<1>1. \A p \in 0 .. n : F[p] = LineAt(mem, n, url, version, F, p)
  BY <1>0, HeaderLinesAre DEF LinesFrom
<1> HIDE DEF F
<1>2. ASSUME NEW p \in 0 .. n, \A q \in p + 1 .. n : Good(q)
      PROVE  Good(p)
  <2> SUFFICES ASSUME NEW list, Filled(list) PROVE FitOutcome(F[p][list])
    OBVIOUS
  <2> DEFINE ends == LineEnds(mem, n, p)
             end == First(ends)
             field == Field(mem, p, end)
  <2>1. list \in Headers
    BY DEF Filled
  <2>2. F[p][list] = LineFor(mem, n, url, version, F, p, ends, end, field, list)
    <3> HIDE DEF Good
    <3>1. F[p] = LineAt(mem, n, url, version, F, p)
      BY <1>1
    <3>2. LineAt(mem, n, url, version, F, p)[list]
            = LineFor(mem, n, url, version, F, p, LineEnds(mem, n, p),
                      First(LineEnds(mem, n, p)),
                      Field(mem, p, First(LineEnds(mem, n, p))), list)
      BY <2>1, LineIs
    <3> QED
      BY <3>1, <3>2
  <2>3. CASE ends # {} /\ field # <<>>
    <3>1. end \in p .. n - 2 /\ end + 2 \in p + 1 .. n /\ mem[end + 1] = CR
      BY <1>0, <2>3, LineEndIs
    <3>2. field[1] \in FieldType
      BY <2>3, <3>1, FieldTyped
    <3>3. Filled(Insert(list, field[1]))
      BY <3>2, InsertFills
    <3>4. FitOutcome(F[end + 2][Insert(list, field[1])])
      BY <1>2, <3>1, <3>3
    <3> HIDE DEF ends, end, field
    <3> QED
      BY <2>2, <3>4, OutcomesFit DEF LineFor
  <2>4. CASE ~(ends # {} /\ field # <<>>)
    <3> HIDE DEF ends, end, field
    <3> QED
      BY <2>2, <2>4, OutcomesFit DEF LineFor
  <2> QED
    BY <2>3, <2>4
<1>3. T = {}
  <2> SUFFICES ASSUME T # {} PROVE FALSE
    OBVIOUS
  <2>1. T \subseteq Nat
    OBVIOUS
  <2>2. PICK m \in T : \A k \in T : m <= k
    BY <2>1, Least
  <2> HIDE DEF Good
  <2>3. ASSUME NEW q \in n - m + 1 .. n PROVE Good(q)
    <3>1. n - q \in 0 .. n /\ n - q < m /\ n - (n - q) = q
      BY <1>0
    <3> QED
      BY <2>2, <3>1
  <2>4. n - m \in 0 .. n
    BY <1>0
  <2>5. Good(n - m)
    BY <1>2, <2>3, <2>4
  <2> QED
    BY <2>5
<1>4. n - at \in 0 .. n /\ n - (n - at) = at
  BY <1>0
<1>5. Good(at)
  BY <1>3, <1>4
<1> QED
  BY <1>5 DEF F

LEMMA VersionFits ==
  ASSUME NEW mem, NEW n, Memory(mem, n), NEW url \in Bytes, NEW v \in 0 .. n, NEW v0 \in 0 .. n
  PROVE  FitOutcome(AfterVersion(mem, n, url, v, v0))
<1> DEFINE version == Slice(mem, v, v0)
<1>1. version \in Bytes
  <2>1. v + 1 \in Nat \ {0} /\ v0 \in Nat /\ v0 < Len(mem)
    BY MemoryParts
  <2> QED
    BY <2>1, PieceIs DEF Slice
<1>2. CASE v0 + 1 >= n
  BY <1>1, <1>2, EmptyFilled, OutcomesFit DEF AfterVersion
<1>3. CASE ~(v0 + 1 >= n)
  <2>1. v0 + 2 \in 0 .. n
    BY <1>3, MemoryParts
  <2>2. FitOutcome(HeaderLines(mem, n, url, version)[v0 + 2][<<>>])
    BY <1>1, <2>1, EmptyFilled, HeaderLinesFit
  <2>3. FitOutcome(Stop("invalid", url, version, <<>>))
    BY <1>1, EmptyFilled, OutcomesFit
  <2> HIDE DEF version
  <2> QED
    BY <1>3, <2>2, <2>3, Zenon DEF AfterVersion, version
<1> QED
  BY <1>2, <1>3

LEMMA ParserFits ==
  ASSUME NEW mem, NEW n, Memory(mem, n)
  PROVE  FitOutcome(FromMemory(mem, n))
<1> DEFINE m0 == NonBlank(mem, n, 0)
           u  == SkipBlanks(mem, m0)
           u0 == NonBlank(mem, n, u)
           url == Slice(mem, u, u0)
           v  == SkipBlanks(mem, u0)
           v0 == NonBlank(mem, n, v)
<1>1. m0 \in 0 .. n
  BY MemoryParts, NonBlankIs
<1>2. FitOutcome(Stop("incomplete", <<>>, <<>>, <<>>))
  BY EmptyFilled, OutcomesFit
<1>3. FitOutcome(Outcome("unsupported", "initialized", <<>>, <<>>, <<>>, 0))
  BY EmptyFilled DEF FitOutcome, FitRequest, Outcome, Verdicts, InitializedRequest
<1>4. FitOutcome(AfterMethod(mem, n, m0))
  <2>1. CASE NoWord(mem, n, m0)
    BY <1>2, <2>1 DEF AfterMethod
  <2>2. CASE ~NoWord(mem, n, m0)
    <3>1. u \in 0 .. n /\ u0 \in 0 .. n
      BY <1>1, <2>2, NextWord DEF NoWord
    <3>2. url \in Bytes
      <4> HIDE DEF u, u0
      <4>1. u + 1 \in Nat \ {0} /\ u0 \in Nat /\ u0 < Len(mem)
        BY <3>1, MemoryParts
      <4> QED
        BY <4>1, PieceIs DEF Slice
    <3>3. FitOutcome(AfterUrl(mem, n, url, u0))
      <4>1. CASE NoWord(mem, n, u0)
        <5>1. FitOutcome(Stop("incomplete", url, <<>>, <<>>))
          BY <3>2, EmptyFilled, OutcomesFit
        <5> QED
          BY <4>1, <5>1, Zenon DEF AfterUrl
      <4>2. CASE ~NoWord(mem, n, u0)
        <5>1. v \in 0 .. n /\ v0 \in 0 .. n
          BY <3>1, <4>2, NextWord DEF NoWord
        <5>2. FitOutcome(AfterVersion(mem, n, url, v, v0))
          BY <3>2, <5>1, VersionFits
        <5> QED
          BY <4>2, <5>2, Zenon DEF AfterUrl
      <4> QED
        BY <4>1, <4>2
    <3> QED
      BY <2>2, <3>3, Zenon DEF AfterMethod
  <2> QED
    BY <2>1, <2>2
<1> QED
  BY <1>3, <1>4, Stages

-----------------------------------------------------------------------------
(* The same stream, cut later                                              *)

(* What a call says of the first n bytes, if it is a verdict at all, rules *)
(* out that the first m are a request or the beginning of one.             *)
Settles(short, long) ==
  short.verdict # "incomplete" => long.verdict \notin {"incomplete", "succeed"}

LEMMA LineEndKept ==
  ASSUME NEW mem, NEW n \in Nat, NEW m \in Nat, n < m, NEW p \in 0 .. n,
         LineEnds(mem, n, p) # {}
  PROVE  LineEnds(mem, m, p) # {} /\ First(LineEnds(mem, m, p)) = First(LineEnds(mem, n, p))
<1> DEFINE short == LineEnds(mem, n, p)
           long == LineEnds(mem, m, p)
           end == First(short)
<1>1. short \subseteq Nat /\ long \subseteq Nat /\ short \subseteq long
  BY DEF LineEnds
<1>2. \A q \in long \ short : \A r \in short : r <= q
  BY DEF LineEnds
<1>3. short # {}
  OBVIOUS
<1> HIDE DEF short, long
<1>4. end \in short /\ \A r \in short : end <= r
  BY <1>1, <1>3, FirstIs
<1>5. end \in long /\ \A r \in long : end <= r
  BY <1>1, <1>2, <1>4
<1> HIDE DEF end
<1>6. First(long) = end
  BY <1>1, <1>5, FirstUnique
<1> QED
  BY <1>5, <1>6 DEF short, long, end

LEMMA HeaderLinesSettle ==
  ASSUME NEW mem, NEW n, NEW m, Memory(mem, n), Memory(mem, m), n < m,
         NEW url, NEW version, NEW at \in 0 .. n, NEW some, Filled(some)
  PROVE  Settles(HeaderLines(mem, n, url, version)[at][some],
                 HeaderLines(mem, m, url, version)[at][some])
<1> DEFINE F == HeaderLines(mem, n, url, version)
           G == HeaderLines(mem, m, url, version)
           Good(p) == \A list : Filled(list) => Settles(F[p][list], G[p][list])
           T == {k \in 0 .. n : ~Good(n - k)}
<1>0. n \in Nat /\ m \in Nat
  BY MemoryParts
<1>1. \A p \in 0 .. n : F[p] = LineAt(mem, n, url, version, F, p)
  BY <1>0, HeaderLinesAre DEF LinesFrom
<1>2. \A p \in 0 .. n : G[p] = LineAt(mem, m, url, version, G, p)
  <2>1. \A p \in 0 .. n : p \in 0 .. m
    BY <1>0
  <2> QED
    BY <1>0, <2>1, HeaderLinesAre DEF LinesFrom
<1> HIDE DEF F, G
<1>3. ASSUME NEW p \in 0 .. n, \A q \in p + 1 .. n : Good(q)
      PROVE  Good(p)
  <2> SUFFICES ASSUME NEW list, Filled(list) PROVE Settles(F[p][list], G[p][list])
    OBVIOUS
  <2> DEFINE ends == LineEnds(mem, n, p)
             end == First(ends)
             field == Field(mem, p, end)
  <2>1. list \in Headers
    BY DEF Filled
  <2>2. F[p][list] = LineFor(mem, n, url, version, F, p, ends, end, field, list)
    <3> HIDE DEF Good
    <3>1. F[p] = LineAt(mem, n, url, version, F, p)
      BY <1>1
    <3>2. LineAt(mem, n, url, version, F, p)[list]
            = LineFor(mem, n, url, version, F, p, LineEnds(mem, n, p),
                      First(LineEnds(mem, n, p)),
                      Field(mem, p, First(LineEnds(mem, n, p))), list)
      BY <2>1, LineIs
    <3> QED
      BY <3>1, <3>2
  <2>3. G[p][list] = LineFor(mem, m, url, version, G, p, LineEnds(mem, m, p),
                             First(LineEnds(mem, m, p)),
                             Field(mem, p, First(LineEnds(mem, m, p))), list)
    <3> HIDE DEF Good
    <3>1. G[p] = LineAt(mem, m, url, version, G, p)
      BY <1>2
    <3>2. LineAt(mem, m, url, version, G, p)[list]
            = LineFor(mem, m, url, version, G, p, LineEnds(mem, m, p),
                      First(LineEnds(mem, m, p)),
                      Field(mem, p, First(LineEnds(mem, m, p))), list)
      BY <2>1, LineIs
    <3> QED
      BY <3>1, <3>2
  <2>4. CASE ends = {}
    <3>1. F[p][list] = Stop("incomplete", url, version, list)
      BY <2>4, <2>2 DEF LineFor
    <3> QED
      BY <3>1 DEF Settles, Stop, Outcome
  <2>5. CASE ends # {}
    <3>1. LineEnds(mem, m, p) # {} /\ First(LineEnds(mem, m, p)) = end
      BY <1>0, <2>5, LineEndKept
    <3>2. F[p][list]
            = IF end = p THEN
                IF p + 2 = n
                  THEN Outcome("succeed", "parsed", url, version, list, 0)
                  ELSE Stop("invalid", url, version, list)
              ELSE IF field = <<>> THEN Stop("invalid", url, version, list)
              ELSE IF Found(list, field[1].key)
                THEN Outcome("duplicate", "invalid", url, version, list, 3)
              ELSE F[end + 2][Insert(list, field[1])]
      <4> HIDE DEF ends, end
      <4> QED
        BY <2>5, <2>2 DEF field, LineFor
    <3>3. G[p][list]
            = IF end = p THEN
                IF p + 2 = m
                  THEN Outcome("succeed", "parsed", url, version, list, 0)
                  ELSE Stop("invalid", url, version, list)
              ELSE IF field = <<>> THEN Stop("invalid", url, version, list)
              ELSE IF Found(list, field[1].key)
                THEN Outcome("duplicate", "invalid", url, version, list, 3)
              ELSE G[end + 2][Insert(list, field[1])]
      <4> HIDE DEF ends, end
      <4> QED
        BY <3>1, <2>3 DEF field, LineFor
    <3>4. end \in p .. n - 2 /\ end + 2 \in p + 1 .. n /\ mem[end + 1] = CR
      BY <1>0, <2>5, LineEndIs
    <3>5. CASE end = p
      <4>1. G[p][list] = Stop("invalid", url, version, list)
        <5>1. p + 2 # m
          BY <1>0, <3>4, <3>5
        <5> HIDE DEF end, field, ends
        <5> QED
          BY <3>3, <3>5, <5>1
      <4> QED
        BY <4>1 DEF Settles, Stop, Outcome
    <3>6. CASE end # p /\ field # <<>> /\ ~Found(list, field[1].key)
      <4>1. field[1] \in FieldType
        BY <3>4, <3>6, FieldTyped
      <4>2. Filled(Insert(list, field[1]))
        BY <4>1, InsertFills
      <4>3. Settles(F[end + 2][Insert(list, field[1])], G[end + 2][Insert(list, field[1])])
        BY <1>3, <3>4, <4>2
      <4> HIDE DEF end, field, ends
      <4> QED
        BY <3>2, <3>3, <3>6, <4>3
    <3>7. CASE end # p /\ (field = <<>> \/ Found(list, field[1].key))
      <4> HIDE DEF end, field, ends
      <4>1. G[p][list] \in {Stop("invalid", url, version, list),
                            Outcome("duplicate", "invalid", url, version, list, 3)}
        BY <3>3, <3>7
      <4> QED
        BY <4>1 DEF Settles, Stop, Outcome
    <3> QED
      BY <3>5, <3>6, <3>7
  <2> QED
    BY <2>4, <2>5
<1>4. T = {}
  <2> SUFFICES ASSUME T # {} PROVE FALSE
    OBVIOUS
  <2>1. T \subseteq Nat
    OBVIOUS
  <2>2. PICK k \in T : \A j \in T : k <= j
    BY <2>1, Least
  <2> HIDE DEF Good
  <2>3. ASSUME NEW q \in n - k + 1 .. n PROVE Good(q)
    <3>1. n - q \in 0 .. n /\ n - q < k /\ n - (n - q) = q
      BY <1>0
    <3> QED
      BY <2>2, <3>1
  <2>4. n - k \in 0 .. n
    BY <1>0
  <2>5. Good(n - k)
    BY <1>3, <2>3, <2>4
  <2> QED
    BY <2>5
<1>5. n - at \in 0 .. n /\ n - (n - at) = at
  BY <1>0
<1>6. Good(at)
  BY <1>4, <1>5
<1> QED
  BY <1>6 DEF F, G

LEMMA VersionSettles ==
  ASSUME NEW mem, NEW n, NEW m, Memory(mem, n), Memory(mem, m), n < m,
         NEW url, NEW v \in 0 .. n, NEW v0 \in 0 .. n
  PROVE  Settles(AfterVersion(mem, n, url, v, v0), AfterVersion(mem, m, url, v, v0))
<1> DEFINE version == Slice(mem, v, v0)
<1>0. n \in Nat /\ m \in Nat
  BY MemoryParts
<1>1. CASE v0 + 1 >= n
  <2>1. AfterVersion(mem, n, url, v, v0) = Stop("incomplete", url, version, <<>>)
    BY <1>1, Zenon DEF AfterVersion
  <2> QED
    BY <2>1 DEF Settles, Stop, Outcome
<1>2. CASE ~(v0 + 1 >= n)
  <2>1. v0 + 2 \in 0 .. n /\ ~(v0 + 1 >= m)
    BY <1>0, <1>2
  <2>2. Settles(HeaderLines(mem, n, url, version)[v0 + 2][<<>>],
                HeaderLines(mem, m, url, version)[v0 + 2][<<>>])
    BY <2>1, EmptyFilled, HeaderLinesSettle
  <2>3. Settles(Stop("invalid", url, version, <<>>), Stop("invalid", url, version, <<>>))
    BY DEF Settles, Stop, Outcome
  <2> HIDE DEF version
  <2> QED
    BY <1>2, <2>1, <2>2, <2>3, Zenon DEF AfterVersion, version
<1> QED
  BY <1>1, <1>2

(* A word that ends inside the shorter buffer is the same in the longer.   *)
LEMMA WordKept ==
  ASSUME NEW mem, NEW n, NEW m, Memory(mem, n), Memory(mem, m), n < m, NEW p \in 0 .. n,
         ~NoWord(mem, n, p), NonBlank(mem, n, SkipBlanks(mem, p)) # n
  PROVE  /\ ~NoWord(mem, m, p)
         /\ NonBlank(mem, m, SkipBlanks(mem, p)) = NonBlank(mem, n, SkipBlanks(mem, p))
<1> DEFINE u == SkipBlanks(mem, p)
           u0 == NonBlank(mem, n, u)
           w0 == NonBlank(mem, m, u)
<1>0. n \in Nat /\ m \in Nat
  BY MemoryParts
<1>1. ~RunsOut(mem, n, p) /\ u0 # u
  BY DEF NoWord
<1>2. p < n /\ u \in 0 .. n /\ u0 \in 0 .. n
  BY <1>1, NextWord
<1>3. u0 < n
  <2>1. u0 # n
    OBVIOUS
  <2> HIDE DEF u0
  <2> QED
    BY <1>0, <1>2, <2>1
<1>4. w0 = u0
  BY <1>2, <1>3, NonBlankLonger
<1>5. ~RunsOut(mem, m, p)
  <2>1. PICK k \in p + 1 .. n : mem[k] \notin Blank
    BY <1>1, <1>2 DEF RunsOut
  <2>2. k \in p + 1 .. m
    BY <1>0
  <2> QED
    BY <2>1, <2>2 DEF RunsOut
<1> QED
  BY <1>1, <1>4, <1>5 DEF NoWord

LEMMA ParserSettles ==
  ASSUME NEW mem, NEW n, NEW m, Memory(mem, n), Memory(mem, m), n < m
  PROVE  Settles(FromMemory(mem, n), FromMemory(mem, m))
<1> DEFINE m0 == NonBlank(mem, n, 0)
           w0 == NonBlank(mem, m, 0)
           u  == SkipBlanks(mem, m0)
           u0 == NonBlank(mem, n, u)
           url == Slice(mem, u, u0)
           v  == SkipBlanks(mem, u0)
           v0 == NonBlank(mem, n, v)
<1>0. n \in Nat /\ m \in Nat /\ 0 \in 0 .. n
  BY MemoryParts
<1>1. m0 \in 0 .. n /\ w0 \in 0 .. m
  BY <1>0, NonBlankIs
<1>2. IF m0 < n THEN w0 = m0 ELSE w0 >= n
  BY <1>0, NonBlankLonger
<1>3. CASE ~MethodAccepted(mem, m0)
  <2>1. ~MethodAccepted(mem, w0)
    <3> HIDE DEF m0, w0
    <3>1. Len(GET) = 3 /\ m0 <= w0
      BY <1>0, <1>1, <1>2 DEF GET
    <3>2. CASE m0 > 3
      BY <1>0, <1>1, <3>1, <3>2 DEF MethodAccepted
    <3>3. CASE m0 <= 3
      <4>1. PICK k \in 1 .. m0 : mem[k] # GET[k]
        BY <1>3, <3>1, <3>3 DEF MethodAccepted
      <4>2. k \in 1 .. w0
        BY <1>0, <1>1, <3>1
      <4> QED
        BY <4>1, <4>2 DEF MethodAccepted
    <3> QED
      BY <1>0, <1>1, <3>2, <3>3
  <2>2. FromMemory(mem, m) = Outcome("unsupported", "initialized", <<>>, <<>>, <<>>, 0)
    BY <2>1, Stages
  <2> QED
    BY <2>2 DEF Settles, Outcome
<1>4. CASE MethodAccepted(mem, m0) /\ NoWord(mem, n, m0)
  <2>1. FromMemory(mem, n) = Stop("incomplete", <<>>, <<>>, <<>>)
    BY <1>4, Stages DEF AfterMethod
  <2> QED
    BY <2>1 DEF Settles, Stop, Outcome
<1>5. CASE MethodAccepted(mem, m0) /\ ~NoWord(mem, n, m0)
  <2>1. FromMemory(mem, n) = AfterUrl(mem, n, url, u0)
    BY <1>5, Stages, Zenon DEF AfterMethod
  <2>2. m0 < n /\ u0 \in 0 .. n
    BY <1>1, <1>5, NextWord DEF NoWord
  <2>3. CASE NoWord(mem, n, u0)
    <3>1. FromMemory(mem, n) = Stop("incomplete", url, <<>>, <<>>)
      BY <2>1, <2>3, Zenon DEF AfterUrl
    <3> QED
      BY <3>1 DEF Settles, Stop, Outcome
  <2>4. CASE ~NoWord(mem, n, u0)
    <3>1. u0 < n /\ v \in 0 .. n /\ v0 \in 0 .. n
      BY <2>2, <2>4, NextWord DEF NoWord
    <3>2. FromMemory(mem, n) = AfterVersion(mem, n, url, v, v0)
      BY <2>1, <2>4, Zenon DEF AfterUrl
    <3>3. CASE v0 = n
      <4>1. v0 + 1 >= n
        <5> HIDE DEF v0
        <5> QED
          BY <1>0, <3>3
      <4>2. FromMemory(mem, n) = Stop("incomplete", url, Slice(mem, v, v0), <<>>)
        BY <3>2, <4>1, Zenon DEF AfterVersion
      <4> QED
        BY <4>2 DEF Settles, Stop, Outcome
    <3>4. CASE v0 # n
      <4>1. w0 = m0
        BY <1>2, <2>2
      <4>2. u0 # n
        <5> HIDE DEF u0
        <5> QED
          BY <1>0, <3>1
      <4>3. ~NoWord(mem, m, m0) /\ NonBlank(mem, m, u) = u0
        BY <1>1, <1>5, <4>2, WordKept
      <4>4. ~NoWord(mem, m, u0) /\ NonBlank(mem, m, v) = v0
        BY <2>2, <2>4, <3>4, WordKept
      <4>5. FromMemory(mem, m) = AfterMethod(mem, m, m0)
        BY <1>5, <4>1, Stages
      <4>6. AfterMethod(mem, m, m0) = AfterUrl(mem, m, url, u0)
        BY <4>3, Zenon DEF AfterMethod
      <4>7. AfterUrl(mem, m, url, u0) = AfterVersion(mem, m, url, v, v0)
        BY <4>4, Zenon DEF AfterUrl
      <4> HIDE DEF u, u0, url, v, v0
      <4>8. Settles(AfterVersion(mem, n, url, v, v0), AfterVersion(mem, m, url, v, v0))
        BY <3>1, VersionSettles
      <4> QED
        BY <3>2, <4>5, <4>6, <4>7, <4>8
    <3> QED
      BY <3>3, <3>4
  <2> QED
    BY <2>3, <2>4
<1> QED
  BY <1>3, <1>4, <1>5

(* Cuts of one buffer are cuts of one memory.                              *)
LEMMA CutIs ==
  ASSUME NEW data \in Bytes, NEW n \in 1 .. Len(data)
  PROVE  /\ Memory(data \o <<NUL>>, n)
         /\ FromBuffer(SubSeq(data, 1, n), <<NUL>>) = FromMemory(data \o <<NUL>>, n)
<1> DEFINE cut == SubSeq(data, 1, n)
           whole == data \o <<NUL>>
           part == cut \o <<NUL>>
<1>1. <<NUL>> \in Bytes /\ <<NUL>> # <<>> /\ <<NUL>>[Len(<<NUL>>)] = NUL
  BY DEF Bytes, NUL
<1>2. data \in Seq(Byte) /\ Len(data) \in Nat /\ n \in Nat /\ n <= Len(data)
  BY LenProperties DEF Bytes, Byte
<1>3. cut \in Bytes /\ Len(cut) = n /\ \A k \in 1 .. n : cut[k] = data[k]
  <2>1. \A i \in 1 .. n : data[i] \in Byte
    BY <1>2, ElementOfSeq
  <2>2. cut \in Seq(Byte) /\ Len(cut) = (IF 1 <= n THEN n - 1 + 1 ELSE 0)
        /\ \A k \in 1 .. n - 1 + 1 : cut[k] = data[1 + k - 1]
    BY <1>2, <2>1, SubSeqProperties
  <2> HIDE DEF cut
  <2> QED
    BY <1>2, <2>2 DEF Bytes, Byte
<1> HIDE DEF cut
<1>4. Memory(whole, Len(data)) /\ \A k \in 1 .. Len(data) : whole[k] = data[k]
  BY <1>1, BufferInMemory
<1>5. Memory(part, n) /\ \A k \in 1 .. n : part[k] = cut[k]
  BY <1>1, <1>3, BufferInMemory
<1> HIDE DEF whole, part
<1>6. Memory(whole, n)
  BY <1>2, <1>4, MemoryParts DEF Memory
<1>7. Agree(part, whole, n)
  BY <1>2, <1>3, <1>4, <1>5 DEF Agree
<1>8. FromMemory(part, n) = FromMemory(whole, n)
  BY <1>5, <1>6, <1>7, BehindIgnored
<1> QED
  BY <1>3, <1>6, <1>8 DEF FromBuffer, cut, whole, part

-----------------------------------------------------------------------------
(* What a message is made of                                                *)

(* The text of the first k header lines, for every k.                      *)
LineStep(g, fields, k) == IF k = 0 THEN <<>> ELSE g[k - 1] \o Line(fields[k])

LinesUpTo(g, fields, n) == \A k \in 0 .. n : g[k] = LineStep(g, fields, k)

LEMMA LineStepLooksBack ==
  ASSUME NEW fields, NEW k \in Nat, NEW g, NEW h, k # 0 => g[k - 1] = h[k - 1]
  PROVE  LineStep(g, fields, k) = LineStep(h, fields, k)
BY DEF LineStep

(* The recursion behind Lines is defined.                                  *)
LEMMA LineTextsExist ==
  ASSUME NEW fields, NEW n \in Nat
  PROVE  \E g : LinesUpTo(g, fields, n)
<1> DEFINE T == {m \in Nat : ~\E g : LinesUpTo(g, fields, m)}
<1>1. T = {}
  <2> SUFFICES ASSUME T # {} PROVE FALSE
    OBVIOUS
  <2>1. PICK m \in T : \A k \in T : m <= k
    BY Least
  <2>2. m \in Nat /\ ~\E g : LinesUpTo(g, fields, m)
    OBVIOUS
  <2>3. \E g : \A k \in 0 .. m - 1 : g[k] = LineStep(g, fields, k)
    <3>1. CASE m = 0
      BY <3>1
    <3>2. CASE m # 0
      <4>1. m - 1 \in Nat /\ ~(m <= m - 1)
        BY <2>2, <3>2
      <4>2. m - 1 \notin T
        BY <2>1, <4>1
      <4> QED
        BY <4>1, <4>2 DEF LinesUpTo
    <3> QED
      BY <3>1, <3>2
  <2>4. PICK g : \A k \in 0 .. m - 1 : g[k] = LineStep(g, fields, k)
    BY <2>3
  <2> DEFINE h == [k \in 0 .. m |-> IF k = m THEN LineStep(g, fields, m) ELSE g[k]]
  <2>5. /\ \A k \in 0 .. m - 1 : h[k] = g[k]
        /\ h[m] = LineStep(g, fields, m)
    BY <2>2
  <2> HIDE DEF h
  <2>6. ASSUME NEW k \in 0 .. m PROVE h[k] = LineStep(h, fields, k)
    <3>1. k \in Nat /\ (k # 0 => k - 1 \in 0 .. m - 1) /\ (k = m \/ k \in 0 .. m - 1)
      BY <2>2
    <3>2. LineStep(g, fields, k) = LineStep(h, fields, k)
      BY <2>5, <3>1, LineStepLooksBack
    <3> QED
      BY <2>4, <2>5, <3>1, <3>2
  <2> QED
    BY <2>2, <2>6 DEF LinesUpTo
<1> QED
  BY <1>1

(* Lines is the text of all the header lines.                              *)
LEMMA LinesAre ==
  ASSUME NEW fields, Len(fields) \in Nat
  PROVE  \E g : LinesUpTo(g, fields, Len(fields)) /\ Lines(fields) = g[Len(fields)]
<1> DEFINE n == Len(fields)
           Is(g) == g = [k \in 0 .. n |-> LineStep(g, fields, k)]
           F == CHOOSE g : Is(g)
<1>1. Lines(fields) = F[n]
  BY Zenon DEF Lines, LineStep
<1> HIDE DEF n
<1>2. PICK g : LinesUpTo(g, fields, n)
  BY LineTextsExist DEF n
<1>3. \E h : Is(h)
  <2> DEFINE h == [k \in 0 .. n |-> g[k]]
  <2>1. \A k \in 0 .. n : h[k] = g[k]
    OBVIOUS
  <2> HIDE DEF h
  <2>2. ASSUME NEW k \in 0 .. n PROVE g[k] = LineStep(h, fields, k)
    <3>1. k \in Nat /\ (k # 0 => k - 1 \in 0 .. n)
      BY DEF n
    <3>2. LineStep(g, fields, k) = LineStep(h, fields, k)
      BY <2>1, <3>1, LineStepLooksBack
    <3> QED
      BY <1>2, <3>2 DEF LinesUpTo
  <2>3. h = [k \in 0 .. n |-> LineStep(h, fields, k)]
    BY <2>2, Zenon DEF h
  <2> QED
    BY <2>3
<1>4. Is(F)
  BY <1>3, Zenon
<1> HIDE DEF F
<1>5. LinesUpTo(F, fields, n)
  BY <1>4 DEF LinesUpTo
<1> QED
  BY <1>1, <1>5 DEF n

(* The characters of w are in mem behind position p.                       *)
Holds(mem, p, w) == \A i \in 1 .. Len(w) : mem[p + i] = w[i]

(* Two texts, one behind the other.                                        *)
LEMMA JoinedBytes ==
  ASSUME NEW s \in Bytes, NEW t \in Bytes
  PROVE  /\ s \o t \in Bytes /\ Len(s \o t) = Len(s) + Len(t)
         /\ Len(s) \in Nat /\ Len(t) \in Nat
         /\ \A i \in 1 .. Len(s) : (s \o t)[i] = s[i]
         /\ \A i \in 1 .. Len(t) : (s \o t)[Len(s) + i] = t[i]
<1> DEFINE a == Len(s)
           b == Len(t)
           r == s \o t
<1>1. s \in Seq(Byte) /\ t \in Seq(Byte) /\ a \in Nat /\ b \in Nat
  BY LenProperties DEF Bytes, Byte
<1>2. /\ r \in Seq(Byte) /\ Len(r) = a + b
      /\ \A i \in 1 .. a + b : r[i] = IF i <= a THEN s[i] ELSE t[i - a]
  BY <1>1, ConcatProperties
<1> HIDE DEF a, b, r
<1>3. \A i \in 1 .. a : r[i] = s[i]
  <2> TAKE i \in 1 .. a
  <2>1. i \in 1 .. a + b /\ i <= a
    BY <1>1
  <2> QED
    BY <1>2, <2>1
<1>4. \A i \in 1 .. b : r[a + i] = t[i]
  <2> TAKE i \in 1 .. b
  <2>1. a + i \in 1 .. a + b /\ ~(a + i <= a) /\ (a + i) - a = i
    BY <1>1
  <2> QED
    BY <1>2, <2>1
<1> QED
  BY <1>1, <1>2, <1>3, <1>4 DEF a, b, r, Bytes, Byte

LEMMA JoinedLength ==
  ASSUME NEW s \in Bytes, NEW t \in Bytes
  PROVE  /\ s \o t \in Bytes /\ Len(s \o t) = Len(s) + Len(t)
         /\ Len(s) \in Nat /\ Len(t) \in Nat
BY JoinedBytes

(* Where a text is held, so are its parts.                                 *)
LEMMA HoldsParts ==
  ASSUME NEW mem, NEW p \in Nat, NEW s \in Bytes, NEW t \in Bytes, Holds(mem, p, s \o t)
  PROVE  Holds(mem, p, s) /\ Holds(mem, p + Len(s), t)
<1> DEFINE a == Len(s)
           b == Len(t)
           r == s \o t
<1>1. /\ a \in Nat /\ b \in Nat /\ Len(r) = a + b
      /\ \A i \in 1 .. a : r[i] = s[i]
      /\ \A i \in 1 .. b : r[a + i] = t[i]
  BY JoinedBytes
<1>2. \A i \in 1 .. a + b : mem[p + i] = r[i]
  BY <1>1 DEF Holds
<1> HIDE DEF a, b, r
<1>3. ASSUME NEW i \in 1 .. a PROVE mem[p + i] = s[i]
  <2>1. i \in 1 .. a + b
    BY <1>1
  <2> QED
    BY <1>1, <1>2, <2>1
<1>4. ASSUME NEW i \in 1 .. b PROVE mem[(p + a) + i] = t[i]
  <2>1. a + i \in 1 .. a + b /\ p + (a + i) = (p + a) + i
    BY <1>1
  <2> QED
    BY <1>1, <1>2, <2>1
<1> QED
  BY <1>3, <1>4 DEF Holds, a, b

Sent == [key : Bytes, colon : Bytes, value : Bytes]
Ended == <<CR, LF>>

LEMMA EndedIs == Ended \in Bytes /\ Len(Ended) = 2 /\ Ended[1] = CR /\ Ended[2] = LF
BY DEF Ended, Bytes, CR, LF

(* What is sent of each header is bytes.                                   *)
LEMMA LineTexts ==
  ASSUME NEW fields \in Seq(Sent), NEW g, LinesUpTo(g, fields, Len(fields))
  PROVE  /\ Len(fields) \in Nat
         /\ \A k \in 1 .. Len(fields) : fields[k] \in Sent /\ Line(fields[k]) \in Bytes
         /\ \A k \in 0 .. Len(fields) : g[k] \in Bytes
         /\ g[0] = <<>>
         /\ \A k \in 1 .. Len(fields) : g[k] = g[k - 1] \o Line(fields[k])
<1> DEFINE n == Len(fields)
<1>1. n \in Nat /\ \A k \in 1 .. n : fields[k] \in Sent
  BY LenProperties, ElementOfSeq
<1>2. ASSUME NEW k \in 1 .. n PROVE Line(fields[k]) \in Bytes
  <2> DEFINE f == fields[k]
  <2>1. f.key \in Bytes /\ f.colon \in Bytes /\ f.value \in Bytes
    BY <1>1 DEF Sent
  <2> HIDE DEF f
  <2>2. f.key \o f.colon \in Bytes
    BY <2>1, JoinedBytes
  <2>3. f.key \o f.colon \o f.value \in Bytes
    BY <2>1, <2>2, JoinedBytes
  <2>4. f.key \o f.colon \o f.value \o Ended \in Bytes
    BY <2>3, EndedIs, JoinedBytes
  <2> QED
    BY <2>4 DEF Line, Ended, f
<1> HIDE DEF n
<1>3. g[0] = <<>> /\ \A k \in 1 .. n : g[k] = g[k - 1] \o Line(fields[k])
  <2>1. \A k \in 0 .. n : g[k] = IF k = 0 THEN <<>> ELSE g[k - 1] \o Line(fields[k])
    BY DEF LinesUpTo, LineStep, n
  <2>2. 0 \in 0 .. n /\ \A k \in 1 .. n : k \in 0 .. n /\ k # 0
    BY <1>1
  <2> QED
    BY <2>1, <2>2
<1>4. {k \in 0 .. n : g[k] \notin Bytes} = {}
  <2> DEFINE T == {k \in 0 .. n : g[k] \notin Bytes}
  <2> SUFFICES ASSUME T # {} PROVE FALSE
    OBVIOUS
  <2>1. T \subseteq Nat
    BY <1>1
  <2>2. PICK k \in T : \A j \in T : k <= j
    BY <2>1, Least
  <2>3. k # 0
    BY <1>3, EmptyFilled
  <2>4. k \in 1 .. n /\ k - 1 \in 0 .. n /\ ~(k <= k - 1)
    BY <1>1, <2>3
  <2>5. g[k - 1] \in Bytes
    BY <2>2, <2>4
  <2>6. g[k - 1] \o Line(fields[k]) \in Bytes
    BY <1>2, <2>4, <2>5, JoinedBytes
  <2> QED
    BY <1>3, <2>4, <2>6
<1> QED
  BY <1>1, <1>2, <1>3, <1>4 DEF n

(* Where the text of all the lines is, each line is behind those before    *)
(* it.                                                                     *)
LEMMA LinesHeld ==
  ASSUME NEW mem, NEW p \in Nat, NEW fields \in Seq(Sent), NEW g,
         LinesUpTo(g, fields, Len(fields)), Holds(mem, p, g[Len(fields)])
  PROVE  \A k \in 1 .. Len(fields) : Holds(mem, p + Len(g[k - 1]), Line(fields[k]))
<1> DEFINE n == Len(fields)
           T == {m \in 0 .. n : ~Holds(mem, p, g[n - m])}
<1>1. /\ n \in Nat
      /\ \A k \in 1 .. n : Line(fields[k]) \in Bytes
      /\ \A k \in 0 .. n : g[k] \in Bytes
      /\ \A k \in 1 .. n : g[k] = g[k - 1] \o Line(fields[k])
  BY LineTexts
<1>2. Holds(mem, p, g[n])
  OBVIOUS
<1> HIDE DEF n
<1>3. ASSUME NEW k \in 1 .. n, Holds(mem, p, g[k])
      PROVE  Holds(mem, p, g[k - 1]) /\ Holds(mem, p + Len(g[k - 1]), Line(fields[k]))
  <2>1. k - 1 \in 0 .. n
    BY <1>1
  <2> QED
    BY <1>1, <1>3, <2>1, HoldsParts
<1>4. T = {}
  <2> SUFFICES ASSUME T # {} PROVE FALSE
    OBVIOUS
  <2>1. T \subseteq Nat
    BY <1>1
  <2>2. PICK m \in T : \A j \in T : m <= j
    BY <2>1, Least
  <2>3. m # 0
    BY <1>1, <1>2
  <2>4. m - 1 \in 0 .. n /\ ~(m <= m - 1) /\ n - (m - 1) \in 1 .. n /\ (n - (m - 1)) - 1 = n - m
    BY <1>1, <2>3
  <2>5. Holds(mem, p, g[n - (m - 1)])
    BY <2>2, <2>4
  <2>6. Holds(mem, p, g[n - m])
    BY <1>3, <2>4, <2>5
  <2> QED
    BY <2>6
<1>5. ASSUME NEW k \in 1 .. n PROVE Holds(mem, p, g[k])
  <2>1. n - k \in 0 .. n /\ n - (n - k) = k
    BY <1>1
  <2> QED
    BY <1>4, <2>1
<1> QED
  BY <1>3, <1>5 DEF n

(* What is before the header lines.                                        *)
Opening(m) == m.method \o <<SP>> \o m.url \o <<SP>> \o m.version \o Ended

LEMMA OneByte == <<SP>> \in Bytes /\ Len(<<SP>>) = 1 /\ <<SP>>[1] = SP
<1>1. <<32>> \in Seq(0 .. 127) /\ Len(<<32>>) = 1 /\ <<32>>[1] = 32
  OBVIOUS
<1> QED
  BY <1>1 DEF SP, Bytes

(* A message, by its parts.                                                *)
LEMMA TextBytes ==
  ASSUME NEW m \in Message
  PROVE  /\ Text(m) = (Opening(m) \o Lines(m.fields)) \o Ended
         /\ Opening(m) \in Bytes /\ Lines(m.fields) \in Bytes /\ Text(m) \in Bytes
<1>1. m.method \in Bytes /\ m.url \in Bytes /\ m.version \in Bytes /\ m.fields \in Seq(Sent)
  BY DEF Message, Sent
<1>2. Text(m) = (Opening(m) \o Lines(m.fields)) \o Ended
  BY Zenon DEF Text, Opening, Ended
<1>3. Opening(m) \in Bytes
  <2>1. m.method \o <<SP>> \in Bytes
    BY <1>1, OneByte, JoinedBytes
  <2>2. m.method \o <<SP>> \o m.url \in Bytes
    BY <1>1, <2>1, JoinedBytes
  <2>3. m.method \o <<SP>> \o m.url \o <<SP>> \in Bytes
    BY <2>2, OneByte, JoinedBytes
  <2>4. m.method \o <<SP>> \o m.url \o <<SP>> \o m.version \in Bytes
    BY <1>1, <2>3, JoinedBytes
  <2> QED
    BY <2>4, EndedIs, JoinedBytes DEF Opening
<1>4. Lines(m.fields) \in Bytes
  <2>1. Len(m.fields) \in Nat
    BY <1>1, LenProperties
  <2>2. PICK g : LinesUpTo(g, m.fields, Len(m.fields)) /\ Lines(m.fields) = g[Len(m.fields)]
    BY <2>1, LinesAre
  <2>3. g[Len(m.fields)] \in Bytes
    <3> DEFINE fields == m.fields
    <3>1. fields \in Seq(Sent) /\ LinesUpTo(g, fields, Len(fields))
      BY <1>1, <2>2
    <3>2. Len(fields) \in 0 .. Len(fields)
      BY <2>1
    <3> HIDE DEF fields
    <3>3. g[Len(fields)] \in Bytes
      BY <3>1, <3>2, LineTexts
    <3> QED
      BY <3>3 DEF fields
  <2> QED
    BY <2>2, <2>3
<1>5. Opening(m) \o Lines(m.fields) \in Bytes
  BY <1>3, <1>4, JoinedBytes
<1>6. (Opening(m) \o Lines(m.fields)) \o Ended \in Bytes
  BY <1>5, EndedIs, JoinedBytes
<1> QED
  BY <1>2, <1>3, <1>4, <1>6

-----------------------------------------------------------------------------
(* A word of a message is found where it lies                               *)

LEMMA SliceIs ==
  ASSUME NEW mem, NEW n, Memory(mem, n), NEW p \in Nat, NEW w \in Bytes, Holds(mem, p, w),
         p + Len(w) <= n
  PROVE  Slice(mem, p, p + Len(w)) = w
<1> DEFINE l == Len(w)
           s == SubSeq(mem, p + 1, p + l)
<1>1. w \in Seq(Byte) /\ l \in Nat /\ n \in Nat /\ n < Len(mem) /\ Len(mem) \in Nat
  BY LenProperties, MemoryParts DEF Bytes, Byte
<1>2. \A i \in 1 .. l : mem[p + i] = w[i]
  BY DEF Holds
<1>3. p + l <= n
  OBVIOUS
<1> HIDE DEF l
<1>4. p + 1 \in Nat \ {0} /\ p + l \in Nat /\ p + l < Len(mem)
  BY <1>1, <1>3
<1>5. /\ s \in Bytes /\ Len(s) = (IF p + 1 <= p + l THEN (p + l) - (p + 1) + 1 ELSE 0)
      /\ \A i \in 1 .. (p + l) - (p + 1) + 1 : s[i] = mem[(p + 1) + i - 1]
  BY <1>4, PieceIs
<1> HIDE DEF s
<1>6. Len(s) = l
  BY <1>1, <1>5
<1>7. \A i \in 1 .. l : s[i] = w[i]
  <2> TAKE i \in 1 .. l
  <2>1. i \in 1 .. (p + l) - (p + 1) + 1 /\ (p + 1) + i - 1 = p + i
    BY <1>1
  <2> QED
    BY <1>2, <1>5, <2>1
<1>8. s \in Seq(Byte)
  BY <1>5 DEF Bytes, Byte
<1>9. s = w
  BY <1>1, <1>6, <1>7, <1>8, SeqEqual DEF l
<1> QED
  BY <1>9 DEF Slice, s, l

(* A word is scanned up to the blank behind it.                            *)
LEMMA WordScanned ==
  ASSUME NEW mem, NEW n, Memory(mem, n), NEW p \in Nat, NEW w \in Bytes, Holds(mem, p, w),
         \A i \in 1 .. Len(w) : w[i] \notin Blank,
         p + Len(w) < n, mem[p + Len(w) + 1] \in Blank
  PROVE  NonBlank(mem, n, p) = p + Len(w)
<1> DEFINE l == Len(w)
           q == NonBlank(mem, n, p)
<1>1. l \in Nat /\ n \in Nat /\ p + l < n /\ mem[p + l + 1] \in Blank
  BY LenProperties, MemoryParts DEF Bytes
<1>2. \A i \in 1 .. l : mem[p + i] \notin Blank
  BY DEF Holds
<1> HIDE DEF l
<1>3. p \in 0 .. n
  BY <1>1
<1>4. /\ q \in p .. n /\ (q < n => mem[q + 1] \in Blank)
      /\ \A k \in p + 1 .. q : mem[k] \notin Blank
  BY <1>3, NonBlankIs
<1> HIDE DEF q
<1>5. ~(q < p + l)
  <2> SUFFICES ASSUME q < p + l PROVE FALSE
    OBVIOUS
  <2>1. (q + 1) - p \in 1 .. l /\ p + ((q + 1) - p) = q + 1 /\ q < n
    BY <1>1, <1>4
  <2>2. mem[p + ((q + 1) - p)] \notin Blank
    BY <1>2, <2>1
  <2> QED
    BY <1>4, <2>1, <2>2
<1>6. ~(p + l < q)
  <2> SUFFICES ASSUME p + l < q PROVE FALSE
    OBVIOUS
  <2>1. p + l + 1 \in p + 1 .. q
    BY <1>1, <1>4
  <2> QED
    BY <1>1, <1>4, <2>1
<1>7. q = p + l
  BY <1>1, <1>4, <1>5, <1>6
<1> QED
  BY <1>7 DEF q, l

(* One blank before a word is skipped.                                     *)
LEMMA BlankSkipped ==
  ASSUME NEW mem, NEW n, Memory(mem, n), NEW p \in Nat, p + 1 < n,
         mem[p + 1] = SP, mem[p + 2] \notin Blank
  PROVE  SkipBlanks(mem, p) = p + 1 /\ ~RunsOut(mem, n, p)
<1> DEFINE q == SkipBlanks(mem, p)
<1>1. n \in Nat /\ p \in 0 .. n /\ p < n
  BY MemoryParts
<1>2. /\ q \in Nat /\ p <= q /\ mem[q + 1] \notin Blank
      /\ \A k \in p + 1 .. q : mem[k] \in Blank
  BY <1>1, SkipBlanksIs
<1>3. SP \in Blank
  BY DEF Blank
<1> HIDE DEF q
<1>4. q # p
  BY <1>2, <1>3
<1>5. ~(p + 1 < q)
  <2> SUFFICES ASSUME p + 1 < q PROVE FALSE
    OBVIOUS
  <2>1. p + 2 \in p + 1 .. q
    BY <1>2
  <2> QED
    BY <1>2, <2>1
<1>6. q = p + 1
  BY <1>2, <1>4, <1>5
<1>7. p + 2 \in p + 1 .. n
  BY <1>1
<1>8. ~RunsOut(mem, n, p)
  BY <1>7 DEF RunsOut
<1> QED
  BY <1>6, <1>8 DEF q

(* A word without blanks behind one blank, as the url and the version are. *)
LEMMA WordRead ==
  ASSUME NEW mem, NEW n, Memory(mem, n), NEW p \in Nat, NEW w \in Bytes,
         w # <<>>, ToSet(w) \intersect Blank = {},
         mem[p + 1] = SP, Holds(mem, p + 1, w),
         p + 1 + Len(w) < n, mem[p + 1 + Len(w) + 1] \in Blank
  PROVE  /\ ~NoWord(mem, n, p)
         /\ SkipBlanks(mem, p) = p + 1
         /\ NonBlank(mem, n, p + 1) = p + 1 + Len(w)
         /\ Slice(mem, p + 1, p + 1 + Len(w)) = w
<1>1. /\ n \in Nat /\ Len(w) \in Nat /\ Len(w) # 0 /\ DOMAIN w = 1 .. Len(w)
  BY LenProperties, MemoryParts, EmptySeq DEF Bytes
<1>2. \A i \in 1 .. Len(w) : w[i] \notin Blank
  BY <1>1 DEF ToSet
<1>3. p + 1 < n /\ p + 1 \in Nat
  BY <1>1
<1>4. mem[p + 2] \notin Blank
  <2>1. 1 \in 1 .. Len(w) /\ (p + 1) + 1 = p + 2
    BY <1>1
  <2>2. mem[(p + 1) + 1] = w[1]
    BY <2>1 DEF Holds
  <2> QED
    BY <1>2, <2>1, <2>2
<1>5. SkipBlanks(mem, p) = p + 1 /\ ~RunsOut(mem, n, p)
  BY <1>3, <1>4, BlankSkipped
<1>6. NonBlank(mem, n, p + 1) = p + 1 + Len(w)
  BY <1>2, <1>3, WordScanned
<1>7. Slice(mem, p + 1, p + 1 + Len(w)) = w
  <2>1. p + 1 + Len(w) <= n
    BY <1>1
  <2> QED
    BY <1>3, <2>1, SliceIs
<1>8. ~NoWord(mem, n, p)
  BY <1>1, <1>5, <1>6 DEF NoWord
<1> QED
  BY <1>5, <1>6, <1>7, <1>8

LEMMA GetIs ==
  /\ GET \in Bytes /\ Len(GET) = 3 /\ \A i \in 1 .. 3 : GET[i] \notin Blank
BY DEF GET, Bytes, Blank, LF, CR, SP

(* Where the words of an opening are.                                      *)
LEMMA OpeningLaid ==
  ASSUME NEW mem, NEW m \in Message, m.method = GET, Holds(mem, 0, Opening(m))
  PROVE  LET u == Len(m.url)
             v == Len(m.version)
         IN  /\ u \in Nat /\ v \in Nat /\ Len(Opening(m)) = u + v + 7
             /\ Holds(mem, 0, GET) /\ mem[4] = SP
             /\ Holds(mem, 4, m.url) /\ mem[u + 5] = SP
             /\ Holds(mem, u + 5, m.version)
             /\ mem[u + v + 6] = CR /\ mem[u + v + 7] = LF
<1> DEFINE url == m.url
           version == m.version
           u == Len(url)
           v == Len(version)
           one == <<SP>>
           a1 == GET \o one
           a2 == a1 \o url
           a3 == a2 \o one
           a4 == a3 \o version
           a5 == a4 \o Ended
<1>1. url \in Bytes /\ version \in Bytes /\ GET \in Bytes /\ Len(GET) = 3 /\ Opening(m) = a5
  BY GetIs DEF Message, Opening
<1>2. one \in Bytes /\ Len(one) = 1 /\ one[1] = SP
  BY OneByte
<1>3. Ended \in Bytes /\ Len(Ended) = 2 /\ Ended[1] = CR /\ Ended[2] = LF
  BY EndedIs
<1> HIDE DEF url, version, one, a5
<1>4. a1 \in Bytes /\ Len(a1) = 4
  <2>1. /\ a1 \in Bytes /\ Len(a1) = Len(GET) + Len(one)
        /\ Len(GET) \in Nat /\ Len(one) \in Nat
    BY <1>1, <1>2, JoinedLength
  <2> QED
    BY <1>1, <1>2, <2>1
<1> HIDE DEF a1
<1>5. a2 \in Bytes /\ Len(a2) = u + 4 /\ u \in Nat
  <2>1. /\ a2 \in Bytes /\ Len(a2) = Len(a1) + Len(url)
        /\ Len(a1) \in Nat /\ Len(url) \in Nat
    BY <1>1, <1>4, JoinedLength
  <2> QED
    BY <1>1, <1>4, <2>1
<1> HIDE DEF a2
<1>6. a3 \in Bytes /\ Len(a3) = u + 5
  <2>1. /\ a3 \in Bytes /\ Len(a3) = Len(a2) + Len(one)
        /\ Len(a2) \in Nat /\ Len(one) \in Nat
    BY <1>2, <1>5, JoinedLength
  <2> QED
    BY <1>2, <1>5, <2>1
<1> HIDE DEF a3
<1>7. a4 \in Bytes /\ Len(a4) = u + v + 5 /\ v \in Nat
  <2>1. /\ a4 \in Bytes /\ Len(a4) = Len(a3) + Len(version)
        /\ Len(a3) \in Nat /\ Len(version) \in Nat
    BY <1>1, <1>6, JoinedLength
  <2> QED
    BY <1>1, <1>6, <2>1, <1>5
<1> HIDE DEF a4
<1>8. a5 \in Bytes /\ Len(a5) = u + v + 7
  <2>1. /\ a5 \in Bytes /\ Len(a5) = Len(a4) + Len(Ended)
        /\ Len(a4) \in Nat /\ Len(Ended) \in Nat
    BY <1>3, <1>7, JoinedLength DEF a5
  <2> QED
    BY <1>3, <1>7, <2>1, <1>5
<1>9. Holds(mem, 0, a4) /\ Holds(mem, u + v + 5, Ended)
  <2>1. Holds(mem, 0, a4) /\ Holds(mem, 0 + Len(a4), Ended)
    BY <1>1, <1>3, <1>7, HoldsParts DEF a5
  <2>2. 0 + Len(a4) = u + v + 5
    BY <1>5, <1>7
  <2> QED
    BY <2>1, <2>2
<1>10. Holds(mem, 0, a3) /\ Holds(mem, u + 5, version)
  <2>1. Holds(mem, 0, a3) /\ Holds(mem, 0 + Len(a3), version)
    BY <1>1, <1>6, <1>9, HoldsParts DEF a4
  <2>2. 0 + Len(a3) = u + 5
    BY <1>5, <1>6
  <2> QED
    BY <2>1, <2>2
<1>11. Holds(mem, 0, a2) /\ Holds(mem, u + 4, one)
  <2>1. Holds(mem, 0, a2) /\ Holds(mem, 0 + Len(a2), one)
    BY <1>2, <1>5, <1>10, HoldsParts DEF a3
  <2>2. 0 + Len(a2) = u + 4
    BY <1>5
  <2> QED
    BY <2>1, <2>2
<1>12. Holds(mem, 0, a1) /\ Holds(mem, 4, url)
  <2>1. Holds(mem, 0, a1) /\ Holds(mem, 0 + Len(a1), url)
    BY <1>1, <1>4, <1>11, HoldsParts DEF a2
  <2>2. 0 + Len(a1) = 4
    BY <1>4
  <2> QED
    BY <2>1, <2>2
<1>13. Holds(mem, 0, GET) /\ Holds(mem, 3, one)
  <2>1. Holds(mem, 0, GET) /\ Holds(mem, 0 + Len(GET), one)
    BY <1>1, <1>2, <1>12, HoldsParts DEF a1
  <2> QED
    BY <1>1, <2>1
<1> HIDE DEF u, v
<1>14. mem[4] = SP
  BY <1>2, <1>13 DEF Holds
<1>15. mem[u + 5] = SP
  <2>1. mem[(u + 4) + 1] = SP
    BY <1>2, <1>11 DEF Holds
  <2>2. (u + 4) + 1 = u + 5
    BY <1>5
  <2> QED
    BY <2>1, <2>2
<1>16. mem[u + v + 6] = CR /\ mem[u + v + 7] = LF
  <2>1. mem[(u + v + 5) + 1] = CR /\ mem[(u + v + 5) + 2] = LF
    BY <1>3, <1>9 DEF Holds
  <2>2. (u + v + 5) + 1 = u + v + 6 /\ (u + v + 5) + 2 = u + v + 7
    BY <1>5, <1>7
  <2> QED
    BY <2>1, <2>2
<1> QED
  BY <1>1, <1>5, <1>7, <1>8, <1>10, <1>12, <1>13, <1>14, <1>15, <1>16 DEF url, version, u, v

(* The method is accepted, and the url and the version are read as they    *)
(* were sent.                                                              *)
LEMMA OpeningRead ==
  ASSUME NEW mem, NEW n, Memory(mem, n), NEW m \in Message, WellFormed(m),
         Holds(mem, 0, Opening(m)), Len(Opening(m)) <= n
  PROVE  /\ Len(Opening(m)) \in 0 .. n
         /\ FromMemory(mem, n)
              = HeaderLines(mem, n, m.url, m.version)[Len(Opening(m))][<<>>]
<1> DEFINE url == m.url
           version == m.version
           u == Len(url)
           v == Len(version)
<1>1. /\ m.method = GET /\ url # <<>> /\ version # <<>>
      /\ ToSet(url) \intersect Blank = {} /\ ToSet(version) \intersect Blank = {}
  BY DEF WellFormed
<1>2. url \in Bytes /\ version \in Bytes /\ n \in Nat
  BY MemoryParts DEF Message
<1>3. /\ u \in Nat /\ v \in Nat /\ Len(Opening(m)) = u + v + 7
      /\ Holds(mem, 0, GET) /\ mem[4] = SP
      /\ Holds(mem, 4, url) /\ mem[u + 5] = SP
      /\ Holds(mem, u + 5, version)
      /\ mem[u + v + 6] = CR /\ mem[u + v + 7] = LF
  BY <1>1, OpeningLaid
<1>4. SP \in Blank /\ CR \in Blank
  BY DEF Blank
<1> HIDE DEF url, version
<1>5. NonBlank(mem, n, 0) = 3 /\ MethodAccepted(mem, 3)
  <2>1. \A i \in 1 .. 3 : mem[i] = GET[i]
    <3>1. \A i \in 1 .. 3 : mem[0 + i] = GET[i] /\ 0 + i = i
      BY <1>3, GetIs DEF Holds
    <3> QED
      BY <3>1
  <2>2. 0 + Len(GET) < n /\ 0 + Len(GET) + 1 = 4 /\ 0 + Len(GET) = 3
    BY <1>2, <1>3, GetIs
  <2>3. NonBlank(mem, n, 0) = 0 + Len(GET)
    <3>1. mem[0 + Len(GET) + 1] \in Blank
      BY <1>3, <1>4, <2>2
    <3>2. \A i \in 1 .. Len(GET) : GET[i] \notin Blank
      BY GetIs
    <3>3. GET \in Bytes /\ 0 \in Nat /\ 0 + Len(GET) < n
      BY <2>2, GetIs
    <3> QED
      BY <1>3, <3>1, <3>2, <3>3, WordScanned
  <2> QED
    BY <2>1, <2>2, <2>3, GetIs DEF MethodAccepted
<1> HIDE DEF u, v
<1>6. /\ ~NoWord(mem, n, 3) /\ SkipBlanks(mem, 3) = 4
      /\ NonBlank(mem, n, 4) = u + 4 /\ Slice(mem, 4, u + 4) = url
  <2>1. 3 + 1 = 4 /\ 3 + 1 + u < n /\ 3 + 1 + u + 1 = u + 5 /\ 3 + 1 + u = u + 4
    BY <1>2, <1>3
  <2>2. mem[3 + 1] = SP /\ Holds(mem, 3 + 1, url) /\ mem[3 + 1 + Len(url) + 1] \in Blank
        /\ 3 + 1 + Len(url) < n
    BY <1>3, <1>4, <2>1 DEF u
  <2>3. /\ ~NoWord(mem, n, 3) /\ SkipBlanks(mem, 3) = 3 + 1
        /\ NonBlank(mem, n, 3 + 1) = 3 + 1 + Len(url)
        /\ Slice(mem, 3 + 1, 3 + 1 + Len(url)) = url
    BY <1>1, <1>2, <2>2, WordRead
  <2> QED
    BY <2>1, <2>3 DEF u
<1>7. /\ ~NoWord(mem, n, u + 4) /\ SkipBlanks(mem, u + 4) = u + 5
      /\ NonBlank(mem, n, u + 5) = u + v + 5 /\ Slice(mem, u + 5, u + v + 5) = version
  <2> DEFINE p == u + 4
  <2>1. /\ p \in Nat /\ p + 1 = u + 5 /\ p + 1 + v < n /\ p + 1 + v + 1 = u + v + 6
        /\ p + 1 + v = u + v + 5
    BY <1>2, <1>3
  <2> HIDE DEF p
  <2>2. mem[p + 1] = SP /\ Holds(mem, p + 1, version) /\ mem[p + 1 + Len(version) + 1] \in Blank
        /\ p + 1 + Len(version) < n
    BY <1>3, <1>4, <2>1 DEF v
  <2>3. /\ ~NoWord(mem, n, p) /\ SkipBlanks(mem, p) = p + 1
        /\ NonBlank(mem, n, p + 1) = p + 1 + Len(version)
        /\ Slice(mem, p + 1, p + 1 + Len(version)) = version
    BY <1>1, <1>2, <2>1, <2>2, WordRead
  <2> QED
    BY <2>1, <2>3 DEF v, p
<1>8. FromMemory(mem, n) = AfterUrl(mem, n, url, u + 4)
  BY <1>5, <1>6, Stages DEF AfterMethod
<1>9. AfterUrl(mem, n, url, u + 4) = AfterVersion(mem, n, url, u + 5, u + v + 5)
  BY <1>7 DEF AfterUrl
<1>10. AfterVersion(mem, n, url, u + 5, u + v + 5)
         = HeaderLines(mem, n, url, version)[u + v + 7][<<>>]
  <2>1. /\ ~((u + v + 5) + 1 >= n) /\ (u + v + 5) + 1 = u + v + 6 /\ (u + v + 5) + 2 = u + v + 7
    BY <1>2, <1>3
  <2> QED
    BY <1>3, <1>7, <2>1 DEF AfterVersion
<1>11. Len(Opening(m)) \in 0 .. n
  BY <1>2, <1>3
<1> QED
  BY <1>3, <1>8, <1>9, <1>10, <1>11 DEF url, version

-----------------------------------------------------------------------------
(* A header of a message is read as it was sent                             *)

(* What is kept of a header that is sent.                                  *)
Read(f) == [key |-> f.key, value |-> Trimmed(f.value, 0, Len(f.value))]

(* What is kept of a value is the same wherever in memory it is.           *)
LEMMA TrimmedAnywhere ==
  ASSUME NEW mem, NEW n, Memory(mem, n), NEW p \in Nat, NEW w \in Bytes, Holds(mem, p, w),
         p + Len(w) <= n
  PROVE  Trimmed(mem, p, p + Len(w)) = Trimmed(w, 0, Len(w))
<1> DEFINE l == Len(w)
           q == p + l
           kept == {k \in p + 1 .. q : mem[k] \notin Blank}
           own == {k \in 0 + 1 .. l : w[k] \notin Blank}
           Final(T) == CHOOSE k \in T : \A j \in T : j <= k
<1>1. w \in Seq(Byte) /\ l \in Nat /\ n \in Nat /\ n < Len(mem) /\ Len(mem) \in Nat /\ q <= n
  BY LenProperties, MemoryParts DEF Bytes, Byte
<1>2. \A i \in 1 .. l : mem[p + i] = w[i] /\ w[i] \in Byte
  BY <1>1, ElementOfSeq DEF Holds
<1>3. /\ Trimmed(mem, p, q) = IF kept = {} THEN <<>> ELSE SubSeq(mem, First(kept), Final(kept))
      /\ Trimmed(w, 0, l) = IF own = {} THEN <<>> ELSE SubSeq(w, First(own), Final(own))
  BY DEF Trimmed
<1> HIDE DEF l
<1>4. \A i \in 1 .. l : i \in own <=> p + i \in kept
  <2> TAKE i \in 1 .. l
  <2>1. p + i \in p + 1 .. q /\ i \in 0 + 1 .. l
    BY <1>1
  <2> QED
    BY <1>2, <2>1
<1>5. /\ own \subseteq 1 .. l /\ own \subseteq Nat /\ kept \subseteq Nat
      /\ \A k \in kept : k - p \in 1 .. l /\ p + (k - p) = k /\ k <= q
  BY <1>1
<1> HIDE DEF kept, own, q
<1>6. CASE own = {}
  <2>1. kept = {}
    BY <1>4, <1>5, <1>6
  <2> QED
    BY <1>3, <1>6, <2>1 DEF q, l
<1>7. CASE own # {}
  <2>1. kept # {}
    BY <1>4, <1>5, <1>7
  <2> DEFINE a == First(own)
             b == Final(own)
  <2>2. a \in own /\ \A k \in own : a <= k
    BY <1>5, <1>7, FirstIs
  <2>3. b \in own /\ \A k \in own : k <= b
    <3>1. l \in Nat /\ \A k \in own : k <= l
      BY <1>1, <1>5
    <3>2. b \in own
      BY <1>5, <1>7, <3>1, LastIs
    <3>3. \E k \in own : \A j \in own : j <= k
      BY <1>5, <1>7, <3>1, LastExists
    <3> QED
      BY <3>3
  <2> HIDE DEF a, b
  <2>4. First(kept) = p + a
    <3>1. p + a \in kept
      BY <1>4, <1>5, <2>2
    <3>2. ASSUME NEW k \in kept PROVE p + a <= k
      <4>1. k - p \in own /\ k \in Nat /\ a \in Nat
        BY <1>4, <1>5, <2>2
      <4>2. a <= k - p
        BY <2>2, <4>1
      <4> QED
        BY <4>1, <4>2
    <3> QED
      BY <1>5, <3>1, <3>2, FirstUnique
  <2>5. Final(kept) = p + b
    <3>1. p + b \in kept
      BY <1>4, <1>5, <2>3
    <3>2. ASSUME NEW k \in kept PROVE k <= p + b
      <4>1. k - p \in own /\ k \in Nat /\ b \in Nat
        BY <1>4, <1>5, <2>3
      <4>2. k - p <= b
        BY <2>3, <4>1
      <4> QED
        BY <4>1, <4>2
    <3>3. \A k \in kept : (\A j \in kept : j <= k) => k = p + b
      <4> TAKE k \in kept
      <4>1. k \in Nat /\ p + b \in Nat /\ k <= p + b
        BY <1>5, <3>1, <3>2
      <4> QED
        BY <3>1, <4>1
    <3> QED
      BY <3>1, <3>2, <3>3
  <2> DEFINE s == SubSeq(w, a, b)
             t == SubSeq(mem, p + a, p + b)
  <2>6. a \in 1 .. l /\ b \in 1 .. l /\ a <= b
    BY <1>5, <2>2, <2>3
  <2>7. s \in Seq(Byte) /\ Len(s) = b - a + 1 /\ \A i \in 1 .. b - a + 1 : s[i] = w[a + i - 1]
    <3>1. \A i \in a .. b : w[i] \in Byte
      BY <1>1, <1>2, <2>6
    <3> QED
      BY <1>1, <2>6, <3>1, SubSeqProperties
  <2>8. /\ t \in Seq(Byte) /\ Len(t) = b - a + 1
        /\ \A i \in 1 .. b - a + 1 : t[i] = mem[(p + a) + i - 1]
    <3> DEFINE c == p + a
               d == p + b
    <3>1. c \in Nat \ {0} /\ d \in Nat /\ d < Len(mem) /\ c <= d /\ d - c + 1 = b - a + 1
      BY <1>1, <2>6 DEF q
    <3> HIDE DEF c, d
    <3>2. /\ SubSeq(mem, c, d) \in Bytes
          /\ Len(SubSeq(mem, c, d)) = IF c <= d THEN d - c + 1 ELSE 0
          /\ \A i \in 1 .. d - c + 1 : SubSeq(mem, c, d)[i] = mem[c + i - 1]
      BY <3>1, PieceIs
    <3> QED
      BY <3>1, <3>2 DEF c, d, Bytes, Byte
  <2> HIDE DEF s, t
  <2>9. \A i \in 1 .. b - a + 1 : t[i] = s[i]
    <3> TAKE i \in 1 .. b - a + 1
    <3>1. a + i - 1 \in 1 .. l /\ p + (a + i - 1) = (p + a) + i - 1
      BY <1>1, <2>6
    <3> QED
      BY <1>2, <2>7, <2>8, <3>1
  <2>10. s = t
    BY <2>7, <2>8, <2>9, SeqEqual
  <2> QED
    BY <1>3, <1>7, <2>1, <2>4, <2>5, <2>10 DEF s, t, a, b, q, l
<1> QED
  BY <1>6, <1>7

(* What WellFormed asks of a header.                                       *)
FieldFormed(f) ==
  /\ ToSet(f.key) \intersect (Blank \union {NUL, COLON}) = {} /\ f.colon = <<COLON>>
  /\ ~(ToSet(f.value) \subseteq Blank)
  /\ LineEnds(f.value, Len(f.value), 0) = {}

LEMMA ElementsOf ==
  ASSUME NEW w \in Bytes
  PROVE  /\ Len(w) \in Nat /\ \A i \in 1 .. Len(w) : w[i] \in Byte
         /\ ToSet(w) = {w[i] : i \in 1 .. Len(w)}
<1>1. w \in Seq(Byte)
  BY DEF Bytes, Byte
<1>2. DOMAIN w = 1 .. Len(w) /\ Len(w) \in Nat
  BY <1>1, LenProperties
<1>3. \A i \in 1 .. Len(w) : w[i] \in Byte
  BY <1>1, ElementOfSeq
<1> QED
  BY <1>2, <1>3 DEF ToSet

LEMMA ValueKept ==
  ASSUME NEW w \in Bytes, ~(ToSet(w) \subseteq Blank)
  PROVE  Trimmed(w, 0, Len(w)) # <<>>
<1> DEFINE l == Len(w)
           own == {k \in 0 + 1 .. l : w[k] \notin Blank}
           Final(T) == CHOOSE k \in T : \A j \in T : j <= k
           a == First(own)
           b == Final(own)
<1>1. l \in Nat /\ \A i \in 1 .. l : w[i] \in Byte
  BY ElementsOf
<1>2. own # {}
  <2>1. PICK i \in 1 .. Len(w) : w[i] \notin Blank
    BY ElementsOf
  <2>2. i \in 0 + 1 .. l
    OBVIOUS
  <2> QED
    BY <2>1, <2>2
<1>3. Trimmed(w, 0, l) = SubSeq(w, a, b)
  BY <1>2 DEF Trimmed
<1> HIDE DEF l
<1>4. own \subseteq Nat /\ \A k \in own : k \in 1 .. l /\ k <= l
  BY <1>1
<1> HIDE DEF own
<1>5. a \in own /\ b \in own /\ a <= b
  BY <1>1, <1>2, <1>4, FirstIs, LastIs
<1> HIDE DEF a, b
<1>6. /\ a \in Int /\ b \in Int /\ a <= b /\ \A i \in a .. b : w[i] \in Byte
  BY <1>1, <1>4, <1>5
<1>7. Len(SubSeq(w, a, b)) = b - a + 1
  BY <1>6, SubSeqProperties
<1>8. Len(SubSeq(w, a, b)) # 0
  BY <1>6, <1>7
<1>9. Len(<<>>) = 0
  BY EmptySeq
<1> QED
  BY <1>3, <1>8, <1>9 DEF l

LEMMA OneColon == <<COLON>> \in Bytes /\ Len(<<COLON>>) = 1 /\ <<COLON>>[1] = COLON
<1>1. <<58>> \in Seq(0 .. 127) /\ Len(<<58>>) = 1 /\ <<58>>[1] = 58
  OBVIOUS
<1> QED
  BY <1>1 DEF COLON, Bytes

(* Where the parts of a header line are.                                   *)
LEMMA LineLaid ==
  ASSUME NEW mem, NEW p \in Nat, NEW f \in Sent, FieldFormed(f), Holds(mem, p, Line(f))
  PROVE  LET a == Len(f.key)
             b == Len(f.value)
         IN  /\ a \in Nat /\ b \in Nat /\ Len(Line(f)) = a + b + 3
             /\ Holds(mem, p, f.key) /\ mem[p + a + 1] = COLON
             /\ Holds(mem, p + a + 1, f.value)
             /\ mem[p + a + b + 2] = CR /\ mem[p + a + b + 3] = LF
<1> DEFINE key == f.key
           value == f.value
           a == Len(key)
           b == Len(value)
           one == <<COLON>>
           l1 == key \o one
           l2 == l1 \o value
           l3 == l2 \o Ended
<1>1. key \in Bytes /\ value \in Bytes /\ Line(f) = l3
  BY DEF Sent, FieldFormed, Line, Ended
<1>2. one \in Bytes /\ Len(one) = 1 /\ one[1] = COLON
  BY OneColon
<1>3. Ended \in Bytes /\ Len(Ended) = 2 /\ Ended[1] = CR /\ Ended[2] = LF
  BY EndedIs
<1> HIDE DEF key, value, one, l3
<1>4. l1 \in Bytes /\ Len(l1) = a + 1 /\ a \in Nat
  <2>1. l1 \in Bytes /\ Len(l1) = Len(key) + Len(one) /\ Len(key) \in Nat /\ Len(one) \in Nat
    BY <1>1, <1>2, JoinedLength
  <2> QED
    BY <1>2, <2>1
<1> HIDE DEF l1
<1>5. l2 \in Bytes /\ Len(l2) = a + b + 1 /\ b \in Nat
  <2>1. l2 \in Bytes /\ Len(l2) = Len(l1) + Len(value) /\ Len(l1) \in Nat /\ Len(value) \in Nat
    BY <1>1, <1>4, JoinedLength
  <2> QED
    BY <1>4, <2>1
<1> HIDE DEF l2
<1>6. Len(l3) = a + b + 3
  <2>1. Len(l3) = Len(l2) + Len(Ended) /\ Len(l2) \in Nat
    BY <1>3, <1>5, JoinedLength DEF l3
  <2> QED
    BY <1>3, <1>4, <1>5, <2>1
<1>7. Holds(mem, p, l2) /\ Holds(mem, p + a + b + 1, Ended)
  <2>1. Holds(mem, p, l2) /\ Holds(mem, p + Len(l2), Ended)
    BY <1>1, <1>3, <1>5, HoldsParts DEF l3
  <2>2. p + Len(l2) = p + a + b + 1
    BY <1>4, <1>5
  <2> QED
    BY <2>1, <2>2
<1>8. Holds(mem, p, l1) /\ Holds(mem, p + a + 1, value)
  <2>1. Holds(mem, p, l1) /\ Holds(mem, p + Len(l1), value)
    BY <1>1, <1>4, <1>7, HoldsParts DEF l2
  <2>2. p + Len(l1) = p + a + 1
    BY <1>4
  <2> QED
    BY <2>1, <2>2
<1>9. Holds(mem, p, key) /\ Holds(mem, p + a, one)
  BY <1>1, <1>2, <1>8, HoldsParts DEF l1
<1> HIDE DEF a, b
<1>10. mem[p + a + 1] = COLON
  BY <1>2, <1>9 DEF Holds
<1>11. mem[p + a + b + 2] = CR /\ mem[p + a + b + 3] = LF
  <2>1. mem[(p + a + b + 1) + 1] = CR /\ mem[(p + a + b + 1) + 2] = LF
    BY <1>3, <1>7 DEF Holds
  <2>2. (p + a + b + 1) + 1 = p + a + b + 2 /\ (p + a + b + 1) + 2 = p + a + b + 3
    BY <1>4, <1>5
  <2> QED
    BY <2>1, <2>2
<1> QED
  BY <1>1, <1>4, <1>5, <1>6, <1>8, <1>9, <1>10, <1>11 DEF key, value, a, b

(* Field reads a header line as it was sent.                               *)
LEMMA LineRead ==
  ASSUME NEW mem, NEW n, Memory(mem, n), NEW p \in Nat, NEW f \in Sent, FieldFormed(f),
         Holds(mem, p, Line(f)), p + Len(Line(f)) <= n
  PROVE  LET q == p + Len(f.key) + Len(f.value) + 1
         IN  /\ q \in p + 1 .. n - 2 /\ q + 2 = p + Len(Line(f))
             /\ LineEnds(mem, n, p) # {} /\ First(LineEnds(mem, n, p)) = q
             /\ Field(mem, p, q) = <<Read(f)>>
             /\ Read(f) \in FieldType
<1> DEFINE key == f.key
           value == f.value
           a == Len(key)
           b == Len(value)
           q == p + a + b + 1
           ends == LineEnds(mem, n, p)
<1>1. key \in Bytes /\ value \in Bytes /\ n \in Nat
  BY MemoryParts DEF Sent
<1>2. /\ a \in Nat /\ b \in Nat /\ Len(Line(f)) = a + b + 3
      /\ Holds(mem, p, key) /\ mem[p + a + 1] = COLON
      /\ Holds(mem, p + a + 1, value)
      /\ mem[p + a + b + 2] = CR /\ mem[p + a + b + 3] = LF
  BY LineLaid
<1>3. /\ \A i \in 1 .. a : key[i] \notin Blank /\ key[i] # NUL /\ key[i] # COLON
      /\ ~(ToSet(value) \subseteq Blank) /\ LineEnds(value, b, 0) = {}
  <2>1. ToSet(key) = {key[i] : i \in 1 .. Len(key)}
    BY <1>1, ElementsOf
  <2> QED
    BY <2>1 DEF FieldFormed
<1>4. p + a + b + 3 <= n
  <2> HIDE DEF a, b
  <2>1. p + (a + b + 3) <= n
    BY <1>2
  <2> QED
    BY <1>1, <1>2, <2>1
<1>5. CR \in Blank /\ CR # COLON /\ CR # LF /\ COLON # NUL
  BY DEF Blank, CR, LF, COLON, NUL
<1> HIDE DEF key, value
<1>6. /\ \A i \in 1 .. a : mem[p + i] = key[i]
      /\ \A i \in 1 .. b : mem[(p + a + 1) + i] = value[i]
  BY <1>2 DEF Holds
<1>7. \A k \in p + 1 .. p + a : mem[k] \notin Blank /\ mem[k] # NUL /\ mem[k] # COLON
  <2> HIDE DEF a
  <2> TAKE k \in p + 1 .. p + a
  <2>1. k - p \in 1 .. a /\ p + (k - p) = k
    BY <1>2
  <2> QED
    BY <1>3, <1>6, <2>1
<1>8. \A r \in 0 .. b - 2 : ~(value[r + 1] = CR /\ value[r + 2] = LF)
  BY <1>3 DEF LineEnds
<1> HIDE DEF a, b
<1>9. q \in p + 1 .. n - 2 /\ q + 2 = p + Len(Line(f)) /\ mem[q + 1] = CR /\ mem[q + 2] = LF
  <2>1. /\ q \in p + 1 .. n - 2 /\ q + 2 = p + (a + b + 3)
        /\ q + 1 = p + a + b + 2 /\ q + 2 = p + a + b + 3
    BY <1>1, <1>2, <1>4
  <2> QED
    BY <1>2, <2>1
<1>10. /\ ends \subseteq Nat /\ q \in ends
       /\ \A r \in ends : r \in p .. n - 2 /\ mem[r + 1] = CR /\ mem[r + 2] = LF
  <2> HIDE DEF q
  <2> QED
    BY <1>9 DEF LineEnds
<1> HIDE DEF ends
<1>11. ASSUME NEW r \in ends, r < q PROVE FALSE
  <2>1. r \in p .. n - 2 /\ r \in Nat /\ mem[r + 1] = CR /\ mem[r + 2] = LF
    BY <1>10
  <2>2. CASE r < p + a
    <3>1. r + 1 \in p + 1 .. p + a
      BY <1>2, <2>1, <2>2
    <3> QED
      BY <1>5, <1>7, <2>1, <3>1
  <2>3. CASE r = p + a
    BY <1>2, <1>5, <2>1, <2>3
  <2>4. CASE r > p + a
    <3> DEFINE i == r - (p + a)
    <3>1. i \in 1 .. b /\ (p + a + 1) + i = r + 1
      BY <1>2, <1>11, <2>1, <2>4
    <3>2. value[i] = CR
      BY <1>6, <2>1, <3>1
    <3>3. CASE i = b
      <4>1. r + 2 = q + 1
        BY <1>2, <2>1, <3>3
      <4> QED
        BY <1>5, <1>9, <2>1, <4>1
    <3>4. CASE i # b
      <4> HIDE DEF i
      <4>1. i + 1 \in 1 .. b /\ i - 1 \in 0 .. b - 2 /\ (i - 1) + 1 = i /\ (i - 1) + 2 = i + 1
        BY <1>2, <3>1, <3>4
      <4>2. (p + a + 1) + (i + 1) = r + 2
        BY <1>2, <2>1 DEF i
      <4>3. value[i + 1] = LF
        BY <1>6, <2>1, <4>1, <4>2
      <4> QED
        BY <1>8, <3>2, <4>1, <4>3
    <3> QED
      BY <3>3, <3>4
  <2> QED
    BY <1>2, <2>1, <2>2, <2>3, <2>4
<1> HIDE DEF q
<1>12. ends # {} /\ First(ends) = q
  <2>1. \A r \in ends : q <= r
    BY <1>9, <1>10, <1>11
  <2> QED
    BY <1>10, <2>1, FirstUnique
<1> DEFINE inside == ColonsInside(mem, p, q)
           c == p + a
<1>13. inside # {} /\ First(inside) = c
  <2>1. /\ c \in p .. q - 1 /\ c \in Nat /\ c + 1 = p + a + 1
    BY <1>2 DEF q
  <2>2. c \in inside
    BY <1>2, <1>7, <2>1 DEF ColonsInside
  <2>3. /\ inside \subseteq Nat
        /\ \A k \in inside : k \in p .. q - 1 /\ mem[k + 1] = COLON
    BY DEF ColonsInside
  <2> HIDE DEF inside
  <2>4. ASSUME NEW k \in inside, k < c PROVE FALSE
    <3>1. k + 1 \in p + 1 .. p + a
      BY <1>2, <2>3, <2>4
    <3> QED
      BY <1>7, <2>3, <3>1
  <2>5. \A k \in inside : c <= k
    BY <2>1, <2>3, <2>4
  <2> QED
    BY <2>2, <2>3, <2>5, FirstUnique
<1>14. Field(mem, p, q) = FieldAt(mem, p, c, q)
  <2>1. p \in 0 .. n /\ q \in p .. n - 2
    BY <1>1, <1>9
  <2> QED
    BY <1>9, <1>13, <2>1, FieldIs
<1>15. Trimmed(mem, c + 1, q) = Trimmed(value, 0, b) /\ Trimmed(value, 0, b) # <<>>
  <2>1. c + 1 \in Nat /\ c + 1 + b = q /\ c + 1 + b <= n /\ c + 1 = p + a + 1
    BY <1>1, <1>2, <1>9 DEF q
  <2>2. Trimmed(mem, c + 1, c + 1 + Len(value)) = Trimmed(value, 0, Len(value))
    <3> HIDE DEF c
    <3>1. Holds(mem, c + 1, value) /\ c + 1 + Len(value) <= n
      BY <1>2, <2>1 DEF b
    <3> QED
      BY <1>1, <2>1, <3>1, TrimmedAnywhere
  <2>3. Trimmed(value, 0, Len(value)) # <<>>
    BY <1>1, <1>3, ValueKept
  <2> QED
    BY <2>1, <2>2, <2>3 DEF b
<1>16. Slice(mem, p, c) = key
  <2>1. p + Len(key) <= n
    BY <1>2, <1>4, <1>1 DEF a
  <2> QED
    BY <1>1, <1>2, <2>1, SliceIs DEF a
<1>17. FieldAt(mem, p, c, q) = <<[key |-> key, value |-> Trimmed(value, 0, b)]>>
  BY <1>7, <1>15, <1>16 DEF FieldAt
<1>18. Field(mem, p, q) = <<Read(f)>>
  BY <1>14, <1>17 DEF Read, key, value, b
<1>19. Read(f) \in FieldType
  <2>1. p \in 0 .. n /\ q \in p .. n - 2 /\ <<Read(f)>> # <<>> /\ <<Read(f)>>[1] = Read(f)
    BY <1>1, <1>9
  <2> QED
    BY <1>9, <1>18, <2>1, FieldTyped
<1> QED
  BY <1>9, <1>12, <1>18, <1>19 DEF q, ends, a, b, key, value

-----------------------------------------------------------------------------
(* The order of the keys and the list they are kept in                      *)

(* strcmp orders keys                                                      *)

LEMMA ByteNat == \A x \in Byte : x \in Nat
BY DEF Byte

SameUpTo(a, b, n) == \A i \in 1 .. n : a[i] = b[i]

(* Equal prefixes, as SubSeq and element by element.                       *)
LEMMA PrefixSame ==
  ASSUME NEW a \in Bytes, NEW b \in Bytes, NEW n \in Nat, n <= Len(a), n <= Len(b)
  PROVE  SubSeq(a, 1, n) = SubSeq(b, 1, n) <=> SameUpTo(a, b, n)
<1> DEFINE s == SubSeq(a, 1, n)
           t == SubSeq(b, 1, n)
<1>1. /\ \A i \in 1 .. Len(a) : a[i] \in Byte
      /\ \A i \in 1 .. Len(b) : b[i] \in Byte
      /\ Len(a) \in Nat /\ Len(b) \in Nat
  BY ElementsOf
<1>2. \A i \in 1 .. n : a[i] \in Byte /\ b[i] \in Byte
  BY <1>1
<1>3. n - 1 + 1 = n /\ (1 <= n \/ n = 0)
  OBVIOUS
<1>4. s \in Seq(Byte) /\ Len(s) = n /\ \A i \in 1 .. n : s[i] = a[i]
  <2>1. /\ s \in Seq(Byte) /\ Len(s) = (IF 1 <= n THEN n - 1 + 1 ELSE 0)
        /\ \A i \in 1 .. n - 1 + 1 : s[i] = a[1 + i - 1]
    BY <1>2, SubSeqProperties
  <2> HIDE DEF s
  <2> QED
    BY <1>3, <2>1
<1>5. t \in Seq(Byte) /\ Len(t) = n /\ \A i \in 1 .. n : t[i] = b[i]
  <2>1. /\ t \in Seq(Byte) /\ Len(t) = (IF 1 <= n THEN n - 1 + 1 ELSE 0)
        /\ \A i \in 1 .. n - 1 + 1 : t[i] = b[1 + i - 1]
    BY <1>2, SubSeqProperties
  <2> HIDE DEF t
  <2> QED
    BY <1>3, <2>1
<1> HIDE DEF s, t
<1>6. SameUpTo(a, b, n) => s = t
  <2> SUFFICES ASSUME SameUpTo(a, b, n) PROVE s = t
    OBVIOUS
  <2>1. \A i \in 1 .. n : s[i] = t[i]
    BY <1>4, <1>5 DEF SameUpTo
  <2> QED
    BY <1>4, <1>5, <2>1, SeqEqual
<1>7. s = t => SameUpTo(a, b, n)
  BY <1>4, <1>5 DEF SameUpTo
<1> QED
  BY <1>6, <1>7 DEF s, t

BeforeAt(a, b, n) ==
  n <= Len(a) /\ SameUpTo(a, b, n) /\ (n = Len(a) \/ a[n + 1] < b[n + 1])

(* strcmp by the first place where two keys differ.                        *)
LEMMA BeforeIs ==
  ASSUME NEW a \in Bytes, NEW b \in Bytes
  PROVE  Before(a, b) <=> \E n \in 0 .. Len(b) - 1 : BeforeAt(a, b, n)
<1>1. Len(a) \in Nat /\ Len(b) \in Nat
  BY ElementsOf
<1>2. ASSUME NEW n \in 0 .. Len(b) - 1, n <= Len(a)
      PROVE  SubSeq(a, 1, n) = SubSeq(b, 1, n) <=> SameUpTo(a, b, n)
  <2>1. n \in Nat /\ n <= Len(b)
    BY <1>1
  <2> QED
    BY <1>2, <2>1, PrefixSame
<1>3. \A n \in 0 .. Len(b) - 1 :
        BeforeAt(a, b, n) <=> /\ n <= Len(a) /\ SubSeq(a, 1, n) = SubSeq(b, 1, n)
                              /\ n = Len(a) \/ a[n + 1] < b[n + 1]
  BY <1>2 DEF BeforeAt
<1> QED
  BY <1>3, Zenon DEF Before

(* No key is before itself.                                                *)
LEMMA BeforeIrreflexive ==
  ASSUME NEW a \in Bytes PROVE ~Before(a, a)
<1> SUFFICES ASSUME Before(a, a) PROVE FALSE
  OBVIOUS
<1>1. Len(a) \in Nat /\ \A i \in 1 .. Len(a) : a[i] \in Byte
  BY ElementsOf
<1>2. PICK n \in 0 .. Len(a) - 1 : BeforeAt(a, a, n)
  BY BeforeIs
<1>3. n + 1 \in 1 .. Len(a) /\ n # Len(a)
  BY <1>1
<1>4. a[n + 1] < a[n + 1]
  BY <1>2, <1>3, Zenon DEF BeforeAt
<1>5. a[n + 1] \in Nat
  BY <1>1, <1>3, ByteNat, Zenon
<1> QED
  BY <1>4, <1>5

(* The order of the keys is transitive,                                    *)
LEMMA BeforeTransitive ==
  ASSUME NEW a \in Bytes, NEW b \in Bytes, NEW c \in Bytes, Before(a, b), Before(b, c)
  PROVE  Before(a, c)
<1>1. /\ Len(a) \in Nat /\ Len(b) \in Nat /\ Len(c) \in Nat
      /\ \A i \in 1 .. Len(a) : a[i] \in Byte
      /\ \A i \in 1 .. Len(b) : b[i] \in Byte
      /\ \A i \in 1 .. Len(c) : c[i] \in Byte
  BY ElementsOf
<1>2. PICK m \in 0 .. Len(b) - 1 : BeforeAt(a, b, m)
  BY BeforeIs
<1>3. PICK n \in 0 .. Len(c) - 1 : BeforeAt(b, c, n)
  BY BeforeIs
<1> DEFINE la == Len(a)
           lb == Len(b)
           lc == Len(c)
<1>4. /\ la \in Nat /\ lb \in Nat /\ lc \in Nat
      /\ m \in Nat /\ m < lb /\ m <= la /\ n \in Nat /\ n < lc /\ n <= lb
      /\ \A i \in 1 .. m : a[i] = b[i]
      /\ m = la \/ a[m + 1] < b[m + 1]
      /\ \A i \in 1 .. n : b[i] = c[i]
      /\ n = lb \/ b[n + 1] < c[n + 1]
  <2>1. la \in Nat /\ lb \in Nat /\ lc \in Nat
    BY <1>1
  <2>2. /\ m <= la /\ (\A i \in 1 .. m : a[i] = b[i]) /\ (m = la \/ a[m + 1] < b[m + 1])
        /\ n <= lb /\ (\A i \in 1 .. n : b[i] = c[i]) /\ (n = lb \/ b[n + 1] < c[n + 1])
    BY <1>2, <1>3, Zenon DEF BeforeAt, SameUpTo
  <2>3. m \in 0 .. lb - 1 /\ n \in 0 .. lc - 1
    OBVIOUS
  <2> HIDE DEF la, lb, lc
  <2>4. m \in Nat /\ m < lb /\ n \in Nat /\ n < lc
    BY <2>1, <2>3
  <2> QED
    BY <2>1, <2>2, <2>4
<1>5. /\ \A i \in 1 .. la : a[i] \in Nat
      /\ \A i \in 1 .. lb : b[i] \in Nat
      /\ \A i \in 1 .. lc : c[i] \in Nat
  BY <1>1, ByteNat, Zenon
<1> HIDE DEF la, lb, lc
<1>6. CASE m <= n
  <2>1. \A i \in 1 .. m : i \in 1 .. n
    BY <1>4, <1>6
  <2>2. \A i \in 1 .. m : a[i] = c[i]
    BY <1>4, <2>1
  <2>3. m \in 0 .. lc - 1
    BY <1>4, <1>6
  <2>4. m = la \/ a[m + 1] < c[m + 1]
    <3>1. CASE m < n
      <4>1. m + 1 \in 1 .. n
        BY <1>4, <3>1
      <4> QED
        BY <1>4, <4>1
    <3>2. CASE m = n /\ m # la
      <4>1. m + 1 \in 1 .. la /\ m + 1 \in 1 .. lb /\ m + 1 \in 1 .. lc
        BY <1>4, <3>2
      <4>2. a[m + 1] < b[m + 1] /\ b[m + 1] < c[m + 1]
        BY <1>4, <3>2
      <4>3. a[m + 1] \in Nat /\ b[m + 1] \in Nat /\ c[m + 1] \in Nat
        BY <1>5, <4>1
      <4> QED
        BY <4>2, <4>3
    <3> QED
      BY <1>4, <1>6, <3>1, <3>2
  <2>5. m \in 0 .. Len(c) - 1 /\ BeforeAt(a, c, m)
    BY <1>4, <2>2, <2>3, <2>4 DEF BeforeAt, SameUpTo, la, lc
  <2> QED
    BY <2>5, BeforeIs
<1>7. CASE n < m
  <2>1. n + 1 \in 1 .. m /\ \A i \in 1 .. n : i \in 1 .. m
    BY <1>4, <1>7
  <2>2. \A i \in 1 .. n : a[i] = c[i]
    BY <1>4, <2>1
  <2>3. n \in 0 .. lc - 1 /\ n <= la /\ n # lb
    BY <1>4, <1>7
  <2>4. a[n + 1] < c[n + 1]
    BY <1>4, <2>1, <2>3
  <2>5. n \in 0 .. Len(c) - 1 /\ BeforeAt(a, c, n)
    BY <2>2, <2>3, <2>4 DEF BeforeAt, SameUpTo, la, lc
  <2> QED
    BY <2>5, BeforeIs
<1> QED
  BY <1>4, <1>6, <1>7

(* and total.                                                              *)
LEMMA BeforeTotal ==
  ASSUME NEW a \in Bytes, NEW b \in Bytes, a # b
  PROVE  Before(a, b) \/ Before(b, a)
<1> DEFINE la == Len(a)
           lb == Len(b)
           T == {i \in Nat : i + 1 > la \/ i + 1 > lb \/ a[i + 1] # b[i + 1]}
<1>1. /\ la \in Nat /\ lb \in Nat
      /\ \A i \in 1 .. la : a[i] \in Byte
      /\ \A i \in 1 .. lb : b[i] \in Byte
  BY ElementsOf
<1>2. a \in Seq(Byte) /\ b \in Seq(Byte)
  BY DEF Bytes, Byte
<1>3. la = lb => \E i \in 1 .. la : a[i] # b[i]
  BY <1>2, SeqEqual
<1>4. BeforeAt(a, b, la) <=> SameUpTo(a, b, la)
  BY <1>1 DEF BeforeAt
<1>5. BeforeAt(b, a, lb) <=> SameUpTo(b, a, lb)
  BY <1>1 DEF BeforeAt
<1>6. \A n \in Nat : n <= la /\ SameUpTo(a, b, n) /\ a[n + 1] < b[n + 1] => BeforeAt(a, b, n)
  BY DEF BeforeAt
<1>7. \A n \in Nat : n <= lb /\ SameUpTo(b, a, n) /\ b[n + 1] < a[n + 1] => BeforeAt(b, a, n)
  BY DEF BeforeAt
<1>8. /\ (\E n \in 0 .. lb - 1 : BeforeAt(a, b, n)) => Before(a, b)
      /\ (\E n \in 0 .. la - 1 : BeforeAt(b, a, n)) => Before(b, a)
  BY BeforeIs
<1> HIDE DEF la, lb
<1>9. la \in T
  BY <1>1
<1>10. PICK n \in T : \A k \in T : n <= k
  BY <1>9, Least
<1>11. n \in Nat /\ n <= la /\ n <= lb
  <2>1. lb \in T
    BY <1>1
  <2> QED
    BY <1>9, <1>10, <2>1
<1>12. ASSUME NEW i \in 1 .. n PROVE a[i] = b[i]
  <2>1. i - 1 \in Nat /\ (i - 1) + 1 = i /\ ~(n <= i - 1)
    BY <1>11
  <2>2. i - 1 \notin T
    BY <1>10, <2>1
  <2> QED
    BY <2>1, <2>2
<1>13. SameUpTo(a, b, n) /\ SameUpTo(b, a, n)
  BY <1>12 DEF SameUpTo
<1>14. CASE n = la /\ n = lb
  BY <1>3, <1>12, <1>14
<1>15. CASE n = la /\ n < lb
  <2>1. n \in 0 .. lb - 1
    BY <1>1, <1>11, <1>15
  <2> QED
    BY <1>4, <1>8, <1>13, <1>15, <2>1
<1>16. CASE n < la /\ n = lb
  <2>1. n \in 0 .. la - 1
    BY <1>1, <1>11, <1>16
  <2> QED
    BY <1>5, <1>8, <1>13, <1>16, <2>1
<1>17. CASE n < la /\ n < lb
  <2>1. n \in 0 .. la - 1 /\ n \in 0 .. lb - 1 /\ n + 1 \in 1 .. la /\ n + 1 \in 1 .. lb
    BY <1>1, <1>11, <1>17
  <2>2. ~(n + 1 > la) /\ ~(n + 1 > lb)
    BY <1>1, <2>1
  <2>3. a[n + 1] # b[n + 1]
    BY <1>10, <2>2
  <2>4. a[n + 1] \in Nat /\ b[n + 1] \in Nat
    BY <1>1, <2>1 DEF Byte
  <2>5. a[n + 1] < b[n + 1] \/ b[n + 1] < a[n + 1]
    BY <2>3, <2>4
  <2> QED
    BY <1>6, <1>7, <1>8, <1>11, <1>13, <2>1, <2>5
<1> QED
  BY <1>1, <1>11, <1>14, <1>15, <1>16, <1>17

(* The list of headers is sorted                                           *)

Sorted(list) ==
  \A i, j \in 1 .. Len(list) : i < j => Before(list[i].key, list[j].key)

(* A key that no header has is not found.                                  *)
LEMMA NotFound ==
  ASSUME NEW list, Len(list) \in Nat, NEW key, \A i \in 1 .. Len(list) : list[i].key # key
  PROVE  ~Found(list, key)
<1>1. RequestPlace(list, key) \in 1 .. Len(list) + 1
  BY PlaceHolds
<1>2. RequestPlace(list, key) <= Len(list) => RequestPlace(list, key) \in 1 .. Len(list)
  BY <1>1
<1> QED
  BY <1>2 DEF Found

LEMMA FilledKeys ==
  ASSUME NEW list, Filled(list)
  PROVE  /\ Len(list) \in Nat
         /\ \A i \in 1 .. Len(list) : list[i] \in FieldType /\ list[i].key \in Bytes
BY LenProperties DEF Filled, Headers, FieldType

(* In a sorted list the search ends at the header that has the key.        *)
LEMMA LookupFinds ==
  ASSUME NEW list, Filled(list), Sorted(list), NEW i \in 1 .. Len(list)
  PROVE  Found(list, list[i].key) /\ RequestPlace(list, list[i].key) = i
<1> DEFINE key == list[i].key
           k == RequestPlace(list, key)
           l == Len(list)
<1>1. l \in Nat /\ key \in Bytes
  BY FilledKeys
<1>2. i \in 1 .. l
  OBVIOUS
<1>3. /\ k \in 1 .. l + 1
      /\ \A j \in 1 .. k - 1 : Before(list[j].key, key)
      /\ k <= l => ~Before(list[k].key, key)
  BY <1>1, PlaceHolds
<1>4. ~Before(key, key)
  BY <1>1, BeforeIrreflexive
<1>5. \A j \in 1 .. l : j < i => Before(list[j].key, key)
  BY DEF Sorted
<1> HIDE DEF l, k
<1>6. ~(i < k)
  <2> SUFFICES ASSUME i < k PROVE FALSE
    OBVIOUS
  <2>1. i \in 1 .. k - 1
    BY <1>1, <1>2, <1>3
  <2> QED
    BY <1>3, <1>4, <2>1
<1>7. ~(k < i)
  <2> SUFFICES ASSUME k < i PROVE FALSE
    OBVIOUS
  <2>1. k \in 1 .. l /\ k <= l
    BY <1>1, <1>2, <1>3
  <2> QED
    BY <1>3, <1>5, <2>1
<1>8. k = i
  BY <1>1, <1>2, <1>3, <1>6, <1>7
<1>9. i <= l
  BY <1>1, <1>2
<1> QED
  BY <1>8, <1>9 DEF Found, k, l

(* What a list holds after an insertion.                                   *)
LEMMA InsertElements ==
  ASSUME NEW list, Filled(list), NEW field \in FieldType
  PROVE  LET p == RequestPlace(list, field.key)
             s == Insert(list, field)
         IN  \A i \in 1 .. Len(list) + 1 :
               s[i] = IF i < p THEN list[i] ELSE IF i = p THEN field ELSE list[i - 1]
<1> DEFINE p == RequestPlace(list, field.key)
           n == Len(list)
           e == p - 1
           a == SubSeq(list, 1, e)
           one == <<field>>
           b == SubSeq(list, p, n)
           c == a \o one
           s == c \o b
<1>1. n \in Nat /\ p \in 1 .. n + 1 /\ \A k \in 1 .. n : list[k] \in FieldType
  BY FilledKeys, PlaceHolds
<1>2. e \in Nat /\ e <= n /\ 1 \in Int /\ e \in Int /\ (1 <= e \/ e = 0) /\ p = e + 1
  BY <1>1
<1>3. Insert(list, field) = s
  BY DEF Insert, InsertAt
<1> HIDE DEF p, n, e, s
<1>4. /\ a \in Seq(FieldType) /\ Len(a) = e /\ \A i \in 1 .. e : a[i] = list[i]
  <2>1. \A i \in 1 .. e : list[i] \in FieldType
    BY <1>1, <1>2
  <2>2. /\ a \in Seq(FieldType) /\ Len(a) = (IF 1 <= e THEN e - 1 + 1 ELSE 0)
        /\ \A i \in 1 .. e - 1 + 1 : a[i] = list[1 + i - 1]
    BY <1>2, <2>1, SubSeqProperties
  <2> HIDE DEF a
  <2> QED
    BY <1>2, <2>2
<1>5. /\ b \in Seq(FieldType) /\ Len(b) = n - e /\ \A i \in 1 .. n - e : b[i] = list[e + i]
  <2>1. p \in Int /\ n \in Int /\ \A i \in p .. n : list[i] \in FieldType
    BY <1>1
  <2>2. /\ b \in Seq(FieldType) /\ Len(b) = (IF p <= n THEN n - p + 1 ELSE 0)
        /\ \A i \in 1 .. n - p + 1 : b[i] = list[p + i - 1]
    BY <2>1, SubSeqProperties
  <2> HIDE DEF b
  <2>3. Len(b) = n - e
    BY <1>1, <1>2, <2>2
  <2>4. \A i \in 1 .. n - e : i \in 1 .. n - p + 1 /\ p + i - 1 = e + i
    BY <1>1, <1>2
  <2> QED
    BY <2>2, <2>3, <2>4
<1>6. one \in Seq(FieldType) /\ Len(one) = 1 /\ one[1] = field
  OBVIOUS
<1> HIDE DEF a, b, one
<1>7. /\ c \in Seq(FieldType) /\ Len(c) = e + 1
      /\ \A i \in 1 .. e + 1 : c[i] = IF i <= e THEN a[i] ELSE one[i - e]
  <2>1. /\ c \in Seq(FieldType) /\ Len(c) = Len(a) + Len(one)
        /\ \A i \in 1 .. Len(a) + Len(one) :
             c[i] = IF i <= Len(a) THEN a[i] ELSE one[i - Len(a)]
    BY <1>4, <1>6, ConcatProperties
  <2> QED
    BY <1>4, <1>6, <2>1
<1> HIDE DEF c
<1>8. \A i \in 1 .. (e + 1) + (n - e) : s[i] = IF i <= e + 1 THEN c[i] ELSE b[i - (e + 1)]
  <2>1. \A i \in 1 .. Len(c) + Len(b) :
          s[i] = IF i <= Len(c) THEN c[i] ELSE b[i - Len(c)]
    BY <1>5, <1>7, ConcatProperties DEF s
  <2> QED
    BY <1>5, <1>7, <2>1
<1>9. ASSUME NEW i \in 1 .. n + 1
      PROVE  s[i] = IF i < p THEN list[i] ELSE IF i = p THEN field ELSE list[i - 1]
  <2>1. i \in 1 .. (e + 1) + (n - e)
    BY <1>1, <1>2
  <2>2. CASE i < p
    <3>1. i \in 1 .. e /\ i \in 1 .. e + 1 /\ i <= e + 1 /\ i <= e
      BY <1>1, <1>2, <2>2
    <3> QED
      BY <1>4, <1>7, <1>8, <2>1, <2>2, <3>1
  <2>3. CASE i = p
    <3>1. i \in 1 .. e + 1 /\ i <= e + 1 /\ ~(i <= e) /\ i - e = 1 /\ ~(i < p)
      BY <1>1, <1>2, <2>3
    <3> QED
      BY <1>6, <1>7, <1>8, <2>1, <2>3, <3>1
  <2>4. CASE p < i
    <3>1. ~(i <= e + 1) /\ i - (e + 1) \in 1 .. n - e /\ e + (i - (e + 1)) = i - 1
          /\ ~(i < p) /\ i # p
      BY <1>1, <1>2, <2>4
    <3> QED
      BY <1>5, <1>8, <2>1, <3>1
  <2> QED
    BY <1>1, <2>2, <2>3, <2>4
<1> QED
  BY <1>3, <1>9 DEF p, n

(* A header with a new key keeps the list sorted.                          *)
LEMMA InsertSorts ==
  ASSUME NEW list, Filled(list), Sorted(list), NEW field \in FieldType,
         \A i \in 1 .. Len(list) : list[i].key # field.key
  PROVE  Sorted(Insert(list, field))
<1> DEFINE p == RequestPlace(list, field.key)
           key == field.key
           n == Len(list)
           s == Insert(list, field)
<1>1. n \in Nat /\ key \in Bytes /\ \A i \in 1 .. n : list[i].key \in Bytes
  BY FilledKeys DEF FieldType
<1>2. Len(s) = n + 1
  BY InsertFills
<1>3. /\ p \in 1 .. n + 1
      /\ \A j \in 1 .. p - 1 : Before(list[j].key, key)
      /\ p <= n => ~Before(list[p].key, key)
  BY <1>1, PlaceHolds
<1>4. \A i \in 1 .. n + 1 :
        s[i] = IF i < p THEN list[i] ELSE IF i = p THEN field ELSE list[i - 1]
  BY InsertElements
<1>5. \A i, j \in 1 .. n : i < j => Before(list[i].key, list[j].key)
  BY DEF Sorted
<1>6. \A i \in 1 .. n : list[i].key # key
  OBVIOUS
<1> HIDE DEF p, n, s, key
<1>7. ASSUME NEW j \in p .. n PROVE Before(key, list[j].key)
  <2>1. p \in 1 .. n /\ j \in 1 .. n /\ p <= n /\ (p = j \/ p < j)
    BY <1>1, <1>3
  <2>2. Before(key, list[p].key)
    BY <1>1, <1>3, <1>6, <2>1, BeforeTotal
  <2>3. CASE p < j
    <3>1. Before(list[p].key, list[j].key)
      BY <1>5, <2>1, <2>3
    <3> QED
      BY <1>1, <2>1, <2>2, <3>1, BeforeTransitive
  <2> QED
    BY <2>1, <2>2, <2>3
<1>8. ASSUME NEW i \in 1 .. n + 1, NEW j \in 1 .. n + 1, i < j
      PROVE  Before(s[i].key, s[j].key)
  <2>1. CASE j < p
    <3>1. i \in 1 .. n /\ j \in 1 .. n /\ i < p
      BY <1>1, <1>3, <1>8, <2>1
    <3>2. s[i] = list[i] /\ s[j] = list[j]
      BY <1>4, <2>1, <3>1
    <3> QED
      BY <1>5, <1>8, <3>1, <3>2
  <2>2. CASE j = p
    <3>1. i \in 1 .. p - 1 /\ i < p /\ ~(j < p)
      BY <1>1, <1>3, <1>8, <2>2
    <3>2. s[i] = list[i] /\ s[j] = field
      BY <1>4, <2>2, <3>1
    <3> QED
      BY <1>3, <3>1, <3>2 DEF key
  <2>3. CASE i < p /\ p < j
    <3>1. i \in 1 .. n /\ j - 1 \in 1 .. n /\ i < j - 1 /\ ~(j < p) /\ j # p
      BY <1>1, <1>3, <2>3
    <3>2. s[i] = list[i] /\ s[j] = list[j - 1]
      BY <1>4, <2>3, <3>1
    <3> QED
      BY <1>5, <3>1, <3>2
  <2>4. CASE i = p
    <3>1. ~(i < p) /\ ~(j < p) /\ j # p /\ j - 1 \in p .. n
      BY <1>1, <1>3, <1>8, <2>4
    <3>2. s[i] = field /\ s[j] = list[j - 1]
      BY <1>4, <2>4, <3>1
    <3> QED
      BY <1>7, <3>1, <3>2 DEF key
  <2>5. CASE p < i
    <3>1. /\ ~(i < p) /\ i # p /\ ~(j < p) /\ j # p
          /\ i - 1 \in 1 .. n /\ j - 1 \in 1 .. n /\ i - 1 < j - 1
      BY <1>1, <1>3, <1>8, <2>5
    <3>2. s[i] = list[i - 1] /\ s[j] = list[j - 1]
      BY <1>4, <3>1
    <3> QED
      BY <1>5, <3>1, <3>2
  <2> QED
    BY <1>1, <1>3, <1>8, <2>1, <2>2, <2>3, <2>4, <2>5
<1> QED
  BY <1>2, <1>8 DEF Sorted, s

-----------------------------------------------------------------------------
(* A message is read as it was sent                                         *)

(* The list of headers after the first k lines.                            *)
Kept(list, fields, k) ==
  /\ Filled(list) /\ Sorted(list)
  /\ \A j \in 1 .. k : \E i \in 1 .. Len(list) : list[i] = Read(fields[j])
  /\ \A i \in 1 .. Len(list) : \E j \in 1 .. k : list[i].key = fields[j].key

LEMMA KeptMore ==
  ASSUME NEW fields, NEW k \in Nat \ {0}, NEW list, Kept(list, fields, k - 1),
         \A j \in 1 .. k - 1 : fields[j].key # fields[k].key,
         Read(fields[k]) \in FieldType
  PROVE  /\ ~Found(list, fields[k].key)
         /\ Kept(Insert(list, Read(fields[k])), fields, k)
<1> DEFINE field == Read(fields[k])
           key == fields[k].key
           p == RequestPlace(list, field.key)
           n == Len(list)
           s == Insert(list, field)
<1>1. /\ Filled(list) /\ Sorted(list)
      /\ \A j \in 1 .. k - 1 : \E i \in 1 .. n : list[i] = Read(fields[j])
      /\ \A i \in 1 .. n : \E j \in 1 .. k - 1 : list[i].key = fields[j].key
  BY DEF Kept
<1>2. field.key = key /\ field \in FieldType
  BY DEF Read
<1>3. n \in Nat
  BY <1>1, FilledKeys
<1>4. \A i \in 1 .. n : list[i].key # key
  BY <1>1
<1>5. ~Found(list, key)
  BY <1>3, <1>4, NotFound
<1>6. p \in 1 .. n + 1
  BY <1>3, PlaceHolds
<1> HIDE DEF field
<1>7. Filled(s) /\ Len(s) = n + 1
  BY <1>1, <1>2, InsertFills
<1>8. Sorted(s)
  BY <1>1, <1>2, <1>4, InsertSorts
<1>9. \A i \in 1 .. n + 1 :
        s[i] = IF i < p THEN list[i] ELSE IF i = p THEN field ELSE list[i - 1]
  BY <1>1, <1>2, InsertElements
<1> HIDE DEF p, n, s, key
<1>10. ASSUME NEW j \in 1 .. k PROVE \E i \in 1 .. n + 1 : s[i] = Read(fields[j])
  <2>1. CASE j = k
    <3>1. s[p] = field
      BY <1>6, <1>9
    <3> QED
      BY <1>6, <2>1, <3>1 DEF field
  <2>2. CASE j # k
    <3>1. j \in 1 .. k - 1
      BY <2>2
    <3>2. PICK i \in 1 .. n : list[i] = Read(fields[j])
      BY <1>1, <3>1
    <3>3. CASE i < p
      <4>1. i \in 1 .. n + 1
        BY <1>3
      <4> QED
        BY <1>9, <3>2, <3>3, <4>1
    <3>4. CASE p <= i
      <4>1. i + 1 \in 1 .. n + 1 /\ ~(i + 1 < p) /\ i + 1 # p /\ (i + 1) - 1 = i
        BY <1>3, <1>6, <3>4
      <4>2. s[i + 1] = list[i]
        BY <1>9, <4>1
      <4> QED
        BY <3>2, <4>1, <4>2
    <3> QED
      BY <1>3, <1>6, <3>3, <3>4
  <2> QED
    BY <2>1, <2>2
<1>11. ASSUME NEW i \in 1 .. n + 1 PROVE \E j \in 1 .. k : s[i].key = fields[j].key
  <2>1. k \in 1 .. k /\ \A j \in 1 .. k - 1 : j \in 1 .. k
    OBVIOUS
  <2>2. CASE i = p
    <3>1. s[i] = field
      BY <1>6, <1>9, <2>2
    <3> QED
      BY <1>2, <2>1, <3>1 DEF key
  <2>3. CASE i < p
    <3>1. i \in 1 .. n /\ s[i] = list[i]
      BY <1>3, <1>6, <1>9, <2>3
    <3> QED
      BY <1>1, <2>1, <3>1
  <2>4. CASE p < i
    <3>1. i - 1 \in 1 .. n /\ ~(i < p) /\ i # p
      BY <1>3, <1>6, <2>4
    <3>2. s[i] = list[i - 1]
      BY <1>9, <3>1
    <3> QED
      BY <1>1, <2>1, <3>1, <3>2
  <2> QED
    BY <1>3, <1>6, <2>2, <2>3, <2>4
<1>12. Kept(s, fields, k)
  BY <1>7, <1>8, <1>10, <1>11 DEF Kept
<1> QED
  BY <1>5, <1>12 DEF s, field, key

(* One good line is read and the parser goes on behind it.                 *)
LEMMA OneLineRead ==
  ASSUME NEW mem, NEW n, Memory(mem, n), NEW url, NEW version,
         NEW p \in Nat, NEW f \in Sent, FieldFormed(f),
         Holds(mem, p, Line(f)), p + Len(Line(f)) <= n,
         NEW list, Filled(list), ~Found(list, f.key)
  PROVE  /\ Read(f) \in FieldType
         /\ HeaderLines(mem, n, url, version)[p][list]
              = HeaderLines(mem, n, url, version)[p + Len(Line(f))][Insert(list, Read(f))]
<1> DEFINE F == HeaderLines(mem, n, url, version)
           q == p + Len(f.key) + Len(f.value) + 1
           ends == LineEnds(mem, n, p)
           end == First(ends)
           field == Field(mem, p, end)
<1>1. n \in Nat
  BY MemoryParts
<1>2. /\ q \in p + 1 .. n - 2 /\ q + 2 = p + Len(Line(f))
      /\ ends # {} /\ end = q /\ Field(mem, p, q) = <<Read(f)>> /\ Read(f) \in FieldType
  BY LineRead
<1> HIDE DEF q, F
<1>3. p \in 0 .. n /\ q # p
  BY <1>1, <1>2
<1>4. F[p] = LineAt(mem, n, url, version, F, p)
  BY <1>1, <1>3, HeaderLinesAre DEF LinesFrom, F
<1>5. F[p][list] = LineFor(mem, n, url, version, F, p, ends, end, field, list)
  <2>1. list \in Headers
    BY DEF Filled
  <2>2. LineAt(mem, n, url, version, F, p)[list]
          = LineFor(mem, n, url, version, F, p, LineEnds(mem, n, p),
                    First(LineEnds(mem, n, p)),
                    Field(mem, p, First(LineEnds(mem, n, p))), list)
    BY <2>1, LineIs
  <2> QED
    BY <1>4, <2>2
<1>6. field = <<Read(f)>>
  BY <1>2
<1> HIDE DEF ends, end, field
<1>7. field # <<>> /\ field[1] = Read(f) /\ field[1].key = f.key
  BY <1>6 DEF Read
<1>8. F[p][list] = F[end + 2][Insert(list, field[1])]
  BY <1>2, <1>3, <1>5, <1>7 DEF LineFor
<1> QED
  BY <1>2, <1>7, <1>8 DEF F

(* The empty line at the end of the buffer ends the request.               *)
LEMMA EndRead ==
  ASSUME NEW mem, NEW n, Memory(mem, n), NEW url, NEW version, NEW p \in Nat, p + 2 = n,
         Holds(mem, p, Ended), NEW list, Filled(list)
  PROVE  HeaderLines(mem, n, url, version)[p][list]
           = Outcome("succeed", "parsed", url, version, list, 0)
<1> DEFINE F == HeaderLines(mem, n, url, version)
           ends == LineEnds(mem, n, p)
           end == First(ends)
           field == Field(mem, p, end)
<1>1. n \in Nat /\ p \in 0 .. n
  BY MemoryParts
<1>2. mem[p + 1] = CR /\ mem[p + 2] = LF
  BY EndedIs DEF Holds
<1>3. ends = {p}
  BY <1>1, <1>2 DEF LineEnds
<1>4. end = p
  BY <1>3 DEF First
<1> HIDE DEF F
<1>5. F[p] = LineAt(mem, n, url, version, F, p)
  BY <1>1, HeaderLinesAre DEF LinesFrom, F
<1>6. F[p][list] = LineFor(mem, n, url, version, F, p, ends, end, field, list)
  <2>1. list \in Headers
    BY DEF Filled
  <2>2. LineAt(mem, n, url, version, F, p)[list]
          = LineFor(mem, n, url, version, F, p, LineEnds(mem, n, p),
                    First(LineEnds(mem, n, p)),
                    Field(mem, p, First(LineEnds(mem, n, p))), list)
    BY <2>1, LineIs
  <2> QED
    BY <1>5, <2>2
<1> HIDE DEF ends, end, field
<1> QED
  BY <1>3, <1>4, <1>6 DEF LineFor, F

(* Lines that lie between p and an empty line at the end of the buffer.    *)
LinesLaid(mem, n, p, fields) ==
  /\ Memory(mem, n) /\ p \in Nat /\ fields \in Seq(Sent)
  /\ \A k \in 1 .. Len(fields) : FieldFormed(fields[k])
  /\ \A j, k \in 1 .. Len(fields) : j # k => fields[j].key # fields[k].key
  /\ Holds(mem, p, Lines(fields)) /\ Holds(mem, p + Len(Lines(fields)), Ended)
  /\ p + Len(Lines(fields)) + 2 = n

(* All lines are read, each over the list the ones before it have left.    *)
LEMMA LinesRead ==
  ASSUME NEW mem, NEW n, NEW p, NEW fields, LinesLaid(mem, n, p, fields),
         NEW url, NEW version
  PROVE  \E list : /\ Kept(list, fields, Len(fields))
                   /\ HeaderLines(mem, n, url, version)[p][<<>>]
                        = Outcome("succeed", "parsed", url, version, list, 0)
<1> DEFINE N == Len(fields)
           F == HeaderLines(mem, n, url, version)
<1> USE DEF LinesLaid
<1>1. N \in Nat /\ n \in Nat
  BY LenProperties, MemoryParts
<1>2. PICK g : LinesUpTo(g, fields, N) /\ Lines(fields) = g[N]
  BY <1>1, LinesAre
<1> DEFINE At(k) == p + Len(g[k])
           Good(k) == \E list : Kept(list, fields, k) /\ F[p][<<>>] = F[At(k)][list]
           T == {k \in 0 .. N : ~Good(k)}
<1>3. /\ \A k \in 1 .. N : fields[k] \in Sent /\ Line(fields[k]) \in Bytes
      /\ \A k \in 0 .. N : g[k] \in Bytes
      /\ g[0] = <<>>
      /\ \A k \in 1 .. N : g[k] = g[k - 1] \o Line(fields[k])
  BY <1>2, LineTexts
<1>4. \A k \in 1 .. N : Holds(mem, At(k - 1), Line(fields[k]))
  BY <1>2, LinesHeld
<1>5. /\ At(N) + 2 = n /\ At(0) = p
      /\ \A k \in 0 .. N : At(k) \in Nat
      /\ \A k \in 1 .. N : At(k) = At(k - 1) + Len(Line(fields[k])) /\ Len(Line(fields[k])) \in Nat
  <2>1. Len(g[0]) = 0
    BY <1>3, EmptySeq
  <2>2. \A k \in 0 .. N : Len(g[k]) \in Nat
    BY <1>3, ElementsOf
  <2>3. ASSUME NEW k \in 1 .. N
        PROVE  Len(g[k]) = Len(g[k - 1]) + Len(Line(fields[k])) /\ Len(Line(fields[k])) \in Nat
    <3>1. k - 1 \in 0 .. N
      BY <1>1
    <3> QED
      BY <1>3, <3>1, JoinedLength
  <2>4. \A k \in 1 .. N : k - 1 \in 0 .. N
    BY <1>1
  <2>5. At(0) = p /\ \A k \in 0 .. N : At(k) \in Nat
    BY <2>1, <2>2
  <2>6. At(N) + 2 = n
    BY <1>2
  <2>7. ASSUME NEW k \in 1 .. N
        PROVE  At(k) = At(k - 1) + Len(Line(fields[k])) /\ Len(Line(fields[k])) \in Nat
    <3> DEFINE a == Len(g[k - 1])
               l == Len(Line(fields[k]))
    <3>1. a \in Nat /\ l \in Nat /\ Len(g[k]) = a + l
      BY <2>2, <2>3, <2>4
    <3> HIDE DEF a, l
    <3>2. p + Len(g[k]) = (p + a) + l
      BY <3>1
    <3> QED
      BY <3>1, <3>2 DEF a, l
  <2> QED
    BY <2>5, <2>6, <2>7
<1> HIDE DEF At
<1>6. \A k \in 0 .. N : At(k) <= n
  <2> DEFINE U == {m \in 0 .. N : ~(At(N - m) <= n)}
  <2>1. U = {}
    <3> SUFFICES ASSUME U # {} PROVE FALSE
      OBVIOUS
    <3>1. U \subseteq Nat
      BY <1>1
    <3>2. PICK m \in U : \A j \in U : m <= j
      BY <3>1, Least
    <3>3. m # 0
      <4>1. N - 0 = N /\ N \in 0 .. N
        BY <1>1
      <4>2. At(N) <= n
        <5> DEFINE a == At(N)
        <5>1. a + 2 = n /\ a \in Nat
          BY <1>5, <4>1
        <5> HIDE DEF a
        <5>2. a <= n
          BY <1>1, <5>1
        <5> QED
          BY <5>2 DEF a
      <4> QED
        BY <4>1, <4>2
    <3>4. m - 1 \in 0 .. N /\ ~(m <= m - 1) /\ N - (m - 1) \in 1 .. N /\ (N - (m - 1)) - 1 = N - m
          /\ N - m \in 0 .. N
      BY <1>1, <3>3
    <3>5. At(N - (m - 1)) <= n
      BY <3>2, <3>4
    <3>6. At(N - m) <= n
      <4> DEFINE a == At(N - (m - 1))
                 b == At(N - m)
                 l == Len(Line(fields[N - (m - 1)]))
      <4>1. a = b + l /\ a \in Int /\ b \in Nat /\ l \in Nat /\ a <= n
        BY <1>5, <3>4, <3>5
      <4> HIDE DEF a, b, l
      <4>2. b <= n
        BY <1>1, <4>1
      <4> QED
        BY <4>2 DEF b
    <3> QED
      BY <3>6
  <2>2. ASSUME NEW k \in 0 .. N PROVE At(k) <= n
    <3>1. N - k \in 0 .. N /\ N - (N - k) = k
      BY <1>1
    <3> QED
      BY <2>1, <3>1
  <2> QED
    BY <2>2
<1>7. Good(0)
  <2>1. Kept(<<>>, fields, 0)
    BY EmptyFilled, EmptySeq DEF Kept, Sorted
  <2> QED
    BY <1>5, <2>1
<1> HIDE DEF F
<1>8. ASSUME NEW k \in 1 .. N, Good(k - 1) PROVE Good(k)
  <2> DEFINE f == fields[k]
  <2>1. PICK list : Kept(list, fields, k - 1) /\ F[p][<<>>] = F[At(k - 1)][list]
    BY <1>8
  <2>2. k \in Nat \ {0} /\ k - 1 \in 0 .. N /\ k \in 0 .. N
        /\ \A j \in 1 .. k - 1 : j \in 1 .. N /\ j # k
    BY <1>1
  <2>3. /\ f \in Sent /\ FieldFormed(f) /\ At(k - 1) \in Nat
        /\ Holds(mem, At(k - 1), Line(f))
        /\ At(k - 1) + Len(Line(f)) = At(k) /\ At(k) <= n
    BY <1>3, <1>4, <1>5, <1>6, <2>2
  <2>4. \A j \in 1 .. k - 1 : fields[j].key # f.key
    BY <2>2
  <2>5. Filled(list)
    BY <2>1 DEF Kept
  <2>6. Read(f) \in FieldType
    <3>1. At(k - 1) + Len(Line(f)) <= n
      BY <2>3
    <3> QED
      BY <2>3, <3>1, LineRead
  <2>7. ~Found(list, f.key) /\ Kept(Insert(list, Read(f)), fields, k)
    BY <2>1, <2>2, <2>4, <2>6, KeptMore
  <2>8. F[At(k - 1)][list] = F[At(k - 1) + Len(Line(f))][Insert(list, Read(f))]
    <3>1. At(k - 1) + Len(Line(f)) <= n
      BY <2>3
    <3> DEFINE a == At(k - 1)
    <3>2. a \in Nat /\ Holds(mem, a, Line(f)) /\ a + Len(Line(f)) <= n
      BY <2>3, <3>1
    <3>3. f \in Sent /\ FieldFormed(f) /\ ~Found(list, f.key)
      BY <2>3, <2>7
    <3> HIDE DEF a, f
    <3>4. HeaderLines(mem, n, url, version)[a][list]
            = HeaderLines(mem, n, url, version)[a + Len(Line(f))][Insert(list, Read(f))]
      BY <2>5, <3>2, <3>3, OneLineRead
    <3> QED
      BY <3>4 DEF F, a
  <2>9. F[p][<<>>] = F[At(k)][Insert(list, Read(f))]
    BY <2>1, <2>3, <2>8
  <2> QED
    BY <2>7, <2>9
<1>9. T = {}
  <2> SUFFICES ASSUME T # {} PROVE FALSE
    OBVIOUS
  <2>1. T \subseteq Nat
    BY <1>1
  <2>2. PICK k \in T : \A j \in T : k <= j
    BY <2>1, Least
  <2>3. k # 0
    BY <1>7
  <2>4. k \in 1 .. N /\ k - 1 \in 0 .. N /\ ~(k <= k - 1)
    BY <1>1, <2>3
  <2>5. Good(k - 1)
    BY <2>2, <2>4
  <2>6. Good(k)
    BY <1>8, <2>4, <2>5
  <2> QED
    BY <2>6
<1>10. PICK list : Kept(list, fields, N) /\ F[p][<<>>] = F[At(N)][list]
  BY <1>1, <1>9
<1>11. F[At(N)][list] = Outcome("succeed", "parsed", url, version, list, 0)
  <2>1. Filled(list)
    BY <1>10 DEF Kept
  <2>2. At(N) \in Nat /\ At(N) + 2 = n /\ Holds(mem, At(N), Ended)
    BY <1>1, <1>2, <1>5 DEF At
  <2> QED
    BY <2>1, <2>2, EndRead DEF F
<1> QED
  BY <1>10, <1>11 DEF F, N

(* The whole text of a well-formed message is read as it was sent.         *)
LEMMA MessageRead ==
  ASSUME NEW mem, NEW n, Memory(mem, n), NEW m \in Message, WellFormed(m),
         Holds(mem, 0, Text(m)), n = Len(Text(m))
  PROVE  \E list : /\ Kept(list, m.fields, Len(m.fields))
                   /\ FromMemory(mem, n)
                        = Outcome("succeed", "parsed", m.url, m.version, list, 0)
<1> DEFINE fields == m.fields
           opening == Opening(m)
           lines == Lines(fields)
           h == Len(opening)
           l == Len(lines)
<1>1. /\ Text(m) = (opening \o lines) \o Ended
      /\ opening \in Bytes /\ lines \in Bytes /\ fields \in Seq(Sent)
  BY TextBytes DEF Message, Sent
<1>2. /\ \A k \in 1 .. Len(fields) : FieldFormed(fields[k])
      /\ \A j, k \in 1 .. Len(fields) : j # k => fields[j].key # fields[k].key
  <2>1. DOMAIN fields = 1 .. Len(fields)
    BY <1>1, LenProperties
  <2> QED
    BY <2>1 DEF WellFormed, FieldFormed, ToSet
<1> HIDE DEF fields, opening, lines
<1>3. opening \o lines \in Bytes /\ Len(opening \o lines) = h + l /\ h \in Nat /\ l \in Nat
  BY <1>1, JoinedLength
<1>4. n = h + l + 2
  <2>1. Len((opening \o lines) \o Ended) = Len(opening \o lines) + Len(Ended)
    BY <1>3, EndedIs, JoinedLength
  <2> QED
    BY <1>1, <1>3, <2>1, EndedIs
<1>5. Holds(mem, 0, opening) /\ Holds(mem, h, lines) /\ Holds(mem, h + l, Ended)
  <2>1. Holds(mem, 0, opening \o lines) /\ Holds(mem, 0 + Len(opening \o lines), Ended)
    BY <1>1, <1>3, EndedIs, HoldsParts
  <2>2. Holds(mem, 0, opening) /\ Holds(mem, 0 + h, lines)
    BY <1>1, <2>1, HoldsParts
  <2>3. 0 + Len(opening \o lines) = h + l /\ 0 + h = h
    BY <1>3
  <2> QED
    BY <2>1, <2>2, <2>3
<1>6. FromMemory(mem, n) = HeaderLines(mem, n, m.url, m.version)[h][<<>>]
  <2>1. h <= n
    <3> HIDE DEF h, l
    <3> QED
      BY <1>3, <1>4
  <2> QED
    BY <1>5, <2>1, OpeningRead DEF opening
<1> DEFINE url == m.url
           version == m.version
<1> HIDE DEF h, l, url, version
<1>7. \E list : /\ Kept(list, fields, Len(fields))
               /\ HeaderLines(mem, n, url, version)[h][<<>>]
                    = Outcome("succeed", "parsed", url, version, list, 0)
  <2>1. h \in Nat /\ Holds(mem, h, Lines(fields))
    BY <1>3, <1>5 DEF lines
  <2>2. Holds(mem, h + Len(Lines(fields)), Ended)
    BY <1>5 DEF lines, l
  <2>3. h + Len(Lines(fields)) + 2 = n
    BY <1>4 DEF lines, l
  <2>4. fields \in Seq(Sent)
    BY <1>1
  <2>5. LinesLaid(mem, n, h, fields)
    BY <1>2, <2>1, <2>2, <2>3, <2>4 DEF LinesLaid
  <2> QED
    BY <2>5, LinesRead
<1> QED
  BY <1>6, <1>7 DEF fields, url, version

(* A query finds what was sent in such a list.                             *)
LEMMA QueriesFind ==
  ASSUME NEW fields \in Seq(Sent), NEW list, Kept(list, fields, Len(fields)),
         NEW r, r.state = "parsed", r.headers = list, NEW f \in ToSet(fields)
  PROVE  GetHeader(r, f.key) = Trimmed(f.value, 0, Len(f.value))
<1>1. PICK j \in 1 .. Len(fields) : f = fields[j]
  <2>1. DOMAIN fields = 1 .. Len(fields)
    BY LenProperties
  <2> QED
    BY <2>1 DEF ToSet
<1>2. PICK i \in 1 .. Len(list) : list[i] = Read(f)
  BY <1>1 DEF Kept
<1>3. list[i].key = f.key /\ list[i].value = Trimmed(f.value, 0, Len(f.value))
  BY <1>2 DEF Read
<1>4. Found(list, list[i].key) /\ RequestPlace(list, list[i].key) = i
  BY LookupFinds DEF Kept
<1> QED
  BY <1>3, <1>4 DEF GetHeader

(* What a call makes of the beginning of a well-formed message.            *)
LEMMA PartRead ==
  ASSUME NEW m \in Message, WellFormed(m), NEW data \in Bytes, data # <<>>,
         NEW rest \in Bytes, data \o rest = Text(m)
  PROVE  IF rest # <<>> THEN FromBuffer(data, <<NUL>>).verdict = "incomplete"
         ELSE \E list : /\ Kept(list, m.fields, Len(m.fields))
                        /\ FromBuffer(data, <<NUL>>)
                             = Outcome("succeed", "parsed", m.url, m.version, list, 0)
<1> DEFINE text == Text(m)
           a == Len(data)
           b == Len(rest)
           n == Len(text)
           mem == text \o <<NUL>>
<1>1. /\ text \in Bytes /\ data \in Seq(Byte) /\ rest \in Seq(Byte) /\ text \in Seq(Byte)
      /\ text = data \o rest
  BY TextBytes DEF Bytes, Byte
<1>2. a \in Nat /\ b \in Nat /\ n = a + b /\ \A i \in 1 .. a : text[i] = data[i]
  <2>1. /\ Len(data \o rest) = a + b /\ a \in Nat /\ b \in Nat
        /\ \A i \in 1 .. a : (data \o rest)[i] = data[i]
    BY JoinedBytes
  <2> HIDE DEF text
  <2> QED
    BY <1>1, <2>1
<1>3. (a = 0 => data = <<>>) /\ (b = 0 <=> rest = <<>>)
  BY <1>1, EmptySeq
<1> HIDE DEF text
<1>4. a \in 1 .. n /\ n \in 1 .. n /\ n \in Nat
  <2> HIDE DEF a, b, n
  <2> QED
    BY <1>2, <1>3
<1>5. SubSeq(text, 1, a) = data /\ SubSeq(text, 1, n) = text
  <2>1. SubSeq(text, 1, n) = text
    BY <1>1, SubSeqFull
  <2>2. SubSeq(text, 1, a) = data
    <3> DEFINE s == SubSeq(text, 1, a)
    <3>1. a \in Int /\ 1 \in Int /\ 1 <= a /\ \A i \in 1 .. a : text[i] \in Byte
      <4>1. \A i \in 1 .. a : data[i] \in Byte
        BY ElementsOf
      <4> QED
        BY <1>2, <1>4, <4>1
    <3> HIDE DEF a
    <3>2. /\ s \in Seq(Byte) /\ Len(s) = (IF 1 <= a THEN a - 1 + 1 ELSE 0)
          /\ \A i \in 1 .. a - 1 + 1 : s[i] = text[1 + i - 1]
      BY <3>1, SubSeqProperties
    <3> HIDE DEF s
    <3>3. Len(s) = a /\ \A i \in 1 .. a : s[i] = data[i]
      BY <1>2, <3>1, <3>2
    <3>4. s = data
      BY <1>1, <3>2, <3>3, SeqEqual DEF a
    <3> QED
      BY <3>4 DEF s
  <2> QED
    BY <2>1, <2>2
<1>6. /\ Memory(mem, a) /\ FromBuffer(data, <<NUL>>) = FromMemory(mem, a)
      /\ Memory(mem, n) /\ FromBuffer(text, <<NUL>>) = FromMemory(mem, n)
  BY <1>1, <1>4, <1>5, CutIs
<1>7. Holds(mem, 0, text)
  <2>1. <<NUL>> \in Bytes
    BY DEF Bytes, NUL
  <2>2. \A i \in 1 .. n : mem[i] = text[i]
    BY <1>1, <2>1, JoinedBytes
  <2> HIDE DEF mem
  <2>3. \A i \in 1 .. n : 0 + i = i
    OBVIOUS
  <2> QED
    BY <2>2, <2>3 DEF Holds
<1> HIDE DEF mem
<1>8. PICK list : /\ Kept(list, m.fields, Len(m.fields))
                  /\ FromMemory(mem, n)
                       = Outcome("succeed", "parsed", m.url, m.version, list, 0)
  BY <1>6, <1>7, MessageRead DEF text
<1>9. CASE rest # <<>>
  <2>1. a < n
    <3> HIDE DEF a, b, n
    <3> QED
      BY <1>2, <1>3, <1>9
  <2>2. Settles(FromMemory(mem, a), FromMemory(mem, n))
    BY <1>6, <2>1, ParserSettles
  <2>3. FromMemory(mem, n).verdict = "succeed"
    BY <1>8 DEF Outcome
  <2> QED
    BY <1>6, <1>9, <2>2, <2>3 DEF Settles
<1>10. CASE rest = <<>>
  <2>1. a = n
    <3> HIDE DEF a, b, n
    <3> QED
      BY <1>2, <1>3, <1>10
  <2> QED
    BY <1>6, <1>8, <1>10, <2>1
<1> QED
  BY <1>9, <1>10

-----------------------------------------------------------------------------
(* The invariant                                                           *)

(* The buffer and what is on its way are bytes; the request is one a call  *)
(* left, and while the connection is open its state goes with the verdict; *)
(* the blocks of the request are allocated, and no others unless a header  *)
(* was refused.                                                            *)
Inv ==
  /\ incoming \in Bytes /\ buffer \in Bytes
  /\ FitRequest(parsed)
  /\ verdict \in Verdicts \union {"none"}
  /\ open => (parsed.state = "parsed" <=> verdict = "succeed")
  /\ request_heap \in Nat /\ request_heap >= RequestBlocks(parsed)
  /\ ~repeated => request_heap = RequestBlocks(parsed)
  /\ open \in BOOLEAN /\ repeated \in BOOLEAN

LEMMA BlocksAre ==
  ASSUME NEW r, FitRequest(r)
  PROVE  /\ RequestBlocks(r) \in Nat
         /\ Freed(r) = RequestBlocks(r)
         /\ FitRequest(Destroyed(r)) /\ RequestBlocks(Destroyed(r)) = 0
         /\ Destroyed(r).state = "initialized"
<1>1. Len(r.headers) \in Nat
  BY LenProperties DEF FitRequest, Filled, Headers
<1>2. RequestBlocks(r) \in Nat
  <2> DEFINE l == Len(r.headers)
             a == IF r.url # <<>> THEN 1 ELSE 0
             b == IF r.version # <<>> THEN 1 ELSE 0
  <2>1. l \in Nat /\ a \in Nat /\ b \in Nat /\ RequestBlocks(r) = a + b + 3 * l
    BY <1>1 DEF RequestBlocks
  <2> HIDE DEF l, a, b
  <2> QED
    BY <2>1
<1>3. Len(<<>>) = 0
  BY EmptySeq
<1>4. RequestBlocks(InitializedRequest) = 0
  BY <1>3 DEF RequestBlocks, InitializedRequest
<1>5. FitRequest(InitializedRequest)
  BY EmptyFilled DEF FitRequest, InitializedRequest
<1> QED
  BY <1>2, <1>4, <1>5 DEF Freed, Destroyed, FitRequest, InitializedRequest

LEMMA PieceOfBytes ==
  ASSUME NEW data \in Bytes, NEW n \in 1 .. Len(data)
  PROVE  SubSeq(data, 1, n) \in Bytes /\ SubSeq(data, n + 1, Len(data)) \in Bytes
<1>1. data \in Seq(Byte) /\ Len(data) \in Nat
  BY LenProperties DEF Bytes, Byte
<1>2. \A i \in 1 .. Len(data) : data[i] \in Byte
  BY <1>1, ElementOfSeq
<1> DEFINE l == Len(data)
<1>3. l \in Nat /\ n \in 1 .. l /\ \A i \in 1 .. l : data[i] \in Byte
  BY <1>1, <1>2
<1> HIDE DEF l
<1>4. SubSeq(data, 1, n) \in Seq(Byte)
  BY <1>3, SubSeqProperties
<1>5. SubSeq(data, n + 1, l) \in Seq(Byte)
  <2>1. n + 1 \in Int /\ l \in Int /\ \A i \in n + 1 .. l : data[i] \in Byte
    BY <1>3
  <2> QED
    BY <2>1, SubSeqProperties
<1> QED
  BY <1>4, <1>5 DEF Bytes, Byte, l

LEMMA CallFits ==
  ASSUME HttpRequestAssumption, NEW data \in Bytes, NEW trail \in Trails
  PROVE  FitOutcome(FromBuffer(data, trail))
<1>1. trail \in Bytes /\ trail # <<>> /\ trail[Len(trail)] = NUL
  BY DEF HttpRequestAssumption
<1>2. Memory(data \o trail, Len(data))
  BY <1>1, BufferInMemory
<1> QED
  BY <1>2, ParserFits DEF FromBuffer

LEMMA InvInitial == ParserInit => Inv
<1> SUFFICES ASSUME ParserInit PROVE Inv
  OBVIOUS
<1>1. FitRequest(InitializedRequest)
  BY EmptyFilled DEF FitRequest, InitializedRequest
<1>2. RequestBlocks(InitializedRequest) = 0
  <2>1. Len(<<>>) = 0
    BY EmptySeq
  <2> QED
    BY <2>1 DEF RequestBlocks, InitializedRequest
<1>3. InitializedRequest.state = "initialized"
  BY DEF InitializedRequest
<1>4. /\ FitRequest(parsed) /\ parsed.state = "initialized"
      /\ request_heap = 0 /\ RequestBlocks(parsed) = 0
  BY <1>1, <1>2, <1>3 DEF ParserInit
<1>5. incoming \in Bytes /\ buffer \in Bytes
  BY EmptyFilled DEF ParserInit
<1>6. /\ verdict = "none" /\ verdict \in Verdicts \union {"none"}
      /\ open \in BOOLEAN /\ repeated \in BOOLEAN
  BY DEF ParserInit
<1> QED
  BY <1>4, <1>5, <1>6 DEF Inv

LEMMA InvKept == HttpRequestAssumption /\ Inv /\ [ParserNext]_parserVars => Inv'
<1> SUFFICES ASSUME HttpRequestAssumption, Inv, [ParserNext]_parserVars PROVE Inv'
  OBVIOUS
<1>0. /\ RequestBlocks(parsed) \in Nat /\ Freed(parsed) = RequestBlocks(parsed)
      /\ FitRequest(Destroyed(parsed)) /\ RequestBlocks(Destroyed(parsed)) = 0
      /\ Destroyed(parsed).state = "initialized"
  BY BlocksAre DEF Inv
<1>1. CASE Send
  <2>1. message' \in Message /\ incoming' = Text(message')
    BY <1>1 DEF Send, HttpRequestAssumption
  <2>2. incoming' \in Bytes
    BY <2>1, TextBytes
  <2> QED
    BY <1>1, <2>2 DEF Send, Inv
<1>2. CASE Round
  <2>1. PICK n \in 1 .. Len(incoming), trail \in Trails :
          LET data    == buffer \o SubSeq(incoming, 1, n)
              outcome == FromBuffer(data, trail)
          IN  /\ buffer' = data
              /\ incoming' = SubSeq(incoming, n + 1, Len(incoming))
              /\ verdict' = outcome.verdict
              /\ parsed' = outcome.request
              /\ request_heap' = request_heap - Freed(parsed) + RequestBlocks(outcome.request)
                                   + outcome.lost
              /\ repeated' = (repeated \/ outcome.verdict = "duplicate")
    BY <1>2 DEF Round
  <2> DEFINE data == buffer \o SubSeq(incoming, 1, n)
             o == FromBuffer(data, trail)
  <2>2. data \in Bytes /\ incoming' \in Bytes
    <3>1. SubSeq(incoming, 1, n) \in Bytes /\ SubSeq(incoming, n + 1, Len(incoming)) \in Bytes
      BY PieceOfBytes DEF Inv
    <3>2. buffer \in Bytes
      BY DEF Inv
    <3> QED
      BY <2>1, <3>1, <3>2, ConcatProperties DEF Bytes
  <2> HIDE DEF data
  <2>3. FitOutcome(o)
    BY <2>2, CallFits
  <2>4. /\ buffer' = data /\ verdict' = o.verdict /\ parsed' = o.request
        /\ request_heap' = request_heap - Freed(parsed) + RequestBlocks(o.request) + o.lost
        /\ repeated' = (repeated \/ o.verdict = "duplicate") /\ open' = open
    BY <1>2, <2>1 DEF Round, data
  <2> HIDE DEF o
  <2>5. RequestBlocks(o.request) \in Nat /\ o.lost = IF o.verdict = "duplicate" THEN 3 ELSE 0
    BY <2>3, BlocksAre DEF FitOutcome
  <2>6. /\ request_heap' \in Nat /\ request_heap' >= RequestBlocks(parsed')
        /\ ~repeated' => request_heap' = RequestBlocks(parsed')
    <3> DEFINE b == RequestBlocks(o.request)
               before == RequestBlocks(parsed)
    <3>1. request_heap \in Nat /\ request_heap >= before /\ (~repeated => request_heap = before)
      BY DEF Inv
    <3>2. /\ RequestBlocks(parsed') = b /\ b \in Nat /\ before \in Nat
          /\ request_heap' = request_heap - before + b + o.lost
      BY <1>0, <2>4, <2>5
    <3> HIDE DEF b, before
    <3>3. o.lost \in Nat
      BY <2>5
    <3>4. ~repeated' => ~repeated /\ o.lost = 0
      BY <2>4, <2>5, Zenon
    <3> QED
      BY <3>1, <3>2, <3>3, <3>4
  <2>7. /\ FitRequest(parsed') /\ verdict' \in Verdicts
        /\ (parsed'.state = "parsed" <=> verdict' = "succeed")
    BY <2>3, <2>4 DEF FitOutcome
  <2>8. open' \in BOOLEAN /\ repeated' \in BOOLEAN
    BY <2>4 DEF Inv
  <2> QED
    BY <2>2, <2>4, <2>6, <2>7, <2>8 DEF Inv
<1>3. CASE AnswerParsed
  <2>1. /\ request_heap' \in Nat /\ request_heap' >= RequestBlocks(parsed')
        /\ ~repeated' => request_heap' = RequestBlocks(parsed')
    BY <1>0, <1>3 DEF AnswerParsed, Inv
  <2> QED
    BY <1>0, <1>3, <2>1, EmptyFilled DEF AnswerParsed, Inv
<1>4. CASE Close
  <2>1. /\ request_heap' \in Nat /\ request_heap' >= RequestBlocks(parsed')
        /\ ~repeated' => request_heap' = RequestBlocks(parsed')
    BY <1>0, <1>4 DEF Close, Inv
  <2> QED
    BY <1>0, <1>4, <2>1 DEF Close, Inv
<1>5. CASE UNCHANGED parserVars
  BY <1>5 DEF parserVars, Inv
<1> QED
  BY <1>1, <1>2, <1>3, <1>4, <1>5 DEF ParserNext

(* The invariant of a connection's parser, for any messages the peer may   *)
(* send and any memory behind the buffer (the life of struct http_request).*)
THEOREM Invariance == ASSUME HttpRequestAssumption PROVE ParserSpec => []Inv
<1>1. Inv /\ [ParserNext]_parserVars => Inv'
  BY InvKept
<1> QED
  BY InvInitial, <1>1, PTL DEF ParserSpec

(* The variables keep their types, and a request answers queries exactly   *)
(* when the call of http_request_from_buffer said it was parsed.           *)
THEOREM TypeCorrect == ASSUME HttpRequestAssumption PROVE ParserSpec => []ParserTypeOK
<1>1. Inv => ParserTypeOK
  <2> SUFFICES ASSUME Inv PROVE ParserTypeOK
    OBVIOUS
  <2>1. DOMAIN parsed.headers = 1 .. Len(parsed.headers)
    BY LenProperties DEF Inv, FitRequest, Filled, Headers
  <2>2. \A k \in DOMAIN parsed.headers :
          parsed.headers[k].key \in Bytes /\ parsed.headers[k].value \in Bytes \ {<<>>}
    BY <2>1 DEF Inv, FitRequest, Filled, FieldType
  <2> QED
    BY <2>2 DEF ParserTypeOK, Inv, FitRequest, Verdicts
<1> QED
  BY Invariance, <1>1, PTL

(* Whatever skip_whitespaces and strchr find behind the buffer, for any    *)
(* bytes the peer sends: the call of http_request_from_buffer ends the     *)
(* same.                                                                   *)
THEOREM BehindIsIgnored == ASSUME HttpRequestAssumption PROVE ParserSpec => []MemoryBehindIgnored
<1>1. Inv => MemoryBehindIgnored
  BY TrailsIgnored DEF Inv, MemoryBehindIgnored
<1> QED
  BY Invariance, <1>1, PTL

(* A verdict on a cut of the stream stands however much follows, for any   *)
(* bytes: handle_connection may act on it in the round it is reached.      *)
THEOREM VerdictsStand == ASSUME HttpRequestAssumption PROVE ParserSpec => []VerdictIsSettled
<1>1. Inv => VerdictIsSettled
  <2> SUFFICES ASSUME Inv, NEW n \in 1 .. Len(buffer) - 1, VerdictOn(n) # "incomplete"
               PROVE  VerdictOn(Len(buffer)) \notin {"incomplete", "succeed"}
    BY DEF VerdictIsSettled
  <2> DEFINE m == Len(buffer)
             mem == buffer \o <<NUL>>
  <2>1. buffer \in Bytes /\ m \in Nat
    BY LenProperties DEF Inv, Bytes
  <2>2. n \in 1 .. m /\ m \in 1 .. m /\ n < m
    BY <2>1
  <2>3. Memory(mem, n) /\ VerdictOn(n) = FromMemory(mem, n).verdict
    BY <2>1, <2>2, CutIs DEF VerdictOn
  <2>4. Memory(mem, m) /\ VerdictOn(m) = FromMemory(mem, m).verdict
    BY <2>1, <2>2, CutIs DEF VerdictOn
  <2> HIDE DEF mem, m
  <2>5. Settles(FromMemory(mem, n), FromMemory(mem, m))
    BY <2>2, <2>3, <2>4, ParserSettles
  <2>6. VerdictOn(m) \notin {"incomplete", "succeed"}
    BY <2>3, <2>4, <2>5 DEF Settles
  <2> QED
    BY <2>6 DEF m
<1> QED
  BY Invariance, <1>1, PTL

(* Whatever the rounds, every allocated block can be reached from the      *)
(* request, for http_request_destroy to free it, unless a header was       *)
(* refused because its key was there.                                      *)
THEOREM RequestKeepsItsBlocks == ASSUME HttpRequestAssumption PROVE ParserSpec => []RequestOwnsAll
<1>1. Inv => RequestOwnsAll
  BY DEF Inv, RequestOwnsAll
<1> QED
  BY Invariance, <1>1, PTL

-----------------------------------------------------------------------------
(* A well-formed request is parsed to what was sent                        *)

(* The buffer is the beginning of the message being sent, and what is      *)
(* known of it is what one call of the parser makes of it; nothing of a    *)
(* well-formed message remains behind when it was answered.                *)
Sync ==
  /\ buffer = <<>> => verdict = "none"
  /\ WellFormed(message) =>
       /\ message \in Message
       /\ buffer \o incoming = Text(message) \/ (buffer = <<>> /\ incoming = <<>>)
  /\ open /\ buffer # <<>> =>
       /\ verdict = FromBuffer(buffer, <<NUL>>).verdict
       /\ parsed = FromBuffer(buffer, <<NUL>>).request

(* Cutting off the first n bytes of what is on its way.                    *)
LEMMA MovedOver ==
  ASSUME NEW b \in Bytes, NEW i \in Bytes, NEW n \in 1 .. Len(i)
  PROVE  /\ b \o SubSeq(i, 1, n) \in Bytes /\ b \o SubSeq(i, 1, n) # <<>>
         /\ (b \o SubSeq(i, 1, n)) \o SubSeq(i, n + 1, Len(i)) = b \o i
<1> DEFINE l == Len(i)
           s == SubSeq(i, 1, n)
           t == SubSeq(i, n + 1, l)
           a == Len(b)
<1>1. s \in Bytes /\ t \in Bytes
  BY PieceOfBytes
<1>2. l \in Nat /\ \A k \in 1 .. l : i[k] \in Byte
  BY ElementsOf
<1>3. a \in Nat
  BY ElementsOf
<1>4. n \in 1 .. l
  OBVIOUS
<1> HIDE DEF l
<1>5. Len(s) = n /\ \A k \in 1 .. n : s[k] = i[k]
  <2>1. 1 \in Int /\ n \in Int /\ 1 <= n /\ n - 1 + 1 = n
        /\ \A k \in 1 .. n : i[k] \in Byte
    BY <1>2, <1>4
  <2>2. Len(s) = (IF 1 <= n THEN n - 1 + 1 ELSE 0)
        /\ \A k \in 1 .. n - 1 + 1 : s[k] = i[1 + k - 1]
    BY <2>1, SubSeqProperties
  <2> HIDE DEF s
  <2>3. \A k \in 1 .. n : 1 + k - 1 = k
    OBVIOUS
  <2> QED
    BY <2>1, <2>2, <2>3
<1>6. s \o t = i
  <2>1. i \in Seq(Byte)
    BY DEF Bytes, Byte
  <2>2. 0 \in 0 .. l /\ n \in 0 .. l /\ l \in 0 .. l /\ n <= l /\ n \in Nat
    BY <1>2, <1>4
  <2>3. Len(t) = l - n /\ \A k \in 1 .. l - n : t[k] = i[n + k]
    <3>1. n + 1 \in Int /\ l \in Int /\ \A k \in n + 1 .. l : i[k] \in Byte
      BY <1>2, <1>4
    <3>2. Len(t) = (IF n + 1 <= l THEN l - (n + 1) + 1 ELSE 0)
          /\ \A k \in 1 .. l - (n + 1) + 1 : t[k] = i[n + 1 + k - 1]
      BY <3>1, SubSeqProperties
    <3> HIDE DEF t
    <3>3. (IF n + 1 <= l THEN l - (n + 1) + 1 ELSE 0) = l - n /\ l - (n + 1) + 1 = l - n
          /\ \A k \in 1 .. l - n : n + 1 + k - 1 = n + k
      BY <1>2, <1>4
    <3> QED
      BY <3>2, <3>3
  <2> HIDE DEF s, t
  <2>4. /\ s \o t \in Bytes /\ Len(s \o t) = Len(s) + Len(t)
        /\ \A k \in 1 .. Len(s) : (s \o t)[k] = s[k]
        /\ \A k \in 1 .. Len(t) : (s \o t)[Len(s) + k] = t[k]
    BY <1>1, JoinedBytes
  <2>5. Len(s \o t) = l
    BY <1>2, <1>5, <2>2, <2>3, <2>4
  <2>6. ASSUME NEW k \in 1 .. l PROVE (s \o t)[k] = i[k]
    <3>1. CASE k <= n
      <4>1. k \in 1 .. n
        BY <1>2, <2>2, <3>1
      <4> QED
        BY <1>5, <2>4, <4>1
    <3>2. CASE n < k
      <4>1. k - n \in 1 .. l - n /\ n + (k - n) = k
        BY <1>2, <2>2, <3>2
      <4> QED
        BY <1>5, <2>3, <2>4, <4>1
    <3>3. k <= n \/ n < k
      BY <2>2
    <3> QED
      BY <3>1, <3>2, <3>3
  <2>7. s \o t \in Seq(Byte)
    BY <2>4 DEF Bytes, Byte
  <2> QED
    BY <2>1, <2>5, <2>6, <2>7, SeqEqual DEF l
<1>7. b \o s \in Bytes /\ Len(b \o s) = a + n
  BY <1>1, <1>5, JoinedLength
<1>8. b \o s # <<>>
  <2>1. a + n # 0
    BY <1>2, <1>3, <1>4
  <2> QED
    BY <1>7, <2>1, EmptySeq
<1> HIDE DEF s, t
<1>9. (b \o s) \o t = b \o (s \o t)
  <2>1. b \in Seq(Byte) /\ s \in Seq(Byte) /\ t \in Seq(Byte)
    BY <1>1 DEF Bytes, Byte
  <2> QED
    BY <2>1, ConcatAssociative
<1> QED
  BY <1>6, <1>7, <1>8, <1>9 DEF l, s, t

LEMMA SyncInitial == ParserInit => Sync
<1> SUFFICES ASSUME ParserInit PROVE Sync
  OBVIOUS
<1>1. <<>> # GET
  <2>1. Len(<<>>) = 0 /\ Len(GET) = 3
    BY EmptySeq DEF GET
  <2> QED
    BY <2>1
<1>2. ~WellFormed(message)
  BY <1>1 DEF ParserInit, NoMessage, WellFormed
<1> QED
  BY <1>2 DEF ParserInit, Sync

(* Every round, answer and close keeps it.                                 *)
LEMMA SyncKept == HttpRequestAssumption /\ Inv /\ Sync /\ [ParserNext]_parserVars => Sync'
<1> SUFFICES ASSUME HttpRequestAssumption, Inv, Sync, [ParserNext]_parserVars PROVE Sync'
  OBVIOUS
<1>0. buffer \in Bytes /\ incoming \in Bytes
  BY DEF Inv
<1>1. CASE Send
  <2>1. /\ message' \in Message /\ incoming' = Text(message')
        /\ buffer' = <<>> /\ verdict' = "none"
    BY <1>1 DEF Send, Sync, HttpRequestAssumption
  <2>2. <<>> \o Text(message') = Text(message')
    <3>1. Text(message') \in Bytes
      BY <2>1, TextBytes
    <3> QED
      BY <3>1, ConcatEmptySeq DEF Bytes
  <2> QED
    BY <2>1, <2>2 DEF Sync
<1>2. CASE Round
  <2>1. PICK n \in 1 .. Len(incoming), trail \in Trails :
          /\ buffer' = buffer \o SubSeq(incoming, 1, n)
          /\ incoming' = SubSeq(incoming, n + 1, Len(incoming))
          /\ verdict' = FromBuffer(buffer \o SubSeq(incoming, 1, n), trail).verdict
          /\ parsed' = FromBuffer(buffer \o SubSeq(incoming, 1, n), trail).request
    BY <1>2 DEF Round
  <2>2. buffer' \in Bytes /\ buffer' # <<>> /\ buffer' \o incoming' = buffer \o incoming
    BY <1>0, <2>1, MovedOver
  <2>3. FromBuffer(buffer', trail) = FromBuffer(buffer', <<NUL>>)
    BY <2>2, TrailsIgnored
  <2>4. /\ verdict' = FromBuffer(buffer', <<NUL>>).verdict
        /\ parsed' = FromBuffer(buffer', <<NUL>>).request
    BY <2>1, <2>3
  <2>5. message' = message /\ incoming # <<>>
    <3>1. Len(incoming) # 0
      BY <1>0, ElementsOf
    <3>2. message' = message
      BY <1>2 DEF Round
    <3> QED
      BY <3>1, <3>2, EmptySeq
  <2>6. WellFormed(message) => message \in Message /\ buffer \o incoming = Text(message)
    BY <2>5 DEF Sync
  <2> QED
    BY <2>2, <2>4, <2>5, <2>6 DEF Sync
<1>3. CASE AnswerParsed
  <2>1. /\ message' = message /\ incoming' = incoming /\ buffer' = <<>> /\ verdict' = "none"
        /\ open /\ verdict \notin {"none", "incomplete"}
    BY <1>3 DEF AnswerParsed, Unanswered
  <2>2. buffer # <<>> /\ FromBuffer(buffer, <<NUL>>).verdict # "incomplete"
    BY <2>1 DEF Sync
  <2>3. ASSUME WellFormed(message) PROVE message \in Message /\ incoming = <<>>
    <3>1. message \in Message /\ buffer \o incoming = Text(message)
      BY <2>2, <2>3 DEF Sync
    <3> QED
      BY <1>0, <2>2, <2>3, <3>1, PartRead
  <2> QED
    BY <2>1, <2>3 DEF Sync
<1>4. CASE Close
  BY <1>4 DEF Close, Sync
<1>5. CASE UNCHANGED parserVars
  BY <1>5 DEF parserVars, Sync
<1> QED
  BY <1>1, <1>2, <1>3, <1>4, <1>5 DEF ParserNext

(* A well-formed request is answered when its last byte has arrived and    *)
(* not before, whatever the rounds, the memory behind the buffer and the   *)
(* bytes of the message, and http_request_get_header then gives for every  *)
(* key what was sent with it.                                              *)
THEOREM ParsedAsSent == ASSUME HttpRequestAssumption PROVE ParserSpec => []ParsedIsSent
<1>1. Inv /\ Sync => ParsedIsSent
  <2> SUFFICES ASSUME Inv, Sync, open, WellFormed(message), buffer # <<>>
               PROVE  IF incoming # <<>> THEN verdict = "incomplete"
                      ELSE /\ verdict = "succeed"
                           /\ parsed.url = message.url
                           /\ \A f \in ToSet(message.fields) :
                                GetHeader(parsed, f.key) = Trimmed(f.value, 0, Len(f.value))
    BY DEF ParsedIsSent
  <2>1. /\ buffer \in Bytes /\ incoming \in Bytes
        /\ message \in Message /\ buffer \o incoming = Text(message)
        /\ verdict = FromBuffer(buffer, <<NUL>>).verdict
        /\ parsed = FromBuffer(buffer, <<NUL>>).request
    BY DEF Inv, Sync
  <2>2. CASE incoming # <<>>
    BY <2>1, <2>2, PartRead
  <2>3. CASE incoming = <<>>
    <3>1. PICK list : /\ Kept(list, message.fields, Len(message.fields))
                      /\ FromBuffer(buffer, <<NUL>>)
                           = Outcome("succeed", "parsed", message.url, message.version, list, 0)
      BY <2>1, <2>3, PartRead
    <3>2. /\ verdict = "succeed" /\ parsed.url = message.url
          /\ parsed.state = "parsed" /\ parsed.headers = list
      BY <2>1, <3>1 DEF Outcome
    <3>3. message.fields \in Seq(Sent)
      BY <2>1 DEF Message, Sent
    <3>4. \A f \in ToSet(message.fields) :
            GetHeader(parsed, f.key) = Trimmed(f.value, 0, Len(f.value))
      BY <3>1, <3>2, <3>3, QueriesFind
    <3> QED
      BY <2>3, <3>2, <3>4
  <2> QED
    BY <2>2, <2>3
<1>2. Inv /\ Sync /\ [ParserNext]_parserVars => Sync'
  BY SyncKept
<1> QED
  BY Invariance, SyncInitial, <1>1, <1>2, PTL DEF ParserSpec
=============================================================================
