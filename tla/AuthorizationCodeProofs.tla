----------------------- MODULE AuthorizationCodeProofs -----------------------
(***************************************************************************)
(* Proofs about AuthorizationCode, for codes of every length, words of     *)
(* every width that leaves four bits, and whatever getrandom draws: the    *)
(* words can be read back from the code.                                   *)
(***************************************************************************)
EXTENDS AuthorizationCode, SequenceTheorems, WellFoundedInduction, TLAPS

(* A set of numbers that is not empty has a least one.  Induction is by    *)
(* the least number for which a fact fails.                                *)
LEMMA Least ==
  ASSUME NEW T, T \subseteq Nat, T # {}
  PROVE  \E x \in T : \A y \in T : x <= y
<1>1. PICK x \in T : \A y \in T : ~(<<y, x>> \in OpToRel(<, Nat))
  BY NatLessThanWellFounded, WFMin
<1>2. \A y \in T : ~(y < x)
  BY <1>1 DEF OpToRel
<1> QED
  BY <1>2

-----------------------------------------------------------------------------
(* The alphabet                                                            *)

(* The code of the v-th character.                                         *)
Told(v) ==
  v + (IF v <= 10 THEN 47 ELSE IF v <= 16 THEN 54 ELSE IF v <= 20 THEN 70
       ELSE IF v <= 32 THEN 76 ELSE IF v <= 48 THEN 38 ELSE IF v <= 62 THEN 60
       ELSE IF v <= 63 THEN 63 ELSE 0)

(* s holds the first a characters.                                         *)
Begins(s, a) == s \in Seq(Nat) /\ Len(s) = a /\ \A v \in 1 .. a : s[v] = Told(v)

(* The beginning of the alphabet, and what follows it.                     *)
LEMMA LongerBegins ==
  ASSUME NEW s, NEW t \in Seq(Nat), NEW a \in Nat, NEW n \in Nat, Begins(s, a),
         Len(t) = n, \A k \in 1 .. n : t[k] = Told(a + k)
  PROVE  Begins(s \o t, a + n)
<1>1. s \in Seq(Nat) /\ Len(s) = a /\ \A v \in 1 .. a : s[v] = Told(v)
  BY DEF Begins
<1> DEFINE r == s \o t
<1>2. /\ r \in Seq(Nat) /\ Len(r) = a + n
      /\ \A v \in 1 .. a + n : r[v] = IF v <= a THEN s[v] ELSE t[v - a]
  BY <1>1, ConcatProperties
<1> HIDE DEF r
<1>3. ASSUME NEW v \in 1 .. a + n PROVE r[v] = Told(v)
  <2>1. CASE v <= a
    <3>1. v \in 1 .. a
      BY <2>1
    <3> QED
      BY <1>1, <1>2, <2>1, <3>1
  <2>2. CASE ~(v <= a)
    <3>1. v - a \in 1 .. n /\ a + (v - a) = v
      BY <2>2
    <3> QED
      BY <1>2, <2>2, <3>1
  <2> QED
    BY <2>1, <2>2
<1> QED
  BY <1>2, <1>3 DEF Begins, r

(* A run of characters.                                                    *)
LEMMA SpanIs ==
  ASSUME NEW first \in Nat \ {0}, NEW n \in Nat
  PROVE  /\ Span(first, n) \in Seq(Nat) /\ Len(Span(first, n)) = n
         /\ \A k \in 1 .. n : Span(first, n)[k] = first + k - 1
<1>1. \A k \in 1 .. n : first + k - 1 \in Nat
  OBVIOUS
<1>2. Span(first, n) \in [1 .. n -> Nat]
  BY <1>1 DEF Span
<1>3. Span(first, n) \in Seq(Nat)
  BY <1>2, SeqDef
<1>4. Len(Span(first, n)) = n
  BY <1>2, <1>3, LenProperties
<1> QED
  BY <1>3, <1>4 DEF Span

(* The n characters behind the first a are those from first on.            *)
Runs(first, n, a) == \A k \in 1 .. n : first + k - 1 = Told(a + k)

LEMMA SpanBegins ==
  ASSUME NEW first \in Nat \ {0}, NEW n \in Nat, Runs(first, n, 0)
  PROVE  Begins(Span(first, n), n)
<1> DEFINE t == Span(first, n)
<1>1. /\ t \in Seq(Nat) /\ Len(t) = n
      /\ \A k \in 1 .. n : t[k] = first + k - 1
  BY SpanIs
<1> HIDE DEF t
<1>2. \A k \in 1 .. n : t[k] = Told(k)
  <2>1. \A k \in 1 .. n : 0 + k = k
    OBVIOUS
  <2> QED
    BY <1>1, <2>1 DEF Runs
<1> QED
  BY <1>1, <1>2 DEF Begins, t

LEMMA SpanFollows ==
  ASSUME NEW s, NEW a \in Nat, Begins(s, a), NEW first \in Nat \ {0}, NEW n \in Nat,
         Runs(first, n, a)
  PROVE  Begins(s \o Span(first, n), a + n)
<1> DEFINE t == Span(first, n)
<1>1. /\ t \in Seq(Nat) /\ Len(t) = n
      /\ \A k \in 1 .. n : t[k] = first + k - 1
  BY SpanIs
<1> HIDE DEF t
<1>2. \A k \in 1 .. n : t[k] = Told(a + k)
  BY <1>1 DEF Runs
<1>3. Begins(s \o t, a + n)
  BY <1>1, <1>2, LongerBegins
<1> QED
  BY <1>3 DEF t

(* map is put together from runs.                                          *)
LEMMA MapIs == Begins(map, 64)
<1> DEFINE t1 == Span(48, 10)
           t2 == t1 \o Span(65, 6)
           t3 == t2 \o Span(87, 4)
           t4 == t3 \o Span(97, 12)
           t5 == t4 \o Span(71, 16)
           t6 == t5 \o Span(109, 14)
           e == <<126, 64>>
<1>0. map = t6 \o e
  BY DEF map
<1>1. Begins(t1, 10)
  <2>1. Runs(48, 10, 0)
    BY DEF Runs, Told
  <2> QED
    BY <2>1, SpanBegins
<1> HIDE DEF t1
<1>2. Begins(t2, 16)
  <2>1. Runs(65, 6, 10)
    BY DEF Runs, Told
  <2>2. Begins(t2, 10 + 6)
    BY <1>1, <2>1, SpanFollows
  <2> QED
    BY <2>2
<1> HIDE DEF t2
<1>3. Begins(t3, 20)
  <2>1. Runs(87, 4, 16)
    BY DEF Runs, Told
  <2>2. Begins(t3, 16 + 4)
    BY <1>2, <2>1, SpanFollows
  <2> QED
    BY <2>2
<1> HIDE DEF t3
<1>4. Begins(t4, 32)
  <2>1. Runs(97, 12, 20)
    BY DEF Runs, Told
  <2>2. Begins(t4, 20 + 12)
    BY <1>3, <2>1, SpanFollows
  <2> QED
    BY <2>2
<1> HIDE DEF t4
<1>5. Begins(t5, 48)
  <2>1. Runs(71, 16, 32)
    BY DEF Runs, Told
  <2>2. Begins(t5, 32 + 16)
    BY <1>4, <2>1, SpanFollows
  <2> QED
    BY <2>2
<1> HIDE DEF t5
<1>6. Begins(t6, 62)
  <2>1. Runs(109, 14, 48)
    BY DEF Runs, Told
  <2>2. Begins(t6, 48 + 14)
    BY <1>5, <2>1, SpanFollows
  <2> QED
    BY <2>2
<1> HIDE DEF t6
<1>7. e \in Seq(Nat) /\ Len(e) = 2 /\ \A k \in 1 .. 2 : e[k] = Told(62 + k)
  BY DEF Told
<1> HIDE DEF e
<1>8. Begins(t6 \o e, 62 + 2)
  BY <1>6, <1>7, LongerBegins
<1> QED
  BY <1>0, <1>8

(* No character stands for two values.                                     *)
LEMMA ToldApart ==
  \A u, v \in 1 .. 64 : Told(u) = Told(v) => u = v
BY DEF Told

(* A character can be read.                                                *)
LEMMA ValueIs ==
  ASSUME NEW v \in 0 .. 63
  PROVE  Character(v) \in Nat /\ Value(Character(v)) = v
<1>1. map \in Seq(Nat) /\ Len(map) = 64 /\ \A u \in 1 .. 64 : map[u] = Told(u)
  BY MapIs DEF Begins
<1> DEFINE w == v + 1
           x == CHOOSE u \in 1 .. 64 : map[u] = Character(v)
<1>2. w \in 1 .. 64 /\ Character(v) = map[w] /\ w - 1 = v
  BY DEF Character
<1> HIDE DEF w
<1>3. Character(v) \in Nat
  <2>1. map[w] = Told(w)
    BY <1>1, <1>2
  <2>2. Told(w) \in Nat
    BY <1>2 DEF Told
  <2> QED
    BY <1>2, <2>1, <2>2
<1>4. x \in 1 .. 64 /\ map[x] = Character(v)
  BY <1>2
<1> HIDE DEF x
<1>5. Told(x) = Told(w)
  <2>1. map[x] = Told(x) /\ map[w] = Told(w)
    BY <1>1, <1>2, <1>4
  <2>2. map[x] = map[w]
    BY <1>2, <1>4
  <2> QED
    BY <2>1, <2>2
<1>6. x = w
  BY <1>2, <1>4, <1>5, ToldApart
<1> QED
  BY <1>2, <1>3, <1>6 DEF Value, x, w

-----------------------------------------------------------------------------
(* The last bits of three words                                            *)

(* Two numbers without a common bit.                                       *)
LEMMA OrIsSum ==
  ASSUME NEW a \in 0 .. 15, NEW y \in 0 .. 3
  PROVE  Or(a, 16 * y) = a + 16 * y
<1>1. y = 0 \/ y = 1 \/ y = 2 \/ y = 3
  OBVIOUS
<1>2. CASE y = 0
  BY <1>2 DEF Or
<1>3. CASE y = 1
  BY <1>3 DEF Or
<1>4. CASE y = 2
  BY <1>4 DEF Or
<1>5. CASE y = 3
  BY <1>5 DEF Or
<1> QED
  BY <1>1, <1>2, <1>3, <1>4, <1>5

(* The values of the two characters, from which the bits can be read.      *)
One(a, b) == a + 16 * (b \div 4)
Two(b, c) == c + 16 * (b % 4)

(* The bits of three words, from the values of two characters.             *)
LEMMA ReadApart ==
  ASSUME NEW a \in 0 .. 15, NEW b \in 0 .. 15, NEW c \in 0 .. 15
  PROVE  /\ One(a, b) \in 0 .. 63 /\ Two(b, c) \in 0 .. 63
         /\ One(a, b) % 16 = a /\ Two(b, c) % 16 = c
         /\ 4 * (One(a, b) \div 16) + Two(b, c) \div 16 = b
<1> DEFINE u == b \div 4
           l == b % 4
<1>1. u \in 0 .. 3 /\ l \in 0 .. 3 /\ b = 4 * u + l
  OBVIOUS
<1> HIDE DEF u, l
<1>2. a + 16 * u \in 0 .. 63 /\ c + 16 * l \in 0 .. 63
  BY <1>1
<1>3. (a + 16 * u) % 16 = a /\ (c + 16 * l) % 16 = c
  BY <1>1
<1>4. (a + 16 * u) \div 16 = u /\ (c + 16 * l) \div 16 = l
  BY <1>1
<1> QED
  BY <1>1, <1>2, <1>3, <1>4 DEF u, l, One, Two

(* The two characters have these values.                                   *)
LEMMA RestIs ==
  ASSUME NEW a \in 0 .. 15, NEW b \in 0 .. 15, NEW c \in 0 .. 15
  PROVE  /\ Rest(a, b, c) \in Seq(Nat) /\ Len(Rest(a, b, c)) = 2
         /\ Value(Rest(a, b, c)[1]) = One(a, b) /\ Value(Rest(a, b, c)[2]) = Two(b, c)
<1> DEFINE u == b \div 4
           l == b % 4
           one == One(a, b)
           two == Two(b, c)
<1>1. u \in 0 .. 3 /\ l \in 0 .. 3
  OBVIOUS
<1>2. Upper(b) * 4 = 16 * u /\ Lower(b) * 16 = 16 * l
  BY DEF Upper, Lower
<1> HIDE DEF u, l
<1>3. Or(a, 16 * u) = a + 16 * u /\ Or(c, 16 * l) = c + 16 * l
  BY <1>1, OrIsSum
<1>4. one = a + 16 * u /\ two = c + 16 * l
  BY DEF One, Two, u, l
<1>5. /\ Character(one) \in Nat /\ Value(Character(one)) = one
      /\ Character(two) \in Nat /\ Value(Character(two)) = two
  <2>1. one \in 0 .. 63 /\ two \in 0 .. 63
    BY ReadApart
  <2> HIDE DEF one, two
  <2> QED
    BY <2>1, ValueIs
<1> HIDE DEF one, two
<1>6. Rest(a, b, c) = <<Character(one), Character(two)>>
  BY <1>2, <1>3, <1>4 DEF Rest
<1> QED
  BY <1>5, <1>6 DEF one, two

-----------------------------------------------------------------------------
(* How many words there are                                                *)

LimitStep(f, k) == IF k = 0 THEN 16 ELSE 64 * f[k - 1]

LEMMA LimitStepLooksBack ==
  ASSUME NEW k \in Nat, NEW f, NEW g, k # 0 => f[k - 1] = g[k - 1]
  PROVE  LimitStep(f, k) = LimitStep(g, k)
BY DEF LimitStep

(* The recursion behind Limit is defined.                                  *)
LEMMA LimitsExist ==
  ASSUME NEW n \in Nat
  PROVE  \E f : \A k \in 0 .. n : f[k] = LimitStep(f, k)
<1> DEFINE Good(m) == \E f : \A k \in 0 .. m : f[k] = LimitStep(f, k)
           T == {m \in Nat : ~Good(m)}
<1>1. T = {}
  <2> SUFFICES ASSUME T # {} PROVE FALSE
    OBVIOUS
  <2>1. PICK m \in T : \A k \in T : m <= k
    <3>1. T \subseteq Nat
      OBVIOUS
    <3> HIDE DEF T
    <3> QED
      BY <3>1, Least
  <2>2. m \in Nat /\ ~Good(m)
    BY <2>1
  <2>3. \E f : \A k \in 0 .. m - 1 : f[k] = LimitStep(f, k)
    <3>1. CASE m = 0
      BY <3>1
    <3>2. CASE m # 0
      <4>1. m - 1 \in Nat /\ ~(m <= m - 1)
        BY <2>2, <3>2
      <4>2. Good(m - 1)
        BY <2>1, <4>1
      <4> QED
        BY <4>2
    <3> QED
      BY <3>1, <3>2
  <2>4. PICK f : \A k \in 0 .. m - 1 : f[k] = LimitStep(f, k)
    BY <2>3
  <2> DEFINE g == [k \in 0 .. m |-> IF k = m THEN LimitStep(f, m) ELSE f[k]]
  <2>5. /\ \A k \in 0 .. m - 1 : g[k] = f[k]
        /\ g[m] = LimitStep(f, m)
    BY <2>2
  <2> HIDE DEF g
  <2>6. ASSUME NEW k \in 0 .. m PROVE g[k] = LimitStep(g, k)
    <3>1. k \in Nat /\ (k # 0 => k - 1 \in 0 .. m - 1) /\ (k = m \/ k \in 0 .. m - 1)
      BY <2>2
    <3>2. LimitStep(f, k) = LimitStep(g, k)
      BY <2>5, <3>1, LimitStepLooksBack
    <3> QED
      BY <2>4, <2>5, <3>1, <3>2
  <2> QED
    BY <2>2, <2>6
<1> QED
  BY <1>1

(* One more character takes six more bits.                                 *)
LEMMA LimitIs ==
  ASSUME Rounds \in Nat
  PROVE  /\ Limit[0] = 16
         /\ \A k \in 1 .. Rounds : Limit[k] = 64 * Limit[k - 1]
         /\ \A k \in 0 .. Rounds : Limit[k] \in Nat
<1> DEFINE R == Rounds
           Fits(f) == f = [k \in 0 .. R |-> IF k = 0 THEN 16 ELSE 64 * f[k - 1]]
           T == {k \in 0 .. R : Limit[k] \notin Nat}
<1>1. PICK f : \A k \in 0 .. R : f[k] = LimitStep(f, k)
  BY LimitsExist
<1> DEFINE g == [k \in 0 .. R |-> f[k]]
<1>2. Fits(g)
  <2>1. ASSUME NEW k \in 0 .. R PROVE g[k] = IF k = 0 THEN 16 ELSE 64 * g[k - 1]
    <3>1. g[k] = f[k] /\ (k # 0 => k - 1 \in 0 .. R)
      OBVIOUS
    <3>2. k # 0 => g[k - 1] = f[k - 1]
      BY <3>1
    <3> HIDE DEF g
    <3> QED
      BY <1>1, <3>1, <3>2 DEF LimitStep
  <2>2. g = [k \in 0 .. R |-> g[k]]
    OBVIOUS
  <2> HIDE DEF g
  <2> QED
    BY <2>1, <2>2, Zenon
<1>3. Limit = CHOOSE l : Fits(l)
  BY DEF Limit
<1>4. Fits(Limit)
  <2> HIDE DEF Fits, g
  <2> QED
    BY <1>2, <1>3, Zenon
<1>5. Limit[0] = 16 /\ \A k \in 1 .. R : Limit[k] = 64 * Limit[k - 1]
  <2> DEFINE l == Limit
  <2>1. l = [k \in 0 .. R |-> IF k = 0 THEN 16 ELSE 64 * l[k - 1]]
    BY <1>4
  <2> HIDE DEF l
  <2>2. \A k \in 0 .. R : l[k] = IF k = 0 THEN 16 ELSE 64 * l[k - 1]
    BY <2>1, Zenon
  <2>3. 0 \in 0 .. R /\ \A k \in 1 .. R : k \in 0 .. R /\ k # 0
    OBVIOUS
  <2>4. l[0] = 16 /\ \A k \in 1 .. R : l[k] = 64 * l[k - 1]
    BY <2>2, <2>3, Zenon
  <2> QED
    BY <2>4 DEF l
<1>6. T = {}
  <2> SUFFICES ASSUME T # {} PROVE FALSE
    OBVIOUS
  <2>1. PICK k \in T : \A m \in T : k <= m
    <3>1. T \subseteq Nat
      OBVIOUS
    <3> HIDE DEF T
    <3> QED
      BY <3>1, Least
  <2>2. k # 0
    BY <1>5, <2>1
  <2>3. k \in 1 .. R /\ k - 1 \in 0 .. R /\ ~(k <= k - 1)
    BY <2>1, <2>2
  <2>4. Limit[k - 1] \in Nat
    BY <2>1, <2>3
  <2>5. Limit[k] \in Nat
    BY <1>5, <2>3, <2>4
  <2> QED
    BY <2>1, <2>5
<1> QED
  BY <1>5, <1>6

-----------------------------------------------------------------------------
(* The invariant                                                           *)

(* s are the values of a word as its first n characters are taken from it. *)
Taken(s, word, n) ==
  /\ s \in [0 .. n -> Nat]
  /\ s[0] = random[word] /\ s[n] = word_buffer[word]
  /\ \A k \in 1 .. n : Digit(word, k) = s[k - 1] % 64 /\ s[k] = s[k - 1] \div 64
  /\ \A k \in 0 .. n : s[k] < Limit[Rounds - k]

Used(word) == IF word - 1 < code_i THEN Rounds ELSE IF word - 1 = code_i THEN code_j ELSE 0

Spelled == \A word \in 1 .. buffer_length : \E s : Taken(s, word, Used(word))

(* The last bits of the first t groups are in the code.                    *)
Packed(t) ==
  /\ code_i = buffer_length + 3 * t /\ Len(code) = buffer_length * Rounds + 2 * t
  /\ \A g \in 0 .. t - 1 :
       LET rest == Rest(word_buffer[3 * g + 1], word_buffer[3 * g + 2],
                             word_buffer[3 * g + 3])
       IN  /\ code[buffer_length * Rounds + 2 * g + 1] = rest[1]
           /\ code[buffer_length * Rounds + 2 * g + 2] = rest[2]

Inv ==
  /\ random \in [1 .. buffer_length -> Words] /\ word_buffer \in [1 .. buffer_length -> Nat]
  /\ code \in Seq(Nat) /\ code_i \in Nat /\ code_j \in 0 .. Rounds
  /\ Spelled
  /\ code_i < buffer_length => Len(code) = code_i * Rounds + code_j
  /\ code_i >= buffer_length => code_j = 0 /\ \E t \in 0 .. Triples : Packed(t)

LEMMA Sizes ==
  ASSUME AuthorizationCodeAssumption
  PROVE  /\ Rounds \in Nat /\ Triples \in Nat \ {0}
         /\ buffer_length \in Nat /\ buffer_length = 3 * Triples
BY DEF AuthorizationCodeAssumption, buffer_length

(* A word has a row of characters, and the rows follow each other.         *)
LEMMA Rows ==
  ASSUME Rounds \in Nat, NEW a \in Nat, NEW b \in Nat, a <= b
  PROVE  /\ a * Rounds \in Nat /\ b * Rounds \in Nat /\ a * Rounds <= b * Rounds
         /\ (a + 1) * Rounds = a * Rounds + Rounds
<1> DEFINE d == b - a
<1>1. d \in Nat /\ b = a + d
  OBVIOUS
<1> HIDE DEF d
<1>2. (a + d) * Rounds = a * Rounds + d * Rounds /\ d * Rounds \in Nat /\ a * Rounds \in Nat
  BY <1>1
<1> QED
  BY <1>1, <1>2

(* The characters taken from a word are in the code.                       *)
LEMMA DigitsInside ==
  ASSUME AuthorizationCodeAssumption, Inv,
         NEW word \in 1 .. buffer_length, NEW k \in 1 .. Used(word)
  PROVE  (word - 1) * Rounds + k \in 1 .. Len(code)
<1>1. /\ Rounds \in Nat /\ buffer_length \in Nat /\ code_i \in Nat /\ code_j \in 0 .. Rounds
      /\ Len(code) \in Nat
  BY Sizes, LenProperties DEF Inv
<1>2. word - 1 \in Nat /\ (word - 1) * Rounds \in Nat
      /\ ((word - 1) + 1) * Rounds = (word - 1) * Rounds + Rounds /\ (word - 1) + 1 = word
  BY <1>1, Rows
<1>3. CASE word - 1 < code_i
  <2>1. k \in 1 .. Rounds
    BY <1>3 DEF Used
  <2>2. word * Rounds <= Len(code)
    <3>1. CASE code_i < buffer_length
      <4>1. word * Rounds <= code_i * Rounds /\ word * Rounds \in Nat /\ code_i * Rounds \in Nat
        BY <1>1, <1>3, <3>1, Rows
      <4>2. Len(code) = code_i * Rounds + code_j
        BY <3>1 DEF Inv
      <4> QED
        BY <1>1, <4>1, <4>2
    <3>2. CASE code_i >= buffer_length
      <4>1. /\ word * Rounds <= buffer_length * Rounds
            /\ word * Rounds \in Nat /\ buffer_length * Rounds \in Nat
        BY <1>1, Rows
      <4>2. PICK t \in 0 .. Triples : Packed(t)
        BY <3>2 DEF Inv
      <4>3. Len(code) = buffer_length * Rounds + 2 * t /\ t \in Nat
        BY <4>2, Sizes DEF Packed
      <4> QED
        BY <4>1, <4>3
    <3> QED
      BY <1>1, <3>1, <3>2
  <2> QED
    BY <1>1, <1>2, <2>1, <2>2
<1>4. CASE word - 1 = code_i
  <2>1. k \in 1 .. code_j
    BY <1>1, <1>4 DEF Used
  <2>2. code_i < buffer_length
    BY <1>1, <1>4
  <2>3. Len(code) = (word - 1) * Rounds + code_j
    BY <1>4, <2>2 DEF Inv
  <2> QED
    BY <1>1, <1>2, <2>1, <2>3
<1>5. CASE code_i < word - 1
  BY <1>1, <1>5 DEF Used
<1> QED
  BY <1>1, <1>3, <1>4, <1>5

LEMMA InvInitial == AuthorizationCodeAssumption /\ CodeInit => Inv
<1> SUFFICES ASSUME AuthorizationCodeAssumption, CodeInit PROVE Inv
  OBVIOUS
<1>1. /\ Rounds \in Nat /\ buffer_length \in Nat /\ buffer_length # 0
      /\ Limit[Rounds] \in Nat
  BY Sizes, LimitIs
<1>2. /\ random \in [1 .. buffer_length -> Words] /\ word_buffer = random
      /\ code = <<>> /\ code_i = 0 /\ code_j = 0
  BY DEF CodeInit
<1>3. \A w \in Words : w \in Nat /\ w < Limit[Rounds]
  BY <1>1 DEF AuthorizationCodeAssumption
<1>4. \A word \in 1 .. buffer_length : random[word] \in Nat /\ random[word] < Limit[Rounds]
  BY <1>2, <1>3
<1>5. Spelled
  <2> SUFFICES ASSUME NEW word \in 1 .. buffer_length PROVE \E s : Taken(s, word, Used(word))
    BY DEF Spelled
  <2> DEFINE s == [k \in 0 .. 0 |-> random[word]]
  <2>1. Used(word) = 0
    BY <1>1, <1>2 DEF Used
  <2>2. s \in [0 .. 0 -> Nat] /\ s[0] = random[word]
    BY <1>4
  <2> HIDE DEF s
  <2>3. Rounds - 0 = Rounds /\ \A k \in 0 .. 0 : k = 0
    BY <1>1
  <2>4. Taken(s, word, 0)
    BY <1>2, <1>4, <2>2, <2>3 DEF Taken
  <2> QED
    BY <2>1, <2>4
<1>6. code \in Seq(Nat) /\ Len(code) = 0
  BY <1>2, EmptySeq
<1>7. word_buffer \in [1 .. buffer_length -> Nat]
  BY <1>2, <1>3
<1>8. Len(code) = code_i * Rounds + code_j
  BY <1>1, <1>2, <1>6
<1>9. ~(code_i >= buffer_length)
  BY <1>1, <1>2
<1>10. code_i \in Nat /\ code_j \in 0 .. Rounds
  BY <1>1, <1>2
<1> QED
  BY <1>2, <1>5, <1>6, <1>7, <1>8, <1>9, <1>10 DEF Inv

(* When the code only grows, what was taken from a word stays taken.       *)
LEMMA TakenKept ==
  ASSUME AuthorizationCodeAssumption, Inv, random' = random,
         \A x \in 1 .. Len(code) : code'[x] = code[x],
         NEW word \in 1 .. buffer_length, word_buffer'[word] = word_buffer[word],
         NEW s, Taken(s, word, Used(word)), Used(word)' = Used(word)
  PROVE  Taken(s, word, Used(word))'
<1> DEFINE n == Used(word)
<1>1. \A k \in 1 .. n : Digit(word, k)' = Digit(word, k)
  <2> TAKE k \in 1 .. n
  <2>1. (word - 1) * Rounds + k \in 1 .. Len(code)
    BY DigitsInside
  <2> QED
    BY <2>1 DEF Digit
<1>2. Used(word)' = n
  OBVIOUS
<1> HIDE DEF n
<1>3. /\ s \in [0 .. n -> Nat]
      /\ s[0] = random[word] /\ s[n] = word_buffer[word]
      /\ \A k \in 1 .. n : Digit(word, k) = s[k - 1] % 64 /\ s[k] = s[k - 1] \div 64
      /\ \A k \in 0 .. n : s[k] < Limit[Rounds - k]
  BY DEF Taken, n
<1>4. \A k \in 1 .. n : Digit(word, k)' = s[k - 1] % 64 /\ s[k] = s[k - 1] \div 64
  BY <1>1, <1>3
<1> QED
  BY <1>2, <1>3, <1>4 DEF Taken

(* What is left of a word when the first loop is over.                     *)
LEMMA LeftOver ==
  ASSUME AuthorizationCodeAssumption, Inv, code_i >= buffer_length,
         NEW word \in 1 .. buffer_length
  PROVE  Used(word) = Rounds /\ word_buffer[word] \in 0 .. 15
<1>1. /\ Rounds \in Nat /\ buffer_length \in Nat /\ code_i \in Nat /\ Limit[0] = 16
      /\ word_buffer[word] \in Nat
  BY Sizes, LimitIs DEF Inv
<1>2. Used(word) = Rounds
  <2>1. word - 1 < code_i
    BY <1>1
  <2> QED
    BY <2>1 DEF Used
<1>3. PICK s : Taken(s, word, Rounds)
  BY <1>2 DEF Inv, Spelled
<1>4. Rounds \in 0 .. Rounds /\ Rounds - Rounds = 0
  BY <1>1
<1>5. word_buffer[word] < Limit[0]
  BY <1>3, <1>4 DEF Taken
<1> QED
  BY <1>1, <1>2, <1>5

(* Six bits of a word become a character.                                  *)
LEMMA CharacterKeeps ==
  ASSUME AuthorizationCodeAssumption, Inv, Spell, code_j < Rounds
  PROVE  Inv'
<1>1. /\ Rounds \in Nat /\ buffer_length \in Nat /\ code_i \in Nat /\ code_j \in Nat
      /\ code_j + 1 \in 0 .. Rounds
      /\ code_i < buffer_length /\ code_i + 1 \in 1 .. buffer_length
  BY Sizes DEF Inv, Spell
<1>0. PICK w \in 1 .. buffer_length : w = code_i + 1
  BY <1>1
<1> DEFINE x == word_buffer[w]
           c == Character(x % 64)
<1>2. /\ code' = Append(code, c) /\ word_buffer' = [word_buffer EXCEPT ![w] = x \div 64]
      /\ code_j' = code_j + 1 /\ code_i' = code_i /\ random' = random
  BY <1>0 DEF Spell
<1>3. w \in 1 .. buffer_length /\ w - 1 = code_i
  BY <1>0, <1>1
<1>4. /\ word_buffer \in [1 .. buffer_length -> Nat] /\ x \in Nat /\ code \in Seq(Nat)
      /\ random \in [1 .. buffer_length -> Words]
  BY <1>3 DEF Inv
<1>5. /\ word_buffer'[w] = x \div 64
      /\ \A word \in 1 .. buffer_length : word # w => word_buffer'[word] = word_buffer[word]
      /\ word_buffer' \in [1 .. buffer_length -> Nat]
  <2>1. x \div 64 \in Nat
    BY <1>4
  <2> HIDE DEF x
  <2> QED
    BY <1>2, <1>3, <1>4, <2>1
<1> HIDE DEF x
<1>6. c \in Nat /\ Value(c) = x % 64
  <2>1. x % 64 \in 0 .. 63
    BY <1>4
  <2> QED
    BY <2>1, ValueIs
<1> HIDE DEF c
<1>7. /\ code' \in Seq(Nat) /\ Len(code') = Len(code) + 1
      /\ \A y \in 1 .. Len(code) : code'[y] = code[y]
      /\ code'[Len(code) + 1] = c
  BY <1>2, <1>4, <1>6, AppendProperties
<1>8. Len(code) = code_i * Rounds + code_j /\ code_i * Rounds \in Nat
  BY <1>1, Rows DEF Inv
<1>9. ASSUME NEW word \in 1 .. buffer_length, word # w
      PROVE  \E s : Taken(s, word, Used(word))'
  <2>1. word - 1 # code_i
    BY <1>3, <1>9
  <2>2. Used(word)' = Used(word)
    BY <1>2, <2>1 DEF Used
  <2>3. PICK s : Taken(s, word, Used(word))
    BY DEF Inv, Spelled
  <2>4. word_buffer'[word] = word_buffer[word]
    BY <1>5, <1>9
  <2>5. Taken(s, word, Used(word))'
    BY <1>2, <1>7, <2>2, <2>3, <2>4, TakenKept
  <2> QED
    BY <2>5
<1>10. \E s : Taken(s, w, Used(w))'
  <2>1. Used(w) = code_j /\ Used(w)' = code_j + 1
    BY <1>1, <1>2, <1>3 DEF Used
  <2>2. PICK s : Taken(s, w, code_j)
    BY <1>3, <2>1 DEF Inv, Spelled
  <2>3. /\ s \in [0 .. code_j -> Nat] /\ s[0] = random[w] /\ s[code_j] = x
        /\ \A k \in 1 .. code_j : Digit(w, k) = s[k - 1] % 64 /\ s[k] = s[k - 1] \div 64
        /\ \A k \in 0 .. code_j : s[k] < Limit[Rounds - k]
    BY <2>2 DEF Taken, x
  <2>0. PICK n \in Nat : n = code_j + 1
    BY <1>1
  <2>4. /\ n \in Nat /\ n - 1 = code_j /\ ~(n <= code_j)
        /\ n \in 0 .. n /\ n \in 0 .. Rounds /\ 0 \in 0 .. code_j
        /\ \A k \in 0 .. code_j : k <= code_j /\ k \in 0 .. n
        /\ \A k \in 0 .. n : k = n \/ k \in 0 .. code_j
        /\ \A k \in 1 .. n : k = n \/ k \in 1 .. code_j
        /\ \A k \in 1 .. code_j : k \in 0 .. code_j /\ k - 1 \in 0 .. code_j
    BY <1>1, <2>0
  <2>5. x \div 64 \in Nat
    BY <1>4
  <2>6. PICK r : /\ r \in [0 .. n -> Nat] /\ r[n] = x \div 64
                 /\ \A k \in 0 .. code_j : r[k] = s[k]
    <3> DEFINE q == [k \in 0 .. n |-> IF k <= code_j THEN s[k] ELSE x \div 64]
    <3>1. /\ q \in [0 .. n -> Nat] /\ q[n] = x \div 64
          /\ \A k \in 0 .. code_j : q[k] = s[k]
      BY <2>3, <2>4, <2>5
    <3> HIDE DEF q
    <3> QED
      BY <3>1
  <2>7. \A k \in 1 .. code_j : Digit(w, k)' = Digit(w, k)
    <3> TAKE k \in 1 .. code_j
    <3>1. (w - 1) * Rounds + k \in 1 .. Len(code)
      BY <1>3, <2>1, DigitsInside
    <3> QED
      BY <1>7, <3>1 DEF Digit
  <2>8. Digit(w, n)' = x % 64
    <3>1. (w - 1) * Rounds + n = Len(code) + 1
      BY <1>1, <1>3, <1>8, <2>0
    <3> QED
      BY <1>6, <1>7, <3>1 DEF Digit
  <2>9. x \div 64 < Limit[Rounds - n]
    <3>1. /\ Limit[Rounds - code_j] = 64 * Limit[(Rounds - code_j) - 1]
          /\ (Rounds - code_j) - 1 = Rounds - n
          /\ Limit[Rounds - n] \in Nat
      <4>1. /\ Rounds - code_j \in 1 .. Rounds /\ (Rounds - code_j) - 1 = Rounds - n
            /\ Rounds - n \in 0 .. Rounds
        BY <1>1, <2>0
      <4> QED
        BY <1>1, <4>1, LimitIs
    <3>2. x < Limit[Rounds - code_j]
      BY <2>3, <2>4
    <3> DEFINE l == Limit[Rounds - n]
    <3>3. x < 64 * l /\ l \in Nat
      BY <3>1, <3>2
    <3> HIDE DEF l
    <3>4. x \div 64 < l
      BY <1>4, <3>3
    <3> QED
      BY <3>4 DEF l
  <2>10. ASSUME NEW k \in 1 .. n
         PROVE  Digit(w, k)' = r[k - 1] % 64 /\ r[k] = r[k - 1] \div 64
    <3>1. CASE k = n
      <4>1. r[k - 1] = x
        BY <2>3, <2>4, <2>6, <3>1
      <4> QED
        BY <2>6, <2>8, <3>1, <4>1
    <3>2. CASE k \in 1 .. code_j
      <4>1. r[k] = s[k] /\ r[k - 1] = s[k - 1]
        BY <2>4, <2>6, <3>2
      <4> QED
        BY <2>3, <2>7, <3>2, <4>1
    <3> QED
      BY <2>4, <3>1, <3>2
  <2>11. \A k \in 0 .. n : r[k] < Limit[Rounds - k]
    <3> TAKE k \in 0 .. n
    <3>1. CASE k = n
      BY <2>6, <2>9, <3>1
    <3>2. CASE k \in 0 .. code_j
      BY <2>3, <2>6, <3>2
    <3> QED
      BY <2>4, <3>1, <3>2
  <2>12. r[0] = random'[w] /\ r[n] = word_buffer'[w]
    BY <1>2, <1>5, <2>3, <2>4, <2>6
  <2>13. Taken(r, w, n)'
    BY <2>6, <2>10, <2>11, <2>12 DEF Taken
  <2>14. Used(w)' = n
    BY <2>0, <2>1
  <2> QED
    BY <2>13, <2>14
<1>11. Spelled'
  BY <1>9, <1>10 DEF Spelled, buffer_length
<1>12. code_i' < buffer_length => Len(code') = code_i' * Rounds + code_j'
  BY <1>1, <1>2, <1>7, <1>8
<1>13. ~(code_i' >= buffer_length)
  BY <1>1, <1>2
<1>14. random' \in [1 .. buffer_length -> Words] /\ code_i' \in Nat /\ code_j' \in 0 .. Rounds
  BY <1>1, <1>2, <1>4
<1> QED
  BY <1>5, <1>7, <1>11, <1>12, <1>13, <1>14 DEF Inv, buffer_length

(* The loop goes on with the next word, or is over.                        *)
LEMMA NextWordKeeps ==
  ASSUME AuthorizationCodeAssumption, Inv, Spell, ~(code_j < Rounds)
  PROVE  Inv'
<1>1. /\ Rounds \in Nat /\ Triples \in Nat /\ buffer_length \in Nat
      /\ code_i \in Nat /\ code_j \in 0 .. Rounds /\ code_i < buffer_length /\ code_j = Rounds
  BY Sizes DEF Inv, Spell
<1>2. /\ code' = code /\ word_buffer' = word_buffer /\ random' = random
      /\ code_i' = code_i + 1 /\ code_j' = 0
  BY DEF Spell
<1>3. ASSUME NEW word \in 1 .. buffer_length PROVE Used(word)' = Used(word)
  BY <1>1, <1>2 DEF Used
<1>4. Spelled'
  <2>1. ASSUME NEW word \in 1 .. buffer_length PROVE \E s : Taken(s, word, Used(word))'
    <3>1. PICK s : Taken(s, word, Used(word))
      BY DEF Inv, Spelled
    <3>2. Taken(s, word, Used(word))'
      BY <1>2, <1>3, <3>1, TakenKept
    <3> QED
      BY <3>2
  <2> QED
    BY <2>1 DEF Spelled, buffer_length
<1>5. Len(code') = code_i' * Rounds + code_j'
  <2>1. Len(code) = code_i * Rounds + Rounds
    BY <1>1 DEF Inv
  <2>2. (code_i + 1) * Rounds = code_i * Rounds + Rounds /\ code_i * Rounds \in Nat
    BY <1>1, Rows
  <2> QED
    BY <1>1, <1>2, <2>1, <2>2
<1>6. code_i' >= buffer_length => \E t \in 0 .. Triples : Packed(t)'
  <2> SUFFICES ASSUME code_i' >= buffer_length PROVE Packed(0)'
    BY <1>1
  <2>1. code_i' = buffer_length
    BY <1>1, <1>2
  <2>2. buffer_length * Rounds \in Nat
    BY <1>1, Rows
  <2>3. code_i' = buffer_length + 3 * 0 /\ Len(code') = buffer_length * Rounds + 2 * 0
    BY <1>1, <1>2, <1>5, <2>1, <2>2
  <2>4. \A g \in 0 .. 0 - 1 : FALSE
    OBVIOUS
  <2> QED
    BY <2>3, <2>4 DEF Packed, buffer_length
<1>7. code_i' \in Nat /\ code_j' \in 0 .. Rounds
  BY <1>1, <1>2
<1>8. /\ random' \in [1 .. buffer_length -> Words] /\ word_buffer' \in [1 .. buffer_length -> Nat]
      /\ code' \in Seq(Nat)
  BY <1>2 DEF Inv
<1> QED
  BY <1>2, <1>4, <1>5, <1>6, <1>7, <1>8 DEF Inv, buffer_length

(* What is left of three words becomes two characters.                     *)
LEMMA PackKeeps ==
  ASSUME AuthorizationCodeAssumption, Inv, Pack
  PROVE  Inv'
<1>1. /\ Rounds \in Nat /\ Triples \in Nat /\ buffer_length \in Nat
      /\ buffer_length = 3 * Triples
      /\ code_i \in Nat /\ code_i >= buffer_length /\ code_i - buffer_length < buffer_length
      /\ code_j = 0 /\ code \in Seq(Nat)
  BY Sizes DEF Inv, Pack
<1>2. PICK t \in 0 .. Triples : Packed(t)
  BY <1>1 DEF Inv
<1>3. PICK l \in Nat : l = buffer_length * Rounds
  BY <1>1, Rows
<1>4. code_i = buffer_length + 3 * t /\ Len(code) = l + 2 * t
  BY <1>2, <1>3 DEF Packed
<1>5. t < Triples /\ t \in Nat /\ t + 1 \in 0 .. Triples /\ code_i - buffer_length = 3 * t
  BY <1>1, <1>4
<1>6. /\ 3 * t + 1 \in 1 .. buffer_length /\ 3 * t + 2 \in 1 .. buffer_length
      /\ 3 * t + 3 \in 1 .. buffer_length
  BY <1>1, <1>5
<1> DEFINE a == word_buffer[3 * t + 1]
           b == word_buffer[3 * t + 2]
           c == word_buffer[3 * t + 3]
           r == Rest(a, b, c)
<1>7. /\ code' = code \o r
      /\ code_i' = code_i + 3 /\ random' = random /\ word_buffer' = word_buffer /\ code_j' = code_j
  BY <1>5 DEF Pack
<1>8. r \in Seq(Nat) /\ Len(r) = 2
  <2>1. a \in 0 .. 15 /\ b \in 0 .. 15 /\ c \in 0 .. 15
    BY <1>1, <1>6, LeftOver
  <2> HIDE DEF a, b, c
  <2> QED
    BY <2>1, RestIs DEF r
<1> HIDE DEF r, a, b, c
<1>9. /\ code' \in Seq(Nat) /\ Len(code') = (l + 2 * t) + 2
      /\ \A y \in 1 .. (l + 2 * t) + 2 :
           code'[y] = IF y <= l + 2 * t THEN code[y] ELSE r[y - (l + 2 * t)]
  <2> DEFINE q == code \o r
  <2>1. /\ q \in Seq(Nat) /\ Len(q) = Len(code) + Len(r)
        /\ \A y \in 1 .. Len(code) + Len(r) :
             q[y] = IF y <= Len(code) THEN code[y] ELSE r[y - Len(code)]
    BY <1>1, <1>8, ConcatProperties
  <2> HIDE DEF q
  <2>2. code' = q
    BY <1>7 DEF q
  <2> QED
    BY <1>4, <1>8, <2>1, <2>2
<1>10. \A y \in 1 .. Len(code) : code'[y] = code[y]
  BY <1>3, <1>4, <1>5, <1>9
<1>11. code'[l + 2 * t + 1] = r[1] /\ code'[l + 2 * t + 2] = r[2]
  <2>1. \A d \in 1 .. 2 : /\ l + 2 * t + d \in 1 .. (l + 2 * t) + 2
                          /\ ~(l + 2 * t + d <= l + 2 * t)
                          /\ (l + 2 * t + d) - (l + 2 * t) = d
    BY <1>3, <1>5
  <2>2. \A d \in 1 .. 2 : code'[l + 2 * t + d] = r[d]
    BY <1>9, <2>1
  <2>3. 1 \in 1 .. 2 /\ 2 \in 1 .. 2
    OBVIOUS
  <2> QED
    BY <2>2, <2>3
<1>12. Spelled'
  <2>1. ASSUME NEW word \in 1 .. buffer_length PROVE \E s : Taken(s, word, Used(word))'
    <3>1. PICK s : Taken(s, word, Used(word))
      BY DEF Inv, Spelled
    <3>2. Used(word)' = Used(word)
      BY <1>1, <1>7 DEF Used
    <3>3. Taken(s, word, Used(word))'
      BY <1>7, <1>10, <3>1, <3>2, TakenKept
    <3> QED
      BY <3>3
  <2> QED
    BY <2>1 DEF Spelled, buffer_length
<1>13. Packed(t + 1)'
  <2>1. code_i' = buffer_length + 3 * (t + 1) /\ Len(code') = l + 2 * (t + 1)
    BY <1>1, <1>3, <1>4, <1>5, <1>7, <1>9
  <2>2. ASSUME NEW g \in 0 .. (t + 1) - 1
        PROVE  LET rest == Rest(word_buffer[3 * g + 1], word_buffer[3 * g + 2],
                             word_buffer[3 * g + 3])
               IN  code'[l + 2 * g + 1] = rest[1] /\ code'[l + 2 * g + 2] = rest[2]
    <3>1. CASE g = t
      BY <1>11, <3>1 DEF r, a, b, c
    <3>2. CASE g # t
      <4>1. g \in 0 .. t - 1
        BY <1>5, <3>2
      <4>2. l + 2 * g + 1 \in 1 .. Len(code) /\ l + 2 * g + 2 \in 1 .. Len(code)
        BY <1>3, <1>4, <1>5, <4>1
      <4>3. LET rest == Rest(word_buffer[3 * g + 1], word_buffer[3 * g + 2],
                             word_buffer[3 * g + 3])
            IN  code[l + 2 * g + 1] = rest[1] /\ code[l + 2 * g + 2] = rest[2]
        BY <1>2, <1>3, <4>1 DEF Packed
      <4> QED
        BY <1>10, <4>2, <4>3
    <3> QED
      BY <3>1, <3>2
  <2> QED
    BY <1>3, <1>7, <2>1, <2>2 DEF Packed, buffer_length
<1>14. ~(code_i' < buffer_length) /\ code_i' \in Nat /\ code_j' = 0 /\ code_j' \in 0 .. Rounds
  BY <1>1, <1>7
<1>15. /\ random' \in [1 .. buffer_length -> Words] /\ word_buffer' \in [1 .. buffer_length -> Nat]
  BY <1>7 DEF Inv
<1>16. code_i' >= buffer_length => code_j' = 0 /\ \E u \in 0 .. Triples : Packed(u)'
  BY <1>5, <1>13, <1>14
<1> QED
  BY <1>9, <1>12, <1>14, <1>15, <1>16 DEF Inv, buffer_length

LEMMA InvKept == AuthorizationCodeAssumption /\ Inv /\ [CodeNext]_codeVars => Inv'
<1> SUFFICES ASSUME AuthorizationCodeAssumption, Inv, [CodeNext]_codeVars PROVE Inv'
  OBVIOUS
<1>1. CASE Spell
  BY <1>1, CharacterKeeps, NextWordKeeps
<1>2. CASE Pack
  BY <1>2, PackKeeps
<1>3. CASE UNCHANGED codeVars
  <2>1. /\ random' = random /\ word_buffer' = word_buffer /\ code' = code
        /\ code_i' = code_i /\ code_j' = code_j
    BY <1>3 DEF codeVars
  <2>2. Spelled'
    <3>1. ASSUME NEW word \in 1 .. buffer_length PROVE \E s : Taken(s, word, Used(word))'
      <4>1. PICK s : Taken(s, word, Used(word))
        BY DEF Inv, Spelled
      <4>2. Used(word)' = Used(word)
        BY <2>1 DEF Used
      <4>3. Taken(s, word, Used(word))'
        BY <2>1, <4>1, <4>2, TakenKept
      <4> QED
        BY <4>3
    <3> QED
      BY <3>1 DEF Spelled, buffer_length
  <2>3. \A t \in 0 .. Triples : Packed(t) => Packed(t)'
    BY <2>1 DEF Packed, buffer_length
  <2> QED
    BY <2>1, <2>2, <2>3 DEF Inv, buffer_length
<1> QED
  BY <1>1, <1>2, <1>3 DEF CodeNext

(* The invariant of the two loops of get_authorization_code.               *)
THEOREM Invariance == ASSUME AuthorizationCodeAssumption PROVE CodeSpec => []Inv
<1>1. AuthorizationCodeAssumption /\ CodeInit => Inv
  BY InvInitial
<1>2. AuthorizationCodeAssumption /\ Inv /\ [CodeNext]_codeVars => Inv'
  BY InvKept
<1> QED
  BY <1>1, <1>2, PTL DEF CodeSpec

-----------------------------------------------------------------------------
(* The words can be read back                                              *)

(* The last bits of a word, from the pair of characters of its group.      *)
LEMMA LeftIsRest ==
  ASSUME AuthorizationCodeAssumption, Inv, code_i >= buffer_length, Packed(Triples),
         NEW word \in 1 .. buffer_length
  PROVE  Left(word) = word_buffer[word]
<1> DEFINE g == (word - 1) \div 3
           l == buffer_length * Rounds
           a == word_buffer[3 * g + 1]
           b == word_buffer[3 * g + 2]
           c == word_buffer[3 * g + 3]
<1>1. Triples \in Nat \ {0} /\ buffer_length = 3 * Triples
  BY Sizes
<1>2. /\ g \in 0 .. Triples - 1
      /\ \/ word = 3 * g + 1 /\ word % 3 = 1
         \/ word = 3 * g + 2 /\ word % 3 = 2
         \/ word = 3 * g + 3 /\ word % 3 = 0
  BY <1>1
<1>3. Left(word) = CASE word % 3 = 1 -> Value(code[l + 2 * g + 1]) % 16
                     [] word % 3 = 2 -> 4 * (Value(code[l + 2 * g + 1]) \div 16)
                                          + Value(code[l + 2 * g + 2]) \div 16
                     [] word % 3 = 0 -> Value(code[l + 2 * g + 2]) % 16
  BY DEF Left
<1> HIDE DEF g, l
<1>4. code[l + 2 * g + 1] = Rest(a, b, c)[1] /\ code[l + 2 * g + 2] = Rest(a, b, c)[2]
  BY <1>2 DEF Packed, l
<1>5. a \in 0 .. 15 /\ b \in 0 .. 15 /\ c \in 0 .. 15
  <2>1. /\ 3 * g + 1 \in 1 .. buffer_length /\ 3 * g + 2 \in 1 .. buffer_length
        /\ 3 * g + 3 \in 1 .. buffer_length
    BY <1>1, <1>2
  <2> QED
    BY <2>1, LeftOver
<1> HIDE DEF a, b, c
<1>6. /\ Value(code[l + 2 * g + 1]) = One(a, b) /\ Value(code[l + 2 * g + 2]) = Two(b, c)
  <2>1. /\ Value(Rest(a, b, c)[1]) = One(a, b) /\ Value(Rest(a, b, c)[2]) = Two(b, c)
    BY <1>5, RestIs
  <2> QED
    BY <1>4, <2>1
<1>7. /\ One(a, b) % 16 = a /\ Two(b, c) % 16 = c
      /\ 4 * (One(a, b) \div 16) + Two(b, c) \div 16 = b
  BY <1>5, ReadApart
<1>8. CASE word % 3 = 1
  <2>1. word = 3 * g + 1
    BY <1>2, <1>8
  <2> QED
    BY <1>3, <1>6, <1>7, <1>8, <2>1 DEF a
<1>9. CASE word % 3 = 2
  <2>1. word = 3 * g + 2
    BY <1>2, <1>9
  <2>2. word % 3 # 1
    BY <1>9
  <2>3. Left(word) = 4 * (One(a, b) \div 16) + Two(b, c) \div 16
    BY <1>3, <1>6, <1>9, <2>2
  <2> QED
    BY <1>7, <2>1, <2>3 DEF b
<1>10. CASE word % 3 = 0
  <2>1. word = 3 * g + 3
    BY <1>2, <1>10
  <2>2. word % 3 # 1 /\ word % 3 # 2
    BY <1>10
  <2>3. Left(word) = Two(b, c) % 16
    BY <1>3, <1>6, <1>10, <2>2
  <2> QED
    BY <1>7, <2>1, <2>3 DEF c
<1> QED
  BY <1>2, <1>8, <1>9, <1>10

(* Reading goes back over what was taken from the word.                    *)
LEMMA WordReadBack ==
  ASSUME AuthorizationCodeAssumption, Inv, code_i >= buffer_length, Packed(Triples),
         NEW word \in 1 .. buffer_length
  PROVE  ReadBack(word) = random[word]
<1> DEFINE R == Rounds
           Fits(f) == f = [k \in 0 .. R |-> IF k = 0 THEN Left(word)
                                            ELSE Digit(word, R - k + 1) + 64 * f[k - 1]]
           read == CHOOSE f : Fits(f)
<1>1. R \in Nat
  BY Sizes
<1>2. PICK s : Taken(s, word, R)
  <2>1. Used(word) = R
    BY LeftOver
  <2> QED
    BY <2>1 DEF Inv, Spelled
<1>3. /\ s \in [0 .. R -> Nat] /\ s[0] = random[word] /\ s[R] = Left(word)
      /\ \A k \in 1 .. R : Digit(word, k) = s[k - 1] % 64 /\ s[k] = s[k - 1] \div 64
  BY <1>2, LeftIsRest DEF Taken
<1>4. \A k \in 1 .. R : s[k - 1] = Digit(word, k) + 64 * s[k]
  <2> TAKE k \in 1 .. R
  <2>1. s[k - 1] \in Nat
    BY <1>1, <1>3
  <2> DEFINE x == s[k - 1]
  <2>2. x \in Nat /\ Digit(word, k) = x % 64 /\ s[k] = x \div 64
    BY <1>3, <2>1
  <2> HIDE DEF x
  <2>3. x = (x % 64) + 64 * (x \div 64)
    BY <2>2
  <2> QED
    BY <2>2, <2>3 DEF x
<1> HIDE DEF R
<1> DEFINE f == [k \in 0 .. R |-> s[R - k]]
<1>5. ASSUME NEW k \in 0 .. R
      PROVE  /\ f[k] = s[R - k]
             /\ f[k] = IF k = 0 THEN Left(word) ELSE Digit(word, R - k + 1) + 64 * f[k - 1]
  <2>1. f[k] = s[R - k]
    OBVIOUS
  <2>2. CASE k = 0
    <3>1. R - k = R
      BY <1>1, <2>2
    <3> QED
      BY <1>3, <2>1, <2>2, <3>1
  <2>3. CASE k # 0
    <3>1. k - 1 \in 0 .. R /\ R - k + 1 \in 1 .. R /\ (R - k + 1) - 1 = R - k
          /\ R - (k - 1) = R - k + 1
      BY <1>1, <2>3
    <3>2. f[k - 1] = s[R - k + 1]
      BY <3>1
    <3> HIDE DEF f
    <3>3. s[R - k] = Digit(word, R - k + 1) + 64 * s[R - k + 1]
      BY <1>4, <3>1
    <3> QED
      BY <2>1, <2>3, <3>2, <3>3
  <2> QED
    BY <2>1, <2>2, <2>3
<1>6. f = [k \in 0 .. R |-> f[k]]
  OBVIOUS
<1>7. \A k \in 0 .. R : f[k] = s[R - k]
  BY <1>5
<1> HIDE DEF f
<1>8. Fits(f)
  BY <1>5, <1>6, Zenon
<1>9. ReadBack(word) = read[R]
  BY DEF ReadBack, R
<1>10. Fits(read)
  <2> HIDE DEF Fits
  <2> QED
    BY <1>8, Zenon
<1> HIDE DEF read
<1>11. \A k \in 0 .. R :
         read[k] = IF k = 0 THEN Left(word) ELSE Digit(word, R - k + 1) + 64 * read[k - 1]
  BY <1>10, Zenon
<1> DEFINE T == {k \in 0 .. R : read[k] # f[k]}
<1>12. T = {}
  <2> SUFFICES ASSUME T # {} PROVE FALSE
    OBVIOUS
  <2>1. T \subseteq Nat
    BY <1>1
  <2>2. PICK k \in T : \A m \in T : k <= m
    <3> HIDE DEF T
    <3> QED
      BY <2>1, Least
  <2>3. k \in 0 .. R /\ read[k] # f[k]
    OBVIOUS
  <2>4. k # 0
    BY <1>5, <1>11, <2>3
  <2>5. k - 1 \in 0 .. R /\ ~(k <= k - 1)
    BY <1>1, <2>3, <2>4
  <2>6. read[k - 1] = f[k - 1]
    BY <2>2, <2>5
  <2>7. read[k] = Digit(word, R - k + 1) + 64 * read[k - 1]
    BY <1>11, <2>3, <2>4
  <2>8. f[k] = Digit(word, R - k + 1) + 64 * f[k - 1]
    BY <1>5, <2>3, <2>4
  <2> QED
    BY <2>3, <2>6, <2>7, <2>8
<1>13. R \in 0 .. R /\ R - R = 0
  BY <1>1
<1> QED
  BY <1>3, <1>7, <1>9, <1>12, <1>13

(* The authorization code has every bit of the random words, for codes of  *)
(* any length and words of any width that leave four bits: no two draws of *)
(* getrandom give the same code.                                           *)
THEOREM NoBitIsLost == ASSUME AuthorizationCodeAssumption PROVE CodeSpec => []NoBitLost
<1>1. AuthorizationCodeAssumption /\ Inv => NoBitLost
  <2> SUFFICES ASSUME AuthorizationCodeAssumption, Inv, code_i = 2 * buffer_length
               PROVE  /\ Len(code) = Triples * (3 * Rounds + 2)
                      /\ \A word \in 1 .. buffer_length : ReadBack(word) = random[word]
    BY DEF NoBitLost
  <2>1. /\ Rounds \in Nat /\ Triples \in Nat \ {0} /\ buffer_length \in Nat
        /\ buffer_length = 3 * Triples
    BY Sizes
  <2>2. code_i >= buffer_length
    BY <2>1
  <2>3. PICK t \in 0 .. Triples : Packed(t)
    BY <2>2 DEF Inv
  <2>4. t = Triples
    BY <2>1, <2>3 DEF Packed
  <2>5. Packed(Triples)
    BY <2>3, <2>4
  <2>6. Len(code) = Triples * (3 * Rounds + 2)
    <3>1. Len(code) = (3 * Triples) * Rounds + 2 * Triples
      BY <2>1, <2>5 DEF Packed
    <3>2. (3 * Triples) * Rounds + 2 * Triples = Triples * (3 * Rounds + 2)
      BY <2>1
    <3> QED
      BY <3>1, <3>2
  <2> QED
    BY <2>2, <2>5, <2>6, WordReadBack
<1> QED
  BY <1>1, Invariance, PTL

=============================================================================
