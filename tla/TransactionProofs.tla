------------------------- MODULE TransactionProofs -------------------------
(***************************************************************************)
(* Proofs about Transaction and the header list of HttpResponse, for files *)
(* of every size and every number and order of requests on a connection,   *)
(* and about the same structure in memory, ResponseObject.                 *)
(***************************************************************************)
EXTENDS Transaction, ResponseObject, SequenceTheorems, FiniteSetTheorems, WellFoundedInduction,
        TLAPS

Header == [key : Keys, value : Seq(Int)]

LEMMA KeyNumbers == Keys \subseteq Nat
BY DEF Keys, ContentLength, ContentRange, Location, ServerHeader

LEMMA HeaderParts ==
  ASSUME NEW h \in Seq(Header)
  PROVE  /\ Len(h) \in Nat /\ DOMAIN h = 1 .. Len(h)
         /\ \A j \in 1 .. Len(h) : h[j] \in Header /\ h[j].key \in Nat
<1>1. Len(h) \in Nat /\ DOMAIN h = 1 .. Len(h)
  BY LenProperties
<1>2. \A j \in 1 .. Len(h) : h[j] \in Header
  BY ElementOfSeq
<1>3. \A x \in Header : x.key \in Nat
  BY KeyNumbers DEF Header
<1> QED
  BY <1>1, <1>2, <1>3

-----------------------------------------------------------------------------
(* The header list                                                         *)

LEMMA Least ==
  ASSUME NEW T, T \subseteq Nat, T # {}
  PROVE  \E x \in T : \A y \in T : x <= y
<1>1. PICK x \in T : \A y \in T : ~(<<y, x>> \in OpToRel(<, Nat))
  BY NatLessThanWellFounded, WFMin
<1>2. \A y \in T : ~(y < x)
  BY <1>1 DEF OpToRel
<1> QED
  BY <1>2

(* lookup_header splits the list at the key it looks for.                  *)
LEMMA PlaceSplits ==
  ASSUME NEW h \in Seq(Header), NEW key \in Keys, StrictlySorted(h)
  PROVE  /\ Place(h, key) \in 1 .. Len(h) + 1
         /\ \A j \in 1 .. Place(h, key) - 1 : h[j].key < key
         /\ \A j \in Place(h, key) .. Len(h) : h[j].key >= key
         /\ \A j \in Place(h, key) + 1 .. Len(h) : h[j].key > key
<1> DEFINE n == Len(h)
           T == {i \in 1 .. n + 1 : i <= n => h[i].key >= key}
           At(i) == /\ \A j \in 1 .. i - 1 : h[j].key < key
                    /\ i <= Len(h) => h[i].key >= key
           p == Place(h, key)
<1>1. n \in Nat /\ DOMAIN h = 1 .. n /\ key \in Nat /\ \A j \in 1 .. n : h[j].key \in Nat
  BY HeaderParts, KeyNumbers
<1>2. PICK x \in T : \A y \in T : x <= y
  <2>1. T \subseteq Nat /\ n + 1 \in T
    BY <1>1
  <2> QED
    BY <2>1, Least
<1>3. x \in 1 .. Len(h) + 1 /\ At(x)
  <2>1. ASSUME NEW j \in 1 .. x - 1 PROVE h[j].key < key
    <3>1. j \in 1 .. n /\ ~(x <= j)
      BY <1>1
    <3>2. j \notin T
      BY <1>2, <3>1
    <3> QED
      BY <1>1, <3>1, <3>2
  <2> QED
    BY <2>1
<1>4. p = CHOOSE i \in 1 .. Len(h) + 1 : At(i)
  BY DEF Place
<1> HIDE DEF p, At
<1>5. p \in 1 .. n + 1 /\ At(p)
  BY <1>3, <1>4
<1>6. ASSUME NEW j \in p + 1 .. n PROVE h[j].key > key
  <2>1. p \in 1 .. n /\ j \in 1 .. n /\ p < j
    BY <1>1, <1>5
  <2>2. h[p].key < h[j].key
    BY <1>1, <2>1 DEF StrictlySorted
  <2>3. h[p].key >= key
    BY <1>5, <2>1 DEF At
  <2> QED
    BY <1>1, <2>1, <2>2, <2>3
<1>7. ASSUME NEW j \in p .. n PROVE h[j].key >= key
  <2>1. j = p \/ j \in p + 1 .. n
    BY <1>1, <1>5
  <2>2. j \in 1 .. n
    BY <1>1, <1>5
  <2> QED
    BY <1>1, <1>5, <1>6, <2>1, <2>2 DEF At
<1> QED
  BY <1>5, <1>6, <1>7 DEF p, At

(* http_response_set_header on the list alone.                             *)
WithHeader(h, key, value) ==
  LET at  == Place(h, key)
      hit == at <= Len(h) /\ h[at].key = key
  IN  SubSeq(h, 1, at - 1) \o <<[key |-> key, value |-> value]>>
        \o SubSeq(h, IF hit THEN at + 1 ELSE at, Len(h))

LEMMA SetHeaderIs ==
  ASSUME NEW r, NEW key, NEW value
  PROVE  SetHeader(r, key, value)
           = [r EXCEPT !.headers = WithHeader(r.headers, key, value)]
BY DEF SetHeader, WithHeader

(* The new list, place by place: d is 1 when a value is replaced.          *)
LEMMA WithHeaderIs ==
  ASSUME NEW h \in Seq(Header), NEW key \in Keys, NEW value \in Seq(Int),
         StrictlySorted(h)
  PROVE  LET p == Place(h, key)
             d == IF p <= Len(h) /\ h[p].key = key THEN 1 ELSE 0
             g == WithHeader(h, key, value)
         IN  /\ g \in Seq(Header) /\ Len(g) = Len(h) + 1 - d
             /\ \A i \in 1 .. p - 1 : g[i] = h[i]
             /\ g[p] = [key |-> key, value |-> value]
             /\ \A i \in p + 1 .. Len(h) + 1 - d : g[i] = h[i - 1 + d]
             /\ \A j \in p + d .. Len(h) : h[j].key > key
<1> DEFINE n == Len(h)
           p == Place(h, key)
           d == IF p <= n /\ h[p].key = key THEN 1 ELSE 0
           new == [key |-> key, value |-> value]
           one == <<new>>
           g == WithHeader(h, key, value)
           a == SubSeq(h, 1, p - 1)
           b == SubSeq(h, p + d, n)
<1>1. n \in Nat /\ \A j \in 1 .. n : h[j] \in Header /\ h[j].key \in Nat /\ key \in Nat
  BY HeaderParts, KeyNumbers
<1>2. p \in 1 .. n + 1 /\ d \in {0, 1} /\ (d = 1 => p <= n)
  BY <1>1, PlaceSplits
<1>3. one \in Seq(Header) /\ Len(one) = 1 /\ one[1] = new
  BY DEF Header
<1>4. g = (a \o one) \o b
  <2>1. CASE p <= n /\ h[p].key = key
    BY <2>1 DEF WithHeader
  <2>2. CASE ~(p <= n /\ h[p].key = key)
    <3>1. p + d = p
      BY <1>2, <2>2
    <3> QED
      BY <2>2, <3>1 DEF WithHeader
  <2> QED
    BY <2>1, <2>2
<1>5. \A j \in p + d .. n : h[j].key > key
  <2> SUFFICES ASSUME NEW j \in p + d .. n PROVE h[j].key > key
    OBVIOUS
  <2>1. j \in p .. n /\ j \in 1 .. n
    BY <1>1, <1>2
  <2>2. CASE j = p
    <3>1. d # 1
      BY <1>1, <1>2, <2>2
    <3>2. h[p].key >= key /\ h[p].key # key
      BY <1>2, <2>1, <2>2, <3>1, PlaceSplits
    <3> QED
      BY <1>1, <2>1, <2>2, <3>2
  <2>3. CASE j # p
    <3>1. j \in p + 1 .. n
      BY <1>1, <1>2, <2>1, <2>3
    <3> QED
      BY <3>1, PlaceSplits
  <2> QED
    BY <2>2, <2>3
<1> HIDE DEF p, d, new, one, g
<1>6. /\ a \in Seq(Header) /\ Len(a) = p - 1 /\ \A i \in 1 .. p - 1 : a[i] = h[i]
  <2> DEFINE e == p - 1
  <2>1. e \in Int /\ e <= n /\ 1 \in Int /\ (1 <= e \/ e = 0)
    BY <1>1, <1>2
  <2>2. \A i \in 1 .. e : h[i] \in Header
    BY <1>1, <2>1
  <2> HIDE DEF e
  <2>3. /\ SubSeq(h, 1, e) \in Seq(Header)
        /\ Len(SubSeq(h, 1, e)) = IF 1 <= e THEN e - 1 + 1 ELSE 0
        /\ \A i \in 1 .. e - 1 + 1 : SubSeq(h, 1, e)[i] = h[1 + i - 1]
    BY <2>1, <2>2, SubSeqProperties
  <2>4. \A i \in 1 .. e : i \in 1 .. e - 1 + 1 /\ 1 + i - 1 = i
    BY <2>1
  <2>5. Len(SubSeq(h, 1, e)) = e
    BY <2>1, <2>3
  <2> QED
    BY <2>3, <2>4, <2>5 DEF e
<1>7. /\ b \in Seq(Header) /\ Len(b) = n + 1 - (p + d)
      /\ \A i \in 1 .. n + 1 - (p + d) : b[i] = h[p + d + i - 1]
  <2> DEFINE s == p + d
  <2>1. s \in Int /\ s >= 1 /\ s <= n + 1 /\ n \in Int
    BY <1>1, <1>2
  <2>2. \A i \in s .. n : h[i] \in Header
    BY <1>1, <2>1
  <2> HIDE DEF s
  <2>3. /\ SubSeq(h, s, n) \in Seq(Header)
        /\ Len(SubSeq(h, s, n)) = IF s <= n THEN n - s + 1 ELSE 0
        /\ \A i \in 1 .. n - s + 1 : SubSeq(h, s, n)[i] = h[s + i - 1]
    BY <2>1, <2>2, SubSeqProperties
  <2>4. Len(SubSeq(h, s, n)) = n + 1 - s /\ n - s + 1 = n + 1 - s
    BY <2>1, <2>3
  <2> QED
    BY <2>3, <2>4 DEF s
<1> HIDE DEF a, b
<1>8. /\ a \o one \in Seq(Header) /\ Len(a \o one) = p
      /\ \A i \in 1 .. p - 1 : (a \o one)[i] = h[i]
      /\ (a \o one)[p] = new
  <2>1. a \in Seq(Header) /\ one \in Seq(Header)
    BY <1>3, <1>6
  <2>2. /\ a \o one \in Seq(Header) /\ Len(a \o one) = Len(a) + Len(one)
        /\ \A i \in 1 .. Len(a) + Len(one) :
             (a \o one)[i] = IF i <= Len(a) THEN a[i] ELSE one[i - Len(a)]
    BY <2>1, ConcatProperties
  <2>3. \A i \in 1 .. p - 1 : i \in 1 .. Len(a) + Len(one) /\ i <= Len(a)
    BY <1>2, <1>3, <1>6
  <2>4. /\ p \in 1 .. Len(a) + Len(one) /\ ~(p <= Len(a)) /\ p - Len(a) = 1
        /\ Len(a) + Len(one) = p
    BY <1>2, <1>3, <1>6
  <2> QED
    BY <1>3, <1>6, <2>2, <2>3, <2>4
<1> DEFINE c == a \o one
<1>9. /\ g \in Seq(Header) /\ Len(g) = n + 1 - d
      /\ \A i \in 1 .. n + 1 - d : g[i] = IF i <= p THEN c[i] ELSE b[i - p]
  <2>1. c \in Seq(Header) /\ b \in Seq(Header)
    BY <1>7, <1>8
  <2> HIDE DEF c
  <2>2. /\ c \o b \in Seq(Header) /\ Len(c \o b) = Len(c) + Len(b)
        /\ \A i \in 1 .. Len(c) + Len(b) :
             (c \o b)[i] = IF i <= Len(c) THEN c[i] ELSE b[i - Len(c)]
    BY <2>1, ConcatProperties
  <2>3. Len(c) = p /\ p + (n + 1 - (p + d)) = n + 1 - d
    BY <1>1, <1>2, <1>8 DEF c
  <2>4. g = c \o b
    BY <1>4 DEF c
  <2> QED
    BY <1>7, <2>2, <2>3, <2>4
<1>10. \A i \in 1 .. p - 1 : g[i] = h[i]
  <2>1. \A i \in 1 .. p - 1 : i \in 1 .. n + 1 - d /\ i <= p
    BY <1>1, <1>2
  <2> QED
    BY <1>8, <1>9, <2>1
<1>11. g[p] = new
  <2>1. p \in 1 .. n + 1 - d /\ p <= p
    BY <1>1, <1>2
  <2> QED
    BY <1>8, <1>9, <2>1
<1>12. \A i \in p + 1 .. n + 1 - d : g[i] = h[i - 1 + d]
  <2>1. \A i \in p + 1 .. n + 1 - d :
          /\ i \in 1 .. n + 1 - d /\ ~(i <= p) /\ i - p \in 1 .. n + 1 - (p + d)
          /\ p + d + (i - p) - 1 = i - 1 + d
    BY <1>1, <1>2
  <2> QED
    BY <1>7, <1>9, <2>1
<1> QED
  BY <1>5, <1>9, <1>10, <1>11, <1>12 DEF p, d, g, new

(* In a sorted list the key's only entry has the value.                    *)
LEMMA ValueAt ==
  ASSUME NEW h \in Seq(Header), StrictlySorted(h), NEW i \in 1 .. Len(h)
  PROVE  HasKey(h, h[i].key) /\ ValueOf(h, h[i].key) = h[i].value
<1> DEFINE c == CHOOSE j \in DOMAIN h : h[j].key = h[i].key
<1>1. /\ DOMAIN h = 1 .. Len(h) /\ Len(h) \in Nat
      /\ \A j \in 1 .. Len(h) : h[j].key \in Nat
  BY HeaderParts
<1>2. c \in 1 .. Len(h) /\ h[c].key = h[i].key
  BY <1>1
<1> HIDE DEF c
<1>3. c = i
  <2>1. ~(c < i) /\ ~(i < c)
    BY <1>1, <1>2 DEF StrictlySorted
  <2> QED
    BY <1>1, <1>2, <2>1
<1> QED
  BY <1>1, <1>3 DEF HasKey, ValueOf, c

LEMMA WithHeaderSorted ==
  ASSUME NEW h \in Seq(Header), NEW key \in Keys, NEW value \in Seq(Int),
         StrictlySorted(h)
  PROVE  StrictlySorted(WithHeader(h, key, value))
<1> DEFINE n == Len(h)
           p == Place(h, key)
           d == IF p <= n /\ h[p].key = key THEN 1 ELSE 0
           g == WithHeader(h, key, value)
           m == n + 1 - d
<1>1. n \in Nat /\ p \in 1 .. n + 1 /\ d \in {0, 1} /\ m \in Nat /\ (d = 1 => p <= n)
  BY HeaderParts, PlaceSplits
<1>2. /\ key \in Nat /\ \A j \in 1 .. n : h[j].key \in Nat
      /\ \A i, j \in 1 .. n : i < j => h[i].key < h[j].key
      /\ \A j \in 1 .. p - 1 : h[j].key < key
  BY HeaderParts, KeyNumbers, PlaceSplits DEF StrictlySorted
<1>3. /\ g \in Seq(Header) /\ Len(g) = m
      /\ \A i \in 1 .. p - 1 : g[i] = h[i]
      /\ g[p] = [key |-> key, value |-> value]
      /\ \A i \in p + 1 .. m : g[i] = h[i - 1 + d]
      /\ \A j \in p + d .. n : h[j].key > key
  BY WithHeaderIs
<1>4. DOMAIN g = 1 .. m
  BY <1>3, HeaderParts
<1> HIDE DEF n, p, d, g, m
<1>5. m = n + 1 - d
  BY DEF m
<1> SUFFICES ASSUME NEW i \in 1 .. m, NEW j \in 1 .. m, i < j
             PROVE  g[i].key < g[j].key
  BY <1>4 DEF StrictlySorted, g
<1>6. CASE j < p
  <2>1. i \in 1 .. p - 1 /\ j \in 1 .. p - 1 /\ i \in 1 .. n /\ j \in 1 .. n
    BY <1>1, <1>6
  <2> QED
    BY <1>2, <1>3, <2>1
<1>7. CASE j = p
  <2>1. i \in 1 .. p - 1
    BY <1>1, <1>7
  <2> QED
    BY <1>2, <1>3, <1>7, <2>1
<1>8. CASE j > p /\ i < p
  <2>1. i \in 1 .. p - 1 /\ i \in 1 .. n /\ j \in p + 1 .. m /\ j - 1 + d \in 1 .. n
        /\ i < j - 1 + d
    BY <1>1, <1>5, <1>8
  <2> QED
    BY <1>2, <1>3, <2>1
<1>9. CASE j > p /\ i = p
  <2>1. j \in p + 1 .. m /\ j - 1 + d \in p + d .. n
    BY <1>1, <1>5, <1>9
  <2>2. g[j] = h[j - 1 + d] /\ h[j - 1 + d].key > key /\ j - 1 + d \in 1 .. n
    BY <1>1, <1>3, <2>1
  <2> QED
    BY <1>2, <1>3, <1>9, <2>2
<1>10. CASE j > p /\ i > p
  <2>1. /\ i \in p + 1 .. m /\ j \in p + 1 .. m /\ i - 1 + d \in 1 .. n
        /\ j - 1 + d \in 1 .. n /\ i - 1 + d < j - 1 + d
    BY <1>1, <1>5, <1>10
  <2> QED
    BY <1>2, <1>3, <2>1
<1> QED
  BY <1>1, <1>6, <1>7, <1>8, <1>9, <1>10

(* The value is found under its key, and the other keys are left alone.    *)
LEMMA WithHeaderValues ==
  ASSUME NEW h \in Seq(Header), NEW key \in Keys, NEW value \in Seq(Int),
         StrictlySorted(h)
  PROVE  LET g == WithHeader(h, key, value)
         IN  /\ g \in Seq(Header) /\ StrictlySorted(g)
             /\ HasKey(g, key) /\ ValueOf(g, key) = value
             /\ \A k \in Keys \ {key} :
                  HasKey(h, k) => HasKey(g, k) /\ ValueOf(g, k) = ValueOf(h, k)
<1> DEFINE n == Len(h)
           p == Place(h, key)
           d == IF p <= n /\ h[p].key = key THEN 1 ELSE 0
           g == WithHeader(h, key, value)
           m == n + 1 - d
<1>1. /\ n \in Nat /\ DOMAIN h = 1 .. n /\ p \in 1 .. n + 1 /\ d \in {0, 1}
      /\ (d = 1 => p <= n /\ h[p].key = key) /\ m \in Nat
  BY HeaderParts, PlaceSplits
<1>2. /\ g \in Seq(Header) /\ Len(g) = m
      /\ \A i \in 1 .. p - 1 : g[i] = h[i]
      /\ g[p] = [key |-> key, value |-> value]
      /\ \A i \in p + 1 .. m : g[i] = h[i - 1 + d]
  BY WithHeaderIs
<1>3. StrictlySorted(g)
  BY WithHeaderSorted
<1> HIDE DEF n, p, d, g, m
<1>4. m = n + 1 - d
  BY DEF m
<1>5. HasKey(g, key) /\ ValueOf(g, key) = value
  <2>1. p \in 1 .. Len(g)
    BY <1>1, <1>2, <1>4
  <2>2. HasKey(g, g[p].key) /\ ValueOf(g, g[p].key) = g[p].value
    BY <1>2, <1>3, <2>1, ValueAt
  <2> QED
    BY <1>2, <2>2
<1>6. ASSUME NEW k \in Keys \ {key}, HasKey(h, k)
      PROVE  HasKey(g, k) /\ ValueOf(g, k) = ValueOf(h, k)
  <2>1. PICK j \in 1 .. n : h[j].key = k
    BY <1>1, <1>6 DEF HasKey
  <2>2. ValueOf(h, k) = h[j].value
    <3>1. j \in 1 .. Len(h)
      BY DEF n
    <3> QED
      BY <2>1, <3>1, ValueAt
  <2>3. PICK i \in 1 .. m : g[i] = h[j]
    <3>1. CASE j < p
      <4>1. j \in 1 .. p - 1 /\ j \in 1 .. m
        BY <1>1, <1>4, <3>1
      <4> QED
        BY <1>2, <4>1
    <3>2. CASE ~(j < p)
      <4>1. j # p \/ d = 0
        BY <1>1, <1>6, <2>1
      <4> DEFINE i == j + 1 - d
      <4>2. i \in p + 1 .. m /\ i - 1 + d = j /\ i \in 1 .. m
        BY <1>1, <1>4, <3>2, <4>1
      <4> HIDE DEF i
      <4> QED
        BY <1>2, <4>2
    <3> QED
      BY <3>1, <3>2
  <2>4. HasKey(g, g[i].key) /\ ValueOf(g, g[i].key) = g[i].value
    BY <1>2, <1>3, ValueAt
  <2> QED
    BY <2>1, <2>2, <2>3, <2>4
<1> QED
  BY <1>2, <1>3, <1>5, <1>6 DEF g

-----------------------------------------------------------------------------
(* The response object                                                     *)

Response ==
  [code : Codes, description : Codes \union {""}, headers : Seq(Header),
   body : [allocated : BOOLEAN, length : 0 .. MaxSize + 1]]

(* A response with a body has that body's Content-Length, from whichever   *)
(* request the body was left.                                              *)
LengthTold(r) ==
  HasKey(r.headers, ContentLength) /\ ValueOf(r.headers, ContentLength) = <<r.body.length>>

Sound(r) ==
  /\ r \in Response
  /\ StrictlySorted(r.headers)
  /\ r.body.length # 0 => LengthTold(r)

LEMMA KeysDiffer ==
  /\ {ContentLength, ContentRange, Location, ServerHeader} = Keys
  /\ ContentLength \notin {ContentRange, Location, ServerHeader}
  /\ ContentRange \notin {ContentLength, Location, ServerHeader}
BY DEF Keys, ContentLength, ContentRange, Location, ServerHeader

LEMMA SetHeaderFacts ==
  ASSUME NEW r \in Response, StrictlySorted(r.headers),
         NEW key \in Keys, NEW value \in Seq(Int)
  PROVE  LET s == SetHeader(r, key, value)
         IN  /\ s \in Response /\ StrictlySorted(s.headers)
             /\ s.code = r.code /\ s.description = r.description /\ s.body = r.body
             /\ HasKey(s.headers, key) /\ ValueOf(s.headers, key) = value
             /\ \A k \in Keys \ {key} :
                  HasKey(r.headers, k) =>
                    HasKey(s.headers, k) /\ ValueOf(s.headers, k) = ValueOf(r.headers, k)
<1> DEFINE g == WithHeader(r.headers, key, value)
           s == SetHeader(r, key, value)
<1>1. r.headers \in Seq(Header)
  BY DEF Response
<1>2. /\ g \in Seq(Header) /\ StrictlySorted(g)
      /\ HasKey(g, key) /\ ValueOf(g, key) = value
      /\ \A k \in Keys \ {key} :
           HasKey(r.headers, k) => HasKey(g, k) /\ ValueOf(g, k) = ValueOf(r.headers, k)
  BY <1>1, WithHeaderValues
<1>3. s = [r EXCEPT !.headers = g]
  BY SetHeaderIs
<1> HIDE DEF g, s
<1>4. /\ s \in Response /\ s.headers = g /\ s.code = r.code
      /\ s.description = r.description /\ s.body = r.body
  BY <1>2, <1>3 DEF Response
<1> QED
  BY <1>2, <1>4 DEF s

LEMMA SetCodeSound ==
  ASSUME NEW r, Sound(r), NEW code \in Codes
  PROVE  LET s == SetCode(r, code)
         IN  /\ Sound(s) /\ s.code = code /\ s.headers = r.headers /\ s.body = r.body
<1> DEFINE s == SetCode(r, code)
<1>1. /\ s \in Response /\ s.code = code /\ s.headers = r.headers /\ s.body = r.body
  BY DEF SetCode, Sound, Response
<1> HIDE DEF s
<1>2. Sound(s)
  BY <1>1 DEF Sound, LengthTold
<1> QED
  BY <1>1, <1>2 DEF s

(* A header other than Content-Length leaves what is said of the body.     *)
LEMMA SetHeaderSound ==
  ASSUME NEW r, Sound(r), NEW key \in Keys \ {ContentLength}, NEW value \in Seq(Int)
  PROVE  Sound(SetHeader(r, key, value))
<1> DEFINE s == SetHeader(r, key, value)
<1>1. r \in Response /\ StrictlySorted(r.headers) /\ key \in Keys
  BY DEF Sound
<1>2. /\ s \in Response /\ StrictlySorted(s.headers) /\ s.body = r.body
      /\ \A k \in Keys \ {key} :
           HasKey(r.headers, k) =>
             HasKey(s.headers, k) /\ ValueOf(s.headers, k) = ValueOf(r.headers, k)
  BY <1>1, SetHeaderFacts
<1>3. ContentLength \in Keys \ {key}
  BY KeysDiffer
<1> HIDE DEF s
<1>4. Sound(s)
  BY <1>2, <1>3 DEF Sound, LengthTold
<1> QED
  BY <1>4 DEF s

(* http_response_set_body tells the length of the body it sets.            *)
LEMMA SetBodySound ==
  ASSUME NEW r, Sound(r), NEW n \in 0 .. MaxSize + 1
  PROVE  LET s == SetBody(r, n)
         IN  Sound(s) /\ s.body.length = n /\ s.code = r.code
<1> DEFINE q == [r EXCEPT !.body = [allocated |-> TRUE, length |-> n]]
           s == SetBody(r, n)
<1>1. /\ q \in Response /\ StrictlySorted(q.headers) /\ q.code = r.code
      /\ q.body = [allocated |-> TRUE, length |-> n]
  BY DEF Sound, Response
<1>2. ContentLength \in Keys /\ <<n>> \in Seq(Int)
  BY KeysDiffer, TransactionAssumption DEF TransactionAssumption
<1>3. s = SetHeader(q, ContentLength, <<n>>)
  BY DEF SetBody
<1> DEFINE v == <<n>>
<1> HIDE DEF q, s, v
<1>4. /\ s \in Response /\ StrictlySorted(s.headers) /\ s.code = q.code /\ s.body = q.body
      /\ HasKey(s.headers, ContentLength) /\ ValueOf(s.headers, ContentLength) = v
  BY <1>1, <1>2, <1>3, SetHeaderFacts DEF v
<1>5. s.body.length = n
  BY <1>1, <1>4
<1>6. Sound(s)
  BY <1>4, <1>5 DEF Sound, LengthTold, v
<1> QED
  BY <1>1, <1>4, <1>5, <1>6 DEF s

(* http_response_render adds the Content-Length of an empty body.          *)
LEMMA RenderedSound ==
  ASSUME NEW r, Sound(r)
  PROVE  LET s == Rendered(r)
         IN  /\ Sound(s) /\ LengthTold(s) /\ s.code = r.code
             /\ r.body.length # 0 => s = r
<1>1. CASE r.body.length # 0
  <2>1. Rendered(r) = r
    BY <1>1 DEF Rendered
  <2> QED
    BY <1>1, <2>1 DEF Sound
<1>2. CASE r.body.length = 0
  <2> DEFINE s == Rendered(r)
             v == <<0>>
  <2>1. s = SetHeader(r, ContentLength, v)
    BY <1>2 DEF Rendered
  <2>2. /\ r \in Response /\ StrictlySorted(r.headers)
        /\ v \in Seq(Int) /\ ContentLength \in Keys
    BY KeysDiffer DEF Sound
  <2> HIDE DEF s, v
  <2>3. /\ s \in Response /\ StrictlySorted(s.headers) /\ s.code = r.code /\ s.body = r.body
        /\ HasKey(s.headers, ContentLength) /\ ValueOf(s.headers, ContentLength) = v
    BY <2>1, <2>2, SetHeaderFacts
  <2>4. LengthTold(s) /\ Sound(s)
    BY <1>2, <2>3 DEF LengthTold, Sound, v
  <2> QED
    BY <1>2, <2>3, <2>4 DEF s
<1> QED
  BY <1>1, <1>2

-----------------------------------------------------------------------------
(* The responses of the handler                                            *)

(* A 206 says which part it carries, and carries as much.                  *)
PartialTold(r) ==
  r.code = "Partial Content" =>
    /\ HasKey(r.headers, ContentRange)
    /\ LET range == ValueOf(r.headers, ContentRange)
       IN  range[2] + 1 - range[1] = r.body.length

LEMMA SetHeaderPartial ==
  ASSUME NEW r, Sound(r), PartialTold(r), NEW key \in Keys \ {ContentRange},
         NEW value \in Seq(Int)
  PROVE  PartialTold(SetHeader(r, key, value))
<1> DEFINE s == SetHeader(r, key, value)
<1>1. r \in Response /\ StrictlySorted(r.headers) /\ key \in Keys
  BY DEF Sound
<1>2. /\ s.code = r.code /\ s.body = r.body
      /\ \A k \in Keys \ {key} :
           HasKey(r.headers, k) =>
             HasKey(s.headers, k) /\ ValueOf(s.headers, k) = ValueOf(r.headers, k)
  BY <1>1, SetHeaderFacts
<1>3. ContentRange \in Keys \ {key}
  BY KeysDiffer
<1> HIDE DEF s
<1>4. PartialTold(s)
  BY <1>2, <1>3 DEF PartialTold
<1> QED
  BY <1>4 DEF s

LEMMA RenderedPartial ==
  ASSUME NEW r, Sound(r), PartialTold(r)
  PROVE  PartialTold(Rendered(r))
<1>1. CASE r.body.length # 0
  BY <1>1 DEF Rendered
<1>2. CASE r.body.length = 0
  <2> DEFINE v == <<0>>
  <2>1. v \in Seq(Int) /\ ContentLength \in Keys \ {ContentRange}
    BY KeysDiffer
  <2>2. Rendered(r) = SetHeader(r, ContentLength, v)
    BY <1>2 DEF Rendered
  <2> HIDE DEF v
  <2> QED
    BY <2>1, <2>2, SetHeaderPartial
<1> QED
  BY <1>1, <1>2

(* What parse_range hands over is empty or has start < end.                *)
LEMMA FileReadParts ==
  ASSUME NEW q \in FileReads
  PROVE  /\ q.size \in 0 .. MaxSize
         /\ q.range.start \in 0 .. MaxSize + 1 /\ q.range.end \in 0 .. MaxSize + 1
         /\ ~FullRange(q) => q.range.start < q.range.end
<1>1. q.size \in 0 .. MaxSize /\ q.range \in Ranges
  BY DEF FileReads
<1>2. MaxSize \in Nat
  BY TransactionAssumption DEF TransactionAssumption
<1> QED
  BY <1>1, <1>2 DEF Ranges, None, FullRange

LEMMA FileSound ==
  ASSUME NEW r, Sound(r), NEW q \in FileReads
  PROVE  Sound(File(r, q)) /\ PartialTold(File(r, q))
<1> DEFINE first == q.range.start
           end == q.range.end
           length == IF FullRange(q) THEN q.size ELSE end - first
           b == SetBody(r, length)
           v == <<first, end - 1, q.size>>
<1>1. /\ MaxSize \in Nat /\ q.size \in 0 .. MaxSize
      /\ first \in 0 .. MaxSize + 1 /\ end \in 0 .. MaxSize + 1
      /\ ~FullRange(q) => first < end
  BY FileReadParts, TransactionAssumption DEF TransactionAssumption
<1>2. length \in 0 .. MaxSize + 1
  BY <1>1
<1>3. Sound(b) /\ b.body.length = length
  BY <1>2, SetBodySound
<1>4. CASE FullRange(q)
  <2>1. File(r, q) = SetCode(b, "OK")
    BY <1>4 DEF File
  <2>2. Sound(SetCode(b, "OK")) /\ SetCode(b, "OK").code = "OK"
    BY <1>3, SetCodeSound DEF Codes
  <2> QED
    BY <2>1, <2>2 DEF PartialTold
<1>5. CASE ~FullRange(q)
  <2> DEFINE c == SetCode(b, "Partial Content")
             s == SetHeader(c, ContentRange, v)
  <2>1. File(r, q) = s
    BY <1>5 DEF File
  <2>2. Sound(c) /\ c.body.length = length
    BY <1>3, SetCodeSound DEF Codes
  <2>3. v \in Seq(Int) /\ ContentRange \in Keys /\ ContentRange \in Keys \ {ContentLength}
    <3>1. first \in Int /\ end - 1 \in Int /\ q.size \in Int
      BY <1>1
    <3>2. ContentRange \in Keys /\ ContentRange \in Keys \ {ContentLength}
      BY KeysDiffer
    <3> QED
      BY <3>1, <3>2
  <2>4. v[1] = first /\ v[2] = end - 1
    OBVIOUS
  <2>5. length = end - first
    BY <1>5
  <2> HIDE DEF v, c, b, length
  <2>6. Sound(s)
    BY <2>2, <2>3, SetHeaderSound
  <2>7. /\ s.body = c.body /\ HasKey(s.headers, ContentRange)
        /\ ValueOf(s.headers, ContentRange) = v
    BY <2>2, <2>3, SetHeaderFacts DEF Sound
  <2> HIDE DEF s
  <2>8. v[2] + 1 - v[1] = s.body.length
    BY <1>1, <2>2, <2>4, <2>5, <2>7
  <2>9. PartialTold(s)
    BY <2>7, <2>8 DEF PartialTold
  <2> QED
    BY <2>1, <2>6, <2>9
<1> QED
  BY <1>4, <1>5

LEMMA HandledSound ==
  ASSUME NEW r, Sound(r), NEW q \in Requests
  PROVE  Sound(Handled(r, q)) /\ PartialTold(Handled(r, q))
<1>1. ASSUME NEW code \in Codes \ {"Partial Content"}
      PROVE  Sound(SetCode(r, code)) /\ PartialTold(SetCode(r, code))
  BY SetCodeSound DEF PartialTold
<1>2. Sound(Redirect(r)) /\ PartialTold(Redirect(r))
  <2> DEFINE c == SetCode(r, "Moved Permanently")
  <2>1. Sound(c) /\ PartialTold(c)
    BY <1>1 DEF Codes
  <2>2. <<>> \in Seq(Int) /\ Location \in Keys \ {ContentLength}
        /\ Location \in Keys \ {ContentRange}
    BY KeysDiffer, EmptySeq
  <2> HIDE DEF c
  <2>3. Sound(SetHeader(c, Location, <<>>)) /\ PartialTold(SetHeader(c, Location, <<>>))
    BY <2>1, <2>2, SetHeaderSound, SetHeaderPartial
  <2> QED
    BY <2>3 DEF Redirect, c
<1>3. Sound(Magic(r, q)) /\ PartialTold(Magic(r, q))
  <2> DEFINE code == CASE q.code = "absent" -> "Not Found"
                       [] q.code = "wrong" -> "Forbidden"
                       [] q.code = "right" /\ q.call # "other" -> "No Content"
                       [] OTHER -> "Not Implemented"
  <2>1. code \in Codes \ {"Partial Content"}
    BY DEF Codes
  <2>2. Magic(r, q) = SetCode(r, code)
    BY DEF Magic
  <2> HIDE DEF code
  <2> QED
    BY <1>1, <2>1, <2>2
<1>4. q.kind = "file" => q \in FileReads
  BY DEF Requests, MagicCalls, PathLookups
<1>5. q.kind = "file" => Sound(File(r, q)) /\ PartialTold(File(r, q))
  BY <1>4, FileSound
<1>6. /\ Sound(SetCode(r, "Bad Request")) /\ PartialTold(SetCode(r, "Bad Request"))
      /\ Sound(SetCode(r, "Not Found")) /\ PartialTold(SetCode(r, "Not Found"))
  BY <1>1 DEF Codes
<1>7. Handled(r, q) \in {SetCode(r, "Bad Request"), Redirect(r), Magic(r, q),
                         SetCode(r, "Not Found")}
      \/ (q.kind = "file" /\ Handled(r, q) = File(r, q))
  BY DEF Handled
<1> QED
  BY <1>2, <1>3, <1>5, <1>6, <1>7

LEMMA CompleteSound ==
  ASSUME NEW r, Sound(r), NEW q \in Requests
  PROVE  Sound(Complete(r, q)) /\ PartialTold(Complete(r, q))
<1>1. Sound(Handled(r, q)) /\ PartialTold(Handled(r, q))
  BY HandledSound
<1>2. <<>> \in Seq(Int) /\ ServerHeader \in Keys \ {ContentLength}
      /\ ServerHeader \in Keys \ {ContentRange}
  BY KeysDiffer, EmptySeq
<1> QED
  BY <1>1, <1>2, SetHeaderSound, SetHeaderPartial DEF Complete

-----------------------------------------------------------------------------
(* The invariant                                                           *)

(* The response object is sound whatever the connection has answered, and  *)
(* so was every response at the moment it was rendered.                    *)
IInv ==
  /\ build \in Builds /\ type \in {"TCP", "TLS"}
  /\ served \in 0 .. MaxRequests
  /\ running \in BOOLEAN /\ level \in BOOLEAN
  /\ failed \in {"none", "slash", "dash", "fault", "body"}
  /\ Sound(response)
  /\ served > 0 => LengthTold(answer) /\ PartialTold(answer)

LEMMA InitIInv == Init => IInv
<1> SUFFICES ASSUME Init PROVE IInv
  OBVIOUS
<1>1. PICK code \in Codes : response = Initialized(code)
  BY DEF Init
<1>2. Sound(response)
  <2> DEFINE none == <<>>
             body == [allocated |-> FALSE, length |-> 0]
  <2>1. none \in Seq(Header) /\ Len(none) = 0
    BY EmptySeq
  <2>2. body \in [allocated : BOOLEAN, length : 0 .. MaxSize + 1] /\ body.length = 0
    BY TransactionAssumption DEF TransactionAssumption
  <2>3. response = [code |-> code, description |-> "", headers |-> none, body |-> body]
    BY <1>1 DEF Initialized
  <2> HIDE DEF none, body
  <2>4. response \in Response /\ response.headers = none /\ response.body = body
    <3>1. /\ response.code = code /\ response.description = ""
          /\ response.headers = none /\ response.body = body
      BY <2>3
    <3>2. code \in Codes /\ "" \in Codes \union {""}
      BY <1>1
    <3>3. response \in Response
      BY <2>1, <2>2, <2>3, <3>2 DEF Response
    <3> QED
      BY <3>1, <3>3
  <2>5. DOMAIN response.headers = {}
    BY <2>1, <2>4, HeaderParts
  <2> QED
    BY <2>2, <2>4, <2>5 DEF Sound, StrictlySorted
<1>3. served = 0 /\ served \in 0 .. MaxRequests /\ ~(served > 0)
  BY TransactionAssumption DEF Init, TransactionAssumption
<1>4. /\ build \in Builds /\ type \in {"TCP", "TLS"} /\ failed = "none"
      /\ running \in BOOLEAN /\ level \in BOOLEAN
  BY DEF Init
<1> QED
  BY <1>2, <1>3, <1>4 DEF IInv

LEMMA AnswerIInv ==
  ASSUME IInv, NEW q \in Requests, Answer(q)
  PROVE  IInv'
<1> DEFINE r == Complete(response, q)
<1>1. Sound(r) /\ PartialTold(r)
  BY CompleteSound DEF IInv
<1>2. Sound(Rendered(r)) /\ LengthTold(Rendered(r)) /\ PartialTold(Rendered(r))
  BY <1>1, RenderedSound, RenderedPartial
<1> HIDE DEF r
<1>3. /\ UNCHANGED <<build, type>> /\ served < MaxRequests /\ failed = "none"
      /\ \/ /\ response' = r /\ failed' = "body" /\ UNCHANGED <<answer, served>>
         \/ /\ response' = Rendered(r) /\ answer' = Rendered(r)
            /\ served' = served + 1 /\ UNCHANGED failed
  BY DEF Answer, Alive, r
<1>4. running' \in BOOLEAN /\ level' \in BOOLEAN
  BY Zenon DEF Answer
<1>5. MaxRequests \in Nat /\ served \in 0 .. MaxRequests
  BY TransactionAssumption DEF TransactionAssumption, IInv
<1>6. Sound(response') /\ (served' > 0 => LengthTold(answer') /\ PartialTold(answer'))
  BY <1>1, <1>2, <1>3 DEF IInv
<1>7. served' \in 0 .. MaxRequests /\ failed' \in {"none", "slash", "dash", "fault", "body"}
  BY <1>3, <1>5
<1>8. build' \in Builds /\ type' \in {"TCP", "TLS"}
  BY <1>3 DEF IInv
<1> QED
  BY <1>4, <1>6, <1>7, <1>8 DEF IInv

LEMMA StepIInv == IInv /\ [Next]_vars => IInv'
<1> SUFFICES ASSUME IInv, [Next]_vars PROVE IInv'
  OBVIOUS
<1>1. ASSUME NEW q \in Requests, AssertFails(q) PROVE IInv'
  BY <1>1 DEF AssertFails, IInv
<1>2. ASSUME NEW q \in Requests, Faults(q) PROVE IInv'
  BY <1>2 DEF Faults, IInv
<1>3. ASSUME NEW q \in Requests, Answer(q) PROVE IInv'
  BY <1>3, AnswerIInv
<1>4. CASE UNCHANGED vars
  BY <1>4 DEF vars, IInv
<1> QED
  BY <1>1, <1>2, <1>3, <1>4 DEF Next

THEOREM Invariance == Spec => []IInv
BY InitIInv, StepIInv, PTL DEF Spec

-----------------------------------------------------------------------------
(* What follows from it                                                    *)

(* Through every sequence of requests on a connection the response object  *)
(* keeps a known code and known headers and a body no longer than a file   *)
(* asked for, and only the assertions of the code can fail.                *)
THEOREM TypeCorrect == Spec => []TypeOK
<1>1. IInv => TypeOK
  <2> SUFFICES ASSUME IInv PROVE TypeOK
    OBVIOUS
  <2>1. /\ response \in Response /\ response.headers \in Seq(Header)
        /\ response.code \in Codes /\ response.description \in Codes \union {""}
        /\ response.body.allocated \in BOOLEAN /\ response.body.length \in 0 .. MaxSize + 1
    BY DEF IInv, Sound, Response
  <2>2. \A i \in DOMAIN response.headers : response.headers[i].key \in Keys
    <3>1. \A i \in DOMAIN response.headers : response.headers[i] \in Header
      BY <2>1, HeaderParts
    <3> QED
      BY <3>1 DEF Header
  <2> QED
    BY <2>1, <2>2 DEF TypeOK, IInv
<1> QED
  BY <1>1, Invariance, PTL

(* http_response_set_header keeps the list strictly sorted, through every  *)
(* sequence of requests, so that lookup_header finds every key.            *)
THEOREM HeadersStaySorted == Spec => []HeadersSorted
<1>1. IInv => HeadersSorted
  BY DEF IInv, Sound, HeadersSorted
<1> QED
  BY <1>1, Invariance, PTL

(* Every response that is rendered has the Content-Length of the body it   *)
(* is rendered with, also when an earlier request left that body.          *)
THEOREM LengthIsTold == Spec => []ContentLengthMatchesBody
<1>1. IInv => ContentLengthMatchesBody
  BY DEF IInv, LengthTold, ContentLengthMatchesBody
<1> QED
  BY <1>1, Invariance, PTL

(* Every 206 says which part of the file it carries and carries as much.   *)
THEOREM PartIsDescribed == Spec => []PartialContentDescribed
<1>1. IInv => PartialContentDescribed
  BY DEF IInv, PartialTold, PartialContentDescribed
<1> QED
  BY <1>1, Invariance, PTL

(* Only handle_magic_calls with the right code, over TLS, stops the server *)
(* or changes logging.                                                     *)
THEOREM OnlyAuthorizedObeyed == Spec => OnlyAuthorizedCallsObeyed
<1> DEFINE Lawful == running' # running \/ level' # level =>
                       type = "TLS" /\ request'.kind = "magic" /\ request'.code = "right"
<1>1. IInv /\ [Next]_vars => [Lawful]_vars
  <2> SUFFICES ASSUME IInv, NEW q \in Requests,
                      AssertFails(q) \/ Faults(q) \/ Answer(q)
               PROVE  Lawful
    BY DEF Next
  <2>1. CASE AssertFails(q) \/ Faults(q)
    BY <2>1 DEF AssertFails, Faults
  <2>2. CASE Answer(q)
    <3>1. request' = q /\ running \in BOOLEAN /\ level \in BOOLEAN
      BY <2>2 DEF Answer, IInv
    <3>2. CASE Obeyed(q)
      BY <3>1, <3>2 DEF Obeyed
    <3>3. CASE ~Obeyed(q)
      <4>1. running' = running
        BY <2>2, <3>1, <3>3 DEF Answer
      <4>2. level' = level
        BY <2>2, <3>1, <3>3 DEF Answer
      <4> QED
        BY <4>1, <4>2
    <3> QED
      BY <3>2, <3>3
  <2> QED
    BY <2>1, <2>2
<1> QED
  BY <1>1, Invariance, PTL DEF Spec, OnlyAuthorizedCallsObeyed

-----------------------------------------------------------------------------
(* The response object in memory                                           *)

(* A sum of natural numbers is one                                         *)

Pick(t) == CHOOSE x \in t : TRUE

(* SumFunction's recursion on the subsets of S with at most n elements.    *)
Sums(g, f, S, n) ==
  g = [t \in {u \in SUBSET S : Cardinality(u) <= n} |->
         IF t = {} THEN 0 ELSE f[Pick(t)] + g[t \ {Pick(t)}]]

LEMMA Smaller ==
  ASSUME NEW S, IsFiniteSet(S), NEW t \in SUBSET S, t # {}
  PROVE  /\ Pick(t) \in t /\ t \ {Pick(t)} \in SUBSET S
         /\ Cardinality(t) \in Nat \ {0} /\ Cardinality(t \ {Pick(t)}) = Cardinality(t) - 1
<1>1. Pick(t) \in t
  BY DEF Pick
<1>2. IsFiniteSet(t) /\ Cardinality(t) \in Nat
  BY FS_Subset, FS_CardinalityType
<1>3. Cardinality(t) # 0
  BY <1>2, FS_EmptySet
<1>4. Cardinality(t \ {Pick(t)}) = Cardinality(t) - 1
  BY <1>1, <1>2, FS_RemoveElement
<1> QED
  BY <1>1, <1>2, <1>3, <1>4

LEMMA SumsExist ==
  ASSUME NEW S, IsFiniteSet(S), NEW f, NEW n \in Nat
  PROVE  \E g : Sums(g, f, S, n)
<1> DEFINE T == {m \in Nat : ~\E g : Sums(g, f, S, m)}
           Upto(m) == {u \in SUBSET S : Cardinality(u) <= m}
<1>1. T = {}
  <2> SUFFICES ASSUME T # {} PROVE FALSE
    OBVIOUS
  <2>1. PICK x \in T : \A y \in T : x <= y
    <3>1. T \subseteq Nat
      OBVIOUS
    <3> HIDE DEF T
    <3> QED
      BY <3>1, Least
  <2>2. x \in Nat /\ ~\E g : Sums(g, f, S, x)
    BY <2>1
  <2>3. \E h : x = 0 \/ Sums(h, f, S, x - 1)
    <3>1. CASE x = 0
      BY <3>1
    <3>2. CASE x # 0
      <4>1. x - 1 \in Nat /\ ~(x <= x - 1)
        BY <2>2, <3>2
      <4>2. x - 1 \notin T
        BY <2>1, <4>1
      <4> QED
        BY <4>1, <4>2
    <3> QED
      BY <3>1, <3>2
  <2>4. PICK h : x = 0 \/ Sums(h, f, S, x - 1)
    BY <2>3
  <2> DEFINE Next1(u) == IF u = {} THEN 0 ELSE f[Pick(u)] + h[u \ {Pick(u)}]
             g == [t \in Upto(x) |-> Next1(t)]
  <2>5. ASSUME NEW t \in Upto(x)
        PROVE  g[t] = IF t = {} THEN 0 ELSE f[Pick(t)] + g[t \ {Pick(t)}]
    <3>1. CASE t = {}
      BY <3>1
    <3>2. CASE t # {}
      <4> DEFINE u == t \ {Pick(t)}
      <4>1. t \in SUBSET S /\ Cardinality(t) <= x
        OBVIOUS
      <4>2. /\ u \in SUBSET S /\ Cardinality(t) \in Nat \ {0}
            /\ Cardinality(u) = Cardinality(t) - 1
        BY <3>2, <4>1, Smaller
      <4>3. x # 0 /\ Cardinality(u) <= x - 1 /\ Cardinality(u) <= x
        BY <2>2, <4>1, <4>2
      <4>4. u \in Upto(x) /\ u \in Upto(x - 1)
        BY <4>2, <4>3
      <4> HIDE DEF u
      <4>5. Sums(h, f, S, x - 1)
        BY <2>4, <4>3
      <4>6. h[u] = Next1(u)
        BY <4>4, <4>5, Zenon DEF Sums
      <4>7. g[u] = Next1(u)
        BY <4>4, Zenon
      <4>8. g[t] = f[Pick(t)] + h[u]
        BY <3>2 DEF u
      <4>9. g[t] = f[Pick(t)] + g[u]
        BY <4>6, <4>7, <4>8
      <4> QED
        BY <3>2, <4>9 DEF u
    <3> QED
      BY <3>1, <3>2
  <2>6. g = [t \in Upto(x) |-> IF t = {} THEN 0 ELSE f[Pick(t)] + g[t \ {Pick(t)}]]
    BY <2>5, Zenon
  <2>7. Sums(g, f, S, x)
    BY <2>6, Zenon DEF Sums
  <2> QED
    BY <2>2, <2>7
<1> QED
  BY <1>1

LEMMA SumIsNatural ==
  ASSUME NEW S, IsFiniteSet(S), NEW f \in [S -> Nat]
  PROVE  SumFunction(f) \in Nat
<1> DEFINE n == Cardinality(S)
           F == CHOOSE g : g = [t \in SUBSET S |->
                                  IF t = {} THEN 0 ELSE f[Pick(t)] + g[t \ {Pick(t)}]]
<1>1. n \in Nat /\ \A t \in SUBSET S : Cardinality(t) \in Nat /\ Cardinality(t) <= n
  BY FS_CardinalityType, FS_Subset
<1>2. {u \in SUBSET S : Cardinality(u) <= n} = SUBSET S
  BY <1>1
<1>3. PICK h : Sums(h, f, S, n)
  BY <1>1, SumsExist
<1>4. h = [t \in SUBSET S |-> IF t = {} THEN 0 ELSE f[Pick(t)] + h[t \ {Pick(t)}]]
  BY <1>2, <1>3 DEF Sums
<1>5. F = [t \in SUBSET S |-> IF t = {} THEN 0 ELSE f[Pick(t)] + F[t \ {Pick(t)}]]
  BY <1>4
<1>6. SumFunction(f) = F[S]
  BY DEF SumFunction, SumFunctionOnSet, FoldFunctionOnSet,
    MapThenFoldSet, Pick
<1> HIDE DEF F
<1> DEFINE T == {m \in Nat : \E t \in SUBSET S : Cardinality(t) = m /\ F[t] \notin Nat}
<1>7. T = {}
  <2> SUFFICES ASSUME T # {} PROVE FALSE
    OBVIOUS
  <2>1. PICK x \in T : \A y \in T : x <= y
    <3>1. T \subseteq Nat
      OBVIOUS
    <3> HIDE DEF T
    <3> QED
      BY <3>1, Least
  <2>2. PICK t \in SUBSET S : Cardinality(t) = x /\ F[t] \notin Nat
    BY <2>1
  <2>3. t # {}
    BY <1>5, <2>2
  <2> DEFINE u == t \ {Pick(t)}
  <2>4. /\ Pick(t) \in S /\ u \in SUBSET S /\ x \in Nat \ {0}
        /\ Cardinality(u) = x - 1
    BY <2>2, <2>3, Smaller
  <2>5. F[t] = f[Pick(t)] + F[u] /\ f[Pick(t)] \in Nat
    BY <1>5, <2>3, <2>4
  <2> HIDE DEF u
  <2>6. F[u] \notin Nat
    BY <2>2, <2>5
  <2>7. x - 1 \in T /\ ~(x <= x - 1)
    BY <2>4, <2>6
  <2> QED
    BY <2>1, <2>7
<1> QED
  BY <1>1, <1>6, <1>7

-----------------------------------------------------------------------------
(* The response object's operations                                        *)

Shaped(r) ==
  /\ r \in [code : Codes, description : Nat, headers : Seq(Header),
            body : [allocated : BOOLEAN, length : Nat]]
  /\ StrictlySorted(r.headers)
  /\ \A i \in 1 .. Len(r.headers) : r.headers[i].value[1] \in Nat

LEMMA ObjectOperators ==
  ASSUME NEW r, NEW key, NEW value
  PROVE  /\ SetHeader(r, key, value)
              = [r EXCEPT !.headers = WithHeader(r.headers, key, value)]
         /\ HeaderBlocks(r, key) = IF HasKey(r.headers, key) THEN 0 ELSE 3
BY SetHeaderIs DEF HeaderBlocks

LEMMA ObjectHeader ==
  ASSUME NEW r, Shaped(r), NEW key \in Keys, NEW n \in Nat
  PROVE  LET s == SetHeader(r, key, <<n>>)
         IN  /\ Shaped(s) /\ s.body = r.body
             /\ ResponseBlocks(s) = ResponseBlocks(r) + HeaderBlocks(r, key)
             /\ ResponseBlocks(r) \in Nat /\ HeaderBlocks(r, key) \in {0, 3}
<1> DEFINE h == r.headers
           value == <<n>>
           g == WithHeader(h, key, value)
           s == [r EXCEPT !.headers = g]
           p == Place(h, key)
           d == IF p <= Len(h) /\ h[p].key = key THEN 1 ELSE 0
<1>1. h \in Seq(Header) /\ StrictlySorted(h) /\ value \in Seq(Int) /\ value[1] = n
  BY DEF Shaped
<1>2. /\ Len(h) \in Nat /\ DOMAIN h = 1 .. Len(h) /\ p \in 1 .. Len(h) + 1
      /\ \A j \in 1 .. Len(h) : h[j].key \in Nat /\ h[j].value[1] \in Nat
      /\ \A j \in 1 .. p - 1 : h[j].key < key
      /\ key \in Nat
  BY <1>1, HeaderParts, PlaceSplits, KeyNumbers DEF Shaped
<1> HIDE DEF h, value
<1>3. /\ g \in Seq(Header) /\ Len(g) = Len(h) + 1 - d
      /\ \A i \in 1 .. p - 1 : g[i] = h[i]
      /\ g[p] = [key |-> key, value |-> value]
      /\ \A i \in p + 1 .. Len(h) + 1 - d : g[i] = h[i - 1 + d]
      /\ \A j \in p + d .. Len(h) : h[j].key > key
  BY <1>1, WithHeaderIs
<1>4. StrictlySorted(g)
  BY <1>1, WithHeaderSorted
<1>5. HasKey(h, key) <=> d = 1
  <2>1. ASSUME d = 1 PROVE HasKey(h, key)
    BY <1>2, <2>1 DEF HasKey
  <2>2. ASSUME NEW j \in 1 .. Len(h), h[j].key = key, d = 0 PROVE FALSE
    <3>1. j \notin 1 .. p - 1
      BY <1>2, <2>2
    <3>2. j \in p + d .. Len(h)
      BY <1>2, <2>2, <3>1
    <3> QED
      BY <1>2, <1>3, <2>2, <3>2
  <2>3. d \in {0, 1}
    OBVIOUS
  <2> HIDE DEF d
  <2> QED
    BY <1>2, <2>1, <2>2, <2>3 DEF HasKey
<1> HIDE DEF g
<1>6. d \in {0, 1} /\ (d = 1 => p <= Len(h))
  OBVIOUS
<1> HIDE DEF d, p
<1>7. \A i \in 1 .. Len(g) : g[i].value[1] \in Nat
  <2> TAKE i \in 1 .. Len(g)
  <2>1. CASE i < p
    <3>1. i \in 1 .. p - 1 /\ i \in 1 .. Len(h)
      BY <1>2, <1>3, <1>6, <2>1
    <3> QED
      BY <1>2, <1>3, <3>1
  <2>2. CASE i = p
    BY <1>1, <1>3, <2>2
  <2>3. CASE i > p
    <3>1. i \in p + 1 .. Len(h) + 1 - d /\ i - 1 + d \in 1 .. Len(h)
      BY <1>2, <1>3, <1>6, <2>3
    <3> QED
      BY <1>2, <1>3, <3>1
  <2> QED
    BY <1>2, <1>3, <2>1, <2>2, <2>3
<1>8. s.headers = g /\ s.body = r.body /\ Shaped(s)
  BY <1>3, <1>4, <1>7 DEF Shaped, h
<1>9. HeaderBlocks(r, key) = IF d = 1 THEN 0 ELSE 3
  BY <1>5, ObjectOperators DEF h
<1>10. /\ ResponseBlocks(s) = 3 * Len(g) + Bit(r.body.allocated)
       /\ ResponseBlocks(r) = 3 * Len(h) + Bit(r.body.allocated)
       /\ Bit(r.body.allocated) \in {0, 1}
  BY <1>8 DEF ResponseBlocks, Bit, h
<1>11. /\ ResponseBlocks(s) = ResponseBlocks(r) + HeaderBlocks(r, key)
       /\ ResponseBlocks(r) \in Nat /\ HeaderBlocks(r, key) \in {0, 3}
  <2> DEFINE a == Len(h)
             b == Len(g)
             e == Bit(r.body.allocated)
  <2>1. a \in Nat /\ b = a + 1 - d /\ e \in {0, 1}
    BY <1>2, <1>3, <1>6, <1>10
  <2>2. 3 * b + e = 3 * a + e + (IF d = 1 THEN 0 ELSE 3) /\ 3 * a + e \in Nat
    <3> HIDE DEF a, b, e
    <3> QED
      BY <1>6, <2>1
  <2> QED
    BY <1>9, <1>10, <2>2
<1>12. SetHeader(r, key, <<n>>) = s
  BY ObjectOperators DEF g, h, value
<1> QED
  BY <1>8, <1>11, <1>12

(* The size that is measured is the size that is written.                  *)
LEMMA SizesAgree ==
  ASSUME NEW r, Shaped(r)
  PROVE  measure_response_size(r) \in Nat \ {0}
         /\ Copied(r) = measure_response_size(r)
<1> DEFINE h == r.headers
           d == r.description
           b == r.body.length
           len(i) == KeyLength(h[i].key)
           f == [i \in DOMAIN h |-> len(i) + h[i].value[1] + 4]
           g == [i \in DOMAIN h |-> len(i) + 2 + h[i].value[1] + 2]
<1>1. h \in Seq(Header) /\ d \in Nat /\ b \in Nat
      /\ \A i \in 1 .. Len(h) : h[i].value[1] \in Nat
  BY DEF Shaped
<1>2. DOMAIN h = 1 .. Len(h) /\ Len(h) \in Nat
      /\ \A i \in 1 .. Len(h) : len(i) \in Nat
  BY <1>1, HeaderParts DEF KeyLength
<1> HIDE DEF h, len
<1>3. f = g
  <2>1. ASSUME NEW i \in DOMAIN h
        PROVE  len(i) + h[i].value[1] + 4 = len(i) + 2 + h[i].value[1] + 2
    <3> DEFINE x == len(i)
               v == h[i].value[1]
    <3>1. x \in Nat /\ v \in Nat
      BY <1>1, <1>2
    <3> HIDE DEF x, v
    <3>2. x + v + 4 = x + 2 + v + 2
      BY <3>1
    <3> QED
      BY <3>2 DEF x, v
  <2> QED
    BY <2>1, Zenon
<1>4. f \in [1 .. Len(h) -> Nat] /\ IsFiniteSet(1 .. Len(h))
  <2>1. \A i \in DOMAIN h : len(i) + h[i].value[1] + 4 \in Nat
    BY <1>1, <1>2
  <2> QED
    BY <1>2, <2>1, FS_Interval
<1> DEFINE sum == SumFunction(f)
<1>5. sum \in Nat
  <2> HIDE DEF f
  <2> QED
    BY <1>4, SumIsNatural
<1>6. /\ measure_response_size(r)
           = (IF d # 0 THEN 8 + 3 + d + 4 ELSE 8 + 3 + 3) + sum + 2 + b
      /\ Copied(r)
           = (8 + 1 + 3 + (IF d # 0 THEN 1 + d ELSE 0) + 2) + SumFunction(g) + 2 + b
  BY DEF measure_response_size, Copied, h, len
<1> HIDE DEF f, g, sum, d, b
<1> QED
  BY <1>1, <1>3, <1>5, <1>6 DEF sum

-----------------------------------------------------------------------------
(* The response object's invariant                                         *)

ObjectInv == Shaped(object) /\ WritesWhatItMeasured

OwnInv == pointer \in {"null", "live"} /\ ResponseOwnsAll

LEMMA EmptyShaped == Shaped(Empty) /\ ResponseBlocks(Empty) = 0
<1> DEFINE r == Empty
<1>1. r = [code |-> "OK", description |-> 0, headers |-> <<>>,
           body |-> [allocated |-> FALSE, length |-> 0]]
  <2> DEFINE i == Initialized("OK")
  <2>1. i = [code |-> "OK", description |-> "", headers |-> <<>>,
             body |-> [allocated |-> FALSE, length |-> 0]]
    BY DEF Initialized
  <2>2. r = [i EXCEPT !.description = 0]
    BY DEF Empty
  <2> HIDE DEF i, r
  <2> QED
    BY <2>1, <2>2
<1> HIDE DEF r
<1>2. /\ r.headers = <<>> /\ Len(r.headers) = 0 /\ <<>> \in Seq(Header)
      /\ DOMAIN r.headers = {} /\ r.body.allocated = FALSE
  BY <1>1, EmptySeq
<1>3. ResponseBlocks(r) = 0
  BY <1>2 DEF ResponseBlocks, Bit
<1>4. StrictlySorted(r.headers) /\ \A i \in 1 .. Len(r.headers) : r.headers[i].value[1] \in Nat
  BY <1>2 DEF StrictlySorted
<1>5. Shaped(r)
  BY <1>1, <1>2, <1>4 DEF Shaped, Codes
<1> QED
  BY <1>3, <1>5 DEF r

(* The bodies of the operations.                                           *)
LEMMA NewBody ==
  ASSUME Shaped(object), NEW n \in Nat
  PROVE  LET s == SetBody(object, n)
         IN  /\ Shaped(s)
             /\ ResponseBlocks(s) = ResponseBlocks(object) + BodyBlocks(object)
                                     + HeaderBlocks(object, ContentLength)
<1> DEFINE r == [object EXCEPT !.body = [allocated |-> TRUE, length |-> n]]
           s == SetHeader(r, ContentLength, <<n>>)
           l == 3 * Len(object.headers)
<1>1. /\ Shaped(r) /\ r.headers = object.headers /\ r.body.allocated = TRUE
      /\ object.body.allocated \in BOOLEAN /\ Len(object.headers) \in Nat
  BY HeaderParts DEF Shaped
<1> HIDE DEF r
<1>2. ContentLength \in Keys
  BY KeysDiffer
<1>3. Shaped(s) /\ ResponseBlocks(s) = ResponseBlocks(r) + HeaderBlocks(r, ContentLength)
  BY <1>1, <1>2, ObjectHeader
<1>4. HeaderBlocks(r, ContentLength) = HeaderBlocks(object, ContentLength)
  BY <1>1 DEF HeaderBlocks, HasKey
<1>5. ResponseBlocks(r) = ResponseBlocks(object) + BodyBlocks(object)
  <2>1. l \in Nat
    BY <1>1
  <2>2. ResponseBlocks(r) = l + 1
    BY <1>1 DEF ResponseBlocks, Bit
  <2>3. CASE object.body.allocated
    <3>1. ResponseBlocks(object) = l + 1 /\ BodyBlocks(object) = 1 - 1
      BY <2>3 DEF ResponseBlocks, Bit, BodyBlocks
    <3> HIDE DEF l
    <3> QED
      BY <2>1, <2>2, <3>1
  <2>4. CASE ~object.body.allocated
    <3>1. ResponseBlocks(object) = l + 0 /\ BodyBlocks(object) = 1 - 0
      BY <2>4 DEF ResponseBlocks, Bit, BodyBlocks
    <3> HIDE DEF l
    <3> QED
      BY <2>1, <2>2, <3>1
  <2> QED
    BY <2>3, <2>4
<1>6. SetBody(object, n) = s
  BY DEF SetBody, r, ContentLength
<1> QED
  BY <1>3, <1>4, <1>5, <1>6

(* What render leaves of the object.                                       *)
LEMMA Finished ==
  ASSUME Shaped(object)
  PROVE  LET empty == object.body.length = 0
             s == IF empty THEN SetHeader(object, ContentLength, <<1>>) ELSE object
         IN  /\ Shaped(s) /\ ResponseBlocks(object) \in Nat
             /\ ResponseBlocks(s) = ResponseBlocks(object)
                  + IF empty THEN HeaderBlocks(object, ContentLength) ELSE 0
<1>1. ContentLength \in Keys
  BY KeysDiffer
<1>2. /\ Shaped(SetHeader(object, ContentLength, <<1>>))
      /\ ResponseBlocks(SetHeader(object, ContentLength, <<1>>))
           = ResponseBlocks(object) + HeaderBlocks(object, ContentLength)
      /\ ResponseBlocks(object) \in Nat
  BY <1>1, ObjectHeader
<1> QED
  BY <1>2

LEMMA NothingWritten == rendering = Nothing => WritesWhatItMeasured
BY DEF Nothing, WritesWhatItMeasured

LEMMA ObjectStep ==
  ASSUME ResponseObjectAssumption, ObjectInv, [ObjectNext]_objectVars
  PROVE  ObjectInv'
<1>1. Shaped(object) /\ Described \subseteq Seq(Nat) /\ Lengths \subseteq Nat
  BY DEF ObjectInv, ResponseObjectAssumption
<1> DEFINE Blank == rendering' = Nothing
<1>2. Blank => WritesWhatItMeasured'
  BY DEF Nothing, WritesWhatItMeasured
<1>3. ASSUME NEW d \in Described, SetCodeOf(d) PROVE ObjectInv'
  <2>1. d \in Seq(Nat) /\ (d # <<>> => d[1] \in Nat)
    BY <1>1
  <2>2. Blank /\ object' = [object EXCEPT !.description = IF d = <<>> THEN 0 ELSE d[1]]
    BY <1>3 DEF SetCodeOf
  <2>3. Shaped(object')
    BY <1>1, <2>1, <2>2 DEF Shaped
  <2> QED
    BY <1>2, <2>2, <2>3 DEF ObjectInv, Shaped
<1>4. ASSUME NEW key \in Keys, NEW n \in Lengths, SetHeaderOf(key, n) PROVE ObjectInv'
  <2>1. Blank /\ object' = SetHeader(object, key, <<n>>) /\ n \in Nat
    BY <1>1, <1>4 DEF SetHeaderOf
  <2>2. Shaped(object')
    BY <1>1, <2>1, ObjectHeader
  <2> QED
    BY <1>2, <2>1, <2>2 DEF ObjectInv, Shaped
<1>5. ASSUME NEW n \in Lengths, SetBodyOf(n) PROVE ObjectInv'
  <2>1. Blank /\ object' = SetBody(object, n) /\ n \in Nat
    BY <1>1, <1>5 DEF SetBodyOf
  <2>2. Shaped(object')
    BY <1>1, <2>1, NewBody
  <2> QED
    BY <1>2, <2>1, <2>2 DEF ObjectInv, Shaped
<1>6. ASSUME NEW slack \in {-1, 0, 1}, Render(slack) PROVE ObjectInv'
  <2> DEFINE r == IF object.body.length = 0
                    THEN SetHeader(object, ContentLength, <<1>>) ELSE object
             size == measure_response_size(r)
             copied == Copied(r)
             offered == size + slack
  <2>1. /\ object' = r
        /\ rendering' = [offered |-> offered, returned |-> size,
                         written |-> IF offered < size THEN 0 ELSE copied]
    BY <1>6 DEF Render, ContentLength
  <2>2. Shaped(r)
    BY <1>1, Finished
  <2> HIDE DEF r
  <2>3. size \in Nat \ {0} /\ copied = size
    BY <2>2, SizesAgree
  <2> HIDE DEF size, copied
  <2>4. /\ (IF offered < size THEN 0 ELSE copied) \in {0, size}
        /\ (IF offered < size THEN 0 ELSE copied) <= offered
    BY <2>3
  <2> HIDE DEF offered
  <2>5. WritesWhatItMeasured'
    BY <2>1, <2>4 DEF WritesWhatItMeasured
  <2> QED
    BY <2>1, <2>2, <2>5 DEF ObjectInv, Shaped
<1>7. CASE DestroyResponse
  <2>1. Blank /\ object' = Empty
    BY <1>7 DEF DestroyResponse
  <2> QED
    BY <1>2, <2>1, EmptyShaped DEF ObjectInv, Shaped
<1>8. CASE UNCHANGED objectVars
  BY <1>8 DEF objectVars, ObjectInv, Shaped, WritesWhatItMeasured
<1> QED
  BY <1>3, <1>4, <1>5, <1>6, <1>7, <1>8 DEF ObjectNext

LEMMA ObjectInvariance ==
  ASSUME ResponseObjectAssumption
  PROVE  ObjectSpec => []ObjectInv
<1>1. ObjectInit => ObjectInv
  BY EmptyShaped, NothingWritten DEF ObjectInit, ObjectInv, Shaped
<1>2. ObjectInv /\ [ObjectNext]_objectVars => ObjectInv'
  BY ObjectStep
<1> QED
  BY <1>1, <1>2, PTL DEF ObjectSpec

(* http_response_render fills a buffer of the size measure_response_size   *)
(* gives exactly and writes nothing into a shorter one, after any sequence *)
(* of calls, for any set of headers and all lengths                        *)
(* (WritesWhatItMeasured).                                                 *)
THEOREM RenderingFits ==
  ASSUME ResponseObjectAssumption
  PROVE  ObjectSpec => []WritesWhatItMeasured
<1>1. ObjectInv => WritesWhatItMeasured
  BY DEF ObjectInv
<1> QED
  BY <1>1, ObjectInvariance, PTL

LEMMA OwnStep ==
  ASSUME ResponseObjectAssumption, <<>> \notin Described,
         ObjectInv, OwnInv, [ObjectNext]_objectVars
  PROVE  OwnInv'
<1> DEFINE held == ResponseBlocks(object)
           live == Bit(pointer = "live")
<1>1. /\ Shaped(object) /\ Lengths \subseteq Nat /\ pointer \in {"null", "live"}
      /\ object_heap = held + live /\ fault = FALSE /\ live \in {0, 1}
  BY DEF ObjectInv, OwnInv, ResponseOwnsAll, ResponseObjectAssumption, Bit
<1>2. held \in Nat
  BY <1>1, Finished
<1> DEFINE New(s, p) == /\ pointer' = p /\ ~fault'
                        /\ object_heap' = ResponseBlocks(s) + Bit(p = "live")
<1>3. ASSUME NEW p \in {"null", "live"}, New(object', p) PROVE OwnInv'
  BY <1>3 DEF OwnInv, ResponseOwnsAll, ResponseBlocks, Bit
<1>4. ASSUME NEW d \in Described, SetCodeOf(d) PROVE OwnInv'
  <2>1. /\ d # <<>> /\ pointer' = "live" /\ ~fault' /\ object_heap' = object_heap - live + 1
        /\ object' = [object EXCEPT !.description = d[1]]
    BY <1>1, <1>4 DEF SetCodeOf, Bit
  <2>2. ResponseBlocks(object') = held
    BY <1>1, <2>1 DEF ResponseBlocks, Shaped
  <2>3. object_heap' = held + 1
    <3> HIDE DEF held, live
    <3> QED
      BY <1>1, <1>2, <2>1
  <2>4. New(object', "live")
    BY <2>1, <2>2, <2>3 DEF Bit
  <2> QED
    BY <1>3, <2>4
<1>5. ASSUME NEW key \in Keys, NEW n \in Lengths, SetHeaderOf(key, n) PROVE OwnInv'
  <2> DEFINE more == HeaderBlocks(object, key)
  <2>1. /\ object' = SetHeader(object, key, <<n>>) /\ n \in Nat
        /\ object_heap' = object_heap + more /\ pointer' = pointer /\ ~fault'
    BY <1>1, <1>5 DEF SetHeaderOf
  <2>2. ResponseBlocks(object') = held + more /\ more \in {0, 3}
    BY <1>1, <2>1, ObjectHeader
  <2>3. object_heap' = (held + more) + live
    <3> HIDE DEF held, live, more
    <3> QED
      BY <1>1, <1>2, <2>1, <2>2
  <2>4. New(object', pointer)
    BY <2>1, <2>2, <2>3
  <2> QED
    BY <1>1, <1>3, <2>4
<1>6. ASSUME NEW n \in Lengths, SetBodyOf(n) PROVE OwnInv'
  <2> DEFINE body == BodyBlocks(object)
             more == HeaderBlocks(object, ContentLength)
  <2>1. /\ object' = SetBody(object, n) /\ n \in Nat
        /\ object_heap' = object_heap + body + more /\ pointer' = pointer /\ ~fault'
    BY <1>1, <1>6 DEF SetBodyOf, ContentLength
  <2>2. ResponseBlocks(object') = held + body + more
    BY <1>1, <2>1, NewBody
  <2>3. body \in {0, 1} /\ more \in {0, 3}
    BY DEF BodyBlocks, Bit, HeaderBlocks
  <2>4. object_heap' = (held + body + more) + live
    <3> HIDE DEF held, live, more, body
    <3> QED
      BY <1>1, <1>2, <2>1, <2>3
  <2>5. New(object', pointer)
    BY <2>1, <2>2, <2>4
  <2> QED
    BY <1>1, <1>3, <2>5
<1>7. ASSUME NEW slack \in {-1, 0, 1}, Render(slack) PROVE OwnInv'
  <2> DEFINE more == IF object.body.length = 0
                       THEN HeaderBlocks(object, ContentLength) ELSE 0
             s == IF object.body.length = 0
                    THEN SetHeader(object, ContentLength, <<1>>) ELSE object
  <2>1. /\ object' = s /\ object_heap' = object_heap + more /\ pointer' = pointer /\ ~fault'
    BY <1>1, <1>7 DEF Render, ContentLength
  <2>2. ResponseBlocks(s) = held + more
    BY <1>1, Finished
  <2>3. more \in {0, 3}
    BY DEF HeaderBlocks
  <2>4. object_heap' = (held + more) + live
    <3> HIDE DEF held, live, more
    <3> QED
      BY <1>1, <1>2, <2>1, <2>3
  <2> HIDE DEF s
  <2>5. New(object', pointer)
    BY <2>1, <2>2, <2>4
  <2> QED
    BY <1>1, <1>3, <2>5
<1>8. CASE DestroyResponse
  <2>1. /\ object' = Empty /\ pointer' = "null" /\ ~fault'
        /\ object_heap' = object_heap - live - held
    BY <1>1, <1>8 DEF DestroyResponse
  <2>2. object_heap' = 0
    <3> HIDE DEF held, live
    <3> QED
      BY <1>1, <1>2, <2>1
  <2>3. New(object', "null")
    BY <2>1, <2>2, EmptyShaped DEF Bit
  <2> QED
    BY <1>3, <2>3
<1>9. CASE UNCHANGED objectVars
  BY <1>9 DEF objectVars, OwnInv, ResponseOwnsAll, ResponseBlocks
<1> QED
  BY <1>4, <1>5, <1>6, <1>7, <1>8, <1>9 DEF ObjectNext

(* As long as every code that is set has a description, every block the    *)
(* response allocates belongs to it and none is freed twice, through any   *)
(* sequence of calls: http_response_destroy frees them all                 *)
(* (ResponseOwnsAll).                                                      *)
THEOREM ResponseKeepsItsBlocks ==
  ASSUME ResponseObjectAssumption, <<>> \notin Described
  PROVE  ObjectSpec => []ResponseOwnsAll
<1>1. ObjectInit => OwnInv
  BY EmptyShaped DEF ObjectInit, OwnInv, ResponseOwnsAll, Bit
<1>2. ObjectInv /\ OwnInv /\ [ObjectNext]_objectVars => OwnInv'
  BY OwnStep
<1>3. OwnInv => ResponseOwnsAll
  BY DEF OwnInv
<1> QED
  BY <1>1, <1>2, <1>3, ObjectInvariance, PTL DEF ObjectSpec

=============================================================================
