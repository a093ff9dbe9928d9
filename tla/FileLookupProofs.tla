-------------------------- MODULE FileLookupProofs --------------------------
(***************************************************************************)
(* Proofs about FileLookup, for names and paths of every length and any    *)
(* number of requests and renamings.                                       *)
(***************************************************************************)
EXTENDS FileLookup, SequenceTheorems, WellFoundedInduction, TLAPS

Char == Nat
Strings == Seq(Char)

LEMMA LeastOrZero ==
  ASSUME NEW T, T \subseteq Nat, T # {}
  PROVE  \E x \in T : x = 0 \/ x - 1 \in Nat \ T
<1>1. PICK x \in T : \A y \in T : ~(<<y, x>> \in OpToRel(<, Nat))
  BY NatLessThanWellFounded, WFMin
<1>2. \A y \in T : ~(y < x)
  BY <1>1 DEF OpToRel
<1>3. x \in Nat /\ (x = 0 \/ (x - 1 \in Nat /\ x - 1 < x))
  OBVIOUS
<1> QED
  BY <1>2, <1>3

-----------------------------------------------------------------------------
(* Joining texts                                                           *)

(* FlattenSeq joins the first k texts for every k on its way.              *)
Joins(g, s, n) ==
  g = [i \in 1 .. n |-> IF i = 1 THEN s[i] ELSE g[i - 1] \o s[i]]

LEMMA JoinsExist ==
  ASSUME NEW s, NEW n \in Nat
  PROVE  \E g : Joins(g, s, n)
<1> DEFINE T == {m \in Nat : ~\E g : Joins(g, s, m)}
<1>1. T = {}
  <2> SUFFICES ASSUME T # {} PROVE FALSE
    OBVIOUS
  <2>1. PICK x \in T : x = 0 \/ x - 1 \in Nat \ T
    <3>1. T \subseteq Nat
      OBVIOUS
    <3> HIDE DEF T
    <3> QED
      BY <3>1, LeastOrZero
  <2>2. x \in Nat /\ ~\E g : Joins(g, s, x)
    BY <2>1
  <2>3. CASE x = 0
    <3>1. Joins(<<>>, s, 0)
      BY DEF Joins
    <3> QED
      BY <2>2, <2>3, <3>1
  <2>4. CASE x # 0
    <3>1. PICK h : Joins(h, s, x - 1)
      BY <2>1, <2>4
    <3> DEFINE g == [i \in 1 .. x |-> IF i \in 1 .. x - 1 THEN h[i]
                                      ELSE IF i = 1 THEN s[i] ELSE h[i - 1] \o s[i]]
    <3>2. ASSUME NEW i \in 1 .. x
          PROVE  g[i] = IF i = 1 THEN s[i] ELSE g[i - 1] \o s[i]
      <4>1. CASE i \in 1 .. x - 1
        <5>1. g[i] = h[i] /\ (i # 1 => g[i - 1] = h[i - 1])
          BY <2>2, <4>1
        <5>2. h[i] = IF i = 1 THEN s[i] ELSE h[i - 1] \o s[i]
          BY <3>1, <4>1, Zenon DEF Joins
        <5> QED
          BY <5>1, <5>2
      <4>2. CASE i \notin 1 .. x - 1
        <5>1. i = x /\ (i # 1 => g[i - 1] = h[i - 1])
          BY <2>2, <4>2
        <5> QED
          BY <5>1, <4>2
      <4> QED
        BY <4>1, <4>2
    <3>3. g = [i \in 1 .. x |-> IF i = 1 THEN s[i] ELSE g[i - 1] \o s[i]]
      BY <3>2, Zenon
    <3>4. Joins(g, s, x)
      BY <3>3, Zenon DEF Joins
    <3> QED
      BY <2>2, <3>4
  <2> QED
    BY <2>3, <2>4
<1> QED
  BY <1>1


LEMMA FlattenIs ==
  ASSUME NEW s, Len(s) \in Nat \ {0}
  PROVE  \E g : Joins(g, s, Len(s)) /\ FlattenSeq(s) = g[Len(s)]
<1> DEFINE F == CHOOSE g : Joins(g, s, Len(s))
<1>1. Joins(F, s, Len(s))
  BY JoinsExist
<1>2. FlattenSeq(s) = F[Len(s)]
  BY DEF FlattenSeq, Joins
<1> HIDE DEF F
<1> QED
  BY <1>1, <1>2

-----------------------------------------------------------------------------
(* The text of a path                                                      *)

LEMMA NameParts ==
  ASSUME FileLookupAssumption, NEW name \in Names
  PROVE  /\ name \in Strings /\ Len(name) \in Nat \ {0}
         /\ \A i \in 1 .. Len(name) : name[i] \in Nat \ {0}
<1>1. name \in Seq(Nat \ {0}) /\ name # <<>>
  BY DEF FileLookupAssumption
<1>2. Len(name) \in Nat \ {0} /\ \A i \in 1 .. Len(name) : name[i] \in Nat \ {0}
  BY <1>1, EmptySeq, LenProperties, ElementOfSeq
<1>3. name \in Strings
  BY <1>1 DEF Strings, Char
<1> QED
  BY <1>2, <1>3

LEMMA PathParts ==
  ASSUME NEW path \in Paths
  PROVE  /\ path \in Seq(Names) /\ Len(path) \in Nat /\ DOMAIN path = 1 .. Len(path)
         /\ \A k \in 1 .. Len(path) : path[k] \in Names
<1>1. PICK n \in 0 .. Depth : path \in [1 .. n -> Names]
  BY DEF Paths
<1>2. n \in Nat
  OBVIOUS
<1> QED
  BY <1>1, <1>2

(* g has the text of the first k names for every k.                        *)
Spells(g, path) ==
  /\ g \in [0 .. Len(path) -> Strings]
  /\ g[0] = <<>>
  /\ \A k \in 1 .. Len(path) : g[k] = g[k - 1] \o (<<Slash>> \o path[k])

LEMMA Spelled ==
  ASSUME FileLookupAssumption, NEW path \in Paths
  PROVE  \E g : /\ Spells(g, path)
                /\ PathText(path) = IF path = <<>> THEN <<Slash>> ELSE g[Len(path)]
<1> DEFINE n == Len(path)
           part(k) == <<Slash>> \o path[k]
           parts == [k \in DOMAIN path |-> part(k)]
<1>1. /\ n \in Nat /\ DOMAIN path = 1 .. n /\ (path = <<>> <=> n = 0)
      /\ \A k \in 1 .. n : path[k] \in Strings
  BY PathParts, NameParts, EmptySeq
<1>2. \A k \in 1 .. n : part(k) \in Strings
  BY <1>1 DEF Slash, Strings, Char
<1>3. <<>> \in Strings
  BY EmptySeq DEF Strings
<1>4. CASE path = <<>>
  <2> DEFINE g == [k \in 0 .. 0 |-> <<>>]
  <2>1. Spells(g, path)
    BY <1>1, <1>3, <1>4 DEF Spells
  <2>2. PathText(path) = <<Slash>>
    BY <1>4 DEF PathText
  <2> QED
    BY <1>4, <2>1, <2>2
<1>5. CASE path # <<>>
  <2>1. parts \in Seq(Strings) /\ Len(parts) = n /\ n # 0
    BY <1>1, <1>2, <1>5
  <2>2. PathText(path) = FlattenSeq(parts)
    BY <1>5 DEF PathText
  <2>3. \A k \in 1 .. n : parts[k] = part(k)
    BY <1>1
  <2> HIDE DEF parts, part, n
  <2>4. PICK h : Joins(h, parts, n) /\ FlattenSeq(parts) = h[n]
    BY <1>1, <2>1, FlattenIs
  <2>5. \A k \in 1 .. n : h[k] = IF k = 1 THEN part(k) ELSE h[k - 1] \o part(k)
    BY <2>3, <2>4 DEF Joins
  <2> DEFINE T == {m \in Nat : m \in 1 .. n /\ h[m] \notin Strings}
  <2>6. T = {}
    <3> SUFFICES ASSUME T # {} PROVE FALSE
      OBVIOUS
    <3>1. PICK x \in T : x = 0 \/ x - 1 \in Nat \ T
      <4>1. T \subseteq Nat
        OBVIOUS
      <4> HIDE DEF T
      <4> QED
        BY <4>1, LeastOrZero
    <3>2. x \in 1 .. n /\ h[x] \notin Strings /\ (x = 1 \/ h[x - 1] \in Strings)
      BY <1>1, <3>1
    <3>3. CASE x = 1
      BY <1>2, <2>5, <3>2, <3>3
    <3>4. CASE x # 1
      <4>1. h[x] = h[x - 1] \o part(x) /\ h[x - 1] \in Strings /\ part(x) \in Strings
        BY <1>2, <2>5, <3>2, <3>4
      <4> QED
        BY <3>2, <4>1 DEF Strings
    <3> QED
      BY <3>3, <3>4
  <2>7. \A k \in 1 .. n : h[k] \in Strings
    BY <1>1, <2>6
  <2> DEFINE g == [k \in 0 .. n |-> IF k = 0 THEN <<>> ELSE h[k]]
  <2>8. g \in [0 .. n -> Strings] /\ g[0] = <<>> /\ g[n] = h[n]
    BY <1>1, <1>3, <2>1, <2>7
  <2>9. ASSUME NEW k \in 1 .. n PROVE g[k] = g[k - 1] \o part(k)
    <3>1. CASE k = 1
      <4>1. g[k] = part(k) /\ g[k - 1] = <<>>
        BY <1>1, <2>5, <3>1
      <4>2. <<>> \o part(k) = part(k)
        BY <1>2 DEF Strings
      <4> QED
        BY <4>1, <4>2
    <3>2. CASE k # 1
      <4>1. k \in 0 .. n /\ k - 1 \in 0 .. n /\ k # 0 /\ k - 1 # 0
        BY <1>1, <3>2
      <4>2. g[k] = h[k] /\ g[k - 1] = h[k - 1]
        BY <4>1
      <4> HIDE DEF g
      <4> QED
        BY <2>5, <3>2, <4>2
    <3> QED
      BY <3>1, <3>2
  <2> HIDE DEF g
  <2>10. Spells(g, path)
    BY <2>8, <2>9 DEF Spells, n, part
  <2> QED
    BY <1>5, <2>2, <2>4, <2>8, <2>10 DEF n
<1> QED
  BY <1>4, <1>5

-----------------------------------------------------------------------------
(* Texts and names                                                         *)

Begins(u, w) == Len(u) <= Len(w) /\ \A i \in 1 .. Len(u) : w[i] = u[i]

(* w is u with one more name.                                              *)
Adds(u, a, w) ==
  /\ Len(w) = Len(u) + 1 + Len(a)
  /\ \A i \in 1 .. Len(u) : w[i] = u[i]
  /\ w[Len(u) + 1] = Slash
  /\ \A i \in 1 .. Len(a) : w[Len(u) + 1 + i] = a[i]

(* In w the name a follows the text u, between two slashes.                *)
Named(u, a, w) ==
  /\ Len(w) >= Len(u) + 1 + Len(a) + 1
  /\ w[Len(u) + 1] = Slash
  /\ \A i \in 1 .. Len(a) : w[Len(u) + 1 + i] = a[i]
  /\ w[Len(u) + 1 + Len(a) + 1] = Slash

LEMMA ConcatIs ==
  ASSUME NEW u \in Seq(Nat), NEW v \in Seq(Nat)
  PROVE  /\ u \o v \in Seq(Nat) /\ Len(u) \in Nat /\ Len(v) \in Nat
         /\ Len(u \o v) = Len(u) + Len(v)
         /\ \A i \in 1 .. Len(u) : (u \o v)[i] = u[i]
         /\ \A i \in 1 .. Len(v) : (u \o v)[Len(u) + i] = v[i]
<1>1. /\ u \o v \in Seq(Nat) /\ Len(u \o v) = Len(u) + Len(v)
      /\ \A i \in 1 .. Len(u) + Len(v) :
           (u \o v)[i] = IF i <= Len(u) THEN u[i] ELSE v[i - Len(u)]
  BY ConcatProperties
<1>2. Len(u) \in Nat /\ Len(v) \in Nat
  BY LenProperties
<1>3. \A i \in 1 .. Len(u) : i \in 1 .. Len(u) + Len(v) /\ i <= Len(u)
  BY <1>2
<1>4. \A i \in 1 .. Len(v) : /\ Len(u) + i \in 1 .. Len(u) + Len(v)
                             /\ ~(Len(u) + i <= Len(u)) /\ (Len(u) + i) - Len(u) = i
  BY <1>2
<1> QED
  BY <1>1, <1>2, <1>3, <1>4

LEMMA AddsIs ==
  ASSUME NEW u \in Strings, NEW a \in Strings
  PROVE  Adds(u, a, u \o (<<Slash>> \o a))
<1> DEFINE one == <<Slash>>
           v == one \o a
           w == u \o v
<1>1. /\ u \in Seq(Nat) /\ Len(u) \in Nat /\ a \in Seq(Nat) /\ Len(a) \in Nat
      /\ one \in Seq(Nat) /\ Len(one) = 1 /\ one[1] = Slash
  BY DEF Strings, Char, Slash
<1> HIDE DEF one
<1>2. /\ v \in Seq(Nat) /\ Len(v) = 1 + Len(a) /\ v[1] = Slash
      /\ \A i \in 1 .. Len(a) : v[1 + i] = a[i]
  <2>1. /\ v \in Seq(Nat) /\ Len(v) = Len(one) + Len(a)
        /\ \A i \in 1 .. Len(one) : v[i] = one[i]
        /\ \A i \in 1 .. Len(a) : v[Len(one) + i] = a[i]
    BY <1>1, ConcatIs
  <2> HIDE DEF v
  <2> QED
    BY <1>1, <2>1
<1> HIDE DEF v
<1>3. /\ Len(w) = Len(u) + Len(v)
      /\ \A i \in 1 .. Len(u) : w[i] = u[i]
      /\ \A i \in 1 .. Len(v) : w[Len(u) + i] = v[i]
  BY <1>1, <1>2, ConcatIs
<1> HIDE DEF w
<1>4. Len(w) = Len(u) + 1 + Len(a) /\ w[Len(u) + 1] = Slash
  BY <1>1, <1>2, <1>3
<1>5. \A i \in 1 .. Len(a) : w[Len(u) + 1 + i] = a[i]
  <2> TAKE i \in 1 .. Len(a)
  <2>1. 1 + i \in 1 .. Len(v) /\ Len(u) + (1 + i) = Len(u) + 1 + i
    BY <1>1, <1>2
  <2> QED
    BY <1>2, <1>3, <2>1
<1>6. Adds(u, a, w)
  BY <1>3, <1>4, <1>5 DEF Adds
<1> QED
  BY <1>6 DEF w, v, one

LEMMA BeginsOn ==
  ASSUME NEW u \in Strings, NEW v \in Strings, NEW w \in Strings
  PROVE  /\ Begins(u, u)
         /\ Begins(u, v) /\ Begins(v, w) => Begins(u, w)
<1> Len(u) \in Nat /\ Len(v) \in Nat /\ Len(w) \in Nat
  BY DEF Strings
<1>1. Begins(u, u)
  BY DEF Begins
<1>2. ASSUME Begins(u, v), Begins(v, w) PROVE Begins(u, w)
  <2>1. Len(u) <= Len(v) /\ Len(v) <= Len(w)
    BY <1>2 DEF Begins
  <2>2. \A i \in 1 .. Len(u) : i \in 1 .. Len(v)
    BY <2>1
  <2>3. \A i \in 1 .. Len(u) : w[i] = u[i]
    BY <1>2, <2>2 DEF Begins
  <2> QED
    BY <2>1, <2>3 DEF Begins
<1> QED
  BY <1>1, <1>2

LEMMA AddsBegins ==
  ASSUME NEW u \in Strings, NEW a \in Strings, NEW w \in Strings, Adds(u, a, w)
  PROVE  Begins(u, w)
<1> Len(u) \in Nat /\ Len(a) \in Nat
  BY DEF Strings
<1> QED
  BY DEF Adds, Begins

(* A name is followed by the slash that is appended, or by the next name's.*)
LEMMA LastNamed ==
  ASSUME NEW u \in Strings, NEW a \in Strings, NEW w \in Strings, Adds(u, a, w)
  PROVE  Named(u, a, Append(w, Slash))
<1> DEFINE x == Append(w, Slash)
<1>1. Len(u) \in Nat /\ Len(a) \in Nat /\ Len(w) \in Nat
  BY DEF Strings
<1>2. /\ Len(x) = Len(w) + 1 /\ x[Len(w) + 1] = Slash
      /\ \A i \in 1 .. Len(w) : x[i] = w[i]
  BY DEF Strings
<1> HIDE DEF x
<1>3. Len(w) = Len(u) + 1 + Len(a)
  BY DEF Adds
<1>4. Len(u) + 1 \in 1 .. Len(w)
      /\ \A i \in 1 .. Len(a) : Len(u) + 1 + i \in 1 .. Len(w)
  BY <1>1, <1>3
<1>5. x[Len(u) + 1] = Slash /\ \A i \in 1 .. Len(a) : x[Len(u) + 1 + i] = a[i]
  BY <1>2, <1>4 DEF Adds
<1>6. Len(x) >= Len(u) + 1 + Len(a) + 1 /\ x[Len(u) + 1 + Len(a) + 1] = Slash
  BY <1>1, <1>2, <1>3
<1>7. Named(u, a, x)
  BY <1>5, <1>6 DEF Named
<1> QED
  BY <1>7 DEF x

LEMMA NextNamed ==
  ASSUME NEW u \in Strings, NEW a \in Strings, NEW w \in Strings, Adds(u, a, w),
         NEW b \in Strings, NEW x \in Strings, Adds(w, b, x),
         NEW y \in Strings, Begins(x, y)
  PROVE  Named(u, a, y)
<1>1. /\ Len(u) \in Nat /\ Len(a) \in Nat /\ Len(w) \in Nat /\ Len(b) \in Nat
      /\ Len(x) \in Nat /\ Len(y) \in Nat
  BY DEF Strings
<1>2. Len(w) = Len(u) + 1 + Len(a) /\ Len(x) = Len(w) + 1 + Len(b) /\ Len(x) <= Len(y)
  BY DEF Adds, Begins
<1>3. /\ Len(u) + 1 \in 1 .. Len(w) /\ Len(w) + 1 \in 1 .. Len(x)
      /\ \A i \in 1 .. Len(a) : Len(u) + 1 + i \in 1 .. Len(w)
      /\ \A i \in 1 .. Len(w) : i \in 1 .. Len(x)
  BY <1>1, <1>2
<1>4. \A i \in 1 .. Len(w) : y[i] = w[i]
  BY <1>3 DEF Adds, Begins
<1>5. y[Len(u) + 1] = Slash /\ \A i \in 1 .. Len(a) : y[Len(u) + 1 + i] = a[i]
  BY <1>3, <1>4 DEF Adds
<1>6. y[Len(w) + 1] = Slash
  BY <1>3 DEF Adds, Begins
<1>7. Len(y) >= Len(u) + 1 + Len(a) + 1 /\ Len(u) + 1 + Len(a) + 1 = Len(w) + 1
  BY <1>1, <1>2
<1> QED
  BY <1>5, <1>6, <1>7 DEF Named

(* A name has no slash in it: it ends where the slash is.                  *)
LEMMA NamesAgree ==
  ASSUME FileLookupAssumption, NEW a \in Names, NEW b \in Names,
         NEW u \in Strings, NEW w \in Strings, NEW x \in Strings,
         Named(u, a, w), Named(u, b, x), Begins(w, x)
  PROVE  a = b
<1>1. /\ a \in Strings /\ b \in Strings
      /\ Len(a) \in Nat /\ Len(b) \in Nat /\ Len(u) \in Nat
      /\ Len(w) \in Nat /\ Len(x) \in Nat
      /\ \A i \in 1 .. Len(a) : a[i] # Slash
      /\ \A i \in 1 .. Len(b) : b[i] # Slash
  BY NameParts DEF Strings, Slash
<1>2. /\ Len(w) >= Len(u) + 1 + Len(a) + 1
      /\ w[Len(u) + 1 + (Len(a) + 1)] = Slash /\ x[Len(u) + 1 + (Len(b) + 1)] = Slash
      /\ \A i \in 1 .. Len(a) : w[Len(u) + 1 + i] = a[i]
      /\ \A i \in 1 .. Len(b) : x[Len(u) + 1 + i] = b[i]
  <2>1. /\ Len(u) + 1 + (Len(a) + 1) = Len(u) + 1 + Len(a) + 1
        /\ Len(u) + 1 + (Len(b) + 1) = Len(u) + 1 + Len(b) + 1
    BY <1>1
  <2> QED
    BY <2>1 DEF Named
<1>3. \A i \in 1 .. Len(a) + 1 : x[Len(u) + 1 + i] = w[Len(u) + 1 + i]
  <2>1. \A i \in 1 .. Len(a) + 1 : Len(u) + 1 + i \in 1 .. Len(w)
    BY <1>1, <1>2
  <2> QED
    BY <2>1 DEF Begins
<1>4. ~(Len(a) < Len(b))
  <2> SUFFICES ASSUME Len(a) < Len(b) PROVE FALSE
    OBVIOUS
  <2>1. Len(a) + 1 \in 1 .. Len(b) /\ Len(a) + 1 \in 1 .. Len(a) + 1
    BY <1>1
  <2> QED
    BY <1>1, <1>2, <1>3, <2>1
<1>5. ~(Len(b) < Len(a))
  <2> SUFFICES ASSUME Len(b) < Len(a) PROVE FALSE
    OBVIOUS
  <2>1. Len(b) + 1 \in 1 .. Len(a) /\ Len(b) + 1 \in 1 .. Len(a) + 1
    BY <1>1
  <2> QED
    BY <1>1, <1>2, <1>3, <2>1
<1>6. Len(a) = Len(b)
  BY <1>1, <1>4, <1>5
<1>7. \A i \in 1 .. Len(a) : a[i] = b[i]
  <2>1. \A i \in 1 .. Len(a) : i \in 1 .. Len(b) /\ i \in 1 .. Len(a) + 1
    BY <1>1, <1>6
  <2> QED
    BY <1>2, <1>3, <2>1
<1>8. a \in Seq(Char) /\ b \in Seq(Char)
  BY <1>1 DEF Strings
<1> QED
  BY <1>6, <1>7, <1>8, SeqEqual

-----------------------------------------------------------------------------
(* A path's text, name by name                                             *)

LEMMA SpellsTypes ==
  ASSUME FileLookupAssumption, NEW path \in Paths, NEW g, Spells(g, path)
  PROVE  /\ Len(path) \in Nat
         /\ \A k \in 0 .. Len(path) : g[k] \in Strings /\ Len(g[k]) \in Nat
         /\ g[0] = <<>> /\ Len(g[0]) = 0
         /\ \A k \in 1 .. Len(path) : path[k] \in Strings /\ Len(path[k]) \in Nat \ {0}
<1>1. Len(path) \in Nat /\ \A k \in 1 .. Len(path) : path[k] \in Names
  BY PathParts
<1>2. \A k \in 1 .. Len(path) : path[k] \in Strings /\ Len(path[k]) \in Nat \ {0}
  BY <1>1, NameParts
<1>3. \A k \in 0 .. Len(path) : g[k] \in Strings /\ Len(g[k]) \in Nat
  <2>1. \A k \in 0 .. Len(path) : g[k] \in Strings
    BY DEF Spells
  <2> QED
    BY <2>1 DEF Strings
<1>4. g[0] = <<>> /\ Len(g[0]) = 0
  BY DEF Spells
<1> QED
  BY <1>1, <1>2, <1>3, <1>4

LEMMA SpellsStep ==
  ASSUME FileLookupAssumption, NEW path \in Paths, NEW g, Spells(g, path),
         NEW k \in 1 .. Len(path), NEW j \in 0 .. Len(path), j = k - 1
  PROVE  Adds(g[j], path[k], g[k])
<1>1. g[j] \in Strings /\ path[k] \in Strings
  BY SpellsTypes
<1>2. g[k] = g[j] \o (<<Slash>> \o path[k])
  BY DEF Spells
<1> QED
  BY <1>1, <1>2, AddsIs

(* The text of the first names begins the text of all of them.             *)
LEMMA SpellsOn ==
  ASSUME FileLookupAssumption, NEW path \in Paths, NEW g, Spells(g, path),
         NEW k \in 0 .. Len(path), NEW m \in k .. Len(path)
  PROVE  Begins(g[k], g[m])
<1> DEFINE T == {d \in Nat : k + d <= Len(path) /\ ~Begins(g[k], g[k + d])}
<1>1. Len(path) \in Nat /\ \A j \in 0 .. Len(path) : g[j] \in Strings
  BY SpellsTypes
<1>2. T = {}
  <2> SUFFICES ASSUME T # {} PROVE FALSE
    OBVIOUS
  <2>1. PICK x \in T : x = 0 \/ x - 1 \in Nat \ T
    <3>1. T \subseteq Nat
      OBVIOUS
    <3> HIDE DEF T
    <3> QED
      BY <3>1, LeastOrZero
  <2> DEFINE p == k + x
             q == k + (x - 1)
  <2>2. x \in Nat /\ p <= Len(path) /\ ~Begins(g[k], g[p])
    BY <2>1
  <2>3. x # 0
    <3>1. x = 0 => p = k
      BY <2>2
    <3> HIDE DEF p
    <3> QED
      BY <1>1, <2>2, <3>1, BeginsOn
  <2>4. /\ p \in 1 .. Len(path) /\ p \in 0 .. Len(path)
        /\ q \in 0 .. Len(path) /\ q = p - 1
    BY <1>1, <2>2, <2>3
  <2>5. Begins(g[k], g[q])
    BY <1>1, <2>1, <2>3, <2>4
  <2> HIDE DEF p, q, T
  <2>6. /\ g[k] \in Strings /\ g[p] \in Strings /\ g[q] \in Strings
        /\ path[p] \in Strings
    BY <1>1, <2>4, SpellsTypes
  <2>7. Adds(g[q], path[p], g[p])
    BY <2>4, SpellsStep
  <2>8. Begins(g[q], g[p])
    BY <2>6, <2>7, AddsBegins
  <2> QED
    BY <2>2, <2>5, <2>6, <2>8, BeginsOn
<1>3. m - k \in Nat /\ k + (m - k) = m /\ m <= Len(path)
  BY <1>1
<1> QED
  BY <1>2, <1>3

(* Between its slashes each name can be read off the text.                 *)
LEMMA NameAt ==
  ASSUME FileLookupAssumption, NEW path \in Paths, NEW g, Spells(g, path),
         NEW k \in 1 .. Len(path), NEW j \in 0 .. Len(path), j = k - 1
  PROVE  Named(g[j], path[k], Append(g[Len(path)], Slash))
<1> DEFINE n == Len(path)
           y == Append(g[n], Slash)
<1>1. /\ n \in Nat /\ k \in 0 .. n /\ n \in 0 .. n
      /\ g[j] \in Strings /\ g[k] \in Strings /\ g[n] \in Strings /\ path[k] \in Strings
  BY SpellsTypes
<1>2. Adds(g[j], path[k], g[k])
  BY SpellsStep
<1>3. CASE k = n
  BY <1>1, <1>2, <1>3, LastNamed
<1>4. CASE k # n
  <2> DEFINE l == k + 1
  <2>1. l \in 1 .. n /\ l \in 0 .. n /\ k = l - 1 /\ n \in l .. n
    BY <1>1, <1>4
  <2> HIDE DEF l
  <2>2. g[l] \in Strings /\ path[l] \in Strings
    BY <2>1, SpellsTypes
  <2>3. Adds(g[k], path[l], g[l])
    BY <1>1, <2>1, SpellsStep
  <2>4. Begins(g[l], g[n])
    BY <2>1, SpellsOn
  <2>5. y \in Strings /\ Begins(g[n], y)
    <3>1. y \in Strings /\ Len(y) = Len(g[n]) + 1 /\ \A i \in 1 .. Len(g[n]) : y[i] = g[n][i]
      BY <1>1 DEF Strings, Char, Slash
    <3>2. Len(g[n]) <= Len(y)
      BY <1>1, <3>1 DEF Strings
    <3> HIDE DEF y
    <3> QED
      BY <3>1, <3>2 DEF Begins
  <2> HIDE DEF y
  <2>6. Begins(g[l], y)
    BY <1>1, <2>2, <2>4, <2>5, BeginsOn
  <2>7. Named(g[j], path[k], y)
    BY <1>1, <1>2, <2>2, <2>3, <2>5, <2>6, NextNamed
  <2> QED
    BY <2>7 DEF y, n
<1> QED
  BY <1>3, <1>4

LEMMA PrefixBegins ==
  ASSUME NEW S, NEW u \in Seq(S), NEW w \in Seq(S)
  PROVE  IsPrefix(u, w) <=> Begins(u, w)
<1>1. Len(u) \in Nat /\ Len(w) \in Nat
  OBVIOUS
<1>2. ASSUME Len(u) <= Len(w)
      PROVE  SubSeq(u, 1, Len(u)) = SubSeq(w, 1, Len(u)) <=> \A i \in 1 .. Len(u) : w[i] = u[i]
  <2>1. /\ SubSeq(u, 1, Len(u)) \in Seq(S) /\ Len(SubSeq(u, 1, Len(u))) = Len(u)
        /\ SubSeq(w, 1, Len(u)) \in Seq(S) /\ Len(SubSeq(w, 1, Len(u))) = Len(u)
        /\ \A i \in 1 .. Len(u) : SubSeq(u, 1, Len(u))[i] = u[i] /\ SubSeq(w, 1, Len(u))[i] = w[i]
    BY <1>1, <1>2
  <2> DEFINE a == SubSeq(u, 1, Len(u))
             b == SubSeq(w, 1, Len(u))
  <2> HIDE DEF a, b
  <2>2. a \in Seq(S) /\ b \in Seq(S) /\ Len(a) = Len(u) /\ Len(b) = Len(u)
        /\ \A i \in 1 .. Len(u) : a[i] = u[i] /\ b[i] = w[i]
    BY <2>1 DEF a, b
  <2>3. a = b <=> \A i \in 1 .. Len(u) : w[i] = u[i]
    BY <2>2, SeqEqual
  <2> QED
    BY <2>3 DEF a, b
<1>3. IsPrefix(u, w) <=> Len(u) <= Len(w) /\ SubSeq(u, 1, Len(u)) = SubSeq(w, 1, Len(u))
  BY DEF IsPrefix
<1> QED
  BY <1>1, <1>2, <1>3 DEF Begins

(* Paths with the same first names spell the same first texts.             *)
LEMMA SameSpelling ==
  ASSUME FileLookupAssumption, NEW r \in Paths, NEW c \in Paths,
         NEW gr, Spells(gr, r), NEW gc, Spells(gc, c),
         Len(r) <= Len(c), \A k \in 1 .. Len(r) : c[k] = r[k]
  PROVE  \A k \in 0 .. Len(r) : gr[k] = gc[k]
<1> DEFINE T == {k \in Nat : k \in 0 .. Len(r) /\ gr[k] # gc[k]}
<1>1. Len(r) \in Nat /\ Len(c) \in Nat /\ gr[0] = <<>> /\ gc[0] = <<>>
  BY SpellsTypes
<1>2. T = {}
  <2> SUFFICES ASSUME T # {} PROVE FALSE
    OBVIOUS
  <2>1. PICK x \in T : x = 0 \/ x - 1 \in Nat \ T
    <3>1. T \subseteq Nat
      OBVIOUS
    <3> HIDE DEF T
    <3> QED
      BY <3>1, LeastOrZero
  <2>2. x \in Nat /\ x \in 0 .. Len(r) /\ gr[x] # gc[x]
    BY <2>1
  <2>3. x # 0
    BY <1>1, <2>2
  <2> DEFINE j == x - 1
  <2>4. x \in 1 .. Len(r) /\ x \in 1 .. Len(c) /\ j \in 0 .. Len(r)
    BY <1>1, <2>2, <2>3
  <2>5. gr[j] = gc[j]
    BY <2>1, <2>3, <2>4
  <2>6. gr[x] = gr[j] \o (<<Slash>> \o r[x]) /\ gc[x] = gc[j] \o (<<Slash>> \o c[x])
    BY <2>4 DEF Spells
  <2> QED
    BY <2>2, <2>4, <2>5, <2>6
<1> QED
  BY <1>1, <1>2

(* A text that a path's text and a slash begin is the text of a path that  *)
(* the first one begins.                                                   *)
LEMMA NamesOfPrefix ==
  ASSUME FileLookupAssumption, NEW r \in Paths, NEW c \in Paths,
         NEW gr, Spells(gr, r), NEW gc, Spells(gc, c),
         Begins(Append(gr[Len(r)], Slash), gc[Len(c)])
  PROVE  Len(r) <= Len(c) /\ \A k \in 1 .. Len(r) : c[k] = r[k]
<1> DEFINE n == Len(r)
           m == Len(c)
           w == Append(gr[n], Slash)
           x == Append(gc[m], Slash)
           Good(k) == k <= m /\ gr[k] = gc[k] /\ (k # 0 => c[k] = r[k])
           T == {k \in Nat : k \in 0 .. n /\ ~Good(k)}
<1>1. /\ n \in Nat /\ m \in Nat /\ gr[0] = <<>> /\ gc[0] = <<>>
      /\ \A k \in 0 .. n : gr[k] \in Strings /\ Len(gr[k]) \in Nat
      /\ \A k \in 0 .. m : gc[k] \in Strings /\ Len(gc[k]) \in Nat
  BY SpellsTypes
<1>2. n \in 0 .. n /\ m \in 0 .. m
  BY <1>1
<1>3. w \in Strings /\ Len(w) = Len(gr[n]) + 1
  BY <1>1, <1>2 DEF Strings, Char, Slash
<1>4. x \in Strings /\ Len(x) = Len(gc[m]) + 1 /\ \A i \in 1 .. Len(gc[m]) : x[i] = gc[m][i]
  BY <1>1, <1>2 DEF Strings, Char, Slash
<1>5. Begins(gc[m], x)
  BY <1>1, <1>2, <1>4 DEF Begins
<1>6. Begins(w, gc[m]) /\ gc[m] \in Strings
  BY <1>1, <1>2
<1>7. Begins(w, x)
  BY <1>3, <1>4, <1>5, <1>6, BeginsOn
<1>8. Len(gr[n]) + 1 <= Len(gc[m])
  BY <1>3, <1>6 DEF Begins
<1>9. T = {}
  <2> SUFFICES ASSUME T # {} PROVE FALSE
    OBVIOUS
  <2>1. PICK p \in T : p = 0 \/ p - 1 \in Nat \ T
    <3>1. T \subseteq Nat
      OBVIOUS
    <3> HIDE DEF T
    <3> QED
      BY <3>1, LeastOrZero
  <2>2. p \in Nat /\ p \in 0 .. n /\ ~Good(p)
    BY <2>1
  <2>3. p # 0
    BY <1>1, <2>2
  <2> DEFINE j == p - 1
  <2>4. p \in 1 .. n /\ j \in 0 .. n /\ j \in Nat
    BY <1>1, <2>2, <2>3
  <2>5. j <= m /\ gr[j] = gc[j]
    BY <2>1, <2>3, <2>4
  <2>6. j # m
    <3> SUFFICES ASSUME j = m PROVE FALSE
      OBVIOUS
    <3>1. Begins(gr[j], gr[n])
      BY <1>1, <2>4, SpellsOn
    <3>2. Len(gr[j]) <= Len(gr[n]) /\ Len(gr[j]) = Len(gc[m])
      BY <2>5, <3>1 DEF Begins
    <3>3. Len(gr[n]) \in Nat /\ Len(gc[m]) \in Nat
      BY <1>1, <1>2
    <3> HIDE DEF j
    <3> QED
      BY <1>8, <3>2, <3>3
  <2>7. p \in 1 .. m /\ j \in 0 .. m
    BY <1>1, <2>4, <2>5, <2>6
  <2>8. j = p - 1
    OBVIOUS
  <2> HIDE DEF j, T
  <2>9. Named(gr[j], r[p], w) /\ Named(gc[j], c[p], x)
    BY <2>4, <2>7, <2>8, NameAt
  <2>10. r[p] \in Names /\ c[p] \in Names /\ gr[j] \in Strings
    BY <1>1, <2>4, <2>7, PathParts
  <2> HIDE DEF w, x
  <2>11. r[p] = c[p]
    BY <1>3, <1>4, <1>7, <2>5, <2>9, <2>10, NamesAgree
  <2>12. gr[p] = gr[j] \o (<<Slash>> \o r[p]) /\ gc[p] = gc[j] \o (<<Slash>> \o c[p])
    BY <2>4, <2>7, <2>8 DEF Spells
  <2> QED
    BY <1>1, <2>2, <2>5, <2>7, <2>11, <2>12
<1>10. \A k \in 0 .. n : Good(k)
  BY <1>1, <1>9
<1> QED
  BY <1>1, <1>2, <1>10

(* What the handler keeps of the directory is its text and one slash.      *)
LEMMA SlashOnce ==
  ASSUME FileLookupAssumption, NEW r \in Paths, NEW g, Spells(g, r),
         PathText(r) = IF r = <<>> THEN <<Slash>> ELSE g[Len(r)]
  PROVE  WithSlash(PathText(r)) = Append(g[Len(r)], Slash)
<1>1. Len(r) \in Nat /\ r \in Seq(Names)
  BY PathParts
<1>2. CASE r = <<>>
  <2>1. Len(r) = 0 /\ g[Len(r)] = <<>>
    BY <1>2, SpellsTypes
  <2>2. PathText(r) = <<Slash>> /\ Append(<<>>, Slash) = <<Slash>>
    BY <1>2
  <2>3. <<Slash>>[Len(<<Slash>>)] = Slash
    OBVIOUS
  <2> QED
    BY <2>1, <2>2, <2>3 DEF WithSlash
<1>3. CASE r # <<>>
  <2> DEFINE n == Len(r)
             j == n - 1
  <2>1. n \in 1 .. n /\ j \in 0 .. n /\ n \in 0 .. n /\ j = n - 1
    BY <1>1, <1>3
  <2> HIDE DEF j
  <2>2. Adds(g[j], r[n], g[n])
    BY <2>1, SpellsStep
  <2>3. /\ r[n] \in Names /\ Len(r[n]) \in Nat \ {0} /\ Len(g[j]) \in Nat
        /\ r[n][Len(r[n])] # Slash
    <3>1. r[n] \in Names
      BY <2>1, PathParts
    <3>2. Len(r[n]) \in Nat \ {0} /\ \A i \in 1 .. Len(r[n]) : r[n][i] \in Nat \ {0}
      BY <3>1, NameParts
    <3>3. Len(r[n]) \in 1 .. Len(r[n])
      BY <3>2
    <3>4. Len(g[j]) \in Nat
      BY <2>1, SpellsTypes
    <3> QED
      BY <3>1, <3>2, <3>3, <3>4 DEF Slash
  <2>4. Len(r[n]) \in 1 .. Len(r[n]) /\ Len(g[n]) = Len(g[j]) + 1 + Len(r[n])
    BY <2>2, <2>3 DEF Adds
  <2>5. g[n][Len(g[n])] # Slash
    BY <2>2, <2>3, <2>4 DEF Adds
  <2>6. PathText(r) = g[n]
    BY <1>3
  <2> QED
    BY <2>5, <2>6 DEF WithSlash
<1> QED
  BY <1>2, <1>3

(* Comparing the characters, with the slash, compares the names.           *)
LEMMA CompareNames ==
  ASSUME FileLookupAssumption, NEW r \in Paths, NEW c \in Paths
  PROVE  /\ Matches(WithSlash(PathText(r)), PathText(c)) => IsPrefix(r, c)
         /\ IsStrictPrefix(r, c) => Matches(WithSlash(PathText(r)), PathText(c))
<1> DEFINE n == Len(r)
           m == Len(c)
<1>1. PICK gr : Spells(gr, r) /\ PathText(r) = IF r = <<>> THEN <<Slash>> ELSE gr[Len(r)]
  BY Spelled
<1>2. PICK gc : Spells(gc, c) /\ PathText(c) = IF c = <<>> THEN <<Slash>> ELSE gc[Len(c)]
  BY Spelled
<1> DEFINE w == Append(gr[n], Slash)
           x == PathText(c)
<1>3. WithSlash(PathText(r)) = w
  BY <1>1, SlashOnce
<1>4. /\ r \in Seq(Names) /\ c \in Seq(Names) /\ n \in Nat /\ m \in Nat
      /\ n \in 0 .. n /\ m \in 0 .. m
      /\ (r = <<>> <=> n = 0) /\ (c = <<>> <=> m = 0)
  BY PathParts, EmptySeq
<1>5. /\ gr[n] \in Strings /\ Len(gr[n]) \in Nat
      /\ gc[m] \in Strings /\ Len(gc[m]) \in Nat
  BY <1>1, <1>2, <1>4, SpellsTypes
<1>6. /\ w \in Strings /\ Len(w) = Len(gr[n]) + 1 /\ w[Len(gr[n]) + 1] = Slash
      /\ \A i \in 1 .. Len(gr[n]) : w[i] = gr[n][i]
  BY <1>5 DEF Strings, Char, Slash
<1>7. x \in Strings
  BY <1>2, <1>5 DEF Strings, Char, Slash
<1>8. (Matches(w, x) <=> Begins(w, x)) /\ (IsPrefix(r, c) <=> Begins(r, c))
  <2> HIDE DEF w, x
  <2>1. w \in Seq(Char) /\ x \in Seq(Char)
    BY <1>6, <1>7 DEF Strings
  <2> QED
    BY <1>4, <2>1, PrefixBegins DEF Matches
<1>9. ASSUME Begins(w, x) PROVE Begins(r, c)
  <2>1. CASE c = <<>>
    <3>1. Len(x) = 1
      BY <1>2, <2>1
    <3>2. Len(gr[n]) = 0
      BY <1>5, <1>6, <1>9, <3>1 DEF Begins
    <3>3. n = 0
      <4> SUFFICES ASSUME n # 0 PROVE FALSE
        OBVIOUS
      <4> DEFINE j == n - 1
      <4>1. n \in 1 .. n /\ j \in 0 .. n /\ j = n - 1
        BY <1>4
      <4> HIDE DEF j
      <4>2. Adds(gr[j], r[n], gr[n])
        BY <1>1, <4>1, SpellsStep
      <4>3. Len(gr[j]) \in Nat /\ Len(r[n]) \in Nat
        BY <1>1, <4>1, SpellsTypes
      <4>4. Len(gr[n]) = Len(gr[j]) + 1 + Len(r[n])
        BY <4>2, Zenon DEF Adds
      <4> DEFINE a == Len(gr[j])
                 b == Len(r[n])
      <4>5. a \in Nat /\ b \in Nat /\ 0 = a + 1 + b
        BY <3>2, <4>3, <4>4, Zenon
      <4> HIDE DEF a, b
      <4> QED
        BY <4>5
    <3> QED
      BY <1>4, <3>3 DEF Begins
  <2>2. CASE c # <<>>
    <3>1. Begins(w, gc[m])
      BY <1>2, <1>9, <2>2
    <3>2. Len(r) <= Len(c) /\ \A k \in 1 .. Len(r) : c[k] = r[k]
      BY <1>1, <1>2, <3>1, NamesOfPrefix
    <3> QED
      BY <3>2 DEF Begins
  <2> QED
    BY <2>1, <2>2
<1>10. ASSUME Begins(r, c), r # c PROVE Begins(w, x)
  <2>1. n <= m /\ \A k \in 1 .. n : c[k] = r[k]
    BY <1>10 DEF Begins
  <2>2. n # m
    <3> SUFFICES ASSUME n = m PROVE FALSE
      OBVIOUS
    <3>1. \A k \in 1 .. n : r[k] = c[k]
      BY <2>1
    <3> QED
      BY <1>4, <1>10, <3>1, SeqEqual
  <2> DEFINE l == n + 1
  <2>3. l \in 1 .. m /\ l \in 0 .. m /\ n \in 0 .. m /\ n = l - 1 /\ m \in l .. m
    BY <1>4, <2>1, <2>2
  <2> HIDE DEF l
  <2>4. gr[n] = gc[n]
    BY <1>1, <1>2, <1>4, <2>1, SameSpelling
  <2>5. Adds(gr[n], c[l], gc[l])
    BY <1>2, <2>3, <2>4, SpellsStep
  <2>6. gc[l] \in Strings /\ Len(gc[l]) \in Nat /\ c[l] \in Strings /\ Len(c[l]) \in Nat
    BY <1>2, <2>3, SpellsTypes
  <2>7. Len(w) <= Len(gc[l])
    <3>1. Len(gc[l]) = Len(gr[n]) + 1 + Len(c[l])
      BY <2>5, Zenon DEF Adds
    <3> DEFINE a == Len(gr[n])
               b == Len(c[l])
    <3>2. a \in Nat /\ b \in Nat /\ Len(w) = a + 1 /\ Len(gc[l]) = a + 1 + b
      BY <1>5, <1>6, <2>6, <3>1, Zenon
    <3> HIDE DEF a, b, w
    <3> QED
      BY <3>2
  <2>8. \A i \in 1 .. Len(w) : gc[l][i] = w[i]
    <3> TAKE i \in 1 .. Len(w)
    <3>1. CASE i = Len(gr[n]) + 1
      BY <1>6, <2>5, <3>1 DEF Adds
    <3>2. CASE i # Len(gr[n]) + 1
      <4>1. i \in 1 .. Len(gr[n])
        BY <1>5, <1>6, <3>2
      <4> QED
        BY <1>6, <2>5, <4>1 DEF Adds
    <3> QED
      BY <3>1, <3>2
  <2>9. Begins(w, gc[l])
    BY <2>7, <2>8 DEF Begins
  <2>10. Begins(gc[l], gc[m])
    BY <1>2, <2>3, SpellsOn
  <2>11. c # <<>>
    BY <1>4, <2>3
  <2>12. x = gc[m]
    BY <1>2, <2>11
  <2> QED
    BY <1>5, <1>6, <2>6, <2>9, <2>10, <2>12, BeginsOn
<1> QED
  BY <1>3, <1>8, <1>9, <1>10 DEF IsStrictPrefix

-----------------------------------------------------------------------------
(* The invariant                                                           *)

Labels == {"idle", "realpath", "guard", "open", "map", "copy", "cleanup"}

(* What a request may hold where it is.                                    *)
MayHold(label) ==
  CASE label = "idle"     -> {}
    [] label = "realpath" -> {"url"}
    [] label = "guard"    -> {"url", "canonicalized_url"}
    [] label = "open"     -> {"url", "canonicalized_url"}
    [] label = "map"      -> {"url", "canonicalized_url", "file"}
    [] label = "copy"     -> {"url", "canonicalized_url", "content", "range_value"}
    [] label = "cleanup"  -> {"url", "canonicalized_url", "range_value"}

Holding == lookup_pc \in Labels /\ held \subseteq MayHold(lookup_pc)

(* What is cached is the text of the directory it was asked for.           *)
Caching ==
  /\ here \in Paths /\ root \in Paths /\ canonical \in Paths
  /\ cwd_initialize \in BOOLEAN
  /\ ~cwd_initialize => cached = WithSlash(PathText(root))

IInv == Holding /\ Caching

LEMMA RootIsPath ==
  ASSUME FileLookupAssumption
  PROVE  <<>> \in Paths
<1>1. <<>> \in [1 .. 0 -> Names]
  OBVIOUS
<1>2. 0 \in 0 .. Depth
  BY DEF FileLookupAssumption
<1> QED
  BY <1>1, <1>2 DEF Paths

THEOREM Invariance ==
  ASSUME FileLookupAssumption
  PROVE  LookupSpec => []IInv
<1>1. LookupInit => IInv
  BY RootIsPath DEF LookupInit, IInv, Holding, Caching, Labels, MayHold
<1>2. IInv /\ [LookupNext]_lookupVars => IInv'
  <2> SUFFICES ASSUME IInv, [LookupNext]_lookupVars PROVE IInv'
    OBVIOUS
  <2> USE DEF Goto
  <2>1. Holding'
    <3> USE DEF IInv, Holding, Labels, MayHold
    <3>1. CASE Begin
      BY <3>1 DEF Begin
    <3>2. CASE Realpath
      BY <3>2 DEF Realpath
    <3>3. CASE Guard
      BY <3>3 DEF Guard
    <3>4. CASE OpenFile
      BY <3>4 DEF OpenFile
    <3>5. CASE Map
      BY <3>5 DEF Map
    <3>6. CASE Copy
      BY <3>6 DEF Copy
    <3>7. CASE Cleanup
      BY <3>7 DEF Cleanup
    <3>8. CASE Move
      BY <3>8 DEF Move
    <3>9. CASE UNCHANGED lookupVars
      BY <3>9 DEF lookupVars
    <3> QED
      BY <3>1, <3>2, <3>3, <3>4, <3>5, <3>6, <3>7, <3>8, <3>9 DEF LookupNext
  <2>2. Caching'
    <3> USE DEF IInv, Caching
    <3>1. CASE Begin
      BY <3>1 DEF Begin
    <3>2. CASE Realpath
      BY <3>2 DEF Realpath
    <3>3. CASE Guard
      BY <3>3 DEF Guard
    <3>4. CASE OpenFile
      BY <3>4 DEF OpenFile
    <3>5. CASE Map
      BY <3>5 DEF Map
    <3>6. CASE Copy
      BY <3>6 DEF Copy
    <3>7. CASE Cleanup
      BY <3>7, RootIsPath DEF Cleanup
    <3>8. CASE Move
      BY <3>8 DEF Move
    <3>9. CASE UNCHANGED lookupVars
      BY <3>9 DEF lookupVars
    <3> QED
      BY <3>1, <3>2, <3>3, <3>4, <3>5, <3>6, <3>7, <3>8, <3>9 DEF LookupNext
  <2> QED
    BY <2>1, <2>2 DEF IInv
<1> QED
  BY <1>1, <1>2, PTL DEF LookupSpec

-----------------------------------------------------------------------------
(* The results                                                             *)

(* Whichever way any request ended, nothing it took is held when the next  *)
(* one is handled: strings, descriptor, mapping (the whole of              *)
(* handle_http_transaction).                                               *)
THEOREM NothingStaysHeld ==
  ASSUME FileLookupAssumption
  PROVE  LookupSpec => []NothingHeld
<1>1. IInv => NothingHeld
  BY DEF IInv, Holding, MayHold, NothingHeld
<1> QED
  BY <1>1, Invariance, PTL

(* memcmp of the cached directory with its slash lets through paths that   *)
(* lie in that directory name by name, and refuses none that lies below    *)
(* it, whatever the names are and however long: /foo/barn is not in        *)
(* /foo/bar, and everything is in /.                                       *)
THEOREM GuardComparesNames ==
  ASSUME FileLookupAssumption
  PROVE  LookupSpec => GuardIsExact
<1> DEFINE Exact == /\ lookup_pc' = "open" => IsPrefix(root', canonical)
                    /\ IsStrictPrefix(root', canonical) => lookup_pc' = "open"
<1>1. ASSUME IInv, LookupNext, lookup_pc = "guard" PROVE Exact
  <2>1. Guard
    BY <1>1 DEF LookupNext, Begin, Realpath, OpenFile, Map, Copy, Cleanup, Move
  <2>2. lookup_pc' = IF Matches(cached', PathText(canonical)) THEN "open" ELSE "cleanup"
    BY <2>1 DEF Guard, Goto
  <2>3. root' \in Paths /\ canonical \in Paths /\ cached' = WithSlash(PathText(root'))
    BY <1>1, <2>1 DEF IInv, Caching, Guard
  <2>4. /\ Matches(WithSlash(PathText(root')), PathText(canonical)) => IsPrefix(root', canonical)
        /\ IsStrictPrefix(root', canonical)
             => Matches(WithSlash(PathText(root')), PathText(canonical))
    BY <2>3, CompareNames
  <2> QED
    BY <2>2, <2>3, <2>4
<1>2. IInv /\ [LookupNext]_lookupVars => [lookup_pc = "guard" => Exact]_lookupVars
  BY <1>1
<1> QED
  BY <1>2, Invariance, PTL DEF LookupSpec, GuardIsExact

=============================================================================
