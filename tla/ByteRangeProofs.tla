-------------------------- MODULE ByteRangeProofs ---------------------------
(***************************************************************************)
(* Proofs about ByteRange, for files and positions of every size and       *)
(* headers with any number of ranges, in builds with and without           *)
(* assertions.                                                             *)
(***************************************************************************)
EXTENDS ByteRange, SequenceTheorems, FiniteSetTheorems, TLAPS

LEMMA Sizes ==
  ASSUME ByteRangeAssumption
  PROVE  /\ RangeMaxSize \in Nat /\ MaxPos \in Nat /\ SizeModulus \in Nat
         /\ SizeModulus > RangeMaxSize + MaxPos + 1 /\ MaxSpecs \in Nat \ {0}
BY DEF ByteRangeAssumption

-----------------------------------------------------------------------------
(* One range                                                               *)

ProperRange(r) == r.start < r.end

LEMMA ProperIs ==
  ASSUME ByteRangeAssumption, NEW s \in SizeT, NEW e \in SizeT
  PROVE  /\ Proper(s, e) \in RangeType
         /\ Proper(s, e) = Full \/ ProperRange(Proper(s, e))
         /\ ProperRange(Proper(s, e)) => Proper(s, e).end = e
<1>1. SizeT \subseteq Nat /\ 0 \in SizeT
  BY Sizes DEF SizeT
<1>2. CASE s < e
  BY <1>1, <1>2 DEF Proper, ProperRange, RangeType
<1>3. CASE ~(s < e)
  BY <1>1, <1>3 DEF Proper, ProperRange, RangeType, Full
<1> QED
  BY <1>2, <1>3

(* No range of a header leaves size_t, each is full or goes forward, and   *)
(* its end is the file's or behind the last position named.                *)
LEMMA SingleIs ==
  ASSUME ByteRangeAssumption, size \in 0 .. RangeMaxSize, NEW spec \in Specs
  PROVE  /\ Single(spec) \in RangeType
         /\ Single(spec) = Full \/ ProperRange(Single(spec))
         /\ ProperRange(Single(spec)) => Single(spec).end \in {size, spec.last + 1}
         /\ spec.kind = "suffix" /\ ProperRange(Single(spec)) => Single(spec).end = size
<1>1. /\ size \in Nat /\ size \in SizeT
      /\ spec.last \in -1 .. MaxPos /\ spec.first \in 0 .. MaxPos
      /\ spec.first \in SizeT /\ spec.kind \in {"suffix", "from", "between", "garbled"}
      /\ spec.last \in Int
      /\ spec.kind = "between" => spec.last \in 0 .. MaxPos
  <2>1. /\ spec.last \in -1 .. MaxPos /\ spec.first \in 0 .. MaxPos
        /\ spec.kind \in {"suffix", "from", "between", "garbled"}
        /\ spec.kind = "between" => spec.last \in 0 .. MaxPos
    BY Sizes DEF Specs, Positions
  <2> QED
    BY <2>1, Sizes DEF SizeT
<1>2. CASE spec.kind = "suffix"
  <2>1. (size - spec.last) % SizeModulus \in SizeT
    BY <1>1, Sizes DEF SizeT
  <2>2. Single(spec) = Proper((size - spec.last) % SizeModulus, size)
    BY <1>2 DEF Single
  <2> QED
    BY <1>1, <2>1, <2>2, ProperIs
<1>3. CASE spec.kind = "from" \/ (spec.kind = "garbled" /\ spec.last < 0)
  <2>1. Single(spec) = Proper(spec.first, size) /\ spec.kind # "suffix"
    BY <1>3 DEF Single
  <2> QED
    BY <1>1, <2>1, ProperIs
<1>4. CASE spec.kind = "between" \/ (spec.kind = "garbled" /\ ~(spec.last < 0))
  <2>1. Single(spec) = Proper(spec.first, spec.last + 1) /\ spec.kind # "suffix"
    BY <1>4 DEF Single
  <2>2. spec.last + 1 \in SizeT
    BY <1>1, <1>4, Sizes DEF SizeT
  <2> QED
    BY <1>1, <2>1, <2>2, ProperIs
<1> QED
  BY <1>1, <1>2, <1>3, <1>4

-----------------------------------------------------------------------------
(* The inductive invariant                                                 *)

N == Len(specs)
Asked(k) == Single(specs[k])

(* ranges is filled in the order of the header.                            *)
Converting ==
  /\ range_pc \in {"convert", "sort", "aborted"} =>
       /\ range_i = 1
       /\ \A k \in 1 .. Len(ranges) : ranges[k] = Asked(k)
       /\ partial = IF ranges = <<>> THEN Full ELSE Asked(1)
  /\ range_pc = "convert" => Len(ranges) < N
  /\ range_pc \in {"sort", "merge"} => Len(ranges) = N

(* The ranges of the header, in the order of compare_range.                *)
Sorted ==
  /\ \E p \in Orders(N) : \A k \in 1 .. N : ranges[k] = Asked(p[k])
  /\ \A j, k \in 1 .. N : j < k => NotAfter(ranges[j], ranges[k])

(* What the first m of the sorted ranges have shown.                       *)
Apart(m) ==
  /\ \A k \in 1 .. N : ProperRange(ranges[k])
  /\ \A j, k \in 1 .. m : j < k => ranges[j].end <= ranges[k].start

(* A range q made of ranges of the header, the first included.             *)
MadeOf(q) ==
  /\ ProperRange(q)
  /\ \A b \in q.start .. q.end - 1 :
       \E j \in 1 .. N : Asked(j).start <= b /\ b < Asked(j).end
  /\ q.start <= Asked(1).start /\ Asked(1).end <= q.end

Made == MadeOf(partial)

Merging ==
  /\ range_pc = "merge" => /\ Sorted /\ range_i \in 1 .. N + 1
                           /\ range_i = 1 => partial = Asked(1)
                           /\ range_i > 1 => Apart(range_i - 1) /\ Made
  /\ range_pc = "done" => partial = Full \/ (Sorted /\ Apart(N) /\ Made)

Types ==
  /\ range_build \in RangeBuilds /\ size \in 0 .. RangeMaxSize
  /\ specs \in Seq(Specs) /\ N \in Nat /\ N >= 1
  /\ range_pc \in {"convert", "sort", "merge", "done", "aborted"}
  /\ ranges \in Seq(RangeType) /\ Len(ranges) <= N
  /\ range_i \in Nat /\ partial \in RangeType

IInv == Types /\ Converting /\ Merging

-----------------------------------------------------------------------------
(* Facts about the ranges of one header                                    *)

LEMMA AskedIs ==
  ASSUME ByteRangeAssumption, Types, NEW k \in 1 .. N
  PROVE  /\ specs[k] \in Specs
         /\ Asked(k) \in RangeType
         /\ Asked(k) = Full \/ ProperRange(Asked(k))
         /\ ProperRange(Asked(k)) => Asked(k).end \in {size, specs[k].last + 1}
         /\ specs[k].kind = "suffix" /\ ProperRange(Asked(k)) => Asked(k).end = size
<1>1. specs[k] \in Specs
  BY DEF Types, N
<1>2. size \in 0 .. RangeMaxSize
  BY DEF Types
<1> QED
  BY <1>1, <1>2, SingleIs DEF Asked

LEMMA RangeTypeIs ==
  ASSUME ByteRangeAssumption, NEW r \in RangeType
  PROVE  /\ r.start \in Nat /\ r.end \in Nat
         /\ r = [start |-> r.start, end |-> r.end]
         /\ ProperRange(r) => r # Full
BY Sizes DEF RangeType, SizeT, ProperRange, Full

(* A rearrangement leaves no range of the header out.                      *)
LEMMA OrdersOnto ==
  ASSUME NEW n \in Nat, NEW p \in Orders(n), NEW k \in 1 .. n
  PROVE  \E j \in 1 .. n : p[j] = k
<1>1. p \in Injection(1 .. n, 1 .. n)
  BY DEF Orders, Injection, IsInjective
<1>2. IsFiniteSet(1 .. n)
  BY FS_Interval
<1>3. p \in Surjection(1 .. n, 1 .. n)
  BY <1>1, <1>2, FS_Injection
<1> QED
  BY <1>3 DEF Surjection

(* The first of the sorted ranges is full if any of them is.               *)
LEMMA FirstTellsAll ==
  ASSUME ByteRangeAssumption, Types, Len(ranges) = N, Sorted, ranges[1] # Full
  PROVE  \A k \in 1 .. N : ProperRange(ranges[k])
<1> SUFFICES ASSUME NEW k \in 1 .. N, ~ProperRange(ranges[k])
             PROVE  FALSE
  OBVIOUS
<1>1. PICK p \in Orders(N) : \A j \in 1 .. N : ranges[j] = Asked(p[j])
  BY DEF Sorted
<1>2. N \in Nat /\ N >= 1 /\ 1 \in 1 .. N
  BY DEF Types
<1>3. p[1] \in 1 .. N /\ p[k] \in 1 .. N
  BY <1>1, <1>2 DEF Orders
<1>4. ranges[k] = Full /\ ProperRange(ranges[1]) /\ ranges[1] \in RangeType
  BY <1>1, <1>2, <1>3, AskedIs
<1>5. k # 1
  BY <1>4
<1>6. NotAfter(ranges[1], ranges[k])
  BY <1>2, <1>5 DEF Sorted
<1>7. ranges[1].start \in Nat /\ ranges[1].end \in Nat
  BY <1>4, RangeTypeIs
<1> QED
  BY <1>4, <1>6, <1>7 DEF NotAfter, Full, ProperRange

LEMMA FirstIsMade ==
  ASSUME ByteRangeAssumption, Types, ProperRange(Asked(1))
  PROVE  MadeOf(Asked(1))
<1>1. 1 \in 1 .. N /\ Asked(1) \in RangeType
  BY AskedIs DEF Types
<1>2. Asked(1).start \in Nat /\ Asked(1).end \in Nat
  BY <1>1, RangeTypeIs
<1>3. \A b \in Asked(1).start .. Asked(1).end - 1 :
        Asked(1).start <= b /\ b < Asked(1).end
  BY <1>2
<1> QED
  BY <1>1, <1>2, <1>3 DEF MadeOf

LEMMA MergedIsMade ==
  ASSUME ByteRangeAssumption, Types, NEW k \in 1 .. N, ProperRange(Asked(k)),
         MadeOf(partial)
  PROVE  /\ MadeOf(Merged(Asked(k)))
         /\ Merged(Asked(k)) \in RangeType
<1> DEFINE r == Asked(k)
           q == Merged(r)
<1>1. r \in RangeType /\ partial \in RangeType /\ Asked(1) \in RangeType
  BY AskedIs DEF Types
<1>2. /\ r.start \in SizeT /\ r.end \in SizeT
      /\ partial.start \in SizeT /\ partial.end \in SizeT
  BY <1>1 DEF RangeType
<1>3. /\ r.start \in Nat /\ r.end \in Nat
      /\ partial.start \in Nat /\ partial.end \in Nat
      /\ Asked(1).start \in Nat /\ Asked(1).end \in Nat
  BY <1>1, RangeTypeIs
<1>4. ProperRange(r)
  OBVIOUS
<1>5. \/ q.start = r.start /\ q.end = partial.end /\ r.end = partial.start
      \/ q.start = partial.start /\ q.end = r.end /\ r.start = partial.end
      \/ q = partial
  BY <1>1 DEF Merged, RangeType
<1>6. q \in RangeType
  BY <1>1, <1>2 DEF Merged, RangeType
<1> HIDE DEF q, r
<1>7. CASE q = partial
  BY <1>1, <1>7 DEF q, r
<1>8. CASE q.start = r.start /\ q.end = partial.end /\ r.end = partial.start
  <2>1. ProperRange(q) /\ q.start <= Asked(1).start /\ Asked(1).end <= q.end
    BY <1>3, <1>4, <1>8 DEF MadeOf, ProperRange
  <2>2. ASSUME NEW b \in q.start .. q.end - 1
        PROVE  \E j \in 1 .. N : Asked(j).start <= b /\ b < Asked(j).end
    <3>1. b \in r.start .. partial.end - 1 /\ b \in Int
      BY <1>8, <1>3
    <3>2. CASE b < r.end
      BY <3>1, <3>2, <1>3 DEF r
    <3>3. CASE ~(b < r.end)
      <4>1. b \in partial.start .. partial.end - 1
        BY <3>1, <3>3, <1>3, <1>8
      <4> QED
        BY <4>1 DEF MadeOf
    <3> QED
      BY <3>2, <3>3
  <2> QED
    BY <2>1, <2>2, <1>6 DEF MadeOf, q, r
<1>9. CASE q.start = partial.start /\ q.end = r.end /\ r.start = partial.end
  <2>1. ProperRange(q) /\ q.start <= Asked(1).start /\ Asked(1).end <= q.end
    BY <1>3, <1>4, <1>9 DEF MadeOf, ProperRange
  <2>2. ASSUME NEW b \in q.start .. q.end - 1
        PROVE  \E j \in 1 .. N : Asked(j).start <= b /\ b < Asked(j).end
    <3>1. b \in partial.start .. r.end - 1 /\ b \in Int
      BY <1>9, <1>3
    <3>2. CASE ~(b < r.start)
      BY <3>1, <3>2, <1>3 DEF r
    <3>3. CASE b < r.start
      <4>1. b \in partial.start .. partial.end - 1
        BY <3>1, <3>3, <1>3, <1>9
      <4> QED
        BY <4>1 DEF MadeOf
    <3> QED
      BY <3>2, <3>3
  <2> QED
    BY <2>1, <2>2, <1>6 DEF MadeOf, q, r
<1> QED
  BY <1>5, <1>7, <1>8, <1>9 DEF q, r

-----------------------------------------------------------------------------
(* The invariant is inductive                                              *)

LEMMA Initially ==
  ASSUME ByteRangeAssumption, RangeInit
  PROVE  IInv
<1>1. PICK n \in 1 .. MaxSpecs : specs \in [1 .. n -> Specs]
  BY DEF RangeInit
<1>2. n \in Nat /\ n >= 1
  BY Sizes
<1>3. specs \in Seq(Specs) /\ Len(specs) = n
  BY <1>1, <1>2
<1>4. /\ ranges = <<>> /\ ranges \in Seq(RangeType) /\ Len(ranges) = 0
      /\ range_pc = "convert" /\ range_i = 1 /\ partial = Full
  BY DEF RangeInit
<1>5. Full \in RangeType
  BY Sizes DEF Full, RangeType, SizeT
<1>6. Types
  BY <1>2, <1>3, <1>4, <1>5 DEF RangeInit, Types, N
<1>7. Converting
  BY <1>2, <1>3, <1>4 DEF Converting, N
<1>8. Merging
  BY <1>4 DEF Merging
<1> QED
  BY <1>6, <1>7, <1>8 DEF IInv

LEMMA AssertFailsKeeps ==
  ASSUME ByteRangeAssumption, IInv, RangeAssertFails
  PROVE  IInv'
<1>1. Types'
  BY DEF IInv, Types, RangeAssertFails, N
<1>2. Converting'
  BY DEF IInv, Converting, RangeAssertFails, N, Asked, Single
<1>3. Merging'
  BY DEF RangeAssertFails, Merging
<1> QED
  BY <1>1, <1>2, <1>3 DEF IInv

LEMMA ConvertKeeps ==
  ASSUME ByteRangeAssumption, IInv, Convert
  PROVE  IInv'
<1> DEFINE L == Len(ranges)
<1>1. /\ ranges \in Seq(RangeType) /\ L \in Nat /\ N \in Nat /\ L < N
      /\ range_i = 1 /\ range_pc = "convert"
      /\ \A k \in 1 .. L : ranges[k] = Asked(k)
      /\ partial = IF ranges = <<>> THEN Full ELSE Asked(1)
  BY DEF IInv, Types, Converting, Convert
<1>2. L + 1 \in 1 .. N /\ Single(Current) = Asked(L + 1)
  BY <1>1 DEF Current, Asked
<1>3. Asked(L + 1) \in RangeType
  BY <1>2, AskedIs DEF IInv
<1>4. ranges' = Append(ranges, Asked(L + 1))
  BY <1>2 DEF Convert
<1>5. /\ ranges' \in Seq(RangeType) /\ Len(ranges') = L + 1
      /\ \A k \in 1 .. L : ranges'[k] = ranges[k]
      /\ ranges'[L + 1] = Asked(L + 1)
  BY <1>1, <1>3, <1>4
<1>6. partial' = Asked(1)
  <2>1. CASE ranges = <<>>
    BY <1>2, <2>1 DEF Convert
  <2>2. CASE ranges # <<>>
    BY <1>1, <2>2 DEF Convert
  <2> QED
    BY <2>1, <2>2
<1>7. 1 \in 1 .. N
  BY <1>1
<1>8. Asked(1) \in RangeType
  BY <1>7, AskedIs DEF IInv
<1>9. /\ N' = N /\ \A k : Asked(k)' = Asked(k)
      /\ range_pc' = IF L + 1 = N THEN "sort" ELSE "convert"
      /\ range_i' = 1
  BY <1>1 DEF Convert, N, Asked, Single
<1> HIDE DEF L
<1>10. Types'
  <2>1. range_build' = range_build /\ size' = size /\ specs' = specs
    BY DEF Convert
  <2>2. Len(ranges') <= N' /\ N' \in Nat /\ N' >= 1
    BY <1>1, <1>5, <1>9
  <2>3. range_pc' \in {"convert", "sort", "merge", "done", "aborted"} /\ range_i' \in Nat
    BY <1>9
  <2> QED
    BY <2>1, <2>2, <2>3, <1>5, <1>6, <1>8 DEF IInv, Types
<1>11. Converting'
  <2>1. \A k \in 1 .. Len(ranges') : ranges'[k] = Asked(k)'
    <3> TAKE k \in 1 .. Len(ranges')
    <3>1. k \in 1 .. L \/ k = L + 1
      BY <1>1, <1>5
    <3> QED
      BY <3>1, <1>1, <1>5, <1>9
  <2>2. partial' = IF ranges' = <<>> THEN Full ELSE Asked(1)'
    <3>1. ranges' # <<>>
      BY <1>1, <1>5
    <3> QED
      BY <3>1, <1>6, <1>9
  <2>3. /\ range_pc' = "convert" => Len(ranges') < N'
        /\ range_pc' \in {"sort", "merge"} => Len(ranges') = N'
    <3>1. CASE L + 1 = N
      BY <3>1, <1>5, <1>9
    <3>2. CASE L + 1 # N
      BY <3>2, <1>1, <1>5, <1>9
    <3> QED
      BY <3>1, <3>2
  <2> QED
    BY <1>9, <2>1, <2>2, <2>3 DEF Converting
<1>12. Merging'
  BY <1>9 DEF Merging
<1> QED
  BY <1>10, <1>11, <1>12 DEF IInv

LEMMA SortKeeps ==
  ASSUME ByteRangeAssumption, IInv, Sort
  PROVE  IInv'
<1>1. /\ ranges \in Seq(RangeType) /\ Len(ranges) = N /\ N \in Nat /\ N >= 1
      /\ range_i = 1
      /\ \A k \in 1 .. N : ranges[k] = Asked(k)
      /\ partial = IF ranges = <<>> THEN Full ELSE Asked(1)
  BY DEF IInv, Types, Converting, Sort
<1>2. partial = Asked(1)
  BY <1>1
<1>3. PICK p \in Orders(N) :
        /\ ranges' = [k \in 1 .. N |-> ranges[p[k]]]
        /\ \A j, k \in 1 .. N : j < k => NotAfter(ranges'[j], ranges'[k])
  BY <1>1 DEF Sort
<1>4. \A k \in 1 .. N : p[k] \in 1 .. N
  BY <1>3 DEF Orders
<1>5. \A k \in 1 .. N : ranges'[k] = Asked(p[k]) /\ ranges'[k] \in RangeType
  BY <1>1, <1>3, <1>4
<1>6. ranges' \in Seq(RangeType) /\ Len(ranges') = N
  BY <1>1, <1>3, <1>5
<1>7. /\ N' = N /\ \A k : Asked(k)' = Asked(k)
      /\ range_pc' = "merge" /\ range_i' = 1 /\ partial' = partial
      /\ range_build' = range_build /\ size' = size /\ specs' = specs
  BY <1>1 DEF Sort, N, Asked, Single
<1>8. Types'
  <2>1. Len(ranges') <= N' /\ N' \in Nat /\ N' >= 1 /\ range_i' \in Nat
    BY <1>1, <1>6, <1>7
  <2> QED
    BY <2>1, <1>6, <1>7 DEF IInv, Types
<1>9. Converting'
  BY <1>6, <1>7 DEF Converting
<1>10. Sorted'
  <2>1. \A k \in 1 .. N' : ranges'[k] = Asked(p[k])'
    BY <1>5, <1>7
  <2>2. \A j, k \in 1 .. N' : j < k => NotAfter(ranges'[j], ranges'[k])
    BY <1>3, <1>7
  <2>3. p \in Orders(N')
    BY <1>3, <1>7
  <2> QED
    BY <2>1, <2>2, <2>3 DEF Sorted, NotAfter
<1>11. Merging'
  BY <1>1, <1>2, <1>7, <1>10 DEF Merging
<1> QED
  BY <1>8, <1>9, <1>11 DEF IInv

(* The ranges seen so far are apart when each is apart from its neighbour. *)
LEMMA OneMoreApart ==
  ASSUME ByteRangeAssumption, Types, Len(ranges) = N, range_i \in 2 .. N,
         Apart(range_i - 1), ~Spoils
  PROVE  Apart(range_i)
<1>1. \A k \in 1 .. N : ProperRange(ranges[k]) /\ ranges[k] \in RangeType
  BY DEF Apart, Types
<1>2. \A k \in 1 .. N : ranges[k].start \in Nat /\ ranges[k].end \in Nat
  BY <1>1, RangeTypeIs
<1>3. N \in Nat /\ range_i \in Nat /\ range_i - 1 \in 1 .. N /\ range_i \in 1 .. N
  BY DEF Types
<1>4. ranges[range_i - 1].end <= ranges[range_i].start
  BY <1>2, <1>3 DEF Spoils
<1>5. ASSUME NEW j \in 1 .. range_i, NEW k \in 1 .. range_i, j < k
      PROVE  ranges[j].end <= ranges[k].start
  <2>1. j \in 1 .. N /\ k \in 1 .. N /\ j \in 1 .. range_i - 1
    BY <1>3, <1>5
  <2>2. CASE k \in 1 .. range_i - 1
    BY <2>1, <2>2, <1>5 DEF Apart
  <2>3. CASE k = range_i /\ j = range_i - 1
    BY <2>3, <1>4
  <2>4. CASE k = range_i /\ j < range_i - 1
    <3>1. range_i - 1 \in 1 .. range_i - 1
      BY <1>3
    <3>2. ranges[j].end <= ranges[range_i - 1].start
      BY <3>1, <2>1, <2>4 DEF Apart
    <3>3. ranges[range_i - 1].start < ranges[range_i - 1].end
      BY <1>1, <1>3 DEF ProperRange
    <3> QED
      BY <3>2, <3>3, <1>2, <1>3, <1>4, <2>1, <2>4
  <2> QED
    BY <2>1, <2>2, <2>3, <2>4, <1>3, <1>5
<1> QED
  BY <1>1, <1>5 DEF Apart

LEMMA MergeKeeps ==
  ASSUME ByteRangeAssumption, IInv, Merge
  PROVE  IInv'
<1>1. /\ Types /\ Sorted /\ Len(ranges) = N /\ N \in Nat /\ N >= 1
      /\ range_i \in 1 .. N /\ range_i \in Nat /\ range_pc = "merge"
      /\ range_i = 1 => partial = Asked(1)
      /\ range_i > 1 => Apart(range_i - 1) /\ Made
  BY DEF IInv, Types, Converting, Merging, Merge
<1>2. /\ N' = N /\ (\A k : Asked(k)' = Asked(k))
      /\ ranges' = ranges /\ range_build' = range_build /\ size' = size /\ specs' = specs
  BY DEF Merge, N, Asked, Single
<1>3. Full \in RangeType
  BY Sizes DEF Full, RangeType, SizeT
<1>4. CASE Spoils /\ partial' = Full /\ range_pc' = "done" /\ UNCHANGED range_i
  <2>1. Types'
    BY <1>1, <1>2, <1>3, <1>4 DEF Types
  <2>2. Converting' /\ Merging'
    BY <1>4 DEF Converting, Merging
  <2> QED
    BY <2>1, <2>2 DEF IInv
<1>5. CASE /\ ~Spoils /\ partial' = Merged(ranges[range_i])
           /\ range_i' = range_i + 1 /\ UNCHANGED range_pc
  <2>1. PICK p \in Orders(N) : \A k \in 1 .. N : ranges[k] = Asked(p[k])
    BY <1>1 DEF Sorted
  <2>2. p[range_i] \in 1 .. N /\ p[1] \in 1 .. N
    BY <1>1, <2>1 DEF Orders
  <2>3. \A k \in 1 .. N : ProperRange(ranges[k])
    <3>1. CASE range_i = 1
      BY <3>1, <1>1, <1>5, FirstTellsAll DEF Spoils
    <3>2. CASE range_i > 1
      BY <3>2, <1>1 DEF Apart
    <3> QED
      BY <3>1, <3>2, <1>1
  <2>4. Apart(range_i)
    <3>1. CASE range_i = 1
      BY <3>1, <2>3 DEF Apart
    <3>2. CASE range_i > 1
      <4>1. range_i \in 2 .. N
        BY <3>2, <1>1
      <4> QED
        BY <4>1, <3>2, <1>1, <1>5, OneMoreApart
    <3> QED
      BY <3>1, <3>2, <1>1
  <2>5. MadeOf(partial)
    <3>1. CASE range_i = 1
      <4>1. 1 \in 1 .. N
        BY <1>1
      <4>2. PICK m \in 1 .. N : p[m] = 1
        BY <4>1, <2>1, <1>1, OrdersOnto
      <4>3. ProperRange(Asked(1))
        BY <4>2, <2>1, <2>3
      <4> QED
        BY <4>3, <3>1, <1>1, FirstIsMade
    <3>2. CASE range_i > 1
      BY <3>2, <1>1 DEF Made
    <3> QED
      BY <3>1, <3>2, <1>1
  <2>6. MadeOf(partial') /\ partial' \in RangeType
    BY <2>1, <2>2, <2>3, <2>5, <1>1, <1>5, MergedIsMade
  <2>7. Made'
    BY <2>6, <1>2 DEF Made, MadeOf
  <2>8. Apart(range_i - 1)'
    <3>1. \A k \in 1 .. N' : ranges'[k].start < ranges'[k].end
      BY <2>3, <1>2 DEF ProperRange
    <3>2. range_i' - 1 = range_i
      BY <1>1, <1>5
    <3>3. \A j, k \in 1 .. range_i' - 1 : j < k => ranges'[j].end <= ranges'[k].start
      BY <3>2, <2>4, <1>2 DEF Apart
    <3> QED
      BY <3>1, <3>3 DEF Apart, ProperRange
  <2>9. Sorted'
    <3>1. \A k \in 1 .. N' : ranges'[k] = Asked(p[k])'
      BY <2>1, <1>2
    <3>2. \A j, k \in 1 .. N' : j < k => NotAfter(ranges'[j], ranges'[k])
      BY <1>1, <1>2 DEF Sorted
    <3>3. p \in Orders(N')
      BY <2>1, <1>2
    <3> QED
      BY <3>1, <3>2, <3>3 DEF Sorted, NotAfter
  <2>10. /\ range_i' \in 1 .. N' + 1 /\ range_i' \in Nat /\ range_i' # 1
         /\ range_pc' = "merge"
    BY <1>1, <1>2, <1>5
  <2>11. Types'
    BY <1>1, <1>2, <2>6, <2>10 DEF Types
  <2>12. Converting'
    BY <1>1, <1>2, <2>10 DEF Converting
  <2>13. Merging'
    BY <2>7, <2>8, <2>9, <2>10 DEF Merging
  <2> QED
    BY <2>11, <2>12, <2>13 DEF IInv
<1> QED
  BY <1>4, <1>5 DEF Merge

LEMMA FinishKeeps ==
  ASSUME ByteRangeAssumption, IInv, Finish
  PROVE  IInv'
<1>1. /\ Types /\ Sorted /\ Len(ranges) = N /\ N \in Nat /\ N >= 1
      /\ range_i = N + 1 /\ range_i > 1 /\ Apart(range_i - 1) /\ Made
  BY DEF IInv, Types, Converting, Merging, Finish
<1>2. Apart(N)
  BY <1>1
<1>3. /\ range_pc' = "done"
      /\ UNCHANGED <<range_build, size, specs, ranges, range_i, partial>>
  BY DEF Finish
<1>4. Types' /\ Converting'
  BY <1>1, <1>3 DEF Types, Converting, N
<1>5. Sorted' /\ Apart(N)' /\ Made'
  <2>1. N' = N /\ \A k : Asked(k)' = Asked(k)
    BY <1>3, Zenon DEF N, Asked, Single
  <2>2. Sorted'
    BY <1>1, <1>3, <2>1, Zenon DEF Sorted
  <2>3. Apart(N)'
    BY <1>2, <1>3, <2>1, Zenon DEF Apart
  <2>4. Made'
    BY <1>1, <1>3, <2>1, Zenon DEF Made, MadeOf
  <2> QED
    BY <2>2, <2>3, <2>4
<1> QED
  BY <1>3, <1>4, <1>5 DEF IInv, Merging

LEMMA StutterKeeps ==
  ASSUME ByteRangeAssumption, IInv, UNCHANGED rangeVars
  PROVE  IInv'
<1>1. UNCHANGED <<range_build, size, specs, range_pc, ranges, range_i, partial>>
  BY DEF rangeVars
<1>2. Types' /\ Converting'
  BY <1>1 DEF IInv, Types, Converting, N, Asked, Single
<1>3. Sorted => Sorted'
  BY <1>1 DEF Sorted, N, Asked, Single, NotAfter
<1>4. Made => Made'
  BY <1>1 DEF Made, MadeOf, N, Asked, Single, ProperRange
<1>5. /\ Apart(N) => Apart(N)'
      /\ Apart(range_i - 1) => Apart(range_i - 1)'
  BY <1>1 DEF Apart, N, ProperRange
<1>6. (Asked(1))' = Asked(1) /\ N' = N
  BY <1>1 DEF Asked, N, Single
<1>7. Merging'
  BY <1>1, <1>3, <1>4, <1>5, <1>6 DEF IInv, Merging
<1> QED
  BY <1>2, <1>7 DEF IInv

(* parse_range keeps what its passes rely on: the ranges converted are the *)
(* header's, sorting rearranges them, and what has been merged was asked.  *)
THEOREM Invariance ==
  ASSUME ByteRangeAssumption
  PROVE  RangeSpec => []IInv
<1>1. RangeInit => IInv
  BY Initially
<1>2. IInv /\ [RangeNext]_rangeVars => IInv'
  BY AssertFailsKeeps, ConvertKeeps, SortKeeps, MergeKeeps, FinishKeeps, StutterKeeps
     DEF RangeNext
<1> QED
  BY <1>1, <1>2, PTL DEF RangeSpec

(* The variables of parse_range keep their types: no sum leaves size_t.    *)
THEOREM TypeCorrect ==
  ASSUME ByteRangeAssumption
  PROVE  RangeSpec => []RangeTypeOK
<1>1. IInv => RangeTypeOK
  BY DEF IInv, Types, RangeTypeOK, N
<1> QED
  BY <1>1, Invariance, PTL

-----------------------------------------------------------------------------
(* The properties                                                          *)

LEMMA ResultIsMade ==
  ASSUME ByteRangeAssumption, IInv, Result, partial # Full
  PROVE  Types /\ Sorted /\ Apart(N) /\ Made
BY DEF IInv, Merging, Result

(* parse_range returns the whole file, or a range that is made of ranges   *)
(* of the header, holds the first of them and has a positive length.       *)
THEOREM ResultIsAskedFor ==
  ASSUME ByteRangeAssumption
  PROVE  RangeSpec => []ResultWasAskedFor
<1>1. ASSUME IInv PROVE ResultWasAskedFor
  <2>1. CASE ~Result \/ partial = Full
    BY <2>1 DEF ResultWasAskedFor, EqualEndsMeanFull
  <2>2. CASE Result /\ partial # Full
    <3>1. /\ partial.start < partial.end
          /\ partial.start <= Single(specs[1]).start
          /\ Single(specs[1]).end <= partial.end
      BY <1>1, <2>2, ResultIsMade DEF Made, MadeOf, ProperRange, Asked
    <3>2. \A b \in partial.start .. partial.end - 1 :
            \E j \in 1 .. N : Single(specs[j]).start <= b /\ b < Single(specs[j]).end
      BY <1>1, <2>2, ResultIsMade DEF Made, MadeOf, Asked
    <3>3. DOMAIN specs = 1 .. N
      BY <1>1 DEF IInv, Types, N
    <3> QED
      BY <3>1, <3>2, <3>3 DEF ResultWasAskedFor, EqualEndsMeanFull
  <2> QED
    BY <2>1, <2>2
<1> QED
  BY <1>1, Invariance, PTL

(* Comparing neighbours of the sorted array finds every overlap: unless    *)
(* the result is the whole file no two ranges of the header share a byte,  *)
(* and none of them is in error.                                           *)
THEOREM OverlapsAreFull ==
  ASSUME ByteRangeAssumption
  PROVE  RangeSpec => []OverlapIsFull
<1>1. ASSUME IInv PROVE OverlapIsFull
  <2> SUFFICES ASSUME Result, partial # Full
               PROVE  /\ \A j \in 1 .. N : Asked(j) # Full
                      /\ \A j, k \in 1 .. N : j # k => ~Overlap(Asked(j), Asked(k))
    BY <1>1 DEF OverlapIsFull, IInv, Types, N, Asked
  <2>1. Types /\ Sorted /\ Apart(N) /\ N \in Nat
    BY <1>1, ResultIsMade DEF Types
  <2>2. PICK p \in Orders(N) : \A k \in 1 .. N : ranges[k] = Asked(p[k])
    BY <2>1 DEF Sorted
  <2>3. \A j \in 1 .. N : \E k \in 1 .. N : p[k] = j
    BY <2>1, <2>2, OrdersOnto
  <2>4. \A j \in 1 .. N : Asked(j) \in RangeType /\ ProperRange(Asked(j))
    BY <2>1, <2>2, <2>3, AskedIs DEF Apart
  <2>5. \A j \in 1 .. N : /\ Asked(j).start \in Nat /\ Asked(j).end \in Nat
                          /\ Asked(j) # Full
    BY <2>4, RangeTypeIs
  <2>6. ASSUME NEW j \in 1 .. N, NEW k \in 1 .. N, j # k
        PROVE  ~Overlap(Asked(j), Asked(k))
    <3>1. PICK m \in 1 .. N : p[m] = j
      BY <2>3
    <3>2. PICK n \in 1 .. N : p[n] = k
      BY <2>3
    <3>3. m < n \/ n < m
      BY <3>1, <3>2, <2>6
    <3>4. Asked(j).end <= Asked(k).start \/ Asked(k).end <= Asked(j).start
      BY <2>1, <2>2, <3>1, <3>2, <3>3 DEF Apart
    <3> QED
      BY <2>5, <3>4 DEF Overlap
  <2> QED
    BY <2>5, <2>6
<1> QED
  BY <1>1, Invariance, PTL

(* A result of a header whose last positions lie in the file lies in the   *)
(* file, the wrapped start of a suffix longer than the file included.      *)
THEOREM ResultIsInFile ==
  ASSUME ByteRangeAssumption
  PROVE  RangeSpec => []InFileWhenAsked
<1>1. ASSUME IInv PROVE InFileWhenAsked
  <2> SUFFICES ASSUME Result,
                      \A j \in DOMAIN specs : specs[j].kind # "suffix" => specs[j].last < size
               PROVE  partial.start <= size /\ partial.end <= size
    BY DEF InFileWhenAsked
  <2>1. size \in Nat /\ partial \in RangeType /\ DOMAIN specs = 1 .. N
    BY <1>1, Sizes DEF IInv, Types, N
  <2>2. CASE partial = Full
    BY <2>1, <2>2 DEF Full
  <2>3. CASE partial # Full
    <3>1. Types /\ Made
      BY <1>1, <2>3, ResultIsMade
    <3>2. /\ partial.start \in Nat /\ partial.end \in Nat
          /\ partial.start < partial.end
      BY <2>1, <3>1, RangeTypeIs DEF Made, MadeOf, ProperRange
    <3>3. partial.end - 1 \in partial.start .. partial.end - 1
      BY <3>2
    <3>4. PICK j \in 1 .. N : Asked(j).start <= partial.end - 1
                              /\ partial.end - 1 < Asked(j).end
      BY <3>1, <3>3 DEF Made, MadeOf
    <3>5. Asked(j) \in RangeType
      BY <3>1, AskedIs
    <3>6. Asked(j).start \in Nat /\ Asked(j).end \in Nat
      BY <3>5, RangeTypeIs
    <3>7. ProperRange(Asked(j)) /\ partial.end <= Asked(j).end
      BY <3>2, <3>4, <3>6 DEF ProperRange
    <3>8. Asked(j).end <= size
      <4>1. specs[j] \in Specs
        BY <3>1, AskedIs
      <4>2. specs[j].last \in Int
        BY <4>1, Sizes DEF Specs, Positions
      <4>3. CASE specs[j].kind = "suffix"
        BY <4>3, <3>1, <3>7, <2>1, AskedIs
      <4>4. CASE specs[j].kind # "suffix"
        <5>1. specs[j].last < size
          BY <4>4, <2>1
        <5>2. Asked(j).end \in {size, specs[j].last + 1}
          BY <3>1, <3>7, AskedIs
        <5> QED
          BY <5>1, <5>2, <4>2, <2>1
      <4> QED
        BY <4>3, <4>4
    <3> QED
      BY <2>1, <3>2, <3>6, <3>7, <3>8
  <2> QED
    BY <2>2, <2>3
<1> QED
  BY <1>1, Invariance, PTL
=============================================================================
