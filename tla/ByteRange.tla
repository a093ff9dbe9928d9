----------------------------- MODULE ByteRange ------------------------------
(***************************************************************************)
(* parse_range of http_hl.c: the byte ranges a Range header names are      *)
(* converted one by one, sorted, and merged into the one that is returned. *)
(*                                                                         *)
(* The text is abstracted to the numbers strtoll finds in it.  size_t      *)
(* arithmetic is modulo SizeModulus; positions go up to the largest        *)
(* long long, where strtoll saturates.                                     *)
(***************************************************************************)
EXTENDS Integers, Sequences

CONSTANTS
  RangeBuilds,   \* "debug" and "release" (NDEBUG: assertions are not checked)
  SizeModulus,   \* size_t arithmetic wraps at this value
  RangeMaxSize,  \* bound: length of the largest file
  MaxPos,        \* largest position a header can name
  MaxSpecs       \* bound: ranges in one header

ByteRangeAssumption ==
  /\ RangeBuilds \subseteq {"debug", "release"}
  /\ RangeMaxSize \in Nat /\ MaxPos \in Nat /\ MaxSpecs \in Nat \ {0}
  /\ SizeModulus \in Nat
  /\ SizeModulus > RangeMaxSize + MaxPos + 1

VARIABLES
  range_build,  \* how the server was built
  size,         \* the size of the file
  specs,        \* the ranges of the header
  range_pc,     \* "convert", "sort", "merge", "done", or "aborted" by assert
  ranges,       \* ranges[], as far as it is filled
  range_i,      \* loop counter of the merge
  partial       \* partial_result

rangeVars == <<range_build, size, specs, range_pc, ranges, range_i, partial>>

-----------------------------------------------------------------------------
(* One range of the header                                                 *)

Positions == 0 .. MaxPos

(* "-last", "first-", "first-last", or a text that has no '-' after its    *)
(* digits and may go on with a number all the same.  "--1" has last = -1.  *)
Specs ==
  [kind : {"suffix"}, first : {0}, last : -1 .. MaxPos]
    \union [kind : {"from"}, first : Positions, last : {0}]
    \union [kind : {"between"}, first : Positions, last : Positions]
    \union [kind : {"garbled"}, first : {0}, last : -1 .. MaxPos]

Full == [start |-> 0, end |-> 0]
SizeT == 0 .. SizeModulus - 1
RangeType == [start : SizeT, end : SizeT]

Proper(start, end) == IF start < end THEN [start |-> start, end |-> end] ELSE Full

(* Mutant of Single: the last position is counted twice.                   *)
SinglePastLast(spec) ==
  CASE spec.kind = "suffix" -> Proper((size - spec.last) % SizeModulus, size)
    [] spec.kind = "from" -> Proper(spec.first, size)
    [] OTHER -> Proper(spec.first, spec.last + 2)

(* parse_single_range: half-open, and full when nothing is left of it.  A  *)
(* suffix longer than the file wraps to a start beyond the end.            *)
Single(spec) ==
  CASE spec.kind = "suffix" -> Proper((size - spec.last) % SizeModulus, size)
    [] spec.kind = "from" \/ (spec.kind = "garbled" /\ spec.last < 0)
         -> Proper(spec.first, size)
    [] OTHER -> Proper(spec.first, spec.last + 1)

-----------------------------------------------------------------------------
(* The three passes of parse_range                                         *)

RangeInit ==
  /\ range_build \in RangeBuilds
  /\ size \in 0 .. RangeMaxSize
  /\ specs \in UNION {[1 .. n -> Specs] : n \in 1 .. MaxSpecs}
  /\ range_pc = "convert"
  /\ ranges = <<>>
  /\ range_i = 1
  /\ partial = Full

Current == specs[Len(ranges) + 1]   \* the text "representation" points to

(* The assertion that '-' follows the digits.                              *)
RangeAssertFails ==
  /\ range_pc = "convert" /\ range_build = "debug" /\ Current.kind = "garbled"
  /\ range_pc' = "aborted"
  /\ UNCHANGED <<range_build, size, specs, ranges, range_i, partial>>

Convert ==
  /\ range_pc = "convert"
  /\ range_build = "release" \/ Current.kind # "garbled"
  /\ ranges' = Append(ranges, Single(Current))
  /\ partial' = IF ranges = <<>> THEN Single(Current) ELSE partial
  /\ range_pc' = IF Len(ranges) + 1 = Len(specs) THEN "sort" ELSE "convert"
  /\ UNCHANGED <<range_build, size, specs, range_i>>

(* compare_range(r, s) <= 0                                                *)
NotAfter(r, s) == r.start < s.start \/ (r.start = s.start /\ r.end <= s.end)

Orders(n) == {p \in [1 .. n -> 1 .. n] : \A j, k \in 1 .. n : p[j] = p[k] => j = k}

(* qsort: the same ranges, in the order of compare_range.                  *)
Sort ==
  /\ range_pc = "sort"
  /\ \E p \in Orders(Len(ranges)) :
       LET sorted == [k \in 1 .. Len(ranges) |-> ranges[p[k]]]
       IN  /\ \A j, k \in 1 .. Len(ranges) : j < k => NotAfter(sorted[j], sorted[k])
           /\ ranges' = sorted
  /\ range_pc' = "merge"
  /\ UNCHANGED <<range_build, size, specs, range_i, partial>>

(* Mutant of Spoils: the first two ranges are not compared.                *)
SpoilsLate ==
  ranges[range_i] = Full \/ (range_i > 2 /\ ranges[range_i].start < ranges[range_i - 1].end)

(* An error in any range, or an overlap, makes the whole header void.      *)
Spoils ==
  ranges[range_i] = Full \/ (range_i > 1 /\ ranges[range_i].start < ranges[range_i - 1].end)

(* Mutant of Merged: a range that follows is merged with a gap.            *)
MergedWithGap(r) ==
  CASE r.end = partial.start -> [partial EXCEPT !.start = r.start]
    [] r.end # partial.start /\ r.start >= partial.end -> [partial EXCEPT !.end = r.end]
    [] OTHER -> partial

(* A range that touches the partial result makes it longer.                *)
Merged(r) ==
  CASE r.end = partial.start -> [partial EXCEPT !.start = r.start]
    [] r.end # partial.start /\ r.start = partial.end -> [partial EXCEPT !.end = r.end]
    [] OTHER -> partial

Merge ==
  /\ range_pc = "merge" /\ range_i <= Len(ranges)
  /\ \/ /\ Spoils
        /\ partial' = Full
        /\ range_pc' = "done"
        /\ UNCHANGED range_i
     \/ /\ ~Spoils
        /\ partial' = Merged(ranges[range_i])
        /\ range_i' = range_i + 1
        /\ UNCHANGED range_pc
  /\ UNCHANGED <<range_build, size, specs, ranges>>

Finish ==
  /\ range_pc = "merge" /\ range_i > Len(ranges)
  /\ range_pc' = "done"
  /\ UNCHANGED <<range_build, size, specs, ranges, range_i, partial>>

RangeNext == RangeAssertFails \/ Convert \/ Sort \/ Merge \/ Finish

RangeSpec == RangeInit /\ [][RangeNext]_rangeVars

-----------------------------------------------------------------------------
(* Properties                                                              *)

(* The variables keep their types: no sum leaves size_t.                   *)
RangeTypeOK ==
  /\ range_build \in RangeBuilds
  /\ size \in 0 .. RangeMaxSize
  /\ specs \in Seq(Specs) /\ Len(specs) >= 1
  /\ range_pc \in {"convert", "sort", "merge", "done", "aborted"}
  /\ ranges \in Seq(RangeType) /\ Len(ranges) <= Len(specs)
  /\ range_i \in Nat
  /\ partial \in RangeType

Result == range_pc = "done"

(* "the only case that range.start == range.end is that both of which is   *)
(* 0, which indicates a full range": handle_http_transaction takes equal   *)
(* ends for the whole file and subtracts the others.                       *)
EqualEndsMeanFull == Result => partial = Full \/ partial.start < partial.end

Overlap(r, s) == r.start < s.end /\ s.start < r.end

(* "if overlapping specifiers exists [...] a full range will be returned": *)
(* any two of the header's ranges, wherever they stand in it, although the *)
(* code compares neighbours of the sorted array only.                      *)
OverlapIsFull ==
  Result /\ partial # Full =>
    /\ \A j \in DOMAIN specs : Single(specs[j]) # Full
    /\ \A j, k \in DOMAIN specs : j # k => ~Overlap(Single(specs[j]), Single(specs[k]))

(* The result is made of ranges of the header, the first of them included, *)
(* with nothing between them that was not asked for, and its end minus its *)
(* start can be taken for a length.                                        *)
ResultWasAskedFor ==
  /\ EqualEndsMeanFull
  /\ Result /\ partial # Full =>
       /\ \A b \in partial.start .. partial.end - 1 :
            \E j \in DOMAIN specs : Single(specs[j]).start <= b /\ b < Single(specs[j]).end
       /\ partial.start <= Single(specs[1]).start /\ Single(specs[1]).end <= partial.end

(* When every last position of the header lies in the file, so does the    *)
(* result, however long the suffixes are: their wrapped starts never get   *)
(* through.                                                                *)
InFileWhenAsked ==
  Result /\ (\A j \in DOMAIN specs : specs[j].kind # "suffix" => specs[j].last < size) =>
    partial.start <= size /\ partial.end <= size

-----------------------------------------------------------------------------
(* What the code says and does not keep                                    *)

(* http_hl.h: "if there are adjacent yet non-overleaping specifiers, they  *)
(* will be silently merged".                                               *)
AdjacentAreMerged ==
  Result /\ partial # Full =>
    \A j \in DOMAIN specs : /\ Single(specs[j]).end # partial.start
                            /\ Single(specs[j]).start # partial.end

(* http_hl.h: "other error(s) detected, a full range will be returned": a  *)
(* range that begins beyond the file is one no file can satisfy.           *)
UnsatisfiableIsFull ==
  Result /\ (\E j \in DOMAIN specs : specs[j].first >= size /\ size > 0) => partial = Full

(* parse_single_range asserts that '-' follows the first position.         *)
DashFollowsFirst == range_pc # "aborted"

=============================================================================
