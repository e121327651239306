---------------------------- MODULE BlockRanges ----------------------------
(***************************************************************************)
(* The half-open block ranges of core/discovery.py and the functions on    *)
(* them that decide what is scanned: merge_coverage, coverage_gaps,        *)
(* contiguous_frontier, BlockRange.split and the chunking of scan_filter.  *)
(* A range is <<start, end_exclusive>>.                                    *)
(***************************************************************************)
EXTENDS Integers, SequencesExt

start(r) == r[1]
end_exclusive(r) == r[2]

BlockRange == {r \in Nat \X Nat : start(r) < end_exclusive(r)}

Blocks(r) == start(r)..(end_exclusive(r) - 1)
BlocksOf(ranges) == UNION {Blocks(r) : r \in ranges}

size(r) == end_exclusive(r) - start(r)
(* Mutant: the halves meet one block later. *)
Middle_late(r) == start(r) + size(r) \div 2 + 1
Middle(r) == start(r) + size(r) \div 2
split(r) == << <<start(r), Middle(r)>>, <<Middle(r), end_exclusive(r)>> >>

Larger(x, y) == IF x > y THEN x ELSE y
Smaller(x, y) == IF x < y THEN x ELSE y

(* The chunks scan_filter starts from, lowest first. *)
Chunks(r, n) ==
  [i \in 1..((size(r) + n - 1) \div n) |->
     <<start(r) + (i - 1) * n, Smaller(start(r) + i * n, end_exclusive(r))>>]

(* The tuple order of BlockRange. *)
Precedes(r, s) ==
  \/ start(r) < start(s)
  \/ start(r) = start(s) /\ end_exclusive(r) < end_exclusive(s)

(* Mutant: the later range decides where the merged one ends. *)
Widen_last(r, s) == <<start(r), end_exclusive(s)>>
Widen(r, s) == <<start(r), Larger(end_exclusive(r), end_exclusive(s))>>

(* sorted(): the i-th element has i - 1 others before it. *)
Sorted(S, before(_, _)) ==
  [i \in 1..Cardinality(S) |->
     CHOOSE x \in S : Cardinality({y \in S : before(y, x)}) = i - 1]

(* The next range extends the last merged one, or lies beyond it. *)
Absorb(merged, r) ==
  IF merged = <<>> \/ start(r) > end_exclusive(Last(merged))
  THEN Append(merged, r)
  ELSE ReplaceAt(merged, Len(merged), Widen(Last(merged), r))

(* The union of the ranges as maximal ranges, lowest first. *)
merge_coverage(ranges) == FoldLeft(Absorb, <<>>, Sorted(ranges, Precedes))

(* The first uncovered block.  What follows a range that starts after the  *)
(* frontier starts later still, so skipping it is the code's break.        *)
Extend(frontier, r) ==
  IF end_exclusive(r) <= frontier \/ start(r) > frontier
  THEN frontier
  ELSE end_exclusive(r)
contiguous_frontier(coverage_start, ranges) ==
  FoldLeft(Extend, coverage_start, merge_coverage(ranges))

Tailed(required, cursor, gaps) ==
  IF cursor < end_exclusive(required)
  THEN Append(gaps, <<cursor, end_exclusive(required)>>)
  ELSE gaps

(* One turn of the loop of coverage_gaps.  A range that is outside, where  *)
(* the code continues or breaks, changes nothing, and neither do those     *)
(* that follow a break.                                                    *)
Outside(required, r) ==
  \/ end_exclusive(r) <= start(required)
  \/ start(r) >= end_exclusive(required)
Advance(required, s, r) ==
  LET clipped_start == Larger(start(r), start(required))
      clipped_end == Smaller(end_exclusive(r), end_exclusive(required))
  IN  IF Outside(required, r)
      THEN s
      ELSE [cursor |-> Larger(s.cursor, clipped_end),
            gaps |-> IF clipped_start > s.cursor
                     THEN Append(s.gaps, <<s.cursor, clipped_start>>) ELSE s.gaps]

(* The uncovered parts of a required range, lowest first. *)
coverage_gaps(required, completed) ==
  LET final == FoldLeft(LAMBDA s, r : Advance(required, s, r),
                        [cursor |-> start(required), gaps |-> <<>>],
                        merge_coverage(completed))
  IN  Tailed(required, final.cursor, final.gaps)

-----------------------------------------------------------------------------
(* What they promise.                                                      *)

(* Ranges that lie apart, lowest first. *)
Ascending(s) ==
  \A i \in 1..(Len(s) - 1) : end_exclusive(s[i]) < start(s[i + 1])
Exactly(s, blocks) ==
  BlocksOf(Range(s)) = blocks /\ Range(s) \subseteq BlockRange /\ Ascending(s)

(* merge_coverage is exactly the covered blocks, coverage_gaps exactly the *)
(* required blocks that no completed range covers, both as separate ranges *)
(* in order, and contiguous_frontier the first block that is not covered,  *)
(* so a covered suffix does not hide a missing prefix.                     *)
ExactCoverage(required, completed) ==
  LET covered == BlocksOf(completed)
      frontier == contiguous_frontier(start(required), completed)
  IN  /\ Exactly(merge_coverage(completed), covered)
      /\ Exactly(coverage_gaps(required, completed), Blocks(required) \ covered)
      /\ frontier \notin covered
      /\ start(required)..(frontier - 1) \subseteq covered

(* Chunks of n blocks, and halves, partition the range they come from, and *)
(* each is a range again.                                                  *)
ExactParts(r, n) ==
  /\ BlocksOf(Range(Chunks(r, n))) = Blocks(r)
  /\ \A c \in Range(Chunks(r, n)) : c \in BlockRange /\ size(c) <= n
  /\ size(r) > 1 =>
       BlocksOf(Range(split(r))) = Blocks(r) /\ Range(split(r)) \subseteq BlockRange
=============================================================================
