---------------------- MODULE DiscoveryCoverageProofs ----------------------
(***************************************************************************)
(* Proofs about holder discovery, for every chain of logs, every number of *)
(* processes, chunk size, result cap and number of failures.  That a claim *)
(* of coverage is backed holds whichever ranges were scanned; that advance *)
(* leaves nothing out rests on what coverage_gaps returns.                 *)
(***************************************************************************)
EXTENDS DiscoveryCoverage, BlockRangesProofs

USE DEF store, scan

(* The holder rows of a scan account for every log it returned. *)
LEMMA HolderRowsCover ==
  ASSUME NEW L \in SUBSET Logs, NEW l \in L
  PROVE  \E h \in HolderRows(L) : h[1] = l[2] /\ h[2] <= l[1]
<1> DEFINE S == {k[1] : k \in {x \in L : x[2] = l[2]}}
<1>1. S \in SUBSET Nat /\ l[1] \in S
  BY LogsAssumption
<1>2. PICK m \in S : \A n \in S : m <= n
  BY <1>1, LeastBlock
<1>3. PICK k \in L : k[2] = l[2] /\ k[1] = m
  BY <1>2
<1>4. \A y \in L : k[2] = y[2] => k[1] <= y[1]
  BY <1>2, <1>3
<1>5. <<k[2], k[1]>> \in HolderRows(L)
  BY <1>4 DEF HolderRows
<1>6. <<k[2], k[1]>>[1] = l[2] /\ <<k[2], k[1]>>[2] <= l[1]
  BY <1>1, <1>2, <1>3
<1>7. QED
  BY <1>5, <1>6

(* An answer below the result cap is complete. *)
LEMMA UncutIsComplete ==
  ASSUME NEW r, NEW raw \in Answers(r), ~MayBeCut(raw)
  PROVE  raw = LogsIn(r)
BY CapAssumption DEF Answers, MayBeCut

(* A log whose holder is stored stays accounted for: rows are only added.  *)
LEMMA SeenStays ==
  ASSUME NEW l, Seen(l), holders \subseteq holders'
  PROVE  Seen(l)'
BY DEF Seen

(* A step of another process leaves a scan as sound as it was. *)
LEMMA ScanUnchanged ==
  ASSUME NEW p \in Procs, ScanSound(p), holders \subseteq holders',
         pc'[p] = pc[p], done'[p] = done[p], logs'[p] = logs[p]
  PROVE  ScanSound(p)'
BY SeenStays DEF ScanSound

-----------------------------------------------------------------------------
(* DiscoverySound is inductive: the ranges a process has read are complete *)
(* in its memory, and complete in the store before it claims them.         *)
THEOREM DiscoverySoundness == Spec => []DiscoverySound
<1>1. Init => DiscoverySound
  BY DEF Init, DiscoverySound, ScanSound, CoverageBacked, States
<1>2. DiscoverySound /\ [Next]_vars => DiscoverySound'
  <2> SUFFICES ASSUME DiscoverySound, [Next]_vars PROVE DiscoverySound'
    OBVIOUS
  <2> USE DEF DiscoverySound
  <2>0. CASE UNCHANGED vars
    BY <2>0 DEF vars, ScanSound, CoverageBacked, Seen
  <2> SUFFICES ASSUME NEW q \in Procs, Step(q) \/ Failure(q)
               PROVE  DiscoverySound'
    BY <2>0 DEF Next
  (* It is enough that q's own scan stays sound, that rows are only added  *)
  (* and that every new range is backed.                                   *)
  <2>1. ASSUME holders \subseteq holders',
               pc' \in [Procs -> States], logs' \in [Procs -> SUBSET Logs],
               done' = [p \in Procs |-> done'[p]],
               \A p \in Procs \ {q} : /\ pc'[p] = pc[p] /\ done'[p] = done[p]
                                      /\ logs'[p] = logs[p],
               ScanSound(q)',
               \A r \in covered' \ covered : \A l \in LogsIn(r) : Seen(l)'
        PROVE  DiscoverySound'
    <3>1. \A p \in Procs : ScanSound(p)'
      BY <2>1, ScanUnchanged
    <3>2. CoverageBacked'
      BY <2>1, SeenStays DEF CoverageBacked, LogsIn
    <3>3. QED
      BY <2>1, <3>1, <3>2
  <2> USE DEF Goto, States
  <2>2. CASE \E a \in Anchors : ReadCoverage(q, a)
    BY <2>1, <2>2 DEF ReadCoverage, ScanSound
  <2>3. CASE NextGap(q)
    BY <2>1, <2>3 DEF NextGap, ScanSound
  <2>4. CASE Complete(q)
    BY <2>1, <2>4 DEF Complete, ScanSound
  <2>5. CASE Again(q)
    BY <2>1, <2>5 DEF Again, ScanSound
  <2>6. CASE ReadRange(q)
    <3> DEFINE r == Head(pending[q])
    <3>1. PICK raw \in Answers(r) :
            \/ MayBeCut(raw) /\ SplitOrFail(q, r)
            \/ /\ ~MayBeCut(raw)
               /\ logs' = [logs EXCEPT ![q] = @ \cup raw]
               /\ done' = [done EXCEPT ![q] = @ \cup {r}]
               /\ UNCHANGED pc
      BY <2>6 DEF ReadRange
    <3>2. CASE MayBeCut(raw) /\ SplitOrFail(q, r)
      BY <2>1, <2>6, <3>2 DEF ReadRange, SplitOrFail, ScanSound, Seen
    <3>3. CASE ~MayBeCut(raw)
      <4>1. raw = LogsIn(r) /\ raw \subseteq Logs
        BY <3>3, UncutIsComplete DEF LogsIn
      <4>2. logs'[q] = logs[q] \cup LogsIn(r) /\ done'[q] = done[q] \cup {r}
        BY <3>1, <3>3, <4>1
      <4>3. ScanSound(q)'
        BY <2>6, <3>1, <3>3, <4>2 DEF ReadRange, ScanSound, LogsIn
      <4>4. QED
        BY <2>1, <2>6, <3>1, <3>3, <4>1, <4>3 DEF ReadRange
    <3>4. QED
      BY <3>1, <3>2, <3>3
  <2>7. CASE EndScan(q)
    BY <2>1, <2>7 DEF EndScan, ScanSound
  <2>8. CASE InsertHolders(q)
    <3>1. \A l \in logs[q] : Seen(l)'
      BY <2>8, HolderRowsCover DEF InsertHolders, Seen
    <3>2. ScanSound(q)'
      BY <2>8, <3>1 DEF InsertHolders, ScanSound
    <3>3. QED
      BY <2>1, <2>8, <3>2 DEF InsertHolders
  <2>9. CASE InsertRanges(q)
    <3>1. \A r \in done[q] : \A l \in LogsIn(r) : Seen(l)
      BY <2>9 DEF InsertRanges, ScanSound
    <3>2. QED
      BY <2>1, <2>9, <3>1 DEF InsertRanges, ScanSound, Seen
  <2>10. CASE ProviderLimit(q)
    BY <2>1, <2>10 DEF ProviderLimit, SplitOrFail, ScanSound, Seen
  <2>11. CASE InsertRaises(q)
    <3>1. CASE pc[q] = "holders"
      BY <2>1, <2>11, <3>1 DEF InsertRaises, ScanSound
    <3>2. CASE pc[q] = "ranges"
      BY <2>1, <2>11, <3>2 DEF InsertRaises, ScanSound, Seen
    <3>3. QED
      BY <2>11, <3>1, <3>2 DEF InsertRaises
  <2>12. CASE Fail(q)
    BY <2>1, <2>12 DEF Fail, ScanSound
  <2>13. QED
    BY <2>2, <2>3, <2>4, <2>5, <2>6, <2>7, <2>8, <2>9, <2>10, <2>11, <2>12
       DEF Step, Proceed, Failure
<1>3. QED
  BY <1>1, <1>2, PTL DEF Spec

(* No completed range is claimed before the holders of all its logs are    *)
(* stored (_scan_gap's order of inserts, scan_filter's cap rule).          *)
THEOREM CoverageIsBacked == Spec => []CoverageBacked
<1>1. DiscoverySound => CoverageBacked
  BY DEF DiscoverySound
<1>2. QED
  BY <1>1, DiscoverySoundness, PTL

-----------------------------------------------------------------------------
(* What advance makes of the universe.                                     *)

(* The blocks of a sequence of ranges all belong to the token's life. *)
Alive(s) == \A b \in Nat : Held(s, b) => b >= deployment_block

(* What a process has in hand, and the rows, come from the token's logs. *)
InHand(p) ==
  /\ IsFiniteSet(done[p])
  /\ Alive(gaps[p]) /\ Alive(pending[p])
  /\ \A l \in logs[p] : l[1] >= deployment_block
Genuine(h) == \E l \in Logs : l[1] >= deployment_block /\ h = <<l[2], l[1]>>

(* The blocks up to the anchor are completed or in a gap that is still to  *)
(* be scanned; the ranges of a scan that passed its own check fill the gap *)
(* it was for.                                                             *)
Whole(p) ==
  /\ pc[p] \in {"gap", "scan", "holders", "ranges", "complete"} =>
       \A b \in Blocks(Required(anchor[p])) : b \in BlocksOf(covered) \/ Held(gaps[p], b)
  /\ pc[p] = "complete" => gaps[p] = <<>>
  /\ pc[p] \in {"scan", "holders", "ranges"} => gaps[p] # <<>>
  /\ pc[p] \in {"holders", "ranges"} => Blocks(Head(gaps[p])) \subseteq BlocksOf(done[p])

RangesTyped ==
  /\ covered \in SUBSET BlockRange /\ IsFiniteSet(covered)
  /\ anchor \in [Procs -> Nat]
  /\ gaps \in [Procs -> Seq(BlockRange)]
  /\ pending \in [Procs -> Seq(BlockRange)]
  /\ done \in [Procs -> SUBSET BlockRange]

AdvanceSound ==
  /\ RangesTyped
  /\ \A p \in Procs : InHand(p) /\ Whole(p)
  /\ \A h \in holders : Genuine(h)

(* A completed range is never withdrawn, so covered blocks stay covered. *)
LEMMA CoverageGrows ==
  ASSUME covered \subseteq covered', NEW b \in BlocksOf(covered)
  PROVE  b \in BlocksOf(covered)'
BY DEF BlocksOf

(* A step of another process takes nothing from an advance. *)
LEMMA AdvanceUnchanged ==
  ASSUME NEW p \in Procs, InHand(p), Whole(p), covered \subseteq covered',
         pc'[p] = pc[p], anchor'[p] = anchor[p], gaps'[p] = gaps[p],
         pending'[p] = pending[p], done'[p] = done[p], logs'[p] = logs[p]
  PROVE  InHand(p)' /\ Whole(p)'
<1>1. InHand(p)'
  BY DEF InHand, Alive, Held
<1>2. Whole(p)'
  BY CoverageGrows DEF Whole, Required, Blocks, Held, BlocksOf
<1> QED
  BY <1>1, <1>2

(* A range that is not a single block is halved within the token's life. *)
LEMMA HalvedIsAlive ==
  ASSUME NEW s \in Seq(BlockRange), s # <<>>, Alive(s), size(Head(s)) # 1
  PROVE  split(Head(s)) \o Tail(s) \in Seq(BlockRange) /\ Alive(split(Head(s)) \o Tail(s))
<1>1. PICK r \in BlockRange, rest \in Seq(BlockRange) :
        /\ r = Head(s) /\ rest = Tail(s)
        /\ \A b : Held(s, b) <=> b \in Blocks(r) \/ Held(rest, b)
  BY TailHolds
<1>2. size(r) > 1
  BY <1>1, RangeBounds DEF size
<1>3. PICK halves \in Seq(BlockRange) :
        halves = split(r) /\ BlocksOf(Range(halves)) = Blocks(r)
  BY <1>2, HalvesAreExact
<1>4. /\ halves \o rest \in Seq(BlockRange)
      /\ \A b : Held(halves \o rest, b) <=> Held(halves, b) \/ Held(rest, b)
  BY ConcatHolds
<1>5. \A b : Held(halves, b) <=> b \in Blocks(r)
  BY <1>3, HeldBlocks
<1>6. Alive(halves \o rest)
  BY <1>1, <1>4, <1>5 DEF Alive
<1> QED
  BY <1>1, <1>3, <1>4, <1>6

(* advance, whatever interrupts it: what it has not yet scanned of its     *)
(* anchor's range is still in its gaps.                                    *)
THEOREM AdvanceSoundness == Spec => []AdvanceSound
<1>1. Init => AdvanceSound
  <2> SUFFICES ASSUME Init PROVE AdvanceSound
    OBVIOUS
  <2>1. <<>> \in Seq(BlockRange) /\ Len(<<>>) = 0 /\ IsFiniteSet({})
    BY EmptySeq, FS_EmptySet
  <2>2. Alive(<<>>)
    BY <2>1 DEF Alive, Held
  <2>3. RangesTyped
    BY <2>1 DEF Init, RangesTyped
  <2>4. \A p \in Procs : InHand(p)
    BY <2>1, <2>2 DEF Init, InHand
  <2>5. \A p \in Procs : Whole(p)
    BY DEF Init, Whole
  <2> QED
    BY <2>3, <2>4, <2>5 DEF Init, AdvanceSound
<1>2. DiscoverySound /\ AdvanceSound /\ [Next]_vars => AdvanceSound'
  <2> SUFFICES ASSUME DiscoverySound, AdvanceSound, [Next]_vars PROVE AdvanceSound'
    OBVIOUS
  <2>0. CASE UNCHANGED vars
    BY <2>0, AdvanceUnchanged DEF vars, AdvanceSound, RangesTyped, Genuine
  <2> SUFFICES ASSUME NEW q \in Procs, Step(q) \/ Failure(q)
               PROVE  AdvanceSound'
    BY <2>0 DEF Next
  <2>typed. /\ pc \in [Procs -> States] /\ logs \in [Procs -> SUBSET Logs]
            /\ RangesTyped /\ InHand(q) /\ Whole(q)
            /\ \A p \in Procs : InHand(p) /\ Whole(p)
            /\ \A h \in holders : Genuine(h)
    BY DEF DiscoverySound, AdvanceSound
  (* It is enough to look at q's own advance and at the new rows. *)
  <2>1. ASSUME covered \subseteq covered', RangesTyped',
               \A p \in Procs \ {q} :
                 /\ pc'[p] = pc[p] /\ anchor'[p] = anchor[p] /\ gaps'[p] = gaps[p]
                 /\ pending'[p] = pending[p] /\ done'[p] = done[p] /\ logs'[p] = logs[p],
               InHand(q)', Whole(q)',
               \A h \in holders' \ holders : Genuine(h)
        PROVE  AdvanceSound'
    <3>1. \A p \in Procs \ {q} : InHand(p)' /\ Whole(p)'
      BY <2>1, <2>typed, AdvanceUnchanged
    <3>2. \A h \in holders' : Genuine(h)
      BY <2>1, <2>typed
    <3> QED
      BY <2>1, <3>1, <3>2 DEF AdvanceSound, Genuine
  (* The same, for the steps that leave everything but control alone. *)
  <2>2. ASSUME \E state \in States : Goto(q, state), Whole(q)',
               UNCHANGED <<store, anchor, gaps, scan>>
        PROVE  AdvanceSound'
    <3>1. RangesTyped' /\ InHand(q)'
      BY <2>2, <2>typed DEF RangesTyped, InHand, Alive, Held
    <3> QED
      BY <2>1, <2>2, <2>typed, <3>1 DEF Goto
  <2>3. ASSUME Goto(q, "idle") PROVE Whole(q)'
    BY <2>3, <2>typed DEF Goto, Whole
  <2>4. CASE \E a \in Anchors : ReadCoverage(q, a)
    <3>1. PICK a \in Anchors : ReadCoverage(q, a)
      BY <2>4
    <3>2. PICK seen \in SUBSET covered :
            gaps' = [gaps EXCEPT ![q] = coverage_gaps(Required(a), seen)]
      BY <3>1 DEF ReadCoverage
    <3>3. a \in Nat /\ deployment_block \in Nat /\ a >= deployment_block
      BY <3>1, RangeAssumption DEF ReadCoverage
    <3>4. PICK required \in BlockRange :
            required = Required(a) /\ start(required) = deployment_block
      <4>1. Required(a) = <<deployment_block, a + 1>>
        BY DEF Required
      <4>2. start(Required(a)) = deployment_block /\ end_exclusive(Required(a)) = a + 1
        BY <4>1 DEF start, end_exclusive
      <4> QED
        BY <3>3, <4>1, <4>2 DEF BlockRange
    <3>5. IsFiniteSet(seen) /\ seen \in SUBSET BlockRange
      BY <2>typed, FS_Subset DEF RangesTyped
    <3>6. PICK new \in Seq(BlockRange) :
            /\ new = coverage_gaps(required, seen)
            /\ BlocksOf(Range(new)) = Blocks(required) \ BlocksOf(seen)
      BY <3>5, GapsAreExact DEF Exactly
    <3>7. \A b : Held(new, b) <=> b \in Blocks(required) /\ b \notin BlocksOf(seen)
      BY <3>6, HeldBlocks
    <3>8. Alive(new)
      BY <3>3, <3>4, <3>7, RangeBounds DEF Alive
    <3>9. gaps' = [gaps EXCEPT ![q] = new] /\ gaps'[q] = new /\ anchor'[q] = a /\ pc'[q] = "gap"
      BY <2>typed, <3>1, <3>2, <3>4, <3>6 DEF ReadCoverage, Goto, RangesTyped
    <3>10. RangesTyped'
      BY <2>typed, <3>1, <3>3, <3>9 DEF RangesTyped, ReadCoverage
    <3>11. InHand(q)'
      <4>1. UNCHANGED <<pending, done, logs>>
        BY <3>1 DEF ReadCoverage
      <4> QED
        BY <2>typed, <3>8, <3>9, <4>1 DEF InHand, Alive, Held
    <3>12. \A b \in Blocks(required) : b \in BlocksOf(covered) \/ Held(new, b)
      BY <3>7 DEF BlocksOf
    <3>13. Whole(q)'
      <4>1. covered' = covered
        BY <3>1 DEF ReadCoverage
      <4> QED
        BY <3>4, <3>9, <3>12, <4>1 DEF Whole
    <3> QED
      BY <2>1, <2>typed, <3>1, <3>9, <3>10, <3>11, <3>13 DEF ReadCoverage, Goto, RangesTyped
  <2>5. CASE NextGap(q)
    <3>1. PICK gap \in BlockRange :
            gap = Head(gaps[q]) /\ \A b \in Blocks(gap) : Held(gaps[q], b)
      BY <2>5, <2>typed, TailHolds DEF NextGap, RangesTyped
    <3>2. PICK new \in Seq(BlockRange) :
            new = Chunks(gap, chunk_size) /\ BlocksOf(Range(new)) = Blocks(gap)
      BY ChunksAreExact, RangeAssumption
    <3>3. Alive(new)
      BY <2>typed, <3>1, <3>2, HeldBlocks DEF Alive, InHand
    <3>4. /\ pending' = [pending EXCEPT ![q] = new] /\ pending'[q] = new
          /\ done' = [done EXCEPT ![q] = {}] /\ done'[q] = {}
          /\ logs' = [logs EXCEPT ![q] = {}] /\ logs'[q] = {}
          /\ pc' = [pc EXCEPT ![q] = "scan"] /\ pc'[q] = "scan"
          /\ UNCHANGED <<holders, covered, anchor, gaps>>
      BY <2>5, <2>typed, <3>1, <3>2 DEF NextGap, Goto, RangesTyped
    <3>5. RangesTyped'
      BY <2>typed, <3>4 DEF RangesTyped
    <3>6. InHand(q)'
      BY <2>typed, <3>3, <3>4, FS_EmptySet DEF InHand, Alive, Held
    <3>7. Whole(q)'
      BY <2>5, <2>typed, <3>4 DEF NextGap, Whole
    <3> QED
      BY <2>1, <2>typed, <3>4, <3>5, <3>6, <3>7 DEF RangesTyped
  <2>6. CASE Complete(q)
    <3>1. Whole(q)'
      BY <2>6, <2>typed DEF Complete, Goto, Whole
    <3> QED
      BY <2>2, <2>6, <3>1 DEF Complete, States
  <2>7. CASE Again(q)
    BY <2>2, <2>3, <2>7 DEF Again, States
  <2>8. ASSUME SplitOrFail(q, Head(pending[q])), pc[q] = "scan", pending[q] # <<>>,
               UNCHANGED <<store, anchor, gaps>>
        PROVE  AdvanceSound'
    <3>1. CASE size(Head(pending[q])) = 1
      BY <2>2, <2>3, <2>8, <3>1 DEF SplitOrFail, States
    <3>2. CASE size(Head(pending[q])) # 1
      <4>1. PICK new \in Seq(BlockRange) :
              new = split(Head(pending[q])) \o Tail(pending[q]) /\ Alive(new)
        BY <2>8, <2>typed, <3>2, HalvedIsAlive DEF RangesTyped, InHand
      <4>2. /\ pending' = [pending EXCEPT ![q] = new] /\ pending'[q] = new
            /\ UNCHANGED <<pc, done, logs, holders, covered, anchor, gaps>>
        BY <2>8, <2>typed, <3>2, <4>1 DEF SplitOrFail, RangesTyped
      <4>3. RangesTyped'
        BY <2>typed, <4>2 DEF RangesTyped
      <4>4. InHand(q)' /\ Whole(q)'
        BY <2>typed, <4>1, <4>2 DEF InHand, Whole, Alive, Held
      <4> QED
        BY <2>1, <2>typed, <4>2, <4>3, <4>4 DEF RangesTyped
    <3> QED
      BY <3>1, <3>2
  <2>9. CASE ReadRange(q)
    <3>1. PICK r \in BlockRange, rest \in Seq(BlockRange) :
            /\ r = Head(pending[q]) /\ rest = Tail(pending[q])
            /\ \A b : Held(pending[q], b) <=> b \in Blocks(r) \/ Held(rest, b)
      BY <2>9, <2>typed, TailHolds DEF ReadRange, RangesTyped
    <3>2. PICK raw \in Answers(r) :
            \/ MayBeCut(raw) /\ SplitOrFail(q, r)
            \/ /\ ~MayBeCut(raw)
               /\ logs' = [logs EXCEPT ![q] = @ \cup raw]
               /\ done' = [done EXCEPT ![q] = @ \cup {r}]
               /\ pending' = [pending EXCEPT ![q] = Tail(@)]
               /\ UNCHANGED pc
      BY <2>9, <3>1 DEF ReadRange
    <3>3. CASE SplitOrFail(q, r)
      BY <2>8, <2>9, <3>1, <3>3 DEF ReadRange
    <3>4. CASE ~MayBeCut(raw) /\ ~SplitOrFail(q, r)
      <4>1. /\ logs' = [logs EXCEPT ![q] = logs[q] \cup raw] /\ logs'[q] = logs[q] \cup raw
            /\ done' = [done EXCEPT ![q] = done[q] \cup {r}] /\ done'[q] = done[q] \cup {r}
            /\ pending' = [pending EXCEPT ![q] = rest] /\ pending'[q] = rest
            /\ UNCHANGED <<pc, holders, covered, anchor, gaps>>
        BY <2>9, <2>typed, <3>1, <3>2, <3>4 DEF ReadRange, RangesTyped
      <4>2. \A l \in raw : l[1] >= deployment_block
        <5> SUFFICES ASSUME NEW l \in raw PROVE l[1] >= deployment_block
          OBVIOUS
        <5>1. l \in Logs /\ l[1] \in Blocks(r) /\ l[1] \in Nat
          BY LogsAssumption DEF Answers, LogsIn
        <5> QED
          BY <2>typed, <3>1, <5>1 DEF InHand, Alive
      <4>3. IsFiniteSet(done[q] \cup {r})
        BY <2>typed, FS_AddElement DEF InHand
      <4>4. RangesTyped'
        BY <2>typed, <4>1 DEF RangesTyped
      <4>5. InHand(q)'
        BY <2>typed, <3>1, <4>1, <4>2, <4>3 DEF InHand, Alive, Held
      <4>6. Whole(q)'
        BY <2>9, <2>typed, <4>1 DEF ReadRange, Whole
      <4> QED
        BY <2>1, <2>typed, <4>1, <4>4, <4>5, <4>6 DEF RangesTyped
    <3> QED
      BY <3>2, <3>3, <3>4
  <2>10. CASE EndScan(q)
    <3>1. PICK state \in {"holders", "idle"} :
            /\ state = IF coverage_gaps(Head(gaps[q]), done[q]) = <<>> THEN "holders" ELSE "idle"
            /\ Goto(q, state) /\ UNCHANGED <<store, anchor, gaps, scan>>
      BY <2>10 DEF EndScan
    <3>2. CASE state = "idle"
      BY <2>2, <2>3, <3>1, <3>2 DEF States
    <3>3. CASE state = "holders"
      <4>1. PICK gap \in BlockRange : gap = Head(gaps[q])
        BY <2>10, <2>typed, TailHolds DEF EndScan, Whole, RangesTyped
      <4>2. PICK ranges \in SUBSET BlockRange : ranges = done[q] /\ IsFiniteSet(ranges)
        BY <2>typed DEF RangesTyped, InHand
      <4>3. coverage_gaps(gap, ranges) = <<>>
        BY <3>1, <3>3, <4>1, <4>2
      <4>4. BlocksOf(Range(<<>>)) = Blocks(gap) \ BlocksOf(ranges)
        BY <4>2, <4>3, GapsAreExact DEF Exactly
      <4>5. \A b \in Nat : b \notin BlocksOf(Range(<<>>))
        <5>1. <<>> \in Seq(BlockRange) /\ Len(<<>>) = 0
          BY EmptySeq
        <5>2. \A b : ~Held(<<>>, b)
          BY <5>1 DEF Held
        <5> QED
          BY <5>1, <5>2, HeldBlocks
      <4>6. Blocks(gap) \subseteq BlocksOf(ranges)
        BY <4>4, <4>5, RangeBounds
      <4>7. Whole(q)'
        BY <2>10, <2>typed, <3>1, <3>3, <4>1, <4>2, <4>6 DEF EndScan, Goto, Whole
      <4> QED
        BY <2>2, <3>1, <3>3, <4>7 DEF States
    <3> QED
      BY <3>1, <3>2, <3>3
  <2>11. \A h \in HolderRows(logs[q]) : Genuine(h)
    BY <2>typed DEF HolderRows, Genuine, InHand
  <2>12. CASE InsertHolders(q)
    <3>1. /\ pc' = [pc EXCEPT ![q] = "ranges"]
          /\ UNCHANGED <<covered, anchor, gaps, pending, done, logs>>
      BY <2>12 DEF InsertHolders, Goto
    <3>2. RangesTyped' /\ InHand(q)'
      BY <2>typed, <3>1 DEF RangesTyped, InHand, Alive, Held
    <3>3. Whole(q)'
      BY <2>12, <2>typed, <3>1 DEF InsertHolders, Whole
    <3>4. \A h \in holders' \ holders : Genuine(h)
      BY <2>11, <2>12 DEF InsertHolders
    <3> QED
      BY <2>1, <2>typed, <3>1, <3>2, <3>3, <3>4
  <2>13. ASSUME NEW landed \in SUBSET done[q]
         PROVE  covered \cup landed \in SUBSET BlockRange /\ IsFiniteSet(covered \cup landed)
    <3>1. IsFiniteSet(landed)
      BY <2>typed, FS_Subset DEF InHand
    <3> QED
      BY <2>typed, <3>1, FS_Union DEF RangesTyped
  <2>14. CASE InsertRanges(q)
    <3>1. PICK gap \in BlockRange, rest \in Seq(BlockRange) :
            /\ gap = Head(gaps[q]) /\ rest = Tail(gaps[q])
            /\ \A b : Held(gaps[q], b) <=> b \in Blocks(gap) \/ Held(rest, b)
      BY <2>14, <2>typed, TailHolds DEF InsertRanges, Whole, RangesTyped
    <3>2. /\ gaps' = [gaps EXCEPT ![q] = rest] /\ gaps'[q] = rest
          /\ pc' = [pc EXCEPT ![q] = "gap"] /\ pc'[q] = "gap"
          /\ covered' = covered \cup done[q]
          /\ UNCHANGED <<holders, anchor, pending, done, logs>>
      BY <2>14, <2>typed, <3>1 DEF InsertRanges, Goto, RangesTyped
    <3>3. RangesTyped'
      BY <2>13, <2>typed, <3>2 DEF RangesTyped
    <3>4. InHand(q)'
      BY <2>typed, <3>1, <3>2 DEF InHand, Alive
    <3>5. \A b \in Blocks(Required(anchor[q])) : b \in BlocksOf(covered') \/ Held(rest, b)
      <4>1. \A b \in BlocksOf(covered) \cup BlocksOf(done[q]) : b \in BlocksOf(covered')
        BY <3>2 DEF BlocksOf
      <4>2. Blocks(gap) \subseteq BlocksOf(done[q])
        BY <2>14, <2>typed, <3>1 DEF InsertRanges, Whole
      <4> QED
        BY <2>14, <2>typed, <3>1, <4>1, <4>2 DEF InsertRanges, Whole
    <3>6. Whole(q)'
      BY <3>2, <3>5 DEF Whole
    <3> QED
      BY <2>1, <2>typed, <3>2, <3>3, <3>4, <3>6 DEF RangesTyped
  <2>15. CASE ProviderLimit(q)
    BY <2>8, <2>15 DEF ProviderLimit
  <2>16. CASE InsertRaises(q)
    <3>1. /\ Goto(q, "idle") /\ UNCHANGED <<anchor, gaps, pending, done, logs>>
      BY <2>16 DEF InsertRaises
    <3>2. /\ \A h \in holders' \ holders : Genuine(h)
          /\ covered \subseteq covered' /\ covered' \in SUBSET BlockRange /\ IsFiniteSet(covered')
      <4>1. CASE pc[q] = "holders"
        BY <2>11, <2>16, <2>typed, <4>1 DEF InsertRaises, RangesTyped
      <4>2. CASE pc[q] = "ranges"
        BY <2>13, <2>16, <4>2 DEF InsertRaises
      <4> QED
        BY <2>16, <4>1, <4>2 DEF InsertRaises
    <3>3. RangesTyped' /\ InHand(q)'
      BY <2>typed, <3>1, <3>2 DEF RangesTyped, InHand, Alive, Held
    <3> QED
      BY <2>1, <2>3, <2>typed, <3>1, <3>2, <3>3 DEF Goto
  <2>17. CASE Fail(q)
    BY <2>2, <2>3, <2>17 DEF Fail, States
  <2> QED
    BY <2>4, <2>5, <2>6, <2>7, <2>9, <2>10, <2>12, <2>14, <2>15, <2>16, <2>17
       DEF Step, Proceed, Failure
<1> QED
  BY <1>1, <1>2, DiscoverySoundness, PTL DEF Spec

(* A census that goes on after advance has returned measures every address *)
(* of a log up to its anchor and no other (holder_members), whatever other *)
(* processes scan beyond the anchor, crash or fail to insert.              *)
THEOREM UniverseIsExact == Spec => []UniverseExact
<1>1. DiscoverySound /\ AdvanceSound => UniverseExact
  <2> SUFFICES ASSUME DiscoverySound, AdvanceSound, NEW p \in Procs, pc[p] = "complete"
               PROVE  holder_members(anchor[p]) = {l[2] : l \in LogsIn(Required(anchor[p]))}
    BY DEF UniverseExact
  <2>1. PICK a \in Nat : a = anchor[p]
    BY DEF AdvanceSound, RangesTyped
  <2>2. start(Required(a)) = deployment_block /\ end_exclusive(Required(a)) = a + 1
    BY DEF Required, start, end_exclusive
  <2>3. \A b \in Nat : b \in Blocks(Required(a)) <=> deployment_block <= b /\ b <= a
    BY <2>2, RangeAssumption DEF Blocks
  <2>4. \A l \in Logs : l[1] \in Nat
    BY LogsAssumption
  <2>5. ASSUME NEW x \in holder_members(a)
        PROVE  \E l \in LogsIn(Required(a)) : x = l[2]
    <3>1. PICK h \in holders : h[2] <= a /\ x = h[1]
      BY DEF holder_members
    <3>2. PICK l \in Logs : l[1] >= deployment_block /\ h = <<l[2], l[1]>>
      BY DEF AdvanceSound, Genuine
    <3>3. x = l[2] /\ l[1] <= a
      BY <3>1, <3>2
    <3> QED
      BY <2>3, <2>4, <3>2, <3>3 DEF LogsIn
  <2>6. ASSUME NEW l \in LogsIn(Required(a)) PROVE l[2] \in holder_members(a)
    <3>1. l \in Logs /\ l[1] \in Blocks(Required(a)) /\ l[1] <= a
      BY <2>3, <2>4 DEF LogsIn
    <3>2. \A b : ~Held(<<>>, b)
      <4>1. Len(<<>>) = 0
        OBVIOUS
      <4> QED
        BY <4>1 DEF Held
    <3>3. l[1] \in BlocksOf(covered)
      BY <2>1, <3>1, <3>2 DEF AdvanceSound, Whole
    <3>4. PICK r \in covered : l[1] \in Blocks(r)
      BY <3>3 DEF BlocksOf
    <3>5. Seen(l)
      BY <3>1, <3>4 DEF DiscoverySound, CoverageBacked, LogsIn
    <3>6. PICK h \in holders : h[1] = l[2] /\ h[2] <= l[1]
      BY <3>5 DEF Seen
    <3>7. h[2] \in Nat
      BY <2>4, <3>6 DEF AdvanceSound, Genuine
    <3>8. h[2] <= a
      BY <2>4, <3>1, <3>6, <3>7
    <3> QED
      BY <3>6, <3>8 DEF holder_members
  <2> QED
    BY <2>1, <2>5, <2>6
<1> QED
  BY <1>1, DiscoverySoundness, AdvanceSoundness, PTL
=============================================================================
