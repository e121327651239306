------------------------ MODULE TreasurySweepProofs ------------------------
(***************************************************************************)
(* That the coverage of the wallet sweep is backed by stored logs, for any *)
(* wallets, topic positions, logs, days and faults.                        *)
(***************************************************************************)
EXTENDS TreasurySweep, BlockRangesProofs

(* What the sweep holds in hand between the scan of a window and its range *)
(* rows: the logs of the window, which are stored before the range is.     *)
InHand ==
  /\ pc \in {"logs", "ranges"} =>
       found = LogsOf(Head(jobs)[1], Head(jobs)[2], Head(jobs)[3])
  /\ pc = "ranges" => found \subseteq rows

(* A range row of a window stands for logs of one of its wallets only. *)
LEMMA RangeRowsBacked ==
  ASSUME NEW j,
         LogsOf(j[1], j[2], j[3]) \subseteq rows,
         NEW s \in RangeRows(j)
  PROVE  LogsOf(s[2], {s[1]}, s[3]) \subseteq rows
<1>1. PICK w \in j[2] : s = <<w, j[1], j[3]>>
  BY DEF RangeRows
<1>2. s[1] = w /\ s[2] = j[1] /\ s[3] = j[3]
  BY <1>1
<1> QED
  BY <1>1, <1>2 DEF LogsOf

(* _scan_gap: every log of a wallet in a range recorded as completed for   *)
(* it is stored, whatever crashes, partial inserts and new wallets come    *)
(* between.                                                                *)
THEOREM SweepIsBacked == Spec => []SweepBacked
<1>init. Init => SweepBacked /\ InHand
  BY DEF Init, SweepBacked, InHand
<1>step. SweepBacked /\ InHand /\ [Next]_vars => SweepBacked' /\ InHand'
  <2> SUFFICES ASSUME SweepBacked, InHand, [Next]_vars
               PROVE  SweepBacked' /\ InHand'
    OBVIOUS
  <2>kept. ASSUME swept' = swept, rows \subseteq rows'
           PROVE  SweepBacked'
    BY <2>kept DEF SweepBacked, LogsOf
  <2>process. CASE \/ NewDay \/ Start \/ Cycle \/ Poll \/ ReadGaps \/ PositionDone
                   \/ SweepDone \/ ResolveTargets \/ CensusDone \/ Crash
                   \/ \E c \in Tokens : Publish(c) \/ AttemptFails(c)
    BY <2>process, <2>kept
       DEF InHand, LogsOf, storeVars, sweepVars, censusVars, NewDay, Start, Cycle,
           Poll, ReadGaps, PositionDone, SweepDone, ResolveTargets, CensusDone, Crash,
           Publish, AttemptFails
  <2>scan. CASE ScanWindow
    BY <2>scan, <2>kept DEF ScanWindow, storeVars, InHand, LogsOf
  <2>logs. CASE InsertLogs
    BY <2>logs, <2>kept DEF InsertLogs, sweepVars, InHand, LogsOf
  <2>ranges. CASE InsertRanges
    <3>1. LogsOf(Head(jobs)[1], Head(jobs)[2], Head(jobs)[3]) \subseteq rows
      BY <2>ranges DEF InsertRanges, InHand
    <3>2. \A s \in swept' : LogsOf(s[2], {s[1]}, s[3]) \subseteq rows
      BY <2>ranges, <3>1, RangeRowsBacked DEF InsertRanges, SweepBacked
    <3> QED
      BY <2>ranges, <3>2 DEF InsertRanges, SweepBacked, InHand, LogsOf
  <2>raises. CASE SweepRaises
    <3>1. CASE pc = "ranges"
      <4>1. LogsOf(Head(jobs)[1], Head(jobs)[2], Head(jobs)[3]) \subseteq rows
        BY <3>1 DEF InHand
      <4>2. /\ rows' = rows
            /\ \E landed \in SUBSET RangeRows(Head(jobs)) : swept' = swept \cup landed
        BY <2>raises, <3>1 DEF SweepRaises
      <4>3. \A s \in swept' : LogsOf(s[2], {s[1]}, s[3]) \subseteq rows
        BY <4>1, <4>2, RangeRowsBacked DEF SweepBacked
      <4> QED
        BY <2>raises, <4>2, <4>3 DEF SweepRaises, SweepBacked, InHand, LogsOf
    <3>2. CASE pc # "ranges"
      BY <2>raises, <3>2, <2>kept DEF SweepRaises, InHand
    <3> QED
      BY <3>1, <3>2
  <2>still. CASE UNCHANGED vars
    BY <2>still, <2>kept DEF vars, storeVars, sweepVars, InHand, LogsOf
  <2> QED
    BY <2>process, <2>scan, <2>logs, <2>ranges, <2>raises, <2>still DEF Next, Work
<1> QED
  BY <1>init, <1>step, PTL DEF Spec

-----------------------------------------------------------------------------
(* Sequences of sequences.                                                 *)

Lists(s, e) == \E i \in 1..Len(s) : s[i] = e

(* A concatenation lists the elements of both parts. *)
LEMMA ConcatLists ==
  ASSUME NEW X, NEW s \in Seq(X), NEW t \in Seq(X)
  PROVE  /\ s \o t \in Seq(X)
         /\ \A e : Lists(s \o t, e) <=> Lists(s, e) \/ Lists(t, e)
<1>1. PICK m \in Nat, n \in Nat : m = Len(s) /\ n = Len(t)
  OBVIOUS
<1>2. PICK u \in Seq(X) : u = s \o t
  BY ConcatProperties
<1>3. /\ Len(u) = m + n
      /\ \A i \in 1..m : u[i] = s[i]
      /\ \A i \in 1..n : u[m + i] = t[i]
  BY <1>1, <1>2
<1>4. ASSUME NEW e PROVE Lists(u, e) <=> Lists(s, e) \/ Lists(t, e)
  <2>1. Lists(u, e) <=> \E i \in 1..(m + n) : u[i] = e
    BY <1>3 DEF Lists
  <2>2. Lists(s, e) <=> \E i \in 1..m : u[i] = e
    BY <1>1, <1>3 DEF Lists
  <2>3. Lists(t, e) <=> \E i \in 1..n : u[m + i] = e
    BY <1>1, <1>3 DEF Lists
  <2>4. ASSUME NEW i \in 1..(m + n) PROVE i \in 1..m \/ \E j \in 1..n : i = m + j
    <3>1. i \notin 1..m => i - m \in 1..n /\ i = m + (i - m)
      OBVIOUS
    <3> QED
      BY <3>1
  <2>5. /\ \A i \in 1..m : i \in 1..(m + n)
        /\ \A i \in 1..n : m + i \in 1..(m + n)
    OBVIOUS
  <2> QED
    BY <2>1, <2>2, <2>3, <2>4, <2>5
<1> QED
  BY <1>2, <1>4

(* FlattenSeq lists what the sequences list. *)
LEMMA FlattenLists ==
  ASSUME NEW X, NEW seqs \in Seq(Seq(X))
  PROVE  /\ FlattenSeq(seqs) \in Seq(X)
         /\ \A e : Lists(FlattenSeq(seqs), e) <=> \E j \in 1..Len(seqs) : Lists(seqs[j], e)
<1>1. PICK n \in Nat : n = Len(seqs) /\ \A i \in 1..n : seqs[i] \in Seq(X)
  OBVIOUS
<1>2. CASE n = 0
  <2>1. FlattenSeq(seqs) = <<>>
    <3>1. seqs = <<>>
      BY <1>1, <1>2, EmptySeq
    <3>2. Len(seqs) = 0
      BY <1>1, <1>2
    <3> QED
      BY <3>1, <3>2, Zenon DEF FlattenSeq
  <2>2. <<>> \in Seq(X) /\ Len(<<>>) = 0
    BY EmptySeq
  <2>3. \A e : ~Lists(<<>>, e)
    BY <2>2 DEF Lists
  <2> QED
    BY <1>1, <1>2, <2>1, <2>2, <2>3
<1>3. CASE n # 0
  <2> DEFINE Flattens(f) == f = [i \in 1..n |-> IF i = 1 THEN seqs[i] ELSE f[i - 1] \o seqs[i]]
  <2>1. \E f : Flattens(f)
    <3>1. PICK Y : Y = Seq(X)
      OBVIOUS
    <3>2. PICK st : st = [q \in Y \X (1..n) |-> q[1] \o seqs[q[2]]]
      OBVIOUS
    <3>3. ASSUME NEW y \in Y, NEW i \in 1..n
          PROVE  st[<<y, i>>] = y \o seqs[i] /\ y \o seqs[i] \in Y
      <4>1. <<y, i>> \in Y \X (1..n) /\ <<y, i>>[1] = y /\ <<y, i>>[2] = i
        OBVIOUS
      <4>2. y \o seqs[i] \in Y
        BY <1>1, <3>1, ConcatProperties
      <4> QED
        BY <3>2, <4>1, <4>2
    <3>4. st \in [Y \X (1..n) -> Y]
      <4>1. \A q \in Y \X (1..n) : q[1] \in Y /\ q[2] \in 1..n
        OBVIOUS
      <4>2. \A q \in Y \X (1..n) : q[1] \o seqs[q[2]] \in Y
        BY <3>3, <4>1
      <4> QED
        BY <3>2, <4>2
    <3>5. PICK base \in Y : base = <<>>
      BY <3>1, EmptySeq
    <3>6. PICK f : f \in FoldFunctions(n, Y, base, st)
      BY <3>4, FoldIsDefined
    <3>7. /\ f \in [SUBSET (1..n) -> Y]
          /\ \A s \in SUBSET (1..n) :
               f[s] = IF s = {} THEN base ELSE st[<<f[s \ {Max(s)}], Max(s)>>]
      BY <3>6, Zenon DEF FoldFunctions
    <3>8. ASSUME NEW i \in 1..n PROVE f[1..i] = f[1..(i - 1)] \o seqs[i]
      <4>1. /\ 1..i \in SUBSET (1..n) /\ 1..i # {} /\ Max(1..i) = i
            /\ (1..i) \ {i} = 1..(i - 1)
        BY PrefixesShrink
      <4>2. f[1..i] = st[<<f[1..(i - 1)], i>>]
        BY <3>7, <4>1
      <4>3. f[1..(i - 1)] \in Y
        <5>1. 1..(i - 1) \in SUBSET (1..n)
          BY <4>1
        <5> QED
          BY <3>7, <5>1
      <4> QED
        BY <3>3, <4>2, <4>3
    <3>9. f[1..0] = <<>>
      BY <3>5, <3>7, PrefixesShrink
    <3>10. PICK g : g = [i \in 1..n |-> f[1..i]]
      OBVIOUS
    <3>11. ASSUME NEW i \in 1..n
           PROVE  g[i] = IF i = 1 THEN seqs[i] ELSE g[i - 1] \o seqs[i]
      <4>1. CASE i = 1
        <5>1. i - 1 = 0
          BY <4>1
        <5>2. f[1..i] = f[1..0] \o seqs[i]
          BY <3>8, <5>1
        <5>3. g[i] = <<>> \o seqs[i]
          BY <3>9, <3>10, <5>2
        <5> QED
          BY <1>1, <4>1, <5>3, ConcatEmptySeq
      <4>2. CASE i # 1
        <5>1. i - 1 \in 1..n
          BY <4>2
        <5> QED
          BY <3>8, <3>10, <4>2, <5>1
      <4> QED
        BY <4>1, <4>2
    <3>12. Flattens(g)
      BY <3>10, <3>11
    <3> QED
      BY <3>12
  <2>2. PICK h : h = CHOOSE f : Flattens(f)
    OBVIOUS
  <2>3. Flattens(h)
    BY <2>1, <2>2, Zenon
  <2>4. FlattenSeq(seqs) = h[n]
    BY <1>1, <1>3, <2>2 DEF FlattenSeq
  <2>5. \A i \in 1..n : h[i] = IF i = 1 THEN seqs[i] ELSE h[i - 1] \o seqs[i]
    BY <2>3
  <2> HIDE DEF Flattens
  <2> DEFINE Good(k) == /\ h[k] \in Seq(X)
                        /\ \A e : Lists(h[k], e) <=> \E j \in 1..k : Lists(seqs[j], e)
             Wrong == {k \in 1..n : ~Good(k)}
  <2>6. ASSUME 1 \in 1..n PROVE Good(1)
    <3>1. h[1] = seqs[1]
      BY <2>5, <2>6
    <3>2. \A j : j \in 1..1 <=> j = 1
      OBVIOUS
    <3> QED
      BY <1>1, <2>6, <3>1, <3>2
  <2> HIDE DEF Good
  <2>7. ASSUME NEW k \in 1..n, k # 1, Good(k - 1) PROVE Good(k)
    <3>1. PICK i \in 1..n : i = k - 1 /\ Good(i)
      BY <2>7
    <3>2. h[k] = h[i] \o seqs[k] /\ h[i] \in Seq(X) /\ seqs[k] \in Seq(X)
      BY <1>1, <2>5, <2>7, <3>1 DEF Good
    <3>3. \A e : Lists(h[k], e) <=> Lists(h[i], e) \/ Lists(seqs[k], e)
      BY <3>2, ConcatLists
    <3>4. \A j : j \in 1..k <=> j \in 1..i \/ j = k
      BY <3>1
    <3>5. h[k] \in Seq(X)
      BY <3>2, ConcatLists
    <3> QED
      BY <3>1, <3>3, <3>4, <3>5 DEF Good
  <2>8. Wrong = {}
    <3> SUFFICES ASSUME Wrong # {} PROVE FALSE
      OBVIOUS
    <3>1. PICK k \in Wrong : \A j \in Wrong : k <= j
      <4>1. Wrong \in SUBSET Nat
        OBVIOUS
      <4> QED
        BY <4>1, LeastBlock
    <3>2. k \in 1..n /\ k # 1
      BY <2>6, <3>1
    <3>3. k - 1 \in 1..n /\ ~(k <= k - 1)
      BY <3>2
    <3> QED
      BY <2>7, <3>1, <3>2, <3>3
  <2>9. Good(n)
    BY <1>1, <1>3, <2>8
  <2> QED
    BY <1>1, <2>4, <2>9 DEF Good
<1> QED
  BY <1>2, <1>3

-----------------------------------------------------------------------------
(* The jobs of a position.                                                 *)

(* The tuple order on gaps is a strict total order. *)
LEMMA GapsAreOrdered ==
  ASSUME NEW a \in Seq(BlockRange), NEW b \in Seq(BlockRange), NEW c \in Seq(BlockRange)
  PROVE  /\ ~Earlier(a, a)
         /\ Earlier(a, b) /\ Earlier(b, c) => Earlier(a, c)
         /\ a # b => Earlier(a, b) \/ Earlier(b, a)
<1>1. PICK k \in Nat, l \in Nat, m \in Nat : k = Len(a) /\ l = Len(b) /\ m = Len(c)
  OBVIOUS
<1>2. /\ \A i \in 1..k : a[i] \in BlockRange
      /\ \A i \in 1..l : b[i] \in BlockRange
      /\ \A i \in 1..m : c[i] \in BlockRange
  BY <1>1
<1>3. ~Earlier(a, a)
  BY <1>1, <1>2, RangesAreOrdered DEF Earlier
<1>4. ASSUME Earlier(a, b), Earlier(b, c) PROVE Earlier(a, c)
  <2>1. PICK i \in 1..l : /\ \A j \in 1..(i - 1) : j <= k /\ a[j] = b[j]
                          /\ i > k \/ Precedes(a[i], b[i])
    BY <1>1, <1>4 DEF Earlier
  <2>2. PICK n \in 1..m : /\ \A j \in 1..(n - 1) : j <= l /\ b[j] = c[j]
                          /\ n > l \/ Precedes(b[n], c[n])
    BY <1>1, <1>4 DEF Earlier
  <2>3. CASE i < n
    <3>1. i \in 1..m /\ b[i] = c[i]
      BY <2>2, <2>3
    <3>2. \A j \in 1..(i - 1) : j <= k /\ a[j] = c[j]
      <4>1. \A j \in 1..(i - 1) : j \in 1..(n - 1)
        BY <2>3
      <4> QED
        BY <2>1, <2>2, <4>1
    <3> QED
      BY <1>1, <2>1, <3>1, <3>2 DEF Earlier
  <2>4. CASE n < i
    <3>1. n \in 1..(i - 1) /\ ~(n > l)
      BY <2>4
    <3>2. a[n] = b[n] /\ Precedes(b[n], c[n])
      BY <2>1, <2>2, <3>1
    <3>3. \A j \in 1..(n - 1) : j <= k /\ a[j] = c[j]
      BY <2>1, <2>2, <2>4
    <3> QED
      BY <1>1, <3>2, <3>3 DEF Earlier
  <2>5. CASE i = n
    <3>1. \A j \in 1..(i - 1) : j <= k /\ a[j] = c[j]
      BY <2>1, <2>2, <2>5
    <3>2. Precedes(b[i], c[i]) /\ i \in 1..m /\ b[i] \in BlockRange /\ c[i] \in BlockRange
      BY <1>2, <2>2, <2>5
    <3>3. i > k \/ Precedes(a[i], c[i])
      <4> SUFFICES ASSUME ~(i > k) PROVE Precedes(a[i], c[i])
        OBVIOUS
      <4>1. a[i] \in BlockRange /\ Precedes(a[i], b[i])
        BY <1>2, <2>1
      <4> QED
        BY <3>2, <4>1, RangesAreOrdered
    <3> QED
      BY <1>1, <3>1, <3>2, <3>3 DEF Earlier
  <2> QED
    BY <2>3, <2>4, <2>5
<1>5. ASSUME a # b PROVE Earlier(a, b) \/ Earlier(b, a)
  <2> DEFINE Differ == {j \in Nat \ {0} : \/ j <= k /\ j <= l /\ a[j] # b[j]
                                          \/ j <= k /\ j > l
                                          \/ j > k /\ j <= l}
  <2>1. Differ # {}
    <3> SUFFICES ASSUME Differ = {} PROVE FALSE
      OBVIOUS
    <3>1. k = l
      <4>1. k > l => k \in Differ
        OBVIOUS
      <4>2. l > k => l \in Differ
        OBVIOUS
      <4>3. ~(k > l) /\ ~(l > k)
        BY <4>1, <4>2
      <4> QED
        BY <1>1, <4>3
    <3>2. \A j \in 1..k : a[j] = b[j]
      BY <3>1
    <3> QED
      BY <1>1, <1>5, <3>1, <3>2, SeqEqual
  <2>2. PICK i \in Differ : \A j \in Differ : i <= j
    <3>1. Differ \in SUBSET Nat
      OBVIOUS
    <3> QED
      BY <2>1, <3>1, LeastBlock
  <2>3. ASSUME NEW j \in 1..(i - 1) PROVE j <= k /\ j <= l /\ a[j] = b[j]
    <3>1. j \notin Differ /\ j \in Nat \ {0} /\ j < i
      BY <2>2
    <3>2. i <= k \/ i <= l
      BY <2>2
    <3> QED
      BY <3>1, <3>2
  <2>4. \/ i <= k /\ i <= l /\ a[i] # b[i]
        \/ i <= k /\ i > l
        \/ i > k /\ i <= l
    BY <2>2
  <2>5. i \in Nat \ {0}
    BY <2>2
  <2> HIDE DEF Differ
  <2>6. CASE i > k /\ i <= l
    BY <1>1, <2>3, <2>5, <2>6 DEF Earlier
  <2>7. CASE i <= k /\ i > l
    BY <1>1, <2>3, <2>5, <2>7 DEF Earlier
  <2>8. CASE i <= k /\ i <= l /\ a[i] # b[i]
    <3>1. Precedes(a[i], b[i]) \/ Precedes(b[i], a[i])
      BY <1>2, <2>5, <2>8, RangesAreOrdered
    <3> QED
      BY <1>1, <2>3, <2>5, <2>8, <3>1 DEF Earlier
  <2> QED
    BY <2>4, <2>6, <2>7, <2>8
<1> QED
  BY <1>3, <1>4, <1>5

(* sorted(gap_groups.items()): every group has a place. *)
LEMMA GroupsAreSorted ==
  ASSUME NEW S, IsFiniteSet(S),
         \A g \in S : g[1] \in Seq(BlockRange),
         \A g, h \in S : g[1] = h[1] => g = h
  PROVE  \E s \in Seq(S) : /\ s = Sorted(S, GroupPrecedes)
                           /\ \A g \in S : Lists(s, g)
<1> DEFINE R == {q \in S \X S : GroupPrecedes(q[1], q[2])}
           Before(g) == {h \in S : GroupPrecedes(h, g)}
<1>1. \A g, h \in S : <<g, h>> \in R <=> Earlier(g[1], h[1])
  BY DEF GroupPrecedes
<1>2. \A g, h \in S : <<g, h>> \in R <=> GroupPrecedes(g, h)
  OBVIOUS
<1> HIDE DEF R
<1>3. /\ \A g \in S : <<g, g>> \notin R
      /\ \A g, h, i \in S : <<g, h>> \in R /\ <<h, i>> \in R => <<g, i>> \in R
      /\ \A g, h \in S : g # h => <<g, h>> \in R \/ <<h, g>> \in R
  BY <1>1, GapsAreOrdered
<1>4. PICK n \in Nat : \E rank \in [S -> 0..(n - 1)] :
        /\ n = Cardinality(S)
        /\ \A g \in S : rank[g] = Cardinality({h \in S : <<h, g>> \in R})
        /\ \A i \in 0..(n - 1) : \E g \in S : rank[g] = i
        /\ \A g, h \in S : rank[g] < rank[h] <=> <<g, h>> \in R
        /\ \A g, h \in S : rank[g] = rank[h] => g = h
  BY <1>3, RanksAreTaken
<1>5. PICK rank \in [S -> 0..(n - 1)] :
        /\ n = Cardinality(S)
        /\ \A g \in S : rank[g] = Cardinality({h \in S : <<h, g>> \in R})
        /\ \A i \in 0..(n - 1) : \E g \in S : rank[g] = i
        /\ \A g, h \in S : rank[g] = rank[h] => g = h
  BY <1>4
<1>6. \A g \in S : rank[g] = Cardinality(Before(g))
  <2> SUFFICES ASSUME NEW g \in S PROVE rank[g] = Cardinality(Before(g))
    OBVIOUS
  <2>1. {h \in S : <<h, g>> \in R} = Before(g)
    BY <1>2
  <2> QED
    BY <1>5, <2>1
<1>7. PICK s : s = Sorted(S, GroupPrecedes)
  OBVIOUS
<1>8. s = [i \in 1..n |-> CHOOSE g \in S : Cardinality(Before(g)) = i - 1]
  BY <1>5, <1>7 DEF Sorted
<1>9. ASSUME NEW i \in 1..n PROVE s[i] \in S /\ rank[s[i]] = i - 1
  <2>1. s[i] = CHOOSE g \in S : Cardinality(Before(g)) = i - 1
    BY <1>8
  <2>2. i - 1 \in 0..(n - 1)
    OBVIOUS
  <2>3. \E g \in S : Cardinality(Before(g)) = i - 1
    BY <1>5, <1>6, <2>2
  <2>4. s[i] \in S /\ Cardinality(Before(s[i])) = i - 1
    BY <2>1, <2>3, Zenon
  <2> QED
    BY <1>6, <2>4
<1>10. DOMAIN s = 1..n /\ s = [i \in 1..n |-> s[i]]
  <2> DEFINE Ith(i) == CHOOSE g \in S : Cardinality(Before(g)) = i - 1
  <2>1. s = [i \in 1..n |-> Ith(i)]
    BY <1>8
  <2> HIDE DEF Ith
  <2> QED
    BY <2>1
<1> HIDE DEF Before
<1>11. s \in Seq(S) /\ Len(s) = n
  <2>1. s \in [1..n -> S]
    BY <1>9, <1>10
  <2>2. s \in Seq(S)
    BY <2>1, SeqDef
  <2> QED
    BY <2>1, <2>2, LenProperties
<1>12. ASSUME NEW g \in S PROVE Lists(s, g)
  <2>1. rank[g] \in 0..(n - 1)
    BY <1>5
  <2>2. PICK i \in 1..n : i = rank[g] + 1
    BY <2>1
  <2>3. i - 1 = rank[g]
    BY <2>1, <2>2
  <2> QED
    BY <1>5, <1>9, <1>11, <2>3 DEF Lists
<1> QED
  BY <1>7, <1>11, <1>12

(* Finitely many wallets have finitely many lists of gaps. *)
LEMMA ImageIsFinite ==
  ASSUME NEW S, IsFiniteSet(S), NEW f
  PROVE  IsFiniteSet({f[e] : e \in S})
<1>1. PICK T : T = {f[e] : e \in S}
  OBVIOUS
<1>2. PICK g : g = [e \in S |-> f[e]]
  OBVIOUS
<1>3. g \in Surjection(S, T)
  BY <1>1, <1>2 DEF Surjection
<1> QED
  BY <1>1, <1>3, FS_Surjection

(* The windows of some gaps hold their blocks (scan_windows). *)
LEMMA WindowsCover ==
  ASSUME NEW gaps \in Seq(BlockRange)
  PROVE  /\ WindowsOf(gaps) \in Seq(BlockRange)
         /\ \A b : Held(gaps, b) => Held(WindowsOf(gaps), b)
<1>1. PICK n \in Nat : n = Len(gaps) /\ DOMAIN gaps = 1..n
                       /\ \A i \in 1..n : gaps[i] \in BlockRange
  BY LenProperties
<1>2. PICK seqs : seqs = [i \in 1..n |-> scan_windows(gaps[i])]
  OBVIOUS
<1>3. ASSUME NEW i \in 1..n
      PROVE  /\ seqs[i] \in Seq(BlockRange)
             /\ \A b : Held(seqs[i], b) <=> b \in Blocks(gaps[i])
  <2>1. seqs[i] = Chunks(gaps[i], checkpoint_blocks)
    BY <1>2 DEF scan_windows
  <2>2. gaps[i] \in BlockRange /\ checkpoint_blocks \in Nat \ {0}
    BY <1>1, SweepConstants
  <2>3. seqs[i] \in Seq(BlockRange) /\ BlocksOf(Range(seqs[i])) = Blocks(gaps[i])
    BY <2>1, <2>2, ChunksAreExact
  <2> QED
    BY <2>3, HeldBlocks
<1>4. seqs \in Seq(Seq(BlockRange)) /\ Len(seqs) = n
  <2>1. seqs \in [1..n -> Seq(BlockRange)]
    BY <1>2, <1>3
  <2>2. seqs \in Seq(Seq(BlockRange))
    BY <2>1, SeqDef
  <2> QED
    BY <2>1, <2>2, LenProperties
<1>5. WindowsOf(gaps) = FlattenSeq(seqs)
  BY <1>1, <1>2 DEF WindowsOf
<1>6. /\ FlattenSeq(seqs) \in Seq(BlockRange)
      /\ \A e : Lists(FlattenSeq(seqs), e) <=> \E j \in 1..n : Lists(seqs[j], e)
  BY <1>4, FlattenLists
<1>7. ASSUME NEW b, Held(gaps, b) PROVE Held(FlattenSeq(seqs), b)
  <2>1. PICK i \in 1..n : b \in Blocks(gaps[i])
    BY <1>1, <1>7 DEF Held
  <2>2. PICK j \in 1..Len(seqs[i]) : b \in Blocks(seqs[i][j])
    BY <1>3, <2>1 DEF Held
  <2>3. Lists(seqs[i], seqs[i][j])
    BY DEF Lists
  <2>4. Lists(FlattenSeq(seqs), seqs[i][j])
    BY <1>6, <2>3
  <2> QED
    BY <2>2, <2>4 DEF Lists, Held
<1> QED
  BY <1>5, <1>6, <1>7

Jobs == Positions \X (SUBSET Wallets) \X BlockRange
JobFor(j, w, p, b) == j[1] = p /\ w \in j[2] /\ b \in Blocks(j[3])

(* The jobs of a group scan all its gaps for each of its wallets. *)
LEMMA GroupIsScanned ==
  ASSUME NEW p \in Positions, NEW g, g[1] \in Seq(BlockRange), g[2] \in SUBSET Wallets
  PROVE  /\ GroupJobs(p, g) \in Seq(Jobs)
         /\ \A w \in g[2] : \A b : Held(g[1], b) =>
              \E j : Lists(GroupJobs(p, g), j) /\ JobFor(j, w, p, b)
<1>1. PICK ws \in Seq(BlockRange) :
        ws = WindowsOf(g[1]) /\ \A b : Held(g[1], b) => Held(ws, b)
  BY WindowsCover
<1>2. PICK n \in Nat : n = Len(ws) /\ DOMAIN ws = 1..n
                       /\ \A i \in 1..n : ws[i] \in BlockRange
  BY LenProperties
<1>3. PICK s : s = GroupJobs(p, g)
  OBVIOUS
<1>4. s = [i \in 1..n |-> <<p, g[2], ws[i]>>]
  BY <1>1, <1>2, <1>3 DEF GroupJobs
<1>5. s \in Seq(Jobs) /\ Len(s) = n
  <2>1. \A i \in 1..n : <<p, g[2], ws[i]>> \in Jobs
    BY <1>2 DEF Jobs
  <2>2. s \in [1..n -> Jobs]
    BY <1>4, <2>1
  <2>3. s \in Seq(Jobs)
    BY <2>2, SeqDef
  <2> QED
    BY <2>2, <2>3, LenProperties
<1>6. ASSUME NEW w \in g[2], NEW b, Held(g[1], b)
      PROVE  \E j : Lists(s, j) /\ JobFor(j, w, p, b)
  <2>1. PICK i \in 1..n : b \in Blocks(ws[i])
    BY <1>1, <1>2, <1>6 DEF Held
  <2>2. s[i] = <<p, g[2], ws[i]>>
    BY <1>4
  <2>3. s[i][1] = p /\ s[i][2] = g[2] /\ s[i][3] = ws[i]
    BY <2>2
  <2>4. Lists(s, s[i])
    BY <1>5 DEF Lists
  <2> QED
    BY <2>1, <2>3, <2>4 DEF JobFor
<1> QED
  BY <1>3, <1>5, <1>6

SweepTyped ==
  /\ day \in 1..MaxDay /\ target \in 1..MaxDay
  /\ swept \in SUBSET (Wallets \X Positions \X BlockRange) /\ IsFiniteSet(swept)
  /\ wallets \in SUBSET Wallets /\ IsFiniteSet(wallets)
  /\ positions \in SUBSET Positions
  /\ jobs \in Seq(Jobs)

(* The range a date requires is never empty. *)
LEMMA RequiredIsRange ==
  ASSUME NEW date \in 1..MaxDay
  PROVE  Required(date) \in BlockRange
<1>1. start_block \in Nat /\ AnchorOf[date] \in Nat /\ start_block <= AnchorOf[date]
  BY SweepConstants
<1>2. Required(date) = <<start_block, AnchorOf[date] + 1>>
  BY DEF Required
<1>3. start(Required(date)) = start_block /\ end_exclusive(Required(date)) = AnchorOf[date] + 1
  BY <1>2 DEF start, end_exclusive
<1> QED
  BY <1>1, <1>2, <1>3 DEF BlockRange

(* What completed_sweep_ranges returns is a finite set of ranges. *)
LEMMA SweptAreRanges ==
  ASSUME SweepTyped, NEW w, NEW p
  PROVE  SweptRanges(w, p) \in SUBSET BlockRange /\ IsFiniteSet(SweptRanges(w, p))
<1>1. PICK S \in SUBSET swept : S = {e \in swept : e[1] = w /\ e[2] = p}
  OBVIOUS
<1>2. IsFiniteSet(S)
  BY FS_Subset DEF SweepTyped
<1>3. PICK f : f = [e \in S |-> e[3]]
  OBVIOUS
<1>4. SweptRanges(w, p) = {f[e] : e \in S}
  BY <1>1, <1>3 DEF SweptRanges
<1>5. \A e \in S : e[3] \in BlockRange
  BY DEF SweepTyped
<1>6. IsFiniteSet({f[e] : e \in S})
  BY <1>2, ImageIsFinite
<1> QED
  BY <1>1, <1>4, <1>5, <1>6 DEF SweptRanges

(* What advance reads as the gaps of a position becomes jobs that scan,    *)
(* for every wallet, each block that is not recorded for it.               *)
LEMMA JobsCover ==
  ASSUME SweepTyped, NEW p \in Positions
  PROVE  /\ JobsOf(p) \in Seq(Jobs)
         /\ \A w \in wallets : \A b \in Blocks(Required(target)) :
              \/ b \in BlocksOf(SweptRanges(w, p))
              \/ \E j : Lists(JobsOf(p), j) /\ JobFor(j, w, p, b)
<1>1. PICK required \in BlockRange : required = Required(target)
  BY RequiredIsRange DEF SweepTyped
<1>2. PICK gap : gap = [w \in wallets |-> coverage_gaps(Required(target), SweptRanges(w, p))]
  OBVIOUS
<1>3. ASSUME NEW w \in wallets
      PROVE  /\ gap[w] \in Seq(BlockRange)
             /\ \A b \in Blocks(required) : b \in BlocksOf(SweptRanges(w, p)) \/ Held(gap[w], b)
  <2>1. PICK done \in SUBSET BlockRange : done = SweptRanges(w, p) /\ IsFiniteSet(done)
    BY SweptAreRanges
  <2>2. PICK new \in Seq(BlockRange) :
          /\ new = coverage_gaps(required, done)
          /\ BlocksOf(Range(new)) = Blocks(required) \ BlocksOf(done)
    BY <2>1, GapsAreExact DEF Exactly
  <2>3. gap[w] = new
    BY <1>1, <1>2, <2>1, <2>2
  <2>4. \A b \in Blocks(required) : b \in BlocksOf(done) \/ Held(new, b)
    BY <2>2, HeldBlocks
  <2> QED
    BY <2>1, <2>2, <2>3, <2>4
<1> DEFINE Same(w) == {v \in wallets : gap[v] = gap[w]}
           Behind == {w \in wallets : gap[w] # <<>>}
<1>4. PICK S : S = GapGroups(p)
  OBVIOUS
<1>5. S = {<<gap[w], Same(w)>> : w \in Behind}
  BY <1>2, <1>4, Zenon DEF GapGroups
<1>6. \A g \in S : g[1] \in Seq(BlockRange) /\ g[2] \in SUBSET Wallets
  BY <1>3, <1>5 DEF SweepTyped
<1>7. \A g, h \in S : g[1] = h[1] => g = h
  <2> SUFFICES ASSUME NEW g \in S, NEW h \in S, g[1] = h[1] PROVE g = h
    OBVIOUS
  <2>1. PICK w \in Behind : g = <<gap[w], Same(w)>>
    BY <1>5
  <2>2. PICK v \in Behind : h = <<gap[v], Same(v)>>
    BY <1>5
  <2>3. gap[w] = gap[v]
    BY <2>1, <2>2
  <2>4. Same(w) = Same(v)
    BY <2>3
  <2> QED
    BY <2>1, <2>2, <2>3, <2>4
<1>8. IsFiniteSet(S)
  <2>1. IsFiniteSet(Behind)
    BY FS_Subset DEF SweepTyped
  <2>2. PICK f : f = [w \in Behind |-> <<gap[w], Same(w)>>]
    OBVIOUS
  <2>3. S = {f[w] : w \in Behind}
    BY <1>5, <2>2
  <2> QED
    BY <2>1, <2>3, ImageIsFinite
<1>9. PICK order \in Seq(S) :
        order = Sorted(S, GroupPrecedes) /\ \A g \in S : Lists(order, g)
  BY <1>6, <1>7, <1>8, GroupsAreSorted
<1>10. PICK n \in Nat : n = Len(order) /\ DOMAIN order = 1..n
                        /\ \A i \in 1..n : order[i] \in S
  BY LenProperties
<1>11. PICK seqs : seqs = [i \in 1..n |-> GroupJobs(p, order[i])]
  OBVIOUS
<1>12. seqs \in Seq(Seq(Jobs)) /\ Len(seqs) = n
  <2>1. \A i \in 1..n : GroupJobs(p, order[i]) \in Seq(Jobs)
    BY <1>6, <1>10, GroupIsScanned
  <2>2. seqs \in [1..n -> Seq(Jobs)]
    BY <1>11, <2>1
  <2>3. seqs \in Seq(Seq(Jobs))
    BY <2>2, SeqDef
  <2> QED
    BY <2>2, <2>3, LenProperties
<1>13. JobsOf(p) = FlattenSeq(seqs)
  BY <1>4, <1>9, <1>10, <1>11 DEF JobsOf
<1>14. /\ FlattenSeq(seqs) \in Seq(Jobs)
       /\ \A j : Lists(FlattenSeq(seqs), j) <=> \E i \in 1..n : Lists(seqs[i], j)
  BY <1>12, FlattenLists
<1>15. ASSUME NEW w \in wallets, NEW b \in Blocks(required), b \notin BlocksOf(SweptRanges(w, p))
       PROVE  \E j : Lists(JobsOf(p), j) /\ JobFor(j, w, p, b)
  <2>1. Held(gap[w], b)
    BY <1>3, <1>15
  <2>2. gap[w] # <<>>
    <3>1. Len(<<>>) = 0
      OBVIOUS
    <3> QED
      BY <2>1, <3>1 DEF Held
  <2>3. PICK g \in S : g[1] = gap[w] /\ w \in g[2]
    <3>1. <<gap[w], Same(w)>> \in S
      BY <1>5, <2>2
    <3>2. w \in Same(w)
      OBVIOUS
    <3> QED
      BY <3>1, <3>2
  <2>4. PICK i \in 1..n : order[i] = g
    BY <1>9, <1>10 DEF Lists
  <2>5. PICK j : Lists(GroupJobs(p, g), j) /\ JobFor(j, w, p, b)
    BY <1>6, <2>1, <2>3, GroupIsScanned
  <2>6. Lists(seqs[i], j)
    BY <1>11, <2>4, <2>5
  <2> QED
    BY <1>13, <1>14, <2>5, <2>6
<1> QED
  BY <1>1, <1>13, <1>14, <1>15

-----------------------------------------------------------------------------
(* Gap-free coverage.                                                      *)

(* What advance has read of a position is recorded, or still in its jobs. *)
Queued(w, p, b) == \E i \in 1..Len(jobs) : JobFor(jobs[i], w, p, b)
Pursued ==
  \A w \in wallets, p \in Positions \ positions : \A b \in Blocks(Required(target)) :
    b \in BlocksOf(SweptRanges(w, p)) \/ Queued(w, p, b)
SweepSound ==
  /\ SweepTyped
  /\ pc \in {"sweep", "scan", "logs", "ranges"} => Pursued
  /\ pc \notin {"scan", "logs", "ranges"} => jobs = <<>>
  /\ pc \in {"logs", "ranges"} => jobs # <<>>
  /\ GapFree

(* A recorded range is never withdrawn. *)
LEMMA SweptGrow ==
  ASSUME swept \subseteq swept', NEW w, NEW p, NEW b \in BlocksOf(SweptRanges(w, p))
  PROVE  b \in BlocksOf(SweptRanges(w, p))'
BY DEF BlocksOf, SweptRanges

(* Without jobs nothing waits to be scanned. *)
LEMMA NoneQueued ==
  ASSUME jobs = <<>>, NEW w, NEW p, NEW b
  PROVE  ~Queued(w, p, b)
<1>1. Len(<<>>) = 0
  OBVIOUS
<1> QED
  BY <1>1 DEF Queued

(* A step that touches neither the sweep nor what it records. *)
LEMMA SweepUnchanged ==
  ASSUME SweepSound, UNCHANGED <<target, swept, wallets, positions, jobs, whole>>,
         day' \in 1..MaxDay
  PROVE  SweepTyped' /\ (Pursued => Pursued') /\ (GapFree /\ pc' = pc => GapFree')
<1>1. SweepTyped'
  BY DEF SweepSound, SweepTyped
<1>2. Pursued => Pursued'
  BY DEF Pursued, Queued, SweptRanges, Required, Blocks
<1>3. GapFree /\ pc' = pc => GapFree'
  BY DEF GapFree, SweptRanges, Required, Blocks
<1> QED
  BY <1>1, <1>2, <1>3

(* Recording a window takes it out of the jobs and nothing else. *)
LEMMA WindowIsRecorded ==
  ASSUME SweepTyped, jobs # <<>>
  PROVE  /\ Head(jobs) \in Jobs /\ Tail(jobs) \in Seq(Jobs)
         /\ RangeRows(Head(jobs)) \in SUBSET (Wallets \X Positions \X BlockRange)
         /\ IsFiniteSet(RangeRows(Head(jobs)))
         /\ \A w, p, b : Queued(w, p, b) =>
              \/ \E s \in RangeRows(Head(jobs)) : s[1] = w /\ s[2] = p /\ b \in Blocks(s[3])
              \/ \E i \in 1..Len(Tail(jobs)) : JobFor(Tail(jobs)[i], w, p, b)
<1>1. PICK all \in Seq(Jobs) : all = jobs /\ all # <<>>
  BY DEF SweepTyped
<1>2. PICK n \in Nat : n = Len(all) /\ n > 0
  BY <1>1, EmptySeq
<1>3. PICK rest \in Seq(Jobs) : rest = Tail(all)
  BY <1>1, HeadTailProperties
<1>4. Len(rest) = n - 1 /\ \A i \in 1..(n - 1) : rest[i] = all[i + 1]
  BY <1>2, <1>3
<1>5. PICK j \in Jobs : j = Head(all) /\ j = all[1]
  BY <1>2
<1>6. j[1] \in Positions /\ j[2] \in SUBSET Wallets /\ j[3] \in BlockRange
  BY <1>5 DEF Jobs
<1>7. RangeRows(j) \in SUBSET (Wallets \X Positions \X BlockRange)
  BY <1>6 DEF RangeRows
<1>8. IsFiniteSet(RangeRows(j))
  <2>1. IsFiniteSet(j[2])
    BY <1>6, FS_Subset, SweepConstants
  <2>2. PICK f : f = [w \in j[2] |-> <<w, j[1], j[3]>>]
    OBVIOUS
  <2>3. RangeRows(j) = {f[w] : w \in j[2]}
    BY <2>2 DEF RangeRows
  <2> QED
    BY <2>1, <2>3, ImageIsFinite
<1>9. ASSUME NEW w, NEW p, NEW b, Queued(w, p, b)
      PROVE  \/ \E s \in RangeRows(j) : s[1] = w /\ s[2] = p /\ b \in Blocks(s[3])
             \/ \E i \in 1..Len(rest) : JobFor(rest[i], w, p, b)
  <2>1. PICK i \in 1..n : JobFor(all[i], w, p, b)
    BY <1>1, <1>2, <1>9 DEF Queued
  <2>2. CASE i = 1
    <3>1. j[1] = p /\ w \in j[2] /\ b \in Blocks(j[3])
      BY <1>5, <2>1, <2>2 DEF JobFor
    <3>2. <<w, j[1], j[3]>> \in RangeRows(j)
      BY <3>1 DEF RangeRows
    <3> QED
      BY <3>1, <3>2
  <2>3. CASE i # 1
    <3>1. i - 1 \in 1..(n - 1) /\ (i - 1) + 1 = i
      BY <2>3
    <3>2. rest[i - 1] = all[i]
      BY <1>4, <3>1
    <3> QED
      BY <1>4, <2>1, <3>1, <3>2
  <2> QED
    BY <2>2, <2>3
<1> QED
  BY <1>1, <1>3, <1>5, <1>7, <1>8, <1>9

(* SweepService.advance keeps SweepSound: of a topic position it has read  *)
(* the gaps of, every required block of every wallet is recorded or in a   *)
(* window that is still queued.                                            *)
THEOREM SweepSoundness == Spec => []SweepSound
<1>1. Init => SweepSound
  <2> SUFFICES ASSUME Init PROVE SweepSound
    OBVIOUS
  <2>1. <<>> \in Seq(Jobs) /\ IsFiniteSet({})
    BY EmptySeq, FS_EmptySet
  <2>2. 1 \in 1..MaxDay
    BY SweepConstants
  <2> QED
    BY <2>1, <2>2 DEF Init, SweepSound, SweepTyped, GapFree
<1>2. SweepSound /\ [Next]_vars => SweepSound'
  <2> SUFFICES ASSUME SweepSound, [Next]_vars PROVE SweepSound'
    OBVIOUS
  <2>1. SweepTyped /\ <<>> \in Seq(Jobs)
    BY EmptySeq DEF SweepSound
  <2> USE DEF storeVars, sweepVars, censusVars
  (* The steps outside the sweep. *)
  <2>2. ASSUME UNCHANGED <<target, swept, wallets, positions, jobs, whole, pc>>,
               day' \in 1..MaxDay
        PROVE  SweepSound'
    BY <2>2, SweepUnchanged DEF SweepSound
  <2>3. ASSUME UNCHANGED <<day, target, swept, wallets, positions, jobs, whole>>,
               pc \in {"census", "attempts", "sleep"}, pc' \in {"census", "attempts", "sleep", "cycle"}
        PROVE  SweepSound'
    <3>1. SweepTyped' /\ jobs' = <<>>
      BY <2>3, SweepUnchanged DEF SweepSound, SweepTyped
    <3>2. GapFree'
      BY <2>3 DEF SweepSound, GapFree, SweptRanges, Required, Blocks
    <3> QED
      BY <2>3, <3>1, <3>2 DEF SweepSound
  <2>4. CASE NewDay
    BY <2>1, <2>2, <2>4, SweepConstants DEF NewDay, SweepTyped
  <2>5. CASE Start
    <3>1. wallets' \in SUBSET Wallets /\ IsFiniteSet(wallets')
      BY <2>1, <2>5, FS_Subset, SweepConstants DEF Start, SweepTyped
    <3>2. pc' = "cycle" /\ UNCHANGED <<day, target, swept, positions, jobs>> /\ jobs = <<>>
      BY <2>5 DEF Start, SweepSound
    <3> QED
      BY <2>1, <3>1, <3>2 DEF SweepSound, SweepTyped, GapFree
  <2>6. CASE Cycle
    <3>1. /\ pc' = "sweep" /\ target' = day /\ positions' = Positions
          /\ UNCHANGED <<day, swept, wallets, jobs>> /\ jobs = <<>>
      BY <2>6 DEF Cycle, SweepSound
    <3>2. Pursued'
      BY <3>1 DEF Pursued
    <3> QED
      BY <2>1, <3>1, <3>2 DEF SweepSound, SweepTyped, GapFree
  <2>7. CASE Poll \/ ResolveTargets \/ CensusDone
    BY <2>3, <2>7 DEF Poll, ResolveTargets, CensusDone
  <2>8. CASE \E c \in Tokens : Publish(c) \/ AttemptFails(c)
    BY <2>1, <2>2, <2>8 DEF Publish, AttemptFails, SweepTyped
  <2>9. CASE Crash
    BY <2>1, <2>9 DEF Crash, SweepSound, SweepTyped, GapFree
  (* advance. *)
  <2>10. CASE ReadGaps
    <3>1. PICK p \in positions : jobs' = JobsOf(p) /\ positions' = positions \ {p}
      BY <2>10 DEF ReadGaps
    <3>2. /\ pc = "sweep" /\ pc' = "scan" /\ jobs = <<>>
          /\ UNCHANGED <<day, target, swept, wallets>>
      BY <2>10 DEF ReadGaps, SweepSound
    <3>3. /\ JobsOf(p) \in Seq(Jobs)
          /\ \A w \in wallets : \A b \in Blocks(Required(target)) :
               \/ b \in BlocksOf(SweptRanges(w, p))
               \/ \E j : Lists(JobsOf(p), j) /\ JobFor(j, w, p, b)
      <4>1. p \in Positions
        BY <2>1 DEF SweepTyped
      <4> QED
        BY <2>1, <4>1, JobsCover
    <3>4. SweepTyped'
      BY <2>1, <3>1, <3>2, <3>3 DEF SweepTyped
    <3>5. Pursued'
      <4> SUFFICES ASSUME NEW w \in wallets, NEW q \in Positions \ (positions \ {p}),
                          NEW b \in Blocks(Required(target)),
                          b \notin BlocksOf(SweptRanges(w, q))
                   PROVE  Queued(w, q, b)'
        BY <3>1, <3>2 DEF Pursued, SweptRanges
      <4>1. CASE q = p
        BY <3>1, <3>3, <4>1 DEF Lists, Queued
      <4>2. CASE q # p
        <5>1. Queued(w, q, b)
          BY <3>2, <4>2 DEF SweepSound, Pursued
        <5> QED
          BY <3>2, <5>1, NoneQueued
      <4> QED
        BY <4>1, <4>2
    <3> QED
      BY <3>2, <3>4, <3>5 DEF SweepSound, GapFree
  <2>11. CASE ScanWindow
    BY <2>1, <2>11, SweepUnchanged DEF ScanWindow, SweepSound, SweepTyped, GapFree
  <2>12. CASE PositionDone
    BY <2>1, <2>12, SweepUnchanged DEF PositionDone, SweepSound, SweepTyped, GapFree
  <2>13. CASE InsertLogs
    BY <2>1, <2>13, SweepUnchanged DEF InsertLogs, SweepSound, SweepTyped, GapFree
  <2>14. ASSUME NEW landed \in SUBSET RangeRows(Head(jobs)), jobs # <<>>
         PROVE  /\ swept \cup landed \in SUBSET (Wallets \X Positions \X BlockRange)
                /\ IsFiniteSet(swept \cup landed)
    <3>1. IsFiniteSet(landed)
      BY <2>1, <2>14, WindowIsRecorded, FS_Subset
    <3>2. landed \in SUBSET (Wallets \X Positions \X BlockRange)
      BY <2>1, <2>14, WindowIsRecorded
    <3> QED
      BY <2>1, <3>1, <3>2, FS_Union DEF SweepTyped
  <2>15. CASE InsertRanges
    <3>1. /\ pc = "ranges" /\ pc' = "scan" /\ jobs # <<>>
          /\ swept' = swept \cup RangeRows(Head(jobs)) /\ jobs' = Tail(jobs)
          /\ UNCHANGED <<day, target, wallets, positions>>
      BY <2>15 DEF InsertRanges, SweepSound
    <3>2. SweepTyped'
      BY <2>1, <2>14, <3>1, WindowIsRecorded DEF SweepTyped
    <3>3. Pursued'
      <4> SUFFICES ASSUME NEW w \in wallets, NEW p \in Positions \ positions,
                          NEW b \in Blocks(Required(target))
                   PROVE  b \in BlocksOf(SweptRanges(w, p))' \/ Queued(w, p, b)'
        BY <3>1 DEF Pursued
      <4>1. CASE b \in BlocksOf(SweptRanges(w, p))
        BY <3>1, <4>1, SweptGrow
      <4>2. CASE \E s \in RangeRows(Head(jobs)) : s[1] = w /\ s[2] = p /\ b \in Blocks(s[3])
        BY <3>1, <4>2 DEF SweptRanges, BlocksOf
      <4>3. CASE \E i \in 1..Len(Tail(jobs)) : JobFor(Tail(jobs)[i], w, p, b)
        BY <3>1, <4>3 DEF Queued
      <4>4. b \in BlocksOf(SweptRanges(w, p)) \/ Queued(w, p, b)
        BY <3>1 DEF SweepSound, Pursued
      <4> QED
        BY <2>1, <3>1, <4>1, <4>2, <4>3, <4>4, WindowIsRecorded
    <3> QED
      BY <3>1, <3>2, <3>3 DEF SweepSound, GapFree
  <2>16. CASE SweepRaises
    <3>1. /\ pc' = "census" /\ whole' = FALSE /\ jobs' = <<>> /\ positions' = {}
          /\ UNCHANGED <<day, target, wallets>>
      BY <2>16 DEF SweepRaises
    <3>2. swept' \in SUBSET (Wallets \X Positions \X BlockRange) /\ IsFiniteSet(swept')
      <4>1. CASE pc = "ranges"
        BY <2>14, <2>16, <4>1 DEF SweepRaises, SweepSound
      <4>2. CASE pc # "ranges"
        BY <2>1, <2>16, <4>2 DEF SweepRaises, SweepTyped
      <4> QED
        BY <4>1, <4>2
    <3> QED
      BY <2>1, <3>1, <3>2 DEF SweepSound, SweepTyped, GapFree
  <2>17. CASE SweepDone
    <3>1. /\ pc = "sweep" /\ pc' = "census" /\ positions = {} /\ jobs = <<>>
          /\ UNCHANGED <<day, target, swept, wallets, positions, jobs, whole>>
      BY <2>17 DEF SweepDone, SweepSound
    <3>2. \A w \in wallets, p \in Positions : \A b \in Blocks(Required(target)) :
            b \in BlocksOf(SweptRanges(w, p))
      BY <3>1, NoneQueued DEF SweepSound, Pursued
    <3>3. GapFree'
      BY <3>1, <3>2 DEF GapFree, SweptRanges
    <3> QED
      BY <2>1, <3>1, <3>3, SweepUnchanged DEF SweepSound, SweepTyped
  <2>18. CASE UNCHANGED vars
    BY <2>1, <2>2, <2>18 DEF vars, SweepTyped
  <2> QED
    BY <2>4, <2>5, <2>6, <2>7, <2>8, <2>9, <2>10, <2>11, <2>12, <2>13, <2>15, <2>16,
       <2>17, <2>18 DEF Next, Work
<1> QED
  BY <1>1, <1>2, PTL DEF Spec

(* "Coverage is gap-free per (wallet, topic position)" (docs/runbook.md):  *)
(* when SweepService.advance has returned, each wallet of the process is   *)
(* recorded from start_block to the anchor, whatever crashed or raised in  *)
(* earlier sweeps and whichever wallets were added between them.           *)
THEOREM SweepIsGapFree == Spec => []GapFree
<1>1. SweepSound => GapFree
  BY DEF SweepSound
<1> QED
  BY <1>1, SweepSoundness, PTL

(* Every token that is due was resolved, and its attempt is still to come, *)
(* or it has been measured; a target leaves quarantine only by an attempt. *)
Pending == {c \in Due \ quarantined_token_targets : <<target, c>> \notin measured}
CensusSound ==
  /\ DOMAIN fails = Tokens
  /\ cached \in BOOLEAN /\ fresh \in BOOLEAN
  /\ pc = "sleep" => todo = {}
  /\ pc \in {"attempts", "sleep"} /\ whole /\ clean /\ fresh => Pending \subseteq todo

(* After a whole sweep the rows hold a log of every token that is due. *)
LEMMA DueAreCandidates ==
  ASSUME SweepBacked, GapFree, pc = "census", whole
  PROVE  Due \subseteq Resolved(rows) \cap active(target)
<1> SUFFICES ASSUME NEW c \in Due PROVE c \in Resolved(rows) \cap active(target)
  OBVIOUS
<1>1. PICK l \in Logs : l[4] = c /\ l[3] \in wallets /\ l[1] \in Blocks(Required(target))
  BY DEF Due
<1>2. l[2] \in Positions
  BY SweepConstants
<1>3. l[1] \in BlocksOf(SweptRanges(l[3], l[2]))
  BY <1>1, <1>2 DEF GapFree
<1>4. PICK s \in swept : s[1] = l[3] /\ s[2] = l[2] /\ l[1] \in Blocks(s[3])
  BY <1>3 DEF BlocksOf, SweptRanges
<1>5. l \in LogsOf(s[2], {s[1]}, s[3])
  BY <1>4 DEF LogsOf
<1>6. l \in rows
  BY <1>4, <1>5 DEF SweepBacked
<1> QED
  BY <1>1, <1>6 DEF Due, Resolved, discovered_token_candidates

(* run_daemon keeps CensusSound: in a cycle that resolved its targets      *)
(* after a whole sweep, from all of its rows, and in which no attempt      *)
(* failed, a token that is due and not retired is measured or still to be  *)
(* attempted.                                                              *)
THEOREM CensusSoundness == Spec => []CensusSound
<1>1. Init => CensusSound
  BY DEF Init, CensusSound
<1>2. SweepBacked /\ GapFree /\ CensusSound /\ [Next]_vars => CensusSound'
  <2> SUFFICES ASSUME SweepBacked, GapFree, CensusSound, [Next]_vars PROVE CensusSound'
    OBVIOUS
  <2> USE DEF storeVars, sweepVars, censusVars
  (* No census is running, or none of it is touched. *)
  <2>1. ASSUME pc' \notin {"attempts", "sleep"}, UNCHANGED <<cached, fresh>>, DOMAIN fails' = Tokens
        PROVE  CensusSound'
    BY <2>1 DEF CensusSound
  <2>2. CASE \/ Start \/ Cycle \/ Poll \/ Crash \/ ReadGaps \/ ScanWindow \/ PositionDone
             \/ InsertLogs \/ InsertRanges \/ SweepRaises \/ SweepDone
    <3>1. pc' \notin {"attempts", "sleep"} /\ fresh' = fresh
      BY <2>2 DEF Start, Cycle, Poll, Crash, ReadGaps, ScanWindow, PositionDone,
           InsertLogs, InsertRanges, SweepRaises, SweepDone
    <3>2. cached' \in BOOLEAN
      BY <2>2 DEF CensusSound, Start, Cycle, Poll, Crash, ReadGaps, ScanWindow, PositionDone,
           InsertLogs, InsertRanges, SweepRaises, SweepDone
    <3>3. DOMAIN fails' = Tokens
      BY <2>2 DEF CensusSound, Start, Cycle, Poll, Crash, ReadGaps, ScanWindow, PositionDone,
           InsertLogs, InsertRanges, SweepRaises, SweepDone
    <3> QED
      BY <3>1, <3>2, <3>3 DEF CensusSound
  <2>3. CASE NewDay \/ UNCHANGED vars
    BY <2>3 DEF NewDay, vars, CensusSound, Pending, Due, quarantined_token_targets, Required, Blocks,
       active
  <2>4. CASE ResolveTargets
    <3>1. /\ pc = "census" /\ pc' = "attempts" /\ cached' = TRUE
          /\ todo' = {c \in (targets' \ quarantined_token_targets) \cap active(target) :
                       <<target, c>> \notin measured}
          /\ UNCHANGED <<wallets, target, whole, fails, measured>>
      BY <2>4 DEF ResolveTargets
    <3>4. /\ fresh' \in BOOLEAN
          /\ fresh' => targets' = Resolved(rows)
      <4>1. CASE cached
        BY <2>4, <4>1 DEF ResolveTargets
      <4>2. CASE ~cached
        <5>1. PICK seen \in SUBSET rows : targets' = Resolved(seen) /\ fresh' = (seen = rows)
          BY <2>4, <4>2 DEF ResolveTargets
        <5>2. fresh' \in BOOLEAN
          BY <5>1
        <5>3. fresh' => seen = rows
          BY <5>1
        <5> QED
          BY <5>1, <5>2, <5>3
      <4> QED
        BY <4>1, <4>2
    <3>2. ASSUME whole', fresh' PROVE Pending \subseteq todo'
      <4>1. whole /\ targets' = Resolved(rows)
        BY <3>1, <3>2, <3>4
      <4> QED
        BY <3>1, <4>1, DueAreCandidates DEF Pending
    <3>3. Pending' = Pending
      BY <3>1 DEF Pending, Due, quarantined_token_targets, active
    <3> QED
      BY <3>1, <3>2, <3>3, <3>4 DEF CensusSound
  <2>5. CASE \E c \in Tokens : Publish(c)
    <3>1. PICK c \in Tokens : Publish(c)
      BY <2>5
    <3>2. /\ pc = "attempts" /\ pc' = pc /\ todo' = todo \ {c}
          /\ measured' = measured \cup {<<target, c>>}
          /\ fails' = [fails EXCEPT ![c] = 0]
          /\ UNCHANGED <<wallets, target, whole, clean, cached, fresh>>
      BY <3>1 DEF Publish
    <3>3. \A d \in Tokens : d # c => fails'[d] = fails[d]
      BY <3>2 DEF CensusSound
    <3>4. Due' = Due
      BY <3>2 DEF Due, active
    <3>5. Pending' \subseteq Pending \ {c}
      BY <3>2, <3>3, <3>4 DEF Pending, quarantined_token_targets
    <3>6. DOMAIN fails' = Tokens
      BY <3>2 DEF CensusSound
    <3> QED
      BY <3>2, <3>5, <3>6 DEF CensusSound
  <2>6. CASE \E c \in Tokens : AttemptFails(c)
    <3>1. pc' = "attempts" /\ clean' = FALSE /\ UNCHANGED <<cached, fresh>>
      BY <2>6 DEF AttemptFails
    <3>2. DOMAIN fails' = Tokens
      BY <2>6 DEF AttemptFails, CensusSound
    <3> QED
      BY <3>1, <3>2 DEF CensusSound
  <2>7. CASE CensusDone
    BY <2>7 DEF CensusDone, CensusSound, Pending, Due, quarantined_token_targets, active
  <2> QED
    BY <2>2, <2>3, <2>4, <2>5, <2>6, <2>7 DEF Next, Work
<1> QED
  BY <1>1, <1>2, SweepIsBacked, SweepIsGapFree, PTL DEF Spec

(* End to end, for every day, wallet, token and fault: a cycle that filled *)
(* the target cache itself, by a candidate read that missed no row, and    *)
(* whose sweep and attempts all succeeded, has measured every enabled and  *)
(* active fungible token of a log that names one of the wallets up to the  *)
(* anchor, unless it is in quarantine.                                     *)
THEOREM FreshCensusIsWhole == Spec => []FreshCensusWhole
<1>1. CensusSound => FreshCensusWhole
  BY DEF CensusSound, FreshCensusWhole, CensusMissesNone, Pending
<1> QED
  BY <1>1, CensusSoundness, PTL
=============================================================================
