------------------------- MODULE BlockRangesProofs -------------------------
(***************************************************************************)
(* What the functions on block ranges return, for every required range and *)
(* every finite set of completed ranges.  The folds are unfolded once, by  *)
(* the least prefix on which they could fail.  The laws of finite sums,    *)
(* which other proofs share, are at the end.                               *)
(***************************************************************************)
EXTENDS BlockRanges, SequenceTheorems, FiniteSetTheorems, TLAPS

(* A set of naturals that is not empty has a least element. *)
LEMMA LeastBlock ==
  ASSUME NEW S \in SUBSET Nat, S # {}
  PROVE  \E m \in S : \A n \in S : m <= n
<1>1. PICK m \in S : \A n \in S : ~(<<n, m>> \in OpToRel(<, Nat))
  BY NatLessThanWellFounded, WFMin
<1>2. \A n \in S : ~(n < m)
  BY <1>1 DEF OpToRel
<1> QED
  BY <1>2

-----------------------------------------------------------------------------
(* Sorting.                                                                *)

(* In a strict total order on a finite set every position is taken, by the *)
(* element with as many others before it.                                  *)
LEMMA RanksAreTaken ==
  ASSUME NEW S, IsFiniteSet(S), NEW R,
         \A x \in S : <<x, x>> \notin R,
         \A x, y, z \in S : <<x, y>> \in R /\ <<y, z>> \in R => <<x, z>> \in R,
         \A x, y \in S : x # y => <<x, y>> \in R \/ <<y, x>> \in R
  PROVE  \E n \in Nat : \E rank \in [S -> 0..(n - 1)] :
           /\ n = Cardinality(S)
           /\ \A x \in S : rank[x] = Cardinality({y \in S : <<y, x>> \in R})
           /\ \A i \in 0..(n - 1) : \E x \in S : rank[x] = i
           /\ \A x, y \in S : rank[x] < rank[y] <=> <<x, y>> \in R
           /\ \A x, y \in S : rank[x] = rank[y] => x = y
<1>1. PICK n \in Nat : n = Cardinality(S)
  BY FS_CardinalityType
<1> DEFINE B(x) == {y \in S : <<y, x>> \in R}
           rank == [x \in S |-> Cardinality(B(x))]
<1>2. ASSUME NEW x \in S
      PROVE  IsFiniteSet(B(x)) /\ Cardinality(B(x)) \in 0..(n - 1)
  <2>1. PICK b \in SUBSET (S \ {x}) : b = B(x)
    OBVIOUS
  <2>2. IsFiniteSet(S \ {x}) /\ Cardinality(S \ {x}) = n - 1
    BY <1>1, FS_RemoveElement
  <2>3. IsFiniteSet(b) /\ Cardinality(b) <= n - 1
    BY <2>2, FS_Subset
  <2>4. Cardinality(b) \in Nat
    BY <2>3, FS_CardinalityType
  <2> QED
    BY <1>1, <2>1, <2>3, <2>4
<1>3. ASSUME NEW x \in S, NEW y \in S, <<x, y>> \in R
      PROVE  Cardinality(B(x)) < Cardinality(B(y))
  <2>1. PICK b : b = B(x)
    OBVIOUS
  <2>2. PICK c : c = B(y)
    OBVIOUS
  <2>3. b \in SUBSET c /\ b # c
    BY <1>3, <2>1, <2>2
  <2>4. IsFiniteSet(c) /\ Cardinality(b) \in Nat /\ Cardinality(c) \in Nat
    BY <1>2, <2>1, <2>2
  <2>5. Cardinality(b) <= Cardinality(c) /\ Cardinality(b) # Cardinality(c)
    BY <2>3, <2>4, FS_Subset
  <2>6. Cardinality(b) < Cardinality(c)
    BY <2>4, <2>5
  <2> QED
    BY <2>1, <2>2, <2>6
<1>4. \A x \in S : rank[x] = Cardinality(B(x))
  OBVIOUS
<1>5. rank \in [S -> 0..(n - 1)]
  BY <1>2
<1> HIDE DEF rank
<1> HIDE DEF B
<1>6. ASSUME NEW x \in S, NEW y \in S, <<x, y>> \in R PROVE rank[x] < rank[y]
  <2>1. Cardinality(B(x)) < Cardinality(B(y))
    BY <1>3, <1>6
  <2> QED
    BY <1>4, <2>1, Zenon
<1>7. \A x \in S : rank[x] \in Int
  BY <1>5
<1>8. ASSUME NEW x \in S, NEW y \in S, rank[x] = rank[y] PROVE x = y
  <2>1. ~(rank[x] < rank[y]) /\ ~(rank[y] < rank[x])
    BY <1>7, <1>8
  <2> QED
    BY <1>6, <2>1, Zenon
<1>9. ASSUME NEW x \in S, NEW y \in S, rank[x] < rank[y] PROVE <<x, y>> \in R
  <2>1. rank[x] # rank[y] /\ ~(rank[y] < rank[x])
    BY <1>7, <1>9
  <2> QED
    BY <1>6, <2>1, Zenon
<1>10. rank \in Injection(S, 0..(n - 1))
  BY <1>5, <1>8 DEF Injection, IsInjective
<1>11. IsFiniteSet(0..(n - 1)) /\ Cardinality(0..(n - 1)) = n
  BY FS_Interval
<1>12. rank \in Surjection(S, 0..(n - 1))
  BY <1>1, <1>10, <1>11, FS_Injection
<1>13. \A i \in 0..(n - 1) : \E x \in S : rank[x] = i
  BY <1>12 DEF Surjection
<1> QED
  BY <1>1, <1>4, <1>5, <1>6, <1>8, <1>9, <1>13 DEF B

(* The tuple order of ranges is a strict total order. *)
LEMMA RangesAreOrdered ==
  ASSUME NEW x \in BlockRange, NEW y \in BlockRange, NEW z \in BlockRange
  PROVE  /\ ~Precedes(x, x)
         /\ Precedes(x, y) /\ Precedes(y, z) => Precedes(x, z)
         /\ x # y => Precedes(x, y) \/ Precedes(y, x)
         /\ Precedes(x, y) => start(x) <= start(y)
<1>1. PICK a \in Nat, b \in Nat : x = <<a, b>> /\ x[1] = a /\ x[2] = b
  BY DEF BlockRange
<1>2. PICK c \in Nat, d \in Nat : y = <<c, d>> /\ y[1] = c /\ y[2] = d
  BY DEF BlockRange
<1>3. PICK e \in Nat, f \in Nat : z = <<e, f>> /\ z[1] = e /\ z[2] = f
  BY DEF BlockRange
<1>4. /\ Precedes(x, x) <=> a < a \/ (a = a /\ b < b)
      /\ Precedes(x, y) <=> a < c \/ (a = c /\ b < d)
      /\ Precedes(y, x) <=> c < a \/ (c = a /\ d < b)
      /\ Precedes(y, z) <=> c < e \/ (c = e /\ d < f)
      /\ Precedes(x, z) <=> a < e \/ (a = e /\ b < f)
      /\ start(x) = a /\ start(y) = c
  BY <1>1, <1>2, <1>3, Zenon DEF Precedes, start, end_exclusive
<1>5. x # y => a # c \/ b # d
  BY <1>1, <1>2
<1>6. /\ ~(a < a \/ (a = a /\ b < b))
      /\ (a < c \/ (a = c /\ b < d)) /\ (c < e \/ (c = e /\ d < f)) => a < e \/ (a = e /\ b < f)
      /\ a # c \/ b # d => \/ a < c \/ (a = c /\ b < d)
                           \/ c < a \/ (c = a /\ d < b)
      /\ a < c \/ (a = c /\ b < d) => a <= c
  OBVIOUS
<1> QED
  BY <1>4, <1>5, <1>6, Zenon

(* sorted() on ranges: all of them, none starting before the previous one. *)
LEMMA RangesAreSorted ==
  ASSUME NEW S \in SUBSET BlockRange, IsFiniteSet(S)
  PROVE  \E s \in Seq(BlockRange) :
           /\ s = Sorted(S, Precedes)
           /\ \A i \in 1..Len(s) : s[i] \in S
           /\ \A r \in S : \E i \in 1..Len(s) : s[i] = r
           /\ \A i \in 1..(Len(s) - 1) : start(s[i]) <= start(s[i + 1])
<1> DEFINE R == {p \in S \X S : Precedes(p[1], p[2])}
           Before(x) == {y \in S : Precedes(y, x)}
<1>1. \A x, y \in S : <<x, y>> \in R <=> Precedes(x, y)
  OBVIOUS
<1> HIDE DEF R
<1>2. /\ \A x \in S : <<x, x>> \notin R
      /\ \A x, y, z \in S : <<x, y>> \in R /\ <<y, z>> \in R => <<x, z>> \in R
      /\ \A x, y \in S : x # y => <<x, y>> \in R \/ <<y, x>> \in R
  BY <1>1, RangesAreOrdered
<1>3. PICK n \in Nat : \E rank \in [S -> 0..(n - 1)] :
        /\ n = Cardinality(S)
        /\ \A x \in S : rank[x] = Cardinality({y \in S : <<y, x>> \in R})
        /\ \A i \in 0..(n - 1) : \E x \in S : rank[x] = i
        /\ \A x, y \in S : rank[x] < rank[y] <=> <<x, y>> \in R
        /\ \A x, y \in S : rank[x] = rank[y] => x = y
  BY <1>2, RanksAreTaken
<1>4. PICK rank \in [S -> 0..(n - 1)] :
        /\ n = Cardinality(S)
        /\ \A x \in S : rank[x] = Cardinality({y \in S : <<y, x>> \in R})
        /\ \A i \in 0..(n - 1) : \E x \in S : rank[x] = i
        /\ \A x, y \in S : rank[x] < rank[y] <=> <<x, y>> \in R
        /\ \A x, y \in S : rank[x] = rank[y] => x = y
  BY <1>3
<1>5. \A x \in S : rank[x] = Cardinality(Before(x))
  <2> SUFFICES ASSUME NEW x \in S PROVE rank[x] = Cardinality(Before(x))
    OBVIOUS
  <2>1. {y \in S : <<y, x>> \in R} = Before(x)
    BY <1>1
  <2> QED
    BY <1>4, <2>1
<1>6. PICK s : s = Sorted(S, Precedes)
  OBVIOUS
<1>7. s = [i \in 1..n |-> CHOOSE x \in S : Cardinality(Before(x)) = i - 1]
  BY <1>4, <1>6 DEF Sorted
<1>8. ASSUME NEW i \in 1..n PROVE s[i] \in S /\ rank[s[i]] = i - 1
  <2>1. s[i] = CHOOSE x \in S : Cardinality(Before(x)) = i - 1
    BY <1>7
  <2>2. i - 1 \in 0..(n - 1)
    OBVIOUS
  <2>3. \E x \in S : Cardinality(Before(x)) = i - 1
    BY <1>4, <1>5, <2>2
  <2>4. s[i] \in S /\ Cardinality(Before(s[i])) = i - 1
    BY <2>1, <2>3, Zenon
  <2> QED
    BY <1>5, <2>4
<1>9. DOMAIN s = 1..n /\ s = [i \in 1..n |-> s[i]]
  <2> DEFINE Ith(i) == CHOOSE x \in S : Cardinality(Before(x)) = i - 1
  <2>1. s = [i \in 1..n |-> Ith(i)]
    BY <1>7
  <2> HIDE DEF Ith
  <2> QED
    BY <2>1
<1> HIDE DEF Before
<1>10. s \in Seq(BlockRange) /\ Len(s) = n
  <2>1. s \in [1..n -> BlockRange]
    BY <1>8, <1>9
  <2>2. s \in Seq(BlockRange)
    BY <2>1, SeqDef
  <2> QED
    BY <2>1, <2>2, LenProperties
<1>11. ASSUME NEW r \in S PROVE \E i \in 1..n : s[i] = r
  <2>1. rank[r] \in 0..(n - 1)
    BY <1>4
  <2>2. PICK i \in 1..n : i = rank[r] + 1
    BY <2>1
  <2>3. i - 1 = rank[r]
    BY <2>1, <2>2
  <2> QED
    BY <1>4, <1>8, <2>3
<1>12. ASSUME NEW i \in 1..(n - 1) PROVE start(s[i]) <= start(s[i + 1])
  <2>1. PICK j \in 1..n : j = i + 1
    OBVIOUS
  <2>2. i \in 1..n /\ i - 1 < j - 1
    BY <2>1
  <2>3. s[i] \in S /\ s[j] \in S /\ rank[s[i]] < rank[s[j]]
    BY <1>8, <2>2
  <2>4. Precedes(s[i], s[j])
    BY <1>1, <1>4, <2>3
  <2> QED
    BY <2>1, <2>3, <2>4, RangesAreOrdered
<1> QED
  BY <1>6, <1>8, <1>10, <1>11, <1>12

-----------------------------------------------------------------------------
(* Folds.                                                                  *)

(* The fold peels indices with Max: the last index of a prefix is its      *)
(* maximum.                                                                *)
LEMMA LastIndexIsMax ==
  ASSUME NEW k \in Nat, NEW s \in SUBSET (1..k), k \in s
  PROVE  Max(s) = k
<1>1. \A y \in s : k >= y
  OBVIOUS
<1>2. Max(s) \in s /\ \A y \in s : Max(s) >= y
  BY <1>1 DEF Max
<1>3. PICK m \in 1..k : m = Max(s)
  BY <1>2
<1>4. m >= k
  BY <1>2, <1>3
<1> QED
  BY <1>3, <1>4

(* The functions that fold n steps st over values in X from base on, as    *)
(* MapThenFoldSet does; there is one.                                      *)
FoldFunctions(n, X, base, st) ==
  {f \in [SUBSET (1..n) -> X] : \A s \in SUBSET (1..n) :
     f[s] = IF s = {} THEN base ELSE st[<<f[s \ {Max(s)}], Max(s)>>]}

(* A fold of n steps over X has a value at every prefix: were there a      *)
(* least prefix without one, the value before it and one step would give   *)
(* it.                                                                     *)
LEMMA FoldIsDefined ==
  ASSUME NEW n \in Nat, NEW X, NEW base \in X, NEW st \in [X \X (1..n) -> X]
  PROVE  FoldFunctions(n, X, base, st) # {}
<1> DEFINE Folds(f, k) == \A s \in SUBSET (1..k) :
             f[s] = IF s = {} THEN base ELSE st[<<f[s \ {Max(s)}], Max(s)>>]
           Defined(k) == \E f \in [SUBSET (1..k) -> X] : Folds(f, k)
           Missing == {k \in 0..n : ~Defined(k)}
<1> HIDE DEF Defined
<1>1. Missing = {}
  <2> SUFFICES ASSUME Missing # {} PROVE FALSE
    OBVIOUS
  <2>1. PICK k \in Missing : \A j \in Missing : k <= j
    <3>1. Missing \in SUBSET Nat
      OBVIOUS
    <3> QED
      BY <3>1, LeastBlock
  <2>2. CASE k = 0
    <3>1. PICK f : f = [s \in SUBSET (1..0) |-> base]
      OBVIOUS
    <3>2. \A s \in SUBSET (1..0) : s = {}
      OBVIOUS
    <3>3. f \in [SUBSET (1..0) -> X] /\ Folds(f, 0)
      BY <3>1, <3>2
    <3>4. Defined(0)
      BY <3>3 DEF Defined
    <3> QED
      BY <2>1, <2>2, <3>4
  <2>3. CASE k # 0
    <3>1. k \in Nat /\ k - 1 \in Nat /\ k - 1 \in 0..n /\ ~(k - 1 \in Missing) /\ k \in 1..n
      BY <2>1, <2>3
    <3>2. PICK j \in Nat : j = k - 1
      BY <3>1
    <3>3. PICK f \in [SUBSET (1..j) -> X] : Folds(f, j)
      BY <3>1, <3>2 DEF Defined
    <3>4. ASSUME NEW s \in SUBSET (1..k)
          PROVE  /\ s \ {k} \in SUBSET (1..j)
                 /\ k \notin s => s \in SUBSET (1..j) /\ s \ {Max(s)} \in SUBSET (1..j)
                                  /\ k \notin s \ {Max(s)}
      <4>1. \A i \in 1..k : i # k => i \in 1..j
        BY <3>1, <3>2
      <4> HIDE DEF Missing
      <4> QED
        BY <4>1
    <3>5. PICK new : new = [s \in SUBSET (1..k) |->
                              IF k \in s THEN st[<<f[s \ {k}], k>>] ELSE f[s]]
      OBVIOUS
    <3>6. ASSUME NEW s \in SUBSET (1..k) PROVE new[s] \in X
      <4>1. CASE k \in s
        <5>1. f[s \ {k}] \in X /\ new[s] = st[<<f[s \ {k}], k>>]
          BY <3>3, <3>4, <3>5, <4>1
        <5> QED
          BY <3>1, <5>1
      <4>2. CASE k \notin s
        BY <3>3, <3>4, <3>5, <4>2
      <4> QED
        BY <4>1, <4>2
    <3>7. ASSUME NEW s \in SUBSET (1..k)
          PROVE  new[s] = IF s = {} THEN base ELSE st[<<new[s \ {Max(s)}], Max(s)>>]
      <4>1. CASE k \in s
        <5>1. Max(s) = k
          BY <3>1, <4>1, LastIndexIsMax
        <5>2. s \ {k} \in SUBSET (1..k) /\ k \notin s \ {k}
          OBVIOUS
        <5>3. new[s \ {k}] = f[s \ {k}]
          BY <3>5, <5>2
        <5>4. new[s] = st[<<f[s \ {k}], k>>] /\ s # {}
          BY <3>5, <4>1
        <5> QED
          BY <5>1, <5>3, <5>4
      <4>2. CASE k \notin s
        <5>1. new[s] = f[s] /\ s \ {Max(s)} \in SUBSET (1..k)
          BY <3>5, <4>2
        <5>2. new[s \ {Max(s)}] = f[s \ {Max(s)}]
          BY <3>4, <3>5, <4>2, <5>1
        <5>3. f[s] = IF s = {} THEN base ELSE st[<<f[s \ {Max(s)}], Max(s)>>]
          BY <3>3, <3>4, <4>2
        <5> QED
          BY <5>1, <5>2, <5>3, Zenon
      <4> QED
        BY <4>1, <4>2
    <3>8. new \in [SUBSET (1..k) -> X] /\ Folds(new, k)
      BY <3>5, <3>6, <3>7
    <3>9. Defined(k)
      BY <3>8 DEF Defined
    <3> QED
      BY <2>1, <3>9
  <2> QED
    BY <2>2, <2>3
<1>2. Defined(n)
  BY <1>1
<1>3. PICK f \in [SUBSET (1..n) -> X] : Folds(f, n)
  BY <1>2 DEF Defined
<1>4. f \in FoldFunctions(n, X, base, st)
  BY <1>3, Zenon DEF FoldFunctions
<1> QED
  BY <1>4

(* Absorb keeps a sequence of ranges one. *)
LEMMA AbsorbedAreRanges ==
  ASSUME NEW merged \in Seq(BlockRange), NEW r \in BlockRange
  PROVE  /\ Absorb(merged, r) \in Seq(BlockRange)
         /\ merged = <<>> => Absorb(merged, r) = <<r>>
         /\ merged # <<>> /\ start(r) > end_exclusive(Last(merged)) =>
              Absorb(merged, r) = Append(merged, r)
         /\ merged # <<>> /\ ~(start(r) > end_exclusive(Last(merged))) =>
              LET w == Widen(Last(merged), r)
              IN  /\ w \in BlockRange /\ start(w) = start(Last(merged))
                  /\ Absorb(merged, r) = [merged EXCEPT ![Len(merged)] = w]
                  /\ end_exclusive(w) = Larger(end_exclusive(Last(merged)), end_exclusive(r))
<1>1. CASE merged = <<>>
  <2>1. Absorb(merged, r) = Append(<<>>, r) /\ Append(<<>>, r) = <<r>>
    BY <1>1 DEF Absorb
  <2>2. Absorb(merged, r) = <<r>> /\ <<r>> \in Seq(BlockRange)
    BY <2>1
  <2> QED
    BY <1>1, <2>2, Zenon
<1>2. CASE merged # <<>>
  <2>1. Len(merged) \in Nat \ {0}
    BY <1>2, EmptySeq
  <2>2. PICK last \in BlockRange : last = Last(merged)
    <3>1. Last(merged) = merged[Len(merged)]
      BY DEF Last
    <3> QED
      BY <2>1, <3>1
  <2>3. PICK w : w = Widen(last, r)
    OBVIOUS
  <2>4. w \in BlockRange /\ start(w) = start(last)
        /\ end_exclusive(w) = Larger(end_exclusive(last), end_exclusive(r))
    BY <2>3 DEF BlockRange, Widen, Larger, start, end_exclusive
  <2>5. [merged EXCEPT ![Len(merged)] = w] \in Seq(BlockRange)
    BY <2>1, <2>4, ExceptSeq
  <2>6. /\ start(r) > end_exclusive(last) => Absorb(merged, r) = Append(merged, r)
        /\ ~(start(r) > end_exclusive(last)) =>
             Absorb(merged, r) = [merged EXCEPT ![Len(merged)] = w]
    BY <1>2, <2>2, <2>3, Zenon DEF Absorb, ReplaceAt
  <2>7. Append(merged, r) \in Seq(BlockRange)
    OBVIOUS
  <2> QED
    BY <1>2, <2>2, <2>3, <2>4, <2>5, <2>6, <2>7
<1> QED
  BY <1>1, <1>2

(* The index that Max peels off is one of those left. *)
LEMMA MaxIsMember ==
  ASSUME NEW k \in Nat, NEW s \in SUBSET (1..k), s # {}
  PROVE  Max(s) \in s
<1> DEFINE U == {m \in Nat : \A y \in s : m >= y}
<1>1. k \in U
  OBVIOUS
<1>2. PICK m \in U : \A j \in U : m <= j
  BY <1>1, LeastBlock
<1>3. m \in s
  <2> SUFFICES ASSUME m \notin s PROVE FALSE
    OBVIOUS
  <2>1. PICK y \in s : TRUE
    OBVIOUS
  <2>2. m \in Nat /\ m >= y /\ y \in 1..k
    BY <1>2
  <2>3. m - 1 \in Nat
    BY <2>2
  <2>4. ASSUME NEW z \in s PROVE m - 1 >= z
    <3>1. m >= z /\ z # m /\ z \in Nat
      BY <1>2
    <3> QED
      BY <2>2, <3>1
  <2>5. m - 1 \in U
    BY <2>3, <2>4
  <2> QED
    BY <1>2, <2>2, <2>5
<1>4. m \in s /\ \A y \in s : m >= y
  BY <1>2, <1>3
<1> QED
  BY <1>4 DEF Max

(* Peeling the last index of a prefix leaves the prefix before it. *)
LEMMA PrefixesShrink ==
  /\ 1..0 = {}
  /\ \A n \in Nat : \A k \in 1..n :
       /\ 1..k \in SUBSET (1..n) /\ 1..k # {} /\ Max(1..k) = k
       /\ (1..k) \ {k} = 1..(k - 1)
<1>1. ASSUME NEW n \in Nat, NEW k \in 1..n
      PROVE  /\ 1..k \in SUBSET (1..n) /\ 1..k # {} /\ Max(1..k) = k
             /\ (1..k) \ {k} = 1..(k - 1)
  <2>1. k \in 1..k /\ k \in Nat
    OBVIOUS
  <2>2. Max(1..k) = k
    BY <2>1, LastIndexIsMax
  <2>3. (1..k) \ {k} = 1..(k - 1)
    OBVIOUS
  <2> QED
    BY <2>1, <2>2, <2>3
<1> QED
  BY <1>1

(* merge_coverage's loop, range by range. *)
LEMMA MergeUnfolds ==
  ASSUME NEW order \in Seq(BlockRange)
  PROVE  \E g \in [0..Len(order) -> Seq(BlockRange)] :
           /\ FoldLeft(Absorb, <<>>, order) = g[Len(order)]
           /\ g[0] = <<>>
           /\ \A k \in 1..Len(order) : g[k] = Absorb(g[k - 1], order[k])
<1>1. PICK n \in Nat : n = Len(order) /\ DOMAIN order = 1..n
  BY LenProperties
<1>2. PICK X : X = Seq(BlockRange)
  OBVIOUS
<1>3. PICK st : st = [p \in X \X (1..n) |-> Absorb(p[1], order[p[2]])]
  OBVIOUS
<1>4. ASSUME NEW x \in X, NEW i \in 1..n
      PROVE  st[<<x, i>>] = Absorb(x, order[i]) /\ Absorb(x, order[i]) \in X
  <2>1. <<x, i>> \in X \X (1..n) /\ <<x, i>>[1] = x /\ <<x, i>>[2] = i
    OBVIOUS
  <2>2. order[i] \in BlockRange
    BY <1>1
  <2> QED
    BY <1>2, <1>3, <2>1, <2>2, AbsorbedAreRanges
<1>5. st \in [X \X (1..n) -> X]
  <2>1. \A p \in X \X (1..n) : p[1] \in X /\ p[2] \in 1..n /\ p = <<p[1], p[2]>>
    OBVIOUS
  <2>2. \A p \in X \X (1..n) : Absorb(p[1], order[p[2]]) \in X
    BY <1>4, <2>1
  <2> QED
    BY <1>3, <2>2
<1>6. <<>> \in X
  BY <1>2, EmptySeq
<1>7. PICK f \in [SUBSET (1..n) -> X] : \A s \in SUBSET (1..n) :
        f[s] = IF s = {} THEN <<>> ELSE st[<<f[s \ {Max(s)}], Max(s)>>]
  <2>1. PICK base \in X : base = <<>>
    BY <1>6
  <2>2. PICK f : f \in FoldFunctions(n, X, base, st)
    BY <1>5, FoldIsDefined
  <2> QED
    BY <2>1, <2>2, Zenon DEF FoldFunctions
<1>8. ASSUME NEW s \in SUBSET (1..n)
      PROVE  f[s] = IF s = {} THEN <<>> ELSE Absorb(f[s \ {Max(s)}], order[Max(s)])
  <2>1. CASE s # {}
    <3>1. \A y \in s : y \in Nat
      OBVIOUS
    <3>2. Max(s) \in 1..n
      BY <2>1, MaxIsMember
    <3>3. f[s \ {Max(s)}] \in X
      OBVIOUS
    <3>4. f[s] = st[<<f[s \ {Max(s)}], Max(s)>>]
      BY <1>7, <2>1
    <3>5. st[<<f[s \ {Max(s)}], Max(s)>>] = Absorb(f[s \ {Max(s)}], order[Max(s)])
      BY <1>4, <3>2, <3>3
    <3> QED
      BY <2>1, <3>4, <3>5
  <2>2. CASE s = {}
    BY <1>7, <2>2
  <2> QED
    BY <2>1, <2>2
<1> DEFINE Iterates(h) ==
      h = [s \in SUBSET DOMAIN order |->
             IF s = {} THEN <<>> ELSE Absorb(h[s \ {Max(s)}], order[Max(s)])]
<1>9. \E h : Iterates(h)
  <2>1. Iterates(f)
    BY <1>1, <1>8
  <2> QED
    BY <2>1
<1>10. PICK h : h = CHOOSE i : Iterates(i)
  OBVIOUS
<1>11. Iterates(h)
  BY <1>9, <1>10, Zenon
<1>12. FoldLeft(Absorb, <<>>, order) = h[1..n]
  BY <1>1, <1>10 DEF FoldLeft, MapThenFoldSet
<1>13. h[1..0] = <<>>
  BY <1>1, <1>11, PrefixesShrink
<1>14. ASSUME NEW k \in 1..n PROVE h[1..k] = Absorb(h[1..(k - 1)], order[k])
  <2>1. /\ 1..k \in SUBSET (1..n) /\ 1..k # {} /\ Max(1..k) = k
        /\ (1..k) \ {k} = 1..(k - 1)
    BY PrefixesShrink
  <2> QED
    BY <1>1, <1>11, <2>1
<1> HIDE DEF Iterates
<1>15. PICK g : g = [k \in 0..n |-> h[1..k]]
  OBVIOUS
<1>16. g[0] = <<>> /\ g[n] = h[1..n] /\ \A k \in 1..n : g[k] = Absorb(g[k - 1], order[k])
  BY <1>13, <1>14, <1>15
<1>17. \A k \in 0..n : g[k] \in X
  <2> DEFINE Untyped == {k \in 0..n : g[k] \notin X}
  <2> SUFFICES ASSUME Untyped # {} PROVE FALSE
    OBVIOUS
  <2>1. PICK k \in Untyped : \A j \in Untyped : k <= j
    <3>1. Untyped \in SUBSET Nat
      OBVIOUS
    <3> QED
      BY <3>1, LeastBlock
  <2>2. k # 0
    BY <1>6, <1>16
  <2>3. k \in 1..n /\ k - 1 \in 0..n /\ ~(k <= k - 1)
    BY <2>2
  <2>4. g[k - 1] \in X
    BY <2>1, <2>3
  <2> QED
    BY <1>4, <1>16, <2>3, <2>4
<1>18. g \in [0..n -> X]
  BY <1>15, <1>17
<1> QED
  BY <1>1, <1>2, <1>12, <1>16, <1>18

(* The state of coverage_gaps's loop. *)
Passes == [cursor : Nat, gaps : Seq(BlockRange)]
Started(required) == [cursor |-> start(required), gaps |-> <<>>]

(* The loop of coverage_gaps starts with a cursor and no gaps. *)
LEMMA StartedIsPass ==
  ASSUME NEW required \in BlockRange
  PROVE  Started(required) \in Passes
BY EmptySeq DEF Started, Passes, BlockRange, start

(* One turn of the loop of coverage_gaps, case by case: a range outside    *)
(* the required one changes nothing, any other moves the cursor and may    *)
(* add a gap.                                                              *)
LEMMA AdvanceIsPass ==
  ASSUME NEW required \in BlockRange, NEW s \in Passes, NEW r \in BlockRange
  PROVE  /\ Advance(required, s, r) \in Passes
         /\ Outside(required, r) => Advance(required, s, r) = s
         /\ ~Outside(required, r) =>
              LET clipped_start == Larger(start(r), start(required))
                  clipped_end == Smaller(end_exclusive(r), end_exclusive(required))
              IN  /\ Advance(required, s, r).cursor = Larger(s.cursor, clipped_end)
                  /\ clipped_start > s.cursor =>
                       /\ <<s.cursor, clipped_start>> \in BlockRange
                       /\ Advance(required, s, r).gaps = Append(s.gaps, <<s.cursor, clipped_start>>)
                  /\ ~(clipped_start > s.cursor) => Advance(required, s, r).gaps = s.gaps
<1>1. PICK from \in Nat : from = Larger(start(r), start(required))
  BY DEF BlockRange, Larger, start
<1>2. PICK to \in Nat : to = Smaller(end_exclusive(r), end_exclusive(required))
  BY DEF BlockRange, Smaller, end_exclusive
<1>3. PICK c \in Nat, gaps \in Seq(BlockRange) : c = s.cursor /\ gaps = s.gaps
  BY DEF Passes
<1>4. from > c => <<c, from>> \in BlockRange
  BY DEF BlockRange, start, end_exclusive
<1>5. PICK new : new = IF from > c THEN Append(gaps, <<c, from>>) ELSE gaps
  OBVIOUS
<1>6. new \in Seq(BlockRange)
  BY <1>4, <1>5
<1>7. Larger(c, to) \in Nat
  BY DEF Larger
<1>8. CASE Outside(required, r)
  BY <1>8 DEF Advance
<1>9. CASE ~Outside(required, r)
  <2>1. Advance(required, s, r) = [cursor |-> Larger(c, to), gaps |-> new]
    BY <1>1, <1>2, <1>3, <1>5, <1>9, Zenon DEF Advance
  <2>2. Advance(required, s, r) \in Passes
    BY <1>6, <1>7, <2>1 DEF Passes
  <2>3. Advance(required, s, r).cursor = Larger(c, to) /\ Advance(required, s, r).gaps = new
    BY <2>1
  <2> QED
    BY <1>1, <1>2, <1>3, <1>4, <1>5, <1>9, <2>2, <2>3
<1> QED
  BY <1>8, <1>9

(* coverage_gaps's loop, range by range. *)
LEMMA GapsUnfold ==
  ASSUME NEW required \in BlockRange, NEW order \in Seq(BlockRange)
  PROVE  \E g \in [0..Len(order) -> Passes] :
           /\ FoldLeft(LAMBDA s, r : Advance(required, s, r), Started(required), order) = g[Len(order)]
           /\ g[0] = Started(required)
           /\ \A k \in 1..Len(order) : g[k] = Advance(required, g[k - 1], order[k])
<1>1. PICK n \in Nat : n = Len(order) /\ DOMAIN order = 1..n
  BY LenProperties
<1>2. PICK X : X = Passes
  OBVIOUS
<1>3. PICK st : st = [p \in X \X (1..n) |-> Advance(required, p[1], order[p[2]])]
  OBVIOUS
<1>4. ASSUME NEW x \in X, NEW i \in 1..n
      PROVE  st[<<x, i>>] = Advance(required, x, order[i]) /\ Advance(required, x, order[i]) \in X
  <2>1. <<x, i>> \in X \X (1..n) /\ <<x, i>>[1] = x /\ <<x, i>>[2] = i
    OBVIOUS
  <2>2. order[i] \in BlockRange
    BY <1>1
  <2> QED
    BY <1>2, <1>3, <2>1, <2>2, AdvanceIsPass
<1>5. st \in [X \X (1..n) -> X]
  <2>1. \A p \in X \X (1..n) : p[1] \in X /\ p[2] \in 1..n /\ p = <<p[1], p[2]>>
    OBVIOUS
  <2>2. \A p \in X \X (1..n) : Advance(required, p[1], order[p[2]]) \in X
    BY <1>4, <2>1
  <2> QED
    BY <1>3, <2>2
<1>6. Started(required) \in X
  BY <1>2, StartedIsPass
<1>7. PICK f \in [SUBSET (1..n) -> X] : \A s \in SUBSET (1..n) :
        f[s] = IF s = {} THEN Started(required) ELSE st[<<f[s \ {Max(s)}], Max(s)>>]
  <2>1. PICK base \in X : base = Started(required)
    BY <1>6
  <2>2. PICK f : f \in FoldFunctions(n, X, base, st)
    BY <1>5, FoldIsDefined
  <2> QED
    BY <2>1, <2>2, Zenon DEF FoldFunctions
<1>8. ASSUME NEW s \in SUBSET (1..n)
      PROVE  f[s] = IF s = {} THEN Started(required) ELSE Advance(required, f[s \ {Max(s)}], order[Max(s)])
  <2>1. CASE s # {}
    <3>1. \A y \in s : y \in Nat
      OBVIOUS
    <3>2. Max(s) \in 1..n
      BY <2>1, MaxIsMember
    <3>3. f[s \ {Max(s)}] \in X
      OBVIOUS
    <3>4. f[s] = st[<<f[s \ {Max(s)}], Max(s)>>]
      BY <1>7, <2>1
    <3>5. st[<<f[s \ {Max(s)}], Max(s)>>] = Advance(required, f[s \ {Max(s)}], order[Max(s)])
      BY <1>4, <3>2, <3>3
    <3> QED
      BY <2>1, <3>4, <3>5
  <2>2. CASE s = {}
    BY <1>7, <2>2
  <2> QED
    BY <2>1, <2>2
<1> DEFINE Iterates(h) ==
      h = [s \in SUBSET DOMAIN order |->
             IF s = {} THEN Started(required) ELSE Advance(required, h[s \ {Max(s)}], order[Max(s)])]
<1>9. \E h : Iterates(h)
  <2>1. Iterates(f)
    BY <1>1, <1>8
  <2> QED
    BY <2>1
<1>10. PICK h : h = CHOOSE i : Iterates(i)
  OBVIOUS
<1>11. Iterates(h)
  BY <1>9, <1>10, Zenon
<1>12. FoldLeft(LAMBDA s, r : Advance(required, s, r), Started(required), order) = h[1..n]
  BY <1>1, <1>10 DEF FoldLeft, MapThenFoldSet
<1>13. h[1..0] = Started(required)
  BY <1>1, <1>11, PrefixesShrink
<1>14. ASSUME NEW k \in 1..n PROVE h[1..k] = Advance(required, h[1..(k - 1)], order[k])
  <2>1. /\ 1..k \in SUBSET (1..n) /\ 1..k # {} /\ Max(1..k) = k
        /\ (1..k) \ {k} = 1..(k - 1)
    BY PrefixesShrink
  <2> QED
    BY <1>1, <1>11, <2>1
<1> HIDE DEF Iterates
<1>15. PICK g : g = [k \in 0..n |-> h[1..k]]
  OBVIOUS
<1>16. /\ g[0] = Started(required) /\ g[n] = h[1..n]
       /\ \A k \in 1..n : g[k] = Advance(required, g[k - 1], order[k])
  <2>1. n \in Nat
    BY <1>1
  <2>2. \A k \in 0..n : g[k] = h[1..k]
    BY <1>15
  <2>3. g[0] = Started(required) /\ g[n] = h[1..n]
    BY <1>13, <2>1, <2>2
  <2>4. ASSUME NEW k \in 1..n PROVE g[k] = Advance(required, g[k - 1], order[k])
    <3>1. g[k] = h[1..k] /\ g[k - 1] = h[1..(k - 1)]
      BY <2>1, <2>2
    <3> QED
      BY <1>14, <3>1
  <2> QED
    BY <2>3, <2>4
<1>17. \A k \in 0..n : g[k] \in X
  <2> DEFINE Untyped == {k \in 0..n : g[k] \notin X}
  <2> SUFFICES ASSUME Untyped # {} PROVE FALSE
    OBVIOUS
  <2>1. PICK k \in Untyped : \A j \in Untyped : k <= j
    <3>1. Untyped \in SUBSET Nat
      OBVIOUS
    <3> QED
      BY <3>1, LeastBlock
  <2>2. k # 0
    BY <1>6, <1>16
  <2>3. k \in 1..n /\ k - 1 \in 0..n /\ ~(k <= k - 1)
    BY <2>2
  <2>4. g[k - 1] \in X
    BY <2>1, <2>3
  <2> QED
    BY <1>4, <1>16, <2>3, <2>4
<1>18. g \in [0..n -> X]
  BY <1>15, <1>17
<1> QED
  BY <1>1, <1>2, <1>12, <1>16, <1>18

-----------------------------------------------------------------------------
(* merge_coverage.                                                         *)

(* The blocks of a range are those from its start to before its end. *)
LEMMA RangeBounds ==
  ASSUME NEW r \in BlockRange
  PROVE  /\ start(r) \in Nat /\ end_exclusive(r) \in Nat /\ start(r) < end_exclusive(r)
         /\ Blocks(r) \in SUBSET Nat
         /\ \A b \in Nat : b \in Blocks(r) <=> start(r) <= b /\ b < end_exclusive(r)
BY DEF BlockRange, Blocks, start, end_exclusive

(* A block that one of the ranges in a sequence holds. *)
Held(s, b) == \E i \in 1..Len(s) : b \in Blocks(s[i])

(* Appending a range adds its blocks and leaves the others in place. *)
LEMMA AppendHolds ==
  ASSUME NEW s \in Seq(BlockRange), NEW r \in BlockRange
  PROVE  \E t \in Seq(BlockRange) :
           /\ t = Append(s, r) /\ t # <<>> /\ Last(t) = r
           /\ Len(t) = Len(s) + 1
           /\ \A i \in 1..Len(s) : t[i] = s[i]
           /\ t[Len(t)] = r
           /\ \A b : Held(t, b) <=> Held(s, b) \/ b \in Blocks(r)
<1>1. PICK t \in Seq(BlockRange) : t = Append(s, r)
  BY AppendProperties
<1>2. PICK n \in Nat : n = Len(s)
  OBVIOUS
<1>3. /\ Len(t) = n + 1 /\ t[n + 1] = r
      /\ \A i \in 1..n : t[i] = s[i]
  BY <1>1, <1>2
<1>4. t # <<>> /\ Last(t) = r
  BY <1>1, <1>2, <1>3 DEF Last
<1>5. ASSUME NEW b PROVE Held(t, b) <=> Held(s, b) \/ b \in Blocks(r)
  <2>1. Held(t, b) <=> \E i \in 1..(n + 1) : b \in Blocks(t[i])
    BY <1>3 DEF Held
  <2>2. Held(s, b) <=> \E i \in 1..n : b \in Blocks(s[i])
    BY <1>2 DEF Held
  <2>3. \A i : i \in 1..(n + 1) <=> i \in 1..n \/ i = n + 1
    OBVIOUS
  <2> QED
    BY <1>3, <2>1, <2>2, <2>3
<1> QED
  BY <1>1, <1>2, <1>3, <1>4, <1>5

(* merged[-1] is a range. *)
LEMMA LastIsRange ==
  ASSUME NEW s \in Seq(BlockRange), s # <<>>
  PROVE  /\ Last(s) \in BlockRange
         /\ end_exclusive(Last(s)) \in Nat /\ start(Last(s)) \in Nat
<1>1. Len(s) \in Nat \ {0} /\ Last(s) = s[Len(s)]
  BY EmptySeq DEF Last
<1>2. Last(s) \in BlockRange
  BY <1>1
<1> QED
  BY <1>2, RangeBounds

(* A range that starts beyond the last one keeps the list ascending. *)
LEMMA AscendingAppend ==
  ASSUME NEW s \in Seq(BlockRange), NEW r \in BlockRange, Ascending(s),
         s # <<>> => end_exclusive(Last(s)) < start(r)
  PROVE  Ascending(Append(s, r))
<1>1. PICK t \in Seq(BlockRange) :
        /\ t = Append(s, r) /\ t # <<>> /\ Last(t) = r
        /\ Len(t) = Len(s) + 1
        /\ \A i \in 1..Len(s) : t[i] = s[i]
        /\ t[Len(t)] = r
        /\ \A b : Held(t, b) <=> Held(s, b) \/ b \in Blocks(r)
  BY AppendHolds
<1>2. PICK n \in Nat : n = Len(s)
  OBVIOUS
<1>3. ASSUME NEW i \in 1..(Len(t) - 1) PROVE end_exclusive(t[i]) < start(t[i + 1])
  <2>1. i \in 1..n
    BY <1>1, <1>2
  <2>2. CASE i = n
    <3>1. s # <<>> /\ Last(s) = s[n]
      BY <1>2, <2>1 DEF Last
    <3> QED
      BY <1>1, <1>2, <2>1, <2>2, <3>1
  <2>3. CASE i # n
    <3>1. i \in 1..(n - 1) /\ i + 1 \in 1..n
      BY <2>1, <2>3
    <3> QED
      BY <1>1, <1>2, <2>1, <3>1 DEF Ascending
  <2> QED
    BY <2>2, <2>3
<1> QED
  BY <1>1, <1>3 DEF Ascending

(* One turn of the loop: the ranges merged so far gain the blocks of the   *)
(* next one, and stay apart from one another.                              *)
LEMMA AbsorbIsExact ==
  ASSUME NEW m \in Seq(BlockRange), NEW r \in BlockRange, Ascending(m),
         m # <<>> => start(Last(m)) <= start(r)
  PROVE  \E n \in Seq(BlockRange) :
           /\ n = Absorb(m, r) /\ n # <<>>
           /\ start(Last(n)) <= start(r)
           /\ Ascending(n)
           /\ \A b \in Nat : Held(n, b) <=> Held(m, b) \/ b \in Blocks(r)
<1>1. PICK c \in Nat, d \in Nat : c = start(r) /\ d = end_exclusive(r) /\ c < d
  BY RangeBounds
<1>2. CASE m = <<>> \/ start(r) > end_exclusive(Last(m))
  <2>1. Absorb(m, r) = Append(m, r)
    BY <1>2 DEF Absorb
  <2>2. PICK n \in Seq(BlockRange) :
          /\ n = Append(m, r) /\ n # <<>> /\ Last(n) = r
          /\ Len(n) = Len(m) + 1
          /\ \A i \in 1..Len(m) : n[i] = m[i]
          /\ n[Len(n)] = r
          /\ \A b : Held(n, b) <=> Held(m, b) \/ b \in Blocks(r)
    BY AppendHolds
  <2>3. Ascending(n)
    <3>1. m # <<>> => end_exclusive(Last(m)) < c
      BY <1>1, <1>2, LastIsRange
    <3> QED
      BY <1>1, <2>2, <3>1, AscendingAppend
  <2>4. start(Last(n)) <= start(r)
    BY <1>1, <2>2
  <2> QED
    BY <2>1, <2>2, <2>3, <2>4
<1>3. CASE m # <<>> /\ ~(start(r) > end_exclusive(Last(m)))
  <2>1. PICK k \in Nat \ {0} : k = Len(m) /\ Last(m) = m[k]
    BY <1>3, EmptySeq DEF Last
  <2>2. PICK last \in BlockRange : last = m[k]
    BY <2>1
  <2>3. PICK w \in BlockRange :
          /\ start(w) = start(last)
          /\ Absorb(m, r) = [m EXCEPT ![k] = w]
          /\ end_exclusive(w) = Larger(end_exclusive(last), end_exclusive(r))
    BY <1>3, <2>1, <2>2, AbsorbedAreRanges
  <2>4. PICK n \in Seq(BlockRange) : n = Absorb(m, r)
    BY AbsorbedAreRanges
  <2>5. Len(n) = k /\ n[k] = w /\ \A i \in 1..k : i # k => n[i] = m[i]
    BY <2>1, <2>3, <2>4
  <2>6. n # <<>> /\ Last(n) = w
    BY <2>5 DEF Last
  <2>7. PICK x \in Nat, y \in Nat, z \in Nat :
          /\ x = start(last) /\ x = start(w) /\ y = end_exclusive(last) /\ z = end_exclusive(w)
          /\ x < y /\ x <= c /\ c <= y /\ z = IF y > d THEN y ELSE d
    BY <1>1, <1>3, <2>1, <2>2, <2>3, RangeBounds DEF Larger
  <2>8. ASSUME NEW b \in Nat PROVE b \in Blocks(w) <=> b \in Blocks(last) \/ b \in Blocks(r)
    <3>1. /\ b \in Blocks(w) <=> x <= b /\ b < z
          /\ b \in Blocks(last) <=> x <= b /\ b < y
          /\ b \in Blocks(r) <=> c <= b /\ b < d
      BY <1>1, <2>7, RangeBounds
    <3> QED
      BY <1>1, <2>7, <3>1
  <2>9. ASSUME NEW b \in Nat PROVE Held(n, b) <=> Held(m, b) \/ b \in Blocks(r)
    <3>1. Held(n, b) <=> \E i \in 1..k : b \in Blocks(n[i])
      BY <2>5 DEF Held
    <3>2. Held(m, b) <=> \E i \in 1..k : b \in Blocks(m[i])
      BY <2>1 DEF Held
    <3>3. k \in 1..k
      BY <2>1
    <3> QED
      BY <2>2, <2>5, <2>8, <3>1, <3>2, <3>3
  <2>10. ASSUME NEW i \in 1..(k - 1) PROVE end_exclusive(n[i]) < start(n[i + 1])
    <3>1. i \in 1..k /\ i + 1 \in 1..k /\ i # k
      BY <2>1
    <3>2. n[i] = m[i] /\ start(n[i + 1]) = start(m[i + 1])
      BY <2>2, <2>3, <2>5, <3>1
    <3> QED
      BY <2>1, <3>2 DEF Ascending
  <2>11. start(Last(n)) <= start(r)
    BY <1>1, <2>6, <2>7
  <2> QED
    BY <2>4, <2>5, <2>6, <2>9, <2>10, <2>11 DEF Ascending
<1> QED
  BY <1>2, <1>3

(* merge_coverage, by the least prefix of the sorted ranges on which the   *)
(* merged list could fail to be exactly their union.                       *)
LEMMA MergeIsExact ==
  ASSUME NEW ranges \in SUBSET BlockRange, IsFiniteSet(ranges)
  PROVE  \E m \in Seq(BlockRange) :
           /\ m = merge_coverage(ranges)
           /\ Ascending(m)
           /\ \A b \in Nat : Held(m, b) <=> \E r \in ranges : b \in Blocks(r)
<1>1. PICK s \in Seq(BlockRange) :
        /\ s = Sorted(ranges, Precedes)
        /\ \A i \in 1..Len(s) : s[i] \in ranges
        /\ \A r \in ranges : \E i \in 1..Len(s) : s[i] = r
        /\ \A i \in 1..(Len(s) - 1) : start(s[i]) <= start(s[i + 1])
  BY RangesAreSorted
<1>2. PICK g \in [0..Len(s) -> Seq(BlockRange)] :
        /\ FoldLeft(Absorb, <<>>, s) = g[Len(s)]
        /\ g[0] = <<>>
        /\ \A k \in 1..Len(s) : g[k] = Absorb(g[k - 1], s[k])
  BY MergeUnfolds
<1>3. PICK n \in Nat : n = Len(s)
  OBVIOUS
<1> DEFINE Merged(k) ==
      /\ Ascending(g[k])
      /\ g[k] # <<>> => k > 0 /\ start(Last(g[k])) <= start(s[k])
      /\ \A b \in Nat : Held(g[k], b) <=> \E i \in 1..k : b \in Blocks(s[i])
    Wrong == {k \in 0..n : ~Merged(k)}
<1>4. Merged(0)
  <2>1. g[0] = <<>> /\ Len(<<>>) = 0
    BY <1>2
  <2>2. Ascending(g[0])
    BY <2>1 DEF Ascending
  <2>3. \A b \in Nat : ~Held(g[0], b)
    BY <2>1 DEF Held
  <2> QED
    BY <2>1, <2>2, <2>3
<1>5. ASSUME NEW k \in 1..n, Merged(k - 1) PROVE Merged(k)
  <2>1. PICK j \in 0..n : j = k - 1 /\ Merged(j)
    BY <1>5
  <2> HIDE DEF Merged
  <2>2. k \in 1..Len(s) /\ s[k] \in BlockRange /\ g[j] \in Seq(BlockRange)
    BY <1>3, <2>1
  <2>3. Ascending(g[j]) /\ (g[j] # <<>> => start(Last(g[j])) <= start(s[k]))
    <3>1. CASE g[j] = <<>>
      BY <2>1, <3>1 DEF Merged
    <3>2. CASE g[j] # <<>>
      <4>1. j \in 1..(n - 1) /\ j \in 1..Len(s) /\ j + 1 = k
        BY <1>3, <2>1, <3>2 DEF Merged
      <4>2. start(s[j]) <= start(s[k]) /\ start(Last(g[j])) <= start(s[j])
        BY <1>1, <1>3, <2>1, <3>2, <4>1 DEF Merged
      <4>3. s[j] \in BlockRange /\ Last(g[j]) \in BlockRange
        BY <2>2, <3>2, <4>1, LastIsRange
      <4>4. start(s[j]) \in Nat /\ start(s[k]) \in Nat /\ start(Last(g[j])) \in Nat
        BY <2>2, <4>3, RangeBounds
      <4> QED
        BY <2>1, <4>2, <4>4 DEF Merged
    <3> QED
      BY <3>1, <3>2
  <2>4. PICK m \in Seq(BlockRange) :
          /\ m = Absorb(g[j], s[k]) /\ m # <<>>
          /\ start(Last(m)) <= start(s[k])
          /\ Ascending(m)
          /\ \A b \in Nat : Held(m, b) <=> Held(g[j], b) \/ b \in Blocks(s[k])
    BY <2>2, <2>3, AbsorbIsExact
  <2>5. g[k] = m
    BY <1>2, <2>1, <2>2, <2>4
  <2>6. ASSUME NEW b \in Nat
        PROVE  Held(g[k], b) <=> \E i \in 1..k : b \in Blocks(s[i])
    <3>1. Held(g[j], b) <=> \E i \in 1..j : b \in Blocks(s[i])
      BY <2>1 DEF Merged
    <3>2. \A i : i \in 1..k <=> i \in 1..j \/ i = k
      BY <2>1
    <3> QED
      BY <2>4, <2>5, <3>1, <3>2
  <2> QED
    BY <2>4, <2>5, <2>6 DEF Merged
<1> HIDE DEF Merged
<1>6. \A k \in 0..n : Merged(k)
  <2> SUFFICES ASSUME Wrong # {} PROVE FALSE
    OBVIOUS
  <2>1. PICK k \in Wrong : \A j \in Wrong : k <= j
    <3>1. Wrong \in SUBSET Nat
      OBVIOUS
    <3> QED
      BY <3>1, LeastBlock
  <2>2. k \in 1..n /\ k - 1 \in 0..n /\ ~(k <= k - 1)
    BY <1>4, <2>1
  <2> QED
    BY <1>5, <2>1, <2>2
<1>7. Merged(n) /\ g[n] \in Seq(BlockRange)
  BY <1>3, <1>6
<1>8. g[n] = merge_coverage(ranges)
  BY <1>1, <1>2, <1>3, Zenon DEF merge_coverage
<1>9. ASSUME NEW b \in Nat
      PROVE  Held(g[n], b) <=> \E r \in ranges : b \in Blocks(r)
  BY <1>1, <1>3, <1>7 DEF Merged
<1> QED
  BY <1>7, <1>8, <1>9 DEF Merged

-----------------------------------------------------------------------------
(* coverage_gaps.                                                          *)

(* After the ranges with blocks P the gaps are the blocks below the cursor *)
(* that none of them holds, and none of them reaches beyond the cursor     *)
(* into the required range.                                                *)
Passed(required, s, P) ==
  /\ start(required) <= s.cursor /\ s.cursor <= end_exclusive(required)
  /\ \A b \in Nat : Held(s.gaps, b) <=>
       start(required) <= b /\ b < s.cursor /\ b \notin P
  /\ \A b \in P : b \in Blocks(required) => b < s.cursor
  /\ Ascending(s.gaps)
  /\ s.gaps # <<>> => end_exclusive(Last(s.gaps)) < s.cursor

(* One turn of the loop, on a range that starts at or after the cursor. *)
LEMMA AdvanceIsExact ==
  ASSUME NEW required \in BlockRange, NEW s \in Passes, NEW r \in BlockRange,
         NEW P \in SUBSET Nat, Passed(required, s, P),
         s.cursor <= Larger(start(r), start(required))
  PROVE  /\ Passed(required, Advance(required, s, r), P \cup Blocks(r))
         /\ Advance(required, s, r).cursor <= Larger(end_exclusive(r), start(required))
<1>1. PICK x \in Nat, y \in Nat :
        x = start(required) /\ y = end_exclusive(required) /\ x < y
  BY RangeBounds
<1>2. PICK c \in Nat, d \in Nat : c = start(r) /\ d = end_exclusive(r) /\ c < d
  BY RangeBounds
<1>3. PICK cur \in Nat, gaps \in Seq(BlockRange) : cur = s.cursor /\ gaps = s.gaps
  BY DEF Passes
<1>4. /\ \A b \in Nat : b \in Blocks(required) <=> x <= b /\ b < y
      /\ \A b \in Nat : b \in Blocks(r) <=> c <= b /\ b < d
      /\ Blocks(r) \in SUBSET Nat
  BY <1>1, <1>2, RangeBounds
<1>5. /\ x <= cur /\ cur <= y
      /\ \A b \in Nat : Held(gaps, b) <=> x <= b /\ b < cur /\ b \notin P
      /\ \A b \in P : b \in Blocks(required) => b < cur
      /\ Ascending(gaps)
      /\ gaps # <<>> => end_exclusive(Last(gaps)) < cur
  BY <1>1, <1>3 DEF Passed
<1>6. PICK from \in Nat : from = Larger(c, x) /\ from >= c /\ from >= x /\ from \in {c, x}
  BY DEF Larger
<1>7. PICK to \in Nat : to = Smaller(d, y) /\ to <= d /\ to <= y /\ to \in {d, y}
  BY DEF Smaller
<1>8. cur <= from
  <2>1. s.cursor <= Larger(c, x)
    BY <1>1, <1>2
  <2> QED
    BY <1>3, <1>6, <2>1
<1>9. Larger(d, x) \in Nat /\ Larger(d, x) >= d /\ Larger(d, x) >= x
  BY DEF Larger
<1>10. PICK new \in Passes : new = Advance(required, s, r)
  BY AdvanceIsPass
<1>11. CASE Outside(required, r)
  <2>1. d <= x \/ c >= y
    BY <1>1, <1>2, <1>11 DEF Outside
  <2>2. new = s
    BY <1>10, <1>11, AdvanceIsPass
  <2>3. \A b \in Nat : Held(gaps, b) <=> x <= b /\ b < cur /\ b \notin P \cup Blocks(r)
    BY <1>2, <1>4, <1>5, <2>1
  <2>4. \A b \in P \cup Blocks(r) : b \in Blocks(required) => b < cur
    BY <1>2, <1>4, <1>5, <2>1
  <2>5. cur <= Larger(d, x)
    BY <1>2, <1>6, <1>8, <1>9
  <2>6. Passed(required, s, P \cup Blocks(r))
    BY <1>1, <1>3, <1>5, <2>3, <2>4 DEF Passed
  <2> QED
    BY <1>1, <1>2, <1>3, <1>10, <2>2, <2>5, <2>6
<1>12. CASE ~Outside(required, r)
  <2>1. d > x /\ c < y
    BY <1>1, <1>2, <1>12 DEF Outside
  <2>2. /\ new.cursor = Larger(cur, to)
        /\ from > cur => /\ <<cur, from>> \in BlockRange
                         /\ new.gaps = Append(gaps, <<cur, from>>)
        /\ ~(from > cur) => new.gaps = gaps
    BY <1>1, <1>2, <1>3, <1>6, <1>7, <1>10, <1>12, AdvanceIsPass
  <2>3. from < to
    BY <1>1, <1>2, <1>6, <1>7, <2>1
  <2>4. new.cursor = to
    BY <1>8, <2>2, <2>3 DEF Larger
  <2>5. ASSUME NEW b \in Nat
        PROVE  x <= b /\ b < to /\ b \notin P \cup Blocks(r) <=>
                 \/ x <= b /\ b < cur /\ b \notin P
                 \/ cur <= b /\ b < from
    <3>1. b \in P /\ x <= b /\ b < y => b < cur
      BY <1>4, <1>5
    <3> QED
      BY <1>1, <1>2, <1>4, <1>5, <1>6, <1>7, <1>8, <2>1, <2>3, <3>1
  <2>6. \A b \in P \cup Blocks(r) : b \in Blocks(required) => b < to
    <3> SUFFICES ASSUME NEW b \in P \cup Blocks(r), b \in Blocks(required)
                 PROVE  b < to
      OBVIOUS
    <3>1. b \in Nat /\ b < y /\ x <= b
      BY <1>4
    <3>2. CASE b \in P
      BY <1>5, <1>8, <2>3, <3>1, <3>2
    <3>3. CASE b \in Blocks(r)
      BY <1>4, <1>7, <3>1, <3>3
    <3> QED
      BY <3>2, <3>3
  <2>7. /\ \A b \in Nat : Held(new.gaps, b) <=> x <= b /\ b < to /\ b \notin P \cup Blocks(r)
        /\ Ascending(new.gaps)
        /\ new.gaps # <<>> => end_exclusive(Last(new.gaps)) < to
    <3>1. CASE from > cur
      <4>1. PICK gap \in BlockRange :
              gap = <<cur, from>> /\ start(gap) = cur /\ end_exclusive(gap) = from
        BY <2>2, <3>1 DEF start, end_exclusive
      <4>2. PICK t \in Seq(BlockRange) :
              /\ t = Append(gaps, gap) /\ t # <<>> /\ Last(t) = gap
              /\ \A b : Held(t, b) <=> Held(gaps, b) \/ b \in Blocks(gap)
        BY AppendHolds
      <4>3. new.gaps = t
        BY <2>2, <3>1, <4>1, <4>2
      <4>4. Ascending(t)
        BY <1>5, <4>1, <4>2, AscendingAppend
      <4>5. \A b \in Nat : b \in Blocks(gap) <=> cur <= b /\ b < from
        BY <4>1, RangeBounds
      <4> QED
        BY <1>5, <2>3, <2>5, <4>1, <4>2, <4>3, <4>4, <4>5
    <3>2. CASE ~(from > cur)
      <4>1. new.gaps = gaps /\ from = cur
        BY <1>8, <2>2, <3>2
      <4>2. gaps # <<>> => end_exclusive(Last(gaps)) < to
        <5> SUFFICES ASSUME gaps # <<>> PROVE end_exclusive(Last(gaps)) < to
          OBVIOUS
        <5>1. end_exclusive(Last(gaps)) \in Nat
          BY LastIsRange
        <5> QED
          BY <1>5, <2>3, <4>1, <5>1
      <4>3. \A b \in Nat : ~(cur <= b /\ b < from)
        BY <4>1
      <4> QED
        BY <1>5, <2>5, <4>1, <4>2, <4>3
    <3> QED
      BY <3>1, <3>2
  <2>8. x <= to /\ to <= y
    BY <1>6, <1>7, <2>3
  <2>9. Passed(required, new, P \cup Blocks(r))
    BY <1>1, <2>4, <2>6, <2>7, <2>8 DEF Passed
  <2>10. to <= Larger(d, x)
    BY <1>7, <1>9
  <2> QED
    BY <1>1, <1>2, <1>10, <2>4, <2>9, <2>10
<1> QED
  BY <1>11, <1>12

(* The loop of coverage_gaps over a merged list, by the least prefix on    *)
(* which it could fail: the gaps and the covered blocks make up what is    *)
(* before the cursor.                                                      *)
LEMMA GapsPassAll ==
  ASSUME NEW required \in BlockRange, NEW m \in Seq(BlockRange), Ascending(m)
  PROVE  \E s \in Passes :
           /\ s = FoldLeft(LAMBDA t, r : Advance(required, t, r), Started(required), m)
           /\ Passed(required, s, {b \in Nat : Held(m, b)})
<1>1. PICK g \in [0..Len(m) -> Passes] :
        /\ FoldLeft(LAMBDA s, r : Advance(required, s, r), Started(required), m) = g[Len(m)]
        /\ g[0] = Started(required)
        /\ \A k \in 1..Len(m) : g[k] = Advance(required, g[k - 1], m[k])
  BY GapsUnfold
<1>2. PICK n \in Nat : n = Len(m)
  OBVIOUS
<1>10. g[0] = Started(required) /\ \A k \in 1..n : g[k] = Advance(required, g[k - 1], m[k])
  BY <1>1, <1>2, Zenon
<1> DEFINE P(k) == {b \in Nat : \E i \in 1..k : b \in Blocks(m[i])}
           Good(k) == /\ Passed(required, g[k], P(k))
                      /\ k > 0 => g[k].cursor <= Larger(end_exclusive(m[k]), start(required))
           Wrong == {k \in 0..n : ~Good(k)}
<1>3. PICK x \in Nat, y \in Nat :
        x = start(required) /\ y = end_exclusive(required) /\ x < y
  BY RangeBounds
<1>4. Good(0)
  <2>1. P(0) = {}
    OBVIOUS
  <2>2. g[0].cursor = x /\ g[0].gaps = <<>>
    BY <1>3, <1>10 DEF Started
  <2>3. Len(<<>>) = 0
    OBVIOUS
  <2>4. Ascending(<<>>) /\ \A b \in Nat : ~Held(<<>>, b)
    BY <2>3 DEF Ascending, Held
  <2>5. Passed(required, g[0], {})
    BY <1>3, <2>2, <2>4 DEF Passed
  <2> QED
    BY <2>1, <2>5
<1> HIDE DEF Good, P
<1>5. ASSUME NEW k \in 1..n, Good(k - 1) PROVE Good(k)
  <2>1. PICK j \in 0..n : j = k - 1 /\ Good(j)
    BY <1>5
  <2>2. m[k] \in BlockRange /\ g[j] \in Passes /\ g[k] = Advance(required, g[j], m[k])
    BY <1>2, <1>10, <2>1
  <2>3. PICK c \in Nat, d \in Nat : c = start(m[k]) /\ d = end_exclusive(m[k]) /\ c < d
    BY <2>2, RangeBounds
  <2>4. g[j].cursor \in Nat
    BY <2>2 DEF Passes
  <2>5. g[j].cursor <= Larger(c, x)
    <3>1. CASE j = 0
      <4>1. g[j].cursor = x
        BY <1>3, <1>10, <3>1 DEF Started
      <4> QED
        BY <4>1 DEF Larger
    <3>2. CASE j # 0
      <4>1. j \in 1..(n - 1) /\ j + 1 = k /\ m[j] \in BlockRange /\ j > 0
        BY <1>2, <2>1, <3>2
      <4>2. PICK e \in Nat : e = end_exclusive(m[j])
        BY <4>1, RangeBounds
      <4>3. e < c
        BY <1>2, <2>3, <4>1, <4>2 DEF Ascending
      <4>4. g[j].cursor <= Larger(e, x)
        BY <1>3, <2>1, <4>1, <4>2 DEF Good
      <4> QED
        BY <2>4, <4>3, <4>4 DEF Larger
    <3> QED
      BY <3>1, <3>2
  <2>6. P(k) = P(j) \cup Blocks(m[k])
    <3>1. \A i : i \in 1..k <=> i \in 1..j \/ i = k
      BY <2>1
    <3>2. Blocks(m[k]) \in SUBSET Nat
      BY <2>2, RangeBounds
    <3> QED
      BY <3>1, <3>2 DEF P
  <2>7. PICK before \in SUBSET Nat : before = P(j)
    BY DEF P
  <2>8. Passed(required, g[j], before)
    BY <2>1, <2>7 DEF Good
  <2>9. /\ Passed(required, g[k], before \cup Blocks(m[k]))
        /\ g[k].cursor <= Larger(end_exclusive(m[k]), x)
    BY <1>3, <2>2, <2>3, <2>5, <2>8, AdvanceIsExact
  <2> QED
    BY <1>3, <2>6, <2>7, <2>9 DEF Good
<1>6. \A k \in 0..n : Good(k)
  <2> SUFFICES ASSUME Wrong # {} PROVE FALSE
    OBVIOUS
  <2>1. PICK k \in Wrong : \A j \in Wrong : k <= j
    <3>1. Wrong \in SUBSET Nat
      OBVIOUS
    <3> QED
      BY <3>1, LeastBlock
  <2>2. k \in 1..n /\ k - 1 \in 0..n /\ ~(k <= k - 1)
    BY <1>4, <2>1
  <2> QED
    BY <1>5, <2>1, <2>2
<1>7. P(n) = {b \in Nat : Held(m, b)}
  BY <1>2 DEF Held, P
<1>8. Passed(required, g[n], {b \in Nat : Held(m, b)})
  BY <1>6, <1>7 DEF Good
<1>9. g[n] \in Passes
  BY <1>2
<1> QED
  BY <1>1, <1>2, <1>8, <1>9, Zenon

(* A sequence of ranges, as the set of blocks that they hold. *)
LEMMA HeldBlocks ==
  ASSUME NEW s \in Seq(BlockRange)
  PROVE  /\ Range(s) \in SUBSET BlockRange /\ BlocksOf(Range(s)) \in SUBSET Nat
         /\ \A b : b \in BlocksOf(Range(s)) <=> Held(s, b)
<1>1. DOMAIN s = 1..Len(s) /\ \A i \in 1..Len(s) : s[i] \in BlockRange
  OBVIOUS
<1>2. Range(s) = {s[i] : i \in 1..Len(s)}
  BY <1>1, Zenon DEF Range
<1>3. Range(s) \in SUBSET BlockRange
  BY <1>1, <1>2
<1>4. \A b : b \in BlocksOf(Range(s)) <=> Held(s, b)
  BY <1>2 DEF BlocksOf, Held
<1>5. BlocksOf(Range(s)) \in SUBSET Nat
  BY <1>3, RangeBounds DEF BlocksOf
<1> QED
  BY <1>3, <1>4, <1>5

(* merge_coverage loses no completed block and adds none, and its ranges   *)
(* are maximal, for every finite set of completed ranges.                  *)
THEOREM CoverageIsMerged ==
  ASSUME NEW ranges \in SUBSET BlockRange, IsFiniteSet(ranges)
  PROVE  Exactly(merge_coverage(ranges), BlocksOf(ranges))
<1>1. PICK m \in Seq(BlockRange) :
        /\ m = merge_coverage(ranges)
        /\ Ascending(m)
        /\ \A b \in Nat : Held(m, b) <=> \E r \in ranges : b \in Blocks(r)
  BY MergeIsExact
<1>2. \A b \in Nat : b \in BlocksOf(Range(m)) <=> b \in BlocksOf(ranges)
  BY <1>1, HeldBlocks DEF BlocksOf
<1>3. BlocksOf(ranges) \in SUBSET Nat /\ BlocksOf(Range(m)) \in SUBSET Nat
  BY RangeBounds, HeldBlocks DEF BlocksOf
<1>4. BlocksOf(Range(m)) = BlocksOf(ranges)
  BY <1>2, <1>3
<1> QED
  BY <1>1, <1>4, HeldBlocks DEF Exactly

(* coverage_gaps, what advance decides to scan: exactly the blocks of the  *)
(* required range that no completed range holds, as separate ranges in     *)
(* order, for every required range and every finite set of completed ones. *)
THEOREM GapsAreExact ==
  ASSUME NEW required \in BlockRange,
         NEW completed \in SUBSET BlockRange, IsFiniteSet(completed)
  PROVE  /\ coverage_gaps(required, completed) \in Seq(BlockRange)
         /\ Exactly(coverage_gaps(required, completed),
                    Blocks(required) \ BlocksOf(completed))
<1>1. PICK m \in Seq(BlockRange) :
        /\ m = merge_coverage(completed)
        /\ Ascending(m)
        /\ \A b \in Nat : Held(m, b) <=> \E r \in completed : b \in Blocks(r)
  BY MergeIsExact
<1>2. PICK s \in Passes :
        /\ s = FoldLeft(LAMBDA t, r : Advance(required, t, r), Started(required), m)
        /\ Passed(required, s, {b \in Nat : Held(m, b)})
  BY <1>1, GapsPassAll
<1>3. PICK all : all = coverage_gaps(required, completed)
  OBVIOUS
<1>4. all = Tailed(required, s.cursor, s.gaps)
  BY <1>1, <1>2, <1>3, Zenon DEF coverage_gaps, Started
<1>5. PICK x \in Nat, y \in Nat :
        x = start(required) /\ y = end_exclusive(required) /\ x < y
  BY RangeBounds
<1>6. PICK cur \in Nat, gaps \in Seq(BlockRange) : cur = s.cursor /\ gaps = s.gaps
  BY <1>2 DEF Passes
<1>7. ASSUME NEW b \in Nat
      PROVE  /\ b \in Blocks(required) <=> x <= b /\ b < y
             /\ b \in BlocksOf(completed) <=> Held(m, b)
  BY <1>1, <1>5, RangeBounds DEF BlocksOf
<1>8. /\ x <= cur /\ cur <= y
      /\ \A b \in Nat : Held(gaps, b) <=> x <= b /\ b < cur /\ ~Held(m, b)
      /\ \A b \in Nat : Held(m, b) /\ x <= b /\ b < y => b < cur
      /\ Ascending(gaps)
      /\ gaps # <<>> => end_exclusive(Last(gaps)) < cur
  BY <1>2, <1>5, <1>6, <1>7 DEF Passed
<1>9. /\ all \in Seq(BlockRange) /\ Ascending(all)
      /\ \A b \in Nat : Held(all, b) <=> x <= b /\ b < y /\ ~Held(m, b)
  <2>1. CASE cur < y
    <3>1. PICK tail : tail = <<cur, y>> /\ start(tail) = cur /\ end_exclusive(tail) = y
      <4>1. start(<<cur, y>>) = cur /\ end_exclusive(<<cur, y>>) = y
        BY DEF start, end_exclusive
      <4> QED
        BY <4>1
    <3>6. tail \in BlockRange
      BY <2>1, <3>1 DEF BlockRange
    <3>2. all = Append(gaps, tail)
      BY <1>4, <1>5, <1>6, <2>1, <3>1 DEF Tailed
    <3>3. PICK t \in Seq(BlockRange) :
            /\ t = Append(gaps, tail) /\ t # <<>> /\ Last(t) = tail
            /\ Len(t) = Len(gaps) + 1
            /\ \A i \in 1..Len(gaps) : t[i] = gaps[i]
            /\ t[Len(t)] = tail
            /\ \A b : Held(t, b) <=> Held(gaps, b) \/ b \in Blocks(tail)
      BY <3>6, AppendHolds
    <3>4. Ascending(t)
      BY <1>8, <3>1, <3>3, <3>6, AscendingAppend
    <3>5. ASSUME NEW b \in Nat PROVE Held(t, b) <=> x <= b /\ b < y /\ ~Held(m, b)
      <4>1. b \in Blocks(tail) <=> cur <= b /\ b < y
        BY <3>1, <3>6, RangeBounds
      <4>2. Held(gaps, b) <=> x <= b /\ b < cur /\ ~Held(m, b)
        BY <1>8
      <4>3. Held(m, b) /\ x <= b /\ b < y => b < cur
        BY <1>8
      <4>4. Held(t, b) <=> Held(gaps, b) \/ b \in Blocks(tail)
        BY <3>3
      <4> QED
        BY <1>8, <4>1, <4>2, <4>3, <4>4
    <3> QED
      BY <3>2, <3>3, <3>4, <3>5
  <2>2. CASE ~(cur < y)
    <3>1. all = gaps /\ cur = y
      BY <1>4, <1>5, <1>6, <1>8, <2>2 DEF Tailed
    <3> QED
      BY <1>8, <3>1
  <2> QED
    BY <2>1, <2>2
<1>10. BlocksOf(Range(all)) = Blocks(required) \ BlocksOf(completed)
  <2>1. \A b \in Nat : b \in BlocksOf(Range(all)) <=> b \in Blocks(required) \ BlocksOf(completed)
    BY <1>7, <1>9, HeldBlocks
  <2>2. BlocksOf(Range(all)) \in SUBSET Nat /\ Blocks(required) \in SUBSET Nat
    BY <1>9, HeldBlocks, RangeBounds
  <2> QED
    BY <2>1, <2>2
<1> QED
  BY <1>3, <1>9, <1>10, HeldBlocks DEF Exactly

-----------------------------------------------------------------------------
(* contiguous_frontier.                                                    *)

(* The frontier stays a block number. *)
LEMMA ExtendedIsBlock ==
  ASSUME NEW frontier \in Nat, NEW r \in BlockRange
  PROVE  Extend(frontier, r) \in Nat
BY RangeBounds DEF Extend

(* contiguous_frontier's loop, range by range. *)
LEMMA FrontierUnfolds ==
  ASSUME NEW first \in Nat, NEW order \in Seq(BlockRange)
  PROVE  \E g \in [0..Len(order) -> Nat] :
           /\ FoldLeft(Extend, first, order) = g[Len(order)]
           /\ g[0] = first
           /\ \A k \in 1..Len(order) : g[k] = Extend(g[k - 1], order[k])
<1>1. PICK n \in Nat : n = Len(order) /\ DOMAIN order = 1..n
  BY LenProperties
<1>2. PICK X : X = Nat
  OBVIOUS
<1>3. PICK st : st = [p \in X \X (1..n) |-> Extend(p[1], order[p[2]])]
  OBVIOUS
<1>4. ASSUME NEW x \in X, NEW i \in 1..n
      PROVE  st[<<x, i>>] = Extend(x, order[i]) /\ Extend(x, order[i]) \in X
  <2>1. <<x, i>> \in X \X (1..n) /\ <<x, i>>[1] = x /\ <<x, i>>[2] = i
    OBVIOUS
  <2>2. order[i] \in BlockRange
    BY <1>1
  <2> QED
    BY <1>2, <1>3, <2>1, <2>2, ExtendedIsBlock
<1>5. st \in [X \X (1..n) -> X]
  <2>1. \A p \in X \X (1..n) : p[1] \in X /\ p[2] \in 1..n /\ p = <<p[1], p[2]>>
    OBVIOUS
  <2>2. \A p \in X \X (1..n) : Extend(p[1], order[p[2]]) \in X
    BY <1>4, <2>1
  <2> QED
    BY <1>3, <2>2
<1>6. first \in X
  BY <1>2
<1>7. PICK f \in [SUBSET (1..n) -> X] : \A s \in SUBSET (1..n) :
        f[s] = IF s = {} THEN first ELSE st[<<f[s \ {Max(s)}], Max(s)>>]
  <2>1. PICK base \in X : base = first
    BY <1>6
  <2>2. PICK f : f \in FoldFunctions(n, X, base, st)
    BY <1>5, FoldIsDefined
  <2> QED
    BY <2>1, <2>2, Zenon DEF FoldFunctions
<1>8. ASSUME NEW s \in SUBSET (1..n)
      PROVE  f[s] = IF s = {} THEN first ELSE Extend(f[s \ {Max(s)}], order[Max(s)])
  <2>1. CASE s # {}
    <3>1. \A y \in s : y \in Nat
      OBVIOUS
    <3>2. Max(s) \in 1..n
      BY <2>1, MaxIsMember
    <3>3. f[s \ {Max(s)}] \in X
      OBVIOUS
    <3>4. f[s] = st[<<f[s \ {Max(s)}], Max(s)>>]
      BY <1>7, <2>1
    <3>5. st[<<f[s \ {Max(s)}], Max(s)>>] = Extend(f[s \ {Max(s)}], order[Max(s)])
      BY <1>4, <3>2, <3>3
    <3> QED
      BY <2>1, <3>4, <3>5
  <2>2. CASE s = {}
    BY <1>7, <2>2
  <2> QED
    BY <2>1, <2>2
<1> DEFINE Iterates(h) ==
      h = [s \in SUBSET DOMAIN order |->
             IF s = {} THEN first ELSE Extend(h[s \ {Max(s)}], order[Max(s)])]
<1>9. \E h : Iterates(h)
  <2>1. Iterates(f)
    BY <1>1, <1>8
  <2> QED
    BY <2>1
<1>10. PICK h : h = CHOOSE i : Iterates(i)
  OBVIOUS
<1>11. Iterates(h)
  BY <1>9, <1>10, Zenon
<1>12. FoldLeft(Extend, first, order) = h[1..n]
  BY <1>1, <1>10 DEF FoldLeft, MapThenFoldSet
<1>13. h[1..0] = first
  BY <1>1, <1>11, PrefixesShrink
<1>14. ASSUME NEW k \in 1..n PROVE h[1..k] = Extend(h[1..(k - 1)], order[k])
  <2>1. /\ 1..k \in SUBSET (1..n) /\ 1..k # {} /\ Max(1..k) = k
        /\ (1..k) \ {k} = 1..(k - 1)
    BY PrefixesShrink
  <2> QED
    BY <1>1, <1>11, <2>1
<1> HIDE DEF Iterates
<1>15. PICK g : g = [k \in 0..n |-> h[1..k]]
  OBVIOUS
<1>16. g[0] = first /\ g[n] = h[1..n] /\ \A k \in 1..n : g[k] = Extend(g[k - 1], order[k])
  BY <1>13, <1>14, <1>15
<1>17. \A k \in 0..n : g[k] \in X
  <2> DEFINE Untyped == {k \in 0..n : g[k] \notin X}
  <2> SUFFICES ASSUME Untyped # {} PROVE FALSE
    OBVIOUS
  <2>1. PICK k \in Untyped : \A j \in Untyped : k <= j
    <3>1. Untyped \in SUBSET Nat
      OBVIOUS
    <3> QED
      BY <3>1, LeastBlock
  <2>2. k # 0
    BY <1>6, <1>16
  <2>3. k \in 1..n /\ k - 1 \in 0..n /\ ~(k <= k - 1)
    BY <2>2
  <2>4. g[k - 1] \in X
    BY <2>1, <2>3
  <2> QED
    BY <1>4, <1>16, <2>3, <2>4
<1>18. g \in [0..n -> X]
  BY <1>15, <1>17
<1> QED
  BY <1>1, <1>2, <1>12, <1>16, <1>18

(* One turn of the loop, on a range beyond those with blocks P: the        *)
(* frontier stays the end of what is covered from the first block on.      *)
Reached(first, frontier, P) ==
  /\ first <= frontier
  /\ \A b \in Nat : first <= b /\ b < frontier => b \in P
  /\ frontier \notin P

(* One turn of the loop of contiguous_frontier, for a range that does not  *)
(* touch those before it.                                                  *)
LEMMA ExtendIsExact ==
  ASSUME NEW first \in Nat, NEW frontier \in Nat, NEW r \in BlockRange,
         NEW P \in SUBSET Nat, Reached(first, frontier, P),
         \A b \in P : b + 1 < start(r)
  PROVE  Reached(first, Extend(frontier, r), P \cup Blocks(r))
<1>1. PICK c \in Nat, d \in Nat : c = start(r) /\ d = end_exclusive(r) /\ c < d
  BY RangeBounds
<1>2. \A b \in Nat : b \in Blocks(r) <=> c <= b /\ b < d
  BY <1>1, RangeBounds
<1>3. Blocks(r) \in SUBSET Nat
  BY RangeBounds
<1>4. CASE d <= frontier \/ c > frontier
  <2>1. Extend(frontier, r) = frontier
    BY <1>1, <1>4 DEF Extend
  <2> QED
    BY <1>1, <1>2, <1>4, <2>1 DEF Reached
<1>5. CASE ~(d <= frontier \/ c > frontier)
  <2>1. Extend(frontier, r) = d
    BY <1>1, <1>5 DEF Extend
  <2>2. first <= d /\ d \notin P \cup Blocks(r)
    <3>1. d \notin Blocks(r)
      BY <1>2
    <3>2. d \notin P
      BY <1>1
    <3> QED
      BY <1>5, <3>1, <3>2 DEF Reached
  <2>3. ASSUME NEW b \in Nat, first <= b, b < d PROVE b \in P \cup Blocks(r)
    BY <1>2, <1>5, <2>3 DEF Reached
  <2> QED
    BY <2>1, <2>2, <2>3 DEF Reached
<1> QED
  BY <1>4, <1>5

(* contiguous_frontier is the first block at or after its start that no    *)
(* completed range holds: a covered suffix never hides a missing prefix.   *)
THEOREM FrontierIsExact ==
  ASSUME NEW first \in Nat, NEW ranges \in SUBSET BlockRange, IsFiniteSet(ranges)
  PROVE  LET frontier == contiguous_frontier(first, ranges)
         IN  /\ frontier \in Nat /\ first <= frontier
             /\ frontier \notin BlocksOf(ranges)
             /\ first..(frontier - 1) \subseteq BlocksOf(ranges)
<1>1. PICK m \in Seq(BlockRange) :
        /\ m = merge_coverage(ranges)
        /\ Ascending(m)
        /\ \A b \in Nat : Held(m, b) <=> \E r \in ranges : b \in Blocks(r)
  BY MergeIsExact
<1>2. PICK g \in [0..Len(m) -> Nat] :
        /\ FoldLeft(Extend, first, m) = g[Len(m)]
        /\ g[0] = first
        /\ \A k \in 1..Len(m) : g[k] = Extend(g[k - 1], m[k])
  BY FrontierUnfolds
<1>3. PICK n \in Nat : n = Len(m)
  OBVIOUS
<1> DEFINE P(k) == {b \in Nat : \E i \in 1..k : b \in Blocks(m[i])}
           Good(k) == /\ Reached(first, g[k], P(k))
                      /\ \A b \in P(k) : b < end_exclusive(m[k])
           Wrong == {k \in 0..n : ~Good(k)}
<1>4. Good(0)
  <2>1. P(0) = {}
    OBVIOUS
  <2>2. Reached(first, g[0], {})
    BY <1>2 DEF Reached
  <2> QED
    BY <2>1, <2>2
<1> HIDE DEF Good, P
<1>5. ASSUME NEW k \in 1..n, Good(k - 1) PROVE Good(k)
  <2>1. PICK j \in 0..n : j = k - 1 /\ Good(j)
    BY <1>5
  <2>2. m[k] \in BlockRange /\ g[j] \in Nat /\ g[k] = Extend(g[j], m[k])
    BY <1>2, <1>3, <2>1
  <2>3. PICK c \in Nat, d \in Nat : c = start(m[k]) /\ d = end_exclusive(m[k]) /\ c < d
    BY <2>2, RangeBounds
  <2>4. PICK before \in SUBSET Nat : before = P(j)
    BY DEF P
  <2>5. \A b \in before : b + 1 < c
    <3>1. CASE j = 0
      BY <2>4, <3>1 DEF P
    <3>2. CASE j # 0
      <4>1. j \in 1..(n - 1) /\ j + 1 = k /\ m[j] \in BlockRange
        BY <1>3, <2>1, <3>2
      <4>2. PICK e \in Nat : e = end_exclusive(m[j])
        BY <4>1, RangeBounds
      <4>3. e < c
        BY <1>1, <1>3, <2>3, <4>1, <4>2 DEF Ascending
      <4>4. \A b \in before : b < e
        BY <2>1, <2>4, <4>2 DEF Good
      <4> QED
        BY <4>3, <4>4
    <3> QED
      BY <3>1, <3>2
  <2>6. P(k) = before \cup Blocks(m[k])
    <3>1. \A i : i \in 1..k <=> i \in 1..j \/ i = k
      BY <2>1
    <3>2. Blocks(m[k]) \in SUBSET Nat
      BY <2>2, RangeBounds
    <3> QED
      BY <2>4, <3>1, <3>2 DEF P
  <2>7. Reached(first, g[j], before)
    BY <2>1, <2>4 DEF Good
  <2>8. Reached(first, g[k], before \cup Blocks(m[k]))
    BY <2>2, <2>3, <2>5, <2>7, ExtendIsExact
  <2>9. \A b \in before \cup Blocks(m[k]) : b < d
    <3>1. \A b \in Blocks(m[k]) : b < d
      BY <2>2, <2>3, RangeBounds
    <3>2. \A b \in before : b < d
      BY <2>3, <2>5
    <3> QED
      BY <3>1, <3>2
  <2> QED
    BY <2>3, <2>6, <2>8, <2>9 DEF Good
<1>6. \A k \in 0..n : Good(k)
  <2> SUFFICES ASSUME Wrong # {} PROVE FALSE
    OBVIOUS
  <2>1. PICK k \in Wrong : \A j \in Wrong : k <= j
    <3>1. Wrong \in SUBSET Nat
      OBVIOUS
    <3> QED
      BY <3>1, LeastBlock
  <2>2. k \in 1..n /\ k - 1 \in 0..n /\ ~(k <= k - 1)
    BY <1>4, <2>1
  <2> QED
    BY <1>5, <2>1, <2>2
<1>7. PICK frontier \in Nat : frontier = g[n] /\ frontier = contiguous_frontier(first, ranges)
  BY <1>1, <1>2, <1>3 DEF contiguous_frontier
<1>8. Reached(first, frontier, P(n))
  BY <1>6, <1>7 DEF Good
<1>9. \A b \in Nat : b \in P(n) <=> b \in BlocksOf(ranges)
  <2>1. \A b \in Nat : b \in P(n) <=> Held(m, b)
    BY <1>3 DEF P, Held
  <2> QED
    BY <1>1, <2>1 DEF BlocksOf
<1>10. \A b \in first..(frontier - 1) : b \in Nat /\ first <= b /\ b < frontier
  OBVIOUS
<1> QED
  BY <1>7, <1>8, <1>9, <1>10 DEF Reached

-----------------------------------------------------------------------------
(* What scan_filter reads.                                                 *)

(* The chunks of n blocks that scan_filter counts are as many as m blocks  *)
(* need.                                                                   *)
LEMMA ChunkCount ==
  ASSUME NEW m \in Nat, NEW n \in Nat \ {0}
  PROVE  \E k \in Nat :
           /\ k = (m + n - 1) \div n
           /\ \A i \in 1..k : (i - 1) * n < m
           /\ \A o \in Nat : o < m => o \div n + 1 \in 1..k
                                     /\ (o \div n) * n <= o /\ o < (o \div n) * n + n
<1>1. PICK k \in Nat : k = (m + n - 1) \div n
  OBVIOUS
<1>2. k * n <= m + n - 1 /\ m + n - 1 < k * n + n
  BY <1>1
<1>3. ASSUME NEW i \in 1..k PROVE (i - 1) * n < m
  <2>1. i * n <= k * n
    OBVIOUS
  <2>2. (i - 1) * n = i * n - n
    OBVIOUS
  <2> QED
    BY <1>2, <2>1, <2>2
<1>4. ASSUME NEW o \in Nat, o < m
      PROVE  /\ o \div n + 1 \in 1..k
             /\ (o \div n) * n <= o /\ o < (o \div n) * n + n
  <2>1. PICK q \in Nat : q = o \div n
    OBVIOUS
  <2>2. q * n <= o /\ o < q * n + n
    BY <2>1
  <2>3. q * n < k * n
    BY <1>2, <1>4, <2>2
  <2>4. q < k
    BY <2>3
  <2> QED
    BY <2>1, <2>2, <2>4
<1> QED
  BY <1>1, <1>3, <1>4

(* scan_filter starts from chunks of at most initial_chunk_size blocks     *)
(* that hold exactly the blocks of the range, for every range and size.    *)
THEOREM ChunksAreExact ==
  ASSUME NEW r \in BlockRange, NEW n \in Nat \ {0}
  PROVE  /\ Chunks(r, n) \in Seq(BlockRange)
         /\ BlocksOf(Range(Chunks(r, n))) = Blocks(r)
         /\ \A c \in Range(Chunks(r, n)) : size(c) <= n
<1>1. PICK x \in Nat, y \in Nat : x = start(r) /\ y = end_exclusive(r) /\ x < y
  BY RangeBounds
<1>2. PICK m \in Nat : m = y - x /\ m = size(r)
  BY <1>1 DEF size
<1>3. PICK k \in Nat :
        /\ k = (m + n - 1) \div n
        /\ \A i \in 1..k : (i - 1) * n < m
        /\ \A o \in Nat : o < m => o \div n + 1 \in 1..k
                                  /\ (o \div n) * n <= o /\ o < (o \div n) * n + n
  BY ChunkCount
<1>4. PICK s : s = Chunks(r, n)
  OBVIOUS
<1>5. s = [i \in 1..k |-> <<x + (i - 1) * n, Smaller(x + i * n, y)>>]
  BY <1>1, <1>2, <1>3, <1>4, Zenon DEF Chunks
<1>6. ASSUME NEW i \in 1..k
      PROVE  /\ s[i] \in BlockRange /\ start(s[i]) = x + (i - 1) * n
             /\ end_exclusive(s[i]) <= y /\ end_exclusive(s[i]) <= x + i * n
             /\ end_exclusive(s[i]) \in {y, x + i * n}
  <2>1. PICK a \in Nat : a = x + (i - 1) * n
    OBVIOUS
  <2>2. PICK b \in Nat : b = Smaller(x + i * n, y) /\ b <= y /\ b <= x + i * n
                         /\ b \in {y, x + i * n}
    BY DEF Smaller
  <2>3. s[i] = <<a, b>>
    BY <1>5, <2>1, <2>2
  <2>4. start(s[i]) = a /\ end_exclusive(s[i]) = b
    BY <2>3 DEF start, end_exclusive
  <2>5. (i - 1) * n < m /\ x + i * n = a + n
    BY <1>3, <2>1
  <2>6. a < b
    BY <1>2, <2>1, <2>2, <2>5
  <2>7. s[i] \in BlockRange
    BY <2>3, <2>4, <2>6 DEF BlockRange
  <2> QED
    BY <2>1, <2>2, <2>4, <2>7
<1>7. s \in Seq(BlockRange) /\ Len(s) = k
  <2>1. s \in [1..k -> BlockRange]
    BY <1>5, <1>6
  <2>2. s \in Seq(BlockRange)
    BY <2>1, SeqDef
  <2> QED
    BY <2>1, <2>2, LenProperties
<1>8. ASSUME NEW b \in Nat PROVE Held(s, b) <=> b \in Blocks(r)
  <2>1. ASSUME NEW i \in 1..k, b \in Blocks(s[i]) PROVE b \in Blocks(r)
    <3>1. start(s[i]) <= b /\ b < end_exclusive(s[i]) /\ end_exclusive(s[i]) \in Nat
      BY <1>6, <2>1, RangeBounds
    <3>2. start(s[i]) >= x
      <4>1. (i - 1) * n \in Nat
        OBVIOUS
      <4> QED
        BY <1>6, <4>1
    <3>3. x <= b /\ b < y
      BY <1>6, <3>1, <3>2
    <3> QED
      BY <1>1, <3>3, RangeBounds
  <2>2. ASSUME b \in Blocks(r) PROVE \E i \in 1..k : b \in Blocks(s[i])
    <3>1. x <= b /\ b < y
      BY <1>1, <2>2, RangeBounds
    <3>2. PICK o \in Nat : o = b - x /\ o < m
      BY <1>2, <3>1
    <3>3. PICK q \in Nat : q = o \div n
      OBVIOUS
    <3>4. q + 1 \in 1..k /\ q * n <= o /\ o < q * n + n
      BY <1>3, <3>2, <3>3
    <3>5. PICK i \in 1..k : i = q + 1
      BY <3>4
    <3>6. (i - 1) * n = q * n /\ i * n = q * n + n
      BY <3>5
    <3>7. start(s[i]) <= b /\ b < end_exclusive(s[i])
      BY <1>6, <3>1, <3>2, <3>4, <3>6
    <3> QED
      BY <1>6, <3>7, RangeBounds
  <2> QED
    BY <1>7, <2>1, <2>2 DEF Held
<1>9. BlocksOf(Range(s)) = Blocks(r)
  BY <1>7, <1>8, HeldBlocks, RangeBounds
<1>10. ASSUME NEW c \in Range(s) PROVE size(c) <= n
  <2>1. PICK i \in 1..k : c = s[i]
    BY <1>7 DEF Range
  <2>2. x + i * n = x + (i - 1) * n + n
    OBVIOUS
  <2>3. start(c) \in Nat /\ end_exclusive(c) \in Nat
    BY <1>6, <2>1, RangeBounds
  <2> QED
    BY <1>6, <2>1, <2>2, <2>3 DEF size
<1> QED
  BY <1>4, <1>7, <1>9, <1>10

(* BlockRange.split: the halves of a range of more than one block are      *)
(* ranges again and hold exactly its blocks.                               *)
THEOREM HalvesAreExact ==
  ASSUME NEW r \in BlockRange, size(r) > 1
  PROVE  /\ split(r) \in Seq(BlockRange)
         /\ BlocksOf(Range(split(r))) = Blocks(r)
<1>1. PICK x \in Nat, y \in Nat : x = start(r) /\ y = end_exclusive(r) /\ x < y
  BY RangeBounds
<1>2. PICK z \in Nat : z = x + (y - x) \div 2 /\ x < z /\ z < y
  <2>1. y - x \in Nat /\ y - x > 1
    BY <1>1 DEF size
  <2> QED
    BY <2>1
<1>3. z = Middle(r)
  BY <1>1, <1>2 DEF Middle, size
<1>4. PICK low \in BlockRange : low = <<x, z>> /\ start(low) = x /\ end_exclusive(low) = z
  <2>1. start(<<x, z>>) = x /\ end_exclusive(<<x, z>>) = z
    BY DEF start, end_exclusive
  <2>2. <<x, z>> \in BlockRange
    BY <1>2, <2>1 DEF BlockRange
  <2> QED
    BY <2>1, <2>2
<1>5. PICK high \in BlockRange : high = <<z, y>> /\ start(high) = z /\ end_exclusive(high) = y
  <2>1. start(<<z, y>>) = z /\ end_exclusive(<<z, y>>) = y
    BY DEF start, end_exclusive
  <2>2. <<z, y>> \in BlockRange
    BY <1>2, <2>1 DEF BlockRange
  <2> QED
    BY <2>1, <2>2
<1>6. PICK s : s = <<low, high>>
  OBVIOUS
<1>7. s = split(r)
  BY <1>1, <1>3, <1>4, <1>5, <1>6, Zenon DEF split
<1>8. s \in Seq(BlockRange) /\ Len(s) = 2 /\ s[1] = low /\ s[2] = high
  BY <1>6
<1>9. ASSUME NEW b \in Nat PROVE Held(s, b) <=> b \in Blocks(r)
  <2>1. Held(s, b) <=> b \in Blocks(low) \/ b \in Blocks(high)
    <3>1. \A i : i \in 1..2 <=> i = 1 \/ i = 2
      OBVIOUS
    <3>2. Held(s, b) <=> \E i \in 1..2 : b \in Blocks(s[i])
      BY <1>8 DEF Held
    <3> QED
      BY <1>8, <3>1, <3>2
  <2>2. /\ b \in Blocks(low) <=> x <= b /\ b < z
        /\ b \in Blocks(high) <=> z <= b /\ b < y
        /\ b \in Blocks(r) <=> x <= b /\ b < y
    BY <1>1, <1>4, <1>5, RangeBounds
  <2> QED
    BY <1>2, <2>1, <2>2
<1>10. BlocksOf(Range(s)) = Blocks(r)
  BY <1>8, <1>9, HeldBlocks, RangeBounds
<1> QED
  BY <1>7, <1>8, <1>10

(* What a sequence of ranges holds, in its head, its tail and its parts. *)
LEMMA TailHolds ==
  ASSUME NEW s \in Seq(BlockRange), s # <<>>
  PROVE  /\ Head(s) \in BlockRange /\ Tail(s) \in Seq(BlockRange)
         /\ \A b : Held(s, b) <=> b \in Blocks(Head(s)) \/ Held(Tail(s), b)
<1>1. PICK n \in Nat : n = Len(s) /\ n > 0
  BY EmptySeq
<1>2. PICK t \in Seq(BlockRange) : t = Tail(s)
  BY HeadTailProperties
<1>3. Len(t) = n - 1 /\ \A i \in 1..(n - 1) : t[i] = s[i + 1]
  BY <1>1, <1>2
<1>4. Head(s) = s[1] /\ s[1] \in BlockRange
  BY <1>1
<1>5. ASSUME NEW b PROVE Held(s, b) <=> b \in Blocks(Head(s)) \/ Held(t, b)
  <2>1. Held(s, b) <=> \E i \in 1..n : b \in Blocks(s[i])
    BY <1>1 DEF Held
  <2>2. Held(t, b) <=> \E i \in 1..(n - 1) : b \in Blocks(s[i + 1])
    BY <1>3 DEF Held
  <2>3. ASSUME NEW i \in 1..n PROVE i = 1 \/ \E j \in 1..(n - 1) : i = j + 1
    <3>1. i # 1 => i - 1 \in 1..(n - 1) /\ i = (i - 1) + 1
      OBVIOUS
    <3> QED
      BY <3>1
  <2>4. 1 \in 1..n /\ \A j \in 1..(n - 1) : j + 1 \in 1..n
    BY <1>1
  <2> QED
    BY <1>4, <2>1, <2>2, <2>3, <2>4
<1> QED
  BY <1>2, <1>4, <1>5

(* A concatenation holds the blocks of both lists. *)
LEMMA ConcatHolds ==
  ASSUME NEW s \in Seq(BlockRange), NEW t \in Seq(BlockRange)
  PROVE  /\ s \o t \in Seq(BlockRange)
         /\ \A b : Held(s \o t, b) <=> Held(s, b) \/ Held(t, b)
<1>1. PICK m \in Nat, n \in Nat : m = Len(s) /\ n = Len(t)
  OBVIOUS
<1>2. PICK u \in Seq(BlockRange) : u = s \o t
  BY ConcatProperties
<1>3. /\ Len(u) = m + n
      /\ \A i \in 1..m : u[i] = s[i]
      /\ \A i \in 1..n : u[m + i] = t[i]
  BY <1>1, <1>2
<1>4. ASSUME NEW b PROVE Held(u, b) <=> Held(s, b) \/ Held(t, b)
  <2>1. Held(u, b) <=> \E i \in 1..(m + n) : b \in Blocks(u[i])
    BY <1>3 DEF Held
  <2>2. Held(s, b) <=> \E i \in 1..m : b \in Blocks(u[i])
    BY <1>1, <1>3 DEF Held
  <2>3. Held(t, b) <=> \E i \in 1..n : b \in Blocks(u[m + i])
    BY <1>1, <1>3 DEF Held
  <2>4. ASSUME NEW i \in 1..(m + n) PROVE i \in 1..m \/ \E j \in 1..n : i = m + j
    <3>1. i \notin 1..m => i - m \in 1..n /\ i = m + (i - m)
      OBVIOUS
    <3> QED
      BY <3>1
  <2>5. /\ \A i \in 1..m : i \in 1..(m + n)
        /\ \A i \in 1..n : m + i \in 1..(m + n)
    OBVIOUS
  <2> QED
    BY <2>1, <2>2, <2>3, <2>4, <2>5
<1> QED
  BY <1>2, <1>4

-----------------------------------------------------------------------------
(* Together, what the foundations run checks on small stores of ranges,    *)
(* for every required range and every finite set of completed ones: the    *)
(* functions of core/discovery.py that advance relies on lose no block and *)
(* claim none.                                                             *)
THEOREM CoverageIsExact ==
  ASSUME NEW required \in BlockRange,
         NEW completed \in SUBSET BlockRange, IsFiniteSet(completed)
  PROVE  ExactCoverage(required, completed)
<1>1. PICK first \in Nat : first = start(required)
  BY RangeBounds
<1>2. /\ contiguous_frontier(first, completed) \notin BlocksOf(completed)
      /\ first..(contiguous_frontier(first, completed) - 1) \subseteq BlocksOf(completed)
  BY FrontierIsExact
<1>3. /\ Exactly(merge_coverage(completed), BlocksOf(completed))
      /\ Exactly(coverage_gaps(required, completed), Blocks(required) \ BlocksOf(completed))
  BY CoverageIsMerged, GapsAreExact
<1> QED
  BY <1>1, <1>2, <1>3 DEF ExactCoverage

(* What scan_filter reads of a range, in chunks of any size and in halves, *)
(* is the range, and no part of it is empty.                               *)
THEOREM PartsAreExact ==
  ASSUME NEW r \in BlockRange, NEW n \in Nat \ {0}
  PROVE  ExactParts(r, n)
<1>1. PICK cs \in Seq(BlockRange) :
        /\ cs = Chunks(r, n) /\ BlocksOf(Range(cs)) = Blocks(r)
        /\ \A c \in Range(cs) : size(c) <= n
  BY ChunksAreExact
<1>2. \A c \in Range(cs) : c \in BlockRange
  BY HeldBlocks
<1>3. ASSUME size(r) > 1
      PROVE  BlocksOf(Range(split(r))) = Blocks(r) /\ Range(split(r)) \subseteq BlockRange
  <2>1. PICK hs \in Seq(BlockRange) : hs = split(r) /\ BlocksOf(Range(hs)) = Blocks(r)
    BY <1>3, HalvesAreExact
  <2> QED
    BY <2>1, HeldBlocks
<1> QED
  BY <1>1, <1>2, <1>3 DEF ExactParts

-----------------------------------------------------------------------------
(* Finite sums.  SumFunctionOnSet(f, S) takes the elements of S one by one *)
(* in an order that is not known; the lemmas below make it independent of  *)
(* the order, once for all the sums of the collectors.                     *)

(* Induction over a finite set: what holds of the empty set and stays true *)
(* when an element is added holds of the set.                              *)
LEMMA SetInduction ==
  ASSUME NEW S, IsFiniteSet(S), NEW Good \in SUBSET (SUBSET S), {} \in Good,
         \A T \in Good : \A x \in S \ T : T \cup {x} \in Good
  PROVE  S \in Good
<1>1. \A T \in SUBSET S : /\ IsFiniteSet(T) /\ Cardinality(T) \in Nat
                          /\ Cardinality(T) <= Cardinality(S)
  BY FS_Subset, FS_CardinalityType
<1>2. Cardinality(S) \in Nat
  BY FS_CardinalityType
<1> DEFINE Left == {Cardinality(S) - Cardinality(T) : T \in Good}
<1>3. Left \in SUBSET Nat /\ Left # {}
  BY <1>1, <1>2
<1>4. PICK m \in Left : \A k \in Left : m <= k
  BY <1>3, LeastBlock
<1>5. PICK T \in Good : m = Cardinality(S) - Cardinality(T)
  BY <1>4
<1>6. CASE T # S
  <2>1. PICK x \in S : x \notin T
    BY <1>6
  <2>2. T \cup {x} \in Good /\ Cardinality(T \cup {x}) = Cardinality(T) + 1
    BY <1>1, <2>1, FS_AddElement
  <2>3. m <= Cardinality(S) - (Cardinality(T) + 1)
    BY <1>4, <2>2
  <2> QED
    BY <1>1, <1>2, <1>5, <2>3
<1> QED
  BY <1>6

(* The recursion of a fold, and the functions that satisfy it. *)
Picked(s) == CHOOSE x \in s : TRUE
Adds(f, S, it) ==
  \A s \in SUBSET S : it[s] = IF s = {} THEN 0 ELSE f[Picked(s)] + it[s \ {Picked(s)}]
Sums(f, S) == {it \in [SUBSET S -> Int] : Adds(f, S, it)}

(* Taking an element out of a finite set leaves a smaller one. *)
LEMMA SmallerByOne ==
  ASSUME NEW s, IsFiniteSet(s), NEW x \in s
  PROVE  /\ IsFiniteSet(s \ {x}) /\ Cardinality(s) \in Nat
         /\ Cardinality(s \ {x}) \in Nat
         /\ Cardinality(s \ {x}) = Cardinality(s) - 1
BY FS_RemoveElement, FS_CardinalityType

(* Any element will do. *)
LEMMA AnyIsMember ==
  ASSUME NEW s, s # {}
  PROVE  Picked(s) \in s
BY DEF Picked

(* The recursion has a solution: sets of k + 1 elements are summed from    *)
(* those of k.                                                             *)
LEMMA SumsExist ==
  ASSUME NEW S, IsFiniteSet(S), NEW f, \A x \in S : f[x] \in Int
  PROVE  Sums(f, S) # {}
<1> DEFINE Upto(k) == {s \in SUBSET S : Cardinality(s) <= k}
           SolvesUpto(it, k) == \A s \in Upto(k) :
             it[s] = IF s = {} THEN 0 ELSE f[Picked(s)] + it[s \ {Picked(s)}]
           Solved(k) == \E it \in [Upto(k) -> Int] : SolvesUpto(it, k)
           Missing == {k \in Nat : ~Solved(k)}
<1>1. \A s \in SUBSET S : IsFiniteSet(s) /\ Cardinality(s) \in Nat
  BY FS_Subset, FS_CardinalityType
<1>2. \A s \in SUBSET S : s # {} => /\ Picked(s) \in s /\ f[Picked(s)] \in Int
                                    /\ s \ {Picked(s)} \in SUBSET S
                                    /\ Cardinality(s \ {Picked(s)}) = Cardinality(s) - 1
  BY <1>1, AnyIsMember, SmallerByOne
<1>3. \A s \in SUBSET S : Cardinality(s) = 0 <=> s = {}
  BY <1>1, FS_EmptySet
<1>4. Solved(0)
  <2>1. PICK it : it = [s \in Upto(0) |-> 0]
    OBVIOUS
  <2>2. \A s \in Upto(0) : s = {}
    BY <1>1, <1>3
  <2>3. it \in [Upto(0) -> Int] /\ SolvesUpto(it, 0)
    BY <2>1, <2>2
  <2> QED
    BY <2>3
<1>5. ASSUME NEW k \in Nat, Solved(k) PROVE Solved(k + 1)
  <2>1. PICK it \in [Upto(k) -> Int] : SolvesUpto(it, k)
    BY <1>5
  <2>2. PICK new : new = [s \in Upto(k + 1) |-> IF s \in Upto(k) THEN it[s]
                                                ELSE f[Picked(s)] + it[s \ {Picked(s)}]]
    OBVIOUS
  <2>3. ASSUME NEW s \in Upto(k + 1), s # {}
        PROVE  s \ {Picked(s)} \in Upto(k)
    <3>1. PICK c \in Nat : c = Cardinality(s) /\ c <= k + 1
      BY <1>1
    <3>2. s \ {Picked(s)} \in SUBSET S /\ Cardinality(s \ {Picked(s)}) = c - 1
      BY <1>2, <2>3, <3>1
    <3>3. c - 1 <= k
      BY <3>1
    <3> QED
      BY <3>2, <3>3
  <2>4. ASSUME NEW s \in Upto(k + 1), s = {} PROVE s \in Upto(k)
    BY <1>3, <2>4
  <2>5. Upto(k) \subseteq Upto(k + 1)
    BY <1>1
  <2> HIDE DEF Upto
  <2>6. ASSUME NEW s \in Upto(k + 1)
        PROVE  new[s] \in Int /\
               new[s] = IF s = {} THEN 0 ELSE f[Picked(s)] + new[s \ {Picked(s)}]
    <3>0. s \in SUBSET S
      BY DEF Upto
    <3>1. CASE s = {}
      <4>1. s \in Upto(k)
        BY <2>4, <3>1
      <4> QED
        BY <2>1, <2>2, <3>1, <4>1
    <3>2. CASE s # {}
      <4>1. s \ {Picked(s)} \in Upto(k) /\ s \ {Picked(s)} \in Upto(k + 1)
        BY <2>3, <2>5, <3>2
      <4>2. new[s \ {Picked(s)}] = it[s \ {Picked(s)}] /\ it[s \ {Picked(s)}] \in Int
        BY <2>1, <2>2, <4>1
      <4>3. new[s] = f[Picked(s)] + it[s \ {Picked(s)}]
        BY <2>1, <2>2, <3>2
      <4>4. f[Picked(s)] \in Int
        BY <1>2, <3>0, <3>2
      <4> QED
        BY <3>2, <4>2, <4>3, <4>4
    <3> QED
      BY <3>1, <3>2
  <2>7. new \in [Upto(k + 1) -> Int] /\ SolvesUpto(new, k + 1)
    BY <2>2, <2>6
  <2> QED
    BY <2>7
<1> HIDE DEF Solved
<1>6. Missing = {}
  <2> SUFFICES ASSUME Missing # {} PROVE FALSE
    OBVIOUS
  <2>1. PICK k \in Missing : \A j \in Missing : k <= j
    BY LeastBlock
  <2>2. k # 0
    BY <1>4, <2>1
  <2>3. k - 1 \in Nat /\ ~(k - 1 \in Missing) /\ (k - 1) + 1 = k
    BY <2>1, <2>2
  <2> QED
    BY <1>5, <2>1, <2>3
<1>7. Solved(Cardinality(S))
  BY <1>1, <1>6
<1>8. Upto(Cardinality(S)) = SUBSET S
  BY FS_Subset
<1>9. PICK it \in [SUBSET S -> Int] : SolvesUpto(it, Cardinality(S))
  BY <1>7, <1>8 DEF Solved
<1>10. it \in Sums(f, S)
  <2>1. \A s \in SUBSET S : it[s] = IF s = {} THEN 0 ELSE f[Picked(s)] + it[s \ {Picked(s)}]
    BY <1>8, <1>9
  <2> QED
    BY <2>1, <1>9, Zenon DEF Sums, Adds
<1> QED
  BY <1>10

(* Over a part of S it has no other. *)
LEMMA SumsAgree ==
  ASSUME NEW S, IsFiniteSet(S), NEW f, NEW it \in Sums(f, S), NEW s \in SUBSET S,
         NEW h, Adds(f, s, h)
  PROVE  h[s] = it[s]
<1>1. \A u \in SUBSET S : it[u] = IF u = {} THEN 0 ELSE f[Picked(u)] + it[u \ {Picked(u)}]
  BY Zenon DEF Sums, Adds
<1>2. \A u \in SUBSET S : IsFiniteSet(u) /\ Cardinality(u) \in Nat
  BY FS_Subset, FS_CardinalityType
<1> DEFINE Differ == {u \in SUBSET s : h[u] # it[u]}
           Sizes == {Cardinality(u) : u \in Differ}
<1> SUFFICES ASSUME h[s] # it[s] PROVE FALSE
  OBVIOUS
<1>3. Sizes \in SUBSET Nat /\ Sizes # {}
  BY <1>2
<1>4. PICK m \in Sizes : \A k \in Sizes : m <= k
  BY <1>3, LeastBlock
<1>5. PICK u \in Differ : m = Cardinality(u)
  BY <1>4
<1>6. u \in SUBSET s /\ u \in SUBSET S /\ h[u] # it[u]
  BY <1>5
<1>7. CASE u = {}
  BY <1>1, <1>6, <1>7 DEF Adds
<1>8. CASE u # {}
  <2> DEFINE v == u \ {Picked(u)}
  <2>1. Picked(u) \in u /\ v \in SUBSET s /\ v \in SUBSET S
    BY <1>6, <1>8, AnyIsMember
  <2>2. Cardinality(v) = Cardinality(u) - 1 /\ Cardinality(v) \in Nat
        /\ Cardinality(u) \in Nat
    BY <1>2, <1>6, <2>1, SmallerByOne
  <2>3. v \notin Differ
    BY <1>4, <1>5, <2>2
  <2>4. h[v] = it[v]
    BY <2>1, <2>3
  <2>5. h[u] = f[Picked(u)] + h[v] /\ it[u] = f[Picked(u)] + it[v]
    BY <1>1, <1>6, <1>8 DEF Adds
  <2> QED
    BY <1>6, <2>4, <2>5
<1> QED
  BY <1>7, <1>8

(* The sum over a part of S is the solution's value there. *)
LEMMA SumIsSolution ==
  ASSUME NEW S, IsFiniteSet(S), NEW f, NEW it \in Sums(f, S), NEW s \in SUBSET S
  PROVE  SumFunctionOnSet(f, s) = it[s]
<1>1. \A u \in SUBSET S : it[u] = IF u = {} THEN 0 ELSE f[Picked(u)] + it[u \ {Picked(u)}]
  BY Zenon DEF Sums, Adds
<1> DEFINE Iterates(h) ==
      h = [u \in SUBSET s |-> IF u = {} THEN 0 ELSE f[Picked(u)] + h[u \ {Picked(u)}]]
<1>2. PICK g : g = [u \in SUBSET s |-> it[u]]
  OBVIOUS
<1>3. ASSUME NEW u \in SUBSET s
      PROVE  g[u] = IF u = {} THEN 0 ELSE f[Picked(u)] + g[u \ {Picked(u)}]
  <2>1. u \in SUBSET S /\ u \ {Picked(u)} \in SUBSET s
    OBVIOUS
  <2>2. g[u] = it[u] /\ g[u \ {Picked(u)}] = it[u \ {Picked(u)}]
    BY <1>2, <2>1
  <2> QED
    BY <1>1, <2>1, <2>2, Zenon
<1>4. Iterates(g)
  BY <1>2, <1>3
<1>5. PICK h : h = CHOOSE i : Iterates(i)
  OBVIOUS
<1>6. Iterates(h)
  BY <1>4, <1>5, Zenon
<1>7. SumFunctionOnSet(f, s) = h[s]
  BY <1>5 DEF SumFunctionOnSet, FoldFunctionOnSet, MapThenFoldSet, Picked
<1>8. Adds(f, s, h)
  BY <1>6, Zenon DEF Adds
<1> HIDE DEF Iterates
<1>9. h[s] = it[s]
  BY <1>8, SumsAgree
<1> QED
  BY <1>7, <1>9

(* A sum is a number, and any element may be taken first. *)
LEMMA SumOfSet ==
  ASSUME NEW S, IsFiniteSet(S), NEW f, \A x \in S : f[x] \in Int
  PROVE  /\ SumFunctionOnSet(f, {}) = 0
         /\ \A s \in SUBSET S : SumFunctionOnSet(f, s) \in Int
         /\ \A s \in SUBSET S : \A x \in s :
              SumFunctionOnSet(f, s) = f[x] + SumFunctionOnSet(f, s \ {x})
<1>1. PICK it : it \in Sums(f, S)
  BY SumsExist
<1>2. \A s \in SUBSET S : SumFunctionOnSet(f, s) = it[s]
  BY <1>1, SumIsSolution
<1>3. /\ it \in [SUBSET S -> Int]
      /\ \A u \in SUBSET S : it[u] = IF u = {} THEN 0 ELSE f[Picked(u)] + it[u \ {Picked(u)}]
  BY <1>1, Zenon DEF Sums, Adds
<1>4. \A u \in SUBSET S : IsFiniteSet(u) /\ Cardinality(u) \in Nat
  BY FS_Subset, FS_CardinalityType
<1>5. \A u \in SUBSET S : \A x \in u : it[u] = f[x] + it[u \ {x}]
  <2> DEFINE Differ == {u \in SUBSET S : ~(\A x \in u : it[u] = f[x] + it[u \ {x}])}
             Sizes == {Cardinality(u) : u \in Differ}
  <2> SUFFICES ASSUME Differ # {} PROVE FALSE
    OBVIOUS
  <2>1. Sizes \in SUBSET Nat /\ Sizes # {}
    BY <1>4
  <2>2. PICK m \in Sizes : \A k \in Sizes : m <= k
    BY <2>1, LeastBlock
  <2>3. PICK u \in Differ : m = Cardinality(u)
    BY <2>2
  <2>4. u \in SUBSET S /\ \E x \in u : it[u] # f[x] + it[u \ {x}]
    BY <2>3
  <2>5. PICK x \in u : it[u] # f[x] + it[u \ {x}]
    BY <2>4
  <2>6. PICK y \in u : y = Picked(u)
    BY <2>4, AnyIsMember
  <2>7. it[u] = f[y] + it[u \ {y}]
    BY <1>3, <2>4, <2>6
  <2>8. x # y
    BY <2>5, <2>7
  <2> DEFINE v == (u \ {x}) \ {y}
  <2>9. ASSUME NEW z \in u PROVE u \ {z} \in SUBSET S /\ u \ {z} \notin Differ
    <3>1. u \ {z} \in SUBSET S
      BY <2>4
    <3>2. Cardinality(u \ {z}) = Cardinality(u) - 1 /\ Cardinality(u \ {z}) \in Nat
          /\ Cardinality(u) \in Nat
      BY <1>4, <2>4, SmallerByOne
    <3>3. Cardinality(u \ {z}) \notin Sizes
      BY <2>2, <2>3, <3>2
    <3> QED
      BY <3>1, <3>3
  <2>10. it[u \ {x}] = f[y] + it[v]
    <3>1. y \in u \ {x} /\ u \ {x} \in SUBSET S /\ u \ {x} \notin Differ
      BY <2>8, <2>9
    <3> QED
      BY <3>1
  <2>11. it[u \ {y}] = f[x] + it[v]
    <3>1. x \in u \ {y} /\ u \ {y} \in SUBSET S /\ u \ {y} \notin Differ
      BY <2>8, <2>9
    <3>2. (u \ {y}) \ {x} = v
      OBVIOUS
    <3> QED
      BY <3>1, <3>2
  <2>12. f[x] \in Int /\ f[y] \in Int /\ it[v] \in Int
    <3>1. v \in SUBSET S /\ x \in S /\ y \in S
      BY <2>4
    <3> QED
      BY <1>3, <3>1
  <2> QED
    BY <2>5, <2>7, <2>10, <2>11, <2>12
<1>6. it[{}] = 0
  BY <1>3
<1> QED
  BY <1>2, <1>3, <1>5, <1>6

(* Adding an element adds its value. *)
LEMMA SumGrows ==
  ASSUME NEW S, IsFiniteSet(S), NEW f, \A x \in S : f[x] \in Int,
         NEW T \in SUBSET S, NEW x \in S \ T
  PROVE  /\ SumFunctionOnSet(f, T) \in Int /\ f[x] \in Int
         /\ SumFunctionOnSet(f, T \cup {x}) = f[x] + SumFunctionOnSet(f, T)
<1>1. T \cup {x} \in SUBSET S /\ x \in T \cup {x} /\ (T \cup {x}) \ {x} = T
  OBVIOUS
<1>2. SumFunctionOnSet(f, T \cup {x}) = f[x] + SumFunctionOnSet(f, (T \cup {x}) \ {x})
  BY <1>1, SumOfSet
<1> QED
  BY <1>1, <1>2, SumOfSet

(* A sum depends on the values on its set only, and is linear in them. *)
LEMMA SumIsLinear ==
  ASSUME NEW S, IsFiniteSet(S), NEW f, NEW g, NEW h, NEW d \in Int,
         \A x \in S : f[x] \in Int /\ g[x] \in Int /\ h[x] = f[x] + d * g[x]
  PROVE  SumFunctionOnSet(h, S) = SumFunctionOnSet(f, S) + d * SumFunctionOnSet(g, S)
<1> DEFINE Linear(T) ==
      SumFunctionOnSet(h, T) = SumFunctionOnSet(f, T) + d * SumFunctionOnSet(g, T)
           Good == {T \in SUBSET S : Linear(T)}
<1>0. \A x \in S : h[x] \in Int
  OBVIOUS
<1>1. \A x \in S : f[x] \in Int
  OBVIOUS
<1>2. \A x \in S : g[x] \in Int
  OBVIOUS
<1>3. {} \in Good
  <2>1. SumFunctionOnSet(h, {}) = 0 /\ SumFunctionOnSet(f, {}) = 0
        /\ SumFunctionOnSet(g, {}) = 0
    BY <1>0, <1>1, <1>2, SumOfSet
  <2> QED
    BY <2>1
<1>4. ASSUME NEW T \in Good, NEW x \in S \ T PROVE T \cup {x} \in Good
  <2>1. T \in SUBSET S /\ Linear(T) /\ T \cup {x} \in SUBSET S
    OBVIOUS
  <2> HIDE DEF Good
  <2>2. /\ SumFunctionOnSet(f, T) \in Int /\ f[x] \in Int
        /\ SumFunctionOnSet(f, T \cup {x}) = f[x] + SumFunctionOnSet(f, T)
    <3>1. SumFunctionOnSet(f, T) \in Int
      BY <1>1, <2>1, SumOfSet
    <3>2. f[x] \in Int
      BY <1>1
    <3>3. SumFunctionOnSet(f, T \cup {x}) = f[x] + SumFunctionOnSet(f, T)
      BY <1>1, <2>1, SumGrows
    <3> QED
      BY <3>1, <3>2, <3>3
  <2>3. /\ SumFunctionOnSet(g, T) \in Int /\ g[x] \in Int
        /\ SumFunctionOnSet(g, T \cup {x}) = g[x] + SumFunctionOnSet(g, T)
    <3>1. SumFunctionOnSet(g, T) \in Int
      BY <1>2, <2>1, SumOfSet
    <3>2. g[x] \in Int
      BY <1>2
    <3>3. SumFunctionOnSet(g, T \cup {x}) = g[x] + SumFunctionOnSet(g, T)
      BY <1>2, <2>1, SumGrows
    <3> QED
      BY <3>1, <3>2, <3>3
  <2>4. /\ SumFunctionOnSet(h, T) \in Int /\ h[x] \in Int
        /\ SumFunctionOnSet(h, T \cup {x}) = h[x] + SumFunctionOnSet(h, T)
    <3>1. SumFunctionOnSet(h, T) \in Int
      BY <1>0, <2>1, SumOfSet
    <3>2. h[x] \in Int
      BY <1>0
    <3>3. SumFunctionOnSet(h, T \cup {x}) = h[x] + SumFunctionOnSet(h, T)
      BY <1>0, <2>1, SumGrows
    <3> QED
      BY <3>1, <3>2, <3>3
  <2>5. h[x] = f[x] + d * g[x]
    OBVIOUS
  <2>6. d * (g[x] + SumFunctionOnSet(g, T)) = d * g[x] + d * SumFunctionOnSet(g, T)
    BY <2>3
  <2>7. Linear(T \cup {x})
    BY <2>1, <2>2, <2>3, <2>4, <2>5, <2>6
  <2> QED
    BY <2>1, <2>7 DEF Good
<1> HIDE DEF Linear
<1>5. S \in Good
  BY <1>3, <1>4, SetInduction
<1> QED
  BY <1>5 DEF Linear

(* A sum depends on the values on its set only. *)
LEMMA SumCongruence ==
  ASSUME NEW S, IsFiniteSet(S), NEW f, NEW g,
         \A x \in S : f[x] \in Int /\ g[x] = f[x]
  PROVE  SumFunctionOnSet(g, S) = SumFunctionOnSet(f, S)
<1>1. \A x \in S : f[x] \in Int /\ f[x] \in Int /\ g[x] = f[x] + 0 * f[x]
  OBVIOUS
<1>2. SumFunctionOnSet(g, S) = SumFunctionOnSet(f, S) + 0 * SumFunctionOnSet(f, S)
  BY <1>1, SumIsLinear
<1>3. SumFunctionOnSet(f, S) \in Int
  BY SumOfSet
<1> QED
  BY <1>2, <1>3

(* A sum over a set is the sum over a part of it and over the rest. *)
LEMMA SumSplits ==
  ASSUME NEW S, IsFiniteSet(S), NEW f, \A x \in S : f[x] \in Int, NEW A \in SUBSET S
  PROVE  SumFunctionOnSet(f, S) = SumFunctionOnSet(f, A) + SumFunctionOnSet(f, S \ A)
<1>0. S \ A \in SUBSET S /\ IsFiniteSet(S \ A) /\ SumFunctionOnSet(f, A) \in Int
  BY FS_Subset, SumOfSet
<1> DEFINE Joins(T) == SumFunctionOnSet(f, A \cup T)
                        = SumFunctionOnSet(f, A) + SumFunctionOnSet(f, T)
           Good == {T \in SUBSET (S \ A) : Joins(T)}
<1>1. {} \in Good
  <2>1. A \cup {} = A /\ SumFunctionOnSet(f, {}) = 0
    BY SumOfSet
  <2> QED
    BY <1>0, <2>1
<1>2. ASSUME NEW T \in Good, NEW x \in (S \ A) \ T PROVE T \cup {x} \in Good
  <2>1. T \in SUBSET S /\ Joins(T) /\ x \in S \ T /\ T \in SUBSET (S \ A)
    OBVIOUS
  <2> HIDE DEF Good
  <2>2. A \cup T \in SUBSET S /\ x \in S \ (A \cup T) /\ A \cup (T \cup {x}) = (A \cup T) \cup {x}
    BY <2>1
  <2>3. SumFunctionOnSet(f, T \cup {x}) = f[x] + SumFunctionOnSet(f, T)
    BY <2>1, SumGrows
  <2>4. SumFunctionOnSet(f, T) \in Int
    BY <2>1, SumOfSet
  <2>5. f[x] \in Int
    BY <2>1
  <2>6. SumFunctionOnSet(f, (A \cup T) \cup {x}) = f[x] + SumFunctionOnSet(f, A \cup T)
    BY <2>2, SumGrows
  <2>7. Joins(T \cup {x})
    <3>1. SumFunctionOnSet(f, A \cup (T \cup {x})) = f[x] + SumFunctionOnSet(f, A \cup T)
      BY <2>2, <2>6
    <3>2. SumFunctionOnSet(f, A \cup T)
            = SumFunctionOnSet(f, A) + SumFunctionOnSet(f, T)
      BY <2>1
    <3>3. SumFunctionOnSet(f, A) \in Int
      BY <1>0
    <3> QED
      BY <2>3, <2>4, <2>5, <3>1, <3>2, <3>3
  <2>8. T \cup {x} \in SUBSET (S \ A)
    BY <2>1
  <2> QED
    BY <2>7, <2>8 DEF Good
<1> HIDE DEF Joins
<1>3. S \ A \in Good
  <2>1. PICK R : R = S \ A /\ IsFiniteSet(R)
    BY <1>0
  <2>2. Good \in SUBSET (SUBSET R)
    BY <2>1
  <2>3. \A T \in Good : \A x \in R \ T : T \cup {x} \in Good
    BY <1>2, <2>1
  <2> HIDE DEF Good
  <2>4. R \in Good
    BY <1>1, <2>1, <2>2, <2>3, SetInduction
  <2> QED
    BY <2>1, <2>4
<1>4. A \cup (S \ A) = S
  OBVIOUS
<1> QED
  BY <1>3, <1>4 DEF Joins

(* A sum of naturals is none less than one of its values. *)
LEMMA SumOfNaturals ==
  ASSUME NEW S, IsFiniteSet(S), NEW f, \A x \in S : f[x] \in Nat
  PROVE  /\ SumFunctionOnSet(f, S) \in Nat
         /\ \A x \in S : f[x] <= SumFunctionOnSet(f, S)
<1> DEFINE Good == {T \in SUBSET S : SumFunctionOnSet(f, T) >= 0}
<1>0. \A x \in S : f[x] \in Int
  OBVIOUS
<1>1. {} \in Good
  BY <1>0, SumOfSet
<1>2. ASSUME NEW T \in Good, NEW x \in S \ T PROVE T \cup {x} \in Good
  <2>1. T \in SUBSET S /\ SumFunctionOnSet(f, T) >= 0 /\ T \cup {x} \in SUBSET S
        /\ f[x] \in Nat
    OBVIOUS
  <2>2. /\ SumFunctionOnSet(f, T) \in Int
        /\ SumFunctionOnSet(f, T \cup {x}) = f[x] + SumFunctionOnSet(f, T)
    BY <1>0, <2>1, SumGrows
  <2>3. SumFunctionOnSet(f, T \cup {x}) >= 0
    BY <2>1, <2>2
  <2> QED
    BY <2>1, <2>3
<1>3. ASSUME NEW T \in SUBSET S PROVE SumFunctionOnSet(f, T) \in Nat
  <2>1. IsFiniteSet(T)
    BY FS_Subset
  <2> DEFINE GoodT == {U \in SUBSET T : SumFunctionOnSet(f, U) >= 0}
  <2>2. {} \in GoodT
    BY <1>1
  <2>3. ASSUME NEW U \in GoodT, NEW x \in T \ U PROVE U \cup {x} \in GoodT
    BY <1>2
  <2>4. T \in GoodT
    BY <2>1, <2>2, <2>3, SetInduction
  <2>5. SumFunctionOnSet(f, T) \in Int
    BY <1>0, SumOfSet
  <2> QED
    BY <2>4, <2>5
<1>4. ASSUME NEW x \in S PROVE f[x] <= SumFunctionOnSet(f, S)
  <2>1. SumFunctionOnSet(f, S) = f[x] + SumFunctionOnSet(f, S \ {x})
    BY <1>0, SumOfSet
  <2>2. SumFunctionOnSet(f, S \ {x}) \in Nat /\ f[x] \in Nat
    BY <1>3
  <2> QED
    BY <2>1, <2>2
<1> QED
  BY <1>3, <1>4

(* The elements of S whose key is in T. *)
Keyed(S, key, T) == {x \in S : key[x] \in T}

(* g is at each key of U the sum of f over the elements with that key. *)
Grouped(g, f, S, key, U) ==
  \A u \in U : g[u] = SumFunctionOnSet(f, Keyed(S, key, {u}))

(* Summed by key, and then over the keys. *)
LEMMA SumByKey ==
  ASSUME NEW S, IsFiniteSet(S), NEW f, \A x \in S : f[x] \in Int,
         NEW key, NEW U, IsFiniteSet(U), NEW g,
         Grouped(g, f, S, key, U)
  PROVE  SumFunctionOnSet(g, U) = SumFunctionOnSet(f, Keyed(S, key, U))
<1> DEFINE Of(T) == Keyed(S, key, T)
           Agrees(T) == SumFunctionOnSet(g, T) = SumFunctionOnSet(f, Of(T))
           Good == {T \in SUBSET U : Agrees(T)}
<1>0. \A u \in U : g[u] \in Int
  <2>1. \A u \in U : Keyed(S, key, {u}) \in SUBSET S
    BY DEF Keyed
  <2>2. \A s \in SUBSET S : SumFunctionOnSet(f, s) \in Int
    BY SumOfSet
  <2> QED
    BY <2>1, <2>2 DEF Grouped
<1>1. {} \in Good
  <2>1. Of({}) = {}
    BY DEF Keyed
  <2>2. SumFunctionOnSet(g, {}) = 0 /\ SumFunctionOnSet(f, {}) = 0
    BY <1>0, SumOfSet
  <2> QED
    BY <2>1, <2>2
<1>2. ASSUME NEW T \in Good, NEW u \in U \ T PROVE T \cup {u} \in Good
  <2>1. T \in SUBSET U /\ Agrees(T) /\ T \cup {u} \in SUBSET U
    OBVIOUS
  <2>2. SumFunctionOnSet(g, T \cup {u}) = g[u] + SumFunctionOnSet(g, T)
    BY <1>0, <2>1, SumGrows
  <2> DEFINE one == Keyed(S, key, {u})
  <2>3. /\ Of(T \cup {u}) \in SUBSET S /\ one \in SUBSET Of(T \cup {u})
        /\ Of(T \cup {u}) \ one = Of(T)
    BY DEF Keyed
  <2>4. IsFiniteSet(Of(T \cup {u}))
    BY <2>3, FS_Subset
  <2>5. \A x \in Of(T \cup {u}) : f[x] \in Int
    BY <2>3
  <2>6. g[u] = SumFunctionOnSet(f, one)
    BY DEF Grouped
  <2> HIDE DEF Of, one
  <2>7. SumFunctionOnSet(f, Of(T \cup {u}))
          = SumFunctionOnSet(f, one) + SumFunctionOnSet(f, Of(T \cup {u}) \ one)
    BY <2>3, <2>4, <2>5, SumSplits
  <2>8. Agrees(T \cup {u})
    BY <2>1, <2>2, <2>3, <2>6, <2>7
  <2> QED
    BY <2>1, <2>8
<1> HIDE DEF Agrees
<1>3. U \in Good
  BY <1>1, <1>2, SetInduction
<1> QED
  BY <1>3 DEF Agrees
=============================================================================
