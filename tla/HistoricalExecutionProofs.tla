--------------------- MODULE HistoricalExecutionProofs ---------------------
(***************************************************************************)
(* Proofs about pinned executions, for every pool of endpoints, every      *)
(* number of calls, batch size and parallelism, and every bound on the     *)
(* retries.                                                                *)
(***************************************************************************)
EXTENDS HistoricalExecution, SequenceTheorems, FiniteSetTheorems, TLAPS

USE DEF poolVars

-----------------------------------------------------------------------------
(* The invariants.  What a batch knows is a record, so that its parts are  *)
(* predicates on a record t, on whether Multicall3 is in use (m) and on    *)
(* the endpoints that failed their probes (barred).                        *)

Barred == {e \in Names : health[e] = "barred"}

(* The calls batch g is responsible for. *)
Batches(m) == IF m THEN Groups ELSE {1}
Part(m, g) == IF m THEN Group(g) ELSE <<1, NCalls>>

Segments == {s \in (1..NCalls) \X (1..NCalls) : s[1] <= s[2]}
Task == [pc : States, todo : Seq(Segments), out : Seq(Results),
         at : Names \cup {None}, tried : SUBSET Names, refuted : SUBSET Names,
         attempt : 0..max_retries, round : 0..max_retries,
         fallback : Names \cup {None}, members : SUBSET Names,
         nested : 0..NCalls, body : Seq(Results)]

(* The segments follow each other from call lo on, and end with call hi. *)
Covers(todo, lo, hi) ==
  /\ todo = <<>> => lo = hi + 1
  /\ todo # <<>> => todo[1][1] = lo /\ todo[Len(todo)][2] = hi
  /\ \A i \in 1..(Len(todo) - 1) : todo[i + 1][1] = todo[i][2] + 1

(* Results of the calls from lo on, each the state at the anchor. *)
Good(body, lo) ==
  \A i \in 1..Len(body) :
    body[i] \in {<<lo + i - 1, Failed>>, <<lo + i - 1, Value[Anchor][lo + i - 1]>>}

(* A batch asks only whom it may: the parts of AskedIsTrusted, and what    *)
(* keeps the endpoint that is asked again within them.                     *)
Trusted(t, m, barred) ==
  /\ t.pc = "ask" => /\ t.at \in Names \ (t.refuted \cup barred)
                     /\ t.attempt < max_retries
                     /\ ~m => t.at \in Eip1898
  /\ t.fallback # None => t.fallback \in Names \ (t.refuted \cup barred)
  /\ ~m => t.refuted = {} /\ t.fallback = None
  /\ t.pc = "quorum" => ~m /\ t.members \cap Steady # {}

(* What was delivered and what is still to do are the calls of the batch,  *)
(* in order, and an escalation works on results of the current segment.    *)
InOrder(t, m, g) ==
  /\ Covers(t.todo, Part(m, g)[1] + Len(t.out), Part(m, g)[2])
  /\ Good(t.out, Part(m, g)[1])
  /\ t.nested # 0 => /\ t.todo # <<>>
                     /\ t.nested \in Head(t.todo)[1]..Head(t.todo)[2]
                     /\ Len(t.body) = Length(Head(t.todo))
                     /\ Good(t.body, Head(t.todo)[1])

BatchSound(t, m, g, barred) ==
  /\ t \in Task
  /\ t.pc \in {"done", "cancelled"} <=> t.todo = <<>>
  /\ Trusted(t, m, barred)
  /\ t.pc # "cancelled" => InOrder(t, m, g)

(* The inductive strengthening of TypeOK and AskedIsTrusted. *)
ExecutionSound ==
  /\ PoolTypeOK
  /\ number \in Numbers
  /\ status \in {"running", "returned", "raised"}
  /\ results \in Seq(Results)
  /\ DOMAIN task = Batches(uses_multicall)
  /\ task = [g \in Batches(uses_multicall) |-> task[g]]
  /\ \A g \in Batches(uses_multicall) :
       /\ BatchSound(task[g], uses_multicall, g, Barred)
       /\ status # "raised" => task[g].pc # "cancelled"
  /\ status = "running" => results = <<>>

-----------------------------------------------------------------------------
(* Numbers and the pool.                                                   *)

(* A set of naturals that is not empty has a least element. *)
LEMMA LeastNatural ==
  ASSUME NEW S \in SUBSET Nat, S # {}
  PROVE  \E m \in S : \A n \in S : m <= n
<1>1. PICK m \in S : \A n \in S : ~(<<n, m>> \in OpToRel(<, Nat))
  BY NatLessThanWellFounded, WFMin
<1>2. \A n \in S : ~(n < m)
  BY <1>1 DEF OpToRel
<1> QED
  BY <1>2

(* The cursor's arithmetic around the end of the endpoint list. *)
LEMMA SmallRemainder ==
  ASSUME NEW n \in Nat \ {0}, NEW x \in 0..(n - 1)
  PROVE  x % n = x /\ (x + n) % n = x
OBVIOUS

(* The pool lists every endpoint. *)
LEMMA PoolSequence ==
  /\ Count \in Nat \ {0} /\ Endpoints \in Seq(Names) /\ Len(Endpoints) = Count
  /\ \A i \in 1..Count : Endpoints[i] \in Names
  /\ \A e \in Names : \E i \in 1..Count : Endpoints[i] = e
BY PoolConstants DEF Count, Names

(* select finds a candidate when there is one, and the cursor stays in the *)
(* pool.                                                                   *)
LEMMA SelectedIsCandidate ==
  ASSUME PoolTypeOK, NEW C \in SUBSET Names, C # {}
  PROVE  Selected(C) \in C /\ CursorAfter(C) \in 0..(Count - 1)
<1> DEFINE Hits == {o \in 0..(Count - 1) : Endpoints[Rotated(o) + 1] \in C}
<1>1. PICK i \in 1..Count : Endpoints[i] \in C
  BY PoolSequence
<1>2. cursor \in 0..(Count - 1) /\ Count \in Nat \ {0}
  BY PoolSequence DEF PoolTypeOK
<1>3. Hits # {}
  <2>1. CASE i - 1 >= cursor
    <3>1. i - 1 - cursor \in 0..(Count - 1) /\ cursor + (i - 1 - cursor) = i - 1
          /\ i - 1 \in 0..(Count - 1)
      BY <1>2, <2>1
    <3>2. Rotated(i - 1 - cursor) = i - 1
      BY <1>2, <3>1, SmallRemainder DEF Rotated
    <3>3. i - 1 + 1 = i
      OBVIOUS
    <3> QED
      BY <1>1, <3>1, <3>2, <3>3
  <2>2. CASE ~(i - 1 >= cursor)
    <3>1. i - 1 - cursor + Count \in 0..(Count - 1)
          /\ cursor + (i - 1 - cursor + Count) = (i - 1) + Count
          /\ i - 1 \in 0..(Count - 1)
      BY <1>2, <2>2
    <3>2. Rotated(i - 1 - cursor + Count) = i - 1
      BY <1>2, <3>1, SmallRemainder DEF Rotated
    <3>3. i - 1 + 1 = i
      OBVIOUS
    <3> QED
      BY <1>1, <3>1, <3>2, <3>3
  <2> QED
    BY <2>1, <2>2
<1>4. PICK o \in Hits : \A p \in Hits : o <= p
  <2>1. Hits \in SUBSET Nat
    BY <1>2
  <2> QED
    BY <1>3, <2>1, LeastNatural
<1>5. /\ o \in 0..(Count - 1) /\ Endpoints[Rotated(o) + 1] \in C
      /\ \A p \in 0..(o - 1) : Endpoints[Rotated(p) + 1] \notin C
  BY <1>2, <1>4
<1>6. /\ FirstOffset(C) \in 0..(Count - 1)
      /\ Endpoints[Rotated(FirstOffset(C)) + 1] \in C
  BY <1>5 DEF FirstOffset
<1>7. Rotated(FirstOffset(C)) \in 0..(Count - 1)
  BY <1>2, <1>6 DEF Rotated
<1>8. (Rotated(FirstOffset(C)) + 1) % Count \in 0..(Count - 1)
  BY <1>2, <1>7
<1> QED
  BY <1>6, <1>8 DEF Selected, CursorAfter

(* A hash-pinned endpoint that passed its probes is strict. *)
LEMMA PinnedIsStrict ==
  ASSUME NEW e \in Eip1898
  PROVE  hash_policy[e] = "strict" /\ e \in Names
BY PoolConstants DEF Eip1898, probe_eip1898, canonical_call_works, bogus_call_fails

(* What is reported never bars an endpoint and never clears one. *)
LEMMA ReportsKeepBarred ==
  ASSUME PoolTypeOK, NEW e \in Names \ Barred,
         \/ record_success(e)
         \/ \E kind \in FailureKinds : record_failure(e, kind),
         cursor' = cursor
  PROVE  PoolTypeOK' /\ Barred' = Barred
<1>1. health' \in {health, [health EXCEPT ![e] = "ok"], [health EXCEPT ![e] = "cooling"]}
      /\ archived' \in {archived, archived \cup {e}}
  BY DEF record_success, record_failure
<1>2. health' \in [Names -> Healths] /\ archived' \in SUBSET Names
  BY <1>1 DEF PoolTypeOK, Healths
<1>3. \A d \in Names : health'[d] = "barred" <=> health[d] = "barred"
  BY <1>1 DEF PoolTypeOK, Barred
<1> QED
  BY <1>2, <1>3 DEF PoolTypeOK, Barred

(* A quorum has a steady member: its members are of as many groups. *)
LEMMA QuorumIsSteady ==
  ASSUME NEW block, Cardinality(QuorumMembers(quorum, block)) = quorum
  PROVE  /\ QuorumMembers(quorum, block) \in SUBSET Names
         /\ QuorumMembers(quorum, block) \cap Steady # {}
<1> DEFINE M == QuorumMembers(quorum, block)
           G == {provider_group[e] : e \in M}
           f == [e \in M |-> provider_group[e]]
<1>1. M \in SUBSET Names
  BY PoolSequence DEF QuorumMembers, GroupLeaders
<1>2. ASSUME NEW d \in M, NEW e \in M, provider_group[d] = provider_group[e]
      PROVE  d = e
  <2>1. PICK i \in 1..Count :
          /\ Endpoints[i] = d /\ can_serve(Endpoints[i], block)
          /\ \A k \in 1..(i - 1) : can_serve(Endpoints[k], block) =>
               provider_group[Endpoints[k]] # provider_group[Endpoints[i]]
    BY DEF QuorumMembers, GroupLeaders
  <2>2. PICK j \in 1..Count :
          /\ Endpoints[j] = e /\ can_serve(Endpoints[j], block)
          /\ \A k \in 1..(j - 1) : can_serve(Endpoints[k], block) =>
               provider_group[Endpoints[k]] # provider_group[Endpoints[j]]
    BY DEF QuorumMembers, GroupLeaders
  <2>3. i = j \/ i \in 1..(j - 1) \/ j \in 1..(i - 1)
    BY PoolSequence
  <2> QED
    BY <1>2, <2>1, <2>2, <2>3
<1>3. IsFiniteSet(M)
  <2>1. M \in SUBSET Names /\ IsFiniteSet(Names)
    <3>1. IsFiniteSet(1..Count)
      BY PoolSequence, FS_Interval
    <3>2. [i \in 1..Count |-> Endpoints[i]] \in Surjection(1..Count, Names)
      BY PoolSequence DEF Surjection
    <3> QED
      BY <1>1, <3>1, <3>2, FS_Surjection
  <2> QED
    BY <2>1, FS_Subset
<1>4. f \in Surjection(M, G) /\ f \in Injection(M, G)
  BY <1>2 DEF Surjection, Injection, IsInjective
<1> HIDE DEF M, G, f
<1>5. Cardinality(G) = Cardinality(M)
  BY <1>3, <1>4, FS_Surjection
<1>6. Cardinality({provider_group[e] : e \in M}) >= quorum
  BY <1>5, ExecutionConstants DEF G, M
<1> QED
  BY <1>1, <1>6, QuorumHonest DEF M

-----------------------------------------------------------------------------
(* Segments and results.                                                   *)

(* What a segment returns on a block: one result per call. *)
LEMMA BodiesAreResults ==
  ASSUME NEW s \in Segments, NEW b \in Blocks, NEW body \in Bodies(s, b)
  PROVE  /\ body \in Seq(Results) /\ Len(body) = Length(s)
         /\ \A i \in 1..Length(s) :
              body[i] \in {<<s[1] + i - 1, Failed>>, <<s[1] + i - 1, Value[b][s[1] + i - 1]>>}
<1>1. Length(s) \in Nat /\ s[1] \in 1..NCalls /\ s[2] \in 1..NCalls
  BY ExecutionConstants DEF Segments, Length
<1>2. PICK u : /\ body = [i \in 1..Length(s) |-> <<s[1] + i - 1, u[i]>>]
               /\ u \in [1..Length(s) -> {Failed} \cup {Value[b][c] : c \in 1..NCalls}]
               /\ \A i \in DOMAIN u : u[i] = Value[b][s[1] + i - 1]
                                      \/ (s[1] + i - 1 \in Fragile /\ u[i] = Failed)
  BY DEF Bodies
<1>3. ASSUME NEW i \in 1..Length(s)
      PROVE  /\ body[i] = <<s[1] + i - 1, u[i]>>
             /\ u[i] \in {Failed, Value[b][s[1] + i - 1]}
             /\ s[1] + i - 1 \in 1..NCalls
  <2>1. body[i] = <<s[1] + i - 1, u[i]>> /\ i \in DOMAIN u
    BY <1>2
  <2>2. u[i] \in {Failed, Value[b][s[1] + i - 1]}
    BY <1>2, <2>1
  <2>3. i <= s[2] - s[1] + 1 /\ i >= 1 /\ i \in Int
    BY <1>1 DEF Length
  <2>4. s[1] + i - 1 \in 1..NCalls
    BY <1>1, <2>3, ExecutionConstants
  <2> QED
    BY <2>1, <2>2, <2>4
<1>4. ASSUME NEW i \in 1..Length(s) PROVE body[i] \in Results
  <2> DEFINE V == {Failed} \cup {Value[x][c] : x \in Blocks, c \in 1..NCalls}
  <2>1. u[i] \in V /\ Results = (1..NCalls) \X V
    BY <1>3 DEF Results
  <2> HIDE DEF V
  <2>2. body[i] = <<s[1] + i - 1, u[i]>> /\ s[1] + i - 1 \in 1..NCalls
    BY <1>3
  <2>3. PICK c \in 1..NCalls : c = s[1] + i - 1
    BY <2>2
  <2>4. <<c, u[i]>> \in (1..NCalls) \X V
    BY <2>1
  <2> QED
    BY <2>1, <2>2, <2>3, <2>4
<1>5. body \in [1..Length(s) -> Results]
  BY <1>2, <1>4
<1>6. body \in Seq(Results)
  BY <1>1, <1>5, SeqDef
<1>7. Len(body) = Length(s)
  BY <1>1, <1>5, <1>6, LenProperties
<1> QED
  BY <1>3, <1>6, <1>7

(* At the anchor they are good. *)
LEMMA AnchoredBodyIsGood ==
  ASSUME NEW s \in Segments, NEW body \in Bodies(s, Anchor)
  PROVE  body \in Seq(Results) /\ Len(body) = Length(s) /\ Good(body, s[1])
BY BodiesAreResults, ExecutionConstants DEF Good

(* Good results of two adjoining segments are good results. *)
LEMMA GoodJoins ==
  ASSUME NEW a \in Seq(Results), NEW b \in Seq(Results), NEW lo \in Nat,
         Good(a, lo), Good(b, lo + Len(a))
  PROVE  a \o b \in Seq(Results) /\ Len(a \o b) = Len(a) + Len(b) /\ Good(a \o b, lo)
<1>1. /\ a \o b \in Seq(Results) /\ Len(a \o b) = Len(a) + Len(b)
      /\ \A i \in 1..(Len(a) + Len(b)) :
           (a \o b)[i] = IF i <= Len(a) THEN a[i] ELSE b[i - Len(a)]
  BY ConcatProperties
<1>2. ASSUME NEW i \in 1..(Len(a) + Len(b))
      PROVE  (a \o b)[i] \in {<<lo + i - 1, Failed>>,
                              <<lo + i - 1, Value[Anchor][lo + i - 1]>>}
  <2>1. CASE i <= Len(a)
    BY <1>1, <2>1 DEF Good
  <2>2. CASE ~(i <= Len(a))
    <3>0. Len(a) \in Nat /\ Len(b) \in Nat
      OBVIOUS
    <3>inside. i - Len(a) \in 1..Len(b)
      BY <2>2, <3>0
    <3>1. PICK j \in 1..Len(b) : j = i - Len(a)
      BY <3>inside
    <3>2. lo + Len(a) + j - 1 = lo + i - 1
      BY <3>1
    <3> QED
      BY <1>1, <2>2, <3>1, <3>2 DEF Good
  <2> QED
    BY <2>1, <2>2
<1> QED
  BY <1>1, <1>2 DEF Good

(* The segments left over after the first one. *)
LEMMA CoversTail ==
  ASSUME NEW todo \in Seq(Segments), todo # <<>>, NEW lo, NEW hi, Covers(todo, lo, hi)
  PROVE  /\ Head(todo) \in Segments /\ Head(todo)[1] = lo
         /\ Tail(todo) \in Seq(Segments)
         /\ Covers(Tail(todo), Head(todo)[2] + 1, hi)
<1>1. /\ Head(todo) \in Segments /\ Head(todo) = todo[1]
      /\ Tail(todo) \in Seq(Segments) /\ Len(Tail(todo)) = Len(todo) - 1
      /\ \A i \in 1..(Len(todo) - 1) : Tail(todo)[i] = todo[i + 1]
  BY HeadTailProperties
<1>2. Len(todo) \in Nat \ {0}
  BY EmptySeq
<1>3. CASE Len(todo) = 1
  <2>1. Tail(todo) = <<>>
    <3>1. Len(Tail(todo)) = 0
      BY <1>1, <1>3
    <3> QED
      BY <1>1, <3>1, EmptySeq
  <2> QED
    BY <1>1, <1>3, <2>1 DEF Covers
<1>4. CASE Len(todo) > 1
  <2>0. Tail(todo) # <<>>
    <3>1. Len(Tail(todo)) # 0
      BY <1>1, <1>2, <1>4
    <3>2. Len(<<>>) = 0
      BY EmptySeq
    <3> QED
      BY <3>1, <3>2, Zenon
  <2>1. Tail(todo)[1] = todo[2] /\ todo[2][1] = todo[1][2] + 1
    <3>1. 1 \in 1..(Len(todo) - 1) /\ 1 + 1 = 2
      BY <1>2, <1>4
    <3> QED
      BY <1>1, <3>1 DEF Covers
  <2>2. Tail(todo)[Len(todo) - 1] = todo[Len(todo)]
    BY <1>1, <1>2, <1>4
  <2>3. ASSUME NEW i \in 1..(Len(todo) - 1 - 1)
        PROVE  Tail(todo)[i + 1][1] = Tail(todo)[i][2] + 1
    <3>1. i \in 1..(Len(todo) - 1) /\ i + 1 \in 1..(Len(todo) - 1)
      BY <1>2
    <3> QED
      BY <1>1, <3>1 DEF Covers
  <2> QED
    BY <1>1, <2>0, <2>1, <2>2, <2>3 DEF Covers
<1> QED
  BY <1>2, <1>3, <1>4

(* A segment of several calls is halved without a gap or an overlap. *)
LEMMA HalvesCover ==
  ASSUME NEW s \in Segments, Length(s) # 1
  PROVE  \E a, b \in Segments :
           Halves(s) = <<a, b>> /\ a[1] = s[1] /\ b[2] = s[2] /\ b[1] = a[2] + 1
<1>1. /\ s[1] \in 1..NCalls /\ s[2] \in 1..NCalls /\ s[1] <= s[2] /\ NCalls \in Nat
      /\ Length(s) = s[2] - s[1] + 1
  BY ExecutionConstants DEF Segments, Length
<1>2. PICK n \in 1..NCalls : n = s[1] + Length(s) \div 2 /\ s[1] < n /\ n <= s[2]
  <2>1. Length(s) \in Nat /\ Length(s) > 1
    BY <1>1
  <2>2. Length(s) \div 2 \in 1..(Length(s) - 1)
    BY <2>1
  <2>3. s[1] + Length(s) \div 2 \in 1..NCalls
    BY <1>1, <2>2
  <2> QED
    BY <1>1, <2>2, <2>3
<1>3. Halves(s) = <<<<s[1], n - 1>>, <<n, s[2]>>>>
  BY <1>2 DEF Halves
<1>4. <<s[1], n - 1>> \in Segments /\ <<n, s[2]>> \in Segments
  BY <1>1, <1>2 DEF Segments
<1> QED
  BY <1>2, <1>3, <1>4

(* A split batch still asks for the same calls, in order. *)
LEMMA CoversSplit ==
  ASSUME NEW todo \in Seq(Segments), todo # <<>>, NEW lo, NEW hi, Covers(todo, lo, hi),
         Length(Head(todo)) # 1
  PROVE  /\ Halves(Head(todo)) \o Tail(todo) \in Seq(Segments) \ {<<>>}
         /\ Covers(Halves(Head(todo)) \o Tail(todo), lo, hi)
<1>1. /\ Head(todo) \in Segments /\ Head(todo)[1] = lo /\ Tail(todo) \in Seq(Segments)
      /\ Covers(Tail(todo), Head(todo)[2] + 1, hi)
  BY CoversTail
<1>2. PICK a, b \in Segments :
        /\ Halves(Head(todo)) = <<a, b>> /\ a[1] = Head(todo)[1]
        /\ b[2] = Head(todo)[2] /\ b[1] = a[2] + 1
  BY <1>1, HalvesCover
<1>3. PICK rest \in Seq(Segments) : rest = Tail(todo)
  BY <1>1
<1>4. PICK new : new = <<a, b>> \o rest
  OBVIOUS
<1>5. <<a, b>> \in Seq(Segments) /\ Len(<<a, b>>) = 2 /\ Len(rest) \in Nat
  OBVIOUS
<1>6. /\ new \in Seq(Segments) /\ Len(new) = 2 + Len(rest)
      /\ \A i \in 1..(2 + Len(rest)) : new[i] = IF i <= 2 THEN <<a, b>>[i] ELSE rest[i - 2]
  BY <1>4, <1>5, ConcatProperties
<1>7. new[1] = a /\ new[2] = b /\ \A i \in 1..Len(rest) : new[i + 2] = rest[i]
  <2>1. ASSUME NEW i \in 1..Len(rest) PROVE new[i + 2] = rest[i]
    <3>1. i + 2 \in 1..(2 + Len(rest)) /\ ~(i + 2 <= 2) /\ i + 2 - 2 = i
      BY <1>5
    <3> QED
      BY <1>6, <3>1
  <2> QED
    BY <1>5, <1>6, <2>1
<1>8. new # <<>>
  BY <1>5, <1>6
<1>9. Covers(rest, b[2] + 1, hi)
  BY <1>1, <1>2, <1>3
<1>10. new[Len(new)][2] = hi
  <2>1. CASE rest = <<>>
    <3>1. Len(rest) = 0 /\ b[2] \in Int /\ hi = b[2]
      BY <1>9, <2>1, <1>8 DEF Covers, Segments
    <3> QED
      BY <1>6, <1>7, <3>1
  <2>2. CASE rest # <<>>
    <3>1. rest[Len(rest)][2] = hi /\ Len(rest) \in 1..Len(rest) /\ Len(new) = Len(rest) + 2
      BY <1>5, <1>6, <1>9, <2>2, EmptySeq DEF Covers
    <3> QED
      BY <1>7, <3>1
  <2> QED
    BY <2>1, <2>2
<1>11. ASSUME NEW i \in 1..(Len(new) - 1) PROVE new[i + 1][1] = new[i][2] + 1
  <2>1. CASE i = 1
    BY <1>2, <1>7, <2>1
  <2>2. CASE i = 2
    <3>1. Len(rest) >= 1 /\ 1 \in 1..Len(rest)
      BY <1>5, <1>6, <2>2
    <3>inside. rest # <<>>
      BY <3>1, EmptySeq
    <3>2. rest[1][1] = b[2] + 1 /\ new[1 + 2] = rest[1]
      BY <1>7, <1>9, <3>1, <3>inside DEF Covers
    <3> QED
      BY <1>7, <2>2, <3>2
  <2>3. CASE i > 2
    <3>1. PICK j \in 1..(Len(rest) - 1) : j = i - 2
      BY <1>5, <1>6, <2>3
    <3>inside. j \in 1..Len(rest) /\ j + 1 \in 1..Len(rest)
      BY <1>5
    <3>2. new[j + 2] = rest[j] /\ new[(j + 1) + 2] = rest[j + 1]
      BY <1>7, <3>inside
    <3>3. j + 2 = i /\ (j + 1) + 2 = i + 1
      BY <3>1
    <3> QED
      BY <1>9, <3>2, <3>3 DEF Covers
  <2> QED
    BY <2>1, <2>2, <2>3
<1>12. Covers(new, lo, hi)
  BY <1>1, <1>2, <1>7, <1>8, <1>10, <1>11 DEF Covers
<1> QED
  BY <1>2, <1>3, <1>4, <1>6, <1>8, <1>12

-----------------------------------------------------------------------------
(* The groups that chunked makes.                                          *)

(* The number of batches is the least that holds all the calls. *)
LEMMA CeilingDivision ==
  ASSUME NEW n \in Nat \ {0}, NEW b \in Nat \ {0}
  PROVE  \E k \in Nat \ {0} :
           k = (n + b - 1) \div b /\ (k - 1) * b < n /\ n <= k * b
<1> DEFINE k == (n + b - 1) \div b
           r == (n + b - 1) % b
<1>1. k \in Int /\ r \in 0..(b - 1) /\ n + b - 1 = b * k + r
  OBVIOUS
<1>2. k >= 1
  <2>1. k <= 0 => b * k <= 0
    BY <1>1
  <2> QED
    BY <1>1, <2>1
<1>3. k * b = b * k /\ (k - 1) * b = b * k - b
  BY <1>1
<1> HIDE DEF k, r
<1>4. k \in Nat \ {0} /\ (k - 1) * b < n /\ n <= k * b
  BY <1>1, <1>2, <1>3
<1> QED
  BY <1>4 DEF k

(* The batches adjoin and run from the first call to the last. *)
LEMMA GroupsAdjoin ==
  \E k \in Nat \ {0} :
    /\ Groups = 1..k
    /\ \A g \in 1..k : Group(g) \in Segments
    /\ Group(1)[1] = 1 /\ Group(k)[2] = NCalls
    /\ \A g \in 1..(k - 1) : Group(g + 1)[1] = Group(g)[2] + 1
<1>0. NCalls \in Nat \ {0} /\ batch_size \in Nat \ {0}
  BY ExecutionConstants
<1>1. PICK k \in Nat \ {0} : /\ k = (NCalls + batch_size - 1) \div batch_size
                             /\ (k - 1) * batch_size < NCalls
                             /\ NCalls <= k * batch_size
  BY <1>0, CeilingDivision
<1>2. ASSUME NEW g \in 1..k
      PROVE  /\ (g - 1) * batch_size \in 0..(NCalls - 1)
             /\ g * batch_size \in Nat
             /\ g * batch_size = (g - 1) * batch_size + batch_size
             /\ g < k => g * batch_size < NCalls
  <2>1. ASSUME NEW x \in Nat, x <= k - 1 PROVE x * batch_size \in 0..(NCalls - 1)
    <3>1. x * batch_size <= (k - 1) * batch_size
      BY <1>0, <2>1
    <3>2. x * batch_size \in Nat /\ (k - 1) * batch_size \in Nat
      BY <1>0
    <3> QED
      BY <1>0, <1>1, <3>1, <3>2
  <2>2. (g - 1) * batch_size \in 0..(NCalls - 1)
    BY <2>1
  <2>3. g < k => g * batch_size \in 0..(NCalls - 1)
    BY <2>1
  <2>4. g * batch_size \in Nat /\ g * batch_size = (g - 1) * batch_size + batch_size
    BY <1>0
  <2> QED
    BY <1>0, <2>2, <2>3, <2>4
<1>3. ASSUME NEW g \in 1..k
      PROVE  /\ Group(g) \in Segments /\ Group(g)[1] = (g - 1) * batch_size + 1
             /\ g < k => Group(g)[2] = g * batch_size
             /\ g = k => Group(g)[2] = NCalls
  <2>1. PICK l \in 0..(NCalls - 1) : l = (g - 1) * batch_size
    BY <1>2
  <2>2. PICK h \in Nat : h = g * batch_size /\ h = l + batch_size
                         /\ (g < k => h < NCalls) /\ (g = k => NCalls <= h)
    BY <1>0, <1>1, <1>2, <2>1
  <2>3. Group(g) = <<l + 1, IF h < NCalls THEN h ELSE NCalls>>
    BY <2>1, <2>2 DEF Group
  <2>4. Group(g) \in Segments
    BY <1>0, <2>1, <2>2, <2>3 DEF Segments
  <2> QED
    BY <1>0, <2>1, <2>2, <2>3, <2>4
<1>4. ASSUME NEW g \in 1..(k - 1) PROVE Group(g + 1)[1] = Group(g)[2] + 1
  <2>1. g \in 1..k /\ g + 1 \in 1..k /\ g < k /\ (g + 1) - 1 = g
    OBVIOUS
  <2> QED
    BY <1>3, <2>1
<1>5. Group(1)[1] = 1
  <2>1. 1 \in 1..k /\ (1 - 1) * batch_size + 1 = 1
    BY <1>0
  <2> QED
    BY <1>3, <2>1
<1>6. Group(k)[2] = NCalls
  BY <1>3
<1> QED
  BY <1>1, <1>3, <1>4, <1>5, <1>6 DEF Groups

(* What a batch starts with covers its part. *)
LEMMA BatchesStart ==
  /\ \A g \in Groups : <<Group(g)>> \in Seq(Segments) /\ Covers(<<Group(g)>>, Group(g)[1], Group(g)[2])
  /\ [i \in Groups |-> Group(i)] \in Seq(Segments) \ {<<>>}
  /\ Covers([i \in Groups |-> Group(i)], 1, NCalls)
  /\ \A m \in BOOLEAN : \A g \in Batches(m) :
       Part(m, g)[1] \in 1..NCalls /\ Part(m, g)[2] \in 1..NCalls
<1>1. PICK k \in Nat \ {0} :
        /\ Groups = 1..k
        /\ \A g \in 1..k : Group(g) \in Segments
        /\ Group(1)[1] = 1 /\ Group(k)[2] = NCalls
        /\ \A g \in 1..(k - 1) : Group(g + 1)[1] = Group(g)[2] + 1
  BY GroupsAdjoin
<1>2. ASSUME NEW g \in Groups
      PROVE  <<Group(g)>> \in Seq(Segments) /\ Covers(<<Group(g)>>, Group(g)[1], Group(g)[2])
  <2>1. Group(g) \in Segments
    BY <1>1
  <2>2. Len(<<Group(g)>>) = 1 /\ <<Group(g)>>[1] = Group(g) /\ <<Group(g)>> # <<>>
        /\ 1..(1 - 1) = {}
    OBVIOUS
  <2> QED
    BY <2>1, <2>2 DEF Covers
<1>3. PICK all : all = [i \in Groups |-> Group(i)]
  OBVIOUS
<1>4. all \in Seq(Segments) /\ Len(all) = k /\ \A i \in 1..k : all[i] = Group(i)
  <2>1. all \in [1..k -> Segments]
    BY <1>1, <1>3
  <2>2. all \in Seq(Segments)
    BY <2>1, SeqDef
  <2> QED
    BY <1>1, <1>3, <2>1, <2>2, LenProperties
<1>5. all # <<>>
  BY <1>4, EmptySeq
<1>6. Covers(all, 1, NCalls)
  <2>1. all[1] = Group(1) /\ all[k] = Group(k)
    BY <1>4
  <2>2. ASSUME NEW i \in 1..(k - 1) PROVE all[i + 1] = Group(i + 1) /\ all[i] = Group(i)
    BY <1>4
  <2> QED
    BY <1>1, <1>4, <1>5, <2>1, <2>2 DEF Covers
<1>7. ASSUME NEW m \in BOOLEAN, NEW g \in Batches(m)
      PROVE  Part(m, g)[1] \in 1..NCalls /\ Part(m, g)[2] \in 1..NCalls
  BY <1>1, ExecutionConstants DEF Batches, Part, Segments
<1> QED
  BY <1>2, <1>3, <1>4, <1>5, <1>6, <1>7

-----------------------------------------------------------------------------
(* The new states of a batch are sound.                                    *)

(* The locals of a request that starts over. *)
LEMMA FreshFields ==
  ASSUME NEW todo, NEW out
  PROVE  LET t == Fresh(todo, out)
         IN  /\ t.pc = "select" /\ t.todo = todo /\ t.out = out /\ t.at = None
             /\ t.tried = {} /\ t.refuted = {} /\ t.attempt = 0 /\ t.round = 0
             /\ t.fallback = None /\ t.members = {} /\ t.nested = 0 /\ t.body = <<>>
BY DEF Fresh

(* They have their types. *)
LEMMA FreshInTask ==
  ASSUME NEW todo \in Seq(Segments), NEW out \in Seq(Results)
  PROVE  Fresh(todo, out) \in Task
BY ExecutionConstants, EmptySeq DEF Fresh, Task, States

(* A batch that starts over with segments that continue its results is     *)
(* sound.                                                                  *)
LEMMA FreshIsSound ==
  ASSUME NEW m, NEW g, NEW barred, NEW todo \in Seq(Segments), todo # <<>>,
         NEW out \in Seq(Results),
         Covers(todo, Part(m, g)[1] + Len(out), Part(m, g)[2]), Good(out, Part(m, g)[1])
  PROVE  /\ BatchSound(Fresh(todo, out), m, g, barred)
         /\ BatchSound([Fresh(todo, out) EXCEPT !.pc = "queued"], m, g, barred)
<1>1. PICK t \in Task : t = Fresh(todo, out)
  BY FreshInTask
<1>2. /\ t.pc = "select" /\ t.todo = todo /\ t.out = out
      /\ t.refuted = {} /\ t.fallback = None /\ t.nested = 0
  BY <1>1, FreshFields
<1>3. PICK q \in Task : q = [t EXCEPT !.pc = "queued"]
  BY DEF Task, States
<1>4. /\ q.pc = "queued" /\ q.todo = todo /\ q.out = out
      /\ q.refuted = {} /\ q.fallback = None /\ q.nested = 0
  BY <1>2, <1>3 DEF Task
<1>5. BatchSound(t, m, g, barred)
  BY <1>2 DEF BatchSound, Trusted, InOrder
<1>6. BatchSound(q, m, g, barred)
  BY <1>4 DEF BatchSound, Trusted, InOrder
<1> QED
  BY <1>1, <1>3, <1>5, <1>6

(* What is known of a batch that has a segment to execute. *)
LEMMA Current ==
  ASSUME NEW m \in BOOLEAN, NEW g \in Batches(m), NEW barred, NEW t,
         BatchSound(t, m, g, barred), t.pc \notin {"done", "cancelled"}
  PROVE  /\ t \in Task /\ t.todo \in Seq(Segments) /\ t.todo # <<>>
         /\ Head(t.todo) \in Segments
         /\ Head(t.todo)[1] = Part(m, g)[1] + Len(t.out)
         /\ Tail(t.todo) \in Seq(Segments)
         /\ Covers(Tail(t.todo), Head(t.todo)[2] + 1, Part(m, g)[2])
         /\ t.out \in Seq(Results) /\ Good(t.out, Part(m, g)[1])
<1>1. t \in Task /\ t.todo \in Seq(Segments) /\ t.todo # <<>> /\ t.out \in Seq(Results)
  BY DEF BatchSound, Task
<1>2. InOrder(t, m, g)
  BY DEF BatchSound
<1> QED
  BY <1>1, <1>2, CoversTail DEF InOrder

(* So is one whose segment was halved. *)
LEMMA SplitIsSound ==
  ASSUME NEW m \in BOOLEAN, NEW g \in Batches(m), NEW barred, NEW t,
         BatchSound(t, m, g, barred), t.pc \notin {"done", "cancelled"},
         Length(Head(t.todo)) # 1
  PROVE  BatchSound(Fresh(Halves(Head(t.todo)) \o Tail(t.todo), t.out), m, g, barred)
<1>1. t.todo \in Seq(Segments) /\ t.todo # <<>> /\ t.out \in Seq(Results)
  BY Current
<1>2. Covers(t.todo, Part(m, g)[1] + Len(t.out), Part(m, g)[2]) /\ Good(t.out, Part(m, g)[1])
  BY DEF BatchSound, InOrder
<1>3. PICK todo : todo = Halves(Head(t.todo)) \o Tail(t.todo)
  OBVIOUS
<1>4. todo \in Seq(Segments) /\ todo # <<>>
      /\ Covers(todo, Part(m, g)[1] + Len(t.out), Part(m, g)[2])
  BY <1>1, <1>2, <1>3, CoversSplit
<1> QED
  BY <1>1, <1>2, <1>3, <1>4, FreshIsSound

(* So is one that accepted an answer for its first segment. *)
LEMMA DeliveredIsSound ==
  ASSUME NEW m \in BOOLEAN, NEW g \in Batches(m), NEW barred, NEW t,
         BatchSound(t, m, g, barred), t.pc \notin {"done", "cancelled"},
         NEW body \in Seq(Results), Len(body) = Length(Head(t.todo)),
         Good(body, Head(t.todo)[1])
  PROVE  BatchSound([Fresh(Tail(t.todo), t.out \o body) EXCEPT
                       !.pc = IF Tail(t.todo) = <<>> THEN "done" ELSE "select"],
                    m, g, barred)
<1>1. /\ Head(t.todo) \in Segments /\ Head(t.todo)[1] = Part(m, g)[1] + Len(t.out)
      /\ Covers(Tail(t.todo), Head(t.todo)[2] + 1, Part(m, g)[2])
      /\ t.out \in Seq(Results) /\ Good(t.out, Part(m, g)[1])
  BY Current
<1>2. PICK rest \in Seq(Segments) : rest = Tail(t.todo)
  BY Current
<1>3. PICK lo \in Nat : lo = Part(m, g)[1]
  BY BatchesStart
<1>4. PICK out \in Seq(Results) :
        /\ out = t.out \o body /\ Good(out, lo) /\ Len(out) = Len(t.out) + Len(body)
  BY <1>1, <1>3, GoodJoins
<1>5. lo + Len(out) = Head(t.todo)[2] + 1
  <2>1. Len(t.out) \in Nat /\ Len(body) = Head(t.todo)[2] - Head(t.todo)[1] + 1
    BY <1>1 DEF Length
  <2>2. PICK a \in Int, b \in Int : a = Head(t.todo)[1] /\ b = Head(t.todo)[2]
    BY <1>1 DEF Segments
  <2>place. a = lo + Len(t.out)
    BY <1>1, <1>3, <2>2, Zenon
  <2>length. Len(body) = b - a + 1
    BY <2>1, <2>2, Zenon
  <2>3. a = lo + Len(t.out) /\ Len(body) = b - a + 1
    BY <2>place, <2>length
  <2>4. lo + Len(out) = lo + (Len(t.out) + Len(body))
    BY <1>4
  <2>numbers. PICK x \in Nat, y \in Nat : x = Len(t.out) /\ y = Len(body)
    BY <2>1
  <2>sums. a = lo + x /\ y = b - a + 1 /\ lo + Len(out) = lo + (x + y)
    BY <2>3, <2>4, <2>numbers, Zenon
  <2>total. lo + (x + y) = b + 1
    BY <2>sums
  <2>5. lo + Len(out) = b + 1
    BY <2>sums, <2>total
  <2> QED
    BY <2>2, <2>5
<1>6. PICK n \in Task : n = Fresh(rest, out)
  BY FreshInTask
<1>7. /\ n.todo = rest /\ n.out = out /\ n.refuted = {} /\ n.fallback = None /\ n.nested = 0
  BY <1>6, FreshFields
<1>8. PICK q \in Task : q = [n EXCEPT !.pc = IF rest = <<>> THEN "done" ELSE "select"]
  BY DEF Task, States
<1>9. /\ q.pc = (IF rest = <<>> THEN "done" ELSE "select") /\ q.todo = rest /\ q.out = out
      /\ q.refuted = {} /\ q.fallback = None /\ q.nested = 0
  BY <1>7, <1>8 DEF Task
<1>10. Covers(rest, lo + Len(out), Part(m, g)[2]) /\ Good(out, Part(m, g)[1])
  BY <1>1, <1>2, <1>3, <1>4, <1>5
<1>11. InOrder(q, m, g)
  BY <1>3, <1>9, <1>10 DEF InOrder
<1>12. Trusted(q, m, barred)
  BY <1>9 DEF Trusted
<1>13. q.pc \in {"done", "cancelled"} <=> q.todo = <<>>
  BY <1>9
<1>14. BatchSound(q, m, g, barred)
  BY <1>11, <1>12, <1>13 DEF BatchSound
<1> QED
  BY <1>2, <1>4, <1>6, <1>8, <1>14

(* The results of a batch once an answer of its own, or of the one call    *)
(* that is being escalated, is in.                                         *)
Position1(t) == IF t.nested = 0 THEN 0 ELSE t.nested - Head(t.todo)[1] + 1
Merged(t, answer) ==
  IF Position1(t) = 0 THEN answer ELSE [t.body EXCEPT ![Position1(t)] = answer[1]]

(* The results of nested requests, put back in the places of the calls     *)
(* that failed, are the values at the anchor.                              *)
LEMMA MergedIsGood ==
  ASSUME NEW m \in BOOLEAN, NEW g \in Batches(m), NEW barred, NEW t,
         BatchSound(t, m, g, barred), t.pc \notin {"done", "cancelled"},
         NEW answer \in Bodies(Packed(t), Anchor)
  PROVE  /\ Merged(t, answer) \in Seq(Results)
         /\ Len(Merged(t, answer)) = Length(Head(t.todo))
         /\ Good(Merged(t, answer), Head(t.todo)[1])
<1>0. /\ Head(t.todo) \in Segments /\ t \in Task
      /\ t.todo # <<>>
  BY Current
<1>1. CASE t.nested = 0
  BY <1>0, <1>1, AnchoredBodyIsGood DEF Packed, Merged, Position1
<1>2. CASE t.nested # 0
  <2>1. PICK n \in 1..NCalls : n = t.nested
    BY <1>0, <1>2 DEF Task
  <2>2. PICK a \in 1..NCalls, b \in 1..NCalls : a = Head(t.todo)[1] /\ b = Head(t.todo)[2]
    BY <1>0 DEF Segments
  <2>3. /\ a <= n /\ n <= b /\ t.body \in Seq(Results)
        /\ Len(t.body) = b - a + 1 /\ Good(t.body, a)
    BY <1>0, <1>2, <2>1, <2>2 DEF BatchSound, InOrder, Length, Task
  <2>4. <<n, n>> \in Segments /\ Packed(t) = <<n, n>>
    BY <1>2, <2>1 DEF Segments, Packed
  <2>5. /\ answer \in Seq(Results) /\ Len(answer) = Length(<<n, n>>)
        /\ Good(answer, <<n, n>>[1])
    BY <2>4, AnchoredBodyIsGood
  <2>6. /\ Len(answer) = 1 /\ answer[1] \in Results
        /\ answer[1] \in {<<n, Failed>>, <<n, Value[Anchor][n]>>}
    <3>1. Len(answer) = 1 /\ 1 \in 1..Len(answer)
      BY <2>5 DEF Length
    <3>2. answer[1] \in {<<n + 1 - 1, Failed>>, <<n + 1 - 1, Value[Anchor][n + 1 - 1]>>}
      BY <2>5, <3>1 DEF Good
    <3>3. n + 1 - 1 = n
      OBVIOUS
    <3>4. answer[1] \in Results
      BY <2>5, <3>1, ElementOfSeq
    <3> QED
      BY <3>1, <3>2, <3>3, <3>4
  <2>7. PICK i \in 1..Len(t.body) : i = n - a + 1
    <3>1. n - a + 1 \in 1..(b - a + 1)
      BY <2>3
    <3> QED
      BY <2>3, <3>1
  <2>8. PICK body : body = [t.body EXCEPT ![i] = answer[1]]
    OBVIOUS
  <2>9. /\ body \in Seq(Results) /\ Len(body) = Len(t.body)
        /\ \A j \in 1..Len(t.body) : body[j] = IF j = i THEN answer[1] ELSE t.body[j]
    BY <2>3, <2>6, <2>8, ExceptSeq
  <2>10. ASSUME NEW j \in 1..Len(body)
         PROVE  body[j] \in {<<a + j - 1, Failed>>, <<a + j - 1, Value[Anchor][a + j - 1]>>}
    <3>1. CASE j = i
      <4>1. a + j - 1 = n
        BY <2>7, <3>1
      <4> QED
        BY <2>6, <2>9, <3>1, <4>1
    <3>2. CASE j # i
      BY <2>3, <2>9, <3>2 DEF Good
    <3> QED
      BY <3>1, <3>2
  <2>11. Merged(t, answer) = body
    <3>1. Position1(t) = i /\ i # 0
      BY <1>2, <2>1, <2>2, <2>7 DEF Position1
    <3> QED
      BY <2>8, <3>1 DEF Merged
  <2>12. Len(body) = Length(Head(t.todo))
    BY <2>2, <2>3, <2>9 DEF Length
  <2>13. Good(body, Head(t.todo)[1])
    BY <2>2, <2>10 DEF Good
  <2> QED
    BY <2>9, <2>11, <2>12, <2>13
<1> QED
  BY <1>1, <1>2

(* The escalation of call c, or the batch after a refuted answer. *)
LEMMA RestartIsSound ==
  ASSUME NEW m \in BOOLEAN, NEW g \in Batches(m), NEW barred, NEW t,
         BatchSound(t, m, g, barred), t.pc \notin {"done", "cancelled"}, m,
         NEW refuted \in SUBSET Names, NEW round \in 0..max_retries,
         NEW c \in 0..NCalls, NEW body \in Seq(Results),
         c # 0 => /\ c \in Head(t.todo)[1]..Head(t.todo)[2]
                  /\ Len(body) = Length(Head(t.todo)) /\ Good(body, Head(t.todo)[1])
  PROVE  BatchSound([Fresh(t.todo, t.out) EXCEPT !.refuted = refuted, !.round = round,
                                                 !.nested = c, !.body = body],
                    m, g, barred)
<1>1. t.todo \in Seq(Segments) /\ t.todo # <<>> /\ t.out \in Seq(Results)
  BY Current
<1>2. Covers(t.todo, Part(m, g)[1] + Len(t.out), Part(m, g)[2]) /\ Good(t.out, Part(m, g)[1])
  BY DEF BatchSound, InOrder
<1>3. PICK n \in Task : n = Fresh(t.todo, t.out)
  BY <1>1, FreshInTask
<1>4. n.pc = "select" /\ n.todo = t.todo /\ n.out = t.out /\ n.fallback = None
  BY <1>3, FreshFields
<1>5. PICK q \in Task : q = [n EXCEPT !.refuted = refuted, !.round = round,
                                      !.nested = c, !.body = body]
  BY DEF Task
<1>6. /\ q.pc = "select" /\ q.todo = t.todo /\ q.out = t.out /\ q.fallback = None
      /\ q.nested = c /\ q.body = body
  BY <1>4, <1>5 DEF Task
<1>7. InOrder(q, m, g)
  BY <1>1, <1>2, <1>6 DEF InOrder
<1>8. Trusted(q, m, barred)
  BY <1>6 DEF Trusted
<1>9. BatchSound(q, m, g, barred)
  BY <1>1, <1>6, <1>7, <1>8 DEF BatchSound
<1> QED
  BY <1>3, <1>5, <1>9

(* The calls left to escalate have a first one. *)
LEMMA FirstToEscalate ==
  ASSUME NEW body \in Seq(Results), NEW c, NEW lo \in Nat, Good(body, lo),
         ToEscalate(body, c) # {}
  PROVE  LET left == ToEscalate(body, c)
             next == CHOOSE i \in left : \A j \in left : i <= j
         IN  body[next][1] \in lo..(lo + Len(body) - 1)
<1> DEFINE left == ToEscalate(body, c)
           next == CHOOSE i \in left : \A j \in left : i <= j
<1>1. left \in SUBSET (1..Len(body)) /\ Len(body) \in Nat
  BY DEF ToEscalate
<1>2. \E i \in left : \A j \in left : i <= j
  BY <1>1, LeastNatural
<1>3. next \in left
  BY <1>2
<1> HIDE DEF next, left
<1>4. next \in 1..Len(body)
  BY <1>1, <1>3
<1>5. body[next][1] = lo + next - 1
  BY <1>4 DEF Good
<1>6. lo + next - 1 \in lo..(lo + Len(body) - 1)
  BY <1>1, <1>4
<1> QED
  BY <1>5, <1>6 DEF next, left

(* A step that leaves the work of a batch alone. *)
LEMMA SameWork ==
  ASSUME NEW m \in BOOLEAN, NEW g \in Batches(m), NEW barred, NEW t,
         BatchSound(t, m, g, barred), t.pc \notin {"done", "cancelled"},
         NEW q \in Task, q.pc \notin {"done", "cancelled"},
         q.todo = t.todo, q.out = t.out, q.nested = t.nested, q.body = t.body,
         Trusted(q, m, barred)
  PROVE  BatchSound(q, m, g, barred)
BY DEF BatchSound, InOrder

(* A queued batch may begin. *)
LEMMA AdmittedIsSound ==
  ASSUME NEW m \in BOOLEAN, NEW g \in Batches(m), NEW barred, NEW t,
         BatchSound(t, m, g, barred), t.pc = "queued"
  PROVE  BatchSound([t EXCEPT !.pc = "select"], m, g, barred)
<1>1. t \in Task /\ Trusted(t, m, barred)
  BY DEF BatchSound
<1>2. PICK q \in Task : q = [t EXCEPT !.pc = "select"]
  BY <1>1 DEF Task, States
<1>3. /\ q.pc = "select" /\ q.todo = t.todo /\ q.out = t.out /\ q.nested = t.nested
      /\ q.body = t.body /\ q.fallback = t.fallback /\ q.refuted = t.refuted
  BY <1>1, <1>2 DEF Task
<1>4. Trusted(q, m, barred)
  BY <1>1, <1>3 DEF Trusted
<1> QED
  BY <1>2, <1>3, <1>4, SameWork

(* A batch may ask an endpoint it has not refuted and the probes have not  *)
(* barred.                                                                 *)
LEMMA AskingIsSound ==
  ASSUME NEW m \in BOOLEAN, NEW g \in Batches(m), NEW barred, NEW t,
         BatchSound(t, m, g, barred), t.pc = "select", t.attempt < max_retries,
         NEW e \in Names \ (t.refuted \cup barred), ~m => e \in Eip1898
  PROVE  BatchSound([t EXCEPT !.pc = "ask", !.at = e], m, g, barred)
<1>1. t \in Task /\ Trusted(t, m, barred)
  BY DEF BatchSound
<1>2. PICK q \in Task : q = [t EXCEPT !.pc = "ask", !.at = e]
  BY <1>1 DEF Task, States
<1>3. /\ q.pc = "ask" /\ q.todo = t.todo /\ q.out = t.out /\ q.nested = t.nested
      /\ q.body = t.body /\ q.fallback = t.fallback /\ q.refuted = t.refuted
      /\ q.at = e /\ q.attempt = t.attempt
  BY <1>1, <1>2 DEF Task
<1>4. Trusted(q, m, barred)
  BY <1>1, <1>3 DEF Trusted
<1> QED
  BY <1>2, <1>3, <1>4, SameWork

(* A legacy batch may ask a quorum with a steady member. *)
LEMMA QuorumIsSound ==
  ASSUME NEW m \in BOOLEAN, NEW g \in Batches(m), NEW barred, NEW t,
         BatchSound(t, m, g, barred), t.pc = "select", ~m,
         NEW M \in SUBSET Names, M \cap Steady # {}
  PROVE  BatchSound([t EXCEPT !.pc = "quorum", !.members = M], m, g, barred)
<1>1. t \in Task /\ Trusted(t, m, barred)
  BY DEF BatchSound
<1>2. PICK q \in Task : q = [t EXCEPT !.pc = "quorum", !.members = M]
  BY <1>1 DEF Task, States
<1>3. /\ q.pc = "quorum" /\ q.todo = t.todo /\ q.out = t.out /\ q.nested = t.nested
      /\ q.body = t.body /\ q.fallback = t.fallback /\ q.refuted = t.refuted
      /\ q.members = M
  BY <1>1, <1>2 DEF Task
<1>4. Trusted(q, m, barred)
  BY <1>1, <1>3 DEF Trusted
<1> QED
  BY <1>2, <1>3, <1>4, SameWork

(* A failed request counts as an attempt and leaves the results alone. *)
LEMMA FailoverIsSound ==
  ASSUME NEW m \in BOOLEAN, NEW g \in Batches(m), NEW barred, NEW t,
         BatchSound(t, m, g, barred), t.pc = "ask",
         NEW f, f \in {t.at, None}
  PROVE  /\ m => BatchSound([t EXCEPT !.pc = "select", !.at = None,
                               !.attempt = t.attempt + 1,
                               !.tried = t.tried \cup {t.at}, !.fallback = f], m, g, barred)
         /\ ~m => BatchSound([t EXCEPT !.pc = "select", !.at = None,
                                !.attempt = t.attempt + 1,
                                !.tried = t.tried \cup {t.at}], m, g, barred)
<1>1. /\ t \in Task /\ Trusted(t, m, barred)
      /\ t.at \in Names \ (t.refuted \cup barred) /\ t.attempt < max_retries
      /\ t.tried \in SUBSET Names /\ t.attempt \in 0..max_retries
  BY DEF BatchSound, Trusted, Task
<1>2. t.attempt + 1 \in 0..max_retries
  BY <1>1, ExecutionConstants
<1>3. ASSUME m
      PROVE  BatchSound([t EXCEPT !.pc = "select", !.at = None, !.attempt = t.attempt + 1,
                           !.tried = t.tried \cup {t.at}, !.fallback = f], m, g, barred)
  <2>1. PICK q \in Task : q = [t EXCEPT !.pc = "select", !.at = None, !.attempt = t.attempt + 1,
                                 !.tried = t.tried \cup {t.at}, !.fallback = f]
    BY <1>1, <1>2 DEF Task, States
  <2>2. /\ q.pc = "select" /\ q.todo = t.todo /\ q.out = t.out /\ q.nested = t.nested
        /\ q.body = t.body /\ q.fallback = f /\ q.refuted = t.refuted
    BY <1>1, <2>1 DEF Task
  <2>3. Trusted(q, m, barred)
    BY <1>1, <1>3, <2>2 DEF Trusted
  <2> QED
    BY <2>1, <2>2, <2>3, SameWork
<1>4. ASSUME ~m
      PROVE  BatchSound([t EXCEPT !.pc = "select", !.at = None, !.attempt = t.attempt + 1,
                           !.tried = t.tried \cup {t.at}], m, g, barred)
  <2>1. PICK q \in Task : q = [t EXCEPT !.pc = "select", !.at = None, !.attempt = t.attempt + 1,
                                 !.tried = t.tried \cup {t.at}]
    BY <1>1, <1>2 DEF Task, States
  <2>2. /\ q.pc = "select" /\ q.todo = t.todo /\ q.out = t.out /\ q.nested = t.nested
        /\ q.body = t.body /\ q.fallback = t.fallback /\ q.refuted = t.refuted
    BY <1>1, <2>1 DEF Task
  <2>3. Trusted(q, m, barred)
    BY <1>1, <1>4, <2>2 DEF Trusted
  <2> QED
    BY <2>1, <2>2, <2>3, SameWork
<1> QED
  BY <1>3, <1>4

-----------------------------------------------------------------------------
(* ExecutionSound is inductive.                                            *)

(* The router decided by the block number alone. *)
LEMMA ExecutorIsChosen ==
  ASSUME ExecutionSound
  PROVE  uses_multicall \in BOOLEAN
BY ExecutionConstants DEF ExecutionSound, uses_multicall

(* A step of one batch leaves the others alone. *)
LEMMA OneBatchMoves ==
  ASSUME ExecutionSound, status = "running", NEW g \in DOMAIN task, NEW q,
         BatchSound(q, uses_multicall, g, Barred), q.pc # "cancelled", Goto(g, q),
         UNCHANGED <<number, status, results>>, PoolTypeOK', Barred' = Barred
  PROVE  ExecutionSound'
<1>1. PICK m : m = uses_multicall
  OBVIOUS
<1>2. uses_multicall' = m
  BY <1>1 DEF uses_multicall
<1>3. /\ DOMAIN task = Batches(m) /\ task = [h \in Batches(m) |-> task[h]]
      /\ task' = [task EXCEPT ![g] = q]
  BY <1>1 DEF ExecutionSound, Goto
<1>4. DOMAIN task' = Batches(m) /\ task' = [h \in Batches(m) |-> task'[h]]
  BY <1>3
<1>5. ASSUME NEW h \in Batches(m)
      PROVE  /\ BatchSound(task'[h], m, h, Barred)
             /\ task'[h].pc # "cancelled"
  BY <1>1, <1>3 DEF ExecutionSound
<1> QED
  BY <1>2, <1>4, <1>5 DEF ExecutionSound

(* So does an exception: the batches are cancelled and nothing is          *)
(* returned.                                                               *)
LEMMA RaiseIsSound ==
  ASSUME ExecutionSound, status = "running", Raise, UNCHANGED number, PoolTypeOK'
  PROVE  ExecutionSound'
<1>1. PICK m : m = uses_multicall
  OBVIOUS
<1>2. uses_multicall' = m
  BY <1>1 DEF uses_multicall
<1>3. PICK q \in Task : q = [Fresh(<<>>, <<>>) EXCEPT !.pc = "cancelled"]
  <2>1. Fresh(<<>>, <<>>) \in Task
    BY FreshInTask, EmptySeq
  <2> QED
    BY <2>1 DEF Task, States
<1>4. q.pc = "cancelled" /\ q.todo = <<>> /\ q.refuted = {} /\ q.fallback = None
  <2>1. Fresh(<<>>, <<>>) \in Task
    BY FreshInTask, EmptySeq
  <2>2. Fresh(<<>>, <<>>).todo = <<>> /\ Fresh(<<>>, <<>>).refuted = {}
        /\ Fresh(<<>>, <<>>).fallback = None
    BY FreshFields
  <2> QED
    BY <1>3, <2>1, <2>2 DEF Task
<1>5. ASSUME NEW h, NEW barred PROVE BatchSound(q, m, h, barred)
  BY <1>4 DEF BatchSound, Trusted
<1>6. DOMAIN task = Batches(m) /\ task' = [h \in Batches(m) |-> q]
  BY <1>1, <1>3 DEF ExecutionSound, Raise
<1>7. DOMAIN task' = Batches(m) /\ task' = [h \in Batches(m) |-> task'[h]]
      /\ \A h \in Batches(m) : task'[h] = q
  BY <1>6
<1>8. status' = "raised" /\ results' = results /\ number' = number
  BY DEF Raise
<1> QED
  BY <1>2, <1>5, <1>7, <1>8 DEF ExecutionSound

(* A request that may not be retried as it is: the batch is halved, or the *)
(* execution raises.                                                       *)
LEMMA SplitOrRaiseIsSound ==
  ASSUME ExecutionSound, status = "running", NEW g \in DOMAIN task,
         task[g].pc \notin {"done", "cancelled"}, SplitOrRaise(g),
         UNCHANGED number, PoolTypeOK', Barred' = Barred
  PROVE  ExecutionSound'
<1>1. PICK m \in BOOLEAN : m = uses_multicall
  BY ExecutorIsChosen
<1>2. g \in Batches(m) /\ BatchSound(task[g], m, g, Barred)
  BY <1>1 DEF ExecutionSound
<1>3. CASE Length(Head(task[g].todo)) = 1
  BY <1>3, RaiseIsSound DEF SplitOrRaise
<1>4. CASE Length(Head(task[g].todo)) # 1
  <2>1. PICK q : q = Fresh(Halves(Head(task[g].todo)) \o Tail(task[g].todo), task[g].out)
    OBVIOUS
  <2>2. Goto(g, q) /\ UNCHANGED <<status, results>>
    BY <1>4, <2>1 DEF SplitOrRaise
  <2>3. BatchSound(q, m, g, Barred) /\ q.pc = "select"
    BY <1>2, <1>4, <2>1, SplitIsSound, FreshFields
  <2> QED
    BY <1>1, <2>2, <2>3, OneBatchMoves
<1> QED
  BY <1>3, <1>4

(* An accepted answer for the first segment of one batch. *)
LEMMA DeliverIsSound ==
  ASSUME ExecutionSound, status = "running", NEW g \in DOMAIN task,
         task[g].pc \notin {"done", "cancelled"}, NEW body \in Seq(Results),
         Len(body) = Length(Head(task[g].todo)), Good(body, Head(task[g].todo)[1]),
         Deliver(g, body), UNCHANGED number, PoolTypeOK', Barred' = Barred
  PROVE  ExecutionSound'
<1>1. PICK m \in BOOLEAN : m = uses_multicall
  BY ExecutorIsChosen
<1>2. g \in Batches(m) /\ BatchSound(task[g], m, g, Barred)
  BY <1>1 DEF ExecutionSound
<1>3. PICK rest : rest = Tail(task[g].todo)
  OBVIOUS
<1>4. PICK q : q = [Fresh(rest, task[g].out \o body) EXCEPT
                      !.pc = IF rest = <<>> THEN "done" ELSE "select"]
  OBVIOUS
<1>5. Goto(g, q) /\ UNCHANGED <<status, results>>
  BY <1>3, <1>4 DEF Deliver
<1>6. BatchSound(q, m, g, Barred)
  BY <1>2, <1>3, <1>4, DeliveredIsSound
<1>7. q.pc # "cancelled"
  BY <1>4 DEF Fresh
<1> QED
  BY <1>1, <1>5, <1>6, <1>7, OneBatchMoves

(* A verified answer delivers the segment or escalates a failed call. *)
LEMMA AcceptIsSound ==
  ASSUME ExecutionSound, status = "running", uses_multicall, NEW g \in DOMAIN task,
         task[g].pc \notin {"done", "cancelled"},
         NEW answer \in Bodies(Packed(task[g]), Anchor), Accept(g, answer),
         UNCHANGED number, PoolTypeOK', Barred' = Barred
  PROVE  ExecutionSound'
<1>1. PICK m \in BOOLEAN : m = uses_multicall
  BY ExecutorIsChosen
<1>2. g \in Batches(m) /\ BatchSound(task[g], m, g, Barred)
  BY <1>1 DEF ExecutionSound
<1>3. PICK t : t = task[g]
  OBVIOUS
<1>4. PICK body \in Seq(Results) :
        /\ body = Merged(t, answer) /\ Len(body) = Length(Head(t.todo))
        /\ Good(body, Head(t.todo)[1])
  BY <1>2, <1>3, MergedIsGood
<1> DEFINE left == ToEscalate(body, t.nested)
           next == CHOOSE i \in left : \A j \in left : i <= j
<1>5. IF left = {}
      THEN Deliver(g, body)
      ELSE /\ Goto(g, [Fresh(t.todo, t.out) EXCEPT !.nested = body[next][1], !.body = body])
           /\ UNCHANGED <<status, results>>
  BY <1>3, <1>4 DEF Accept, Merged, Position1
<1>6. CASE left = {}
  BY <1>3, <1>4, <1>5, <1>6, DeliverIsSound
<1>7. CASE left # {}
  <2>1. PICK lo \in 1..NCalls, hi \in 1..NCalls : lo = Head(t.todo)[1] /\ hi = Head(t.todo)[2]
    BY <1>2, <1>3, Current DEF Segments
  <2>2. PICK c : c = body[next][1]
    OBVIOUS
  <2>3. c \in lo..(lo + Len(body) - 1)
    <3>1. lo \in Nat /\ Good(body, lo) /\ ToEscalate(body, t.nested) # {}
      BY <1>4, <1>7, <2>1
    <3>2. LET l == ToEscalate(body, t.nested)
              n == CHOOSE i \in l : \A j \in l : i <= j
          IN  body[n][1] \in lo..(lo + Len(body) - 1)
      BY <3>1, FirstToEscalate
    <3> QED
      BY <2>2, <3>2
  <2>4. Len(body) = hi - lo + 1
    BY <1>4, <2>1 DEF Length
  <2>5. c \in lo..hi /\ c \in 0..NCalls
    <3>1. lo + Len(body) - 1 = hi
      BY <2>4
    <3> QED
      BY <2>3, <3>1, ExecutionConstants
  <2>6. PICK f \in Task : f = Fresh(t.todo, t.out)
    BY <1>2, <1>3, FreshInTask DEF BatchSound, Task
  <2>7. f.refuted = {} /\ f.round = 0 /\ f.pc = "select"
    BY <2>6, FreshFields
  <2>8. PICK q : q = [f EXCEPT !.nested = c, !.body = body]
    OBVIOUS
  <2>9. q = [f EXCEPT !.refuted = {}, !.round = 0, !.nested = c, !.body = body]
        /\ q.pc = "select"
    BY <2>7, <2>8 DEF Task
  <2>10. BatchSound(q, m, g, Barred)
    <3>1. {} \in SUBSET Names /\ 0 \in 0..max_retries /\ m
      BY <1>1, ExecutionConstants
    <3>2. /\ c \in Head(t.todo)[1]..Head(t.todo)[2]
          /\ Len(body) = Length(Head(t.todo)) /\ Good(body, Head(t.todo)[1])
      BY <1>4, <2>1, <2>5
    <3> QED
      BY <1>2, <1>3, <2>5, <2>6, <2>9, <3>1, <3>2, RestartIsSound
  <2>11. Goto(g, q) /\ UNCHANGED <<status, results>>
    BY <1>5, <1>7, <2>2, <2>6, <2>8
  <2> QED
    BY <1>1, <2>9, <2>10, <2>11, OneBatchMoves
<1> QED
  BY <1>6, <1>7

-----------------------------------------------------------------------------
(* What execute returns once every batch is done.                          *)

(* The batches as a sequence whose parts adjoin. *)
LEMMA PartsAdjoin ==
  ASSUME ExecutionSound
  PROVE  \E k \in Nat \ {0} :
           /\ Batches(uses_multicall) = 1..k /\ Len(task) = k
           /\ Part(uses_multicall, 1)[1] = 1 /\ Part(uses_multicall, k)[2] = NCalls
           /\ \A g \in 1..(k - 1) :
                Part(uses_multicall, g + 1)[1] = Part(uses_multicall, g)[2] + 1
<1>1. PICK m \in BOOLEAN : m = uses_multicall
  BY ExecutorIsChosen
<1>2. PICK k \in Nat \ {0} :
        /\ Batches(m) = 1..k
        /\ Part(m, 1)[1] = 1 /\ Part(m, k)[2] = NCalls
        /\ \A g \in 1..(k - 1) : Part(m, g + 1)[1] = Part(m, g)[2] + 1
  <2>1. CASE m
    <3>1. PICK k \in Nat \ {0} :
            /\ Groups = 1..k /\ Group(1)[1] = 1 /\ Group(k)[2] = NCalls
            /\ \A g \in 1..(k - 1) : Group(g + 1)[1] = Group(g)[2] + 1
      BY GroupsAdjoin
    <3>2. Batches(m) = Groups /\ \A g : Part(m, g) = Group(g)
      BY <2>1 DEF Batches, Part
    <3> QED
      BY <3>1, <3>2
  <2>2. CASE ~m
    <3>1. Batches(m) = 1..1 /\ Part(m, 1)[1] = 1 /\ Part(m, 1)[2] = NCalls
      BY <2>2 DEF Batches, Part
    <3>2. 1..(1 - 1) = {} /\ 1 \in Nat \ {0}
      OBVIOUS
    <3> QED
      BY <3>1, <3>2
  <2> QED
    BY <2>1, <2>2
<1>3. task \in [1..k -> Task]
  BY <1>1, <1>2 DEF ExecutionSound, BatchSound
<1>4. Len(task) = k
  <2>1. task \in Seq(Task)
    BY <1>3, SeqDef
  <2> QED
    BY <1>3, <2>1, LenProperties
<1> QED
  BY <1>1, <1>2, <1>4

(* The recursion of Flattened is defined. *)
LEMMA FlattenedUnfolds ==
  ASSUME Len(task) \in Nat
  PROVE  /\ Flattened[0] = <<>>
         /\ \A g \in 1..Len(task) : Flattened[g] = Flattened[g - 1] \o task[g].out
<1> DEFINE F(n, f) == f = [g \in 0..n |-> IF g = 0 THEN <<>> ELSE f[g - 1] \o task[g].out]
           Defined(n) == \E f : F(n, f)
           Missing == {n \in 0..Len(task) : ~Defined(n)}
<1> HIDE DEF Defined
<1>1. Missing = {}
  <2> SUFFICES ASSUME Missing # {} PROVE FALSE
    OBVIOUS
  <2>1. PICK n \in Missing : \A k \in Missing : n <= k
    <3>1. Missing \in SUBSET Nat
      OBVIOUS
    <3> QED
      BY <3>1, LeastNatural
  <2>2. CASE n = 0
    <3> DEFINE f == [g \in 0..0 |-> <<>>]
    <3>1. F(0, f)
      OBVIOUS
    <3> QED
      BY <2>2, <3>1 DEF Defined
  <2>3. CASE n # 0
    <3>1. n - 1 \in 0..Len(task) /\ n - 1 \notin Missing /\ n \in Nat
      BY <2>1, <2>3
    <3>2. PICK f : F(n - 1, f)
      BY <3>1 DEF Defined
    <3>3. PICK new : new = [g \in 0..n |-> IF g = n THEN f[n - 1] \o task[n].out ELSE f[g]]
      OBVIOUS
    <3>4. ASSUME NEW g \in 0..n
          PROVE  new[g] = IF g = 0 THEN <<>> ELSE new[g - 1] \o task[g].out
      <4>1. CASE g = 0
        <5>1. new[0] = f[0] /\ f[0] = <<>>
          BY <2>3, <3>1, <3>2, <3>3
        <5> QED
          BY <4>1, <5>1
      <4>2. CASE g = n
        <5>1. n - 1 \in 0..n /\ n - 1 # n /\ n \in 0..n
          BY <2>3, <3>1
        <5>2. new[n - 1] = f[n - 1]
          BY <3>3, <5>1, Zenon
        <5>3. new[n] = new[n - 1] \o task[n].out
          BY <3>3, <5>1, <5>2, Zenon
        <5> QED
          BY <2>3, <4>2, <5>3
      <4>3. CASE g # 0 /\ g # n
        <5>1. g \in 0..(n - 1) /\ g - 1 \in 0..n /\ g - 1 # n
          BY <3>1, <4>3
        <5>2. new[g] = f[g] /\ new[g - 1] = f[g - 1]
          BY <3>3, <4>3, <5>1
        <5>3. f[g] = f[g - 1] \o task[g].out
          BY <3>2, <4>3, <5>1
        <5> QED
          BY <4>3, <5>2, <5>3
      <4> QED
        BY <4>1, <4>2, <4>3
    <3>5. F(n, new)
      BY <3>3, <3>4
    <3> QED
      BY <3>5 DEF Defined
  <2> QED
    BY <2>2, <2>3
<1>2. Defined(Len(task))
  BY <1>1
<1>3. F(Len(task), Flattened)
  BY <1>2 DEF Flattened, Defined
<1>4. Flattened[0] = <<>>
  BY <1>3
<1>5. ASSUME NEW g \in 1..Len(task) PROVE Flattened[g] = Flattened[g - 1] \o task[g].out
  <2>1. g \in 0..Len(task) /\ g # 0
    OBVIOUS
  <2> QED
    BY <1>3, <2>1
<1> QED
  BY <1>4, <1>5

(* A batch that is done holds the results of its part. *)
LEMMA DoneIsComplete ==
  ASSUME ExecutionSound, NEW g \in Batches(uses_multicall), task[g].pc = "done"
  PROVE  /\ task[g].out \in Seq(Results)
         /\ Part(uses_multicall, g)[1] + Len(task[g].out) = Part(uses_multicall, g)[2] + 1
         /\ Good(task[g].out, Part(uses_multicall, g)[1])
<1>1. PICK m : m = uses_multicall
  OBVIOUS
<1>2. BatchSound(task[g], m, g, Barred)
  BY <1>1 DEF ExecutionSound
<1>3. task[g].todo = <<>> /\ InOrder(task[g], m, g) /\ task[g].out \in Seq(Results)
  BY <1>2 DEF BatchSound, Task
<1> QED
  BY <1>1, <1>3 DEF InOrder, Covers

(* Nothing is missing, doubled or out of place in what execute returns. *)
LEMMA ReturnIsComplete ==
  ASSUME ExecutionSound, AllDone
  PROVE  /\ Flattened[Len(task)] \in Seq(Results)
         /\ Len(Flattened[Len(task)]) = NCalls
         /\ Good(Flattened[Len(task)], 1)
<1>0. PICK m \in BOOLEAN : m = uses_multicall
  BY ExecutorIsChosen
<1>1. PICK k \in Nat \ {0} :
        /\ Batches(m) = 1..k /\ Len(task) = k
        /\ Part(m, 1)[1] = 1 /\ Part(m, k)[2] = NCalls
        /\ \A g \in 1..(k - 1) : Part(m, g + 1)[1] = Part(m, g)[2] + 1
  BY <1>0, PartsAdjoin
<1>2. /\ Flattened[0] = <<>>
      /\ \A g \in 1..k : Flattened[g] = Flattened[g - 1] \o task[g].out
  BY <1>1, FlattenedUnfolds
<1>3. ASSUME NEW g \in 1..k
      PROVE  /\ task[g].out \in Seq(Results)
             /\ Part(m, g)[1] + Len(task[g].out) = Part(m, g)[2] + 1
             /\ Good(task[g].out, Part(m, g)[1])
             /\ Part(m, g)[1] \in Nat /\ Part(m, g)[2] \in Nat
  <2>1. g \in Batches(m) /\ task[g].pc = "done"
    BY <1>0, <1>1 DEF AllDone, ExecutionSound
  <2> QED
    BY <1>0, <2>1, DoneIsComplete, BatchesStart
<1> DEFINE Whole(g) == /\ Flattened[g] \in Seq(Results)
                       /\ Len(Flattened[g]) + 1 = Part(m, g)[2] + 1
                       /\ Good(Flattened[g], 1)
           Wrong == {g \in 1..k : ~Whole(g)}
<1>4. Whole(1)
  <2>1. Flattened[1] = <<>> \o task[1].out
    <3>1. 1 \in 1..k /\ 1 - 1 = 0
      BY <1>1
    <3> QED
      BY <1>2, <3>1
  <2>2. task[1].out \in Seq(Results) /\ Good(task[1].out, 1)
        /\ 1 + Len(task[1].out) = Part(m, 1)[2] + 1
    BY <1>1, <1>3
  <2>3. Flattened[1] = task[1].out
    BY <2>1, <2>2, ConcatEmptySeq
  <2>4. Len(task[1].out) \in Nat
    BY <2>2
  <2> QED
    BY <2>2, <2>3, <2>4
<1>5. ASSUME NEW g \in 1..(k - 1), Whole(g) PROVE Whole(g + 1)
  <2>1. g \in 1..k /\ g + 1 \in 1..k /\ (g + 1) - 1 = g
    BY <1>1
  <2>2. PICK a \in Seq(Results) : a = Flattened[g]
    BY <1>5
  <2>3. PICK b \in Seq(Results) : b = task[g + 1].out
    BY <1>3, <2>1
  <2>4. PICK p \in Nat, q \in Nat : p = Part(m, g + 1)[1] /\ q = Part(m, g + 1)[2]
    BY <1>3, <2>1
  <2>5. Flattened[g + 1] = a \o b
    BY <1>2, <2>1, <2>2, <2>3
  <2>6. p + Len(b) = q + 1 /\ Good(b, p)
    BY <1>3, <2>1, <2>3, <2>4
  <2>7. p = Part(m, g)[2] + 1 /\ Len(a) + 1 = Part(m, g)[2] + 1 /\ Good(a, 1)
    BY <1>1, <1>5, <2>2, <2>4
  <2>8. p = 1 + Len(a)
    BY <2>7
  <2>9. /\ a \o b \in Seq(Results) /\ Len(a \o b) = Len(a) + Len(b) /\ Good(a \o b, 1)
    BY <2>2, <2>3, <2>6, <2>7, <2>8, GoodJoins
  <2>10. Len(a \o b) + 1 = q + 1
    <3>1. PICK x \in Nat, y \in Nat : x = Len(a) /\ y = Len(b)
      OBVIOUS
    <3>2. Len(a \o b) = x + y /\ p = 1 + x /\ p + y = q + 1
      BY <2>6, <2>8, <2>9, <3>1, Zenon
    <3> QED
      BY <3>2
  <2> QED
    BY <2>4, <2>5, <2>9, <2>10
<1> HIDE DEF Whole
<1>6. Wrong = {}
  <2> SUFFICES ASSUME Wrong # {} PROVE FALSE
    OBVIOUS
  <2>1. PICK g \in Wrong : \A h \in Wrong : g <= h
    <3>1. Wrong \in SUBSET Nat
      OBVIOUS
    <3> QED
      BY <3>1, LeastNatural
  <2>2. g \in 1..k /\ ~Whole(g) /\ g # 1
    BY <1>4
  <2>3. PICK h \in 1..(k - 1) : h = g - 1
    BY <2>2
  <2>4. h \notin Wrong /\ h \in 1..k /\ h + 1 = g
    BY <2>1, <2>2, <2>3
  <2> QED
    BY <1>5, <2>2, <2>3, <2>4
<1>7. Whole(k)
  BY <1>6
<1>8. Len(Flattened[k]) + 1 = NCalls + 1 /\ Flattened[k] \in Seq(Results)
  BY <1>1, <1>7 DEF Whole
<1>9. Len(Flattened[k]) = NCalls
  BY <1>8, ExecutionConstants
<1> QED
  BY <1>1, <1>7, <1>9 DEF Whole

-----------------------------------------------------------------------------
(* The steps.                                                              *)

(* What the other calls of the process do to the pool is no concern of the *)
(* batches, as long as the barred endpoints stay barred.                   *)
LEMMA PoolMoves ==
  ASSUME ExecutionSound, UNCHANGED <<number, task, status, results>>,
         PoolTypeOK', Barred' = Barred
  PROVE  ExecutionSound'
BY DEF ExecutionSound, uses_multicall

(* Moving the cursor bars and admits nobody. *)
LEMMA PoolRests ==
  ASSUME PoolTypeOK, UNCHANGED <<health, archived>>, cursor' \in 0..(Count - 1)
  PROVE  PoolTypeOK' /\ Barred' = Barred
BY DEF PoolTypeOK, Barred

(* A refuted endpoint is not asked again by its batch. *)
LEMMA RefuteIsSound ==
  ASSUME ExecutionSound, status = "running", uses_multicall, NEW g \in DOMAIN task,
         task[g].pc = "ask", Refute(g), UNCHANGED number, PoolTypeOK', Barred' = Barred
  PROVE  ExecutionSound'
<1>1. PICK m \in BOOLEAN : m = uses_multicall
  BY ExecutorIsChosen
<1>2. PICK t : t = task[g]
  OBVIOUS
<1>3. g \in Batches(m) /\ BatchSound(t, m, g, Barred) /\ t.pc = "ask"
  BY <1>1, <1>2 DEF ExecutionSound
<1>4. /\ t \in Task /\ t.at \in Names /\ t.refuted \in SUBSET Names
      /\ t.round \in 0..max_retries /\ t.nested \in 0..NCalls /\ t.body \in Seq(Results)
  BY <1>3 DEF BatchSound, Trusted, Task
<1>5. CASE ~(t.round + 1 < max_retries)
  BY <1>2, <1>5, RaiseIsSound DEF Refute
<1>6. CASE t.round + 1 < max_retries
  <2>1. PICK q : q = [Fresh(t.todo, t.out) EXCEPT
                        !.refuted = t.refuted \cup {t.at}, !.round = t.round + 1,
                        !.nested = t.nested, !.body = t.body]
    OBVIOUS
  <2>2. Goto(g, q) /\ UNCHANGED <<status, results>>
    BY <1>2, <1>6, <2>1 DEF Refute
  <2>3. q.pc = "select"
    BY <2>1 DEF Fresh
  <2>4. t.refuted \cup {t.at} \in SUBSET Names /\ t.round + 1 \in 0..max_retries /\ m
    BY <1>1, <1>4, <1>6, ExecutionConstants
  <2>5. t.nested # 0 => /\ t.nested \in Head(t.todo)[1]..Head(t.todo)[2]
                        /\ Len(t.body) = Length(Head(t.todo))
                        /\ Good(t.body, Head(t.todo)[1])
    BY <1>3 DEF BatchSound, InOrder
  <2>6. BatchSound(q, m, g, Barred)
    BY <1>3, <1>4, <2>1, <2>4, <2>5, RestartIsSound
  <2> QED
    BY <1>1, <2>2, <2>3, <2>6, OneBatchMoves
<1> QED
  BY <1>5, <1>6

(* The steps of the Multicall3 executor. *)
LEMMA MulticallStep ==
  ASSUME ExecutionSound, NEW g \in DOMAIN task,
         \/ Admit(g) \/ Select(g) \/ Answer(g) \/ AnswerGarbled(g)
         \/ \E kind \in FailureKinds : AskFails(g, kind)
  PROVE  ExecutionSound'
<1>1. PICK m \in BOOLEAN : m = uses_multicall
  BY ExecutorIsChosen
<1>2. PICK t : t = task[g]
  OBVIOUS
<1>3. g \in Batches(m) /\ BatchSound(t, m, g, Barred) /\ PoolTypeOK
  BY <1>1, <1>2 DEF ExecutionSound
<1>4. t \in Task /\ Trusted(t, m, Barred) /\ t.attempt \in 0..max_retries
  BY <1>3 DEF BatchSound, Task
<1>5. t.pc = "ask" => t.at \in Names \ Barred
  BY <1>4 DEF Trusted
<1>6. CASE Admit(g)
  <2>1. PICK q : q = [t EXCEPT !.pc = "select"]
    OBVIOUS
  <2>2. /\ Goto(g, q) /\ status = "running" /\ t.pc = "queued"
        /\ UNCHANGED <<number, status, results, cursor, health, archived>>
    BY <1>2, <1>6, <2>1 DEF Admit, Running
  <2>3. BatchSound(q, m, g, Barred) /\ q.pc = "select"
    BY <1>3, <1>4, <2>1, <2>2, AdmittedIsSound DEF Task
  <2>4. PoolTypeOK' /\ Barred' = Barred
    BY <1>3, <2>2 DEF PoolTypeOK, Barred
  <2> QED
    BY <1>1, <2>2, <2>3, <2>4, OneBatchMoves
<1>7. CASE Select(g)
  <2>1. /\ uses_multicall /\ status = "running" /\ t.pc = "select"
        /\ UNCHANGED <<health, archived, number>>
    BY <1>2, <1>7 DEF Select, Running
  <2>2. PICK C : C = Preferred(Choose(g))
    OBVIOUS
  <2>3. C \in SUBSET Names /\ \A e \in C : e \in Names \ (t.refuted \cup Barred)
    BY <1>2, <2>2 DEF Preferred, Choose, Serving, can_serve, Barred
  <2>4. CASE MayTry(t) /\ C # {}
    <3>1. PICK q : q = [t EXCEPT !.pc = "ask", !.at = Selected(C)]
      OBVIOUS
    <3>2. /\ Goto(g, q) /\ cursor' = CursorAfter(C) /\ UNCHANGED <<status, results>>
      BY <1>2, <1>7, <2>2, <2>4, <3>1 DEF Select
    <3>3. Selected(C) \in C /\ CursorAfter(C) \in 0..(Count - 1)
      BY <1>3, <2>3, <2>4, SelectedIsCandidate
    <3>4. BatchSound(q, m, g, Barred)
      BY <1>1, <1>3, <2>1, <2>3, <2>4, <3>1, <3>3, AskingIsSound DEF MayTry
    <3>5. q.pc = "ask"
      BY <1>4, <3>1 DEF Task
    <3>6. PoolTypeOK' /\ Barred' = Barred
      BY <1>3, <2>1, <3>2, <3>3, PoolRests
    <3> QED
      BY <1>1, <2>1, <3>2, <3>4, <3>5, <3>6, OneBatchMoves
  <2>5. CASE ~(MayTry(t) /\ C # {})
    <3>1. cursor' = cursor
      BY <1>2, <1>7, <2>2, <2>5 DEF Select
    <3>2. PoolTypeOK' /\ Barred' = Barred
      BY <1>3, <2>1, <3>1 DEF PoolTypeOK, Barred
    <3>3. CASE MayTry(t) /\ t.fallback # None
      <4>1. PICK q : q = [t EXCEPT !.pc = "ask", !.at = t.fallback]
        OBVIOUS
      <4>2. Goto(g, q) /\ UNCHANGED <<status, results>>
        BY <1>2, <1>7, <2>2, <2>5, <3>3, <4>1 DEF Select
      <4>3. t.fallback \in Names \ (t.refuted \cup Barred)
        BY <1>4, <3>3 DEF Trusted
      <4>4. BatchSound(q, m, g, Barred)
        BY <1>1, <1>3, <2>1, <3>3, <4>1, <4>3, AskingIsSound DEF MayTry
      <4>5. q.pc = "ask"
        BY <1>4, <4>1 DEF Task
      <4> QED
        BY <1>1, <2>1, <3>2, <4>2, <4>4, <4>5, OneBatchMoves
    <3>4. CASE ~(MayTry(t) /\ t.fallback # None)
      <4>1. Raise
        BY <1>2, <1>7, <2>2, <2>5, <3>4 DEF Select
      <4> QED
        BY <2>1, <3>2, <4>1, RaiseIsSound
    <3> QED
      BY <3>3, <3>4
  <2> QED
    BY <2>4, <2>5
<1>8. CASE Answer(g)
  <2>1. uses_multicall /\ status = "running" /\ t.pc = "ask" /\ UNCHANGED <<cursor, number>>
    BY <1>2, <1>8 DEF Answer, Running
  <2>2. PICK b \in Reach(t.at) :
          IF Verified(b)
          THEN /\ record_success(t.at)
               /\ \E answer \in Bodies(Packed(t), b) : Accept(g, answer)
          ELSE /\ record_failure(t.at, "transient")
               /\ Refute(g)
    BY <1>2, <1>8 DEF Answer
  <2>3. b \in Blocks
    BY <2>2, ExecutionConstants DEF Reach, ReachByHash, ReachByNumber
  <2>4. PoolTypeOK' /\ Barred' = Barred
    <3>1. \/ record_success(t.at)
          \/ \E kind \in FailureKinds : record_failure(t.at, kind)
      BY <2>2 DEF FailureKinds
    <3> QED
      BY <1>3, <1>5, <2>1, <3>1, ReportsKeepBarred
  <2>5. CASE Verified(b)
    <3>1. b = Anchor
      BY <2>3, <2>5, SentinelsIdentify DEF Verified
    <3>2. PICK answer \in Bodies(Packed(t), Anchor) : Accept(g, answer)
      BY <2>2, <2>5, <3>1
    <3> QED
      BY <1>2, <2>1, <2>4, <3>2, AcceptIsSound
  <2>6. CASE ~Verified(b)
    BY <1>2, <2>1, <2>2, <2>4, <2>6, RefuteIsSound
  <2> QED
    BY <2>5, <2>6
<1>9. CASE AnswerGarbled(g)
  <2>1. /\ uses_multicall /\ status = "running" /\ t.pc = "ask" /\ UNCHANGED <<cursor, number>>
        /\ record_failure(t.at, "transient") /\ Refute(g)
    BY <1>2, <1>9 DEF AnswerGarbled, Running
  <2>2. PoolTypeOK' /\ Barred' = Barred
    BY <1>3, <1>5, <2>1, ReportsKeepBarred DEF FailureKinds
  <2> QED
    BY <1>2, <2>1, <2>2, RefuteIsSound
<1>10. ASSUME NEW kind \in FailureKinds, AskFails(g, kind) PROVE ExecutionSound'
  <2>1. /\ uses_multicall /\ status = "running" /\ t.pc = "ask" /\ UNCHANGED <<cursor, number>>
        /\ record_failure(t.at, kind)
    BY <1>2, <1>10 DEF AskFails, Running
  <2>2. PoolTypeOK' /\ Barred' = Barred
    BY <1>3, <1>5, <2>1, ReportsKeepBarred
  <2>3. CASE SplitOrRaise(g)
    BY <1>2, <2>1, <2>2, <2>3, SplitOrRaiseIsSound
  <2>4. CASE Raise
    BY <2>1, <2>2, <2>4, RaiseIsSound
  <2>5. CASE ~SplitOrRaise(g) /\ ~Raise
    <3>1. PICK f \in {t.at, None} : f = IF retryable(kind) THEN t.at ELSE None
      OBVIOUS
    <3>2. PICK q : q = [t EXCEPT !.pc = "select", !.at = None, !.attempt = t.attempt + 1,
                          !.tried = t.tried \cup {t.at}, !.fallback = f]
      OBVIOUS
    <3>3. Goto(g, q) /\ UNCHANGED <<status, results>>
      BY <1>2, <1>10, <2>5, <3>1, <3>2 DEF AskFails
    <3>4. BatchSound(q, m, g, Barred)
      BY <1>1, <1>3, <2>1, <3>1, <3>2, FailoverIsSound
    <3>5. q.pc = "select"
      BY <1>4, <3>2 DEF Task
    <3> QED
      BY <1>1, <2>1, <2>2, <3>3, <3>4, <3>5, OneBatchMoves
  <2> QED
    BY <2>3, <2>4, <2>5
<1> QED
  BY <1>6, <1>7, <1>8, <1>9, <1>10

(* The first member of a quorum is one of them. *)
LEMMA QuorumHasFirst ==
  ASSUME NEW M \in SUBSET Names, M # {}
  PROVE  (CHOOSE e \in M : \A d \in M : Position(e) <= Position(d)) \in M
<1>1. \A e \in M : Position(e) \in 1..Count
  BY PoolSequence DEF Position
<1>2. PICK S : S = {Position(e) : e \in M}
  OBVIOUS
<1>3. S \in SUBSET Nat /\ S # {}
  BY <1>1, <1>2, PoolSequence
<1>4. PICK p \in S : \A n \in S : p <= n
  BY <1>3, LeastNatural
<1>5. \E e \in M : \A d \in M : Position(e) <= Position(d)
  BY <1>2, <1>4
<1> QED
  BY <1>5

(* The steps of the legacy executor. *)
LEMMA LegacyStep ==
  ASSUME ExecutionSound, NEW g \in DOMAIN task,
         \/ SelectLegacy(g) \/ AnswerLegacy(g) \/ QuorumAnswers(g)
         \/ \E kind \in FailureKinds : AskFailsLegacy(g, kind) \/ QuorumFails(g, kind)
  PROVE  ExecutionSound'
<1>1. PICK m \in BOOLEAN : m = uses_multicall
  BY ExecutorIsChosen
<1>2. PICK t : t = task[g]
  OBVIOUS
<1>3. g \in Batches(m) /\ BatchSound(t, m, g, Barred) /\ PoolTypeOK
  BY <1>1, <1>2 DEF ExecutionSound
<1>4. t \in Task /\ Trusted(t, m, Barred) /\ t.attempt \in 0..max_retries
      /\ t.members \in SUBSET Names
  BY <1>3 DEF BatchSound, Task
<1>5. t.pc = "ask" => t.at \in Names \ Barred
  BY <1>4 DEF Trusted
<1>6. CASE SelectLegacy(g)
  <2>1. /\ ~m /\ status = "running" /\ t.pc = "select" /\ t.refuted = {}
        /\ UNCHANGED <<health, archived, number>>
    BY <1>1, <1>2, <1>4, <1>6 DEF SelectLegacy, Running, Trusted
  <2>2. PICK C : C = (Serving(number) \ t.tried) \cap Eip1898
    OBVIOUS
  <2>3. PICK M : M = QuorumMembers(quorum, number)
    OBVIOUS
  <2>4. C \in SUBSET Names /\ \A e \in C : e \in Names \ (t.refuted \cup Barred) /\ e \in Eip1898
    BY <2>1, <2>2 DEF Serving, can_serve, Barred
  <2>5. CASE MayTry(t) /\ C # {}
    <3>1. PICK q : q = [t EXCEPT !.pc = "ask", !.at = Selected(C)]
      OBVIOUS
    <3>2. /\ Goto(g, q) /\ cursor' = CursorAfter(C) /\ UNCHANGED <<status, results>>
      BY <1>2, <1>6, <2>2, <2>5, <3>1 DEF SelectLegacy
    <3>3. Selected(C) \in C /\ CursorAfter(C) \in 0..(Count - 1)
      BY <1>3, <2>4, <2>5, SelectedIsCandidate
    <3>4. BatchSound(q, m, g, Barred)
      BY <1>3, <2>1, <2>4, <2>5, <3>1, <3>3, AskingIsSound DEF MayTry
    <3>5. q.pc = "ask"
      BY <1>4, <3>1 DEF Task
    <3>6. PoolTypeOK' /\ Barred' = Barred
      BY <1>3, <2>1, <3>2, <3>3, PoolRests
    <3> QED
      BY <1>1, <2>1, <3>2, <3>4, <3>5, <3>6, OneBatchMoves
  <2>6. CASE ~(MayTry(t) /\ C # {})
    <3>1. cursor' = cursor
      BY <1>2, <1>6, <2>2, <2>6 DEF SelectLegacy
    <3>2. PoolTypeOK' /\ Barred' = Barred
      BY <1>3, <2>1, <3>1 DEF PoolTypeOK, Barred
    <3>3. CASE Cardinality(M) = quorum
      <4>1. PICK q : q = [t EXCEPT !.pc = "quorum", !.members = M]
        OBVIOUS
      <4>2. Goto(g, q) /\ UNCHANGED <<status, results>>
        BY <1>2, <1>6, <2>2, <2>3, <2>6, <3>3, <4>1 DEF SelectLegacy
      <4>3. M \in SUBSET Names /\ M \cap Steady # {}
        BY <2>3, <3>3, QuorumIsSteady
      <4>4. BatchSound(q, m, g, Barred)
        BY <1>3, <2>1, <4>1, <4>3, QuorumIsSound
      <4>5. q.pc = "quorum"
        BY <1>4, <4>1 DEF Task
      <4> QED
        BY <1>1, <2>1, <3>2, <4>2, <4>4, <4>5, OneBatchMoves
    <3>4. CASE Cardinality(M) # quorum
      <4>1. Raise
        BY <1>2, <1>6, <2>2, <2>3, <2>6, <3>4 DEF SelectLegacy
      <4> QED
        BY <2>1, <3>2, <4>1, RaiseIsSound
    <3> QED
      BY <3>3, <3>4
  <2> QED
    BY <2>5, <2>6
<1>7. CASE AnswerLegacy(g)
  <2>1. /\ ~m /\ status = "running" /\ t.pc = "ask" /\ UNCHANGED <<cursor, number>>
        /\ record_success(t.at)
    BY <1>1, <1>2, <1>7 DEF AnswerLegacy, Running
  <2>2. PICK b \in ReachByHash(t.at) : \E body \in Bodies(Head(t.todo), b) : Deliver(g, body)
    BY <1>2, <1>7 DEF AnswerLegacy
  <2>3. t.at \in Eip1898
    BY <1>4, <2>1 DEF Trusted
  <2>4. b = Anchor
    BY <2>2, <2>3, PinnedIsStrict DEF ReachByHash
  <2>5. PICK body \in Bodies(Head(t.todo), Anchor) : Deliver(g, body)
    BY <2>2, <2>4
  <2>6. body \in Seq(Results) /\ Len(body) = Length(Head(t.todo)) /\ Good(body, Head(t.todo)[1])
    BY <1>3, <2>1, <2>5, Current, AnchoredBodyIsGood
  <2>7. PoolTypeOK' /\ Barred' = Barred
    BY <1>3, <1>5, <2>1, ReportsKeepBarred
  <2> QED
    BY <1>2, <2>1, <2>5, <2>6, <2>7, DeliverIsSound
<1>8. CASE QuorumAnswers(g)
  <2>1. /\ status = "running" /\ t.pc = "quorum"
        /\ UNCHANGED <<cursor, health, archived, number>>
    BY <1>2, <1>8 DEF QuorumAnswers, Running
  <2>2. PICK first : first = CHOOSE e \in t.members :
                               \A d \in t.members : Position(e) <= Position(d)
    OBVIOUS
  <2>3. PICK answer :
          /\ DOMAIN answer = t.members
          /\ \A e \in t.members : \E b \in ReachByNumber(e) : answer[e] \in Bodies(Head(t.todo), b)
          /\ IF Agree(answer) THEN Deliver(g, answer[first]) ELSE Raise
    BY <1>2, <1>8, <2>2 DEF QuorumAnswers
  <2>4. PICK e \in t.members : e \in Steady
    BY <1>4, <2>1 DEF Trusted
  <2>5. answer[e] \in Bodies(Head(t.todo), Anchor)
    BY <2>3, <2>4 DEF ReachByNumber
  <2>6. PoolTypeOK' /\ Barred' = Barred
    BY <1>3, <2>1 DEF PoolTypeOK, Barred
  <2>7. CASE Agree(answer)
    <3>1. first \in t.members
      BY <1>4, <2>2, <2>4, QuorumHasFirst
    <3>2. PICK body \in Bodies(Head(t.todo), Anchor) : Deliver(g, body)
      BY <2>3, <2>4, <2>5, <2>7, <3>1 DEF Agree
    <3>3. body \in Seq(Results) /\ Len(body) = Length(Head(t.todo)) /\ Good(body, Head(t.todo)[1])
      BY <1>3, <2>1, <3>2, Current, AnchoredBodyIsGood
    <3> QED
      BY <1>2, <2>1, <2>6, <3>2, <3>3, DeliverIsSound
  <2>8. CASE ~Agree(answer)
    BY <2>1, <2>3, <2>6, <2>8, RaiseIsSound
  <2> QED
    BY <2>7, <2>8
<1>9. ASSUME NEW kind \in FailureKinds, AskFailsLegacy(g, kind) PROVE ExecutionSound'
  <2>1. /\ ~m /\ status = "running" /\ t.pc = "ask" /\ UNCHANGED <<cursor, number>>
        /\ record_failure(t.at, kind)
    BY <1>1, <1>2, <1>9 DEF AskFailsLegacy, Running
  <2>2. PoolTypeOK' /\ Barred' = Barred
    BY <1>3, <1>5, <2>1, ReportsKeepBarred
  <2>3. CASE SplitOrRaise(g)
    BY <1>2, <2>1, <2>2, <2>3, SplitOrRaiseIsSound
  <2>4. CASE Raise
    BY <2>1, <2>2, <2>4, RaiseIsSound
  <2>5. CASE ~SplitOrRaise(g) /\ ~Raise
    <3>1. PICK q : q = [t EXCEPT !.pc = "select", !.at = None, !.attempt = t.attempt + 1,
                          !.tried = t.tried \cup {t.at}]
      OBVIOUS
    <3>2. Goto(g, q) /\ UNCHANGED <<status, results>>
      BY <1>2, <1>9, <2>5, <3>1 DEF AskFailsLegacy
    <3>3. BatchSound(q, m, g, Barred)
      BY <1>3, <2>1, <3>1, FailoverIsSound
    <3>4. q.pc = "select"
      BY <1>4, <3>1 DEF Task
    <3> QED
      BY <1>1, <2>1, <2>2, <3>2, <3>3, <3>4, OneBatchMoves
  <2> QED
    BY <2>3, <2>4, <2>5
<1>10. ASSUME NEW kind \in FailureKinds, QuorumFails(g, kind) PROVE ExecutionSound'
  <2>1. /\ status = "running" /\ t.pc = "quorum"
        /\ UNCHANGED <<cursor, health, archived, number>>
        /\ SplitOrRaise(g) \/ Raise
    BY <1>2, <1>10 DEF QuorumFails, Running
  <2>2. PoolTypeOK' /\ Barred' = Barred
    BY <1>3, <2>1 DEF PoolTypeOK, Barred
  <2> QED
    BY <1>2, <2>1, <2>2, SplitOrRaiseIsSound, RaiseIsSound
<1> QED
  BY <1>6, <1>7, <1>8, <1>9, <1>10

(* The invariant holds when execute is entered. *)
LEMMA InitIsSound ==
  ASSUME Init
  PROVE  ExecutionSound
<1>1. PoolTypeOK
  <2>1. cursor = 0 /\ archived = {}
    BY DEF Init, PoolInit
  <2>2. PICK probed : health = [e \in Names |-> IF e \in probed THEN "ok" ELSE "barred"]
    BY DEF Init, PoolInit
  <2>3. health \in [Names -> Healths]
    BY <2>2 DEF Healths
  <2>4. 0 \in 0..(Count - 1)
    BY PoolSequence
  <2> QED
    BY <2>1, <2>3, <2>4 DEF PoolTypeOK
<1>2. number \in Numbers /\ status = "running" /\ results = <<>>
  BY DEF Init
<1>3. PICK m \in BOOLEAN : m = uses_multicall
  <2>1. uses_multicall \in BOOLEAN
    BY <1>2, ExecutionConstants DEF uses_multicall
  <2> QED
    BY <2>1
<1>4. <<>> \in Seq(Results) /\ Len(<<>>) = 0 /\ \A lo : Good(<<>>, lo)
  BY EmptySeq DEF Good
<1>5. \A g \in Batches(m) : Part(m, g)[1] + Len(<<>>) = Part(m, g)[1]
  BY BatchesStart
<1>6. CASE m
  <2>1. task = [g \in Groups |-> [Fresh(<<Group(g)>>, <<>>) EXCEPT !.pc = "queued"]]
        /\ Batches(m) = Groups
    BY <1>3, <1>6 DEF Init, Batches
  <2>2. DOMAIN task = Groups /\ task = [g \in Groups |-> task[g]]
    BY <2>1
  <2>3. ASSUME NEW g \in Groups
        PROVE  BatchSound(task[g], m, g, Barred) /\ task[g].pc # "cancelled"
    <3>1. PICK todo : todo = <<Group(g)>>
      OBVIOUS
    <3>2. task[g] = [Fresh(todo, <<>>) EXCEPT !.pc = "queued"]
      BY <2>1, <3>1
    <3>3. Part(m, g) = Group(g)
      BY <1>6 DEF Part
    <3>4. todo \in Seq(Segments) /\ todo # <<>> /\ Covers(todo, Part(m, g)[1], Part(m, g)[2])
      BY <3>1, <3>3, BatchesStart
    <3>5. BatchSound(task[g], m, g, Barred)
      <4>1. PICK out \in Seq(Results) : out = <<>>
        BY <1>4
      <4>2. Covers(todo, Part(m, g)[1] + Len(out), Part(m, g)[2]) /\ Good(out, Part(m, g)[1])
        BY <1>4, <1>5, <2>1, <3>4, <4>1
      <4>3. BatchSound([Fresh(todo, out) EXCEPT !.pc = "queued"], m, g, Barred)
        BY <3>4, <4>2, FreshIsSound
      <4> QED
        BY <3>2, <4>1, <4>3
    <3>6. task[g].pc # "cancelled"
      BY <3>2 DEF Fresh
    <3> QED
      BY <3>5, <3>6
  <2> QED
    BY <1>1, <1>2, <1>3, <1>4, <2>1, <2>2, <2>3 DEF ExecutionSound
<1>7. CASE ~m
  <2>1. task = [g \in {1} |-> Fresh([i \in Groups |-> Group(i)], <<>>)] /\ Batches(m) = {1}
    BY <1>3, <1>7 DEF Init, Batches
  <2>2. DOMAIN task = {1} /\ task = [g \in {1} |-> task[g]]
    BY <2>1
  <2>3. PICK todo : todo = [i \in Groups |-> Group(i)]
    OBVIOUS
  <2>4. Part(m, 1)[1] = 1 /\ Part(m, 1)[2] = NCalls
    BY <1>7 DEF Part
  <2>5. todo \in Seq(Segments) /\ todo # <<>> /\ Covers(todo, Part(m, 1)[1], Part(m, 1)[2])
    BY <2>3, <2>4, BatchesStart
  <2>6. task[1] = Fresh(todo, <<>>)
    BY <2>1, <2>3
  <2>7. BatchSound(task[1], m, 1, Barred)
    BY <1>4, <1>5, <2>1, <2>5, <2>6, FreshIsSound
  <2>8. task[1].pc # "cancelled"
    BY <2>6, FreshFields
  <2> QED
    BY <1>1, <1>2, <1>3, <1>4, <2>1, <2>2, <2>7, <2>8 DEF ExecutionSound
<1> QED
  BY <1>6, <1>7

(* The invariant is inductive: every step of every batch, of the pool and  *)
(* of the execution keeps it.                                              *)
LEMMA NextIsSound ==
  ASSUME ExecutionSound, [Next]_vars
  PROVE  ExecutionSound'
<1>0. PoolTypeOK
  BY DEF ExecutionSound
<1>1. CASE Return
  <2>1. /\ status' = "returned" /\ results' = Flattened[Len(task)] /\ AllDone
        /\ UNCHANGED <<cursor, health, archived, number, task>>
    BY <1>1 DEF Return
  <2>2. results' \in Seq(Results)
    BY <2>1, ReturnIsComplete
  <2>3. PoolTypeOK' /\ Barred' = Barred
    BY <1>0, <2>1 DEF PoolTypeOK, Barred
  <2>4. uses_multicall' = uses_multicall
    BY <2>1 DEF uses_multicall
  <2>5. status = "running"
    BY <1>1 DEF Return
  <2> QED
    BY <2>1, <2>2, <2>3, <2>4, <2>5 DEF ExecutionSound
<1>2. CASE Cooldown
  <2>1. PICK e \in Names : CooldownEnds(e)
    BY <1>2 DEF Cooldown
  <2>2. PoolTypeOK' /\ Barred' = Barred
    <3>1. e \in Names \ Barred /\ record_success(e) /\ cursor' = cursor
      BY <2>1 DEF CooldownEnds, record_success, Barred
    <3> QED
      BY <1>0, <3>1, ReportsKeepBarred
  <2>3. UNCHANGED <<number, task, status, results>>
    BY <1>2 DEF Cooldown
  <2> QED
    BY <2>2, <2>3, PoolMoves
<1>3. CASE Others
  <2>1. UNCHANGED <<number, task, status, results>>
    BY <1>3 DEF Others
  <2>2. CASE OtherSelects
    <3>1. PICK C : C \in SUBSET Names /\ C # {} /\ cursor' = CursorAfter(C)
      BY <2>2 DEF OtherSelects
    <3>2. UNCHANGED <<health, archived>>
      BY <2>2 DEF OtherSelects
    <3>3. cursor' \in 0..(Count - 1)
      BY <1>0, <3>1, SelectedIsCandidate
    <3> QED
      BY <1>0, <2>1, <3>2, <3>3, PoolRests, PoolMoves
  <2>3. CASE \E e \in Names : OtherReports(e)
    <3>1. PICK e \in Names : OtherReports(e)
      BY <2>3
    <3>2. /\ e \in Names \ Barred /\ cursor' = cursor
          /\ record_success(e) \/ \E kind \in FailureKinds : record_failure(e, kind)
      BY <3>1 DEF OtherReports, Barred
    <3>3. PoolTypeOK' /\ Barred' = Barred
      BY <1>0, <3>2, ReportsKeepBarred
    <3> QED
      BY <2>1, <3>3, PoolMoves
  <2> QED
    BY <1>3, <2>2, <2>3 DEF Others
<1>4. CASE \E g \in DOMAIN task : BatchStep(g)
  BY <1>4, MulticallStep, LegacyStep DEF BatchStep
<1>5. CASE UNCHANGED vars
  <2>1. UNCHANGED <<cursor, health, archived, number, task, status, results>>
    BY <1>5 DEF vars
  <2>2. PoolTypeOK' /\ Barred' = Barred
    BY <1>0, <2>1 DEF PoolTypeOK, Barred
  <2> QED
    BY <2>1, <2>2, PoolMoves
<1> QED
  BY <1>1, <1>2, <1>3, <1>4, <1>5 DEF Next

-----------------------------------------------------------------------------
(* The theorems.                                                           *)

(* Through every selection, failure, split, escalation and report of the   *)
(* batches that share the pool, a batch holds good results of the calls it *)
(* is past and the segments of the others, in order (execute,              *)
(* _execute_adaptive, _execute_once, _eth_call).                           *)
THEOREM ExecutionCorrect == Spec => []ExecutionSound
<1>1. Init => ExecutionSound
  BY InitIsSound
<1>2. ExecutionSound /\ [Next]_vars => ExecutionSound'
  BY NextIsSound
<1> QED
  BY <1>1, <1>2, PTL DEF Spec

(* The variables of an execution keep their types: no retry counter passes *)
(* max_retries and no result is of a call that was not asked.              *)
THEOREM ExecutionTypeCorrect == Spec => []TypeOK
<1>1. ExecutionSound => TypeOK
  <2> SUFFICES ASSUME ExecutionSound PROVE TypeOK
    OBVIOUS
  <2>1. PoolTypeOK /\ number \in Numbers /\ status \in {"running", "returned", "raised"}
    BY DEF ExecutionSound
  <2>2. \A i \in DOMAIN results : results[i] \in Results
    <3>1. results \in Seq(Results)
      BY DEF ExecutionSound
    <3> QED
      BY <3>1
  <2>3. ASSUME NEW g \in DOMAIN task
        PROVE  /\ task[g].pc \in States
               /\ task[g].at \in Names \cup {None}
               /\ task[g].fallback \in Names \cup {None}
               /\ task[g].tried \in SUBSET Names
               /\ task[g].refuted \in SUBSET Names
               /\ task[g].members \in SUBSET Names
               /\ task[g].attempt \in 0..max_retries
               /\ task[g].round \in 0..max_retries
               /\ task[g].nested \in 0..NCalls
               /\ \A i \in DOMAIN task[g].out : task[g].out[i] \in Results
               /\ \A i \in DOMAIN task[g].body : task[g].body[i] \in Results
    <3>1. PICK t \in Task : t = task[g]
      BY DEF ExecutionSound, BatchSound
    <3>2. t.out \in Seq(Results) /\ t.body \in Seq(Results)
      BY DEF Task
    <3>3. /\ \A i \in DOMAIN t.out : t.out[i] \in Results
          /\ \A i \in DOMAIN t.body : t.body[i] \in Results
      BY <3>2
    <3>4. /\ t.pc \in States
          /\ t.at \in Names \cup {None}
          /\ t.fallback \in Names \cup {None}
          /\ t.tried \in SUBSET Names
          /\ t.refuted \in SUBSET Names
          /\ t.members \in SUBSET Names
          /\ t.attempt \in 0..max_retries
          /\ t.round \in 0..max_retries
          /\ t.nested \in 0..NCalls
      BY DEF Task
    <3> QED
      BY <3>1, <3>3, <3>4
  <2> QED
    BY <2>1, <2>2, <2>3 DEF TypeOK
<1> QED
  BY <1>1, ExecutionCorrect, PTL

(* No batch asks an endpoint whose answer the sentinels refuted for it or  *)
(* that failed its probes, not even as the endpoint of the last transient  *)
(* failure when nothing else can be selected (_eth_call).                  *)
THEOREM AskedAreTrusted == Spec => []AskedIsTrusted
<1>1. ExecutionSound => AskedIsTrusted
  <2> SUFFICES ASSUME ExecutionSound, NEW g \in DOMAIN task, task[g].pc = "ask"
               PROVE  task[g].at \notin task[g].refuted /\ health[task[g].at] # "barred"
    BY DEF AskedIsTrusted
  <2>1. Trusted(task[g], uses_multicall, Barred)
    BY DEF ExecutionSound, BatchSound
  <2>2. task[g].at \in Names \ (task[g].refuted \cup Barred)
    BY <2>1 DEF Trusted
  <2> QED
    BY <2>2 DEF Barred
<1> QED
  BY <1>1, ExecutionCorrect, PTL

-----------------------------------------------------------------------------
(* The refinement.                                                         *)

(* A step of a batch ends the execution only with an exception. *)
LEMMA BatchStepsAreInternal ==
  ASSUME NEW g \in DOMAIN task, BatchStep(g)
  PROVE  status = "running" /\ (Raise \/ UNCHANGED <<status, results>>)
<1>1. CASE Admit(g)
  BY <1>1 DEF Admit, Running
<1>2. CASE Select(g)
  BY <1>2 DEF Select, Running
<1>3. ASSUME Refute(g) PROVE Raise \/ UNCHANGED <<status, results>>
  BY <1>3 DEF Refute
<1>4. ASSUME NEW body, Deliver(g, body) PROVE UNCHANGED <<status, results>>
  BY <1>4 DEF Deliver
<1>5. ASSUME NEW answer, Accept(g, answer) PROVE UNCHANGED <<status, results>>
  BY <1>5, <1>4 DEF Accept
<1>6. ASSUME SplitOrRaise(g) PROVE Raise \/ UNCHANGED <<status, results>>
  BY <1>6 DEF SplitOrRaise
<1>7. CASE Answer(g)
  <2>1. status = "running"
    BY <1>7 DEF Answer, Running
  <2>2. Refute(g) \/ \E answer : Accept(g, answer)
    BY <1>7 DEF Answer
  <2> QED
    BY <1>3, <1>5, <2>1, <2>2
<1>8. CASE AnswerGarbled(g)
  BY <1>3, <1>8 DEF AnswerGarbled, Running
<1>9. CASE SelectLegacy(g)
  BY <1>9 DEF SelectLegacy, Running
<1>10. CASE AnswerLegacy(g)
  BY <1>4, <1>10 DEF AnswerLegacy, Running
<1>11. CASE QuorumAnswers(g)
  <2>1. status = "running" /\ (Raise \/ \E body : Deliver(g, body))
    BY <1>11 DEF QuorumAnswers, Running
  <2> QED
    BY <1>4, <2>1
<1>12. ASSUME NEW kind \in FailureKinds,
              AskFails(g, kind) \/ AskFailsLegacy(g, kind) \/ QuorumFails(g, kind)
       PROVE  status = "running" /\ (Raise \/ UNCHANGED <<status, results>>)
  BY <1>6, <1>12 DEF AskFails, AskFailsLegacy, QuorumFails, Running
<1> QED
  BY <1>1, <1>2, <1>7, <1>8, <1>9, <1>10, <1>11, <1>12 DEF BatchStep

(* Returning is the abstract step of returning: one result per call, each  *)
(* the value at the anchor or a failure.                                   *)
LEMMA ReturnIsPinned ==
  ASSUME ExecutionSound, Return
  PROVE  Abstract!Return
<1>1. /\ status = "running" /\ status' = "returned" /\ AllDone
      /\ results' = Flattened[Len(task)]
  BY DEF Return
<1>2. PICK F \in Seq(Results) : results' = F /\ Len(F) = NCalls /\ Good(F, 1)
  BY <1>1, ReturnIsComplete
<1>3. F = [c \in 1..NCalls |-> F[c]]
  BY <1>2, LenProperties
<1>4. PICK value : value = [c \in 1..NCalls |-> F[c][2]]
  OBVIOUS
<1>5. ASSUME NEW c \in 1..NCalls
      PROVE  F[c] = <<c, value[c]>> /\ value[c] \in {Failed, Value[Anchor][c]}
  <2>1. 1 + c - 1 = c
    OBVIOUS
  <2>2. F[c] \in {<<c, Failed>>, <<c, Value[Anchor][c]>>}
    BY <1>2, <2>1 DEF Good
  <2>3. value[c] = F[c][2]
    BY <1>4
  <2> QED
    BY <2>2, <2>3
<1>6. value \in [1..NCalls -> {Failed} \cup {Value[Anchor][c] : c \in 1..NCalls}]
  BY <1>4, <1>5
<1>7. F = [c \in 1..NCalls |-> <<c, value[c]>>]
  BY <1>3, <1>5
<1> QED
  BY <1>1, <1>2, <1>5, <1>6, <1>7 DEF Abstract!Return

(* Whatever endpoints fail, fork, lag, limit or disagree, what execute     *)
(* does is what its contract allows: it returns one result per call, in    *)
(* the order of the calls, each the state at the anchor or a failure, or   *)
(* it raises; and once it has, nothing changes any more.  This is the      *)
(* safety part of ImplementsPinnedRead (HistoricalExecutorRouter.execute). *)
THEOREM ExecutionIsPinned ==
  Spec => Abstract!Init /\ [][Abstract!Next]_<<status, results>>
<1>1. Init => Abstract!Init
  BY DEF Init, Abstract!Init
<1>2. ExecutionSound /\ [Next]_vars => [Abstract!Next]_<<status, results>>
  <2> SUFFICES ASSUME ExecutionSound, [Next]_vars
               PROVE  Abstract!Next \/ UNCHANGED <<status, results>>
    OBVIOUS
  <2>1. CASE Return
    BY <2>1, ReturnIsPinned DEF Abstract!Next
  <2>2. CASE Cooldown \/ Others \/ UNCHANGED vars
    BY <2>2 DEF Cooldown, Others, vars
  <2>3. CASE \E g \in DOMAIN task : BatchStep(g)
    <3>1. status = "running" /\ (Raise \/ UNCHANGED <<status, results>>)
      BY <2>3, BatchStepsAreInternal
    <3> QED
      BY <3>1 DEF Raise, Abstract!Raise, Abstract!Next
  <2> QED
    BY <2>1, <2>2, <2>3 DEF Next
<1> QED
  BY <1>1, <1>2, ExecutionCorrect, PTL DEF Spec
=============================================================================
