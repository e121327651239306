-------------------------- MODULE DayAnchorsProofs --------------------------
(***************************************************************************)
(* Proofs about the day anchor, for every set of chain views, every        *)
(* boundary and every number of processes.                                 *)
(***************************************************************************)
EXTENDS DayAnchors, FiniteSetTheorems, TLAPS

USE DEF search

(* What a read returns is a block of the number asked for. *)
LEMMA ReadsAreBlocks ==
  ASSUME NEW n \in 0..Height, NEW b \in Reads(n)
  PROVE  b \in Blocks /\ b \in Block /\ b.number = n
<1>1. PICK v \in Views : b = v[n]
  BY DEF Reads
<1>2. v \in [0..Height -> Block] /\ v[n].number = n
  BY ViewsAssumption
<1>3. QED
  BY <1>1, <1>2, b \in Reads(n) DEF Blocks

(* A view's block is a block, with a number in the view's range. *)
LEMMA BlocksAreTyped ==
  ASSUME NEW b \in Blocks
  PROVE  b \in Block /\ b.number \in 0..Height
<1>1. PICK n \in 0..Height : b \in Reads(n)
  BY DEF Blocks
<1>2. QED
  BY <1>1, ReadsAreBlocks

-----------------------------------------------------------------------------
(* The anchor search, its types included, keeps a bracket around the       *)
(* boundary and stores only proofs, whichever view answers each read.      *)
THEOREM ResolutionCorrect == Spec => [](TypeOK /\ ResolutionSound /\ SearchBracket)
<1> DEFINE Inv == TypeOK /\ ResolutionSound /\ SearchBracket
<1> USE AnchorConstants
<1>1. Init => Inv
  BY DEF Init, TypeOK, ResolutionSound, SearchBracket, States
<1>2. Inv /\ [Next]_vars => Inv'
  <2> SUFFICES ASSUME Inv, [Next]_vars PROVE Inv'
    OBVIOUS
  <2>0. CASE UNCHANGED vars
    BY <2>0 DEF vars, TypeOK, ResolutionSound, SearchBracket
  <2> SUFFICES ASSUME NEW p \in Procs, Step(p) \/ Fail(p) PROVE Inv'
    BY <2>0 DEF Next
  <2> USE DEF TypeOK, ResolutionSound, SearchBracket, States, Goto
  <2>1. CASE ReadTip(p)
    <3>1. PICK t \in Blocks : t.timestamp >= Boundary /\ tip' = [tip EXCEPT ![p] = t]
      BY <2>1 DEF ReadTip
    <3>2. QED
      BY <2>1, <3>1, BlocksAreTyped DEF ReadTip
  <2>2. CASE ReadGenesis(p)
    <3>0. tip[p] \in Blocks /\ tip[p] \in Block /\ tip[p].timestamp >= Boundary
      BY <2>2, BlocksAreTyped DEF ReadGenesis
    <3>1. PICK g \in (IF tip[p].number = 0 THEN {tip[p]} ELSE Reads(0)) :
            IF g.timestamp >= Boundary
            THEN Goto(p, "idle") /\ UNCHANGED <<low, high>>
            ELSE /\ low' = [low EXCEPT ![p] = g]
                 /\ high' = [high EXCEPT ![p] = tip[p]]
                 /\ Goto(p, "search")
      BY <2>2 DEF ReadGenesis
    <3>2. g \in Blocks /\ g \in Block /\ g.number = 0
      BY <3>0, <3>1, ReadsAreBlocks
    <3>3. CASE g.timestamp >= Boundary
      BY <2>2, <3>1, <3>3 DEF ReadGenesis
    <3>4. CASE ~(g.timestamp >= Boundary)
      <4>1. tip[p].number # 0
        BY <3>0, <3>1, <3>4
      <4>2. tip[p].number \in Nat /\ g.timestamp \in Nat
        BY <3>0, <3>2 DEF Block
      <4>3. QED
        BY <2>2, <3>0, <3>1, <3>2, <3>4, <4>1, <4>2 DEF ReadGenesis
    <3>5. QED
      BY <3>3, <3>4
  <2>3. CASE Probe(p)
    <3>0. /\ low[p] \in Blocks /\ high[p] \in Blocks
          /\ low[p].number \in 0..Height /\ high[p].number \in 0..Height
      BY <2>3, BlocksAreTyped DEF Probe
    <3>1. /\ Middle(p) \in 0..Height
          /\ low[p].number < Middle(p) /\ Middle(p) < high[p].number
      BY <2>3, <3>0 DEF Probe, Middle, Distance
    <3>2. PICK b \in Reads(Middle(p)) :
            IF Before(b) THEN low' = [low EXCEPT ![p] = b] /\ UNCHANGED high
                         ELSE high' = [high EXCEPT ![p] = b] /\ UNCHANGED low
      BY <2>3 DEF Probe
    <3>3. b \in Blocks /\ b \in Block /\ b.number = Middle(p) /\ b.timestamp \in Nat
      BY <3>1, <3>2, ReadsAreBlocks DEF Block
    <3>4. QED
      BY <2>3, <3>0, <3>1, <3>2, <3>3 DEF Probe, Before
  <2>4. CASE Confirm(p)
    <3>1. PICK a \in Reads(low[p].number), n \in Reads(high[p].number) :
            Goto(p, IF /\ a = low[p] /\ n = high[p]
                       /\ validate_resolved_anchor(a, n, tip[p])
                    THEN "check" ELSE "idle")
      BY <2>4 DEF Confirm
    <3>2. pc'[p] = "check" => IsProof(low[p], high[p])
      BY <2>4, <3>1 DEF Confirm, IsProof, validate_resolved_anchor
    <3>3. QED
      BY <2>4, <3>1, <3>2 DEF Confirm
  <2>5. CASE CheckStored(p)
    <3>1. /\ pc[p] = "check"
          /\ pc' \in {[pc EXCEPT ![p] = s] : s \in {"insert", "resolved", "idle"}}
          /\ missed' \in {[missed EXCEPT ![p] = m] : m \in BOOLEAN}
          /\ UNCHANGED <<stored, search>>
      BY <2>5 DEF CheckStored
    <3>2. QED
      BY <3>1
  <2>6. CASE InsertAnchor(p)
    <3> DEFINE r == [anchor |-> low[p], next |-> high[p]]
    <3>1. IsProof(low[p], high[p])
      BY <2>6 DEF InsertAnchor
    <3>2. low[p] \in Block /\ high[p] \in Block
      BY <3>1, BlocksAreTyped DEF IsProof
    <3>3. r \in [anchor : Block, next : Block] /\ IsProof(r.anchor, r.next)
      BY <3>1, <3>2
    <3>4. stored' = stored \cup {r}
      BY <2>6 DEF InsertAnchor
    <3>5. QED
      BY <2>6, <3>3, <3>4 DEF InsertAnchor
  <2>7. CASE Fail(p)
    BY <2>7 DEF Fail
  <2>8. QED
    BY <2>1, <2>2, <2>3, <2>4, <2>5, <2>6, <2>7 DEF Step
<1>3. QED
  BY <1>1, <1>2, PTL DEF Spec

(* When every view obeys the chain's own rules, a stored anchor is the     *)
(* last block before the boundary of a single view (resolve never stores a *)
(* pair of two forks).                                                     *)
THEOREM AnchorsAreDayEnds ==
  ASSUME HonestViews
  PROVE  Spec => []AnchorIsDayEnd
<1>1. ResolutionSound => AnchorIsDayEnd
  <2> SUFFICES ASSUME ResolutionSound, NEW r \in stored
               PROVE  \E v \in Views :
                        /\ v[r.anchor.number] = r.anchor
                        /\ \A n \in 0..Height :
                             v[n].timestamp < Boundary <=> n <= r.anchor.number
    BY DEF AnchorIsDayEnd
  <2>1. IsProof(r.anchor, r.next)
    BY DEF ResolutionSound
  <2> DEFINE k == r.anchor.number
  <2>2. k \in 0..Height /\ r.next.number \in 0..Height /\ r.next.number = k + 1
    BY <2>1, BlocksAreTyped DEF IsProof
  <2>3. PICK v \in Views : r.next = v[k + 1]
    BY <2>1, <2>2, ViewsAssumption DEF IsProof, Blocks, Reads
  <2>4. v[k].hash = r.anchor.hash
    BY <2>1, <2>2, <2>3, AnchorConstants DEF IsProof, HonestViews
  <2>5. PICK w \in Views : r.anchor = w[k]
    BY <2>1, <2>2, ViewsAssumption DEF IsProof, Blocks, Reads
  <2>6. v[k] = r.anchor
    BY <2>2, <2>4, <2>5 DEF HonestViews
  <2>7. ASSUME NEW n \in 0..Height PROVE v[n].timestamp \in Nat
    <3>1. v[n] \in Block
      BY ViewsAssumption
    <3>2. QED
      BY <3>1 DEF Block
  <2>8. ASSUME NEW n \in 0..Height
        PROVE  v[n].timestamp < Boundary <=> n <= k
    <3>1. v[k].timestamp < Boundary /\ v[k + 1].timestamp >= Boundary
      BY <2>1, <2>3, <2>6 DEF IsProof
    <3>2. n < k => v[n].timestamp < v[k].timestamp
      BY <2>2 DEF HonestViews
    <3>3. n > k + 1 => v[k + 1].timestamp < v[n].timestamp
      BY <2>2 DEF HonestViews
    <3>4. QED
      BY <2>2, <2>7, <3>1, <3>2, <3>3, AnchorConstants
  <2>9. QED
    BY <2>6, <2>8
<1>2. QED
  BY <1>1, ResolutionCorrect, PTL

-----------------------------------------------------------------------------
(* A date whose anchor is canonical while nobody is about to insert keeps  *)
(* it, for any number of processes of both lock classes: persist's check   *)
(* stops every later resolution unless its read misses the stored row      *)
(* (AnchorStoreService.persist).                                           *)
THEOREM SettledAnchorStays == Spec => AnchorSettles
<1> DEFINE P == Settled => /\ canonical' = canonical
                           /\ \A p \in Procs : pc'[p] = "insert" => missed'[p]
<1>1. TypeOK /\ [Next]_vars => [P]_vars
  <2> SUFFICES ASSUME TypeOK, Settled, NEW q \in Procs, Step(q) \/ Fail(q)
               PROVE  /\ canonical' = canonical
                      /\ \A p \in Procs : pc'[p] = "insert" => missed'[p]
    BY DEF Next
  <2>0. \A p \in Procs : pc[p] # "insert"
    BY DEF Settled
  <2>1. stored' = stored
    BY <2>0 DEF Step, ReadTip, ReadGenesis, Probe, Confirm, CheckStored, InsertAnchor,
       Fail
  <2>2. canonical' = canonical
    BY <2>1 DEF canonical, CanonicalOf
  <2>3. CASE CheckStored(q)
    <3>1. PICK seen \in SUBSET stored :
            /\ pc' = [pc EXCEPT ![q] = CASE CanonicalOf(seen) = None -> "insert"
                                         [] CanonicalOf(seen) = low[q] -> "resolved"
                                         [] OTHER -> "idle"]
            /\ missed' = [missed EXCEPT ![q] = CanonicalOf(seen) = None /\ seen # stored]
      BY <2>3 DEF CheckStored, Goto
    <3>2. pc'[q] = "insert" => CanonicalOf(seen) = None
      BY <3>1 DEF TypeOK
    <3>3. CanonicalOf(seen) = None => seen # stored
      BY DEF Settled, canonical
    <3>4. pc'[q] = "insert" => missed'[q]
      BY <3>1, <3>2, <3>3 DEF TypeOK
    <3>5. \A p \in Procs \ {q} : pc'[p] = pc[p]
      BY <3>1 DEF TypeOK
    <3> QED
      BY <2>0, <2>2, <3>4, <3>5
  <2>4. CASE ~CheckStored(q)
    <3>1. \A p \in Procs : pc'[p] # "insert"
      BY <2>0, <2>4 DEF Step, ReadTip, ReadGenesis, Probe, Confirm, InsertAnchor, Fail,
         Goto, TypeOK
    <3> QED
      BY <2>2, <3>1
  <2> QED
    BY <2>3, <2>4
<1> QED
  BY <1>1, ResolutionCorrect, PTL DEF Spec, AnchorSettles

-----------------------------------------------------------------------------
(* The bracket of resolve's bisection stays around the boundary, also when *)
(* the provider changes its view between two probes.                       *)
THEOREM BracketHolds == Spec => []SearchBracket
BY ResolutionCorrect, PTL

(* What makes the bisection end, whichever view answers: every probe at    *)
(* least halves the bracket, rounded up, and never empties it.             *)
SearchHalves ==
  [][\A p \in Procs :
       Probe(p) => Distance(p)' >= 1 /\ 2 * Distance(p)' <= Distance(p) + 1]_vars

(* The bisection of resolve takes a logarithmic number of reads. *)
THEOREM ProbesHalve == Spec => SearchHalves
<1> DEFINE P == \A p \in Procs :
                  Probe(p) => Distance(p)' >= 1 /\ 2 * Distance(p)' <= Distance(p) + 1
<1>1. TypeOK /\ ResolutionSound /\ SearchBracket => P
  <2> SUFFICES ASSUME TypeOK, ResolutionSound, SearchBracket, NEW p \in Procs, Probe(p)
               PROVE  Distance(p)' >= 1 /\ 2 * Distance(p)' <= Distance(p) + 1
    OBVIOUS
  <2>1. low[p] \in Blocks /\ high[p] \in Blocks
    BY DEF ResolutionSound, Probe
  <2>2. PICK l, h \in 0..Height : l = low[p].number /\ h = high[p].number
    BY <2>1, BlocksAreTyped
  <2>3. h - l > 1 /\ Middle(p) = l + (h - l) \div 2 /\ Distance(p) = h - l
    BY <2>2 DEF Probe, Middle, Distance
  <2>4. PICK m \in 0..Height : m = Middle(p) /\ l < m /\ m < h
                               /\ 2 * (m - l) <= h - l /\ 2 * (h - m) <= h - l + 1
    BY <2>2, <2>3, AnchorConstants
  <2>5. PICK b \in Reads(m) :
          IF Before(b) THEN low' = [low EXCEPT ![p] = b] /\ UNCHANGED high
                       ELSE high' = [high EXCEPT ![p] = b] /\ UNCHANGED low
    BY <2>4 DEF Probe
  <2>6. b.number = m
    BY <2>5, ReadsAreBlocks
  <2>7. Distance(p)' \in {m - l, h - m}
    BY <2>2, <2>5, <2>6 DEF Distance, TypeOK
  <2> QED
    BY <2>3, <2>4, <2>7
<1> QED
  BY <1>1, ResolutionCorrect, PTL DEF SearchHalves

-----------------------------------------------------------------------------
(* A date with a stored anchor has a canonical one. *)
DateKept == stored # {} => canonical # None

(* The canonical view shows the anchor of a date that has one. *)
LEMMA OneRowIsCanonical ==
  ASSUME TypeOK, NEW r \in stored, \A s \in stored : s = r
  PROVE  canonical # None
<1>1. stored = {r} /\ r.anchor \in Block
  BY DEF TypeOK
<1>2. Cardinality(stored) = 1
  BY <1>1, FS_Singleton
<1>3. (CHOOSE s \in stored : TRUE) = r
  BY <1>1
<1> QED
  BY <1>1, <1>2, <1>3, AnchorConstants DEF canonical, CanonicalOf

(* A process that writes anchors alone hides the date it resolved only     *)
(* when a check misses the row it stored itself, however often it fails    *)
(* and starts again (persist, v_day_anchors_canonical).                    *)
THEOREM LoneWriterKeepsDate ==
  ASSUME \A p, q \in Procs : p = q
  PROVE  Spec /\ [](\A p \in Procs : ~missed[p]) => []DateKept
<1> DEFINE Read == \A p \in Procs : ~missed[p]
           Alone == /\ \A r, s \in stored : r = s
                    /\ \A p \in Procs : pc[p] = "insert" => stored = {}
<1>1. Init => Alone
  BY DEF Init
<1>2. TypeOK /\ Read' /\ Alone /\ [Next]_vars => Alone'
  <2>0. CASE UNCHANGED vars
    BY <2>0 DEF vars
  <2> SUFFICES ASSUME TypeOK, Read', Alone, NEW p \in Procs, Step(p) \/ Fail(p) PROVE Alone'
    BY <2>0 DEF Next
  <2>1. CASE ReadTip(p) \/ ReadGenesis(p) \/ Probe(p) \/ Confirm(p) \/ Fail(p)
    BY <2>1 DEF ReadTip, ReadGenesis, Probe, Confirm, Fail, Goto, TypeOK
  <2>2. CASE CheckStored(p)
    <3>1. PICK seen \in SUBSET stored :
            /\ pc' = [pc EXCEPT ![p] = CASE CanonicalOf(seen) = None -> "insert"
                                         [] CanonicalOf(seen) = low[p] -> "resolved"
                                         [] OTHER -> "idle"]
            /\ missed' = [missed EXCEPT ![p] = CanonicalOf(seen) = None /\ seen # stored]
      BY <2>2 DEF CheckStored, Goto
    <3>2. pc'[p] = "insert" => CanonicalOf(seen) = None
      BY <3>1 DEF TypeOK
    <3>3. ~missed'[p]
      OBVIOUS
    <3>4. CanonicalOf(seen) = None => seen = stored
      BY <3>1, <3>3 DEF TypeOK
    <3>5. canonical = None => stored = {}
      BY OneRowIsCanonical
    <3>6. pc'[p] = "insert" => stored = {}
      BY <3>2, <3>4, <3>5 DEF canonical
    <3> QED
      BY <2>2, <3>6 DEF CheckStored
  <2>3. CASE InsertAnchor(p)
    BY <2>3 DEF InsertAnchor, Goto, TypeOK
  <2> QED
    BY <2>1, <2>2, <2>3 DEF Step
<1>3. TypeOK /\ Alone => DateKept
  BY OneRowIsCanonical DEF DateKept
<1> HIDE DEF Read, Alone
<1>4. Spec /\ []Read => []DateKept
  BY <1>1, <1>2, <1>3, ResolutionCorrect, PTL DEF Spec
<1> QED
  BY <1>4 DEF Read

(* Without a fork no number of concurrent writers and no lagging read      *)
(* hides a date: every row that is ever stored is the same one.            *)
THEOREM OneViewKeepsDate ==
  ASSUME HonestViews, \A v, w \in Views : v = w
  PROVE  Spec => []DateKept
<1>1. TypeOK /\ ResolutionSound /\ AnchorIsDayEnd => DateKept
  <2> SUFFICES ASSUME TypeOK, ResolutionSound, AnchorIsDayEnd,
                      NEW r \in stored, NEW s \in stored
               PROVE  r = s
    BY OneRowIsCanonical DEF DateKept
  <2>1. IsProof(r.anchor, r.next) /\ IsProof(s.anchor, s.next)
    BY DEF ResolutionSound
  <2>2. PICK v \in Views :
          /\ v[r.anchor.number] = r.anchor
          /\ \A n \in 0..Height : v[n].timestamp < Boundary <=> n <= r.anchor.number
    BY DEF AnchorIsDayEnd
  <2>3. /\ v[s.anchor.number] = s.anchor
        /\ \A n \in 0..Height : v[n].timestamp < Boundary <=> n <= s.anchor.number
    BY DEF AnchorIsDayEnd
  <2>4. r.anchor.number \in 0..Height /\ s.anchor.number \in 0..Height
    BY <2>1, BlocksAreTyped DEF IsProof
  <2>5. r.anchor.number = s.anchor.number
    BY <2>2, <2>3, <2>4, AnchorConstants
  <2>6. ASSUME NEW b \in Blocks PROVE b = v[b.number]
    BY ReadsAreBlocks DEF Blocks, Reads
  <2>7. r.anchor = s.anchor /\ r.next = s.next
    BY <2>1, <2>5, <2>6 DEF IsProof
  <2> QED
    BY <2>7 DEF TypeOK
<1> QED
  BY <1>1, ResolutionCorrect, AnchorsAreDayEnds, PTL
=============================================================================
