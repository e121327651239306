----------------------------- MODULE DayAnchors -----------------------------
(***************************************************************************)
(* The anchor of one UTC date: AnchorResolver.resolve (core/anchors.py),   *)
(* AnchorStoreService.persist (core/census.py) and the anchor views of     *)
(* migrations/007_views.sql.                                               *)
(*                                                                         *)
(* An endpoint, or a proxy in front of several, may answer each read from  *)
(* another view of the chain.  A process finds the last block before the   *)
(* boundary by bisection, reads the two blocks of the proof again,         *)
(* validates them, reads the stored anchor and inserts its own when there  *)
(* is none.  Processes of the two lock classes of the writer guard do this *)
(* side by side.                                                           *)
(***************************************************************************)
EXTENDS Integers, FiniteSets

CONSTANTS
  Procs,         \* processes that resolve the date's anchor
  Views,         \* views of the chain: functions from numbers to blocks
  Height,        \* number of the highest block of a view
  Boundary,      \* utc_day_end_timestamp
  None           \* no block

Block == [number : Nat, hash : {v[n].hash : v \in Views, n \in 0..Height},
          parent_hash : {v[n].parent_hash : v \in Views, n \in 0..Height},
          timestamp : Nat]

(* parse_block refuses a block with another number than the one asked for. *)
ASSUME ViewsAssumption ==
  \A v \in Views : /\ v \in [0..Height -> Block]
                   /\ \A n \in 0..Height : v[n].number = n
ASSUME AnchorConstants ==
  /\ Height \in Nat
  /\ Boundary \in Nat
  /\ None \notin Block

VARIABLES
  stored,  \* day_anchors: [anchor, next] pairs of the date
  pc,      \* [Procs -> control state]
  tip,     \* [Procs -> safe tip]
  low,     \* [Procs -> block known to be before the boundary]
  high,    \* [Procs -> block known not to be before the boundary]
  missed   \* [Procs -> the check found no anchor, and missed stored rows]
           \* (history, while the process is about to insert)

search == <<tip, low, high>>
vars == <<stored, pc, search, missed>>

States == {"idle", "genesis", "search", "check", "insert", "resolved"}

TypeOK ==
  /\ stored \subseteq [anchor : Block, next : Block]
  /\ pc \in [Procs -> States]
  /\ tip \in [Procs -> Block \cup {None}]
  /\ low \in [Procs -> Block \cup {None}]
  /\ high \in [Procs -> Block \cup {None}]
  /\ missed \in [Procs -> BOOLEAN]

Init ==
  /\ stored = {}
  /\ pc = [p \in Procs |-> "idle"]
  /\ tip = [p \in Procs |-> None]
  /\ low = [p \in Procs |-> None]
  /\ high = [p \in Procs |-> None]
  /\ missed = [p \in Procs |-> FALSE]

Goto(p, state) == pc' = [pc EXCEPT ![p] = state]

(* _read_by_number: a block of this number, in any view. *)
Reads(n) == {v[n] : v \in Views}
Blocks == UNION {Reads(n) : n \in 0..Height}

-----------------------------------------------------------------------------
(* AnchorResolver.resolve                                                  *)

(* _safe_tip: the finalized block or, where the tag is not supported, the  *)
(* block fallback_confirmation_depth below the latest one, read on its     *)
(* own: a block of any number, in any view.  resolve raises when it has    *)
(* not passed the boundary.                                                *)
ReadTip(p) ==
  /\ pc[p] \in {"idle", "resolved"}
  /\ \E t \in Blocks :
       /\ t.timestamp >= Boundary
       /\ tip' = [tip EXCEPT ![p] = t]
  /\ Goto(p, "genesis")
  /\ UNCHANGED <<stored, low, high, missed>>

(* The tip itself, when it has number 0, comes from the cache. *)
ReadGenesis(p) ==
  /\ pc[p] = "genesis"
  /\ \E g \in (IF tip[p].number = 0 THEN {tip[p]} ELSE Reads(0)) :
       IF g.timestamp >= Boundary
       THEN Goto(p, "idle") /\ UNCHANGED <<low, high>>
       ELSE /\ low' = [low EXCEPT ![p] = g]
            /\ high' = [high EXCEPT ![p] = tip[p]]
            /\ Goto(p, "search")
  /\ UNCHANGED <<stored, tip, missed>>

Distance(p) == high[p].number - low[p].number
(* Mutant: the middle may be the lower end. *)
Middle_third(p) == low[p].number + Distance(p) \div 3
Middle(p) == low[p].number + Distance(p) \div 2

(* Mutant: a block at the boundary counts as before it. *)
Before_inclusive(b) == b.timestamp <= Boundary
Before(b) == b.timestamp < Boundary

(* One round of the bisection. *)
Probe(p) ==
  /\ pc[p] = "search"
  /\ Distance(p) > 1
  /\ \E b \in Reads(Middle(p)) :
       IF Before(b) THEN low' = [low EXCEPT ![p] = b] /\ UNCHANGED high
                    ELSE high' = [high EXCEPT ![p] = b] /\ UNCHANGED low
  /\ UNCHANGED <<stored, pc, tip, missed>>

(* Mutant: the proof blocks need not be linked. *)
validate_resolved_anchor_unlinked(anchor, next, safe) ==
  /\ anchor.timestamp < Boundary
  /\ next.timestamp >= Boundary
  /\ next.number = anchor.number + 1
  /\ next.number <= safe.number
validate_resolved_anchor(anchor, next, safe) ==
  /\ anchor.timestamp < Boundary
  /\ next.timestamp >= Boundary
  /\ next.number = anchor.number + 1
  /\ next.parent_hash = anchor.hash
  /\ next.number <= safe.number

(* The proof blocks are read again; a changed block, or a pair that is no  *)
(* proof, raises.                                                          *)
Confirm(p) ==
  /\ pc[p] = "search"
  /\ Distance(p) <= 1
  /\ \E a \in Reads(low[p].number), n \in Reads(high[p].number) :
       Goto(p, IF /\ a = low[p] /\ n = high[p]
                  /\ validate_resolved_anchor(a, n, tip[p])
               THEN "check" ELSE "idle")
  /\ UNCHANGED <<stored, search, missed>>

-----------------------------------------------------------------------------
(* AnchorStoreService.persist                                              *)

(* v_day_anchors_canonical over some rows: the one resolution, when there  *)
(* is one.  The finalized flag is always set.                              *)
CanonicalOf(rows) ==
  IF Cardinality(rows) = 1 THEN (CHOOSE r \in rows : TRUE).anchor ELSE None
canonical == CanonicalOf(stored)

(* Mutant: the stored anchor is read and not compared. *)
CheckStored_blind(p) ==
  /\ pc[p] = "check"
  /\ Goto(p, "insert")
  /\ UNCHANGED <<stored, search, missed>>
(* canonical_anchor is a plain read, which may miss rows of the store.     *)
(* assert_anchor_immutable raises on another anchor than the stored one;   *)
(* without a canonical anchor, persist goes on to insert.                  *)
CheckStored(p) ==
  /\ pc[p] = "check"
  /\ \E seen \in SUBSET stored :
       LET existing == CanonicalOf(seen) IN
       /\ Goto(p, CASE existing = None -> "insert"
                    [] existing = low[p] -> "resolved"
                    [] OTHER -> "idle")
       /\ missed' = [missed EXCEPT ![p] = existing = None /\ seen # stored]
  /\ UNCHANGED <<stored, search>>

(* The row lands and persist returns, or the insert raises after it. *)
InsertAnchor(p) ==
  /\ pc[p] = "insert"
  /\ stored' = stored \cup {[anchor |-> low[p], next |-> high[p]]}
  /\ Goto(p, "resolved") \/ Goto(p, "idle")
  /\ missed' = [missed EXCEPT ![p] = FALSE]
  /\ UNCHANGED search

(* A call raises, or the process dies. *)
Fail(p) ==
  /\ pc[p] \in {"genesis", "search", "check", "insert"}
  /\ Goto(p, "idle")
  /\ missed' = [missed EXCEPT ![p] = FALSE]
  /\ UNCHANGED <<stored, search>>

-----------------------------------------------------------------------------
Step(p) ==
  \/ ReadTip(p)
  \/ ReadGenesis(p)
  \/ Probe(p)
  \/ Confirm(p)
  \/ CheckStored(p)
  \/ InsertAnchor(p)

Next == \E p \in Procs : Step(p) \/ Fail(p)

Spec == Init /\ [][Next]_vars

(* RPC and ClickHouse calls return or time out. *)
FairSpec == Spec /\ \A p \in Procs : WF_vars(Step(p))

-----------------------------------------------------------------------------
(* Properties.                                                             *)

(* "Invariant: low timestamp < boundary, high timestamp >= boundary"       *)
(* (resolve), which a provider that changes its view between two probes    *)
(* does not break.                                                         *)
SearchBracket ==
  \A p \in Procs : pc[p] \in {"search", "check", "insert"} =>
    /\ low[p].timestamp < Boundary
    /\ high[p].timestamp >= Boundary
    /\ low[p].number < high[p].number

(* The chain's own rules in every view: a hash names one block, a block    *)
(* names its parent, and timestamps increase.                              *)
HonestViews ==
  /\ \A v, w \in Views : \A m, n \in 0..Height :
       v[m].hash = w[n].hash => v[m] = w[n]
  /\ \A v \in Views : \A n \in 1..Height :
       v[n].parent_hash = v[n - 1].hash
  /\ \A v \in Views : \A m, n \in 0..Height :
       m < n => v[m].timestamp < v[n].timestamp

(* A stored anchor is the last block before the boundary in some view of   *)
(* the chain: a "mixed-fork pair" (resolve) is never stored.               *)
AnchorIsDayEnd ==
  \A r \in stored : \E v \in Views :
    /\ v[r.anchor.number] = r.anchor
    /\ \A n \in 0..Height : v[n].timestamp < Boundary <=> n <= r.anchor.number

(* The inductive strengthening of AnchorIsDayEnd: the blocks a process     *)
(* holds are blocks of a view, and what it is about to store is a proof.   *)
IsProof(anchor, next) ==
  /\ anchor \in Blocks /\ next \in Blocks
  /\ anchor.timestamp < Boundary
  /\ next.timestamp >= Boundary
  /\ next.number = anchor.number + 1
  /\ next.parent_hash = anchor.hash
ResolutionSound ==
  /\ \A p \in Procs :
       /\ pc[p] = "genesis" => tip[p] \in Blocks /\ tip[p].timestamp >= Boundary
       /\ pc[p] \in {"search", "check", "insert"} =>
            low[p] \in Blocks /\ high[p] \in Blocks
       /\ pc[p] \in {"check", "insert"} => IsProof(low[p], high[p])
  /\ \A r \in stored : IsProof(r.anchor, r.next)

(* Once a date has its canonical anchor and no process is between its      *)
(* check and its insert, the anchor stays: only a check on a replica that  *)
(* misses the stored row gets a process to the insert again.  The race of  *)
(* the two lock classes in persist is thus over with the inserts that were *)
(* under way when the first row landed.                                    *)
Settled == canonical # None /\ \A p \in Procs : pc[p] # "insert"
AnchorSettles ==
  [][Settled => /\ canonical' = canonical
                /\ \A p \in Procs : pc'[p] = "insert" => missed'[p]]_vars

(* The bisection ends, also when the view changes under it. *)
SearchEnds == \A p \in Procs : pc[p] = "search" ~> pc[p] # "search"
=============================================================================
