------------------------- MODULE DiscoveryCoverage -------------------------
(***************************************************************************)
(* Gap-free holder discovery: DiscoveryService.advance and _scan_gap       *)
(* (core/discovery_service.py) over StrictLogScanner.scan_filter           *)
(* (core/discovery.py), for one token and one event.                       *)
(*                                                                         *)
(* Several processes may advance at once: the discover command has a lock  *)
(* class of its own and runs beside a census that advances discovery too.  *)
(* A process reads the completed ranges, scans each gap in chunks that are *)
(* halved whenever the provider limits or may have cut the answer, inserts *)
(* the holders it saw and only then the completed ranges.  It may crash,   *)
(* and every read and insert may fail, between any two of these steps.     *)
(*                                                                         *)
(* The chain up to the anchors is finalized, so its logs are a constant.   *)
(***************************************************************************)
EXTENDS BlockRanges, FiniteSets

CONSTANTS
  Procs,             \* processes that advance discovery
  Logs,              \* the event's logs: <<block, holder>> pairs
  deployment_block,  \* first block of the token
  Anchors,           \* anchor blocks advance is called with
  chunk_size,        \* initial_chunk_size
  result_cap,        \* provider_result_cap
  ProviderCap,       \* number of logs at which the provider cuts an answer
  MaxFaults          \* bound on failures, crashes and stale reads

ASSUME LogsAssumption == Logs \subseteq Nat \X {l[2] : l \in Logs}
ASSUME RangeAssumption ==
  /\ deployment_block \in Nat
  /\ Anchors \subseteq Nat
  /\ chunk_size \in Nat \ {0}
  /\ MaxFaults \in Nat
(* The configured cap is not above the provider's own. *)
ASSUME CapAssumption ==
  result_cap \in Nat /\ ProviderCap \in Nat /\ result_cap <= ProviderCap

VARIABLES
  holders,  \* holder_universe: <<holder, first_seen_block>> rows
  covered,  \* discovery_ranges with status "completed"
  pc,       \* [Procs -> control state]
  anchor,   \* [Procs -> anchor block of the running advance]
  gaps,     \* [Procs -> gaps still to scan, the current one first]
  pending,  \* [Procs -> ranges of the current gap still to read]
  done,     \* [Procs -> completed ranges of the current gap]
  logs,     \* [Procs -> logs of the current gap]
  faults    \* faults so far

store == <<holders, covered>>
scan == <<pending, done, logs>>
vars == <<store, pc, anchor, gaps, scan, faults>>

Holders == {l[2] : l \in Logs}
States == {"idle", "gap", "scan", "holders", "ranges", "complete"}

LogsIn(r) == {l \in Logs : l[1] \in Blocks(r)}
Required(a) == <<deployment_block, a + 1>>

TypeOK ==
  /\ holders \subseteq Holders \X Nat
  /\ covered \subseteq BlockRange
  /\ pc \in [Procs -> States]
  /\ anchor \in [Procs -> Anchors \cup {0}]
  /\ gaps \in [Procs -> Seq(BlockRange)]
  /\ pending \in [Procs -> Seq(BlockRange)]
  /\ done \in [Procs -> SUBSET BlockRange]
  /\ logs \in [Procs -> SUBSET Logs]
  /\ faults \in Nat

Init ==
  /\ holders = {}
  /\ covered = {}
  /\ pc = [p \in Procs |-> "idle"]
  /\ anchor = [p \in Procs |-> 0]
  /\ gaps = [p \in Procs |-> <<>>]
  /\ pending = [p \in Procs |-> <<>>]
  /\ done = [p \in Procs |-> {}]
  /\ logs = [p \in Procs |-> {}]
  /\ faults = 0

Fault == faults < MaxFaults /\ faults' = faults + 1
NoFault == faults' = faults
Goto(p, state) == pc' = [pc EXCEPT ![p] = state]

-----------------------------------------------------------------------------
(* advance reads completed_discovery_ranges, on a replica that may lag. *)
ReadCoverage(p, a) ==
  /\ pc[p] = "idle"
  /\ a >= deployment_block
  /\ \E seen \in SUBSET covered :
       /\ IF seen = covered THEN NoFault ELSE Fault
       /\ gaps' = [gaps EXCEPT ![p] = coverage_gaps(Required(a), seen)]
  /\ anchor' = [anchor EXCEPT ![p] = a]
  /\ Goto(p, "gap")
  /\ UNCHANGED <<store, scan>>

NextGap(p) ==
  /\ pc[p] = "gap"
  /\ gaps[p] # <<>>
  /\ pending' = [pending EXCEPT ![p] = Chunks(Head(gaps[p]), chunk_size)]
  /\ done' = [done EXCEPT ![p] = {}]
  /\ logs' = [logs EXCEPT ![p] = {}]
  /\ Goto(p, "scan")
  /\ UNCHANGED <<store, anchor, gaps, faults>>

(* advance returns; its caller goes on with the holders at the anchor. *)
Complete(p) ==
  /\ pc[p] = "gap"
  /\ gaps[p] = <<>>
  /\ Goto(p, "complete")
  /\ UNCHANGED <<store, anchor, gaps, scan, faults>>

Again(p) ==
  /\ pc[p] = "complete"
  /\ Goto(p, "idle")
  /\ UNCHANGED <<store, anchor, gaps, scan, faults>>

-----------------------------------------------------------------------------
(* scan_filter                                                             *)

(* eth_getLogs: every log of the range, or as many as the provider's cap.  *)
Answers(r) ==
  {raw \in SUBSET LogsIn(r) : raw = LogsIn(r) \/ Cardinality(raw) = ProviderCap}

(* Mutant: only an answer above the cap may be cut. *)
MayBeCut_above(raw) == Cardinality(raw) > result_cap
(* "Equal-to-cap is ambiguous". *)
MayBeCut(raw) == Cardinality(raw) >= result_cap

(* Mutant: an answer at the limit fails the scan. *)
SplitOrFail_raise(p, r) == Goto(p, "idle") /\ UNCHANGED scan
(* Halve the range, or raise DiscoveryRangeFailed on a single block; the   *)
(* "failed" row has a scan_id of its own and hides no completed one.       *)
SplitOrFail(p, r) ==
  /\ IF size(r) = 1
     THEN Goto(p, "idle") /\ UNCHANGED pending
     ELSE /\ pending' = [pending EXCEPT ![p] = split(r) \o Tail(@)]
          /\ UNCHANGED pc
  /\ UNCHANGED <<done, logs>>

(* The lowest pending range is read. *)
ReadRange(p) ==
  /\ pc[p] = "scan"
  /\ pending[p] # <<>>
  /\ LET r == Head(pending[p]) IN
       \E raw \in Answers(r) :
         \/ MayBeCut(raw) /\ SplitOrFail(p, r)
         \/ /\ ~MayBeCut(raw)
            /\ logs' = [logs EXCEPT ![p] = @ \cup raw]
            /\ done' = [done EXCEPT ![p] = @ \cup {r}]
            /\ pending' = [pending EXCEPT ![p] = Tail(@)]
            /\ UNCHANGED pc
  /\ UNCHANGED <<store, anchor, gaps, faults>>

ProviderLimit(p) ==
  /\ pc[p] = "scan"
  /\ pending[p] # <<>>
  /\ Fault
  /\ SplitOrFail(p, Head(pending[p]))
  /\ UNCHANGED <<store, anchor, gaps>>

(* The scanner checks its own coverage before it returns. *)
EndScan(p) ==
  /\ pc[p] = "scan"
  /\ pending[p] = <<>>
  /\ Goto(p, IF coverage_gaps(Head(gaps[p]), done[p]) = <<>>
             THEN "holders" ELSE "idle")
  /\ UNCHANGED <<store, anchor, gaps, scan, faults>>

-----------------------------------------------------------------------------
(* Persistence                                                             *)

(* One row per holder, with the first block it was seen in. *)
HolderRows(seen) ==
  {<<l[2], l[1]>> : l \in {x \in seen : \A y \in seen : x[2] = y[2] => x[1] <= y[1]}}

(* Mutant: the completed ranges are inserted first. *)
InsertHolders_last(p) ==
  /\ pc[p] = "holders"
  /\ covered' = covered \cup done[p]
  /\ Goto(p, "ranges")
  /\ UNCHANGED <<holders, anchor, gaps, scan, faults>>
InsertHolders(p) ==
  /\ pc[p] = "holders"
  /\ holders' = holders \cup HolderRows(logs[p])
  /\ Goto(p, "ranges")
  /\ UNCHANGED <<covered, anchor, gaps, scan, faults>>

InsertRanges(p) ==
  /\ pc[p] = "ranges"
  /\ covered' = covered \cup done[p]
  /\ gaps' = [gaps EXCEPT ![p] = Tail(@)]
  /\ Goto(p, "gap")
  /\ UNCHANGED <<holders, anchor, scan, faults>>

(* An insert raises after none, some or all of its rows landed. *)
InsertRaises(p) ==
  /\ Fault
  /\ \/ /\ pc[p] = "holders"
        /\ \E landed \in SUBSET HolderRows(logs[p]) : holders' = holders \cup landed
        /\ UNCHANGED covered
     \/ /\ pc[p] = "ranges"
        /\ \E landed \in SUBSET done[p] : covered' = covered \cup landed
        /\ UNCHANGED holders
  /\ Goto(p, "idle")
  /\ UNCHANGED <<anchor, gaps, scan>>

(* The RPC call or the coverage read raises, or the process dies. *)
Fail(p) ==
  /\ pc[p] \in {"gap", "scan", "holders", "ranges"}
  /\ Fault
  /\ Goto(p, "idle")
  /\ UNCHANGED <<store, anchor, gaps, scan>>

-----------------------------------------------------------------------------
(* What an advance that has begun does when nothing fails. *)
Proceed(p) ==
  \/ NextGap(p)
  \/ Complete(p)
  \/ Again(p)
  \/ ReadRange(p)
  \/ InsertHolders(p)
  \/ InsertRanges(p)

Step(p) == Proceed(p) \/ EndScan(p) \/ \E a \in Anchors : ReadCoverage(p, a)

Failure(p) ==
  \/ ProviderLimit(p)
  \/ InsertRaises(p)
  \/ Fail(p)

Next == \E p \in Procs : Step(p) \/ Failure(p)

Spec == Init /\ [][Next]_vars

(* The steps of EndScan, by the control states they join. *)
ScanIsOver(p) ==
  /\ pc[p] = "scan" /\ pending[p] = <<>>
  /\ \E state \in {"holders", "idle"} : pc' = [pc EXCEPT ![p] = state]

(* Every call returns or times out. *)
FairSpec == Spec /\ \A p \in Procs : WF_vars(Proceed(p)) /\ WF_pc(ScanIsOver(p))

-----------------------------------------------------------------------------
(* Properties.                                                             *)

Seen(l) == \E h \in holders : h[1] = l[2] /\ h[2] <= l[1]

(* "can never claim coverage without all dependent rows having been        *)
(* accepted by ClickHouse" (_scan_gap): every log in a completed range has *)
(* its holder stored, first seen no later than that log, whatever was cut, *)
(* split, crashed or scanned twice.                                        *)
CoverageBacked == \A r \in covered : \A l \in LogsIn(r) : Seen(l)

(* HolderUniverseRepository.holder_members at an anchor. *)
holder_members(a) == {h[1] : h \in {x \in holders : x[2] <= a}}

(* When advance has returned, the full_holders universe at its anchor is   *)
(* exactly the set of addresses that appear in a log up to the anchor,     *)
(* while other processes scan beyond it.                                   *)
UniverseExact ==
  \A p \in Procs : pc[p] = "complete" =>
    holder_members(anchor[p]) =
      {l[2] : l \in LogsIn(Required(anchor[p]))}

(* The inductive strengthening of CoverageBacked. *)
ScanSound(p) ==
  /\ pc[p] \in {"scan", "holders", "ranges"} =>
       \A r \in done[p] : LogsIn(r) \subseteq logs[p]
  /\ pc[p] = "ranges" => \A l \in logs[p] : Seen(l)
DiscoverySound ==
  /\ pc \in [Procs -> States]
  /\ logs \in [Procs -> SUBSET Logs]
  /\ done = [p \in Procs |-> done[p]]
  /\ \A p \in Procs : ScanSound(p)
  /\ CoverageBacked

(* "Rerun the same command after correcting provider availability;         *)
(* completed ranges are reused" (docs/runbook.md): an anchor that some     *)
(* process is sent to again and again is covered in the end, beside a      *)
(* process that scans towards other anchors, if none of its blocks alone   *)
(* holds result_cap logs.                                                  *)
Coverable(a) ==
  \A b \in Blocks(Required(a)) : Cardinality({l \in Logs : l[1] = b}) < result_cap
Sent(a) == \E p \in Procs : pc[p] = "gap" /\ anchor[p] = a
EventuallyCovered ==
  \A a \in {x \in Anchors : Coverable(x)} :
    []<>Sent(a) => <>[](Blocks(Required(a)) \subseteq BlocksOf(covered))
=============================================================================
