--------------------------- MODULE TreasurySweep ---------------------------
(***************************************************************************)
(* The treasury pipeline of the daemon: SweepService.advance               *)
(* (core/sweep_service.py) scans every log that names a wallet, the tokens *)
(* of those logs become the census targets (_discovered_targets and        *)
(* _token_targets, service.py), and targets that keep failing are put in   *)
(* quarantine.                                                             *)
(*                                                                         *)
(* sweep, census and daemon share one lock class, so one process works at  *)
(* a time.  It sweeps and measures in every cycle of run_daemon; a sweep   *)
(* that raises does not keep the census from running, and a process that   *)
(* dies is started again, perhaps with more wallets.  One window is one    *)
(* read here: DiscoveryCoverage shows that scan_filter reads a range whole *)
(* or raises.                                                              *)
(*                                                                         *)
(* The read of the candidates is plain and may miss rows, and what it      *)
(* returns is kept.  Those of the coverage and of the failures are plain   *)
(* too, but read as stored here: a row they miss makes the cycle do        *)
(* something again, and the next cycle reads them again.                   *)
(***************************************************************************)
EXTENDS BlockRanges, FiniteSets

CONSTANTS
  Wallets,            \* wallets that may be configured
  Positions,          \* topic_positions
  Tokens,             \* contracts the logs come from
  Logs,               \* <<block, position, wallet, contract>>
  Fungible,           \* contracts whose logs have a fungible shape
  Disabled,           \* curated entries with enabled: false
  ActiveOn,           \* [1..MaxDay -> contracts that are active on the date]
  Broken,             \* contracts whose attempts always fail
  start_block,        \* of the sweep
  AnchorOf,           \* [1..MaxDay -> anchor block of the date]
  MaxDay,
  checkpoint_blocks,
  threshold,          \* discovered_quarantine_threshold
  MaxFaults           \* bound on crashes, raising calls, failed attempts and
                      \* reads that miss rows

(* The sweep starts no later than the first anchor: BlockRange refuses an  *)
(* empty range and advance would raise.                                    *)
ASSUME SweepConstants ==
  /\ IsFiniteSet(Wallets)
  /\ Positions \subseteq Nat
  /\ \A l \in Logs : /\ l[1] \in Nat /\ l[2] \in Positions
                     /\ l[3] \in Wallets /\ l[4] \in Tokens
  /\ start_block \in Nat
  /\ MaxDay \in Nat \ {0} /\ AnchorOf \in [1..MaxDay -> Nat]
  /\ ActiveOn \in [1..MaxDay -> SUBSET Tokens]
  /\ \A d \in 1..MaxDay : start_block <= AnchorOf[d]
  /\ \A d \in 1..MaxDay : \A e \in 1..d : AnchorOf[e] <= AnchorOf[d]
  /\ checkpoint_blocks \in Nat \ {0}
  /\ threshold \in Nat \ {0}
  /\ MaxFaults \in Nat

VARIABLES
  day,        \* the last date that is over
  swept,      \* sweep_ranges completed: <<wallet, position, range>>
  rows,       \* wallet_interaction_logs
  fails,      \* [Tokens -> failed attempts since the last one that was not]
  measured,   \* published: <<date, contract>>
  pc,         \* control state of the process
  wallets,    \* the wallet universe of the process
  target,     \* the date of the cycle
  positions,  \* topic positions the sweep has not read the gaps of
  jobs,       \* <<position, wallets, window>> still to scan
  found,      \* logs of the window that was scanned
  targets,    \* the cache of _discovered_targets
  cached,     \* whether it is filled
  fresh,      \* it was filled in this cycle, by a read that missed nothing
  todo,       \* targets this census has still to attempt
  whole,      \* nothing of this cycle's sweep raised
  clean,      \* no attempt of this census failed
  faults

storeVars == <<swept, rows, fails, measured>>
sweepVars == <<target, positions, jobs, found, whole>>
censusVars == <<targets, cached, fresh, todo, clean>>
vars == <<day, storeVars, pc, wallets, sweepVars, censusVars, faults>>

States == {"down", "cycle", "sweep", "scan", "logs", "ranges", "census",
           "attempts", "sleep"}

Init ==
  /\ day = 1
  /\ swept = {} /\ rows = {} /\ measured = {}
  /\ fails = [c \in Tokens |-> 0]
  /\ pc = "down" /\ wallets = {}
  /\ target = 1 /\ positions = {} /\ jobs = <<>> /\ found = {} /\ whole = FALSE
  /\ targets = {} /\ cached = FALSE /\ fresh = FALSE /\ todo = {} /\ clean = FALSE
  /\ faults = 0

Fault == faults < MaxFaults /\ faults' = faults + 1

NewDay ==
  /\ day < MaxDay
  /\ day' = day + 1
  /\ UNCHANGED <<storeVars, pc, wallets, sweepVars, censusVars, faults>>

-----------------------------------------------------------------------------
(* The process                                                             *)

(* open(): a new process, whose universe file may name more wallets. *)
Start ==
  /\ pc = "down"
  /\ \E more \in SUBSET Wallets : wallets' = wallets \cup more /\ wallets' # {}
  /\ pc' = "cycle"
  /\ targets' = {} /\ cached' = FALSE
  /\ UNCHANGED <<day, storeVars, sweepVars, fresh, todo, clean, faults>>

(* Mutant: the date is fixed when the daemon starts. *)
Cycle_same_day ==
  /\ pc = "cycle"
  /\ positions' = Positions
  /\ whole' = TRUE
  /\ pc' = "sweep"
  /\ UNCHANGED <<day, storeVars, wallets, target, jobs, found, censusVars, faults>>
(* The top of run_daemon's loop: the date that was yesterday. *)
Cycle ==
  /\ pc = "cycle"
  /\ target' = day
  /\ positions' = Positions
  /\ whole' = TRUE
  /\ pc' = "sweep"
  /\ UNCHANGED <<day, storeVars, wallets, jobs, found, censusVars, faults>>

Poll ==
  /\ pc = "sleep"
  /\ pc' = "cycle"
  /\ UNCHANGED <<day, storeVars, wallets, sweepVars, censusVars, faults>>

(* Attempts in flight stay behind as "started", which is not a failure. *)
Crash ==
  /\ pc # "down"
  /\ Fault
  /\ \E inFlight \in SUBSET todo :
       fails' = [c \in Tokens |-> IF c \in inFlight THEN 0 ELSE fails[c]]
  /\ pc' = "down"
  /\ jobs' = <<>> /\ found' = {} /\ todo' = {}
  /\ UNCHANGED <<day, swept, rows, measured, wallets, target, positions, whole,
                 targets, cached, fresh, clean>>

-----------------------------------------------------------------------------
(* SweepService.advance                                                    *)

Required(date) == <<start_block, AnchorOf[date] + 1>>
SweptRanges(w, p) == {s[3] : s \in {x \in swept : x[1] = w /\ x[2] = p}}
LogsOf(p, group, r) ==
  {l \in Logs : l[2] = p /\ l[3] \in group /\ l[1] \in Blocks(r)}

(* Tuple order on the gaps that groups of wallets share. *)
Earlier(a, b) ==
  \E i \in 1..Len(b) : /\ \A j \in 1..(i - 1) : j <= Len(a) /\ a[j] = b[j]
                       /\ i > Len(a) \/ Precedes(a[i], b[i])

scan_windows(r) == Chunks(r, checkpoint_blocks)

(* Mutant: all wallets are scanned over the gaps of one of them. *)
GapGroups_one(p) ==
  LET w == CHOOSE x \in wallets : TRUE
      gaps == coverage_gaps(Required(target), SweptRanges(w, p))
  IN  IF gaps = <<>> THEN {} ELSE {<<gaps, wallets>>}
(* The wallets that have the same gaps are scanned together. *)
GapGroups(p) ==
  LET gaps == [w \in wallets |-> coverage_gaps(Required(target), SweptRanges(w, p))]
  IN  {<<gaps[w], {v \in wallets : gaps[v] = gaps[w]}>> :
         w \in {x \in wallets : gaps[x] # <<>>}}

(* The windows of every group, lowest gaps first. *)
GroupPrecedes(g, h) == Earlier(g[1], h[1])
WindowsOf(gaps) == FlattenSeq([i \in DOMAIN gaps |-> scan_windows(gaps[i])])
GroupJobs(p, g) == [i \in DOMAIN WindowsOf(g[1]) |-> <<p, g[2], WindowsOf(g[1])[i]>>]
JobsOf(p) ==
  LET order == Sorted(GapGroups(p), GroupPrecedes)
  IN  FlattenSeq([i \in DOMAIN order |-> GroupJobs(p, order[i])])

ReadGaps ==
  /\ pc = "sweep" /\ positions # {}
  /\ \E p \in positions :
       /\ \A q \in positions : p <= q
       /\ jobs' = JobsOf(p)
       /\ positions' = positions \ {p}
  /\ pc' = "scan"
  /\ UNCHANGED <<day, storeVars, wallets, target, found, whole, censusVars, faults>>

ScanWindow ==
  /\ pc = "scan" /\ jobs # <<>>
  /\ LET j == Head(jobs) IN found' = LogsOf(j[1], j[2], j[3])
  /\ pc' = "logs"
  /\ UNCHANGED <<day, storeVars, wallets, target, positions, jobs, whole,
                 censusVars, faults>>

PositionDone ==
  /\ pc = "scan" /\ jobs = <<>>
  /\ pc' = "sweep"
  /\ UNCHANGED <<day, storeVars, wallets, sweepVars, censusVars, faults>>

InsertLogs ==
  /\ pc = "logs"
  /\ rows' = rows \cup found
  /\ pc' = "ranges"
  /\ UNCHANGED <<day, swept, fails, measured, wallets, sweepVars, censusVars, faults>>

(* Mutant: the window is recorded for every wallet of the sweep. *)
RangeRows_all(j) == {<<w, j[1], j[3]>> : w \in wallets}
RangeRows(j) == {<<w, j[1], j[3]>> : w \in j[2]}

InsertRanges ==
  /\ pc = "ranges"
  /\ swept' = swept \cup RangeRows(Head(jobs))
  /\ jobs' = Tail(jobs)
  /\ found' = {}
  /\ pc' = "scan"
  /\ UNCHANGED <<day, rows, fails, measured, wallets, target, positions, whole,
                 censusVars, faults>>

(* A read, a scan or an insert raises, an insert after some of its rows    *)
(* landed: sweep raises JobRunError and the cycle goes on.                 *)
SweepRaises ==
  /\ pc \in {"sweep", "scan", "logs", "ranges"}
  /\ Fault
  /\ \/ pc \in {"sweep", "scan"} /\ UNCHANGED <<rows, swept>>
     \/ /\ pc = "logs"
        /\ \E landed \in SUBSET found : rows' = rows \cup landed
        /\ UNCHANGED swept
     \/ /\ pc = "ranges"
        /\ \E landed \in SUBSET RangeRows(Head(jobs)) : swept' = swept \cup landed
        /\ UNCHANGED rows
  /\ positions' = {} /\ jobs' = <<>> /\ found' = {} /\ whole' = FALSE
  /\ pc' = "census"
  /\ UNCHANGED <<day, fails, measured, wallets, target, censusVars>>

SweepDone ==
  /\ pc = "sweep" /\ positions = {}
  /\ pc' = "census"
  /\ UNCHANGED <<day, storeVars, wallets, sweepVars, censusVars, faults>>

-----------------------------------------------------------------------------
(* census over discovered targets                                          *)

(* Mutant: a contract is a candidate when two of its logs were seen. *)
discovered_token_candidates_twice(seen) ==
  {c \in Fungible : Cardinality({l \in seen : l[4] = c}) > 1}
(* The contracts of fungible logs, of the rows that the read returns. *)
discovered_token_candidates(seen) == {l[4] : l \in seen} \cap Fungible

(* A disabled curated entry is left out. *)
Resolved(seen) == discovered_token_candidates(seen) \ Disabled

(* Mutant: nothing is ever put in quarantine. *)
quarantined_token_targets_none == {}
(* The last threshold attempts of the target all failed. *)
quarantined_token_targets == {c \in Tokens : fails[c] >= threshold}

(* _active: date_start, date_end and deployment_block of a curated entry.  *)
(* The deployment_block of any other is that of a log which was swept, and *)
(* no anchor of a later date precedes it.                                  *)
active(date) == ActiveOn[date]

(* _discovered_targets reads the candidates once per process and keeps     *)
(* them, whatever rows the read missed; _token_targets leaves out those in *)
(* quarantine, and census the ones that are not active or published.       *)
ResolveTargets ==
  /\ pc = "census"
  /\ \/ /\ cached
        /\ fresh' = FALSE
        /\ UNCHANGED <<targets, faults>>
     \/ /\ ~cached
        /\ \E seen \in SUBSET rows :
             /\ targets' = Resolved(seen)
             /\ fresh' = (seen = rows)
             /\ IF seen = rows THEN UNCHANGED faults ELSE Fault
  /\ cached' = TRUE
  /\ todo' = {c \in (targets' \ quarantined_token_targets) \cap active(target) :
               <<target, c>> \notin measured}
  /\ clean' = TRUE
  /\ pc' = "attempts"
  /\ UNCHANGED <<day, storeVars, wallets, sweepVars>>

Publish(c) ==
  /\ pc = "attempts" /\ c \in todo \ Broken
  /\ measured' = measured \cup {<<target, c>>}
  /\ fails' = [fails EXCEPT ![c] = 0]
  /\ todo' = todo \ {c}
  /\ UNCHANGED <<day, swept, rows, pc, wallets, sweepVars, targets, cached, fresh,
                 clean, faults>>

(* The attempt ends as "failed"; the row that says so may be lost. *)
AttemptFails(c) ==
  /\ pc = "attempts" /\ c \in todo
  /\ \/ /\ c \in Broken
        /\ fails' = [fails EXCEPT ![c] = Smaller(@ + 1, threshold)]
        /\ UNCHANGED faults
     \/ /\ Fault
        /\ \/ fails' = [fails EXCEPT ![c] = Smaller(@ + 1, threshold)]
           \/ fails' = [fails EXCEPT ![c] = 0]
  /\ todo' = todo \ {c}
  /\ clean' = FALSE
  /\ UNCHANGED <<day, swept, rows, measured, pc, wallets, sweepVars, targets,
                 cached, fresh>>

CensusDone ==
  /\ pc = "attempts" /\ todo = {}
  /\ pc' = "sleep"
  /\ UNCHANGED <<day, storeVars, wallets, sweepVars, censusVars, faults>>

-----------------------------------------------------------------------------
Work ==
  \/ Start \/ Cycle \/ Poll
  \/ ScanWindow \/ PositionDone \/ InsertLogs \/ InsertRanges
  \/ SweepDone \/ ResolveTargets \/ CensusDone
  \/ \E c \in Tokens : Publish(c) \/ AttemptFails(c)

Next == NewDay \/ Work \/ ReadGaps \/ SweepRaises \/ Crash

(* The steps of ReadGaps, by the control states they join. *)
GapsAreRead == pc = "sweep" /\ positions # {} /\ pc' = "scan"

(* Days pass, calls return, and the daemon is started again when it dies. *)
Spec ==
  /\ Init /\ [][Next]_vars
  /\ WF_vars(NewDay) /\ WF_vars(Work) /\ WF_pc(GapsAreRead)

-----------------------------------------------------------------------------
(* Properties.                                                             *)

TypeOK ==
  /\ day \in 1..MaxDay /\ target \in 1..MaxDay
  /\ swept \subseteq Wallets \X Positions \X BlockRange
  /\ rows \subseteq Logs /\ found \subseteq Logs
  /\ fails \in [Tokens -> 0..threshold]
  /\ measured \subseteq (1..MaxDay) \X Tokens
  /\ pc \in States
  /\ wallets \subseteq Wallets
  /\ positions \subseteq Positions
  /\ targets \subseteq Tokens /\ todo \subseteq targets
  /\ {cached, fresh, whole, clean} \subseteq BOOLEAN
  /\ faults \in 0..MaxFaults

(* "can never claim coverage without all dependent rows having been        *)
(* accepted by ClickHouse" (_scan_gap): every log of a wallet in a range   *)
(* that is recorded as completed for it is stored.                         *)
SweepBacked ==
  \A s \in swept : LogsOf(s[2], {s[1]}, s[3]) \subseteq rows

(* "Coverage is gap-free per (wallet, topic position)" and a new wallet is *)
(* backfilled (docs/runbook.md): when advance has returned, every wallet   *)
(* of the process is covered from start_block to the anchor.               *)
GapFree ==
  pc \in {"census", "attempts", "sleep"} /\ whole =>
    \A w \in wallets, p \in Positions :
      Blocks(Required(target)) \subseteq BlocksOf(SweptRanges(w, p))

(* Tokens that are active on the date and that some configured wallet met  *)
(* up to its anchor.                                                       *)
Due == {c \in (Fungible \ Disabled) \cap active(target) :
          \E l \in Logs : /\ l[4] = c /\ l[3] \in wallets
                          /\ l[1] \in Blocks(Required(target))}
CensusMissesNone ==
  \A c \in Due \ quarantined_token_targets : <<target, c>> \in measured

(* End to end: a cycle that filled the target cache itself, by a read of   *)
(* the candidates that missed none of the rows swept before, and whose     *)
(* sweep and attempts all succeeded, has measured every enabled and active *)
(* fungible token that any log of a configured wallet names up to the      *)
(* anchor.  Without fresh this is false: _discovered_targets keeps the     *)
(* targets of the process's first census, and a token that its read missed *)
(* or that the daemon's own sweep finds later waits for the next start.    *)
FreshCensusWhole == pc = "sleep" /\ whole /\ clean /\ fresh => CensusMissesNone

(* An interrupted sweep "resumes from its last committed window": once the *)
(* failures stop, the wallets are covered up to the last anchor.           *)
SweepCatchesUp ==
  <>[](\A w \in wallets, p \in Positions :
         Blocks(Required(MaxDay)) \subseteq BlocksOf(SweptRanges(w, p)))

(* A contract that always fails is attempted only until it is quarantined, *)
(* although a crash in the middle of an attempt starts its count again.    *)
SpamRetired == <>[](todo \cap Broken = {})
=============================================================================
