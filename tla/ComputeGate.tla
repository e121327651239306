---------------------------- MODULE ComputeGate ----------------------------
(***************************************************************************)
(* The gate that keeps `compute` from deriving a day whose census is not   *)
(* finished: service.py _await_census_sources, next to the daemon's census *)
(* passes over the same date.  The two processes share only the store:     *)
(* compute takes no writer guard.                                          *)
(*                                                                         *)
(* A pass runs the jobs in order and the targets of a job under a          *)
(* semaphore.  What the gate reads of a target is whether an attempt of it *)
(* has a "started" row and how many publication rows it has, whereas the   *)
(* skip gate and the module read the published views, which hide the       *)
(* publication of a failed attempt.  Everything else about an attempt is   *)
(* left to CensusPublication.                                              *)
(***************************************************************************)
EXTENDS Integers, Sequences, FiniteSets

CONSTANTS
  Work,              \* sequence of the source jobs' target sets
  Concurrency,       \* settings.census_target_concurrency
  Recent,            \* snapshot_date is yesterday or later
  Waits,             \* wait_seconds > 0
  WaitPolls,         \* polls that fit in wait_seconds after the first; 0
                     \* too for a positive wait of no more than a second
  MaxFaults,         \* bound on failed attempts and crashes
  MaxSlow            \* bound on queries that use up some of the wait

Jobs == DOMAIN Work
Targets == UNION {Work[j] : j \in Jobs}

ASSUME WorkAssumption ==
  /\ Work \in Seq(SUBSET Targets)
  /\ IsFiniteSet(Targets)
  /\ \A i, j \in Jobs : i # j => Work[i] \cap Work[j] = {}
ASSUME GateAssumption ==
  /\ Concurrency \in Nat \ {0}
  /\ {Recent, Waits} \subseteq BOOLEAN
  /\ {WaitPolls, MaxFaults, MaxSlow} \subseteq Nat

VARIABLES
  job,        \* the job whose gather runs; 0 between two passes
  queue,      \* its targets that wait for the semaphore
  attempt,    \* [Targets -> state of the target's running attempt]
  stuck,      \* targets with a "started" row no process will finish
  published,  \* targets with a publication of a verified attempt
  hidden,     \* publication rows of failed attempts: <<target, fault>>
  faults,
  gate,       \* state of the compute command
  counts,     \* (started, published) of the jobs polled so far
  stable,     \* counts of the previous ready poll, or <<>>
  remaining,  \* polls left before the deadline
  slow,       \* queries so far that used up some of the wait
  gapSeen,    \* a poll fell into the gap the pass is in
  timely,     \* every poll of this command fell where the polls are meant to
  wasWhole,   \* the day was published when compute was invoked
  derived     \* published targets the module computed over, or {}

passVars == <<job, queue, attempt, stuck, published, hidden, faults>>
gateVars == <<gate, counts, stable, remaining, slow, timely, wasWhole, derived>>
vars == <<passVars, gateVars, gapSeen>>

GateStates == {"idle", "polling", "asleep", "computing", "computed", "raised"}

TypeOK ==
  /\ job \in 0..Len(Work)
  /\ queue \subseteq Targets
  /\ attempt \in [Targets -> {"none", "started", "verified"}]
  /\ {stuck, published, derived} \subseteq SUBSET Targets
  /\ hidden \subseteq Targets \X Nat
  /\ gate \in GateStates
  /\ {counts, stable} \subseteq Seq(Nat \X Nat)
  /\ {remaining, slow, faults} \subseteq Nat
  /\ {gapSeen, timely, wasWhole} \subseteq BOOLEAN

Init ==
  /\ job = 0
  /\ queue = {}
  /\ attempt = [t \in Targets |-> "none"]
  /\ stuck = {} /\ published = {} /\ hidden = {} /\ derived = {}
  /\ faults = 0
  /\ gate = "idle"
  /\ counts = <<>> /\ stable = <<>>
  /\ remaining = 0 /\ slow = 0
  /\ gapSeen = FALSE
  /\ timely = TRUE
  /\ wasWhole = FALSE

-----------------------------------------------------------------------------
(* The daemon's census passes.                                             *)

Running == {t \in Targets : attempt[t] # "none"}

Fault == /\ faults < MaxFaults
         /\ faults' = faults + 1

(* census() for the next job: the skip gate leaves published targets out.  *)
(* A gather ends when every run_one has returned, failed ones included.    *)
BeginJob ==
  /\ queue = {} /\ Running = {}
  /\ job' = IF job = Len(Work) THEN 0 ELSE job + 1
  /\ queue' = IF job' = 0 THEN {} ELSE Work[job'] \ published
  /\ UNCHANGED <<attempt, stuck, published, hidden, faults, gateVars, gapSeen>>

StartAttempt(t) ==
  /\ t \in queue
  /\ Cardinality(Running) < Concurrency
  /\ queue' = queue \ {t}
  /\ attempt' = [attempt EXCEPT ![t] = "started"]
  /\ gapSeen' = FALSE
  /\ UNCHANGED <<job, stuck, published, hidden, faults, gateVars>>

InsertVerified(t) ==
  /\ attempt[t] = "started"
  /\ attempt' = [attempt EXCEPT ![t] = "verified"]
  /\ UNCHANGED <<job, queue, stuck, published, hidden, faults, gateVars, gapSeen>>

AppendPublication(t) ==
  /\ attempt[t] = "verified"
  /\ attempt' = [attempt EXCEPT ![t] = "none"]
  /\ published' = published \cup {t}
  /\ UNCHANGED <<job, queue, stuck, hidden, faults, gateVars, gapSeen>>

(* run_token raises; its "failed" row may fail to land too. *)
AttemptFails(t) ==
  /\ attempt[t] = "started"
  /\ Fault
  /\ attempt' = [attempt EXCEPT ![t] = "none"]
  /\ stuck' \in {stuck, stuck \cup {t}}
  /\ UNCHANGED <<job, queue, published, hidden, gateVars, gapSeen>>

(* append_publication raises, with its row committed or not, and a         *)
(* "failed" row follows the "verified" one unless its insert fails too.    *)
PublicationFails(t) ==
  /\ attempt[t] = "verified"
  /\ Fault
  /\ attempt' = [attempt EXCEPT ![t] = "none"]
  /\ \/ UNCHANGED <<published, hidden>>
     \/ published' = published \cup {t} /\ UNCHANGED hidden
     \/ hidden' = hidden \cup {<<t, faults'>>} /\ UNCHANGED published
  /\ UNCHANGED <<job, queue, stuck, gateVars, gapSeen>>

(* The pod dies mid-attempt and is restarted with a new pass. *)
Crash ==
  /\ job # 0
  /\ Fault
  /\ job' = 0
  /\ queue' = {}
  /\ attempt' = [t \in Targets |-> "none"]
  /\ stuck' = stuck \cup {t \in Targets : attempt[t] = "started"}
  /\ UNCHANGED <<published, hidden, gateVars, gapSeen>>

-----------------------------------------------------------------------------
(* The compute command.                                                    *)

(* Mutant: a "started" row counts even when its target has published. *)
Blocking_all(t) == t \in stuck \/ attempt[t] = "started"
(* A target behind a "started" attempt _census_source_counts counts. *)
Blocking(t) == /\ t \notin published /\ \A row \in hidden : row[1] # t
               /\ t \in stuck \/ attempt[t] = "started"

CensusSourceCounts(j) ==
  <<Cardinality({t \in Work[j] : Blocking(t)}),
    Cardinality(Work[j] \cap published) + Cardinality({row \in hidden : row[1] \in Work[j]})>>

census_sources_ready(c) ==
  /\ c # <<>>
  /\ \A j \in DOMAIN c : c[j][2] > 0 /\ c[j][1] = 0

(* The pass has targets to go and no attempt at work. *)
InGap ==
  /\ job # 0
  /\ Running = {}
  /\ queue \cup UNION {Work[j] \ published : j \in (job + 1)..Len(Work)} # {}

Invoke ==
  /\ gate \in {"idle", "raised"}
  /\ gate' = "polling"
  /\ counts' = <<>> /\ stable' = <<>>
  /\ remaining' = WaitPolls
  /\ wasWhole' = (published = Targets)
  /\ timely' = TRUE
  /\ gapSeen' = FALSE
  /\ UNCHANGED <<passVars, slow, derived>>

(* A poll is compute_wait_poll_seconds after the last one, which is meant  *)
(* to outlast every gap between two attempts, and the two inserts that end *)
(* an attempt follow each other at once.                                   *)
MeantFor(j) ==
  /\ ~(j = 1 /\ gapSeen /\ InGap)
  /\ \A t \in Work[j] : attempt[t] # "verified"

(* The query of one job.  The deadline is compared with the clock after    *)
(* the queries, so a slow one leaves less of the wait than the sleeps do.  *)
PollJob ==
  /\ gate = "polling"
  /\ Len(counts) < Len(Work)
  /\ counts' = Append(counts, CensusSourceCounts(Len(counts) + 1))
  /\ timely' = (timely /\ MeantFor(Len(counts) + 1))
  /\ gapSeen' = (gapSeen \/ InGap)
  /\ \/ UNCHANGED <<remaining, slow>>
     \/ /\ slow < MaxSlow
        /\ slow' = slow + 1
        /\ remaining' \in 0..(remaining - 1)
  /\ UNCHANGED <<passVars, gate, stable, wasWhole, derived>>

(* Mutant: one ready poll is enough. *)
Passes_once == census_sources_ready(counts)
Passes == /\ census_sources_ready(counts)
          /\ ~Recent \/ ~Waits \/ stable = counts

(* Mutant: the deadline is not looked at. *)
TimedOut_never == ~Recent \/ ~Waits
TimedOut == ~Recent \/ ~Waits \/ remaining = 0

(* All jobs polled: compute, give up, or sleep until the next poll. *)
Decide ==
  /\ gate = "polling"
  /\ Len(counts) = Len(Work)
  /\ gate' = IF Passes THEN "computing"
             ELSE IF TimedOut THEN "raised" ELSE "asleep"
  /\ stable' = IF census_sources_ready(counts) THEN counts ELSE <<>>
  /\ UNCHANGED <<passVars, counts, remaining, slow, timely, wasWhole, derived, gapSeen>>

Sleep ==
  /\ gate = "asleep"
  /\ gate' = "polling"
  /\ counts' = <<>>
  /\ remaining' = remaining - 1
  /\ UNCHANGED <<passVars, stable, slow, timely, wasWhole, derived, gapSeen>>

(* compute_module.compute reads the published views and writes the day. *)
Compute ==
  /\ gate = "computing"
  /\ gate' = "computed"
  /\ derived' = published
  /\ UNCHANGED <<passVars, counts, stable, remaining, slow, timely, wasWhole, gapSeen>>

-----------------------------------------------------------------------------
PassStep ==
  \/ BeginJob
  \/ \E t \in Targets : StartAttempt(t)
  \/ \E t \in Targets : InsertVerified(t)
  \/ \E t \in Targets : AppendPublication(t)

GateStep == Invoke \/ PollJob \/ Decide \/ Sleep \/ Compute

Next ==
  \/ PassStep
  \/ GateStep
  \/ \E t \in Targets : AttemptFails(t)
  \/ \E t \in Targets : PublicationFails(t)
  \/ Crash

Spec == Init /\ [][Next]_vars

(* The daemon's loop goes on, and compute is run again after a refusal     *)
(* ("Re-run once the daemon has published the day").                       *)
FairSpec == Spec /\ WF_vars(PassStep) /\ WF_vars(GateStep)

-----------------------------------------------------------------------------
(* Properties.                                                             *)

(* "Never computes over a partial day" (service.py _await_census_sources): *)
(* when the polls fall where they are meant to, what the module derives    *)
(* the day from is every target of its source jobs.                        *)
NoPartialDay == gate = "computed" /\ timely => derived = Targets

(* The same while no attempt failed and no pass died: then equal counts in *)
(* two ready polls do mean that the pass over the day is over.             *)
UndisturbedDayIsWhole == faults = 0 => NoPartialDay

(* A day that was published whole before compute was invoked is refused    *)
(* only because its first poll, a ready one, had no second one to be       *)
(* confirmed by: the wait was too short or a query used it up.  The        *)
(* "started" rows dead attempts left behind never refuse it                *)
(* (_census_source_counts: such a row once blocked a date for good).       *)
WholeDayNotRefused ==
  [][gate = "polling" /\ gate' = "raised" /\ wasWhole =>
       /\ Recent /\ Waits
       /\ census_sources_ready(counts) /\ stable = <<>>
       /\ WaitPolls = 0 \/ slow > 0]_vars

(* However the passes fail and the gate refuses, the day is computed. *)
EventuallyComputed == <>(gate = "computed")
=============================================================================
