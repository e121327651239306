------------------------- MODULE CensusPublication -------------------------
(***************************************************************************)
(* The attempt and publication protocol of core/census.py for one target   *)
(* of one job on one date, driven by the census pass of service.py.        *)
(*                                                                         *)
(* Three actors interleave: the service process that plans a pass, the     *)
(* run_token / run_pool coroutine of an attempt, and the worker thread     *)
(* that asyncio.to_thread gives to _persist_and_publish_*.  Cancelling the *)
(* coroutine does not stop the thread, and IndexerService.close releases   *)
(* the writer guard before it waits for the thread pool, so a thread may   *)
(* go on writing while a successor process runs.                           *)
(*                                                                         *)
(* The store is ClickHouse.  An attempt's status is the row of highest     *)
(* insert_version, that is the last one inserted.  The canonical anchor of *)
(* the date is fixed here (DayAnchors varies it), and the writer guard is  *)
(* taken to admit one process at a time (WriterGuard varies it).           *)
(***************************************************************************)
EXTENDS Integers, FiniteSets, Functions

CONSTANTS
  Attempts,        \* attempt ids, one uuid4() per run_token / run_pool call
  FreshId,         \* the uuid4() under which a target failure is recorded
  Holders,         \* every address that received the token by the anchor
  Balance,         \* balance of each holder at the anchor, the scaled one
                   \* in scaled_full_supply mode; some hold nothing any more
  Scalars,         \* the other observations: supply calls, pool assets or
                   \* the rows of a concentrated-liquidity pool
  StateRow,        \* the pool_cl_state row among Scalars
  UniverseReads,   \* the holder sets that holder_members may return
  ConfigHashes,    \* config hashes a process may register
  IntegrityMode,   \* the job's integrity_mode
  Allowance,       \* tolerated difference between holder sum and supply
  UINT256_MAX,     \* largest value of a UInt256 column
  AnyConfigHash,   \* settings.skip_published_any_config_hash
  MaxFaults        \* bound on failures, cancellations, crashes, stale reads

SupplyModes == {"full_supply", "scaled_full_supply"}
TokenModes == SupplyModes \cup {"scoped"}

ASSUME IdsAssumption == FreshId \notin Attempts
ASSUME HolderAssumption ==
  /\ IsFiniteSet(Holders)
  /\ Balance \in [Holders -> Nat]
  /\ UniverseReads \subseteq SUBSET Holders
  /\ Holders \cap Scalars = {}
ASSUME ModeAssumption ==
  /\ IntegrityMode \in TokenModes \cup {"pool_assets", "cl_liquidity"}
  /\ AnyConfigHash \in BOOLEAN
ASSUME BoundAssumption ==
  /\ Allowance \in Nat
  /\ UINT256_MAX \in Nat
  /\ MaxFaults \in Nat

Subjects == Holders \cup Scalars

VARIABLES
  phase,       \* of the service process that holds the writer guard
  registered,  \* config hash of v_config_registry_current
  co,          \* [Attempts -> coroutine state]
  wk,          \* [Attempts -> worker thread state]
  config,      \* [Attempts -> config hash carried by the attempt]
  frozen,      \* [Attempts -> frozen universe]
  ok,          \* [Attempts -> subjects whose call succeeded]
  reconciled,  \* [Attempts -> tick ladder reconciled, cl_liquidity only]
  sent,        \* [Attempts -> observation rows handed to the store]
  rows,        \* [Attempts -> observation rows the store holds]
  urows,       \* [Attempts -> census_universe_members rows]
  status,      \* [Attempts -> status of v_census_attempts_current]
  errorIds,    \* attempt ids of census_errors
  pubs,        \* attempts with a census_publications row
  faults       \* faults so far

procVars == <<phase, registered>>
taskVars == <<config, frozen, ok, reconciled, sent>>
storeVars == <<rows, urows, status, errorIds, pubs>>
vars == <<procVars, co, wk, taskVars, storeVars, faults>>

Phases == {"closed", "open", "sleeping", "planned", "attempt"}
CoActive == {"starting", "collecting", "awaiting", "failing", "cancelling",
             "raised", "cancelled"}
CoStates == CoActive \cup {"idle", "ended"}
WkActive == {"universe", "observations", "errors", "readback", "verify",
             "publish"}
WkStates == WkActive \cup {"idle", "done", "raised", "dead"}
Statuses == {"none", "started", "verified", "failed"}

TypeOK ==
  /\ phase \in Phases
  /\ registered \in ConfigHashes
  /\ co \in [Attempts -> CoStates]
  /\ wk \in [Attempts -> WkStates]
  /\ config \in [Attempts -> ConfigHashes]
  /\ frozen \in [Attempts -> SUBSET Holders]
  /\ ok \in [Attempts -> SUBSET Subjects]
  /\ reconciled \in [Attempts -> BOOLEAN]
  /\ sent \in [Attempts -> SUBSET Subjects]
  /\ rows \in [Attempts -> SUBSET Subjects]
  /\ urows \in [Attempts -> SUBSET Holders]
  /\ status \in [Attempts -> Statuses]
  /\ errorIds \subseteq Attempts \cup {FreshId}
  /\ pubs \subseteq Attempts
  /\ faults \in Nat

-----------------------------------------------------------------------------
(* Faults.  A fault is spent by whatever the code has to survive.          *)

Fault == /\ faults < MaxFaults
         /\ faults' = faults + 1

NoFault == faults' = faults

(* Mutant: the row is buffered (async_insert) and may be lost. *)
InsertReturns_async(landed) == landed \in BOOLEAN /\ NoFault
(* A synchronous insert returns with the row, or raises with the row       *)
(* committed or not.                                                       *)
InsertReturns(landed) == landed /\ NoFault
InsertRaises(landed) == landed \in BOOLEAN /\ Fault

-----------------------------------------------------------------------------
(* Collection and its integrity checks.                                    *)

Calls(a) == frozen[a] \cup Scalars

HolderSum(S) == SumFunctionOnSet(Balance, S \cap Holders)

Abs(n) == IF n < 0 THEN -n ELSE n

(* TokenCollectionResult.errors and its pool counterparts. *)
CallErrors(a) == Calls(a) \ ok[a]

(* Mutant: only an excess over the supply is rejected. *)
holder_sum_within_tolerance_onesided(observed, expected) ==
  observed - expected <= Allowance
holder_sum_within_tolerance(observed, expected) ==
  Abs(observed - expected) <= Allowance

(* The supply check of the mode: full_supply tolerates a difference,       *)
(* scaled_full_supply does not, scoped has none.                           *)
SupplyChecked(observed) ==
  /\ IntegrityMode = "full_supply" =>
       holder_sum_within_tolerance(observed, HolderSum(Holders))
  /\ IntegrityMode = "scaled_full_supply" => observed = HolderSum(Holders)

(* IntegrityResult list of the collector: completeness, then the mode. *)
IntegrityPassed(a) ==
  /\ CallErrors(a) = {}
  /\ SupplyChecked(HolderSum(ok[a]))
  /\ IntegrityMode = "cl_liquidity" => reconciled[a]

-----------------------------------------------------------------------------
(* The publication views of migrations/007_views.sql.                      *)

Signature(a) == <<config[a], frozen[a], ok[a]>>

Eligible(a) ==
  /\ a \in pubs
  /\ config[a] = registered
  /\ status[a] = "verified"
  /\ a \notin errorIds

EligibleSet == {a \in Attempts : Eligible(a)}

(* The target has a row in v_publication_conflicts. *)
Conflicting == \E a, b \in EligibleSet : Signature(a) # Signature(b)

(* The target has a row in v_publications_current. *)
Visible == EligibleSet # {} /\ ~Conflicting

(* Mutant: a publication row counts whatever its attempt's status. *)
PublishedTarget_anystatus == IF AnyConfigHash THEN pubs # {} ELSE Visible
(* published_target_addresses contains the target. *)
PublishedTarget ==
  IF AnyConfigHash
  THEN \E a \in pubs : status[a] = "verified"
  ELSE Visible

-----------------------------------------------------------------------------
Init ==
  /\ phase = "closed"
  /\ registered \in ConfigHashes
  /\ co = [a \in Attempts |-> "idle"]
  /\ wk = [a \in Attempts |-> "idle"]
  /\ config = [a \in Attempts |-> registered]
  /\ frozen = [a \in Attempts |-> {}]
  /\ ok = [a \in Attempts |-> {}]
  /\ reconciled = [a \in Attempts |-> FALSE]
  /\ sent = [a \in Attempts |-> {}]
  /\ rows = [a \in Attempts |-> {}]
  /\ urows = [a \in Attempts |-> {}]
  /\ status = [a \in Attempts |-> "none"]
  /\ errorIds = {}
  /\ pubs = {}
  /\ faults = 0

-----------------------------------------------------------------------------
(* The service process.                                                    *)

(* IndexerService.open: the guard is acquired, the catalog registered. *)
Open(h) ==
  /\ phase = "closed"
  /\ phase' = "open"
  /\ registered' = h
  /\ UNCHANGED <<co, wk, taskVars, storeVars, faults>>

(* IndexerService.close between two passes. *)
Close ==
  /\ phase = "sleeping"
  /\ Fault
  /\ phase' = "closed"
  /\ UNCHANGED <<registered, co, wk, taskVars, storeVars>>

Wake ==
  /\ phase = "sleeping"
  /\ phase' = "open"
  /\ UNCHANGED <<registered, co, wk, taskVars, storeVars, faults>>

(* census(): the skip gate leaves a published target out of the plan. *)
PlanSkip ==
  /\ phase = "open"
  /\ PublishedTarget
  /\ phase' = "sleeping"
  /\ UNCHANGED <<registered, co, wk, taskVars, storeVars, faults>>

PlanWork ==
  /\ phase = "open"
  /\ ~PublishedTarget
  /\ phase' = "planned"
  /\ UNCHANGED <<registered, co, wk, taskVars, storeVars, faults>>

(* The process dies: its coroutine and the thread it started die with it. *)
Crash ==
  /\ phase # "closed"
  /\ Fault
  /\ phase' = "closed"
  /\ co' = [a \in Attempts |-> IF co[a] \in CoActive THEN "ended" ELSE co[a]]
  /\ wk' = [a \in Attempts |->
              IF co[a] \in CoActive /\ wk[a] \in WkActive THEN "dead" ELSE wk[a]]
  /\ UNCHANGED <<registered, taskVars, storeVars>>

-----------------------------------------------------------------------------
(* The coroutine of an attempt.                                            *)

(* run_token resolves the universe and builds the attempt row; run_pool    *)
(* has an empty universe.  A read of a lagging replica may miss holders.   *)
StartAttempt(a) ==
  /\ phase = "planned"
  /\ co[a] = "idle"
  /\ \E U \in (IF IntegrityMode \in TokenModes THEN UniverseReads ELSE {{}}) :
       /\ frozen' = [frozen EXCEPT ![a] = U]
       /\ IF IntegrityMode \in TokenModes /\ U # Holders THEN Fault ELSE NoFault
  /\ config' = [config EXCEPT ![a] = registered]
  /\ co' = [co EXCEPT ![a] = "starting"]
  /\ phase' = "attempt"
  /\ UNCHANGED <<registered, wk, ok, reconciled, sent, storeVars>>

(* The universe read raises before any row of the attempt exists. *)
UniverseRaises(a) ==
  /\ phase = "planned"
  /\ co[a] = "idle"
  /\ IntegrityMode \in TokenModes
  /\ Fault
  /\ co' = [co EXCEPT ![a] = "raised"]
  /\ phase' = "attempt"
  /\ UNCHANGED <<registered, wk, taskVars, storeVars>>

(* The "started" row is inserted before the try block: when the insert     *)
(* raises, no "failed" row follows.                                        *)
InsertStarted(a) ==
  /\ co[a] = "starting"
  /\ \E landed \in BOOLEAN :
       /\ \/ InsertReturns(landed) /\ co' = [co EXCEPT ![a] = "collecting"]
          \/ InsertRaises(landed) /\ co' = [co EXCEPT ![a] = "raised"]
       /\ status' = IF landed THEN [status EXCEPT ![a] = "started"] ELSE status
  /\ UNCHANGED <<procVars, wk, taskVars, rows, urows, errorIds, pubs>>

(* Code verification and collection succeed; some calls may have failed.   *)
Collect(a) ==
  /\ co[a] = "collecting"
  /\ \E S \in SUBSET Calls(a), r \in BOOLEAN :
       /\ ok' = [ok EXCEPT ![a] = S]
       /\ reconciled' = [reconciled EXCEPT ![a] = r]
       /\ IntegrityMode # "cl_liquidity" => r
       /\ IF S = Calls(a) /\ r THEN NoFault ELSE Fault
  /\ co' = [co EXCEPT ![a] = "awaiting"]
  /\ wk' = [wk EXCEPT ![a] =
              IF IntegrityMode \in TokenModes THEN "universe" ELSE "observations"]
  /\ UNCHANGED <<procVars, config, frozen, sent, storeVars>>

CollectRaises(a) ==
  /\ co[a] = "collecting"
  /\ Fault
  /\ co' = [co EXCEPT ![a] = "failing"]
  /\ UNCHANGED <<procVars, wk, taskVars, storeVars>>

(* asyncio.to_thread delivers what the thread returned or raised. *)
AwaitReturns(a) ==
  /\ co[a] = "awaiting"
  /\ wk[a] = "done"
  /\ co' = [co EXCEPT ![a] = "ended"]
  /\ phase' = "sleeping"
  /\ UNCHANGED <<registered, wk, taskVars, storeVars, faults>>

AwaitRaises(a) ==
  /\ co[a] = "awaiting"
  /\ wk[a] = "raised"
  /\ co' = [co EXCEPT ![a] = "failing"]
  /\ UNCHANGED <<procVars, wk, taskVars, storeVars, faults>>

(* CancelledError reaches the coroutine.  Inside the try block it leads to *)
(* the except clause; outside, the pending insert may still land.          *)
Cancel(a) ==
  /\ Fault
  /\ \/ /\ co[a] \in {"collecting", "awaiting"}
        /\ co' = [co EXCEPT ![a] = "cancelling"]
        /\ UNCHANGED status
     \/ /\ co[a] \in {"starting", "failing"}
        /\ co' = [co EXCEPT ![a] = "cancelled"]
        /\ \/ UNCHANGED status
           \/ status' = [status EXCEPT ![a] =
                           IF co[a] = "starting" THEN "started" ELSE "failed"]
  /\ UNCHANGED <<procVars, wk, taskVars, rows, urows, errorIds, pubs>>

(* Mutant: the failure is recorded under the attempt's id. *)
TargetFailureId_attempt(a) == a
(* attempt_id of the row _record_target_failure writes. *)
TargetFailureId(a) == FreshId

(* "Best-effort by design": the row may not be recorded. *)
FailureRecorded(a) ==
  errorIds' \in {errorIds, errorIds \cup {TargetFailureId(a)}}

(* The except clause inserts the "failed" row and raises again.  When the  *)
(* insert raises in place of CancelledError, run_one records that failure. *)
RecordFailed(a) ==
  /\ co[a] \in {"failing", "cancelling"}
  /\ \E landed \in BOOLEAN :
       /\ status' = IF landed THEN [status EXCEPT ![a] = "failed"] ELSE status
       /\ \/ InsertReturns(landed) /\ UNCHANGED errorIds
          \/ /\ InsertRaises(landed)
             /\ IF co[a] = "cancelling" THEN FailureRecorded(a)
                                        ELSE UNCHANGED errorIds
  /\ co' = [co EXCEPT ![a] = IF co[a] = "failing" THEN "raised" ELSE "cancelled"]
  /\ UNCHANGED <<procVars, wk, taskVars, rows, urows, pubs>>

(* run_one: _record_target_failure under an id of its own; census() then   *)
(* raises JobRunError, which the daemon and the backfill survive.          *)
RecordTargetFailure(a) ==
  /\ co[a] = "raised"
  /\ FailureRecorded(a)
  /\ co' = [co EXCEPT ![a] = "ended"]
  /\ phase' = "sleeping"
  /\ UNCHANGED <<registered, wk, taskVars, rows, urows, status, pubs, faults>>

(* The cancelled process closes: the guard is released first, and the      *)
(* thread pool drained only after it.                                      *)
CloseCancelled(a) ==
  /\ co[a] = "cancelled"
  /\ co' = [co EXCEPT ![a] = "ended"]
  /\ phase' = "closed"
  /\ UNCHANGED <<registered, wk, taskVars, storeVars, faults>>

-----------------------------------------------------------------------------
(* The worker thread: _persist_and_publish_token / _pool / _pool_cl.       *)

(* An accepted insert normally lands whole; the read-back exists because   *)
(* some of its rows may be missing.                                        *)
Landed(S, L) == /\ L \subseteq S
                /\ IF L = S THEN NoFault ELSE Fault

(* An insert or a read of the thread raises; an insert that commits and    *)
(* then raises is the insert followed by this step.                        *)
WorkerRaises(a) ==
  /\ wk[a] \in {"universe", "observations", "errors", "readback"}
  /\ Fault
  /\ wk' = [wk EXCEPT ![a] = "raised"]
  /\ UNCHANGED <<procVars, co, taskVars, storeVars>>

(* Mutant: the supply scalars are stored as universe members too. *)
PersistUniverse_scalars(a) ==
  /\ wk[a] = "universe"
  /\ urows' = [urows EXCEPT ![a] = Calls(a)]
  /\ NoFault
  /\ wk' = [wk EXCEPT ![a] = "observations"]
  /\ UNCHANGED <<procVars, co, taskVars, rows, status, errorIds, pubs>>
PersistUniverse(a) ==
  /\ wk[a] = "universe"
  /\ \E L \in SUBSET frozen[a] :
       /\ Landed(frozen[a], L)
       /\ urows' = [urows EXCEPT ![a] = L]
  /\ wk' = [wk EXCEPT ![a] = "observations"]
  /\ UNCHANGED <<procVars, co, taskVars, rows, status, errorIds, pubs>>

(* One call of _insert_chunked's loop, or of the scalar and state inserts. *)
PersistChunk(a) ==
  /\ wk[a] = "observations"
  /\ \E C \in SUBSET (ok[a] \ sent[a]) :
       /\ C # {}
       /\ sent' = [sent EXCEPT ![a] = @ \cup C]
       /\ \E L \in SUBSET C : /\ Landed(C, L)
                              /\ rows' = [rows EXCEPT ![a] = @ \cup L]
  /\ UNCHANGED <<procVars, co, wk, config, frozen, ok, reconciled, urows, status,
                 errorIds, pubs>>

ChunksDone(a) ==
  /\ wk[a] = "observations"
  /\ sent[a] = ok[a]
  /\ wk' = [wk EXCEPT ![a] = "errors"]
  /\ UNCHANGED <<procVars, co, taskVars, storeVars, faults>>

PersistErrors(a) ==
  /\ wk[a] = "errors"
  /\ \/ errorIds' = (IF CallErrors(a) = {} THEN errorIds ELSE errorIds \cup {a})
        /\ NoFault
     \/ CallErrors(a) # {} /\ Fault /\ UNCHANGED errorIds
  /\ wk' = [wk EXCEPT ![a] = "readback"]
  /\ UNCHANGED <<procVars, co, taskVars, rows, urows, status, pubs>>

(* Mutant: no consistent re-read. *)
VerifiedReadback_plain(plain, stored, expected) == plain = expected
(* _verified_readback: a plain read that may miss rows, and on a mismatch  *)
(* one consistent read.  Both digests are over the rows the read returns.  *)
VerifiedReadback(plain, stored, expected) == plain = expected \/ stored = expected

(* readback_cl_digest raises when the read returns no state row. *)
ReadbackRaises(a, plain) ==
  /\ IntegrityMode = "cl_liquidity"
  /\ \/ StateRow \notin plain
     \/ plain # ok[a] /\ StateRow \notin rows[a]

(* Mutant: the observation digest is not compared. *)
PublicationChecks_nodigest(a, plain) ==
  /\ a \notin errorIds
  /\ IntegrityPassed(a)
  /\ IntegrityMode \in TokenModes => urows[a] = frozen[a]
  /\ CallErrors(a) = {}
  /\ IntegrityMode \in TokenModes => HolderSum(ok[a]) <= UINT256_MAX
(* _publication_checks and, for token jobs, the UInt256 check.  The plain  *)
(* error count is re-read when it differs from the count expected, so what *)
(* it decides is the count the store holds.                                *)
PublicationChecks(a, plain) ==
  /\ a \notin errorIds
  /\ IntegrityPassed(a)
  /\ VerifiedReadback(plain, rows[a], ok[a])
  /\ IntegrityMode \in TokenModes => urows[a] = frozen[a]
  /\ CallErrors(a) = {}
  /\ IntegrityMode \in TokenModes => HolderSum(ok[a]) <= UINT256_MAX

Readback(a) ==
  /\ wk[a] = "readback"
  /\ \E plain \in SUBSET rows[a] :
       /\ IF plain = rows[a] THEN NoFault ELSE Fault
       /\ wk' = [wk EXCEPT ![a] =
                   IF ~ReadbackRaises(a, plain) /\ PublicationChecks(a, plain)
                   THEN "verify" ELSE "raised"]
  /\ UNCHANGED <<procVars, co, taskVars, storeVars>>

InsertVerified(a) ==
  /\ wk[a] = "verify"
  /\ \E landed \in BOOLEAN :
       /\ \/ InsertReturns(landed) /\ wk' = [wk EXCEPT ![a] = "publish"]
          \/ InsertRaises(landed) /\ wk' = [wk EXCEPT ![a] = "raised"]
       /\ status' = IF landed THEN [status EXCEPT ![a] = "verified"] ELSE status
  /\ UNCHANGED <<procVars, co, taskVars, rows, urows, errorIds, pubs>>

AppendPublication(a) ==
  /\ wk[a] = "publish"
  /\ \E landed \in BOOLEAN :
       /\ \/ InsertReturns(landed) /\ wk' = [wk EXCEPT ![a] = "done"]
          \/ InsertRaises(landed) /\ wk' = [wk EXCEPT ![a] = "raised"]
       /\ pubs' = IF landed THEN pubs \cup {a} ELSE pubs
  /\ UNCHANGED <<procVars, co, taskVars, rows, urows, status, errorIds>>

(* The closing process is killed while it drains its thread pool. *)
KillOrphan(a) ==
  /\ co[a] = "ended"
  /\ wk[a] \in WkActive
  /\ Fault
  /\ wk' = [wk EXCEPT ![a] = "dead"]
  /\ UNCHANGED <<procVars, co, taskVars, storeVars>>

-----------------------------------------------------------------------------
ProcessStep ==
  \/ \E h \in ConfigHashes : Open(h)
  \/ Wake
  \/ PlanSkip
  \/ PlanWork
  \/ \E a \in Attempts : StartAttempt(a)

CoroutineStep(a) ==
  \/ InsertStarted(a)
  \/ Collect(a)
  \/ AwaitReturns(a)
  \/ AwaitRaises(a)
  \/ RecordFailed(a)
  \/ RecordTargetFailure(a)
  \/ CloseCancelled(a)

WorkerStep(a) ==
  \/ PersistUniverse(a)
  \/ PersistChunk(a)
  \/ ChunksDone(a)
  \/ PersistErrors(a)
  \/ Readback(a)
  \/ InsertVerified(a)
  \/ AppendPublication(a)

FaultStep ==
  \/ Close
  \/ Crash
  \/ \E a \in Attempts : UniverseRaises(a)
  \/ \E a \in Attempts : CollectRaises(a)
  \/ \E a \in Attempts : Cancel(a)
  \/ \E a \in Attempts : WorkerRaises(a)
  \/ \E a \in Attempts : KillOrphan(a)

Next ==
  \/ ProcessStep
  \/ \E a \in Attempts : CoroutineStep(a)
  \/ \E a \in Attempts : WorkerStep(a)
  \/ FaultStep

Spec == Init /\ [][Next]_vars

(* The daemon's loop never stops and is restarted when it dies; the event  *)
(* loop resumes every ready coroutine; a thread's ClickHouse calls return  *)
(* or time out (send_receive_timeout).                                     *)
Fairness ==
  /\ WF_vars(ProcessStep)
  /\ \A a \in Attempts : WF_vars(CoroutineStep(a))
  /\ \A a \in Attempts : WF_vars(WorkerStep(a))

FairSpec == Spec /\ Fairness

-----------------------------------------------------------------------------
(* Properties.                                                             *)

(* What v_*_published serves for an attempt: every frozen member and every *)
(* observation asked for is stored, no call failed, the mode's integrity   *)
(* check holds of the stored rows and their sum fits its UInt256 column.   *)
StoredSnapshotSound(a) ==
  /\ rows[a] = Calls(a)
  /\ IntegrityMode \in TokenModes =>
       /\ urows[a] = frozen[a]
       /\ HolderSum(rows[a]) <= UINT256_MAX
  /\ SupplyChecked(HolderSum(rows[a]))
  /\ IntegrityMode = "cl_liquidity" => reconciled[a]

(* Whatever crashes, cancellations, lost rows, stale reads and late worker *)
(* writes happen, an attempt the views serve has a complete, verified      *)
(* snapshot behind it (census.py _publication_checks, 007_views.sql        *)
(* v_publications_eligible).                                               *)
EligibleIsSound == \A a \in Attempts : Eligible(a) => StoredSnapshotSound(a)

(* A publication row never belongs to an attempt whose last status row is  *)
(* "started" or missing: the "verified" row lands before it and only this  *)
(* attempt's "failed" row may follow (census.py _publish_token; the        *)
(* comment on _ASYNC_INSERT_TABLES tells of the bug when it did not).      *)
PublicationFollowsVerified ==
  \A a \in pubs : status[a] \in {"verified", "failed"}

(* The inductive strengthening of the two invariants above.  LifeOf ties   *)
(* what the store holds of an attempt to how far its coroutine and its     *)
(* thread have come; the store alone does not determine it, because the    *)
(* thread outlives a cancelled coroutine.                                  *)
LifeOf(a) ==
  /\ co[a] \in {"idle", "starting"} => wk[a] = "idle" /\ status[a] = "none"
  /\ co[a] = "collecting" => wk[a] = "idle" /\ status[a] = "started"
  /\ wk[a] = "idle" => status[a] # "verified" /\ a \notin pubs
  /\ wk[a] \in {"universe", "observations", "errors", "readback", "verify"} =>
       status[a] \in {"started", "failed"} /\ a \notin pubs
  /\ wk[a] = "publish" => status[a] \in {"verified", "failed"} /\ a \notin pubs
  /\ wk[a] \in {"verify", "publish", "done"} => StoredSnapshotSound(a)
  /\ status[a] = "verified" => StoredSnapshotSound(a)
  /\ a \in pubs => status[a] \in {"verified", "failed"}
  /\ co[a] \in {"idle", "starting", "collecting"} => rows[a] = {} /\ ok[a] = {}
  /\ rows[a] \subseteq ok[a] /\ ok[a] \subseteq Calls(a)

AttemptLife == \A a \in Attempts : LifeOf(a)

(* What the supply check of the mode lets an attempt miss. *)
Tolerated == IF IntegrityMode = "full_supply" THEN Allowance ELSE 0

(* Two eligible attempts of a job that checks the supply agree on every    *)
(* scalar and differ in no more holders than the check tolerates: when a   *)
(* thread that outlived its coroutine, or an attempt that read a stale     *)
(* universe, publishes beside another one, all that can put the target     *)
(* into v_publication_conflicts is holders without a balance, or dust      *)
(* within holder_sum_tolerance (settings.py, 1e-9 by default).             *)
ConflictIsDust ==
  IntegrityMode \in SupplyModes =>
    \A a, b \in EligibleSet : /\ ok[a] \ Holders = ok[b] \ Holders
                              /\ HolderSum(ok[a] \ ok[b]) <= Tolerated

(* "A failed retry cannot overwrite a published attempt"                   *)
(* (docs/architecture.md section 9): an eligible publication is withdrawn  *)
(* only by a new config hash or by the "failed" row of its own attempt.    *)
OnlyOwnFailureWithdraws ==
  [][\A a \in Attempts :
       Eligible(a) /\ ~Eligible(a)' =>
         \/ registered' # registered
         \/ co[a] \in {"failing", "cancelling"} /\ status'[a] = "failed"]_vars

(* A result that is complete, verified and stored whole is not blocked by  *)
(* the read-backs, even when the plain read hits a lagging replica:        *)
(* census.py _verified_readback, "a single consistent re-read settles it   *)
(* before the digest check can block a good publication".                  *)
GoodResultNotBlocked ==
  [][\A a \in Attempts :
       Readback(a) /\ a \notin errorIds /\ StoredSnapshotSound(a)
         => wk'[a] = "verify"]_vars

(* The daemon "skips targets already visible in `v_publications_current`"  *)
(* (docs/runbook.md section 9).  With skip_published_any_config_hash on,   *)
(* the default, the gate looks for a verified publication of any config    *)
(* hash, and of any signature, instead.                                    *)
SkipsOnlyVisible == [][PlanSkip => Visible]_vars

(* The skip gate leaves a target out only when a complete and verified     *)
(* snapshot of it is stored, under either setting, even one that the views *)
(* hide (service.py census, published_target_addresses).                   *)
SkipsOnlyStored == [][PlanSkip => \E a \in pubs : StoredSnapshotSound(a)]_vars

(* Finitely many failures do not keep the daemon from publishing the       *)
(* target, and a published target stays visible, except when two eligible  *)
(* attempts differ in the dust of ConflictIsDust: the skip gate leaves     *)
(* such a target in v_publication_conflicts for an operator.               *)
EventuallyVisible == <>[](Visible \/ Conflicting)
=============================================================================
