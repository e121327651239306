---------------------- MODULE CensusPublicationProofs ----------------------
(***************************************************************************)
(* Proofs about the attempt and publication protocol, for every set of     *)
(* attempts, holders, scalars and config hashes, every integrity mode and  *)
(* every number of faults.                                                 *)
(***************************************************************************)
EXTENDS CensusPublication, BlockRangesProofs

(* The actions, as one list to expand. *)
USE DEF procVars, taskVars, storeVars

(* Every variable of the protocol keeps its type, whatever fails. *)
THEOREM TypeCorrect == Spec => []TypeOK
<1>1. Init => TypeOK
  BY HolderAssumption DEF Init, TypeOK, Phases, CoStates, CoActive, WkStates,
     WkActive, Statuses
<1>2. TypeOK /\ [Next]_vars => TypeOK'
  <2> SUFFICES ASSUME TypeOK, [Next]_vars
               PROVE  TypeOK'
    OBVIOUS
  <2> USE DEF TypeOK, Fault, NoFault, InsertReturns, InsertRaises
  <2>process. CASE ProcessStep
    <3>1. ASSUME NEW h \in ConfigHashes, Open(h) PROVE TypeOK'
      BY <3>1 DEF Open, Phases
    <3>2. CASE Wake
      BY <3>2 DEF Wake, Phases
    <3>3. CASE PlanSkip
      BY <3>3 DEF PlanSkip, Phases
    <3>4. CASE PlanWork
      BY <3>4 DEF PlanWork, Phases
    <3>5. ASSUME NEW a \in Attempts, StartAttempt(a) PROVE TypeOK'
      <4>1. PICK U \in SUBSET Holders : frozen' = [frozen EXCEPT ![a] = U]
        BY <3>5, HolderAssumption DEF StartAttempt
      <4>2. QED
        BY <3>5, <4>1, BoundAssumption
           DEF StartAttempt, Phases, CoStates, CoActive
    <3>6. QED
      BY <2>process, <3>1, <3>2, <3>3, <3>4, <3>5 DEF ProcessStep
  <2>coroutine. ASSUME NEW a \in Attempts, CoroutineStep(a) PROVE TypeOK'
    <3> USE DEF CoStates, CoActive, Statuses, Phases
    <3>1. CASE InsertStarted(a)
      BY <3>1 DEF InsertStarted
    <3>2. CASE Collect(a)
      <4>1. Calls(a) \subseteq Subjects
        BY DEF Calls, Subjects
      <4>2. QED
        BY <3>2, <4>1 DEF Collect, WkStates, WkActive
    <3>3. CASE AwaitReturns(a)
      BY <3>3 DEF AwaitReturns
    <3>4. CASE AwaitRaises(a)
      BY <3>4 DEF AwaitRaises
    <3>5. CASE RecordFailed(a)
      BY <3>5 DEF RecordFailed, TargetFailureId, FailureRecorded
    <3>6. CASE RecordTargetFailure(a)
      BY <3>6 DEF RecordTargetFailure, TargetFailureId, FailureRecorded
    <3>7. CASE CloseCancelled(a)
      BY <3>7 DEF CloseCancelled
    <3>8. QED
      BY <2>coroutine, <3>1, <3>2, <3>3, <3>4, <3>5, <3>6, <3>7 DEF CoroutineStep
  <2>worker. ASSUME NEW a \in Attempts, WorkerStep(a) PROVE TypeOK'
    <3> USE DEF WkStates, WkActive, Statuses
    <3>1. CASE PersistUniverse(a)
      BY <3>1 DEF PersistUniverse, Landed
    <3>2. CASE PersistChunk(a)
      BY <3>2 DEF PersistChunk, Landed
    <3>3. CASE ChunksDone(a)
      BY <3>3 DEF ChunksDone
    <3>4. CASE PersistErrors(a)
      BY <3>4 DEF PersistErrors
    <3>5. CASE Readback(a)
      BY <3>5 DEF Readback
    <3>6. CASE InsertVerified(a)
      BY <3>6 DEF InsertVerified
    <3>7. CASE AppendPublication(a)
      BY <3>7 DEF AppendPublication
    <3>8. QED
      BY <2>worker, <3>1, <3>2, <3>3, <3>4, <3>5, <3>6, <3>7 DEF WorkerStep
  <2>fault. CASE FaultStep
    <3> USE DEF CoStates, CoActive, WkStates, WkActive, Statuses, Phases
    <3>1. CASE Close
      BY <3>1 DEF Close
    <3>2. CASE Crash
      BY <3>2 DEF Crash
    <3>3. ASSUME NEW a \in Attempts, UniverseRaises(a) PROVE TypeOK'
      BY <3>3 DEF UniverseRaises
    <3>4. ASSUME NEW a \in Attempts, CollectRaises(a) PROVE TypeOK'
      BY <3>4 DEF CollectRaises
    <3>5. ASSUME NEW a \in Attempts, Cancel(a) PROVE TypeOK'
      BY <3>5 DEF Cancel
    <3>6. ASSUME NEW a \in Attempts, WorkerRaises(a) PROVE TypeOK'
      BY <3>6 DEF WorkerRaises
    <3>7. ASSUME NEW a \in Attempts, KillOrphan(a) PROVE TypeOK'
      BY <3>7 DEF KillOrphan
    <3>8. QED
      BY <2>fault, <3>1, <3>2, <3>3, <3>4, <3>5, <3>6, <3>7 DEF FaultStep
  <2>stutter. CASE UNCHANGED vars
    BY <2>stutter DEF vars
  <2>qed. QED
    BY <2>process, <2>coroutine, <2>worker, <2>fault, <2>stutter DEF Next
<1>3. QED
  BY <1>1, <1>2, PTL DEF Spec

-----------------------------------------------------------------------------
(* An action that leaves an attempt's coroutine, thread, task and store    *)
(* rows alone leaves its life history as it was.                           *)
LEMMA LifeUnchanged ==
  ASSUME TypeOK, NEW a \in Attempts, LifeOf(a),
         co'[a] = co[a], wk'[a] = wk[a], status'[a] = status[a],
         frozen'[a] = frozen[a], reconciled'[a] = reconciled[a],
         ok'[a] = ok[a], rows'[a] = rows[a], urows'[a] = urows[a], a \in pubs' <=> a \in pubs
  PROVE  LifeOf(a)'
BY DEF LifeOf, StoredSnapshotSound, Calls

(* Passing the publication checks means that the stored snapshot is sound. *)
LEMMA ChecksImplySound ==
  ASSUME TypeOK, NEW a \in Attempts, NEW plain \in SUBSET rows[a],
         rows[a] \subseteq ok[a], ok[a] \subseteq Calls(a),
         PublicationChecks(a, plain)
  PROVE  StoredSnapshotSound(a)
<1>1. rows[a] = ok[a]
  BY DEF PublicationChecks, VerifiedReadback
<1>2. ok[a] = Calls(a)
  BY DEF PublicationChecks, CallErrors
<1>3. QED
  BY <1>1, <1>2 DEF PublicationChecks, IntegrityPassed, StoredSnapshotSound

-----------------------------------------------------------------------------
(* AttemptLife is inductive.  Every action names the one attempt b it      *)
(* belongs to (Crash names all of them); the others are LifeUnchanged.     *)
LEMMA AttemptLifeStep == TypeOK /\ AttemptLife /\ [Next]_vars => AttemptLife'
<1> SUFFICES ASSUME TypeOK, AttemptLife, [Next]_vars, NEW a \in Attempts
             PROVE  LifeOf(a)'
  BY DEF AttemptLife
<1>0. LifeOf(a)
  BY DEF AttemptLife
<1> USE <1>0
<1>1. CASE ProcessStep
  <2>1. ASSUME NEW h \in ConfigHashes, Open(h) PROVE LifeOf(a)'
    BY <2>1, LifeUnchanged DEF Open
  <2>2. CASE Wake
    BY <2>2, LifeUnchanged DEF Wake
  <2>3. CASE PlanSkip
    BY <2>3, LifeUnchanged DEF PlanSkip
  <2>4. CASE PlanWork
    BY <2>4, LifeUnchanged DEF PlanWork
  <2>5. ASSUME NEW b \in Attempts, StartAttempt(b) PROVE LifeOf(a)'
    <3>1. CASE a = b
      BY <2>5, <3>1 DEF StartAttempt, LifeOf, TypeOK, Calls
    <3>2. CASE a # b
      BY <2>5, <3>2, LifeUnchanged DEF StartAttempt, TypeOK
    <3>3. QED
      BY <3>1, <3>2
  <2>6. QED
    BY <1>1, <2>1, <2>2, <2>3, <2>4, <2>5 DEF ProcessStep
<1>2. ASSUME NEW b \in Attempts, CoroutineStep(b) PROVE LifeOf(a)'
  <2>0. CASE a # b
    BY <1>2, <2>0, LifeUnchanged
       DEF CoroutineStep, InsertStarted, Collect, AwaitReturns, AwaitRaises,
           RecordFailed, RecordTargetFailure, CloseCancelled, TypeOK
  <2> SUFFICES ASSUME a = b PROVE LifeOf(a)'
    BY <2>0
  <2> USE DEF TypeOK, LifeOf, StoredSnapshotSound, Calls
  <2>1. CASE InsertStarted(a)
    BY <2>1 DEF InsertStarted, InsertReturns
  <2>2. CASE Collect(a)
    BY <2>2 DEF Collect
  <2>3. CASE AwaitReturns(a)
    BY <2>3 DEF AwaitReturns
  <2>4. CASE AwaitRaises(a)
    BY <2>4 DEF AwaitRaises
  <2>5. CASE RecordFailed(a)
    BY <2>5 DEF RecordFailed
  <2>6. CASE RecordTargetFailure(a)
    BY <2>6 DEF RecordTargetFailure
  <2>7. CASE CloseCancelled(a)
    BY <2>7 DEF CloseCancelled
  <2>8. QED
    BY <1>2, <2>1, <2>2, <2>3, <2>4, <2>5, <2>6, <2>7 DEF CoroutineStep
<1>3. ASSUME NEW b \in Attempts, WorkerStep(b) PROVE LifeOf(a)'
  <2>0. CASE a # b
    BY <1>3, <2>0, LifeUnchanged
       DEF WorkerStep, PersistUniverse, PersistChunk, ChunksDone, PersistErrors,
           Readback, InsertVerified, AppendPublication, TypeOK
  <2> SUFFICES ASSUME a = b PROVE LifeOf(a)'
    BY <2>0
  <2>1. CASE PersistUniverse(a)
    BY <2>1 DEF PersistUniverse, TypeOK, LifeOf, Calls
  <2>2. CASE PersistChunk(a)
    BY <2>2 DEF PersistChunk, Landed, TypeOK, LifeOf, Calls
  <2>3. CASE ChunksDone(a)
    BY <2>3 DEF ChunksDone, TypeOK, LifeOf, StoredSnapshotSound, Calls
  <2>4. CASE PersistErrors(a)
    BY <2>4 DEF PersistErrors, TypeOK, LifeOf, StoredSnapshotSound, Calls
  <2>5. CASE Readback(a)
    <3>1. wk'[a] = "verify" => StoredSnapshotSound(a)
      BY <2>5, ChecksImplySound DEF Readback, TypeOK, LifeOf
    <3>2. wk'[a] \in {"verify", "raised"}
      BY <2>5 DEF Readback, TypeOK
    <3>3. StoredSnapshotSound(a)' <=> StoredSnapshotSound(a)
      BY <2>5 DEF Readback, StoredSnapshotSound, Calls
    <3>4. QED
      BY <2>5, <3>1, <3>2, <3>3 DEF Readback, TypeOK, LifeOf, Calls
  <2>6. CASE InsertVerified(a)
    BY <2>6 DEF InsertVerified, TypeOK, LifeOf, StoredSnapshotSound, Calls,
       InsertReturns, InsertRaises
  <2>7. CASE AppendPublication(a)
    BY <2>7 DEF AppendPublication, TypeOK, LifeOf, StoredSnapshotSound, Calls
  <2>8. QED
    BY <1>3, <2>1, <2>2, <2>3, <2>4, <2>5, <2>6, <2>7 DEF WorkerStep
<1>4. CASE FaultStep
  <2>1. CASE Close
    BY <2>1, LifeUnchanged DEF Close
  <2>2. CASE Crash
    BY <2>2 DEF Crash, TypeOK, LifeOf, StoredSnapshotSound, Calls, CoActive,
       WkActive
  <2>3. ASSUME NEW b \in Attempts, UniverseRaises(b) PROVE LifeOf(a)'
    BY <2>3 DEF UniverseRaises, TypeOK, LifeOf, StoredSnapshotSound, Calls
  <2>4. ASSUME NEW b \in Attempts, CollectRaises(b) PROVE LifeOf(a)'
    BY <2>4 DEF CollectRaises, TypeOK, LifeOf, StoredSnapshotSound, Calls
  <2>5. ASSUME NEW b \in Attempts, Cancel(b) PROVE LifeOf(a)'
    BY <2>5 DEF Cancel, TypeOK, LifeOf, StoredSnapshotSound, Calls
  <2>6. ASSUME NEW b \in Attempts, WorkerRaises(b) PROVE LifeOf(a)'
    BY <2>6 DEF WorkerRaises, TypeOK, LifeOf, StoredSnapshotSound, Calls
  <2>7. ASSUME NEW b \in Attempts, KillOrphan(b) PROVE LifeOf(a)'
    BY <2>7 DEF KillOrphan, TypeOK, LifeOf, StoredSnapshotSound, Calls, WkActive
  <2>8. QED
    BY <1>4, <2>1, <2>2, <2>3, <2>4, <2>5, <2>6, <2>7 DEF FaultStep
<1>5. CASE UNCHANGED vars
  BY <1>5, LifeUnchanged DEF vars
<1>6. QED
  BY <1>1, <1>2, <1>3, <1>4, <1>5 DEF Next

(* The strengthened invariant holds of every reachable state. *)
THEOREM AttemptLifeCorrect == Spec => []AttemptLife
<1>1. Init => AttemptLife
  BY DEF Init, AttemptLife, LifeOf
<1>2. QED
  BY <1>1, AttemptLifeStep, TypeCorrect, PTL DEF Spec

(* Whatever fails, an attempt that the published views serve has a         *)
(* complete and verified snapshot stored (census.py _publication_checks).  *)
THEOREM EligibleSoundness == Spec => []EligibleIsSound
<1>1. AttemptLife => EligibleIsSound
  BY DEF AttemptLife, LifeOf, EligibleIsSound, Eligible
<1>2. QED
  BY <1>1, AttemptLifeCorrect, PTL

(* A publication row is never ahead of its attempt's "verified" row.       *)
THEOREM PublicationOrder == Spec => []PublicationFollowsVerified
<1>1. TypeOK /\ AttemptLife => PublicationFollowsVerified
  BY DEF TypeOK, AttemptLife, LifeOf, PublicationFollowsVerified
<1>2. QED
  BY <1>1, TypeCorrect, AttemptLifeCorrect, PTL

(* A served publication is withdrawn only by a new config hash or by the   *)
(* "failed" row of its own attempt, never by another attempt.              *)
THEOREM WithdrawalIsOwn == Spec => OnlyOwnFailureWithdraws
<1> DEFINE P == \A a \in Attempts :
                  Eligible(a) /\ ~Eligible(a)' =>
                    \/ registered' # registered
                    \/ co[a] \in {"failing", "cancelling"} /\ status'[a] = "failed"
<1>1. TypeOK /\ AttemptLife /\ [Next]_vars => [P]_vars
  <2> SUFFICES ASSUME TypeOK, AttemptLife, Next, NEW a \in Attempts,
                      Eligible(a), ~Eligible(a)', registered' = registered
               PROVE  co[a] \in {"failing", "cancelling"} /\ status'[a] = "failed"
    OBVIOUS
  <2>1. LifeOf(a) /\ a \in pubs /\ status[a] = "verified" /\ a \notin errorIds
    BY DEF AttemptLife, Eligible
  <2>2. /\ co[a] \notin {"idle", "starting", "collecting"}
        /\ wk[a] \notin WkActive
    BY <2>1 DEF LifeOf, WkActive
  <2>3. CASE ProcessStep
    BY <2>1, <2>2, <2>3 DEF ProcessStep, Open, Wake, PlanSkip, PlanWork,
       StartAttempt, Eligible, TypeOK
  <2>4. ASSUME NEW b \in Attempts, CoroutineStep(b)
        PROVE  co[a] \in {"failing", "cancelling"} /\ status'[a] = "failed"
    BY <2>1, <2>2, <2>4, IdsAssumption DEF CoroutineStep, InsertStarted, Collect,
       AwaitReturns, AwaitRaises, RecordFailed, RecordTargetFailure,
       CloseCancelled, TargetFailureId, FailureRecorded, Eligible, TypeOK
  <2>5. ASSUME NEW b \in Attempts, WorkerStep(b)
        PROVE  co[a] \in {"failing", "cancelling"} /\ status'[a] = "failed"
    BY <2>1, <2>2, <2>5 DEF WorkerStep, PersistUniverse, PersistChunk,
       ChunksDone, PersistErrors, Readback, InsertVerified, AppendPublication,
       Eligible, TypeOK, WkActive
  <2>6. CASE FaultStep
    BY <2>1, <2>2, <2>6 DEF FaultStep, Close, Crash, UniverseRaises,
       CollectRaises, Cancel, WorkerRaises, KillOrphan, Eligible, TypeOK
  <2>7. QED
    BY <2>3, <2>4, <2>5, <2>6 DEF Next
<1>2. QED
  BY <1>1, TypeCorrect, AttemptLifeCorrect, PTL DEF Spec, OnlyOwnFailureWithdraws

-----------------------------------------------------------------------------
(* A stored result that is complete and sound passes its read-backs, even  *)
(* when the plain read misses rows.  The rows of a concentrated-liquidity  *)
(* pool are excluded: readback_cl_digest raises when the plain read has no *)
(* state row, before the consistent re-read is reached.                    *)
THEOREM GoodResultPasses ==
  ASSUME IntegrityMode # "cl_liquidity"
  PROVE  Spec => GoodResultNotBlocked
<1> DEFINE P == \A a \in Attempts :
                  Readback(a) /\ a \notin errorIds /\ StoredSnapshotSound(a)
                    => wk'[a] = "verify"
<1>1. TypeOK /\ AttemptLife => P
  <2> SUFFICES ASSUME TypeOK, AttemptLife, NEW a \in Attempts, Readback(a),
                      a \notin errorIds, StoredSnapshotSound(a)
               PROVE  wk'[a] = "verify"
    OBVIOUS
  <2>1. rows[a] = Calls(a) /\ ok[a] = Calls(a)
    BY DEF AttemptLife, LifeOf, StoredSnapshotSound
  <2>2. ASSUME NEW plain PROVE ~ReadbackRaises(a, plain) /\ PublicationChecks(a, plain)
    BY <2>1 DEF ReadbackRaises, PublicationChecks, IntegrityPassed, CallErrors,
       VerifiedReadback, StoredSnapshotSound
  <2> QED
    BY <2>2 DEF Readback, TypeOK
<1> QED
  BY <1>1, TypeCorrect, AttemptLifeCorrect, PTL DEF GoodResultNotBlocked

-----------------------------------------------------------------------------
(* Of two sets of holders, what the first adds to the second is part of    *)
(* what the second misses of the supply.                                   *)
LEMMA MissedSupply ==
  ASSUME NEW A \in SUBSET Holders, NEW B \in SUBSET Holders
  PROVE  /\ HolderSum(Holders) \in Nat /\ HolderSum(B) \in Nat
         /\ HolderSum(A \ B) \in Nat
         /\ HolderSum(A \ B) <= HolderSum(Holders) - HolderSum(B)
<1> DEFINE D == A \ B
           R == Holders \ B
           Sum(S) == SumFunctionOnSet(Balance, S)
<1>1. /\ IsFiniteSet(Holders) /\ \A h \in Holders : Balance[h] \in Nat
      /\ \A h \in Holders : Balance[h] \in Int
  BY HolderAssumption
<1>2. \A S \in SUBSET Holders : IsFiniteSet(S)
  BY <1>1, FS_Subset
<1>3. \A S \in SUBSET Holders : Sum(S) \in Nat
  BY <1>1, <1>2, SumOfNaturals
<1>4. Sum(Holders) = Sum(B) + Sum(R)
  BY <1>1, SumSplits
<1>5. R \in SUBSET Holders /\ D \in SUBSET R /\ R \ D \in SUBSET Holders
  OBVIOUS
<1>6. Sum(R) = Sum(D) + Sum(R \ D)
  <2>1. IsFiniteSet(R) /\ \A h \in R : Balance[h] \in Int
    BY <1>1, <1>2, <1>5
  <2> QED
    BY <2>1, <1>5, SumSplits
<1>7. Sum(Holders) \in Nat /\ Sum(B) \in Nat /\ Sum(D) \in Nat /\ Sum(R \ D) \in Nat
      /\ Sum(R) \in Nat
  BY <1>3, <1>5
<1>8. /\ HolderSum(Holders) = Sum(Holders) /\ HolderSum(B) = Sum(B)
      /\ HolderSum(A \ B) = Sum(D)
  <2>1. Holders \cap Holders = Holders /\ B \cap Holders = B /\ D \cap Holders = D
    OBVIOUS
  <2> QED
    BY <2>1 DEF HolderSum
<1> HIDE DEF Sum, D, R
<1> QED
  BY <1>4, <1>6, <1>7, <1>8

(* What the views serve of an attempt is its whole frozen universe and     *)
(* every scalar, and the holders it leaves out own together no more than   *)
(* the supply check tolerates.                                             *)
ServedIsWhole ==
  \A a \in EligibleSet :
    /\ config[a] = registered
    /\ frozen[a] \in SUBSET Holders
    /\ ok[a] = frozen[a] \cup Scalars /\ rows[a] = frozen[a] \cup Scalars
    /\ urows[a] = frozen[a]
    /\ HolderSum(Holders) - HolderSum(urows[a]) <= Tolerated
    /\ HolderSum(Holders \ urows[a]) <= Tolerated

(* Readers of v_*_published find nothing of a target, or a census that     *)
(* misses no more of the supply than the mode tolerates, whatever a stale  *)
(* universe read, a lost row or a late thread left out of it               *)
(* (holder_sum_within_tolerance, _publication_checks).                     *)
THEOREM ServedSnapshotIsWhole ==
  ASSUME IntegrityMode \in SupplyModes
  PROVE  Spec => []ServedIsWhole
<1>1. TypeOK /\ AttemptLife => ServedIsWhole
  <2> SUFFICES ASSUME TypeOK, AttemptLife, NEW a \in EligibleSet
               PROVE  /\ config[a] = registered
                      /\ frozen[a] \in SUBSET Holders
                      /\ ok[a] = frozen[a] \cup Scalars /\ rows[a] = frozen[a] \cup Scalars
                      /\ urows[a] = frozen[a]
                      /\ HolderSum(Holders) - HolderSum(urows[a]) <= Tolerated
                      /\ HolderSum(Holders \ urows[a]) <= Tolerated
    BY DEF ServedIsWhole
  <2>1. a \in Attempts /\ config[a] = registered /\ LifeOf(a)
    BY DEF EligibleSet, Eligible, AttemptLife
  <2>2. StoredSnapshotSound(a)
    BY DEF EligibleSet, Eligible, AttemptLife, LifeOf
  <2>3. rows[a] = Calls(a) /\ ok[a] = Calls(a)
    BY <2>1, <2>2 DEF LifeOf, StoredSnapshotSound
  <2>4. frozen[a] \in SUBSET Holders /\ urows[a] = frozen[a]
    BY <2>1, <2>2 DEF StoredSnapshotSound, TokenModes, TypeOK
  <2>5. HolderSum(rows[a]) = HolderSum(frozen[a])
    <3>1. rows[a] \cap Holders = frozen[a] \cap Holders
      BY <2>3, <2>4, HolderAssumption DEF Calls
    <3> QED
      BY <3>1 DEF HolderSum
  <2>6. SupplyChecked(HolderSum(frozen[a]))
    BY <2>2, <2>5 DEF StoredSnapshotSound
  <2>7. /\ HolderSum(Holders) \in Nat /\ HolderSum(frozen[a]) \in Nat
        /\ HolderSum(Holders \ frozen[a]) \in Nat
        /\ HolderSum(Holders \ frozen[a]) <= HolderSum(Holders) - HolderSum(frozen[a])
    BY <2>4, MissedSupply
  <2>8. HolderSum(Holders) - HolderSum(frozen[a]) <= Tolerated
    BY <2>6, <2>7, BoundAssumption
       DEF SupplyChecked, holder_sum_within_tolerance, Abs, Tolerated, SupplyModes
  <2>9. HolderSum(Holders \ frozen[a]) <= Tolerated
    BY <2>7, <2>8, BoundAssumption DEF Tolerated
  <2> QED
    BY <2>1, <2>3, <2>4, <2>8, <2>9 DEF Calls
<1> QED
  BY <1>1, TypeCorrect, AttemptLifeCorrect, PTL

(* Two attempts that the views find eligible differ in nothing but holders *)
(* within the tolerance, whichever of them a lagging replica or a late     *)
(* thread served (007_views.sql v_publication_conflicts).                  *)
THEOREM ConflictsAreDust == Spec => []ConflictIsDust
<1>1. CASE IntegrityMode \in SupplyModes
  <2>1. ServedIsWhole => ConflictIsDust
    <3> SUFFICES ASSUME ServedIsWhole, NEW a \in EligibleSet, NEW b \in EligibleSet
                 PROVE  /\ ok[a] \ Holders = ok[b] \ Holders
                        /\ HolderSum(ok[a] \ ok[b]) <= Tolerated
      BY DEF ConflictIsDust
    <3>1. /\ frozen[a] \in SUBSET Holders /\ ok[a] = frozen[a] \cup Scalars
          /\ frozen[b] \in SUBSET Holders /\ ok[b] = frozen[b] \cup Scalars
          /\ HolderSum(Holders) - HolderSum(frozen[b]) <= Tolerated
      BY DEF ServedIsWhole
    <3>2. /\ ok[a] \ Holders = ok[b] \ Holders
          /\ (ok[a] \ ok[b]) \cap Holders = (frozen[a] \ frozen[b]) \cap Holders
      BY <3>1, HolderAssumption
    <3>3. HolderSum(ok[a] \ ok[b]) = HolderSum(frozen[a] \ frozen[b])
      BY <3>2 DEF HolderSum
    <3>4. /\ HolderSum(Holders) \in Nat /\ HolderSum(frozen[b]) \in Nat
          /\ HolderSum(frozen[a] \ frozen[b]) \in Nat
          /\ HolderSum(frozen[a] \ frozen[b]) <= HolderSum(Holders) - HolderSum(frozen[b])
      BY <3>1, MissedSupply
    <3>5. HolderSum(frozen[a] \ frozen[b]) <= Tolerated
      BY <3>1, <3>4, BoundAssumption DEF Tolerated
    <3> QED
      BY <3>2, <3>3, <3>5
  <2> QED
    BY <1>1, <2>1, ServedSnapshotIsWhole, PTL
<1>2. CASE IntegrityMode \notin SupplyModes
  <2>1. TypeOK => ConflictIsDust
    BY <1>2 DEF ConflictIsDust
  <2> QED
    BY <2>1, TypeCorrect, PTL
<1> QED
  BY <1>1, <1>2

-----------------------------------------------------------------------------
(* So a date is never left without a stored snapshot by a skip of it       *)
(* (service.py census, published_target_addresses).                        *)
THEOREM SkippedIsStored == Spec => SkipsOnlyStored
<1>1. TypeOK /\ AttemptLife => (PlanSkip => \E a \in pubs : StoredSnapshotSound(a))
  <2> SUFFICES ASSUME AttemptLife, PublishedTarget, TypeOK
               PROVE  \E a \in pubs : StoredSnapshotSound(a)
    BY DEF PlanSkip
  <2> QED
    BY DEF PublishedTarget, Visible, EligibleSet, Eligible, AttemptLife, LifeOf, TypeOK
<1> QED
  BY <1>1, TypeCorrect, AttemptLifeCorrect, PTL DEF SkipsOnlyStored
=============================================================================
