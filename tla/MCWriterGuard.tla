--------------------------- MODULE MCWriterGuard ---------------------------
(***************************************************************************)
(* WriterGuard with model values and bounds, under names that the module   *)
(* of its theorems can hold next to the migrations.                        *)
(***************************************************************************)
CONSTANTS
  Procs, Operation, stale_seconds, MinInterval, MaxCall, MaxLate, MaxOutage,
  LaggingReads, MaxFailures, p1, p2

VARIABLES stage, task, row, ghost, call, sinceBeat, timer, failures

G == INSTANCE WriterGuard WITH
       pc <- stage, faults <- failures, MaxFaults <- MaxFailures

ASSUME GuardAssumption == G!GuardConstants

AllCensus == [p \in Procs |-> IF p = p1 THEN "daemon" ELSE "backfill"]

GuardSpec == G!Spec
FairGuardSpec == G!FairSpec

-----------------------------------------------------------------------------
(* The properties: see WriterGuard.                                        *)

(* The variables of the guard (WriterGuard) keep their types, and the ages *)
(* of rows and calls their bounds.                                         *)
GuardTypeOK == G!TypeOK

(* A "single-writer-per-class guard": two processes of one lock class      *)
(* never work at the same time (WriterGuard.acquire, _heartbeat_loop).     *)
AtMostOneHolder == G!AtMostOneHolder

(* A guard that reports healthy (WriterGuard.healthy) has a row that       *)
(* lapsed at most one beat ago, whatever the outage.                       *)
HealthyLapseBounded == G!HealthyLapseBounded

(* A second process of a class works only after the first has let its row  *)
(* lapse, for every timing (WriterGuard.acquire).                          *)
ExcludesUnlessLapsed == G!ExcludesUnlessLapsed

(* A lock nobody released comes free after stale_seconds                   *)
(* (fresh_writer_processes).                                               *)
LockRecovers == G!LockRecovers
=============================================================================
