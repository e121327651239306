---------------------------- MODULE WriterGuard ----------------------------
(***************************************************************************)
(* The heartbeat guard of service.py (WriterGuard, IndexerService.open and *)
(* close), over discrete time.                                             *)
(*                                                                         *)
(* A process slot (a pod that is restarted when it dies) runs acquire,     *)
(* which reads the fresh heartbeats of its lock class, writes its own and  *)
(* reads again; then its heartbeat task writes a beat every interval until *)
(* release writes a row dated to the epoch.  Every start has a new         *)
(* process_id, so a row left behind by a process that ended without a      *)
(* release is nobody's: ghost[c] is the age of the youngest of them.       *)
(*                                                                         *)
(* Time is kept as ages.  A call to ClickHouse takes at most MaxCall, the  *)
(* heartbeat task is resumed at most MaxLate after its sleep is over, and  *)
(* a beat fails only while the last success is at most MaxOutage old.      *)
(***************************************************************************)
EXTENDS Integers

CONSTANTS
  Procs,         \* process slots
  Operation,     \* the operation each slot runs
  stale_seconds, \* settings.writer_stale_seconds
  MinInterval,   \* the 10 seconds of _heartbeat_loop
  MaxCall,       \* longest ClickHouse call (send_receive_timeout)
  MaxLate,       \* longest delay of the event loop
  MaxOutage,     \* age of the last success up to which a beat may fail
  LaggingReads,  \* a plain read may miss the latest heartbeat rows
  MaxFaults      \* bound on kills, raising calls and lagging reads

(* Durations are whole numbers, and neither the window nor the interval is *)
(* zero.                                                                   *)
GuardConstants ==
  /\ stale_seconds \in Nat \ {0}
  /\ MinInterval \in Nat \ {0}
  /\ MaxCall \in Nat
  /\ MaxLate \in Nat
  /\ MaxOutage \in Nat
  /\ MaxFaults \in Nat
  /\ LaggingReads \in BOOLEAN

VARIABLES
  pc,         \* [Procs -> control state]
  task,       \* [Procs -> state of the heartbeat task]
  row,        \* [Procs -> age of the process's heartbeat row]
  ghost,      \* [Classes -> age of the youngest row left behind]
  call,       \* [Procs -> duration of the call in progress]
  sinceBeat,  \* [Procs -> time since last_success]
  timer,      \* [Procs -> time since the heartbeat task went to sleep]
  faults      \* faults so far

vars == <<pc, task, row, ghost, call, sinceBeat, timer, faults>>

Classes == {"discovery", "census"}

(* discovery_scope, from _DISCOVERY_SCOPE_OPERATIONS. *)
Scope(p) == IF Operation[p] = "discover" THEN "discovery" ELSE "census"

interval == IF 3 * MinInterval > stale_seconds THEN MinInterval
                                               ELSE stale_seconds \div 3

(* Ages stop growing where nothing tells them apart any more; a released   *)
(* row, and no row at all, have that age.                                  *)
LapseBound == stale_seconds + interval + MaxLate + 3 * MaxCall
Gone == LapseBound + 1
Older(age) == IF age < Gone THEN age + 1 ELSE Gone
Younger(x, y) == IF x < y THEN x ELSE y

Calling == {"check", "write", "recheck", "retract", "beat"}
ControlStates == Calling \cup {"off", "held", "release", "draining"}

TypeOK ==
  /\ pc \in [Procs -> ControlStates]
  /\ task \in [Procs -> {"none", "running", "dead"}]
  /\ row \in [Procs -> 0..Gone]
  /\ ghost \in [Classes -> 0..Gone]
  /\ call \in [Procs -> 0..MaxCall]
  /\ sinceBeat \in [Procs -> 0..Gone]
  /\ timer \in [Procs -> 0..(interval + MaxLate)]
  /\ faults \in Nat

Init ==
  /\ pc = [p \in Procs |-> "off"]
  /\ task = [p \in Procs |-> "none"]
  /\ row = [p \in Procs |-> Gone]
  /\ ghost = [c \in Classes |-> Gone]
  /\ call = [p \in Procs |-> 0]
  /\ sinceBeat = [p \in Procs |-> 0]
  /\ timer = [p \in Procs |-> 0]
  /\ faults = 0

Fault == faults < MaxFaults /\ faults' = faults + 1

(* A running task's sleep and a call in progress. *)
Sleeping(p) == pc[p] = "held" /\ task[p] = "running"

Tick ==
  /\ \A p \in Procs : pc[p] \in Calling => call[p] < MaxCall
  /\ \A p \in Procs : Sleeping(p) => timer[p] < interval + MaxLate
  /\ row' = [p \in Procs |-> Older(row[p])]
  /\ ghost' = [c \in Classes |-> Older(ghost[c])]
  /\ call' = [p \in Procs |-> IF pc[p] \in Calling THEN call[p] + 1 ELSE 0]
  /\ sinceBeat' = [p \in Procs |->
                     IF task[p] = "running" THEN Older(sinceBeat[p]) ELSE 0]
  /\ timer' = [p \in Procs |-> IF Sleeping(p) THEN timer[p] + 1 ELSE 0]
  /\ UNCHANGED <<pc, task, faults>>

-----------------------------------------------------------------------------
(* fresh_writer_processes.                                                 *)

(* Mutant: a row counts whatever its age. *)
Fresh_anyrow(age) == age >= 0
Fresh(age) == age <= stale_seconds

OthersFresh(p) ==
  \/ Fresh(ghost[Scope(p)])
  \/ \E q \in Procs \ {p} : Scope(q) = Scope(p) /\ Fresh(row[q])

(* The read sees the fresh rows, or misses them on a lagging replica. *)
Sees(p, others) ==
  \/ others = OthersFresh(p) /\ UNCHANGED faults
  \/ LaggingReads /\ OthersFresh(p) /\ ~others /\ Fault

Goto(p, state) == /\ pc' = [pc EXCEPT ![p] = state]
                  /\ call' = [call EXCEPT ![p] = 0]

(* p's row stays behind with the given age when the process ends. *)
LeaveBehind(p, age) ==
  ghost' = [ghost EXCEPT ![Scope(p)] = Younger(@, age)]

-----------------------------------------------------------------------------
(* acquire                                                                 *)

Start(p) ==
  /\ pc[p] = "off"
  /\ Goto(p, "check")
  /\ UNCHANGED <<task, row, ghost, sinceBeat, timer, faults>>

Check(p) ==
  /\ pc[p] = "check"
  /\ \E others \in BOOLEAN : /\ Sees(p, others)
                             /\ Goto(p, IF others THEN "off" ELSE "write")
  /\ UNCHANGED <<task, row, ghost, sinceBeat, timer>>

CheckRaises(p) ==
  /\ pc[p] = "check"
  /\ Fault
  /\ Goto(p, "off")
  /\ UNCHANGED <<task, row, ghost, sinceBeat, timer>>

(* Mutant: the row is dated ahead of the clock. *)
WriteLands_ahead(p) ==
  /\ pc[p] = "write"
  /\ row' = [row EXCEPT ![p] = call[p] - 1]
  /\ Goto(p, "recheck")
  /\ UNCHANGED <<task, ghost, sinceBeat, timer, faults>>
(* heartbeat_at is taken before the insert: the row is as old as the call. *)
WriteLands(p) ==
  /\ pc[p] = "write"
  /\ row' = [row EXCEPT ![p] = call[p]]
  /\ Goto(p, "recheck")
  /\ UNCHANGED <<task, ghost, sinceBeat, timer, faults>>

(* _acquired is still false: a row that landed is never released. *)
WriteRaises(p) ==
  /\ pc[p] = "write"
  /\ Fault
  /\ LeaveBehind(p, call[p]) \/ UNCHANGED ghost
  /\ Goto(p, "off")
  /\ UNCHANGED <<task, row, sinceBeat, timer>>

(* Mutant: acquire does not read again after its write. *)
Recheck_none(p) ==
  /\ pc[p] = "recheck"
  /\ Goto(p, "held")
  /\ task' = [task EXCEPT ![p] = "running"]
  /\ sinceBeat' = [sinceBeat EXCEPT ![p] = 0]
  /\ timer' = [timer EXCEPT ![p] = 0]
  /\ UNCHANGED <<row, ghost, faults>>
Recheck(p) ==
  /\ pc[p] = "recheck"
  /\ \E others \in BOOLEAN :
       /\ Sees(p, others)
       /\ Goto(p, IF others THEN "retract" ELSE "held")
       /\ task' = [task EXCEPT ![p] = IF others THEN "none" ELSE "running"]
  /\ sinceBeat' = [sinceBeat EXCEPT ![p] = 0]
  /\ timer' = [timer EXCEPT ![p] = 0]
  /\ UNCHANGED <<row, ghost>>

(* open() closes the service, which releases the guard. *)
RecheckRaises(p) ==
  /\ pc[p] = "recheck"
  /\ Fault
  /\ Goto(p, "release")
  /\ UNCHANGED <<task, row, ghost, sinceBeat, timer>>

(* A race was detected: one try at the "released" row. *)
Retract(p) ==
  /\ pc[p] = "retract"
  /\ \/ UNCHANGED <<ghost, faults>>
     \/ Fault /\ LeaveBehind(p, row[p])
  /\ row' = [row EXCEPT ![p] = Gone]
  /\ Goto(p, "off")
  /\ UNCHANGED <<task, sinceBeat, timer>>

-----------------------------------------------------------------------------
(* _heartbeat_loop                                                         *)

BeatBegins(p) ==
  /\ Sleeping(p)
  /\ timer[p] >= interval
  /\ Goto(p, "beat")
  /\ UNCHANGED <<task, row, ghost, sinceBeat, timer, faults>>

BeatLands(p) ==
  /\ pc[p] = "beat"
  /\ row' = [row EXCEPT ![p] = call[p]]
  /\ sinceBeat' = [sinceBeat EXCEPT ![p] = 0]
  /\ timer' = [timer EXCEPT ![p] = 0]
  /\ Goto(p, "held")
  /\ UNCHANGED <<task, ghost, faults>>

(* Mutant: every insert failure is tolerated. *)
OutageSpansWindow_never(p) == FALSE
OutageSpansWindow(p) == sinceBeat[p] >= stale_seconds

(* The insert raises, with or without the row. *)
BeatFails(p) ==
  /\ pc[p] = "beat"
  /\ sinceBeat[p] <= MaxOutage
  /\ row' = [row EXCEPT ![p] = call[p]] \/ UNCHANGED row
  /\ task' = [task EXCEPT ![p] = IF OutageSpansWindow(p) THEN "dead" ELSE @]
  /\ timer' = [timer EXCEPT ![p] = 0]
  /\ Goto(p, "held")
  /\ UNCHANGED <<ghost, sinceBeat, faults>>

-----------------------------------------------------------------------------
(* The end of the process                                                  *)

(* The operation returns or raises, or the daemon's ensure_healthy refuses *)
(* further work; close() cancels the heartbeat task.                       *)
Finish(p) ==
  /\ pc[p] = "held"
  /\ Goto(p, "release")
  /\ task' = [task EXCEPT ![p] = "none"]
  /\ UNCHANGED <<row, ghost, sinceBeat, timer, faults>>

(* The "released" row lands within five tries, or none of them does; then  *)
(* the process closes its clients and waits for its worker threads.        *)
Release(p) ==
  /\ pc[p] = "release"
  /\ \/ UNCHANGED <<ghost, faults>>
     \/ Fault /\ LeaveBehind(p, row[p])
  /\ row' = [row EXCEPT ![p] = Gone]
  /\ Goto(p, "draining")
  /\ UNCHANGED <<task, sinceBeat, timer>>

DrainEnds(p) ==
  /\ pc[p] = "draining"
  /\ Goto(p, "off")
  /\ UNCHANGED <<task, row, ghost, sinceBeat, timer, faults>>

(* The process is killed; an insert in progress may still land. *)
Kill(p) ==
  /\ pc[p] # "off"
  /\ Fault
  /\ \/ LeaveBehind(p, row[p])
     \/ pc[p] \in {"write", "beat"} /\ LeaveBehind(p, call[p])
  /\ row' = [row EXCEPT ![p] = Gone]
  /\ task' = [task EXCEPT ![p] = "none"]
  /\ Goto(p, "off")
  /\ UNCHANGED <<sinceBeat, timer>>

-----------------------------------------------------------------------------
(* What a process that runs does when nothing fails. *)
Proceed(p) ==
  \/ Check(p)
  \/ WriteLands(p)
  \/ Recheck(p)
  \/ Retract(p)
  \/ BeatBegins(p)
  \/ BeatLands(p)
  \/ Finish(p)
  \/ Release(p)
  \/ DrainEnds(p)

Step(p) == Start(p) \/ Proceed(p)

Failure(p) ==
  \/ CheckRaises(p)
  \/ WriteRaises(p)
  \/ RecheckRaises(p)
  \/ BeatFails(p)
  \/ Kill(p)

Next ==
  \/ Tick
  \/ \E p \in Procs : Step(p)
  \/ \E p \in Procs : Failure(p)

Spec == Init /\ [][Next]_vars

(* Time passes and calls return or time out; nothing says that a process   *)
(* which ended is started again.                                           *)
FairSpec == Spec /\ WF_vars(Tick) /\ \A p \in Procs : WF_vars(Proceed(p))

-----------------------------------------------------------------------------
(* Properties.                                                             *)

(* p does the work of its operation under the guard. *)
Holder(p) == pc[p] \in {"held", "beat"}

(* WriterGuard.healthy, which the readiness probes report. *)
healthy(p) == Holder(p) /\ task[p] = "running"

(* A "single-writer-per-class guard" (service.py WriterGuard): two         *)
(* processes of one lock class never work at the same time, however their  *)
(* acquire calls interleave and whichever of them is killed and restarted. *)
AtMostOneHolder ==
  \A p, q \in Procs : Holder(p) /\ Holder(q) /\ Scope(p) = Scope(q) => p = q

(* A guard that reports healthy has a row that lapsed at most one beat     *)
(* ago, whatever the outage: _heartbeat_loop raises "once the outage spans *)
(* the window".                                                            *)
HealthyLapseBounded == \A p \in Procs : healthy(p) => row[p] <= LapseBound

(* The inductive strengthening: how old a row may be, given how far its    *)
(* process has come.  Tolerated is the age of the last success at which a  *)
(* failing beat leaves the heartbeat task alive.                           *)
Tolerated == Younger(MaxOutage, stale_seconds - 1)
AgesOf(p) ==
  /\ pc[p] = "recheck" => row[p] <= MaxCall + call[p]
  /\ pc[p] = "beat" => task[p] = "running"
  /\ healthy(p) => row[p] <= 2 * MaxCall + sinceBeat[p]
  /\ Sleeping(p) => sinceBeat[p] <= Tolerated + timer[p]
  /\ pc[p] = "beat" =>
       sinceBeat[p] <= Tolerated + interval + MaxLate + call[p]
GuardAges == \A p \in Procs : AgesOf(p)

(* The same for every timing: as long as no working process has let its    *)
(* row lapse, no second one of the class works.  A row lapses when a beat  *)
(* is late or an outage spans the window.                                  *)
Lapsed(p) == Holder(p) /\ ~Fresh(row[p])
ExcludesUnlessLapsed ==
  [](\A p \in Procs : ~Lapsed(p)) => []AtMostOneHolder

(* A process that is started again and again works again, whatever its     *)
(* predecessors left behind, once the others of its class stay away: a row *)
(* nobody released blocks for stale_seconds and no longer.                 *)
Alone(p) == \A q \in Procs \ {p} : pc[q] = "off"
LockRecovers ==
  \A p \in Procs : <>[]Alone(p) /\ []<>(pc[p] # "off") => []<>Holder(p)
=============================================================================
