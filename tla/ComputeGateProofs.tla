------------------------- MODULE ComputeGateProofs -------------------------
(***************************************************************************)
(* Proofs about the gate before compute, for every list of source jobs,    *)
(* every concurrency of the census and every number of polls and faults.   *)
(***************************************************************************)
EXTENDS ComputeGate, FiniteSetTheorems, SequenceTheorems, TLAPS

USE DEF passVars, gateVars

-----------------------------------------------------------------------------
(* The invariants.                                                         *)

(* A sleeping gate has a poll left; what makes TypeOK inductive. *)
PollLeft == gate = "asleep" => remaining > 0

(* What the pass works on belongs to its job and has not been published. *)
PassSound ==
  /\ job = 0 => queue = {}
  /\ job # 0 => queue \subseteq Work[job]
  /\ \A t \in Running : job # 0 /\ t \in Work[job] /\ t \notin queue
  /\ published \cap (queue \cup Running) = {}
  /\ IsFiniteSet(hidden)

(* Without a fault a pass leaves no target of a finished job behind. *)
Orderly ==
  /\ stuck = {} /\ hidden = {}
  /\ job # 0 => /\ \A i \in 1..(job - 1) : Work[i] \subseteq published
                /\ Work[job] \subseteq published \cup queue \cup Running
  /\ job = 0 => published \in {{}, Targets}

(* Publications of a job that a poll which counts now would see. *)
Told(j) == Cardinality(Work[j] \cap published)

(* The polls are behind the publications, which are never taken back. *)
CountsBehind ==
  /\ Len(counts) <= Len(Work)
  /\ \A j \in 1..Len(counts) : counts[j][2] <= Told(j)
  /\ stable # <<>> =>
       /\ Len(stable) = Len(Work)
       /\ \A j \in 1..Len(stable) : stable[j][2] <= Told(j) /\ stable[j][2] > 0

(* After a complete poll c: unless the day is whole, the pass is in a gap  *)
(* that the poll saw, is at work, or has published since.                  *)
Restless(c) ==
  \/ published \in {{}, Targets}
  \/ gapSeen
  \/ Running # {}
  \/ \E j \in 1..Len(c) : c[j][2] < Told(j)

(* During the poll after a ready one: unless the day is whole, what makes  *)
(* the two differ has been counted or is still ahead.                      *)
Different ==
  \/ published = Targets
  \/ \E j \in 1..Len(counts) : counts[j][1] > 0 \/ counts[j][2] # stable[j][2]
  \/ \E j \in (Len(counts) + 1)..Len(Work) :
       stable[j][2] < Told(j) \/ \E t \in Work[j] : attempt[t] # "none"

GateSound ==
  /\ gate = "polling" /\ Work # <<>> /\ Len(counts) = Len(Work) => Restless(counts)
  /\ stable # <<>> /\ (gate = "asleep" \/ (gate = "polling" /\ counts = <<>>)) =>
       Restless(stable)
  /\ stable # <<>> /\ gate = "polling" /\ counts # <<>> => Different
  /\ gate = "computing" => published = Targets
  /\ gate = "computed" => derived = Targets

(* The inductive strengthening of UndisturbedDayIsWhole. *)
UndisturbedSound ==
  faults = 0 => Orderly /\ CountsBehind /\ (timely => GateSound)

(* The polls of a day that was whole when compute was invoked. *)
Current(c) == \A j \in 1..Len(c) : c[j] = CensusSourceCounts(j)
WholeSound ==
  wasWhole /\ gate \in {"polling", "asleep"} =>
    /\ published = Targets
    /\ Len(counts) <= Len(Work) /\ Current(counts)
    /\ \/ gate = "polling" /\ stable = <<>> /\ (slow = 0 => remaining = WaitPolls)
       \/ Len(stable) = Len(Work) /\ Current(stable)

(* A refusal of such a day is one WholeDayNotRefused allows. *)
Unconfirmed ==
  /\ Recent /\ Waits
  /\ census_sources_ready(counts) /\ stable = <<>>
  /\ WaitPolls = 0 \/ slow > 0

-----------------------------------------------------------------------------
(* Facts about jobs and counts.                                            *)

(* The jobs of a pass are the indices of Work. *)
LEMMA JobsOfWork ==
  /\ Len(Work) \in Nat /\ Jobs = 1..Len(Work)
  /\ \A j \in 1..Len(Work) : Work[j] \subseteq Targets
BY WorkAssumption DEF Jobs, Targets

(* A target belongs to one job. *)
LEMMA OneJobEach ==
  ASSUME NEW i \in 1..Len(Work), NEW j \in 1..Len(Work), NEW t \in Work[i], t \in Work[j]
  PROVE  i = j
BY WorkAssumption, JobsOfWork

(* Every target belongs to a job. *)
LEMMA TargetsHaveJobs ==
  ASSUME NEW t \in Targets
  PROVE  \E j \in 1..Len(Work) : t \in Work[j]
BY JobsOfWork DEF Targets

(* Any part of a job's targets is finite. *)
LEMMA PartsAreFinite ==
  ASSUME NEW j \in 1..Len(Work), NEW S
  PROVE  /\ IsFiniteSet(Work[j] \cap S) /\ Cardinality(Work[j] \cap S) \in Nat
         /\ IsFiniteSet({t \in Work[j] : t \in S})
<1>1. IsFiniteSet(Work[j])
  BY JobsOfWork, WorkAssumption, FS_Subset
<1>2. IsFiniteSet(Work[j] \cap S) /\ {t \in Work[j] : t \in S} = Work[j] \cap S
  BY <1>1, FS_Intersection
<1> QED
  BY <1>2, FS_CardinalityType

(* So are the targets of a job that block the gate. *)
LEMMA BlockersAreFinite ==
  ASSUME NEW j \in 1..Len(Work)
  PROVE  /\ IsFiniteSet({t \in Work[j] : Blocking(t)})
         /\ Cardinality({t \in Work[j] : Blocking(t)}) \in Nat
<1>1. IsFiniteSet(Work[j])
  BY JobsOfWork, WorkAssumption, FS_Subset
<1>2. {t \in Work[j] : Blocking(t)} \in SUBSET Work[j]
  OBVIOUS
<1> QED
  BY <1>1, <1>2, FS_Subset, FS_CardinalityType

(* The publication rows of failed attempts can be counted. *)
LEMMA HiddenCount ==
  ASSUME NEW j \in 1..Len(Work), IsFiniteSet(hidden)
  PROVE  Cardinality({row \in hidden : row[1] \in Work[j]}) \in Nat
<1> DEFINE R == {row \in hidden : row[1] \in Work[j]}
<1>1. R \in SUBSET hidden
  OBVIOUS
<1> HIDE DEF R
<1>2. IsFiniteSet(R)
  BY <1>1, FS_Subset
<1>3. Cardinality(R) \in Nat
  BY <1>2, FS_CardinalityType
<1> QED
  BY <1>3 DEF R

(* The readiness query of a job returns two numbers. *)
LEMMA CountsAreNumbers ==
  ASSUME NEW j \in 1..Len(Work), IsFiniteSet(hidden)
  PROVE  CensusSourceCounts(j) \in Nat \X Nat
<1>1. Cardinality({t \in Work[j] : Blocking(t)}) \in Nat
  BY BlockersAreFinite
<1>2. Cardinality(Work[j] \cap published) \in Nat
  BY PartsAreFinite
<1>3. Cardinality({row \in hidden : row[1] \in Work[j]}) \in Nat
  BY HiddenCount
<1> QED
  BY <1>1, <1>2, <1>3 DEF CensusSourceCounts

-----------------------------------------------------------------------------
(* Types, and what a pass works on: inductive together, because the counts *)
(* are numbers only while finitely many rows are hidden.                   *)
TypedPass == TypeOK /\ PollLeft /\ PassSound

(* Types, action by action, with what relates the pass to its jobs. *)
LEMMA TypedPassStep == TypedPass /\ [Next]_vars => TypedPass'
<1> SUFFICES ASSUME TypeOK, PollLeft, PassSound, [Next]_vars
             PROVE  TypedPass'
  BY DEF TypedPass
<1> USE GateAssumption, JobsOfWork
<1> USE DEF TypedPass, TypeOK, PollLeft, PassSound, Running, GateStates, Fault
<1>1. CASE BeginJob
  <2>1. job' \in 0..Len(Work) /\ (job' # 0 => job' \in 1..Len(Work))
    BY <1>1 DEF BeginJob
  <2>2. queue' \subseteq Targets
    BY <1>1, <2>1 DEF BeginJob
  <2> QED
    BY <1>1, <2>1, <2>2 DEF BeginJob
<1>2. ASSUME NEW t \in Targets, StartAttempt(t) PROVE TypedPass'
  <2>1. queue' = queue \ {t} /\ t \in queue /\ job' = job /\ published' = published
    BY <1>2 DEF StartAttempt
  <2>2. attempt' \in [Targets -> {"none", "started", "verified"}]
    BY <1>2 DEF StartAttempt
  <2>3. Running' \subseteq Running \cup {t}
    BY <1>2 DEF StartAttempt
  <2>4. PassSound'
    <3>1. \A u \in Running' : u # t => u \in Running
      BY <2>3
    <3>2. t \in Work[job] /\ job # 0 /\ t \notin published
      BY <2>1
    <3> HIDE DEF Running
    <3> QED
      BY <1>2, <2>1, <2>3, <3>1, <3>2 DEF StartAttempt
  <2>5. TypeOK' /\ PollLeft'
    BY <1>2, <2>2 DEF StartAttempt
  <2> QED
    BY <2>4, <2>5
<1>3. ASSUME NEW t \in Targets, InsertVerified(t) PROVE TypedPass'
  BY <1>3 DEF InsertVerified
<1>4. ASSUME NEW t \in Targets, AppendPublication(t) PROVE TypedPass'
  BY <1>4 DEF AppendPublication
<1>5. ASSUME NEW t \in Targets, AttemptFails(t) PROVE TypedPass'
  <2>1. Running' = Running \ {t} /\ UNCHANGED <<job, queue, published, hidden>>
    BY <1>5 DEF AttemptFails
  <2>2. PassSound'
    BY <2>1
  <2>3. TypeOK' /\ PollLeft'
    BY <1>5 DEF AttemptFails
  <2> QED
    BY <2>2, <2>3
<1>6. ASSUME NEW t \in Targets, PublicationFails(t) PROVE TypedPass'
  <2>1. IsFiniteSet(hidden')
    <3>1. hidden' \in {hidden, hidden \cup {<<t, faults'>>}}
      BY <1>6 DEF PublicationFails
    <3>2. IsFiniteSet(hidden) /\ IsFiniteSet(hidden \cup {<<t, faults'>>})
      BY FS_AddElement
    <3> QED
      BY <3>1, <3>2
  <2>2. hidden' \subseteq Targets \X Nat
    BY <1>6 DEF PublicationFails
  <2>3. Running' = Running \ {t} /\ t \in Running
    BY <1>6 DEF PublicationFails
  <2>4. published' \subseteq published \cup {t} /\ UNCHANGED <<job, queue>>
    BY <1>6 DEF PublicationFails
  <2>5. PassSound'
    BY <2>1, <2>3, <2>4
  <2>6. TypeOK' /\ PollLeft'
    BY <1>6, <2>2 DEF PublicationFails
  <2> QED
    BY <2>5, <2>6
<1>7. CASE Crash
  BY <1>7 DEF Crash
<1>8. CASE Invoke
  <2>1. wasWhole' \in BOOLEAN
    BY <1>8, Zenon DEF Invoke
  <2>2. counts' \in Seq(Nat \X Nat) /\ stable' \in Seq(Nat \X Nat)
    BY <1>8 DEF Invoke
  <2> QED
    BY <1>8, <2>1, <2>2 DEF Invoke
<1>9. CASE PollJob
  <2>1. CensusSourceCounts(Len(counts) + 1) \in Nat \X Nat
    BY <1>9, CountsAreNumbers DEF PollJob
  <2>2. counts' \in Seq(Nat \X Nat)
    BY <1>9, <2>1 DEF PollJob
  <2>3. timely' \in BOOLEAN /\ gapSeen' \in BOOLEAN
    BY <1>9 DEF PollJob
  <2>4. remaining' \in Nat /\ slow' \in Nat
    BY <1>9 DEF PollJob
  <2> QED
    BY <1>9, <2>2, <2>3, <2>4 DEF PollJob
<1>10. CASE Decide
  <2>1. gate' \in GateStates /\ PollLeft'
    BY <1>10 DEF Decide, TimedOut
  <2>2. stable' \in Seq(Nat \X Nat) /\ counts' = counts
    BY <1>10 DEF Decide
  <2>3. /\ UNCHANGED <<passVars, gapSeen, timely, wasWhole, derived, remaining, slow>>
        /\ Running' = Running
    BY <1>10 DEF Decide
  <2>4. TypeOK'
    BY <2>1, <2>2, <2>3
  <2>5. PassSound'
    BY <2>3
  <2> QED
    BY <2>1, <2>4, <2>5
<1>11. CASE Sleep
  BY <1>11 DEF Sleep
<1>12. CASE Compute
  BY <1>12 DEF Compute
<1>13. CASE UNCHANGED vars
  BY <1>13 DEF vars
<1> QED
  BY <1>1, <1>2, <1>3, <1>4, <1>5, <1>6, <1>7, <1>8, <1>9, <1>10, <1>11, <1>12, <1>13
     DEF Next, PassStep, GateStep

(* The types hold when nothing has been attempted. *)
LEMMA InitTypedPass ==
  ASSUME Init PROVE TypedPass
<1>1. Running = {} /\ IsFiniteSet(hidden)
  BY FS_EmptySet DEF Init, Running
<1>2. TypeOK
  <2>1. 0 \in 0..Len(Work)
    BY JobsOfWork
  <2>2. attempt \in [Targets -> {"none", "started", "verified"}]
    BY DEF Init
  <2>3. {counts, stable} \subseteq Seq(Nat \X Nat)
    BY DEF Init
  <2>4. {gapSeen, timely, wasWhole} \subseteq BOOLEAN
    BY DEF Init
  <2>5. {stuck, published, derived} \subseteq SUBSET Targets
    BY DEF Init
  <2> QED
    BY <2>1, <2>2, <2>3, <2>4, <2>5 DEF Init, TypeOK, GateStates
<1> QED
  BY <1>1, <1>2 DEF Init, TypedPass, PollLeft, PassSound

(* Every variable keeps its type, and a gate sleeps only before its        *)
(* deadline (_await_census_sources).                                       *)
THEOREM GateTypeCorrect == Spec => []TypeOK
<1>1. Init => TypedPass
  BY InitTypedPass
<1>2. TypedPass => TypeOK
  BY DEF TypedPass
<1> QED
  BY <1>1, <1>2, TypedPassStep, PTL DEF Spec

-----------------------------------------------------------------------------
(* Counting publications.                                                  *)

(* The count of publications a poll reads never falls, because             *)
(* publications are only appended.                                         *)
LEMMA ToldGrows ==
  ASSUME NEW j \in 1..Len(Work), published \subseteq published'
  PROVE  Told(j) \in Nat /\ Told(j)' \in Nat /\ Told(j) <= Told(j)'
<1>1. IsFiniteSet(Work[j] \cap published') /\ Told(j) \in Nat /\ Told(j)' \in Nat
  BY PartsAreFinite DEF Told
<1>2. Work[j] \cap published \in SUBSET (Work[j] \cap published')
  OBVIOUS
<1> QED
  BY <1>1, <1>2, FS_Subset DEF Told

(* A publication raises its job's count by one. *)
LEMMA ToldCountsOne ==
  ASSUME NEW j \in 1..Len(Work), NEW t \in Work[j], t \notin published,
         published' = published \cup {t}
  PROVE  Told(j) \in Nat /\ Told(j)' = Told(j) + 1
<1>1. Work[j] \cap published' = (Work[j] \cap published) \cup {t}
  OBVIOUS
<1>2. IsFiniteSet(Work[j] \cap published) /\ Told(j) \in Nat
  BY PartsAreFinite DEF Told
<1> QED
  BY <1>1, <1>2, FS_AddElement DEF Told

(* A pass without faults that has no attempt at work and is in no gap has  *)
(* not begun or has published everything.                                  *)
LEMMA NoGapIsWhole ==
  ASSUME TypedPass, Orderly, Running = {}, ~InGap
  PROVE  published \in {{}, Targets}
<1>1. CASE job = 0
  BY <1>1 DEF Orderly
<1>2. CASE job # 0
  <2>1. job \in 1..Len(Work) /\ published \subseteq Targets
    BY <1>2, JobsOfWork DEF TypedPass, TypeOK
  <2>2. queue = {} /\ \A j \in (job + 1)..Len(Work) : Work[j] \subseteq published
    BY <1>2 DEF InGap
  <2>3. \A j \in 1..Len(Work) : Work[j] \subseteq published
    BY <1>2, <2>1, <2>2, JobsOfWork DEF Orderly
  <2> QED
    BY <2>1, <2>3, TargetsHaveJobs
<1> QED
  BY <1>1, <1>2

-----------------------------------------------------------------------------
(* Without faults no step leaves a target of a finished job behind. *)
LEMMA OrderlyStep ==
  ASSUME TypedPass, Orderly, [Next]_vars, faults = 0, faults' = 0
  PROVE  Orderly'
<1> USE JobsOfWork
<1> USE DEF TypedPass, TypeOK, PassSound, Running, Orderly, Fault
<1>1. CASE BeginJob
  <2>0. queue = {} /\ Running = {} /\ job \in 0..Len(Work)
    BY <1>1 DEF BeginJob
  <2>1. CASE job = Len(Work) /\ job # 0
    <3>1. ASSUME NEW j \in 1..Len(Work) PROVE Work[j] \subseteq published
      <4>1. j \in 1..(job - 1) \/ j = job
        BY <2>0, <2>1
      <4> QED
        BY <2>0, <2>1, <4>1
    <3>2. published = Targets
      <4>1. published \subseteq Targets
        OBVIOUS
      <4> HIDE DEF TypedPass, TypeOK, PassSound, Orderly
      <4> QED
        BY <3>1, <4>1, TargetsHaveJobs
    <3>3. job' = 0 /\ UNCHANGED <<published, stuck, hidden>>
      BY <1>1, <2>1 DEF BeginJob
    <3> QED
      BY <3>2, <3>3
  <2>2. CASE job = Len(Work) /\ job = 0
    BY <1>1, <2>2 DEF BeginJob
  <2>3. CASE job # Len(Work)
    <3>1. job' = job + 1 /\ job' # 0 /\ queue' = Work[job'] \ published
      BY <1>1, <2>0, <2>3 DEF BeginJob
    <3>2. ASSUME NEW i \in 1..job PROVE Work[i] \subseteq published
      <4>1. job # 0 /\ (i \in 1..(job - 1) \/ i = job)
        BY <2>0, <3>2
      <4> QED
        BY <2>0, <4>1
    <3> QED
      BY <1>1, <2>0, <3>1, <3>2 DEF BeginJob
  <2> QED
    BY <2>1, <2>2, <2>3
<1>2. ASSUME NEW t \in Targets, StartAttempt(t) PROVE Orderly'
  BY <1>2 DEF StartAttempt
<1>3. ASSUME NEW t \in Targets, InsertVerified(t) PROVE Orderly'
  BY <1>3 DEF InsertVerified
<1>4. ASSUME NEW t \in Targets, AppendPublication(t) PROVE Orderly'
  BY <1>4 DEF AppendPublication
<1>5. ASSUME NEW t \in Targets, AttemptFails(t) \/ PublicationFails(t) PROVE FALSE
  BY <1>5 DEF AttemptFails, PublicationFails
<1>6. CASE Crash
  BY <1>6 DEF Crash
<1>7. CASE GateStep \/ UNCHANGED vars
  BY <1>7 DEF GateStep, Invoke, PollJob, Decide, Sleep, Compute, vars
<1> QED
  BY <1>1, <1>2, <1>3, <1>4, <1>5, <1>6, <1>7 DEF Next, PassStep

(* Rows are only added. *)
LEMMA PublishedGrows == [Next]_vars => published \subseteq published'
BY DEF Next, PassStep, GateStep, vars, BeginJob, StartAttempt, InsertVerified,
   AppendPublication, AttemptFails, PublicationFails, Crash, Invoke, PollJob,
   Decide, Sleep, Compute

(* No step takes a publication back that a poll has counted. *)
LEMMA CountsBehindStep ==
  ASSUME TypedPass, Orderly, CountsBehind, [Next]_vars, faults = 0, faults' = 0
  PROVE  CountsBehind'
<1> USE JobsOfWork
<1> USE DEF TypedPass, TypeOK, CountsBehind
<1>0. \A j \in 1..Len(Work) : Told(j) \in Nat /\ Told(j)' \in Nat /\ Told(j) <= Told(j)'
  BY ToldGrows, PublishedGrows
<1>typed. /\ \A j \in 1..Len(counts) : /\ j \in 1..Len(Work) /\ counts[j][2] \in Nat
                                    /\ counts[j][2] <= Told(j)
      /\ Len(counts) \in Nat /\ Len(stable) \in Nat
  <2>1. counts \in Seq(Nat \X Nat) /\ stable \in Seq(Nat \X Nat)
    OBVIOUS
  <2>2. \A j \in 1..Len(counts) : counts[j] \in Nat \X Nat
    BY <2>1
  <2>3. Len(counts) \in Nat /\ Len(stable) \in Nat /\ Len(counts) <= Len(Work)
    BY <2>1
  <2>4. \A j \in 1..Len(counts) : counts[j][2] <= Told(j)
    OBVIOUS
  <2> HIDE DEF TypedPass, TypeOK, CountsBehind
  <2> QED
    BY <2>2, <2>3, <2>4
<1>1. CASE UNCHANGED <<counts, stable>>
  <2>1. ASSUME NEW j \in 1..Len(counts) PROVE counts[j][2] <= Told(j)'
    <3> HIDE DEF CountsBehind, TypedPass
    <3>1. j \in 1..Len(Work) /\ counts[j][2] \in Nat /\ counts[j][2] <= Told(j)
      BY <1>typed
    <3> QED
      BY <1>0, <3>1
  <2>2. ASSUME NEW j \in 1..Len(stable), stable # <<>> PROVE stable[j][2] <= Told(j)'
    <3>0. stable \in Seq(Nat \X Nat)
      OBVIOUS
    <3>1. j \in 1..Len(Work) /\ stable[j][2] \in Nat /\ stable[j][2] <= Told(j)
      BY <2>2, <3>0
    <3> HIDE DEF CountsBehind, TypedPass, TypeOK
    <3>2. Told(j) \in Nat /\ Told(j)' \in Nat /\ Told(j) <= Told(j)'
      BY <1>0, <3>1
    <3> QED
      BY <3>1, <3>2
  <2> QED
    BY <1>1, <2>1, <2>2
<1>2. CASE Invoke
  BY <1>2 DEF Invoke
<1>3. CASE PollJob
  <2>1. PICK n \in 1..Len(Work) : n = Len(counts) + 1
    BY <1>3, <1>typed DEF PollJob
  <2>2. {row \in hidden : row[1] \in Work[n]} = {}
    BY DEF Orderly
  <2>3. CensusSourceCounts(n)[2] = Told(n) /\ Told(n)' = Told(n)
    <3>1. CensusSourceCounts(n)[2] = Told(n) + Cardinality({})
      BY <2>2 DEF CensusSourceCounts, Told
    <3>2. Told(n)' = Told(n)
      BY <1>3 DEF Told, PollJob
    <3> QED
      BY <1>0, <2>1, <3>1, <3>2, FS_EmptySet
  <2>4. /\ Len(counts') = n /\ counts'[n] = CensusSourceCounts(n)
        /\ \A j \in 1..Len(counts) : counts'[j] = counts[j]
    BY <1>3, <2>1 DEF PollJob
  <2>5. \A j \in 1..Len(Work) : Told(j)' = Told(j)
    BY <1>3 DEF Told, PollJob
  <2>6. \A j \in 1..Len(counts') : counts'[j][2] <= Told(j)'
    <3> SUFFICES ASSUME NEW j \in 1..Len(counts') PROVE counts'[j][2] <= Told(j)'
      OBVIOUS
    <3>1. CASE j = n
      BY <1>0, <2>1, <2>3, <2>4, <3>1
    <3>2. CASE j \in 1..Len(counts)
      BY <1>typed, <2>4, <2>5, <3>2
    <3> QED
      BY <1>typed, <2>1, <2>4, <3>1, <3>2
  <2>7. stable' = stable /\ \A j \in 1..Len(Work) : Told(j)' = Told(j)
    BY <1>3, <2>5 DEF PollJob
  <2>8. Len(counts') <= Len(Work)
    BY <2>1, <2>4
  <2>9. ASSUME stable' # <<>>
        PROVE  /\ Len(stable') = Len(Work)
               /\ \A j \in 1..Len(stable') : stable'[j][2] <= Told(j)' /\ stable'[j][2] > 0
    <3>1. stable # <<>> /\ stable' = stable /\ Len(stable) = Len(Work)
      BY <2>7, <2>9
    <3> QED
      BY <2>7, <3>1
  <2> HIDE DEF TypedPass, TypeOK
  <2> QED
    BY <2>6, <2>8, <2>9
<1>4. CASE Decide
  <2>1. \A j \in 1..Len(Work) : Told(j)' = Told(j)
    BY <1>4 DEF Told, Decide
  <2>2. CASE stable' = <<>>
    BY <1>4, <2>1, <2>2 DEF Decide
  <2>3. CASE stable' # <<>>
    <3>1. stable' = counts /\ counts' = counts /\ Len(counts) = Len(Work)
      BY <1>4, <2>3 DEF Decide
    <3>2. \A j \in 1..Len(counts) : counts[j][2] > 0
      BY <1>4, <2>3 DEF Decide, census_sources_ready
    <3> QED
      BY <2>1, <3>1, <3>2
  <2> QED
    BY <2>2, <2>3
<1>5. CASE Sleep
  <2>1. \A j \in 1..Len(Work) : Told(j)' = Told(j)
    BY <1>5 DEF Told, Sleep
  <2> QED
    BY <1>5, <2>1 DEF Sleep
<1> QED
  BY <1>1, <1>2, <1>3, <1>4, <1>5
     DEF Next, PassStep, GateStep, vars, BeginJob, StartAttempt, InsertVerified,
         AppendPublication, AttemptFails, PublicationFails, Crash, Compute

-----------------------------------------------------------------------------
(* The types of the counts, for the steps below. *)
LEMMA CountTypes ==
  ASSUME TypedPass
  PROVE  /\ Len(counts) \in Nat /\ Len(stable) \in Nat
         /\ \A j \in 1..Len(counts) : counts[j][1] \in Nat /\ counts[j][2] \in Nat
         /\ \A j \in 1..Len(stable) : stable[j][1] \in Nat /\ stable[j][2] \in Nat
<1>1. counts \in Seq(Nat \X Nat) /\ stable \in Seq(Nat \X Nat)
  BY DEF TypedPass, TypeOK
<1>2. /\ \A j \in 1..Len(counts) : counts[j] \in Nat \X Nat
      /\ \A j \in 1..Len(stable) : stable[j] \in Nat \X Nat
  BY <1>1
<1> QED
  BY <1>1, <1>2

(* What the query of a job returns while nothing has failed. *)
LEMMA CountsAre ==
  ASSUME TypedPass, Orderly, NEW j \in 1..Len(Work)
  PROVE  /\ CensusSourceCounts(j)[2] = Told(j)
         /\ CensusSourceCounts(j)[1] \in Nat
         /\ (\E t \in Work[j] : attempt[t] = "started") => CensusSourceCounts(j)[1] > 0
<1>1. {row \in hidden : row[1] \in Work[j]} = {} /\ Told(j) \in Nat
  BY PartsAreFinite DEF Orderly, Told
<1>2. CensusSourceCounts(j)[2] = Told(j)
  BY <1>1, FS_EmptySet DEF CensusSourceCounts, Told
<1> DEFINE B == {t \in Work[j] : Blocking(t)}
<1>3. IsFiniteSet(B) /\ Cardinality(B) \in Nat /\ CensusSourceCounts(j)[1] = Cardinality(B)
  BY BlockersAreFinite DEF CensusSourceCounts
<1>4. ASSUME NEW t \in Work[j], attempt[t] = "started" PROVE t \in B
  <2>1. t \in Running
    BY <1>4, JobsOfWork DEF Running
  <2> QED
    BY <1>4, <2>1 DEF TypedPass, PassSound, Orderly, Blocking
<1> HIDE DEF B
<1>5. B # {} => Cardinality(B) > 0
  BY <1>3, FS_EmptySet
<1> QED
  BY <1>2, <1>3, <1>4, <1>5

(* A publication makes a complete poll and a half-made one out of date. *)
LEMMA PublicationShows ==
  ASSUME TypedPass, CountsBehind, NEW t \in Targets, AppendPublication(t)
  PROVE  /\ \A c \in {counts, stable} : Len(c) = Len(Work) /\ c # <<>> => Restless(c)'
         /\ stable # <<>> /\ Different => Different'
<1>1. t \notin published /\ t \in Running
  BY DEF AppendPublication, TypedPass, PassSound, Running
<1>2. PICK i \in 1..Len(Work) : t \in Work[i]
  BY TargetsHaveJobs
<1>3. Told(i) \in Nat /\ Told(i)' = Told(i) + 1
  BY <1>1, <1>2, ToldCountsOne DEF AppendPublication
<1>4. \A j \in 1..Len(Work) : Told(j) \in Nat /\ Told(j)' \in Nat /\ Told(j) <= Told(j)'
  BY ToldGrows DEF AppendPublication
<1>5. counts' = counts /\ stable' = stable
  BY DEF AppendPublication
<1>6. ASSUME NEW c \in {counts, stable}, Len(c) = Len(Work), c # <<>> PROVE Restless(c)'
  <2>1. i \in 1..Len(c) /\ c[i][2] \in Nat /\ c[i][2] <= Told(i)
    BY <1>2, <1>6, CountTypes DEF CountsBehind
  <2>2. i \in 1..Len(c') /\ c'[i][2] < Told(i)'
    BY <1>3, <1>5, <1>6, <2>1
  <2> QED
    BY <2>2 DEF Restless
<1>7. ASSUME stable # <<>>, Different PROVE Different'
  <2>0. /\ stable[i][2] < Told(i)'
        /\ \A j \in 1..Len(Work) : stable[j][2] < Told(j) => stable[j][2] < Told(j)'
    <3>1. \A j \in 1..Len(Work) : stable[j][2] \in Nat /\ stable[j][2] <= Told(j)
      BY <1>7, CountTypes DEF CountsBehind
    <3>2. stable[i][2] < Told(i)'
      BY <1>3, <3>1
    <3>3. ASSUME NEW j \in 1..Len(Work), stable[j][2] < Told(j)
          PROVE  stable[j][2] < Told(j)'
      BY <1>4, <3>1, <3>3
    <3> QED
      BY <3>2, <3>3
  <2>1. published # Targets
    BY <1>1
  <2>2. CASE \E j \in 1..Len(counts) : counts[j][1] > 0 \/ counts[j][2] # stable[j][2]
    BY <1>5, <2>2 DEF Different
  <2>3. ASSUME NEW j \in (Len(counts) + 1)..Len(Work), stable[j][2] < Told(j)
        PROVE  Different'
    <3>1. j \in 1..Len(Work)
      BY <2>3, CountTypes, JobsOfWork
    <3> QED
      BY <1>5, <2>0, <2>3, <3>1 DEF Different
  <2>4. ASSUME NEW j \in (Len(counts) + 1)..Len(Work), NEW u \in Work[j],
               attempt[u] # "none"
        PROVE  Different'
    <3>1. j \in 1..Len(Work) /\ u \in Targets
      BY <2>4, CountTypes, JobsOfWork
    <3>2. CASE u = t
      <4>1. j = i
        BY <1>2, <2>4, <3>1, <3>2, OneJobEach
      <4> QED
        BY <1>5, <2>0, <2>4, <4>1 DEF Different
    <3>3. CASE u # t
      <4>1. attempt'[u] # "none"
        BY <2>4, <3>1, <3>3 DEF AppendPublication, TypedPass, TypeOK
      <4> QED
        BY <1>5, <2>4, <4>1 DEF Different
    <3> QED
      BY <3>2, <3>3
  <2> QED
    BY <1>7, <2>1, <2>2, <2>3, <2>4 DEF Different
<1> QED
  BY <1>6, <1>7

(* Where a poll begins after a ready one, what makes it differ is ahead. *)
LEMMA DifferenceAhead ==
  ASSUME TypedPass, Orderly, CountsBehind, GateSound, gate = "polling",
         stable # <<>>, Len(counts) < Len(Work), MeantFor(Len(counts) + 1)
  PROVE  Different
<1>1. CASE counts # <<>>
  BY <1>1 DEF GateSound
<1>2. CASE counts = <<>>
  <2>1. Restless(stable) /\ Len(counts) = 0 /\ Len(stable) = Len(Work)
    BY <1>2 DEF GateSound, CountsBehind
  <2>2. published # {}
    <3>1. 1 \in 1..Len(Work) /\ 1 \in 1..Len(stable)
      BY <2>1, JobsOfWork
    <3>2. published = {} => Told(1) = 0
      BY FS_EmptySet DEF Told
    <3> QED
      BY <3>1, <3>2, CountTypes DEF CountsBehind
  <2>3. CASE Running # {}
    <3>1. PICK u \in Running : TRUE
      BY <2>3
    <3>2. job \in 1..Len(Work) /\ u \in Work[job] /\ attempt[u] # "none"
      BY <3>1, JobsOfWork DEF TypedPass, TypeOK, PassSound, Running
    <3> QED
      BY <2>1, <3>2 DEF Different
  <2>4. CASE Running = {} /\ gapSeen
    <3>1. ~InGap
      BY <2>1, <2>4, JobsOfWork DEF MeantFor
    <3> QED
      BY <2>2, <2>4, <3>1, NoGapIsWhole DEF Different
  <2>5. CASE \E j \in 1..Len(stable) : stable[j][2] < Told(j)
    BY <2>1, <2>5 DEF Different
  <2> QED
    BY <2>1, <2>2, <2>3, <2>4, <2>5 DEF Restless, Different
<1> QED
  BY <1>1, <1>2

-----------------------------------------------------------------------------
(* While polls are timely and nothing fails, a complete poll of a day that *)
(* is not whole leaves something for the next poll to see.                 *)
LEMMA GateSoundStep ==
  ASSUME Recent, Waits,
         TypedPass, Orderly, CountsBehind, timely => GateSound,
         [Next]_vars, faults = 0, faults' = 0, timely'
  PROVE  GateSound'
<1> USE JobsOfWork, CountTypes
<1>0. ASSUME timely, UNCHANGED <<gate, counts, stable, published, derived>>,
             \A t \in Targets : attempt[t] # "none" => attempt'[t] # "none",
             gapSeen => gapSeen' \/ Running' # {}
      PROVE  GateSound'
  <2>1. Running # {} => Running' # {}
    BY <1>0 DEF Running
  <2>2. \A j \in 1..Len(Work) : Told(j)' = Told(j)
    BY <1>0 DEF Told
  <2>3. \A c \in {counts, stable} : Len(c) <= Len(Work) /\ Restless(c) => Restless(c)'
    <3> SUFFICES ASSUME NEW c \in {counts, stable}, Len(c) <= Len(Work), Restless(c)
                 PROVE  Restless(c)'
      OBVIOUS
    <3>1. \A j \in 1..Len(c) : Told(j)' = Told(j)
      BY <2>2
    <3> QED
      BY <1>0, <2>1, <3>1 DEF Restless
  <2>4. Different => Different'
    <3>1. \A j \in (Len(counts) + 1)..Len(Work) :
            Told(j)' = Told(j) /\ Work[j] \subseteq Targets
      BY <2>2
    <3> QED
      BY <1>0, <3>1 DEF Different
  <2> QED
    BY <1>0, <2>3, <2>4 DEF GateSound, CountsBehind
<1>1. CASE BeginJob
  BY <1>0, <1>1 DEF BeginJob
<1>2. ASSUME NEW t \in Targets, StartAttempt(t) PROVE GateSound'
  <2>1. t \in Running' /\ \A u \in Targets : attempt[u] # "none" => attempt'[u] # "none"
    BY <1>2 DEF StartAttempt, Running, TypedPass, TypeOK
  <2> QED
    BY <1>0, <1>2, <2>1 DEF StartAttempt
<1>3. ASSUME NEW t \in Targets, InsertVerified(t) PROVE GateSound'
  <2>1. \A u \in Targets : attempt[u] # "none" => attempt'[u] # "none"
    BY <1>3 DEF InsertVerified, TypedPass, TypeOK
  <2> QED
    BY <1>0, <1>3, <2>1 DEF InsertVerified
<1>4. ASSUME NEW t \in Targets, AppendPublication(t) PROVE GateSound'
  <2>1. UNCHANGED <<gate, counts, stable, derived, timely>> /\ t \notin published
    BY <1>4 DEF AppendPublication, TypedPass, PassSound, Running
  <2>2. \A c \in {counts, stable} : Len(c) = Len(Work) /\ c # <<>> => Restless(c)'
    BY <1>4, PublicationShows
  <2>3. stable # <<>> /\ Different => Different'
    BY <1>4, PublicationShows
  <2>4. gate # "computing"
    BY <2>1 DEF GateSound
  <2> QED
    BY <2>1, <2>2, <2>3, <2>4 DEF GateSound, CountsBehind
<1>5. CASE \/ \E t \in Targets : AttemptFails(t) \/ PublicationFails(t)
           \/ Crash
  BY <1>5 DEF AttemptFails, PublicationFails, Crash, Fault, TypedPass, TypeOK
<1>6. CASE Invoke
  BY <1>6 DEF Invoke, GateSound
<1>7. CASE PollJob
  <2>0. PICK n \in 1..Len(Work) : n = Len(counts) + 1
    BY <1>7 DEF PollJob
  <2>1. /\ timely /\ GateSound /\ MeantFor(n) /\ gate = "polling" /\ gate' = gate
        /\ UNCHANGED <<stable, published, attempt>>
    BY <1>7, <2>0 DEF PollJob
  <2>2. /\ Len(counts') = n /\ counts'[n] = CensusSourceCounts(n)
        /\ \A j \in 1..Len(counts) : counts'[j] = counts[j]
    BY <1>7, <2>0 DEF PollJob, TypedPass, TypeOK
  <2>3. Restless(counts)'
    <3>1. CASE InGap \/ gapSeen
      BY <1>7, <3>1 DEF PollJob, Restless
    <3>2. CASE ~InGap /\ Running = {}
      <4>1. published' \in {{}, Targets}
        BY <2>1, <3>2, NoGapIsWhole
      <4> QED
        BY <4>1 DEF Restless
    <3>3. CASE Running # {}
      BY <2>1, <3>3 DEF Restless, Running
    <3> QED
      BY <3>1, <3>2, <3>3
  <2>4. ASSUME stable # <<>> PROVE Different'
    <3>1. Different
      BY <1>7, <2>0, <2>1, <2>4, DifferenceAhead DEF PollJob
    <3>2. \A j \in 1..Len(Work) : Told(j)' = Told(j) /\ Told(j) \in Nat
      BY <2>1, PartsAreFinite DEF Told
    <3>3. CASE \E j \in 1..Len(counts) : counts[j][1] > 0 \/ counts[j][2] # stable[j][2]
      BY <2>0, <2>1, <2>2, <3>3 DEF Different
    <3>4. ASSUME NEW j \in n..Len(Work), stable[j][2] < Told(j) PROVE Different'
      <4>1. CASE j = n
        <5>1. counts'[n][2] = Told(n) /\ stable[n][2] \in Nat
          BY <2>0, <2>2, <2>4, CountsAre DEF CountsBehind
        <5>2. counts'[n][2] # stable'[n][2]
          BY <2>1, <3>2, <3>4, <4>1, <5>1
        <5> QED
          BY <2>0, <2>2, <5>2 DEF Different
      <4>2. CASE j \in (n + 1)..Len(Work)
        <5>1. stable'[j][2] < Told(j)'
          BY <2>0, <2>1, <3>2, <3>4, <4>2
        <5> QED
          BY <2>2, <4>2, <5>1 DEF Different
      <4> QED
        BY <2>0, <4>1, <4>2
    <3>5. ASSUME NEW j \in n..Len(Work), NEW u \in Work[j], attempt[u] # "none"
          PROVE  Different'
      <4>1. CASE j = n
        <5>1. attempt[u] = "started"
          BY <2>1, <3>5, <4>1 DEF MeantFor, TypedPass, TypeOK
        <5>2. counts'[n][1] > 0
          BY <2>2, <3>5, <4>1, <5>1, CountsAre
        <5> QED
          BY <2>0, <2>2, <5>2 DEF Different
      <4>2. CASE j \in (n + 1)..Len(Work)
        BY <2>1, <2>2, <3>5, <4>2 DEF Different
      <4> QED
        BY <2>0, <4>1, <4>2
    <3> QED
      BY <2>0, <2>1, <3>1, <3>3, <3>4, <3>5 DEF Different
  <2> QED
    BY <2>0, <2>1, <2>2, <2>3, <2>4 DEF GateSound
<1>8. CASE Decide
  <2>0. /\ timely /\ GateSound /\ gate = "polling" /\ Len(counts) = Len(Work)
        /\ UNCHANGED <<counts, published, attempt, gapSeen>>
    BY <1>8 DEF Decide
  <2>1. gate' = "computing" => published' = Targets
    <3> SUFFICES ASSUME Passes PROVE published' = Targets
      BY <1>8 DEF Decide
    <3>1. stable = counts /\ counts # <<>> /\ \A j \in 1..Len(counts) : counts[j][1] = 0
      BY DEF Passes, census_sources_ready
    <3> QED
      BY <2>0, <3>1 DEF GateSound, Different
  <2>2. stable' # <<>> => stable' = counts /\ Restless(counts)
    BY <1>8, <2>0 DEF Decide, GateSound
  <2>3. Restless(counts) => Restless(counts)'
    BY <2>0 DEF Restless, Told, Running
  <2>4. gate' \in {"computing", "raised", "asleep"}
    BY <1>8 DEF Decide
  <2> QED
    BY <2>0, <2>1, <2>2, <2>3, <2>4 DEF GateSound
<1>9. CASE Sleep
  <2>1. /\ timely /\ GateSound /\ gate = "asleep" /\ gate' = "polling" /\ counts' = <<>>
        /\ UNCHANGED <<stable, published, attempt, gapSeen>>
    BY <1>9 DEF Sleep
  <2>2. Restless(stable) => Restless(stable)'
    BY <2>1 DEF Restless, Told, Running
  <2> QED
    BY <2>1, <2>2 DEF GateSound
<1>10. CASE Compute
  BY <1>10 DEF Compute, GateSound
<1>11. CASE UNCHANGED vars
  BY <1>0, <1>11 DEF vars
<1> QED
  BY <1>1, <1>2, <1>3, <1>4, <1>5, <1>6, <1>7, <1>8, <1>9, <1>10, <1>11
     DEF Next, PassStep, GateStep

(* While no attempt fails and no pass dies, two equal ready polls that     *)
(* fall where polls are meant to show that the whole day is published      *)
(* (_await_census_sources), for any jobs, targets and concurrency.  The    *)
(* gate of a recent date that may wait is the one that polls twice.        *)
THEOREM UndisturbedDayCorrect ==
  ASSUME Recent, Waits
  PROVE  Spec => []UndisturbedDayIsWhole
<1> DEFINE Inv == TypedPass /\ UndisturbedSound
<1>1. Init => Inv
  <2> SUFFICES ASSUME Init PROVE UndisturbedSound /\ TypedPass
    OBVIOUS
  <2>1. TypedPass
    BY InitTypedPass
  <2> QED
    BY <2>1, JobsOfWork DEF Init, UndisturbedSound, Orderly, CountsBehind, GateSound
<1>2. Inv /\ [Next]_vars => Inv'
  <2> SUFFICES ASSUME TypedPass, UndisturbedSound, [Next]_vars
               PROVE  UndisturbedSound'
    BY TypedPassStep
  <2>1. faults' = 0 => faults = 0
    BY DEF Next, PassStep, GateStep, vars, BeginJob, StartAttempt, InsertVerified,
       AppendPublication, AttemptFails, PublicationFails, Crash, Fault, Invoke,
       PollJob, Decide, Sleep, Compute, TypedPass, TypeOK
  <2> SUFFICES ASSUME faults = 0, faults' = 0
               PROVE  Orderly' /\ CountsBehind' /\ (timely' => GateSound')
    BY <2>1 DEF UndisturbedSound
  <2>2. Orderly /\ CountsBehind /\ (timely => GateSound)
    BY DEF UndisturbedSound
  <2> QED
    BY <2>2, OrderlyStep, CountsBehindStep, GateSoundStep
<1>3. Inv => UndisturbedDayIsWhole
  BY DEF UndisturbedSound, GateSound, UndisturbedDayIsWhole, NoPartialDay
<1> QED
  BY <1>1, <1>2, <1>3, PTL DEF Spec

-----------------------------------------------------------------------------
(* The passes do not touch a day that is whole. *)
LEMMA WholeDayRests ==
  ASSUME TypedPass, published = Targets, [Next]_vars
  PROVE  /\ published' = Targets /\ hidden' = hidden
         /\ \A j \in 1..Len(Work) : CensusSourceCounts(j)' = CensusSourceCounts(j)
<1>1. queue = {} /\ Running = {}
  BY DEF TypedPass, TypeOK, PassSound, Running
<1>2. published' = published /\ hidden' = hidden
  BY <1>1 DEF Next, PassStep, GateStep, vars, BeginJob, StartAttempt, InsertVerified,
     AppendPublication, AttemptFails, PublicationFails, Crash, Invoke, PollJob,
     Decide, Sleep, Compute, Running
<1>3. ASSUME NEW j \in 1..Len(Work)
      PROVE  CensusSourceCounts(j)' = CensusSourceCounts(j)
  <2>1. /\ {t \in Work[j] : Blocking(t)} = {}
        /\ {t \in Work[j] : Blocking(t)}' = {}
    BY <1>2, JobsOfWork DEF Blocking
  <2> QED
    BY <1>2, <2>1 DEF CensusSourceCounts
<1> QED
  BY <1>2, <1>3

(* A poll of a whole day is ready when every source job has a target. *)
LEMMA WholeDayIsReady ==
  ASSUME TypedPass, published = Targets, NEW j \in 1..Len(Work), Work[j] # {}
  PROVE  CensusSourceCounts(j)[1] = 0 /\ CensusSourceCounts(j)[2] > 0
<1>1. {t \in Work[j] : Blocking(t)} = {} /\ Work[j] \cap published = Work[j]
  BY JobsOfWork DEF Blocking
<1>2. IsFiniteSet(Work[j]) /\ Cardinality(Work[j]) \in Nat /\ Cardinality(Work[j]) # 0
  BY <1>1, PartsAreFinite, FS_EmptySet
<1>3. Cardinality({row \in hidden : row[1] \in Work[j]}) \in Nat
  BY HiddenCount DEF TypedPass, PassSound
<1>4. Cardinality({t \in Work[j] : Blocking(t)}) = 0
  BY <1>1, FS_EmptySet
<1>5. Cardinality(Work[j] \cap published) \in Nat \ {0}
  BY <1>1, <1>2
<1> DEFINE a == Cardinality({t \in Work[j] : Blocking(t)})
           b == Cardinality(Work[j] \cap published)
           c == Cardinality({row \in hidden : row[1] \in Work[j]})
<1>6. CensusSourceCounts(j) = <<a, b + c>>
  BY DEF CensusSourceCounts
<1> HIDE DEF a, b, c
<1>7. a = 0 /\ b \in Nat \ {0} /\ c \in Nat
  BY <1>3, <1>4, <1>5 DEF a, b, c
<1> QED
  BY <1>6, <1>7

(* A day that was published whole when compute was invoked is refused only *)
(* by a wait that leaves its ready first poll no second one, whatever dead *)
(* attempts and hidden publications earlier passes left behind             *)
(* (_await_census_sources, _census_source_counts), when every source job   *)
(* has a target.                                                           *)
THEOREM WholeDayPasses ==
  ASSUME Work # <<>>, \A j \in Jobs : Work[j] # {}
  PROVE  Spec => WholeDayNotRefused
<1> DEFINE Inv == TypedPass /\ WholeSound
           Allowed == gate = "polling" /\ gate' = "raised" /\ wasWhole => Unconfirmed
<1>1. Init => Inv
  BY InitTypedPass DEF Init, WholeSound
<1>2. Inv /\ [Next]_vars => Inv' /\ Allowed
  <2> SUFFICES ASSUME TypedPass, WholeSound, [Next]_vars
               PROVE  WholeSound' /\ Allowed
    BY TypedPassStep
  <2> USE JobsOfWork, CountTypes
  <2>1. ASSUME UNCHANGED gateVars
        PROVE  WholeSound' /\ Allowed
    <3>0. Allowed
      BY <2>1
    <3> SUFFICES ASSUME wasWhole, gate \in {"polling", "asleep"} PROVE WholeSound'
      BY <2>1, <3>0 DEF WholeSound
    <3>1. published' = Targets
          /\ \A j \in 1..Len(Work) : CensusSourceCounts(j)' = CensusSourceCounts(j)
      BY WholeDayRests DEF WholeSound
    <3> QED
      BY <2>1, <3>1 DEF WholeSound, Current
  <2>2. CASE Invoke
    <3>1. gate' = "polling" /\ counts' = <<>> /\ stable' = <<>> /\ remaining' = WaitPolls
          /\ published' = published
      BY <2>2 DEF Invoke
    <3>2. wasWhole' => published = Targets
      BY <2>2, Zenon DEF Invoke
    <3>3. Current(counts)'
      BY <3>1 DEF Current
    <3> QED
      BY <3>1, <3>2, <3>3 DEF WholeSound
  <2>3. CASE PollJob \/ Decide \/ Sleep
    <3> SUFFICES ASSUME wasWhole
                 PROVE  WholeSound' /\ Allowed
      BY <2>3 DEF PollJob, Decide, Sleep, WholeSound
    <3>0. /\ gate \in {"polling", "asleep"} /\ published = Targets /\ published' = Targets
          /\ Len(counts) <= Len(Work) /\ Current(counts)
          /\ \A j \in 1..Len(Work) : CensusSourceCounts(j)' = CensusSourceCounts(j)
      BY <2>3, WholeDayRests DEF PollJob, Decide, Sleep, WholeSound
    <3>1. CASE PollJob
      <4>1. /\ Len(counts') <= Len(Work) /\ UNCHANGED <<gate, stable, wasWhole>>
            /\ \A j \in 1..Len(counts') : counts'[j] = CensusSourceCounts(j)
        <5>1. PICK n \in 1..Len(Work) : n = Len(counts) + 1
          BY <3>1 DEF PollJob
        <5>2. /\ Len(counts') = n /\ counts'[n] = CensusSourceCounts(n)
              /\ \A j \in 1..Len(counts) : counts'[j] = counts[j]
          BY <3>1, <5>1 DEF PollJob, TypedPass, TypeOK
        <5> QED
          BY <3>0, <3>1, <5>1, <5>2 DEF Current, PollJob
      <4>2. gate = "polling" /\ gate' = "polling"
        BY <3>1 DEF PollJob
      <4>3. slow' = 0 => slow = 0 /\ remaining' = remaining
        BY <3>1 DEF PollJob, TypedPass, TypeOK
      <4> QED
        BY <3>0, <4>1, <4>2, <4>3 DEF WholeSound, Current
    <3>2. CASE Decide
      <4>1. Len(counts) = Len(Work) /\ counts # <<>> /\ gate = "polling"
        BY <3>2 DEF Decide
      <4>2. census_sources_ready(counts)
        <5>1. DOMAIN counts = 1..Len(Work)
          BY <4>1 DEF TypedPass, TypeOK
        <5>2. ASSUME NEW j \in 1..Len(Work) PROVE counts[j][2] > 0 /\ counts[j][1] = 0
          <6>1. Work[j] # {} /\ counts[j] = CensusSourceCounts(j)
            BY <3>0, <4>1 DEF Current
          <6>2. CensusSourceCounts(j)[1] = 0 /\ CensusSourceCounts(j)[2] > 0
            BY <3>0, <6>1, WholeDayIsReady
          <6> QED
            BY <6>1, <6>2
        <5> QED
          BY <4>1, <5>1, <5>2 DEF census_sources_ready
      <4>3. stable # <<>> => stable = counts
        <5> SUFFICES ASSUME stable # <<>> PROVE stable = counts
          OBVIOUS
        <5>1. Len(stable) = Len(counts) /\ \A j \in 1..Len(counts) : stable[j] = counts[j]
          BY <3>0, <4>1 DEF WholeSound, Current
        <5>2. stable \in Seq(Nat \X Nat) /\ counts \in Seq(Nat \X Nat)
          BY DEF TypedPass, TypeOK
        <5> QED
          BY <5>1, <5>2, SeqEqual
      <4>4. gate' = "raised" => Unconfirmed
        <5> SUFFICES ASSUME ~Passes, TimedOut PROVE Unconfirmed
          BY <3>2 DEF Decide
        <5>1. Recent /\ Waits /\ stable # counts /\ remaining = 0
          BY <4>2 DEF Passes, TimedOut
        <5>2. stable = <<>> /\ (slow = 0 => remaining = WaitPolls)
          BY <3>0, <4>1, <4>3, <5>1 DEF WholeSound
        <5>3. WaitPolls = 0 \/ slow > 0
          BY <5>1, <5>2 DEF TypedPass, TypeOK
        <5> QED
          BY <4>2, <5>1, <5>2, <5>3 DEF Unconfirmed
      <4>5. stable' = counts /\ UNCHANGED <<counts, wasWhole>>
        BY <3>2, <4>2 DEF Decide
      <4> QED
        BY <3>0, <4>1, <4>4, <4>5 DEF WholeSound, Current
    <3>3. CASE Sleep
      BY <3>0, <3>3 DEF Sleep, WholeSound, Current
    <3> QED
      BY <2>3, <3>1, <3>2, <3>3
  <2>4. CASE Compute
    BY <2>4 DEF Compute, WholeSound
  <2> QED
    BY <2>1, <2>2, <2>3, <2>4 DEF Next, PassStep, GateStep, vars, BeginJob, StartAttempt,
       InsertVerified, AppendPublication, AttemptFails, PublicationFails, Crash
<1>3. [Allowed]_vars <=> [gate = "polling" /\ gate' = "raised" /\ wasWhole =>
       /\ Recent /\ Waits
       /\ census_sources_ready(counts) /\ stable = <<>>
       /\ WaitPolls = 0 \/ slow > 0]_vars
  BY DEF Unconfirmed
<1> QED
  BY <1>1, <1>2, <1>3, PTL DEF Spec, WholeDayNotRefused, Unconfirmed
=============================================================================
