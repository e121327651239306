----------------------------- MODULE Migrations -----------------------------
(***************************************************************************)
(* MigrationRunner.apply (storage/migrations.py).  A run executes the      *)
(* statements of every file the ledger does not name and then records its  *)
(* checksum; a recorded file that changed stops it.  The ledger is itself  *)
(* made by the first file.  A run may die, and a command may raise before  *)
(* or after it took effect, between any two steps; the next run starts     *)
(* from what is in the database.  Runs do not overlap here: migrate takes  *)
(* no writer guard, so that is left to the operator.                       *)
(***************************************************************************)
EXTENDS Integers, Sequences

CONSTANTS
  Release,    \* the files of the last release, in order: sequences of
              \* <<object, "create" or "replace">>; an object is created by
              \* IF NOT EXISTS, or replaced by OR REPLACE
  MaxFaults   \* bound on runs that die and commands that raise

Files == DOMAIN Release
Statements == UNION {{Release[f][i] : i \in DOMAIN Release[f]} : f \in Files}
Objects == {s[1] : s \in Statements}

VARIABLES
  shipped,   \* how many of the files the installed release has
  edited,    \* files whose text was changed after they were shipped
  schema,    \* [Objects -> the file that last defined it, 0 for none]
  ledger,    \* recorded files: <<file, whether its text was the edited one>>
  pc,        \* "idle", "exists", "load", "next", "execute", "record", "done"
             \* or "refused"
  file,      \* the file that is applied
  statement, \* its next statement
  boot,      \* the run is bootstrapping
  applied,   \* _load_applied: the rows this run knows
  faults

dbVars == <<schema, ledger>>
vars == <<shipped, edited, dbVars, pc, file, statement, boot, applied, faults>>

(* The objects the migrations table and its database stand for. *)
LedgerObject == Release[1][Len(Release[1])][1]
_ledger_exists == schema[LedgerObject] # 0

checksum(f) == f \in edited

Init ==
  /\ shipped = 1 /\ edited = {}
  /\ schema = [o \in Objects |-> 0] /\ ledger = {}
  /\ pc = "idle" /\ file = 1 /\ statement = 1 /\ boot = FALSE
  /\ applied = {} /\ faults = 0

Fault == faults < MaxFaults /\ faults' = faults + 1
AtRest == pc \in {"idle", "done", "refused"}

-----------------------------------------------------------------------------
(* The operator                                                            *)

Upgrade ==
  /\ AtRest /\ shipped < Len(Release)
  /\ shipped' = shipped + 1
  /\ pc' = "idle"
  /\ UNCHANGED <<edited, dbVars, file, statement, boot, applied, faults>>

(* A migration that was recorded is changed on disk.  Of a file that a     *)
(* dead run left half applied, what a changed text does depends on the     *)
(* text, and nothing in the code tells the two apart: not modelled.        *)
Edit(f) ==
  /\ AtRest /\ edited = {} /\ <<f, FALSE>> \in ledger
  /\ edited' = {f}
  /\ pc' = "idle"
  /\ UNCHANGED <<shipped, dbVars, file, statement, boot, applied, faults>>

-----------------------------------------------------------------------------
(* apply                                                                   *)

Begin ==
  /\ pc = "idle"
  /\ boot' = ~_ledger_exists
  /\ pc' = IF _ledger_exists THEN "load" ELSE "execute"
  /\ file' = 1 /\ statement' = 1
  /\ UNCHANGED <<shipped, edited, dbVars, applied, faults>>

Load ==
  /\ pc = "load"
  /\ pc' = IF \E f \in Files : {<<f, TRUE>>, <<f, FALSE>>} \subseteq ledger
           THEN "refused" ELSE "next"
  /\ applied' = ledger /\ boot' = FALSE /\ file' = 1
  /\ UNCHANGED <<shipped, edited, dbVars, statement, faults>>

Recorded(f) == \E text \in BOOLEAN : <<f, text>> \in applied

(* Mutant: a recorded file is skipped whatever its checksum. *)
Changed_never(f) == FALSE
Changed(f) == <<f, checksum(f)>> \notin applied

NextFile ==
  /\ pc = "next"
  /\ \/ /\ file > shipped
        /\ pc' = "done" /\ UNCHANGED file
     \/ /\ file <= shipped /\ Recorded(file)
        /\ IF Changed(file) THEN pc' = "refused" /\ UNCHANGED file
                            ELSE pc' = "next" /\ file' = file + 1
     \/ /\ file <= shipped /\ ~Recorded(file)
        /\ pc' = "execute" /\ UNCHANGED file
  /\ statement' = 1
  /\ UNCHANGED <<shipped, edited, dbVars, boot, applied, faults>>

Defined(o, mode) ==
  [schema EXCEPT ![o] = IF mode = "create" /\ @ # 0 THEN @ ELSE file]

Execute ==
  LET s == Release[file][statement]
  IN  /\ pc = "execute"
      /\ schema' = Defined(s[1], s[2])
      /\ IF statement = Len(Release[file])
         THEN pc' = "record" /\ UNCHANGED statement
         ELSE pc' = "execute" /\ statement' = statement + 1
      /\ UNCHANGED <<shipped, edited, ledger, file, boot, applied, faults>>

(* Where a run goes on when a file is recorded. *)
Proceed == /\ pc' = IF boot THEN "load" ELSE "next"
           /\ file' = IF boot THEN file ELSE file + 1
           /\ applied' = IF boot THEN applied
                                 ELSE applied \cup {<<file, checksum(file)>>}

(* _record; if its insert raised after it was committed, the read-back     *)
(* finds the row.                                                          *)
Record ==
  /\ pc = "record"
  /\ ledger' = ledger \cup {<<file, checksum(file)>>}
  /\ Proceed
  /\ UNCHANGED <<shipped, edited, schema, statement, boot, faults>>

(* The run dies or a command raises, before or after it took effect. *)
RunFails ==
  /\ ~AtRest
  /\ Fault
  /\ \/ UNCHANGED dbVars
     \/ /\ pc = "execute"
        /\ LET s == Release[file][statement] IN schema' = Defined(s[1], s[2])
        /\ UNCHANGED ledger
     \/ /\ pc = "record"
        /\ ledger' = ledger \cup {<<file, checksum(file)>>}
        /\ UNCHANGED schema
  /\ pc' = "idle"
  /\ UNCHANGED <<shipped, edited, file, statement, boot, applied>>

Next ==
  \/ Upgrade \/ \E f \in Files : Edit(f)
  \/ Begin \/ Load \/ NextFile \/ Execute \/ Record
  \/ RunFails

-----------------------------------------------------------------------------
(* Properties.                                                             *)

(* A release is files of statements, and an object is always created or    *)
(* always replaced: the files of migrations/ create databases and tables   *)
(* and replace views, and no statement alters or drops one.                *)
ReleaseWellFormed ==
  /\ Release \in Seq(Seq(Objects \X {"create", "replace"}) \ {<<>>}) \ {<<>>}
  /\ \A s, r \in Statements : s[1] = r[1] => s[2] = r[2]

(* The file that an object's definition comes from in a release of the     *)
(* first n files: the last one that replaces it, or the one that creates   *)
(* it first.                                                               *)
Mentions(f, o) == \E i \in DOMAIN Release[f] : Release[f][i][1] = o
Definers(n, o) == {f \in 1..n : Mentions(f, o)}
DefinedBy(n, o) ==
  IF Definers(n, o) = {} THEN 0
  ELSE IF <<o, "replace">> \in Statements
       THEN CHOOSE f \in Definers(n, o) : \A g \in Definers(n, o) : g <= f
       ELSE CHOOSE f \in Definers(n, o) : \A g \in Definers(n, o) : f <= g

(* "Apply immutable SQL migrations and verify their recorded checksums"    *)
(* (MigrationRunner): when a run completes, whatever runs before it died   *)
(* half way or lost the answer to a command, every object is the one the   *)
(* release defines, every file is recorded, and none of them was changed.  *)
SchemaIsRelease ==
  pc = "done" =>
    /\ \A o \in Objects : schema[o] = DefinedBy(shipped, o)
    /\ ledger = {<<f, FALSE>> : f \in 1..shipped}
    /\ edited = {}

(* Why: the ledger names the first n files, and the schema is the one they *)
(* define, but for objects of the next file, which a run that died may     *)
(* have left behind.  A run that has passed the first files found none of  *)
(* them changed, so what it executes is the next file as it was shipped.   *)
Halfway(n) ==
  \A o \in Objects :
    \/ schema[o] = DefinedBy(n, o)
    \/ n < shipped /\ Mentions(n + 1, o) /\ schema[o] = DefinedBy(n + 1, o)
Passing(n) == boot = FALSE /\ applied = ledger /\ file \in 1..(n + 1)
Applying(n) ==
  /\ file = n + 1 /\ n < shipped /\ edited = {}
  /\ boot => n = 0
  /\ ~boot => applied = ledger
  /\ statement \in DOMAIN Release[file]
  /\ \A i \in DOMAIN Release[file] :
       i < statement \/ pc = "record" =>
         schema[Release[file][i][1]] = DefinedBy(n + 1, Release[file][i][1])
Follows(n) ==
  /\ ledger = {<<f, FALSE>> : f \in 1..n}
  /\ edited \subseteq 1..n
  /\ Halfway(n)
  /\ pc = "next" => Passing(n) /\ edited \cap 1..(file - 1) = {}
  /\ pc \in {"execute", "record"} => Applying(n)
  /\ pc = "done" => n = shipped /\ edited = {}
SchemaFollows ==
  /\ shipped \in 1..Len(Release)
  /\ schema \in [Objects -> Nat] /\ boot \in BOOLEAN
  /\ \E n \in 0..shipped : Follows(n)
=============================================================================
