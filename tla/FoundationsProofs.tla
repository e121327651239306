-------------------------- MODULE FoundationsProofs --------------------------
(***************************************************************************)
(* Proofs about the parts the other modules stand on: the writer guard, for*)
(* any number of processes, any timing constants and any number of kills   *)
(* and failing calls; and the parts MCFoundations checks on small inputs.  *)
(***************************************************************************)
EXTENDS MCFoundations, MCWriterGuard, BlockRangesProofs

-----------------------------------------------------------------------------
(* The migrations.                                                         *)

(* The files of a release and their statements, by position. *)
LEMMA ReleaseShape ==
  /\ Len(Release) \in Nat \ {0}
  /\ M!Files = 1..Len(Release)
  /\ \A f \in 1..Len(Release) :
       /\ Len(Release[f]) \in Nat \ {0}
       /\ DOMAIN Release[f] = 1..Len(Release[f])
       /\ \A i \in DOMAIN Release[f] :
            /\ Release[f][i] = <<Release[f][i][1], Release[f][i][2]>>
            /\ Release[f][i][1] \in M!Objects
            /\ Release[f][i][2] \in {"create", "replace"}
            /\ Release[f][i] \in M!Statements
<1> DEFINE Text == Seq(M!Objects \X {"create", "replace"}) \ {<<>>}
<1>1. Release \in Seq(Text) \ {<<>>}
  BY ReleaseAssumption DEF M!ReleaseWellFormed
<1>2. Len(Release) \in Nat \ {0} /\ DOMAIN Release = 1..Len(Release)
  BY <1>1
<1>3. M!Files = 1..Len(Release)
  BY <1>2 DEF M!Files
<1>4. ASSUME NEW f \in 1..Len(Release)
      PROVE  /\ Release[f] \in Seq(M!Objects \X {"create", "replace"})
             /\ Len(Release[f]) \in Nat \ {0}
             /\ DOMAIN Release[f] = 1..Len(Release[f])
  <2>1. Release[f] \in Text
    BY <1>1, <1>2
  <2> QED
    BY <2>1
<1>5. ASSUME NEW f \in 1..Len(Release), NEW i \in DOMAIN Release[f]
      PROVE  /\ Release[f][i] \in M!Objects \X {"create", "replace"}
             /\ Release[f][i] \in M!Statements
  <2>1. Release[f][i] \in M!Objects \X {"create", "replace"}
    BY <1>4
  <2>2. Release[f][i] \in M!Statements
    BY <1>3 DEF M!Statements
  <2> QED
    BY <2>1, <2>2
<1> QED
  BY <1>2, <1>3, <1>4, <1>5

(* A statement's mode is the mode of its object. *)
LEMMA ModeOfObject ==
  ASSUME NEW f \in 1..Len(Release), NEW i \in DOMAIN Release[f]
  PROVE  Release[f][i][2] = "replace" <=> <<Release[f][i][1], "replace">> \in M!Statements
<1> DEFINE s == Release[f][i]
<1>1. s = <<s[1], s[2]>> /\ s \in M!Statements
  BY ReleaseShape
<1>2. ASSUME NEW r \in M!Statements, r = <<s[1], "replace">> PROVE s[2] = "replace"
  BY <1>1, <1>2, ReleaseAssumption DEF M!ReleaseWellFormed
<1> QED
  BY <1>1, <1>2

(* DefinedBy from one release to the next. *)
LEMMA NextDefinition ==
  ASSUME NEW n \in Nat, NEW o
  PROVE  /\ M!DefinedBy(n, o) \in Nat
         /\ M!DefinedBy(n, o) = 0 <=> M!Definers(n, o) = {}
         /\ ~M!Mentions(n + 1, o) => M!DefinedBy(n + 1, o) = M!DefinedBy(n, o)
         /\ M!Mentions(n + 1, o) =>
              M!DefinedBy(n + 1, o) =
                IF <<o, "replace">> \in M!Statements \/ M!DefinedBy(n, o) = 0
                THEN n + 1 ELSE M!DefinedBy(n, o)
<1> DEFINE S == M!Definers(n, o)
           T == M!Definers(n + 1, o)
           replaced == <<o, "replace">> \in M!Statements
           last(U) == CHOOSE f \in U : \A g \in U : g <= f
           first(U) == CHOOSE f \in U : \A g \in U : f <= g
<1>1. S \subseteq 1..n /\ T = IF M!Mentions(n + 1, o) THEN S \cup {n + 1} ELSE S
  BY DEF M!Definers
<1>2. \A f \in S : f \in Nat /\ 1 <= f /\ f <= n
  BY DEF M!Definers
<1>3. M!DefinedBy(n, o) = IF S = {} THEN 0 ELSE IF replaced THEN last(S) ELSE first(S)
  BY DEF M!DefinedBy
<1>4. M!DefinedBy(n + 1, o) = IF T = {} THEN 0 ELSE IF replaced THEN last(T) ELSE first(T)
  BY DEF M!DefinedBy
<1> HIDE DEF S, T, replaced
<1>5. ASSUME S # {}
      PROVE  \E f \in S : \A g \in S : f <= g
  BY <1>2, <1>5, LeastBlock
<1>6. ASSUME S # {}
      PROVE  \E f \in S : \A g \in S : g <= f
  <2> DEFINE R == {n - g : g \in S}
  <2>1. R \in SUBSET Nat /\ R # {}
    BY <1>2, <1>6
  <2>2. PICK m \in R : \A k \in R : m <= k
    BY <2>1, LeastBlock
  <2>3. PICK f \in S : m = n - f
    BY <2>2
  <2>4. \A g \in S : n - f <= n - g
    BY <2>2, <2>3
  <2> QED
    BY <1>2, <2>4
<1>7. ASSUME S # {} PROVE /\ last(S) \in S /\ \A g \in S : g <= last(S)
                          /\ first(S) \in S /\ \A g \in S : first(S) <= g
  BY <1>5, <1>6, <1>7
<1>8. ASSUME T = S \cup {n + 1} PROVE last(T) = n + 1
  <2>1. \A f \in T : (\A g \in T : g <= f) => f = n + 1
    BY <1>2, <1>8
  <2>2. \E f \in T : \A g \in T : g <= f
    BY <1>2, <1>8
  <2> QED
    BY <2>1, <2>2
<1>9. ASSUME T = S \cup {n + 1}
      PROVE  first(T) = IF S = {} THEN n + 1 ELSE first(S)
  <2> DEFINE f0 == IF S = {} THEN n + 1 ELSE first(S)
  <2>1. f0 \in T /\ \A g \in T : f0 <= g
    <3>1. CASE S = {}
      BY <3>1, <1>9
    <3>2. CASE S # {}
      <4>1. f0 \in S /\ \A g \in S : f0 <= g
        BY <3>2, <1>7
      <4>2. f0 \in Nat /\ f0 <= n
        BY <4>1, <1>2
      <4> HIDE DEF f0
      <4>3. f0 <= n + 1
        BY <4>2
      <4> QED
        BY <4>1, <4>3, <1>9
    <3> QED
      BY <3>1, <3>2
  <2>2. ASSUME NEW f \in T, \A g \in T : f <= g PROVE f = f0
    <3> HIDE DEF f0
    <3>1. f \in Nat /\ f0 \in Nat
      <4>1. \A g \in T : g \in Nat
        BY <1>2, <1>9
      <4> QED
        BY <4>1, <2>1, <2>2
    <3>2. f <= f0 /\ f0 <= f
      BY <2>1, <2>2
    <3> QED
      BY <3>1, <3>2
  <2> QED
    BY <2>1, <2>2
<1>10. S # {} => last(S) \in Nat \ {0} /\ first(S) \in Nat \ {0}
  <2> HIDE DEF first, last
  <2> QED
    BY <1>2, <1>7
<1> HIDE DEF last, first
<1>11. M!DefinedBy(n, o) \in Nat /\ (M!DefinedBy(n, o) = 0 <=> S = {})
  BY <1>3, <1>10
<1>12. ~M!Mentions(n + 1, o) => M!DefinedBy(n + 1, o) = M!DefinedBy(n, o)
  BY <1>1, <1>3, <1>4
<1>13. ASSUME M!Mentions(n + 1, o)
       PROVE  M!DefinedBy(n + 1, o) = IF replaced \/ M!DefinedBy(n, o) = 0
                                      THEN n + 1 ELSE M!DefinedBy(n, o)
  <2>1. T = S \cup {n + 1} /\ T # {}
    BY <1>1, <1>13
  <2> QED
    BY <2>1, <1>3, <1>4, <1>8, <1>9, <1>11
<1> QED
  BY <1>11, <1>12, <1>13 DEF S, replaced

(* A statement of the next file brings its object to the next release,     *)
(* whether or not it was there already.                                    *)
LEMMA StatementDefines ==
  ASSUME NEW n \in Nat, n + 1 \in 1..Len(Release), NEW i \in DOMAIN Release[n + 1],
         NEW d, d \in {M!DefinedBy(n, Release[n + 1][i][1]),
                       M!DefinedBy(n + 1, Release[n + 1][i][1])}
  PROVE  (IF Release[n + 1][i][2] = "create" /\ d # 0 THEN d ELSE n + 1)
           = M!DefinedBy(n + 1, Release[n + 1][i][1])
<1> DEFINE o == Release[n + 1][i][1]
<1>1. M!Mentions(n + 1, o)
  BY DEF M!Mentions
<1>2. M!DefinedBy(n + 1, o) = IF <<o, "replace">> \in M!Statements \/ M!DefinedBy(n, o) = 0
                              THEN n + 1 ELSE M!DefinedBy(n, o)
  BY <1>1, NextDefinition
<1>3. Release[n + 1][i][2] = "create" <=> <<o, "replace">> \notin M!Statements
  BY ModeOfObject, ReleaseShape
<1>4. M!DefinedBy(n, o) \in Nat
  BY NextDefinition
<1> HIDE DEF o
<1> QED
  BY <1>2, <1>3, <1>4 DEF o

(* A file that was recorded has left a definition of its objects. *)
LEMMA RecordedIsDefined ==
  ASSUME NEW n \in Nat, NEW f \in 1..n, NEW o, M!Mentions(f, o)
  PROVE  M!DefinedBy(n, o) # 0
<1>1. f \in M!Definers(n, o)
  BY DEF M!Definers
<1> QED
  BY <1>1, NextDefinition

(* The statement that is executed puts its object into the next release.   *)
LEMMA ExecuteFollows ==
  ASSUME NEW n \in Nat, M!SchemaFollows, M!Follows(n), pc = "execute",
         schema' = M!Defined(Release[file][statement][1], Release[file][statement][2])
  PROVE  /\ schema' \in [M!Objects -> Nat]
         /\ \A o \in M!Objects :
              schema'[o] = IF o = Release[file][statement][1]
                           THEN M!DefinedBy(n + 1, o) ELSE schema[o]
<1>1. /\ file = n + 1 /\ n < shipped /\ statement \in DOMAIN Release[file]
      /\ shipped \in 1..Len(Release) /\ schema \in [M!Objects -> Nat]
  BY DEF M!SchemaFollows, M!Follows, M!Applying
<1>2. file \in 1..Len(Release)
  BY <1>1
<1> DEFINE s == Release[file][statement]
<1>3. s[1] \in M!Objects /\ n + 1 \in Nat
  BY <1>1, <1>2, ReleaseShape
<1>4. schema[s[1]] \in {M!DefinedBy(n, s[1]), M!DefinedBy(n + 1, s[1])}
  BY <1>3 DEF M!Follows, M!Halfway
<1>5. (IF s[2] = "create" /\ schema[s[1]] # 0 THEN schema[s[1]] ELSE file)
        = M!DefinedBy(n + 1, s[1])
  BY <1>1, <1>2, <1>4, StatementDefines
<1>6. M!DefinedBy(n + 1, s[1]) \in Nat
  BY <1>3, NextDefinition
<1>7. schema' = [schema EXCEPT ![s[1]] = M!DefinedBy(n + 1, s[1])]
  BY <1>5 DEF M!Defined
<1> HIDE DEF s
<1>8. /\ schema' \in [M!Objects -> Nat]
      /\ \A o \in M!Objects :
              schema'[o] = IF o = s[1] THEN M!DefinedBy(n + 1, o) ELSE schema[o]
  BY <1>1, <1>3, <1>6, <1>7
<1> QED
  BY <1>8 DEF s

(* A file is recorded once all its statements took effect: the schema is   *)
(* the next release's.                                                     *)
LEMMA RecordFollows ==
  ASSUME NEW n \in Nat, M!SchemaFollows, M!Follows(n), pc = "record"
  PROVE  /\ file = n + 1 /\ n < shipped /\ edited = {}
         /\ ledger \cup {<<file, M!checksum(file)>>} = {<<f, FALSE>> : f \in 1..(n + 1)}
         /\ \A o \in M!Objects : schema[o] = M!DefinedBy(n + 1, o)
<1>1. M!Applying(n)
  BY DEF M!Follows
<1>2. file = n + 1 /\ n < shipped /\ edited = {}
  BY <1>1 DEF M!Applying
<1>3. M!checksum(file) = FALSE
  BY <1>2 DEF M!checksum
<1>4. ledger \cup {<<file, M!checksum(file)>>} = {<<f, FALSE>> : f \in 1..(n + 1)}
  <2>1. ledger = {<<f, FALSE>> : f \in 1..n}
    BY DEF M!Follows
  <2>2. 1..(n + 1) = (1..n) \cup {n + 1}
    OBVIOUS
  <2> QED
    BY <1>2, <1>3, <2>1, <2>2
<1>5. ASSUME NEW o \in M!Objects PROVE schema[o] = M!DefinedBy(n + 1, o)
  <2>1. CASE M!Mentions(n + 1, o)
    BY <1>1, <1>2, <2>1 DEF M!Applying, M!Mentions
  <2>2. CASE ~M!Mentions(n + 1, o)
    <3>1. schema[o] = M!DefinedBy(n, o)
      BY <2>2 DEF M!Follows, M!Halfway
    <3> QED
      BY <2>2, <3>1, NextDefinition
  <2> QED
    BY <2>1, <2>2
<1> QED
  BY <1>2, <1>4, <1>5

(* The schema follows the ledger (MigrationRunner.apply): no run, and no   *)
(* death of a run, leaves the two more than one file apart, and what is    *)
(* executed is what was shipped.                                           *)
THEOREM SchemaFollowsLedger == M!Init /\ [][M!Next]_M!vars => []M!SchemaFollows
<1>1. M!Init => M!SchemaFollows
  <2> SUFFICES ASSUME M!Init PROVE M!SchemaFollows
    OBVIOUS
  <2>1. \A o : M!DefinedBy(0, o) = 0
    BY DEF M!DefinedBy, M!Definers
  <2>2. M!Follows(0)
    BY <2>1 DEF M!Init, M!Follows, M!Halfway
  <2>3. shipped \in 1..Len(Release) /\ 0 \in 0..shipped
    BY ReleaseShape DEF M!Init
  <2>4. schema \in [M!Objects -> Nat] /\ boot \in BOOLEAN
    BY DEF M!Init
  <2> QED
    BY <2>2, <2>3, <2>4 DEF M!SchemaFollows
<1>2. M!SchemaFollows /\ [M!Next]_M!vars => M!SchemaFollows'
  <2> SUFFICES ASSUME M!SchemaFollows, [M!Next]_M!vars PROVE M!SchemaFollows'
    OBVIOUS
  <2>0. /\ shipped \in 1..Len(Release) /\ Len(Release) \in Nat
        /\ schema \in [M!Objects -> Nat] /\ boot \in BOOLEAN
    BY ReleaseShape DEF M!SchemaFollows
  <2>1. PICK n \in 0..shipped : M!Follows(n)
    BY DEF M!SchemaFollows
  <2>2. n \in Nat /\ n + 1 \in Nat
    BY <2>0, <2>1
  <2>3. /\ ledger = {<<f, FALSE>> : f \in 1..n} /\ edited \subseteq 1..n
        /\ M!Halfway(n)
    BY <2>1 DEF M!Follows
  <2>4. ASSUME NEW m \in 0..shipped', M!Follows(m)', shipped' \in 1..Len(Release),
               schema' \in [M!Objects -> Nat], boot' \in BOOLEAN
        PROVE  M!SchemaFollows'
    BY <2>4 DEF M!SchemaFollows
  <2>5. CASE M!Upgrade
    <3>1. M!Halfway(n)'
      BY <2>0, <2>3, <2>5 DEF M!Upgrade, M!dbVars, M!Halfway
    <3>2. M!Follows(n)'
      BY <2>3, <2>5, <3>1 DEF M!Upgrade, M!dbVars, M!Follows
    <3> QED
      BY <2>0, <2>1, <2>4, <2>5, <3>2 DEF M!Upgrade, M!dbVars
  <2>6. ASSUME NEW f \in M!Files, M!Edit(f) PROVE M!SchemaFollows'
    <3>1. M!Halfway(n)'
      BY <2>3, <2>6 DEF M!Edit, M!dbVars, M!Halfway
    <3>2. f \in 1..n
      BY <2>3, <2>6 DEF M!Edit
    <3>3. M!Follows(n)'
      BY <2>3, <2>6, <3>1, <3>2 DEF M!Edit, M!dbVars, M!Follows
    <3> QED
      BY <2>0, <2>1, <2>4, <2>6, <3>3 DEF M!Edit, M!dbVars
  <2>7. CASE M!Begin
    <3>1. M!Halfway(n)'
      BY <2>3, <2>7 DEF M!Begin, M!dbVars, M!Halfway
    <3>2. 1 \in DOMAIN Release[1] /\ 1 \in 1..Len(Release)
      BY ReleaseShape
    <3>3. ASSUME ~M!_ledger_exists PROVE n = 0
      <4> DEFINE o == M!LedgerObject
      <4>1. o \in M!Objects /\ M!Mentions(1, o)
        BY <3>2, ReleaseShape DEF M!LedgerObject, M!Mentions
      <4>2. schema[o] = 0
        BY <3>3 DEF M!_ledger_exists
      <4>3. M!DefinedBy(n, o) = 0 \/ (n < shipped /\ M!DefinedBy(n + 1, o) = 0)
        BY <2>3, <4>1, <4>2 DEF M!Halfway
      <4>4. CASE n # 0
        <5>1. 1 \in 1..n /\ 1 \in 1..(n + 1)
          BY <2>2, <4>4
        <5>2. M!DefinedBy(n, o) # 0 /\ M!DefinedBy(n + 1, o) # 0
          BY <2>2, <4>1, <5>1, RecordedIsDefined
        <5> QED
          BY <4>3, <5>2
      <4> QED
        BY <4>4
    <3>4. ASSUME pc' = "execute" PROVE M!Applying(n)'
      <4>1. ~M!_ledger_exists /\ boot' = TRUE /\ n = 0
        BY <2>7, <3>3, <3>4 DEF M!Begin
      <4>2. edited = {}
        BY <2>3, <4>1
      <4> QED
        BY <2>0, <2>7, <3>2, <3>4, <4>1, <4>2, ReleaseShape
           DEF M!Begin, M!dbVars, M!Applying
    <3>5. M!Follows(n)'
      BY <2>3, <2>7, <3>1, <3>4 DEF M!Begin, M!dbVars, M!Follows
    <3> QED
      BY <2>0, <2>1, <2>4, <2>7, <3>5 DEF M!Begin, M!dbVars
  <2>8. CASE M!Load
    <3>1. M!Halfway(n)'
      BY <2>3, <2>8 DEF M!Load, M!dbVars, M!Halfway
    <3>2. M!Follows(n)'
      BY <2>2, <2>3, <2>8, <3>1 DEF M!Load, M!dbVars, M!Follows, M!Passing
    <3> QED
      BY <2>0, <2>1, <2>4, <2>8, <3>2 DEF M!Load, M!dbVars
  <2>9. CASE M!NextFile
    <3>1. M!Halfway(n)'
      BY <2>3, <2>9 DEF M!NextFile, M!dbVars, M!Halfway
    <3>2. M!Passing(n) /\ edited \cap 1..(file - 1) = {}
      BY <2>1, <2>9 DEF M!NextFile, M!Follows
    <3>3. file \in Nat /\ 1 <= file /\ file <= n + 1 /\ applied = ledger /\ ~boot
      BY <2>2, <3>2 DEF M!Passing
    <3>4. M!Recorded(file) <=> file <= n
      <4>1. \A b : <<file, b>> \in applied <=> b = FALSE /\ file \in 1..n
        BY <2>3, <3>3
      <4>2. file \in 1..n <=> file <= n
        BY <2>2, <3>3
      <4> QED
        BY <4>1, <4>2 DEF M!Recorded
    <3>5. CASE file > shipped
      <4>1. n = shipped /\ file = n + 1
        BY <2>0, <2>1, <2>2, <3>3, <3>5
      <4>2. 1..(file - 1) = 1..n
        BY <2>2, <4>1
      <4>3. edited = {}
        BY <2>3, <3>2, <4>2
      <4>4. pc' = "done"
        BY <2>0, <2>9, <3>3, <3>5 DEF M!NextFile
      <4>5. M!Follows(n)'
        BY <2>3, <2>9, <3>1, <4>1, <4>3, <4>4 DEF M!NextFile, M!dbVars, M!Follows
      <4> QED
        BY <2>0, <2>1, <2>4, <2>9, <4>5 DEF M!NextFile, M!dbVars
    <3>6. CASE file <= shipped /\ M!Recorded(file)
      <4>1. \/ pc' = "refused"
            \/ pc' = "next" /\ file' = file + 1 /\ ~M!Changed(file)
        BY <2>0, <2>9, <3>3, <3>6 DEF M!NextFile
      <4>2. ~M!Changed(file) => file \notin edited
        BY <2>3, <3>3 DEF M!Changed, M!checksum
      <4>3. ASSUME pc' = "next"
            PROVE  M!Passing(n)' /\ (edited \cap 1..(file - 1) = {})'
        <5>1. file' = file + 1 /\ file \notin edited
          BY <4>1, <4>2, <4>3
        <5>2. 1..(file' - 1) = 1..(file - 1) \cup {file}
          BY <3>3, <5>1
        <5>3. edited' = edited /\ edited \cap 1..(file' - 1) = {}
          BY <2>9, <3>2, <5>1, <5>2 DEF M!NextFile
        <5> QED
          BY <2>2, <2>9, <3>3, <3>4, <3>6, <5>1, <5>3 DEF M!NextFile, M!dbVars, M!Passing
      <4>4. M!Follows(n)'
        BY <2>3, <2>9, <3>1, <4>1, <4>3 DEF M!NextFile, M!dbVars, M!Follows
      <4> QED
        BY <2>0, <2>1, <2>4, <2>9, <4>4 DEF M!NextFile, M!dbVars
    <3>7. CASE file <= shipped /\ ~M!Recorded(file)
      <4>1. pc' = "execute" /\ file' = file /\ statement' = 1
        BY <2>0, <2>9, <3>3, <3>7 DEF M!NextFile
      <4>2. file = n + 1 /\ n < shipped
        BY <2>0, <2>1, <2>2, <3>3, <3>4, <3>7
      <4>3. edited = {}
        <5>1. 1..(file - 1) = 1..n
          BY <2>2, <4>2
        <5> QED
          BY <2>3, <3>2, <5>1
      <4>4. 1 \in DOMAIN Release[file] /\ \A i \in DOMAIN Release[file] : ~(i < 1)
        BY <2>0, <3>3, <3>7, ReleaseShape
      <4>5. M!Applying(n)'
        BY <2>9, <3>3, <4>1, <4>2, <4>3, <4>4 DEF M!NextFile, M!dbVars, M!Applying
      <4>6. M!Follows(n)'
        BY <2>3, <2>9, <3>1, <4>1, <4>5 DEF M!NextFile, M!dbVars, M!Follows
      <4> QED
        BY <2>0, <2>1, <2>4, <2>9, <4>6 DEF M!NextFile, M!dbVars
    <3> QED
      BY <2>0, <3>3, <3>5, <3>6, <3>7
  <2>10. ASSUME pc = "execute",
                schema' = M!Defined(Release[file][statement][1], Release[file][statement][2]),
                UNCHANGED <<shipped, edited, ledger>>
         PROVE  schema' \in [M!Objects -> Nat] /\ M!Halfway(n)'
    <3>1. M!Applying(n)
      BY <2>1, <2>10 DEF M!Follows
    <3>2. /\ file = n + 1 /\ n < shipped /\ file \in 1..Len(Release)
          /\ statement \in DOMAIN Release[file]
      BY <2>0, <2>2, <3>1 DEF M!Applying
    <3> DEFINE s == Release[file][statement]
    <3>3. /\ schema' \in [M!Objects -> Nat]
          /\ \A o \in M!Objects :
               schema'[o] = IF o = s[1] THEN M!DefinedBy(n + 1, o) ELSE schema[o]
      BY <2>1, <2>2, <2>10, ExecuteFollows
    <3>4. M!Mentions(n + 1, s[1])
      BY <3>2 DEF M!Mentions
    <3>5. M!Halfway(n)'
      BY <2>3, <2>10, <3>2, <3>3, <3>4 DEF M!Halfway
    <3> QED
      BY <3>3, <3>5
  <2>11. CASE M!Execute
    <3>1. /\ pc = "execute"
          /\ schema' = M!Defined(Release[file][statement][1], Release[file][statement][2])
          /\ UNCHANGED <<shipped, edited, ledger>>
          /\ file' = file /\ boot' = boot /\ applied' = applied
          /\ \/ pc' = "execute" /\ statement' = statement + 1
                /\ statement # Len(Release[file])
             \/ pc' = "record" /\ statement' = statement
                /\ statement = Len(Release[file])
      BY <2>11 DEF M!Execute
    <3>2. schema' \in [M!Objects -> Nat] /\ M!Halfway(n)'
      BY <2>10, <3>1
    <3>3. \A o \in M!Objects :
            schema'[o] = IF o = Release[file][statement][1]
                         THEN M!DefinedBy(n + 1, o) ELSE schema[o]
      BY <2>1, <2>2, <3>1, ExecuteFollows
    <3>4. M!Applying(n)
      BY <2>1, <3>1 DEF M!Follows
    <3>5. file \in 1..Len(Release) /\ statement \in DOMAIN Release[file]
      BY <2>0, <2>2, <3>4 DEF M!Applying
    <3>6. /\ Len(Release[file]) \in Nat
          /\ DOMAIN Release[file] = 1..Len(Release[file])
          /\ \A i \in DOMAIN Release[file] : Release[file][i][1] \in M!Objects
      BY <3>5, ReleaseShape
    <3>7. statement' \in DOMAIN Release[file]
      BY <3>1, <3>5, <3>6
    <3>8. ASSUME NEW i \in DOMAIN Release[file], i < statement' \/ pc' = "record"
          PROVE  schema'[Release[file][i][1]] = M!DefinedBy(n + 1, Release[file][i][1])
      <4>1. i < statement \/ i = statement
        BY <3>1, <3>5, <3>6, <3>8
      <4>2. i < statement => schema[Release[file][i][1]]
                               = M!DefinedBy(n + 1, Release[file][i][1])
        BY <3>4 DEF M!Applying
      <4> QED
        BY <3>3, <3>6, <4>1, <4>2
    <3>9. /\ file' = n + 1 /\ n < shipped' /\ edited' = {}
          /\ boot' => n = 0
          /\ ~boot' => applied' = ledger'
      BY <3>1, <3>4 DEF M!Applying
    <3>10. M!Applying(n)'
      BY <3>1, <3>7, <3>8, <3>9 DEF M!Applying
    <3>11. M!Follows(n)'
      BY <2>3, <3>1, <3>2, <3>10 DEF M!Follows
    <3> QED
      BY <2>0, <2>1, <2>4, <3>1, <3>2, <3>11
  <2>12. ASSUME pc = "record",
                ledger' = ledger \cup {<<file, M!checksum(file)>>},
                UNCHANGED <<shipped, edited, schema>>
         PROVE  /\ n + 1 \in 0..shipped /\ file = n + 1 /\ edited = {}
                /\ ledger' = {<<f, FALSE>> : f \in 1..(n + 1)}
                /\ edited' \subseteq 1..(n + 1) /\ M!Halfway(n + 1)'
    <3>1. /\ file = n + 1 /\ n < shipped /\ edited = {}
          /\ ledger' = {<<f, FALSE>> : f \in 1..(n + 1)}
          /\ \A o \in M!Objects : schema[o] = M!DefinedBy(n + 1, o)
      BY <2>1, <2>2, <2>12, RecordFollows
    <3>2. M!Halfway(n + 1)'
      BY <2>12, <3>1 DEF M!Halfway
    <3>3. n + 1 \in 0..shipped
      BY <2>0, <2>2, <3>1
    <3>4. edited' \subseteq 1..(n + 1)
      BY <2>12, <3>1
    <3> QED
      BY <3>1, <3>2, <3>3, <3>4
  <2>13. CASE M!Record
    <3>1. /\ pc = "record" /\ ledger' = ledger \cup {<<file, M!checksum(file)>>}
          /\ UNCHANGED <<shipped, edited, schema>> /\ boot' = boot
          /\ pc' = IF boot THEN "load" ELSE "next"
          /\ file' = IF boot THEN file ELSE file + 1
          /\ applied' = IF boot THEN applied
                                ELSE applied \cup {<<file, M!checksum(file)>>}
      BY <2>13 DEF M!Record, M!Proceed
    <3>2. /\ n + 1 \in 0..shipped /\ file = n + 1 /\ edited = {}
          /\ ledger' = {<<f, FALSE>> : f \in 1..(n + 1)}
          /\ edited' \subseteq 1..(n + 1) /\ M!Halfway(n + 1)'
      BY <2>12, <3>1
    <3>3. ASSUME pc' = "next"
          PROVE  M!Passing(n + 1)' /\ edited' = {}
      <4>1. ~boot
        BY <3>1, <3>3
      <4>2. applied = ledger
        BY <2>1, <3>1, <4>1 DEF M!Follows, M!Applying
      <4>3. file' \in 1..(n + 2) /\ applied' = ledger' /\ boot' = FALSE
        BY <2>0, <2>2, <3>1, <3>2, <4>1, <4>2
      <4>4. n + 2 = (n + 1) + 1
        BY <2>2
      <4> QED
        BY <3>1, <3>2, <4>3, <4>4 DEF M!Passing
    <3>4. M!Follows(n + 1)'
      BY <3>1, <3>2, <3>3 DEF M!Follows
    <3> QED
      BY <2>0, <2>4, <3>1, <3>2, <3>4
  <2>14. CASE M!RunFails
    <3>1. pc' = "idle" /\ UNCHANGED <<shipped, edited, boot>>
      BY <2>14 DEF M!RunFails
    <3>2. CASE UNCHANGED M!dbVars
      <4>1. M!Halfway(n)'
        BY <2>3, <3>1, <3>2 DEF M!dbVars, M!Halfway
      <4>2. M!Follows(n)'
        BY <2>3, <3>1, <3>2, <4>1 DEF M!dbVars, M!Follows
      <4> QED
        BY <2>0, <2>1, <2>4, <3>1, <3>2, <4>2 DEF M!dbVars
    <3>3. CASE /\ pc = "execute" /\ UNCHANGED ledger
               /\ schema' = M!Defined(Release[file][statement][1],
                                      Release[file][statement][2])
      <4>1. schema' \in [M!Objects -> Nat] /\ M!Halfway(n)'
        BY <2>10, <3>1, <3>3
      <4>2. M!Follows(n)'
        BY <2>3, <3>1, <3>3, <4>1 DEF M!Follows
      <4> QED
        BY <2>0, <2>1, <2>4, <3>1, <4>1, <4>2
    <3>4. CASE /\ pc = "record" /\ UNCHANGED schema
               /\ ledger' = ledger \cup {<<file, M!checksum(file)>>}
      <4>1. /\ n + 1 \in 0..shipped
            /\ ledger' = {<<f, FALSE>> : f \in 1..(n + 1)}
            /\ edited' \subseteq 1..(n + 1) /\ M!Halfway(n + 1)'
        BY <2>12, <3>1, <3>4
      <4>2. M!Follows(n + 1)'
        BY <3>1, <4>1 DEF M!Follows
      <4> QED
        BY <2>0, <2>4, <3>1, <3>4, <4>1, <4>2
    <3> QED
      BY <2>14, <3>2, <3>3, <3>4 DEF M!RunFails
  <2>15. CASE UNCHANGED M!vars
    <3>1. M!Halfway(n)' /\ (M!Passing(n)' <=> M!Passing(n))
          /\ (M!Applying(n)' <=> M!Applying(n))
      BY <2>3, <2>15 DEF M!vars, M!dbVars, M!Halfway, M!Passing, M!Applying
    <3>2. M!Follows(n)'
      BY <2>1, <2>15, <3>1 DEF M!vars, M!dbVars, M!Follows
    <3> QED
      BY <2>0, <2>1, <2>4, <2>15, <3>2 DEF M!vars, M!dbVars
  <2> QED
    BY <2>5, <2>6, <2>7, <2>8, <2>9, <2>11, <2>13, <2>14, <2>15 DEF M!Next
<1> QED
  BY <1>1, <1>2, PTL

(* When a run completes (MigrationRunner.apply), every object is the one   *)
(* the release defines, every file is recorded and none was changed, for   *)
(* every release, however many runs before it died or lost an answer.      *)
THEOREM MigrationsComplete == Spec => []SchemaIsRelease
<1>1. M!SchemaFollows => M!SchemaIsRelease
  <2> SUFFICES ASSUME M!SchemaFollows, pc = "done"
               PROVE  /\ \A o \in M!Objects : schema[o] = M!DefinedBy(shipped, o)
                      /\ ledger = {<<f, FALSE>> : f \in 1..shipped}
                      /\ edited = {}
    BY DEF M!SchemaIsRelease
  <2>1. shipped \in Nat
    BY ReleaseShape DEF M!SchemaFollows
  <2>2. M!Follows(shipped)
    BY DEF M!SchemaFollows, M!Follows
  <2>3. \A o \in M!Objects : schema[o] = M!DefinedBy(shipped, o)
    BY <2>1, <2>2 DEF M!Follows, M!Halfway
  <2> QED
    BY <2>2, <2>3 DEF M!Follows
<1>2. Init => M!Init
  BY DEF Init
<1>3. [Next]_vars => [M!Next]_M!vars
  BY DEF Next, vars, schemaVars, AddRange, LoseCall, LoseRead, Migrate, M!vars, M!dbVars
<1>4. Spec => M!Init /\ [][M!Next]_M!vars
  BY <1>2, <1>3, PTL DEF Spec
<1> QED
  BY <1>1, <1>4, SchemaFollowsLedger, PTL DEF SchemaIsRelease

-----------------------------------------------------------------------------
(* The inputs of the pure functions.                                       *)

TypedInput ==
  /\ subject = "ranges" =>
       \E done \in SUBSET SmallRanges, r \in SmallRanges :
         IsFiniteSet(done) /\ input = [completed |-> done, required |-> r]
  /\ subject = "pool" => \E p, l : p \in Pools /\ input = [pool |-> p, lost |-> l]
  /\ subject = "atoken" => \E t, l : t \in ATokens /\ input = [token |-> t, lost |-> l]
  /\ subject = "vault" => input \in Vaults
  /\ subject = "universes" => input \in [Names -> Selectors]

(* An input stays one of its subject's, whatever ranges are added and      *)
(* whatever calls are lost.                                                *)
LEMMA InputsTyped == Spec => []TypedInput
<1>1. Init => TypedInput
  <2> SUFFICES ASSUME Init PROVE TypedInput
    OBVIOUS
  <2>1. CASE /\ subject = "ranges"
             /\ input \in {[completed |-> {}, required |-> r] : r \in SmallRanges}
    <3>1. PICK r \in SmallRanges : input = [completed |-> {}, required |-> r]
      BY <2>1
    <3>2. {} \in SUBSET SmallRanges /\ IsFiniteSet({})
      BY FS_EmptySet
    <3> QED
      BY <2>1, <3>1, <3>2 DEF TypedInput
  <2>2. CASE subject = "pool" /\ input \in {[pool |-> p, lost |-> {}] : p \in Pools}
    BY <2>2 DEF TypedInput
  <2>3. CASE subject = "atoken" /\ input \in {[token |-> t, lost |-> {}] : t \in ATokens}
    BY <2>3 DEF TypedInput
  <2>4. CASE subject = "vault" /\ input \in Vaults
    BY <2>4 DEF TypedInput
  <2>5. CASE subject = "universes" /\ input \in [Names -> Selectors]
    BY <2>5 DEF TypedInput
  <2>6. CASE subject = "schema"
    BY <2>6 DEF TypedInput
  <2> QED
    BY <2>1, <2>2, <2>3, <2>4, <2>5, <2>6 DEF Init
<1>2. TypedInput /\ [Next]_vars => TypedInput'
  <2> SUFFICES ASSUME TypedInput, [Next]_vars PROVE TypedInput'
    OBVIOUS
  <2>1. CASE AddRange
    <3>1. PICK r \in SmallRanges \ input.completed :
            input' = [input EXCEPT !.completed = @ \cup {r}]
      BY <2>1 DEF AddRange
    <3>2. PICK done \in SUBSET SmallRanges, q \in SmallRanges :
            IsFiniteSet(done) /\ input = [completed |-> done, required |-> q]
      BY <2>1 DEF AddRange, TypedInput
    <3>3. input' = [completed |-> done \cup {r}, required |-> q]
      BY <3>1, <3>2
    <3>4. done \cup {r} \in SUBSET SmallRanges /\ IsFiniteSet(done \cup {r})
      BY <3>2, FS_AddElement
    <3>5. subject' = "ranges"
      BY <2>1 DEF AddRange
    <3> QED
      BY <3>3, <3>4, <3>5 DEF TypedInput
  <2>2. CASE LoseCall
    <3>1. PICK l : input' = [input EXCEPT !.lost = l]
      BY <2>2 DEF LoseCall
    <3>2. PICK p, k : p \in Pools /\ input = [pool |-> p, lost |-> k]
      BY <2>2 DEF LoseCall, TypedInput
    <3>3. input' = [pool |-> p, lost |-> l] /\ subject' = "pool"
      BY <2>2, <3>1, <3>2 DEF LoseCall
    <3> QED
      BY <3>2, <3>3 DEF TypedInput
  <2>3. CASE LoseRead
    <3>1. PICK c : input' = [input EXCEPT !.lost = @ \cup {c}]
      BY <2>3 DEF LoseRead
    <3>2. PICK t, k : t \in ATokens /\ input = [token |-> t, lost |-> k]
      BY <2>3 DEF LoseRead, TypedInput
    <3>3. input' = [token |-> t, lost |-> k \cup {c}] /\ subject' = "atoken"
      BY <2>3, <3>1, <3>2 DEF LoseRead
    <3> QED
      BY <3>2, <3>3 DEF TypedInput
  <2>4. CASE UNCHANGED <<subject, input>>
    BY <2>4 DEF TypedInput
  <2> QED
    BY <2>1, <2>2, <2>3, <2>4 DEF Next, Migrate, vars
<1> QED
  BY <1>1, <1>2, PTL DEF Spec

(* SmallRanges are ranges. *)
LEMMA SmallAreRanges == SmallRanges \subseteq BlockRange
BY InputBounds DEF SmallRanges, BlockRange, start, end_exclusive

(* What advance rescans and relies on (merge_coverage, coverage_gaps,      *)
(* contiguous_frontier) is exact in every state of the run.                *)
THEOREM CoverageStaysExact == Spec => []CoverageExact
<1>1. TypedInput => CoverageExact
  <2> SUFFICES ASSUME TypedInput, subject = "ranges"
               PROVE  ExactCoverage(input.required, input.completed)
    BY DEF CoverageExact
  <2>1. PICK done \in SUBSET SmallRanges, r \in SmallRanges :
          IsFiniteSet(done) /\ input = [completed |-> done, required |-> r]
    BY DEF TypedInput
  <2>2. input.required = r /\ input.completed = done
    BY <2>1
  <2>3. done \in SUBSET BlockRange /\ r \in BlockRange
    BY SmallAreRanges
  <2> QED
    BY <2>1, <2>2, <2>3, CoverageIsExact
<1> QED
  BY <1>1, InputsTyped, PTL

(* The chunks and halves of a range (scan_filter, BlockRange.split) are    *)
(* parts of it in every state of the run.                                  *)
THEOREM PartsStayExact == Spec => []PartsExact
<1>1. TypedInput => PartsExact
  <2> SUFFICES ASSUME TypedInput, subject = "ranges", NEW n \in 1..MaxBlock
               PROVE  ExactParts(input.required, n)
    BY DEF PartsExact
  <2>1. input.required \in BlockRange
    BY SmallAreRanges DEF TypedInput
  <2>2. n \in Nat \ {0}
    BY InputBounds
  <2> QED
    BY <2>1, <2>2, PartsAreExact
<1> QED
  BY <1>1, InputsTyped, PTL

-----------------------------------------------------------------------------
(* Balances.                                                               *)

(* A sum of values of at most half of b is at most half of b per value. *)
LEMMA SumIsBounded ==
  ASSUME NEW S, IsFiniteSet(S), NEW f, NEW b \in Nat,
         \A x \in S : f[x] \in Int /\ -b <= 2 * f[x] /\ 2 * f[x] <= b
  PROVE  /\ -(b * Cardinality(S)) <= 2 * SumFunctionOnSet(f, S)
         /\ 2 * SumFunctionOnSet(f, S) <= b * Cardinality(S)
<1> DEFINE Bounded(T) == /\ -(b * Cardinality(T)) <= 2 * SumFunctionOnSet(f, T)
                         /\ 2 * SumFunctionOnSet(f, T) <= b * Cardinality(T)
           Good == {T \in SUBSET S : Bounded(T)}
<1>0. \A x \in S : f[x] \in Int
  OBVIOUS
<1>1. {} \in Good
  <2>1. SumFunctionOnSet(f, {}) = 0 /\ Cardinality({}) = 0
    BY <1>0, SumOfSet, FS_EmptySet
  <2> QED
    BY <2>1
<1>2. ASSUME NEW T \in Good, NEW x \in S \ T PROVE T \cup {x} \in Good
  <2>1. T \in SUBSET S /\ Bounded(T) /\ T \cup {x} \in SUBSET S
    OBVIOUS
  <2>2. SumFunctionOnSet(f, T \cup {x}) = f[x] + SumFunctionOnSet(f, T)
    BY <1>0, <2>1, SumGrows
  <2>3. PICK sum \in Int : sum = SumFunctionOnSet(f, T)
    BY <1>0, <2>1, SumOfSet
  <2>4. PICK n \in Nat : n = Cardinality(T) /\ Cardinality(T \cup {x}) = n + 1
    BY <2>1, FS_Subset, FS_AddElement, FS_CardinalityType
  <2>5. PICK y \in Int : y = f[x] /\ -b <= 2 * y /\ 2 * y <= b
    OBVIOUS
  <2>6. PICK p \in Int : p = b * n /\ b * (n + 1) = p + b
    OBVIOUS
  <2>7. -p <= 2 * sum /\ 2 * sum <= p
    BY <2>1, <2>3, <2>4, <2>6
  <2>8. -(p + b) <= 2 * (y + sum) /\ 2 * (y + sum) <= p + b
    BY <2>5, <2>7
  <2>9. Bounded(T \cup {x})
    BY <2>2, <2>3, <2>4, <2>5, <2>6, <2>8
  <2> HIDE DEF Bounded
  <2> QED
    BY <2>1, <2>9
<1> HIDE DEF Bounded
<1>3. S \in Good
  BY <1>1, <1>2, SetInduction
<1> QED
  BY <1>3 DEF Bounded

(* ray_mul_half_up rounds to the nearest integer, half up. *)
LEMMA RayRounds ==
  ASSUME NEW exact \in Nat
  PROVE  \E b \in Nat, x \in Nat, half \in Nat :
           /\ b = (exact + HALF_RAY) \div RAY
           /\ RAY = 2 * half /\ x = RAY * b
           /\ RAY * (b + 1) = x + RAY /\ RAY * (b - 1) = x - RAY
           /\ x <= exact + half /\ exact + half < x + RAY
<1>1. RAY \in Nat /\ RAY > 0 /\ RAY % 2 = 0
  BY UnitConstants
<1>2. PICK half \in Nat : half = HALF_RAY /\ RAY = 2 * half
  BY <1>1 DEF HALF_RAY
<1>3. PICK b \in Nat : b = (exact + half) \div RAY
  BY <1>1
<1>4. RAY * b <= exact + half /\ exact + half < RAY * b + RAY
  BY <1>1, <1>3
<1>5. PICK x \in Nat : x = RAY * b
  BY <1>1
<1>6. RAY * (b + 1) = x + RAY /\ RAY * (b - 1) = x - RAY
  BY <1>1, <1>5
<1> QED
  BY <1>2, <1>3, <1>4, <1>5, <1>6

(* A ledger of scaled balances, and a universe of accounts. *)
ScaledLedger(token) ==
  /\ IsFiniteSet(DOMAIN token.scaled)
  /\ \A h \in DOMAIN token.scaled : token.scaled[h] \in Nat
  /\ token.universe \subseteq DOMAIN token.scaled
  /\ token.index \in Nat

(* A reconstructed balance is off its exact value by at most half a unit. *)
LEMMA BalanceIsNearest ==
  ASSUME NEW token, ScaledLedger(token), NEW h \in token.universe, ~Overflows(token, h)
  PROVE  LET b == ray_mul_half_up(token.scaled[h], token.index)
             err == RAY * b - token.scaled[h] * token.index
         IN  /\ b \in Int /\ token.scaled[h] * token.index \in Int
             /\ -RAY <= 2 * err /\ 2 * err <= RAY
             /\ Nearest(token, h, b)
<1>0. RAY \in Nat /\ UINT256_MAX \in Nat
  BY UnitConstants
<1>1. PICK exact \in Nat : exact = token.scaled[h] * token.index
  <2>1. token.scaled[h] \in Nat /\ token.index \in Nat
    BY DEF ScaledLedger
  <2> QED
    BY <2>1
<1>2. PICK b \in Nat, x \in Nat, half \in Nat :
        /\ b = (exact + HALF_RAY) \div RAY
        /\ RAY = 2 * half /\ x = RAY * b
        /\ RAY * (b + 1) = x + RAY /\ RAY * (b - 1) = x - RAY
        /\ x <= exact + half /\ exact + half < x + RAY
  BY RayRounds
<1>3. b = ray_mul_half_up(token.scaled[h], token.index)
  BY <1>1, <1>2 DEF ray_mul_half_up
<1>4. b <= UINT256_MAX
  BY <1>0, <1>3 DEF Overflows
<1>5. ASSUME NEW other \in (b - 1)..(b + 1)
      PROVE  \/ Distance(RAY * b, exact) < Distance(RAY * other, exact)
             \/ Distance(RAY * b, exact) = Distance(RAY * other, exact) /\ other <= b
  <2>1. CASE other = b
    BY <2>1
  <2>2. CASE other = b + 1
    <3>1. RAY * b = x /\ RAY * other = x + RAY
      BY <1>2, <2>2
    <3>2. Distance(x, exact) < Distance(x + RAY, exact)
      BY <1>0, <1>2 DEF Distance
    <3> QED
      BY <3>1, <3>2
  <2>3. CASE other = b - 1
    <3>1. RAY * b = x /\ RAY * other = x - RAY
      BY <1>2, <2>3
    <3>2. Distance(x, exact) < Distance(x - RAY, exact)
          \/ Distance(x, exact) = Distance(x - RAY, exact)
      BY <1>0, <1>2 DEF Distance
    <3>3. other <= b
      BY <2>3
    <3> QED
      BY <3>1, <3>2, <3>3
  <2> QED
    BY <2>1, <2>2, <2>3
<1>6. Nearest(token, h, b)
  BY <1>1, <1>4, <1>5 DEF Nearest
<1>7. -RAY <= 2 * (RAY * b - exact) /\ 2 * (RAY * b - exact) <= RAY
  <2>1. -RAY <= 2 * (x - exact) /\ 2 * (x - exact) <= RAY
    BY <1>0, <1>2
  <2> QED
    BY <1>2, <2>1
<1> QED
  BY <1>1, <1>3, <1>6, <1>7

(* What a reading makes of the universe when nothing went wrong. *)
LEMMA CompleteReading ==
  ASSUME NEW token, NEW lost, Complete(token, lost)
  PROVE  /\ Reconstructed(token, lost) = token.universe
         /\ scaled_values(token, lost) = token.universe
         /\ \A h \in token.universe : ~Overflows(token, h)
         /\ DOMAIN atoken_balances(token, lost) = token.universe
         /\ \A h \in token.universe :
              atoken_balances(token, lost)[h] = ray_mul_half_up(token.scaled[h], token.index)
<1>1. Reconstructed(token, lost) = token.universe
  BY DEF Complete
<1>2. scaled_values(token, lost) \subseteq token.universe
  BY DEF scaled_values
<1>3. \A h \in Reconstructed(token, lost) :
        h \in scaled_values(token, lost) /\ ~Overflows(token, h)
  BY DEF Reconstructed
<1> QED
  BY <1>1, <1>2, <1>3 DEF atoken_balances

(* The sum over the universe is the supply exactly when no holder is       *)
(* missing from it.                                                        *)
LEMMA SupplyOfUniverse ==
  ASSUME NEW token, ScaledLedger(token)
  PROVE  SumFunctionOnSet(token.scaled, token.universe) = scaledTotalSupply(token)
           <=> Holders(token) \subseteq token.universe
<1> DEFINE all == DOMAIN token.scaled
           rest == all \ token.universe
           f == token.scaled
<1>1. IsFiniteSet(all) /\ token.universe \in SUBSET all /\ rest \in SUBSET all
      /\ \A h \in all : f[h] \in Nat
  BY DEF ScaledLedger
<1>2. scaledTotalSupply(token) = SumFunctionOnSet(f, all)
  BY DEF scaledTotalSupply, SumFunction
<1>3. \A h \in all : f[h] \in Int
  BY <1>1
<1>4. SumFunctionOnSet(f, token.universe) \in Int /\ SumFunctionOnSet(f, rest) \in Int
  <2> HIDE DEF all, rest, f
  <2> QED
    BY <1>1, <1>3, SumOfSet
<1>5. SumFunctionOnSet(f, all) = SumFunctionOnSet(f, token.universe) + SumFunctionOnSet(f, rest)
  <2>1. \A A \in SUBSET all :
          SumFunctionOnSet(f, all) = SumFunctionOnSet(f, A) + SumFunctionOnSet(f, all \ A)
    <3> HIDE DEF all, f
    <3> QED
      BY <1>1, <1>3, SumSplits
  <2> QED
    BY <1>1, <2>1
<1>6. IsFiniteSet(rest)
  BY <1>1, FS_Subset
<1>7. SumFunctionOnSet(f, rest) = 0 <=> \A h \in rest : f[h] = 0
  <2> HIDE DEF all, rest, f
  <2>1. \A h \in rest : f[h] \in Nat
    BY <1>1
  <2>2. ASSUME SumFunctionOnSet(f, rest) = 0, NEW h \in rest PROVE f[h] = 0
    <3>1. f[h] <= SumFunctionOnSet(f, rest)
      BY <1>6, <2>1, SumOfNaturals
    <3> QED
      BY <2>1, <2>2, <3>1
  <2>3. ASSUME \A h \in rest : f[h] = 0 PROVE SumFunctionOnSet(f, rest) = 0
    <3>1. \A h \in rest : f[h] \in Int /\ -0 <= 2 * f[h] /\ 2 * f[h] <= 0
      BY <2>3
    <3>2. PICK n \in Nat : n = Cardinality(rest)
      BY <1>6, FS_CardinalityType
    <3>3. -(0 * n) <= 2 * SumFunctionOnSet(f, rest) /\ 2 * SumFunctionOnSet(f, rest) <= 0 * n
      BY <1>6, <3>1, <3>2, SumIsBounded
    <3> QED
      BY <1>4, <3>3
  <2> QED
    BY <2>2, <2>3
<1>8. Holders(token) \subseteq token.universe <=> \A h \in rest : f[h] = 0
  <2>1. Holders(token) = {h \in all : f[h] > 0}
    BY DEF Holders
  <2> HIDE DEF all, f
  <2>2. \A h \in all : f[h] > 0 <=> f[h] # 0
    BY <1>1
  <2> QED
    BY <1>1, <2>1, <2>2
<1> HIDE DEF all, rest, f
<1> QED
  BY <1>2, <1>4, <1>5, <1>7, <1>8 DEF f

(* The rounding of a verified reading (ray_mul_half_up) adds up to at most *)
(* half a unit per account.                                                *)
LEMMA RoundingIsBounded ==
  ASSUME NEW token, ScaledLedger(token), NEW balances, DOMAIN balances = token.universe,
         \A h \in token.universe :
           /\ ~Overflows(token, h)
           /\ balances[h] = ray_mul_half_up(token.scaled[h], token.index)
  PROVE  2 * Distance(RAY * SumFunction(balances),
                      SumFunctionOnSet(token.scaled, token.universe) * token.index)
           <= RAY * Cardinality(token.universe)
<1> DEFINE U == token.universe
           s == token.scaled
           index == token.index
<1>0. RAY \in Nat
  BY UnitConstants
<1>1. /\ IsFiniteSet(U) /\ \A h \in U : s[h] \in Int
      /\ index \in Nat /\ -index \in Int
  <2>1. U \in SUBSET DOMAIN s /\ IsFiniteSet(DOMAIN s) /\ \A h \in DOMAIN s : s[h] \in Nat
    BY DEF ScaledLedger
  <2>2. IsFiniteSet(U)
    BY <2>1, FS_Subset
  <2> QED
    BY <2>1, <2>2 DEF ScaledLedger
<1>2. \A h \in U : /\ balances[h] \in Int
                   /\ s[h] * index \in Int
                   /\ -RAY <= 2 * (RAY * balances[h] - s[h] * index)
                   /\ 2 * (RAY * balances[h] - s[h] * index) <= RAY
  BY BalanceIsNearest
<1> HIDE DEF U, s, index
<1>3. PICK nil : nil = [h \in U |-> 0]
  OBVIOUS
<1>4. PICK ray : ray = [h \in U |-> RAY * balances[h]]
  OBVIOUS
<1>5. PICK err : err = [h \in U |-> RAY * balances[h] - s[h] * index]
  OBVIOUS
<1>6. PICK total \in Int : total = SumFunctionOnSet(balances, U)
  <2>1. \A h \in U : balances[h] \in Int
    BY <1>2
  <2> QED
    BY <1>1, <2>1, SumOfSet
<1>7. PICK supply \in Int : supply = SumFunctionOnSet(s, U)
  BY <1>1, SumOfSet
<1>8. SumFunctionOnSet(nil, U) = 0
  <2>1. \A h \in U : nil[h] \in Int /\ -0 <= 2 * nil[h] /\ 2 * nil[h] <= 0
    BY <1>3
  <2>2. PICK n \in Nat : n = Cardinality(U)
    BY <1>1, FS_CardinalityType
  <2>3. -(0 * n) <= 2 * SumFunctionOnSet(nil, U) /\ 2 * SumFunctionOnSet(nil, U) <= 0 * n
    BY <1>1, <2>1, <2>2, SumIsBounded
  <2>4. \A h \in U : nil[h] \in Int
    BY <1>3
  <2>5. SumFunctionOnSet(nil, U) \in Int
    BY <1>1, <2>4, SumOfSet
  <2> QED
    BY <2>3, <2>5
<1>9. SumFunctionOnSet(ray, U) = RAY * total
  <2>1. \A h \in U : nil[h] \in Int /\ balances[h] \in Int
                     /\ ray[h] = nil[h] + RAY * balances[h]
    BY <1>0, <1>2, <1>3, <1>4
  <2>2. SumFunctionOnSet(ray, U)
          = SumFunctionOnSet(nil, U) + RAY * SumFunctionOnSet(balances, U)
    BY <1>0, <1>1, <2>1, SumIsLinear
  <2> QED
    BY <1>0, <1>6, <1>8, <2>2
<1>10. SumFunctionOnSet(err, U) = RAY * total + (-index) * supply
  <2>1. ASSUME NEW h \in U
        PROVE  ray[h] \in Int /\ s[h] \in Int /\ err[h] = ray[h] + (-index) * s[h]
    <3>1. PICK y \in Int : y = s[h]
      BY <1>1
    <3>2. PICK z \in Int : z = balances[h]
      BY <1>2
    <3>3. RAY * z - y * index = RAY * z + (-index) * y /\ RAY * z \in Int
      BY <1>0, <1>1
    <3> QED
      BY <1>4, <1>5, <3>1, <3>2, <3>3
  <2>2. SumFunctionOnSet(err, U) = SumFunctionOnSet(ray, U) + (-index) * SumFunctionOnSet(s, U)
    BY <1>1, <2>1, SumIsLinear
  <2> QED
    BY <1>7, <1>9, <2>2
<1>11. PICK n \in Nat : n = Cardinality(U)
  BY <1>1, FS_CardinalityType
<1>12. /\ -(RAY * n) <= 2 * (RAY * total + (-index) * supply)
       /\ 2 * (RAY * total + (-index) * supply) <= RAY * n
  <2>1. ASSUME NEW h \in U
        PROVE  err[h] \in Int /\ -RAY <= 2 * err[h] /\ 2 * err[h] <= RAY
    <3>1. PICK y \in Int : y = s[h] * index
      BY <1>2
    <3>2. PICK z \in Int : z = balances[h]
      BY <1>2
    <3>3. err[h] = RAY * z - y /\ RAY * z \in Int
      BY <1>0, <1>5, <3>1, <3>2
    <3>4. -RAY <= 2 * (RAY * z - y) /\ 2 * (RAY * z - y) <= RAY
      BY <1>2, <3>1, <3>2
    <3> QED
      BY <3>3, <3>4
  <2> QED
    BY <1>0, <1>1, <1>10, <1>11, <2>1, SumIsBounded
<1>13. PICK p \in Int : p = RAY * total
  BY <1>0
<1>14. PICK q \in Int : q = supply * index /\ (-index) * supply = -q
  BY <1>1
<1>15. PICK bound \in Int : bound = RAY * n
  BY <1>0
<1>16. 2 * Distance(p, q) <= bound
  <2>1. -bound <= 2 * (p + -q) /\ 2 * (p + -q) <= bound
    BY <1>12, <1>13, <1>14, <1>15
  <2> QED
    BY <2>1 DEF Distance
<1>17. SumFunction(balances) = total
  BY <1>6 DEF SumFunction, U
<1> QED
  BY <1>7, <1>11, <1>13, <1>14, <1>15, <1>16, <1>17 DEF U, s, index

(* What the aToken collector reports as verified (ATokenCollector) is      *)
(* exact, for every ledger, index and universe, and whatever calls were    *)
(* lost; and a complete reading of a complete universe is verified unless  *)
(* a balance overflows.                                                    *)
THEOREM BalancesAreExact ==
  ASSUME NEW token, ScaledLedger(token), NEW lost
  PROVE  ExactBalances(token, lost)
<1> DEFINE balances == atoken_balances(token, lost)
<1>1. ASSUME atoken_verified(token, lost)
      PROVE  /\ DOMAIN balances = token.universe
             /\ \A h \in token.universe : Nearest(token, h, balances[h])
             /\ token.mode = "scaled_full_supply" =>
                  /\ Holders(token) \subseteq token.universe
                  /\ 2 * Distance(RAY * SumFunction(balances),
                                  scaledTotalSupply(token) * token.index)
                       <= RAY * Cardinality(token.universe)
  <2>1. Complete(token, lost)
    BY <1>1 DEF atoken_verified
  <2>2. /\ scaled_values(token, lost) = token.universe
        /\ \A h \in token.universe : ~Overflows(token, h)
        /\ DOMAIN balances = token.universe
        /\ \A h \in token.universe :
             balances[h] = ray_mul_half_up(token.scaled[h], token.index)
    BY <2>1, CompleteReading
  <2> HIDE DEF balances
  <2>3. \A h \in token.universe : Nearest(token, h, balances[h])
    BY <2>2, BalanceIsNearest
  <2>4. 2 * Distance(RAY * SumFunction(balances),
                     SumFunctionOnSet(token.scaled, token.universe) * token.index)
          <= RAY * Cardinality(token.universe)
    BY <2>2, RoundingIsBounded
  <2>5. ASSUME token.mode = "scaled_full_supply"
        PROVE  SumFunctionOnSet(token.scaled, token.universe) = scaledTotalSupply(token)
    BY <1>1, <2>2, <2>5 DEF atoken_verified
  <2>6. token.mode = "scaled_full_supply" => Holders(token) \subseteq token.universe
    BY <2>5, SupplyOfUniverse
  <2> QED
    BY <2>2, <2>3, <2>4, <2>5, <2>6
<1>2. ASSUME Holders(token) \subseteq token.universe,
             \A h \in token.universe : ~Overflows(token, h)
      PROVE  atoken_verified(token, {})
  <2>1. scaled_values(token, {}) = token.universe
    BY DEF scaled_values
  <2>2. Reconstructed(token, {}) = token.universe
    BY <1>2, <2>1 DEF Reconstructed
  <2>3. atoken_errors(token, {}) = {}
    BY <2>1, <2>2 DEF atoken_errors
  <2>4. SumFunctionOnSet(token.scaled, token.universe) = scaledTotalSupply(token)
    BY <1>2, SupplyOfUniverse
  <2> QED
    BY <2>1, <2>2, <2>3, <2>4 DEF atoken_verified, Complete
<1> HIDE DEF balances
<1> QED
  BY <1>1, <1>2 DEF ExactBalances, balances

(* The reserves of a vault (BalancerPoolCollector) are those of the one    *)
(* pair it lists for each configured asset, for every list it may return.  *)
THEOREM ReservesAreExact ==
  ASSUME NEW vault, NEW Assets, NEW Amounts, vault.pairs \in Seq(Assets \X Amounts)
  PROVE  ExactReserves(vault)
<1> SUFFICES ASSUME pool_verified(vault), NEW a \in vault.assets
             PROVE  \E i \in DOMAIN vault.pairs :
                      /\ vault.pairs[i] = <<a, vault_balances(vault)[a]>>
                      /\ \A j \in DOMAIN vault.pairs : vault.pairs[j][1] = a => j = i
  BY DEF ExactReserves
<1>1. PICK n \in Nat : n = Len(vault.pairs) /\ DOMAIN vault.pairs = 1..n
  BY LenProperties
<1>2. \A i \in 1..n : vault.pairs[i] = <<vault.pairs[i][1], vault.pairs[i][2]>>
  <2>1. \A i \in 1..n : vault.pairs[i] \in Assets \X Amounts
    BY <1>1, ElementOfSeq
  <2> QED
    BY <2>1
<1>3. ~vault_errors(vault)
  BY DEF pool_verified
<1>4. Cardinality(Listed(vault)) = n /\ vault.assets \subseteq Listed(vault)
  BY <1>1, <1>3 DEF vault_errors
<1>5. PICK asset : asset = [i \in 1..n |-> vault.pairs[i][1]]
  OBVIOUS
<1>6. asset \in Surjection(1..n, Listed(vault))
  BY <1>1, <1>5 DEF Surjection, Listed
<1>7. IsFiniteSet(1..n) /\ Cardinality(1..n) = n
  BY FS_Interval
<1>8. asset \in Injection(1..n, Listed(vault))
  BY <1>4, <1>6, <1>7, FS_Surjection
<1>9. \A i, j \in 1..n : asset[i] = asset[j] => i = j
  BY <1>8 DEF Injection, IsInjective
<1>10. PICK i \in 1..n : vault.pairs[i][1] = a
  BY <1>1, <1>4 DEF Listed
<1>11. \A j \in 1..n : vault.pairs[j][1] = a => j = i
  BY <1>5, <1>9, <1>10
<1>12. {j \in DOMAIN vault.pairs : vault.pairs[j][1] = a} = {i}
  BY <1>1, <1>10, <1>11
<1>13. Max({i}) = i
  BY DEF Max
<1>14. a \in Listed(vault) /\ returned(vault)[a] = vault.pairs[i][2]
  BY <1>4, <1>12, <1>13 DEF returned
<1>15. vault_balances(vault)[a] = vault.pairs[i][2]
  BY <1>3, <1>14 DEF vault_balances
<1> QED
  BY <1>1, <1>2, <1>10, <1>11, <1>15

(* What the collectors report is exact in every state of the run           *)
(* (ATokenCollector, BalancerPoolCollector).                               *)
THEOREM BalancesStayExact == Spec => []BalancesExact
<1>1. TypedInput => BalancesExact
  <2>1. ASSUME TypedInput, subject = "atoken" PROVE ExactBalances(input.token, input.lost)
    <3>1. PICK t, l : t \in ATokens /\ input = [token |-> t, lost |-> l]
      BY <2>1 DEF TypedInput
    <3>2. /\ t.scaled \in [{"a", "b"} -> 0..4] /\ t.index \in 0..7
          /\ t.universe \in {{"a"}, {"a", "b"}}
      BY <3>1 DEF ATokens
    <3>3. IsFiniteSet({"a", "b"})
      <4>1. IsFiniteSet({"a"}) /\ {"a", "b"} = {"a"} \cup {"b"}
        BY FS_Singleton
      <4> QED
        BY <4>1, FS_AddElement
    <3>4. ScaledLedger(t)
      <4>1. DOMAIN t.scaled = {"a", "b"} /\ \A h \in {"a", "b"} : t.scaled[h] \in 0..4
        BY <3>2
      <4> QED
        BY <3>2, <3>3, <4>1 DEF ScaledLedger
    <3>5. ExactBalances(t, l)
      BY <3>4, BalancesAreExact
    <3> QED
      BY <3>1, <3>5
  <2>2. ASSUME TypedInput, subject = "vault" PROVE ExactReserves(input)
    <3>1. input \in Vaults
      BY <2>2 DEF TypedInput
    <3>2. input.pairs \in UNION {[1..n -> {"x", "y"} \X (0..2)] : n \in 0..2}
      BY <3>1 DEF Vaults
    <3>3. PICK n \in 0..2 : input.pairs \in [1..n -> {"x", "y"} \X (0..2)]
      BY <3>2
    <3>4. input.pairs \in Seq({"x", "y"} \X (0..2))
      BY <3>3, SeqDef
    <3> QED
      BY <3>4, ReservesAreExact
  <2> QED
    BY <2>1, <2>2 DEF BalancesExact
<1> QED
  BY <1>1, InputsTyped, PTL

-----------------------------------------------------------------------------
(* Liquidity.                                                              *)

(* The floor division of Python and of the bitmap's shifts. *)
LEMMA FloorDivision ==
  ASSUME NEW a \in Int, NEW d \in Nat \ {0}
  PROVE  \E q \in Int, r \in Int :
           /\ q = a \div d /\ r = a % d
           /\ 0 <= r /\ r < d /\ q * d + r = a
<1>1. PICK q \in Int : q = a \div d
  OBVIOUS
<1>2. PICK r \in Int : r = a % d
  OBVIOUS
<1>3. 0 <= r /\ r < d
  BY <1>2
<1>4. q * d + r = a
  BY <1>1, <1>2
<1> QED
  BY <1>1, <1>2, <1>3, <1>4

(* It keeps the order. *)
LEMMA DivisionIsMonotone ==
  ASSUME NEW a \in Int, NEW b \in Int, NEW d \in Nat \ {0}, a <= b
  PROVE  a \div d <= b \div d
<1>1. PICK p \in Int : p = a \div d /\ p * d <= a /\ a < p * d + d
  OBVIOUS
<1>2. PICK q \in Int : q = b \div d /\ q * d <= b /\ b < q * d + d
  OBVIOUS
<1>3. ASSUME p >= q + 1 PROVE FALSE
  <2>1. p * d >= (q + 1) * d
    BY <1>3
  <2>2. (q + 1) * d = q * d + d
    OBVIOUS
  <2> QED
    BY <1>1, <1>2, <2>1, <2>2
<1> QED
  BY <1>1, <1>2, <1>3

(* What the collector may meet: positions between ticks of the pool's      *)
(* spacing, which the contract enforces.                                   *)
PoolShape(pool) ==
  /\ IsFiniteSet(pool.positions)
  /\ pool.spacing \in Nat \ {0} /\ pool.tick \in Int
  /\ \A p \in pool.positions :
       /\ p[1] \in MIN_TICK..MAX_TICK /\ p[2] \in MIN_TICK..MAX_TICK
       /\ p[1] < p[2] /\ p[3] \in Nat
       /\ p[1] % pool.spacing = 0 /\ p[2] % pool.spacing = 0

(* An initialized tick is the one its word and bit stand for, and its word *)
(* is among those that are read.                                           *)
LEMMA TickOfBit ==
  ASSUME NEW pool, PoolShape(pool), NEW t \in initialized(pool)
  PROVE  /\ t \in MIN_TICK..MAX_TICK
         /\ tick_at(pool, Slot(pool, t) \div WORD, Slot(pool, t) % WORD) = t
         /\ Slot(pool, t) \div WORD \in bitmap_calls(pool)
<1>1. /\ MIN_TICK \in Int /\ MAX_TICK \in Int /\ WORD \in Nat \ {0}
  BY PoolConstants
<1>2. pool.spacing \in Nat \ {0}
  BY DEF PoolShape
<1>3. PICK p \in pool.positions : t = p[1] \/ t = p[2]
  BY DEF initialized
<1>4. t \in MIN_TICK..MAX_TICK /\ t % pool.spacing = 0
  BY <1>3 DEF PoolShape
<1>5. t \in Int /\ MIN_TICK <= t /\ t <= MAX_TICK
  BY <1>1, <1>4
<1>6. ASSUME NEW slot \in Int
      PROVE  \E w \in Int, bit \in Int :
               w = slot \div WORD /\ bit = slot % WORD /\ w * WORD + bit = slot
  BY <1>1, FloorDivision
<1>7. CASE compressed(pool)
  <2>1. PICK low \in Int : low = MIN_TICK \div pool.spacing
    BY <1>1, <1>2, FloorDivision
  <2>2. PICK high \in Int : high = MAX_TICK \div pool.spacing
    BY <1>1, <1>2, FloorDivision
  <2>3. PICK slot \in Int, r \in Int :
          slot = t \div pool.spacing /\ r = t % pool.spacing /\ slot * pool.spacing + r = t
    BY <1>2, <1>5, FloorDivision
  <2>4. slot * pool.spacing = t
    <3>1. PICK y \in Int : y = slot * pool.spacing
      BY <1>2
    <3>2. y + r = t /\ r = 0
      BY <1>4, <2>3, <3>1
    <3> QED
      BY <1>5, <3>1, <3>2
  <2>5. low <= slot /\ slot <= high
    BY <1>1, <1>2, <1>5, <2>1, <2>2, <2>3, DivisionIsMonotone
  <2>6. low \div WORD <= slot \div WORD /\ slot \div WORD <= high \div WORD
    BY <1>1, <2>5, DivisionIsMonotone
  <2>7. PICK w \in Int, bit \in Int :
          w = slot \div WORD /\ bit = slot % WORD /\ w * WORD + bit = slot
    BY <1>6
  <2>8. Slot(pool, t) = slot
    BY <1>7, <2>3 DEF Slot
  <2>9. tick_at(pool, w, bit) = (w * WORD + bit) * pool.spacing
    BY <1>7, Zenon DEF tick_at
  <2>10. tick_at(pool, w, bit) = t
    BY <2>4, <2>7, <2>9
  <2>11. bitmap_calls(pool) = (low \div WORD)..(high \div WORD)
    BY <1>7, <2>1, <2>2 DEF bitmap_calls
  <2>12. PICK first \in Int, last \in Int : first = low \div WORD /\ last = high \div WORD
    BY <1>6
  <2>13. w \in first..last
    BY <2>6, <2>7, <2>12
  <2> QED
    BY <1>4, <2>7, <2>8, <2>10, <2>11, <2>12, <2>13
<1>8. CASE ~compressed(pool)
  <2>1. Slot(pool, t) = t
    BY <1>8 DEF Slot
  <2>2. PICK w \in Int, bit \in Int :
          w = t \div WORD /\ bit = t % WORD /\ w * WORD + bit = t
    BY <1>5, <1>6
  <2>3. tick_at(pool, w, bit) = (w * WORD + bit) * 1
    BY <1>8, Zenon DEF tick_at
  <2>4. tick_at(pool, w, bit) = t
    BY <1>5, <2>2, <2>3
  <2>5. MIN_TICK \div WORD <= t \div WORD /\ t \div WORD <= MAX_TICK \div WORD
    BY <1>1, <1>5, DivisionIsMonotone
  <2>6. PICK first \in Int, last \in Int :
          first = MIN_TICK \div WORD /\ last = MAX_TICK \div WORD
    BY <1>1, <1>6
  <2>7. w \in first..last
    BY <2>2, <2>5, <2>6
  <2>8. bitmap_calls(pool) = first..last
    BY <1>8, <2>6 DEF bitmap_calls
  <2> QED
    BY <1>4, <2>1, <2>2, <2>4, <2>7, <2>8
<1> QED
  BY <1>7, <1>8

(* When no word is lost, the ticks that are found are the initialized ones *)
(* (discover_ticks).                                                       *)
LEMMA DiscoveredAreInitialized ==
  ASSUME NEW pool, PoolShape(pool), NEW lost,
         \A w \in bitmap_calls(pool) : <<"bm", w>> \notin lost
  PROVE  discover_ticks(pool, lost) = initialized(pool)
<1> DEFINE found == UNION {{tick_at(pool, w, bit) : bit \in bitmap(pool, w)} :
                             w \in bitmap_calls(pool)}
<1>1. {w \in bitmap_calls(pool) : <<"bm", w>> \notin lost} = bitmap_calls(pool)
  OBVIOUS
<1>2. discover_ticks(pool, lost) = found \cap (MIN_TICK..MAX_TICK)
  BY <1>1 DEF discover_ticks
<1>3. ASSUME NEW t \in initialized(pool) PROVE t \in found /\ t \in MIN_TICK..MAX_TICK
  <2>1. /\ t \in MIN_TICK..MAX_TICK
        /\ tick_at(pool, Slot(pool, t) \div WORD, Slot(pool, t) % WORD) = t
        /\ Slot(pool, t) \div WORD \in bitmap_calls(pool)
    BY TickOfBit
  <2>2. Slot(pool, t) % WORD \in bitmap(pool, Slot(pool, t) \div WORD)
    BY DEF bitmap
  <2> QED
    BY <2>1, <2>2
<1>4. ASSUME NEW t \in found PROVE t \in initialized(pool)
  <2>1. PICK w \in bitmap_calls(pool) : \E bit \in bitmap(pool, w) : t = tick_at(pool, w, bit)
    OBVIOUS
  <2>2. PICK bit \in bitmap(pool, w) : t = tick_at(pool, w, bit)
    BY <2>1
  <2>3. PICK u \in initialized(pool) : Slot(pool, u) \div WORD = w /\ bit = Slot(pool, u) % WORD
    BY <2>2 DEF bitmap
  <2>4. tick_at(pool, w, bit) = u
    BY <2>3, TickOfBit
  <2> QED
    BY <2>2, <2>4
<1> HIDE DEF found
<1> QED
  BY <1>2, <1>3, <1>4

(* The amounts of some of the positions, as a sum over one function. *)
LEMMA AmountOfPart ==
  ASSUME NEW pool, PoolShape(pool), NEW amount, amount = [p \in pool.positions |-> p[3]]
  PROVE  /\ \A p \in pool.positions : amount[p] \in Nat /\ amount[p] \in Int
         /\ \A Q \in SUBSET pool.positions :
              Amount(Q) = SumFunctionOnSet(amount, Q) /\ Amount(Q) \in Nat
<1>1. \A p \in pool.positions : amount[p] = p[3] /\ p[3] \in Nat
  BY DEF PoolShape
<1>2. ASSUME NEW Q \in SUBSET pool.positions
      PROVE  Amount(Q) = SumFunctionOnSet(amount, Q) /\ Amount(Q) \in Nat
  <2>1. IsFiniteSet(Q)
    BY FS_Subset DEF PoolShape
  <2>2. PICK g : g = [p \in Q |-> p[3]]
    OBVIOUS
  <2>3. Amount(Q) = SumFunctionOnSet(g, Q)
    BY <2>2 DEF Amount, SumFunction
  <2>4. \A p \in Q : amount[p] \in Int /\ g[p] = amount[p]
    BY <1>1, <2>2
  <2>5. SumFunctionOnSet(g, Q) = SumFunctionOnSet(amount, Q)
    BY <2>1, <2>4, SumCongruence
  <2>6. \A p \in Q : amount[p] \in Nat
    BY <1>1
  <2>7. SumFunctionOnSet(amount, Q) \in Nat
    BY <2>1, <2>6, SumOfNaturals
  <2> QED
    BY <2>3, <2>5, <2>7
<1> QED
  BY <1>1, <1>2

(* The net liquidities of a set of ticks: what begins at one of them less  *)
(* what ends at one.                                                       *)
LEMMA NetOfTicks ==
  ASSUME NEW pool, PoolShape(pool), NEW U, IsFiniteSet(U)
  PROVE  NetSum(pool, U) = Amount({p \in pool.positions : p[1] \in U})
                           - Amount({p \in pool.positions : p[2] \in U})
<1>0. PICK S : S = pool.positions /\ IsFiniteSet(S)
  BY DEF PoolShape
<1>1. PICK amount : amount = [p \in S |-> p[3]]
  OBVIOUS
<1>2. \A Q \in SUBSET S : Amount(Q) = SumFunctionOnSet(amount, Q) /\ Amount(Q) \in Nat
  BY <1>0, <1>1, AmountOfPart
<1>3. \A p \in S : amount[p] \in Int
  BY <1>0, <1>1, AmountOfPart
<1>4. PICK lower : lower = [p \in S |-> p[1]]
  OBVIOUS
<1>5. PICK upper : upper = [p \in S |-> p[2]]
  OBVIOUS
<1>6. PICK begin : begin = [t \in U |-> Amount({p \in S : p[1] = t})]
  OBVIOUS
<1>7. PICK end : end = [t \in U |-> Amount({p \in S : p[2] = t})]
  OBVIOUS
<1>8. PICK net : net = [t \in U |-> liquidity_net(pool, t)]
  OBVIOUS
<1>9. \A t \in U : /\ begin[t] \in Int /\ end[t] \in Int
                   /\ net[t] = begin[t] + (-1) * end[t]
  <2> SUFFICES ASSUME NEW t \in U
               PROVE  /\ begin[t] \in Int /\ end[t] \in Int
                      /\ net[t] = begin[t] + (-1) * end[t]
    OBVIOUS
  <2>1. /\ {p \in S : p[1] = t} \in SUBSET S /\ {p \in S : p[2] = t} \in SUBSET S
    OBVIOUS
  <2>2. PICK x : x = Amount({p \in S : p[1] = t})
    OBVIOUS
  <2>3. PICK y : y = Amount({p \in S : p[2] = t})
    OBVIOUS
  <2>4. x \in Int
    BY <1>2, <2>1, <2>2
  <2>5. y \in Int
    BY <1>2, <2>1, <2>3
  <2>6. begin[t] = x /\ end[t] = y
    BY <1>6, <1>7, <2>2, <2>3
  <2>7. net[t] = x - y
    BY <1>0, <1>8, <2>2, <2>3 DEF liquidity_net
  <2> QED
    BY <2>6, <2>7, <2>4, <2>5
<1>10. SumFunctionOnSet(begin, U) = Amount({p \in S : p[1] \in U})
  <2>1. ASSUME NEW t \in U
        PROVE  begin[t] = SumFunctionOnSet(amount, Keyed(S, lower, {t}))
    <3>1. Keyed(S, lower, {t}) = {p \in S : p[1] = t}
      BY <1>4 DEF Keyed
    <3>2. {p \in S : p[1] = t} \in SUBSET S
      OBVIOUS
    <3> QED
      BY <1>2, <1>6, <3>1, <3>2
  <2>2. SumFunctionOnSet(begin, U) = SumFunctionOnSet(amount, Keyed(S, lower, U))
    <3>1. Grouped(begin, amount, S, lower, U)
      BY <2>1 DEF Grouped
    <3> QED
      BY <1>0, <1>3, <3>1, SumByKey
  <2>3. Keyed(S, lower, U) = {p \in S : p[1] \in U}
    BY <1>4 DEF Keyed
  <2>4. {p \in S : p[1] \in U} \in SUBSET S
    OBVIOUS
  <2> QED
    BY <1>2, <2>2, <2>3, <2>4
<1>11. SumFunctionOnSet(end, U) = Amount({p \in S : p[2] \in U})
  <2>1. ASSUME NEW t \in U
        PROVE  end[t] = SumFunctionOnSet(amount, Keyed(S, upper, {t}))
    <3>1. Keyed(S, upper, {t}) = {p \in S : p[2] = t}
      BY <1>5 DEF Keyed
    <3>2. {p \in S : p[2] = t} \in SUBSET S
      OBVIOUS
    <3> QED
      BY <1>2, <1>7, <3>1, <3>2
  <2>2. SumFunctionOnSet(end, U) = SumFunctionOnSet(amount, Keyed(S, upper, U))
    <3>1. Grouped(end, amount, S, upper, U)
      BY <2>1 DEF Grouped
    <3> QED
      BY <1>0, <1>3, <3>1, SumByKey
  <2>3. Keyed(S, upper, U) = {p \in S : p[2] \in U}
    BY <1>5 DEF Keyed
  <2>4. {p \in S : p[2] \in U} \in SUBSET S
    OBVIOUS
  <2> QED
    BY <1>2, <2>2, <2>3, <2>4
<1>12. SumFunctionOnSet(net, U) = SumFunctionOnSet(begin, U) + (-1) * SumFunctionOnSet(end, U)
  BY <1>9, SumIsLinear
<1>13. NetSum(pool, U) = SumFunctionOnSet(net, U)
  BY <1>8 DEF NetSum, SumFunction
<1>14. /\ {p \in S : p[1] \in U} \in SUBSET S /\ {p \in S : p[2] \in U} \in SUBSET S
  OBVIOUS
<1>15. PICK x : x = Amount({p \in S : p[1] \in U})
  OBVIOUS
<1>16. PICK y : y = Amount({p \in S : p[2] \in U})
  OBVIOUS
<1>17. x \in Int
  BY <1>2, <1>14, <1>15
<1>18. y \in Int
  BY <1>2, <1>14, <1>16
<1>19. NetSum(pool, U) = x + (-1) * y
  BY <1>10, <1>11, <1>12, <1>13, <1>15, <1>16
<1>20. x + (-1) * y = x - y
  BY <1>17, <1>18
<1> QED
  BY <1>0, <1>15, <1>16, <1>19, <1>20

(* The ticks up to t add up to the liquidity in range at t, and all of     *)
(* them to nothing (_reconcile).                                           *)
LEMMA NetIsLiquidity ==
  ASSUME NEW pool, PoolShape(pool)
  PROVE  /\ IsFiniteSet(initialized(pool)) /\ initialized(pool) \subseteq Int
         /\ NetSum(pool, initialized(pool)) = 0
         /\ \A t \in Int :
              /\ LiquidityAt(pool, t) \in Nat
              /\ NetSum(pool, {u \in initialized(pool) : u <= t}) = LiquidityAt(pool, t)
<1> DEFINE S == pool.positions
           I == initialized(pool)
<1>0. IsFiniteSet(S)
  BY DEF PoolShape
<1>1. PICK amount : amount = [p \in S |-> p[3]]
  OBVIOUS
<1>2. /\ \A p \in S : amount[p] \in Int
      /\ \A Q \in SUBSET S : Amount(Q) = SumFunctionOnSet(amount, Q) /\ Amount(Q) \in Nat
  BY <1>1, AmountOfPart
<1>3. \A p \in S : p[1] \in I /\ p[2] \in I /\ p[1] \in Int /\ p[2] \in Int /\ p[1] < p[2]
  BY PoolConstants DEF PoolShape, initialized
<1>4. I \subseteq Int
  BY <1>3 DEF initialized
<1>5. IsFiniteSet(I)
  <2> DEFINE Ends == {{p[1], p[2]} : p \in S}
  <2>1. PICK ends : ends = [p \in S |-> {p[1], p[2]}]
    OBVIOUS
  <2>2. ends \in Surjection(S, Ends)
    BY <2>1 DEF Surjection
  <2>3. IsFiniteSet(Ends)
    BY <1>0, <2>2, FS_Surjection
  <2>4. ASSUME NEW E \in Ends PROVE IsFiniteSet(E)
    <3>1. PICK p \in S : E = {p[1]} \cup {p[2]}
      OBVIOUS
    <3> QED
      BY <3>1, FS_Singleton, FS_AddElement
  <2>5. IsFiniteSet(UNION Ends)
    BY <2>3, <2>4, FS_UNION
  <2> QED
    BY <2>5 DEF initialized
<1>6. NetSum(pool, I) = 0
  <2>1. NetSum(pool, I) = Amount({p \in S : p[1] \in I}) - Amount({p \in S : p[2] \in I})
    BY <1>5, NetOfTicks
  <2>2. {p \in S : p[1] \in I} = S /\ {p \in S : p[2] \in I} = S
    BY <1>3
  <2>3. Amount(S) \in Nat
    BY <1>2
  <2> QED
    BY <2>1, <2>2, <2>3
<1>7. ASSUME NEW t \in Int
      PROVE  /\ LiquidityAt(pool, t) \in Nat
             /\ NetSum(pool, {u \in I : u <= t}) = LiquidityAt(pool, t)
  <2> DEFINE U == {u \in I : u <= t}
             Begun == {p \in S : p[1] <= t}
             Ended == {p \in S : p[2] <= t}
             Open == {p \in S : p[1] <= t /\ t < p[2]}
  <2>1. IsFiniteSet(U)
    BY <1>5, FS_Subset
  <2>2. {p \in S : p[1] \in U} = Begun /\ {p \in S : p[2] \in U} = Ended
    BY <1>3
  <2>3. NetSum(pool, U) = Amount(Begun) - Amount(Ended)
    BY <2>1, <2>2, NetOfTicks
  <2>4. /\ Begun \in SUBSET S /\ Ended \in SUBSET S /\ Open \in SUBSET S
        /\ Ended \in SUBSET Begun /\ Begun \ Ended = Open
    BY <1>3
  <2>5. IsFiniteSet(Begun) /\ \A p \in Begun : amount[p] \in Int
    BY <1>0, <1>2, <2>4, FS_Subset
  <2>6. SumFunctionOnSet(amount, Begun)
          = SumFunctionOnSet(amount, Ended) + SumFunctionOnSet(amount, Begun \ Ended)
    <3> HIDE DEF Begun, Ended, Open
    <3> QED
      BY <2>4, <2>5, SumSplits
  <2>7. LiquidityAt(pool, t) = Amount(Open)
    BY DEF LiquidityAt
  <2> HIDE DEF S, Begun, Ended, Open, U
  <2>8. PICK x \in Nat : x = Amount(Begun) /\ x = SumFunctionOnSet(amount, Begun)
    BY <1>2, <2>4
  <2>9. PICK y \in Nat : y = Amount(Ended) /\ y = SumFunctionOnSet(amount, Ended)
    BY <1>2, <2>4
  <2>10. PICK z \in Nat : z = Amount(Open) /\ z = SumFunctionOnSet(amount, Open)
    BY <1>2, <2>4
  <2>11. x = y + z
    BY <2>4, <2>6, <2>8, <2>9, <2>10
  <2>12. NetSum(pool, U) = z
    BY <2>3, <2>8, <2>9, <2>11
  <2> QED
    BY <2>7, <2>10, <2>12 DEF U
<1> QED
  BY <1>4, <1>5, <1>6, <1>7

(* The least of some ticks is one of them. *)
LEMMA LeastTick ==
  ASSUME NEW T \in SUBSET Int, T # {}, NEW m \in Int, \A u \in T : m <= u
  PROVE  Min(T) \in T /\ \A u \in T : Min(T) <= u
<1> DEFINE Above == {u - m : u \in T}
<1>0. \A u \in T : u \in Int /\ m <= u /\ u - m \in Nat
  OBVIOUS
<1>1. Above \in SUBSET Nat /\ Above # {}
  BY <1>0
<1>2. PICK d \in Above : \A k \in Above : d <= k
  BY <1>1, LeastBlock
<1>3. PICK x \in T : d = x - m
  BY <1>2
<1>4. \A u \in T : x <= u
  <2> SUFFICES ASSUME NEW u \in T PROVE x <= u
    OBVIOUS
  <2>1. d <= u - m
    BY <1>2
  <2> QED
    BY <1>0, <1>3, <2>1
<1> QED
  BY <1>4 DEF Min

(* Ticks that are all up to t have a greatest. *)
LEMMA GreatestTick ==
  ASSUME NEW T \in SUBSET Int, T # {}, NEW t \in Int, \A u \in T : u <= t
  PROVE  \E a \in T : \A u \in T : u <= a
<1> DEFINE Below == {t - u : u \in T}
<1>0. \A u \in T : u \in Int /\ u <= t /\ t - u \in Nat
  OBVIOUS
<1>1. Below \in SUBSET Nat /\ Below # {}
  BY <1>0
<1>2. PICK d \in Below : \A k \in Below : d <= k
  BY <1>1, LeastBlock
<1>3. PICK a \in T : d = t - a
  BY <1>2
<1>4. \A u \in T : u <= a
  <2> SUFFICES ASSUME NEW u \in T PROVE u <= a
    OBVIOUS
  <2>1. d <= t - u
    BY <1>2
  <2> QED
    BY <1>0, <1>3, <2>1
<1> QED
  BY <1>4

(* The amounts of no position and of one. *)
LEMMA AmountOfOne ==
  /\ Amount({}) = 0
  /\ \A s : s[3] \in Int => Amount({s}) = s[3]
<1>1. Amount({}) = 0
  <2>1. PICK g : g = [p \in {} |-> p[3]]
    OBVIOUS
  <2>2. Amount({}) = SumFunctionOnSet(g, {})
    BY <2>1 DEF Amount, SumFunction
  <2>3. IsFiniteSet({}) /\ \A p \in {} : g[p] \in Int
    BY FS_EmptySet
  <2> QED
    BY <2>2, <2>3, SumOfSet
<1>2. ASSUME NEW s, s[3] \in Int PROVE Amount({s}) = s[3]
  <2>1. PICK g : g = [p \in {s} |-> p[3]]
    OBVIOUS
  <2>2. Amount({s}) = SumFunctionOnSet(g, {s})
    BY <2>1 DEF Amount, SumFunction
  <2>3. IsFiniteSet({s})
    BY FS_Singleton
  <2>4. g[s] = s[3] /\ \A p \in {s} : g[p] \in Int
    BY <1>2, <2>1
  <2>5. SumFunctionOnSet(g, {s}) = g[s] + SumFunctionOnSet(g, {s} \ {s})
    <3>1. s \in {s} /\ {s} \in SUBSET {s}
      OBVIOUS
    <3> QED
      BY <2>3, <2>4, <3>1, SumOfSet
  <2>6. SumFunctionOnSet(g, {}) = 0
    BY <2>3, <2>4, SumOfSet
  <2>7. {s} \ {s} = {}
    OBVIOUS
  <2>8. PICK n \in Int : n = s[3]
    BY <1>2
  <2>9. SumFunctionOnSet(g, {s}) = n + 0
    BY <2>4, <2>5, <2>6, <2>7, <2>8
  <2> QED
    BY <2>2, <2>8, <2>9
<1> QED
  BY <1>1, <1>2

(* The segments of the initialized ticks: one from each but the last, up   *)
(* to the next, with the liquidity in range at its lower end (_segments).  *)
LEMMA SegmentOfTick ==
  ASSUME NEW pool, PoolShape(pool), NEW s \in segments(pool, initialized(pool))
  PROVE  \E a \in initialized(pool) : \E b \in initialized(pool) :
           /\ a \in Int /\ b \in Int /\ a < b
           /\ \A u \in initialized(pool) : u <= a \/ b <= u
           /\ s = <<a, b, LiquidityAt(pool, a)>>
<1> DEFINE I == initialized(pool)
<1>0. I \subseteq Int /\ MIN_TICK \in Int
  BY NetIsLiquidity, PoolConstants
<1>1. PICK a \in I : /\ \E u \in I : u > a
                     /\ s = <<a, Min({u \in I : u > a}), NetSum(pool, {u \in I : u <= a})>>
  BY DEF segments
<1>2. PICK Higher \in SUBSET Int : Higher = {u \in I : u > a}
  BY <1>0
<1>3. Higher # {} /\ \A u \in Higher : a <= u
  BY <1>0, <1>1, <1>2
<1>4. a \in Int
  BY <1>0
<1>5. Min(Higher) \in Higher /\ \A u \in Higher : Min(Higher) <= u
  BY <1>3, <1>4, LeastTick
<1>6. PICK b \in I : b = Min(Higher) /\ b \in Int /\ a < b
  BY <1>0, <1>2, <1>5
<1>7. \A u \in I : u <= a \/ b <= u
  BY <1>0, <1>2, <1>4, <1>5, <1>6
<1>8. NetSum(pool, {u \in I : u <= a}) = LiquidityAt(pool, a)
  BY <1>4, NetIsLiquidity
<1> QED
  BY <1>1, <1>2, <1>4, <1>6, <1>7, <1>8

(* The profile of the initialized ticks is that of the positions: no       *)
(* segment is negative, at most one holds a given tick, and none holds a   *)
(* tick below the first one or from the last one on, where no position is  *)
(* in range either.                                                        *)
LEMMA ProfileOfTicks ==
  ASSUME NEW pool, PoolShape(pool)
  PROVE  /\ ~ProfileRaises(pool, initialized(pool))
         /\ \A t \in Int : ProfileAt(pool, initialized(pool), t) = LiquidityAt(pool, t)
<1> DEFINE I == initialized(pool)
<1>0. I \subseteq Int
  BY NetIsLiquidity
<1>1. \A t \in Int : /\ LiquidityAt(pool, t) \in Nat
                     /\ NetSum(pool, {u \in I : u <= t}) = LiquidityAt(pool, t)
  BY NetIsLiquidity
<1>2. ASSUME NEW s \in segments(pool, I)
      PROVE  \E a \in I : \E b \in I :
               /\ a \in Int /\ b \in Int /\ a < b
               /\ \A u \in I : u <= a \/ b <= u
               /\ s = <<a, b, LiquidityAt(pool, a)>>
  BY SegmentOfTick
<1>3. ~ProfileRaises(pool, I)
  <2> SUFFICES ASSUME NEW s \in segments(pool, I), s[3] < 0 PROVE FALSE
    BY DEF ProfileRaises
  <2>1. PICK a \in I : \E b \in I : a \in Int /\ s = <<a, b, LiquidityAt(pool, a)>>
    BY <1>2
  <2>2. s[3] = LiquidityAt(pool, a)
    BY <2>1
  <2>3. PICK n \in Nat : n = LiquidityAt(pool, a)
    BY <1>1, <2>1
  <2> QED
    BY <2>2, <2>3
<1>4. ASSUME NEW t \in Int PROVE ProfileAt(pool, I, t) = LiquidityAt(pool, t)
  <2> DEFINE Hit == {s \in segments(pool, I) : s[1] <= t /\ t < s[2]}
             Open == {p \in pool.positions : p[1] <= t /\ t < p[2]}
  <2>1. ProfileAt(pool, I, t) = Amount(Hit) /\ LiquidityAt(pool, t) = Amount(Open)
    BY DEF ProfileAt, LiquidityAt
  <2>2. \A p \in pool.positions : p[1] \in I /\ p[2] \in I
    BY DEF initialized
  <2>3. ASSUME NEW s \in Hit
        PROVE  \E a \in I : \E b \in I :
                 /\ a \in Int /\ b \in Int /\ a <= t /\ t < b
                 /\ \A u \in I : u <= a \/ b <= u
                 /\ s = <<a, b, LiquidityAt(pool, a)>>
    <3>1. s \in segments(pool, I) /\ s[1] <= t /\ t < s[2]
      OBVIOUS
    <3>2. PICK a \in I, b \in I : /\ a \in Int /\ b \in Int
                                  /\ \A u \in I : u <= a \/ b <= u
                                  /\ s = <<a, b, LiquidityAt(pool, a)>>
      BY <1>2, <3>1
    <3>3. s[1] = a /\ s[2] = b
      BY <3>2
    <3> QED
      BY <3>1, <3>2, <3>3
  <2>4. CASE ~(\E u \in I : u <= t) \/ ~(\E u \in I : t < u)
    <3>1. Hit = {}
      BY <2>3, <2>4
    <3>2. Open = {}
      BY <2>2, <2>4
    <3> HIDE DEF Hit, Open
    <3> QED
      BY <2>1, <3>1, <3>2
  <2>5. CASE (\E u \in I : u <= t) /\ (\E u \in I : t < u)
    <3>1. PICK Lower \in SUBSET Int : Lower = {u \in I : u <= t}
      BY <1>0
    <3>2. Lower # {} /\ \A u \in Lower : u <= t
      BY <2>5, <3>1
    <3>3. PICK a \in Lower : \A u \in Lower : u <= a
      BY <3>2, GreatestTick
    <3>4. a \in I /\ a \in Int /\ a <= t
      BY <1>0, <3>1, <3>3
    <3>5. {u \in I : u <= a} = Lower
      BY <1>0, <3>1, <3>3, <3>4
    <3>6. LiquidityAt(pool, a) = LiquidityAt(pool, t)
      BY <1>1, <3>1, <3>4, <3>5
    <3> DEFINE s == <<a, Min({u \in I : u > a}), NetSum(pool, {u \in I : u <= a})>>
    <3>7. s \in segments(pool, I)
      <4>1. \E u \in I : u > a
        BY <1>0, <2>5, <3>4
      <4> QED
        BY <3>4, <4>1 DEF segments
    <3>8. PICK c \in I, b \in I : /\ c \in Int /\ b \in Int /\ c < b
                                  /\ \A u \in I : u <= c \/ b <= u
                                  /\ s = <<c, b, LiquidityAt(pool, c)>>
      BY <1>2, <3>7
    <3>9. s[1] = a /\ c = a /\ s[2] = b /\ s[3] = LiquidityAt(pool, t)
      BY <3>6, <3>8
    <3>10. t < b
      BY <3>1, <3>3, <3>4, <3>8, <3>9
    <3>11. s \in Hit
      BY <3>4, <3>7, <3>9, <3>10
    <3>12. ASSUME NEW r \in Hit PROVE r = s
      <4>1. PICK x \in I, y \in I : /\ x \in Int /\ y \in Int /\ x <= t /\ t < y
                                    /\ \A u \in I : u <= x \/ y <= u
                                    /\ r = <<x, y, LiquidityAt(pool, x)>>
        BY <2>3
      <4>2. x = a
        BY <3>1, <3>3, <3>4, <4>1
      <4>3. y = b
        BY <3>4, <3>8, <3>9, <3>10, <4>1, <4>2
      <4> QED
        BY <3>8, <3>9, <4>1, <4>2, <4>3
    <3>13. Hit = {s}
      BY <3>11, <3>12
    <3>14. s[3] \in Int
      BY <1>1, <3>9
    <3> HIDE DEF Hit, s
    <3>15. Amount({s}) = s[3]
      BY <3>14, AmountOfOne
    <3> QED
      BY <2>1, <3>9, <3>13, <3>15
  <2> QED
    BY <2>4, <2>5
<1> QED
  BY <1>3, <1>4

(* When every call of a round returned its data the initialized ticks are  *)
(* what is read; and a round none of whose errors is terminal lost no call *)
(* (errors, materialize_ticks).                                            *)
LEMMA ReadWhole ==
  ASSUME NEW pool, PoolShape(pool), NEW lost, ~BelowThreshold(pool),
         errors(pool, lost) = {}
  PROVE  materialize_ticks(pool, lost) = initialized(pool)
<1>1. lost \cap (       {<<"bm", w>> : w \in bitmap_calls(pool)}
                 \cup {<<"tk", t>> : t \in discover_ticks(pool, lost)}) = {}
  BY DEF errors
<1>2. \A w \in bitmap_calls(pool) : <<"bm", w>> \notin lost
  BY <1>1
<1>3. discover_ticks(pool, lost) = initialized(pool)
  BY <1>2, DiscoveredAreInitialized
<1>4. \A t \in discover_ticks(pool, lost) : <<"tk", t>> \notin lost
  BY <1>1
<1>5. materialize_ticks(pool, lost) = discover_ticks(pool, lost)
  BY <1>4 DEF materialize_ticks
<1> QED
  BY <1>3, <1>5

(* ClLiquidityCollector and ClProfileModule, for every pool, every set of  *)
(* lost calls and every word size: a pool that is read whole passes        *)
(* _reconcile and is published, and a pool that is published with its      *)
(* ticks gets a profile, which gives at every tick the liquidity in range. *)
THEOREM ProfileIsExact ==
  ASSUME NEW pool, PoolShape(pool), NEW lost
  PROVE  ExactProfile(pool, lost)
<1>1. ASSUME ~BelowThreshold(pool), errors(pool, lost) = {}
      PROVE  materialize_ticks(pool, lost) = initialized(pool)
  BY <1>1, ReadWhole
<1>2. ASSUME lost = {} PROVE Publishable(pool, {})
  <2>1. errors(pool, {}) = {} /\ ~StateRaises(pool, {})
    BY DEF errors, StateRaises
  <2>2. ASSUME ~BelowThreshold(pool)
        PROVE  reconcile(pool, materialize_ticks(pool, {}))
    <3>1. materialize_ticks(pool, {}) = initialized(pool)
      BY <2>1, <2>2, ReadWhole
    <3>2. pool.tick \in Int
      BY DEF PoolShape
    <3>3. reconcile(pool, initialized(pool))
      BY <3>2, NetIsLiquidity DEF reconcile
    <3> QED
      BY <3>1, <3>3
  <2> QED
    BY <2>1, <2>2 DEF Publishable
<1>3. ASSUME Publishable(pool, lost), ~BelowThreshold(pool)
      PROVE  /\ ~ProfileRaises(pool, materialize_ticks(pool, lost))
             /\ \A t \in MIN_TICK..MAX_TICK :
                  ProfileAt(pool, materialize_ticks(pool, lost), t) = LiquidityAt(pool, t)
  <2>1. materialize_ticks(pool, lost) = initialized(pool)
    BY <1>1, <1>3 DEF Publishable
  <2>2. \A t \in MIN_TICK..MAX_TICK : t \in Int
    BY PoolConstants
  <2> QED
    BY <2>1, <2>2, ProfileOfTicks
<1> QED
  BY <1>2, <1>3 DEF ExactProfile

(* What a reader of pool_liquidity_profile finds is the liquidity of the   *)
(* pool in every state of the run, unless the pool is not published.       *)
THEOREM ProfileStaysExact == Spec => []ProfileExact
<1>1. TypedInput => ProfileExact
  <2> SUFFICES ASSUME TypedInput, subject = "pool"
               PROVE  ExactProfile(input.pool, input.lost)
    BY DEF ProfileExact
  <2>1. PICK pool, l : pool \in Pools /\ input = [pool |-> pool, lost |-> l]
    BY DEF TypedInput
  <2>2. PICK class \in {"uniswap_v3", "algebra"}, s \in Spacings : pool \in PoolsOf(class, s)
    BY <2>1 DEF Pools
  <2>3. PICK p \in Positions(s), q \in Positions(s), t \in Ticks :
          pool = [class |-> class, spacing |-> s, positions |-> {p, q}, tick |-> t]
    BY <2>2 DEF PoolsOf
  <2>4. pool.positions = {p, q} /\ pool.spacing = s /\ pool.tick = t
    BY <2>3
  <2>5. IsFiniteSet({p, q})
    <3>1. IsFiniteSet({p}) /\ {p, q} = {p} \cup {q}
      BY FS_Singleton
    <3> QED
      BY <3>1, FS_AddElement
  <2>6. s \in Nat \ {0}
    BY InputBounds
  <2>7. t \in Int
    BY PoolConstants DEF Ticks
  <2>8. ASSUME NEW r \in Positions(s)
        PROVE  /\ r[1] \in MIN_TICK..MAX_TICK /\ r[2] \in MIN_TICK..MAX_TICK
               /\ r[1] < r[2] /\ r[3] \in Nat
               /\ r[1] % s = 0 /\ r[2] % s = 0
    BY DEF Positions, Ticks
  <2>9. PoolShape(pool)
    BY <2>4, <2>5, <2>6, <2>7, <2>8 DEF PoolShape
  <2>10. ExactProfile(pool, l)
    BY <2>9, ProfileIsExact
  <2> QED
    BY <2>1, <2>10
<1> QED
  BY <1>1, InputsTyped, PTL

-----------------------------------------------------------------------------
(* Universes.                                                              *)

(* The results of the children of a selector, and the result of a selector *)
(* below the names of stack, where h gives those of the selectors below    *)
(* longer stacks.                                                          *)
Below(universes, h, stack, name) ==
  [c \in Children(universes, name) |->
     IF c \in DOMAIN universes THEN h[stack \cup {name}][c] ELSE ConfigError]
Step(universes, h, stack, name) ==
  IF name \in stack THEN ConfigError
  ELSE Resolved(universes, name, Below(universes, h, stack, name))
Recurses(universes, h) ==
  \A stack \in SUBSET DOMAIN universes : \A name \in DOMAIN universes :
    h[stack][name] = Step(universes, h, stack, name)

(* The names that are not on the stack: fewer of them below a name that is *)
(* not on it yet.                                                          *)
LEMMA StackGrows ==
  ASSUME NEW K, IsFiniteSet(K), NEW stack \in SUBSET K
  PROVE  /\ Cardinality(K \ stack) \in Nat
         /\ Cardinality(K \ stack) = 0 => stack = K
         /\ \A name \in K \ stack :
              /\ stack \cup {name} \in SUBSET K
              /\ Cardinality(K \ (stack \cup {name})) \in Nat
              /\ Cardinality(K \ (stack \cup {name})) = Cardinality(K \ stack) - 1
<1>1. IsFiniteSet(K \ stack) /\ Cardinality(K \ stack) \in Nat
  BY FS_Difference, FS_CardinalityType
<1>2. ASSUME Cardinality(K \ stack) = 0 PROVE stack = K
  <2>1. K \ stack = {}
    BY <1>1, <1>2, FS_EmptySet
  <2> QED
    BY <2>1
<1>3. ASSUME NEW name \in K \ stack
      PROVE  /\ stack \cup {name} \in SUBSET K
             /\ Cardinality(K \ (stack \cup {name})) \in Nat
             /\ Cardinality(K \ (stack \cup {name})) = Cardinality(K \ stack) - 1
  <2>1. K \ (stack \cup {name}) = (K \ stack) \ {name}
    OBVIOUS
  <2>2. /\ Cardinality((K \ stack) \ {name}) \in Nat
        /\ Cardinality((K \ stack) \ {name}) = Cardinality(K \ stack) - 1
    BY <1>1, SmallerByOne
  <2> QED
    BY <2>1, <2>2
<1> QED
  BY <1>1, <1>2, <1>3

(* The recursion of _resolve_map ends: its results exist, stack by stack   *)
(* from the longest one.                                                   *)
LEMMA ResolverExists ==
  ASSUME NEW universes, IsFiniteSet(DOMAIN universes)
  PROVE  \E h : Recurses(universes, h)
<1> DEFINE K == DOMAIN universes
           Agrees(h, k) ==
             \A s \in SUBSET K : \A n \in K :
               Cardinality(K \ s) <= k => h[s][n] = Step(universes, h, s, n)
           Solved(k) == \E h : Agrees(h, k)
           Missing == {k \in Nat : ~Solved(k)}
<1>1. ASSUME NEW s \in SUBSET K
      PROVE  /\ Cardinality(K \ s) \in Nat
             /\ Cardinality(K \ s) = 0 => s = K
             /\ \A n \in K \ s : /\ s \cup {n} \in SUBSET K
                                 /\ Cardinality(K \ (s \cup {n})) \in Nat
                                 /\ Cardinality(K \ (s \cup {n})) = Cardinality(K \ s) - 1
  BY <1>1, StackGrows
<1>2. Solved(0)
  <2>1. PICK h : h = [s \in SUBSET K |-> [n \in K |-> ConfigError]]
    OBVIOUS
  <2>2. ASSUME NEW s \in SUBSET K, NEW n \in K, Cardinality(K \ s) <= 0
        PROVE  h[s][n] = Step(universes, h, s, n)
    <3>1. s = K
      BY <1>1, <2>2
    <3>2. h[s][n] = ConfigError
      BY <2>1
    <3> QED
      BY <3>1, <3>2, Zenon DEF Step
  <2>3. Agrees(h, 0)
    BY <2>2
  <2> QED
    BY <2>3
<1>3. ASSUME NEW k \in Nat, Solved(k) PROVE Solved(k + 1)
  <2>1. PICK h : Agrees(h, k)
    BY <1>3
  <2>2. PICK g : g = [s \in SUBSET K |-> [n \in K |-> Step(universes, h, s, n)]]
    OBVIOUS
  <2>3. \A s \in SUBSET K : \A n \in K : g[s][n] = Step(universes, h, s, n)
    BY <2>2
  <2>4. ASSUME NEW s \in SUBSET K, NEW n \in K, Cardinality(K \ s) <= k + 1
        PROVE  Step(universes, g, s, n) = Step(universes, h, s, n)
    <3>1. CASE n \in s
      BY <3>1, Zenon DEF Step
    <3>2. CASE n \notin s
      <4>1. s \cup {n} \in SUBSET K /\ Cardinality(K \ (s \cup {n})) <= k
        BY <1>1, <2>4, <3>2
      <4>2. \A c \in K : g[s \cup {n}][c] = h[s \cup {n}][c]
        BY <2>1, <2>3, <4>1
      <4>3. Below(universes, g, s, n) = Below(universes, h, s, n)
        BY <4>2 DEF Below
      <4> QED
        BY <4>3, Zenon DEF Step
    <3> QED
      BY <3>1, <3>2
  <2>5. Agrees(g, k + 1)
    BY <2>3, <2>4, Zenon
  <2> QED
    BY <2>5
<1> HIDE DEF Solved
<1>4. Missing = {}
  <2> SUFFICES ASSUME Missing # {} PROVE FALSE
    OBVIOUS
  <2>1. PICK k \in Missing : \A j \in Missing : k <= j
    BY LeastBlock
  <2>2. k # 0
    BY <1>2, <2>1
  <2>3. k - 1 \in Nat /\ ~(k - 1 \in Missing) /\ (k - 1) + 1 = k
    BY <2>1, <2>2
  <2> QED
    BY <1>3, <2>1, <2>3
<1>5. Cardinality(K) \in Nat /\ Solved(Cardinality(K))
  BY <1>4, FS_CardinalityType
<1>6. PICK h : Agrees(h, Cardinality(K))
  BY <1>5 DEF Solved
<1>7. ASSUME NEW s \in SUBSET K PROVE Cardinality(K \ s) <= Cardinality(K)
  <2>1. K \ s \in SUBSET K
    OBVIOUS
  <2> QED
    BY <2>1, FS_Subset
<1>8. Recurses(universes, h)
  BY <1>6, <1>7, Zenon DEF Recurses
<1> QED
  BY <1>8

(* And resolve_map is one of them. *)
LEMMA ResolverRecurses ==
  ASSUME NEW universes, IsFiniteSet(DOMAIN universes)
  PROVE  Recurses(universes, resolve_map(universes))
<1> DEFINE K == DOMAIN universes
           Is(h) ==
             h = [stack \in SUBSET K |->
                    [name \in K |->
                       IF name \in stack THEN ConfigError
                       ELSE Resolved(universes, name,
                              [c \in Children(universes, name) |->
                                 IF c \in K THEN h[stack \cup {name}][c] ELSE ConfigError])]]
<1>1. PICK f : Recurses(universes, f)
  BY ResolverExists
<1>2. PICK g : g = [s \in SUBSET K |-> [n \in K |-> f[s][n]]]
  OBVIOUS
<1>3. ASSUME NEW s \in SUBSET K, NEW n \in K PROVE g[s][n] = Step(universes, g, s, n)
  <2>1. s \cup {n} \in SUBSET K
    OBVIOUS
  <2>2. \A c \in K : g[s \cup {n}][c] = f[s \cup {n}][c]
    BY <1>2, <2>1
  <2>3. Below(universes, g, s, n) = Below(universes, f, s, n)
    BY <2>2 DEF Below
  <2>4. g[s][n] = f[s][n]
    BY <1>2
  <2>5. f[s][n] = Step(universes, f, s, n)
    BY <1>1 DEF Recurses
  <2> QED
    BY <2>3, <2>4, <2>5, Zenon DEF Step
<1>4. Is(g)
  <2>1. PICK e : e = [s \in SUBSET K |-> [n \in K |-> Step(universes, g, s, n)]]
    OBVIOUS
  <2>2. ASSUME NEW s \in SUBSET K PROVE g[s] = e[s]
    BY <1>2, <1>3, <2>1
  <2>3. g = e
    BY <1>2, <2>1, <2>2
  <2> QED
    BY <2>1, <2>3, Zenon DEF Step, Below
<1>5. PICK h : h = CHOOSE i : Is(i)
  OBVIOUS
<1>6. resolve_map(universes) = h
  BY <1>5 DEF resolve_map
<1>7. Is(h)
  <2> HIDE DEF Is
  <2> QED
    BY <1>4, <1>5
<1>8. h = [s \in SUBSET K |-> [n \in K |-> Step(universes, h, s, n)]]
  BY <1>7, Zenon DEF Step, Below
<1>9. \A s \in SUBSET K : \A n \in K : h[s][n] = Step(universes, h, s, n)
  <2> HIDE DEF Is
  <2> QED
    BY <1>8
<1> QED
  BY <1>6, <1>9, Zenon DEF Recurses

(* The catalogs that load: finitely many selectors of the four kinds. *)
Catalog(universes) ==
  /\ IsFiniteSet(DOMAIN universes)
  /\ \A n \in DOMAIN universes :
       universes[n].kind \in {"full_holders", "explicit_list", "union", "intersect"}

At(universes, stack, name) == resolve_map(universes)[stack][name]
Fine(universes, stack, name) == ~At(universes, stack, name).raised

(* Induction along the recursion of _resolve_map, which goes from a name   *)
(* to its children with the name put on the stack.                         *)
LEMMA StackInduction ==
  ASSUME NEW K, IsFiniteSet(K), NEW Good \in SUBSET ((SUBSET K) \X K),
         \A s \in SUBSET K : \A n \in K :
           (n \notin s => \A c \in K : <<s \cup {n}, c>> \in Good) => <<s, n>> \in Good
  PROVE  \A s \in SUBSET K : \A n \in K : <<s, n>> \in Good
<1> DEFINE Bad == {s \in SUBSET K : \E n \in K : <<s, n>> \notin Good}
           Sizes == {Cardinality(K \ s) : s \in Bad}
<1> SUFFICES ASSUME Bad # {} PROVE FALSE
  OBVIOUS
<1>1. \A s \in SUBSET K : Cardinality(K \ s) \in Nat
  BY StackGrows
<1>2. Sizes \in SUBSET Nat /\ Sizes # {}
  <2>1. \A s \in Bad : Cardinality(K \ s) \in Nat
    BY <1>1
  <2> HIDE DEF Bad
  <2> QED
    BY <2>1
<1>3. PICK m \in Sizes : \A k \in Sizes : m <= k
  BY <1>2, LeastBlock
<1>4. PICK s \in Bad : m = Cardinality(K \ s)
  BY <1>3
<1>5. s \in SUBSET K /\ \E n \in K : <<s, n>> \notin Good
  BY <1>4
<1>6. PICK n \in K : <<s, n>> \notin Good
  BY <1>5
<1>7. n \notin s /\ \E c \in K : <<s \cup {n}, c>> \notin Good
  BY <1>5, <1>6
<1>8. /\ s \cup {n} \in SUBSET K /\ Cardinality(K \ s) \in Nat
      /\ Cardinality(K \ (s \cup {n})) \in Nat
      /\ Cardinality(K \ (s \cup {n})) = Cardinality(K \ s) - 1
  <2>1. n \in K \ s
    BY <1>7
  <2> QED
    BY <1>5, <2>1, StackGrows
<1>9. s \cup {n} \in Bad
  BY <1>7, <1>8
<1>10. m <= Cardinality(K \ (s \cup {n}))
  <2> HIDE DEF Bad
  <2> QED
    BY <1>3, <1>9
<1> QED
  BY <1>4, <1>8, <1>10

(* A combination of these children raises, and the addresses it has. *)
Raises(ch) == DOMAIN ch = {} \/ \E c \in DOMAIN ch : ch[c].raised
Joined(kind, ch) ==
  IF kind = "union" THEN UNION {DOMAIN ch[c].sources : c \in DOMAIN ch} ELSE Shared(ch)

(* The result of a selector, by its kind (_resolve_map). *)
LEMMA ResolvedByKind ==
  ASSUME NEW universes, NEW n, NEW ch
  PROVE  /\ universes[n].kind = "full_holders" =>
              Resolved(universes, n, ch) = Frozen(full_holders(n))
         /\ universes[n].kind = "explicit_list" =>
              Resolved(universes, n, ch) = Frozen(explicit_list(n, universes[n].members))
         /\ Combines(universes, n) /\ Raises(ch) =>
              Resolved(universes, n, ch) = ConfigError
         /\ Combines(universes, n) /\ ~Raises(ch) =>
              Resolved(universes, n, ch)
                = Frozen(Combined(ch, Joined(universes[n].kind, ch)))
<1>1. ASSUME universes[n].kind = "full_holders"
      PROVE  Resolved(universes, n, ch) = Frozen(full_holders(n))
  BY <1>1 DEF Resolved
<1>2. ASSUME universes[n].kind = "explicit_list"
      PROVE  Resolved(universes, n, ch) = Frozen(explicit_list(n, universes[n].members))
  BY <1>2 DEF Resolved
<1>3. ASSUME Combines(universes, n)
      PROVE  Resolved(universes, n, ch)
               = IF Raises(ch) THEN ConfigError
                 ELSE Frozen(Combined(ch, Joined(universes[n].kind, ch)))
  <2>1. universes[n].kind # "full_holders" /\ universes[n].kind # "explicit_list"
    BY <1>3 DEF Combines
  <2> QED
    BY <2>1 DEF Resolved, Raises, Joined
<1> QED
  BY <1>1, <1>2, <1>3, Zenon

(* Where a result that does not raise comes from, and what it takes for    *)
(* one not to raise.                                                       *)
LEMMA FineByChildren ==
  ASSUME NEW universes, Catalog(universes),
         NEW s \in SUBSET DOMAIN universes, NEW n \in DOMAIN universes
  PROVE  /\ At(universes, s, n) = Step(universes, resolve_map(universes), s, n)
         /\ Fine(universes, s, n) <=>
              /\ n \notin s
              /\ Combines(universes, n) =>
                   /\ Children(universes, n) # {}
                   /\ \A c \in Children(universes, n) :
                        c \in DOMAIN universes /\ Fine(universes, s \cup {n}, c)
<1> DEFINE h == resolve_map(universes)
           ch == Below(universes, h, s, n)
<1>1. At(universes, s, n) = Step(universes, h, s, n)
  BY ResolverRecurses DEF Recurses, At, Catalog
<1>2. CASE n \in s
  <2>1. At(universes, s, n) = ConfigError
    BY <1>1, <1>2, Zenon DEF Step
  <2>2. ConfigError.raised
    BY DEF ConfigError
  <2> QED
    BY <1>1, <1>2, <2>1, <2>2 DEF Fine
<1>3. CASE n \notin s
  <2>1. At(universes, s, n) = Resolved(universes, n, ch)
    BY <1>1, <1>3, Zenon DEF Step
  <2>2. \A f : ~Frozen(f).raised
    BY DEF Frozen
  <2>3. ConfigError.raised
    BY DEF ConfigError
  <2>4. CASE Combines(universes, n)
    <3>1. DOMAIN ch = Children(universes, n)
      BY DEF Below
    <3>2. ASSUME NEW c \in Children(universes, n)
          PROVE  ch[c].raised <=> ~(c \in DOMAIN universes /\ Fine(universes, s \cup {n}, c))
      <4>1. CASE c \in DOMAIN universes
        <5>1. ch[c] = At(universes, s \cup {n}, c)
          BY <4>1 DEF Below, At
        <5> QED
          BY <4>1, <5>1 DEF Fine
      <4>2. CASE c \notin DOMAIN universes
        <5>1. ch[c] = ConfigError
          BY <4>2 DEF Below
        <5> QED
          BY <2>3, <4>2, <5>1
      <4> QED
        BY <4>1, <4>2
    <3> HIDE DEF ch
    <3>3. At(universes, s, n).raised <=> Raises(ch)
      <4>1. ASSUME Raises(ch) PROVE At(universes, s, n).raised
        BY <2>1, <2>3, <2>4, <4>1, ResolvedByKind
      <4>2. ASSUME ~Raises(ch) PROVE ~At(universes, s, n).raised
        BY <2>1, <2>2, <2>4, <4>2, ResolvedByKind
      <4> QED
        BY <4>1, <4>2
    <3> QED
      BY <1>1, <1>3, <2>4, <3>1, <3>2, <3>3 DEF Fine, Raises
  <2>5. CASE ~Combines(universes, n)
    <3>1. universes[n].kind = "full_holders" \/ universes[n].kind = "explicit_list"
      BY <2>5 DEF Combines, Catalog
    <3>2. \E f : At(universes, s, n) = Frozen(f)
      BY <2>1, <3>1, ResolvedByKind, Zenon
    <3> QED
      BY <1>1, <1>3, <2>2, <2>5, <3>2 DEF Fine
  <2> QED
    BY <2>4, <2>5
<1> QED
  BY <1>2, <1>3

(* What a selector refers to: itself, the children of what it refers to,   *)
(* and nothing outside a closed set that it is in.                         *)
LEMMA ReferredIsClosed ==
  ASSUME NEW universes, NEW name \in NamesOf(universes)
  PROVE  /\ name \in Referred(universes, name)
         /\ \A m \in Referred(universes, name) \cap DOMAIN universes :
              Children(universes, m) \subseteq Referred(universes, name)
         /\ \A names \in SUBSET NamesOf(universes) :
              name \in names /\ Closed(universes, names) =>
                Referred(universes, name) \subseteq names
         /\ \A c \in Referred(universes, name) :
              c \in NamesOf(universes)
              /\ Referred(universes, c) \subseteq Referred(universes, name)
<1> DEFINE R == Referred(universes, name)
<1>1. name \in R
  BY DEF Referred
<1>2. ASSUME NEW m \in R \cap DOMAIN universes, NEW c \in Children(universes, m)
      PROVE  c \in R
  <2>1. c \in NamesOf(universes)
    BY <1>2 DEF NamesOf
  <2>2. ASSUME NEW names \in SUBSET NamesOf(universes), name \in names,
               Closed(universes, names)
        PROVE  c \in names
    <3>1. m \in names
      BY <2>2 DEF Referred
    <3> QED
      BY <2>2, <3>1 DEF Closed
  <2> QED
    BY <2>1, <2>2 DEF Referred
<1>3. ASSUME NEW names \in SUBSET NamesOf(universes), name \in names,
             Closed(universes, names)
      PROVE  R \subseteq names
  BY <1>3 DEF Referred
<1>4. R \in SUBSET NamesOf(universes) /\ Closed(universes, R)
  BY <1>2 DEF Referred, Closed
<1>5. ASSUME NEW c \in R PROVE c \in NamesOf(universes) /\ Referred(universes, c) \subseteq R
  <2> HIDE DEF R
  <2> QED
    BY <1>4 DEF Referred
<1> QED
  BY <1>1, <1>2, <1>3, <1>5

(* A result that does not raise is the same below any part of the stack:   *)
(* the stack only ever makes a selector raise (_resolve_map).              *)
LEMMA StackIsIrrelevant ==
  ASSUME NEW universes, Catalog(universes)
  PROVE  \A s \in SUBSET DOMAIN universes : \A n \in DOMAIN universes :
           Fine(universes, s, n) =>
             \A t \in SUBSET s : At(universes, t, n) = At(universes, s, n)
<1>0. PICK K : K = DOMAIN universes /\ IsFiniteSet(K)
  BY DEF Catalog
<1> DEFINE Same(s, n) == Fine(universes, s, n) =>
                           \A t \in SUBSET s : At(universes, t, n) = At(universes, s, n)
           Good == {g \in (SUBSET K) \X K : Same(g[1], g[2])}
<1>1. ASSUME NEW s \in SUBSET K, NEW n \in K PROVE <<s, n>> \in Good <=> Same(s, n)
  OBVIOUS
<1>2. ASSUME NEW s \in SUBSET K, NEW n \in K,
             n \notin s => \A c \in K : Same(s \cup {n}, c)
      PROVE  Same(s, n)
  <2> SUFFICES ASSUME Fine(universes, s, n), NEW t \in SUBSET s
               PROVE  At(universes, t, n) = At(universes, s, n)
    OBVIOUS
  <2>1. n \notin s /\ n \notin t /\ t \in SUBSET K
    BY <1>0, FineByChildren
  <2>2. ASSUME NEW c \in Children(universes, n)
        PROVE  /\ c \in K
               /\ At(universes, t \cup {n}, c) = At(universes, s \cup {n}, c)
    <3>1. Combines(universes, n)
      BY DEF Children, Combines
    <3>2. c \in K /\ Fine(universes, s \cup {n}, c)
      BY <1>0, <3>1, FineByChildren
    <3>3. t \cup {n} \in SUBSET (s \cup {n})
      OBVIOUS
    <3> QED
      BY <1>2, <2>1, <3>2, <3>3
  <2> DEFINE h == resolve_map(universes)
  <2>3. Below(universes, h, t, n) = Below(universes, h, s, n)
    BY <1>0, <2>2 DEF Below, At
  <2>4. /\ At(universes, t, n) = Step(universes, h, t, n)
        /\ At(universes, s, n) = Step(universes, h, s, n)
    BY <1>0, <2>1, FineByChildren
  <2> QED
    BY <2>1, <2>3, <2>4, Zenon DEF Step
<1> HIDE DEF Same
<1>3. \A s \in SUBSET K : \A n \in K :
        (n \notin s => \A c \in K : <<s \cup {n}, c>> \in Good) => <<s, n>> \in Good
  <2> TAKE s \in SUBSET K
  <2> TAKE n \in K
  <2>1. s \cup {n} \in SUBSET K
    OBVIOUS
  <2> HIDE DEF Good
  <2> QED
    BY <1>1, <1>2, <2>1
<1>4. Good \in SUBSET ((SUBSET K) \X K)
  OBVIOUS
<1>5. \A s \in SUBSET K : \A n \in K : <<s, n>> \in Good
  <2> HIDE DEF Good
  <2> QED
    BY <1>0, <1>3, <1>4, StackInduction
<1>6. \A s \in SUBSET K : \A n \in K : Same(s, n)
  <2> HIDE DEF Good
  <2> QED
    BY <1>1, <1>5
<1> QED
  BY <1>0, <1>6 DEF Same

(* A selector that does not raise refers to selectors of the catalog that  *)
(* do not raise, none of them on the stack.                                *)
LEMMA FineReaches ==
  ASSUME NEW universes, Catalog(universes), NEW s \in SUBSET DOMAIN universes,
         NEW n \in DOMAIN universes, Fine(universes, s, n)
  PROVE  \A m \in Referred(universes, n) :
           m \in DOMAIN universes /\ m \notin s /\ Fine(universes, {}, m)
<1> DEFINE K == DOMAIN universes
           T == {x \in K : \E t \in SUBSET K : s \subseteq t /\ Fine(universes, t, x)}
<1>1. n \in T /\ T \in SUBSET NamesOf(universes) /\ n \in NamesOf(universes)
  BY DEF NamesOf
<1>2. Closed(universes, T)
  <2> SUFFICES ASSUME NEW x \in T, NEW c \in Children(universes, x) PROVE c \in T
    BY DEF Closed
  <2>1. PICK t \in SUBSET K : s \subseteq t /\ Fine(universes, t, x)
    OBVIOUS
  <2>2. Combines(universes, x) /\ x \in K
    BY DEF Children, Combines
  <2>3. c \in K /\ Fine(universes, t \cup {x}, c)
    BY <2>1, <2>2, FineByChildren
  <2>4. t \cup {x} \in SUBSET K /\ s \subseteq t \cup {x}
    BY <2>1, <2>2
  <2> QED
    BY <2>3, <2>4
<1>3. Referred(universes, n) \subseteq T
  <2> HIDE DEF T
  <2> QED
    BY <1>1, <1>2, ReferredIsClosed
<1>4. ASSUME NEW m \in T PROVE m \in K /\ m \notin s /\ Fine(universes, {}, m)
  <2>1. PICK t \in SUBSET K : m \in K /\ s \subseteq t /\ Fine(universes, t, m)
    OBVIOUS
  <2>2. m \notin t
    BY <2>1, FineByChildren
  <2>3. At(universes, {}, m) = At(universes, t, m)
    BY <2>1, StackIsIrrelevant
  <2> QED
    BY <2>1, <2>2, <2>3 DEF Fine
<1> HIDE DEF T
<1> QED
  BY <1>3, <1>4

(* And what a selector that is not broken refers to does not raise, below  *)
(* any stack that it does not lead back to.                                *)
LEMMA WholeIsFine ==
  ASSUME NEW universes, Catalog(universes), NEW name \in NamesOf(universes),
         ~Broken(universes, name)
  PROVE  \A s \in SUBSET DOMAIN universes : \A m \in DOMAIN universes :
           m \in Referred(universes, name) /\ Referred(universes, m) \cap s = {}
             => Fine(universes, s, m)
<1>0. PICK K : K = DOMAIN universes /\ IsFiniteSet(K)
  BY DEF Catalog
<1>1. ASSUME NEW m \in Referred(universes, name)
      PROVE  /\ m \in K /\ m \in NamesOf(universes)
             /\ \A c \in Children(universes, m) : m \notin Referred(universes, c)
             /\ Combines(universes, m) => Children(universes, m) # {}
             /\ m \in Referred(universes, m)
             /\ \A c \in Children(universes, m) :
                  /\ c \in Referred(universes, name)
                  /\ Referred(universes, c) \subseteq Referred(universes, m)
  <2>1. m \in NamesOf(universes)
    BY ReferredIsClosed
  <2>2. /\ m \in K
        /\ \A c \in Children(universes, m) : m \notin Referred(universes, c)
        /\ Combines(universes, m) => Children(universes, m) # {}
    BY <1>0 DEF Broken
  <2>3. m \in Referred(universes, m)
    BY <2>1, ReferredIsClosed
  <2>4. Children(universes, m) \subseteq Referred(universes, name)
    BY <1>0, <2>2, ReferredIsClosed
  <2>5. Children(universes, m) \subseteq Referred(universes, m)
    BY <1>0, <2>1, <2>2, <2>3, ReferredIsClosed
  <2>6. \A c \in Referred(universes, m) :
          Referred(universes, c) \subseteq Referred(universes, m)
    BY <2>1, ReferredIsClosed
  <2> QED
    BY <2>1, <2>2, <2>3, <2>4, <2>5, <2>6
<1> DEFINE Ends(s, m) == m \in Referred(universes, name) /\ Referred(universes, m) \cap s = {}
                           => Fine(universes, s, m)
           Good == {g \in (SUBSET K) \X K : Ends(g[1], g[2])}
<1>2. ASSUME NEW s \in SUBSET K, NEW m \in K PROVE <<s, m>> \in Good <=> Ends(s, m)
  OBVIOUS
<1>3. ASSUME NEW s \in SUBSET K, NEW m \in K,
             m \notin s => \A c \in K : Ends(s \cup {m}, c)
      PROVE  Ends(s, m)
  <2> SUFFICES ASSUME m \in Referred(universes, name), Referred(universes, m) \cap s = {}
               PROVE  Fine(universes, s, m)
    OBVIOUS
  <2>1. m \notin s
    BY <1>1
  <2>2. ASSUME NEW c \in Children(universes, m)
        PROVE  c \in K /\ Fine(universes, s \cup {m}, c)
    <3>1. c \in Referred(universes, name) /\ c \in K
      BY <1>1
    <3>2. Referred(universes, c) \cap (s \cup {m}) = {}
      BY <1>1
    <3> QED
      BY <1>3, <2>1, <3>1, <3>2
  <2> QED
    BY <1>0, <1>1, <2>1, <2>2, FineByChildren
<1> HIDE DEF Ends
<1>4. \A s \in SUBSET K : \A m \in K :
        (m \notin s => \A c \in K : <<s \cup {m}, c>> \in Good) => <<s, m>> \in Good
  <2> TAKE s \in SUBSET K
  <2> TAKE m \in K
  <2>1. s \cup {m} \in SUBSET K
    OBVIOUS
  <2> HIDE DEF Good
  <2> QED
    BY <1>2, <1>3, <2>1
<1>5. Good \in SUBSET ((SUBSET K) \X K)
  OBVIOUS
<1>6. \A s \in SUBSET K : \A m \in K : <<s, m>> \in Good
  <2> HIDE DEF Good
  <2> QED
    BY <1>0, <1>4, <1>5, StackInduction
<1>7. \A s \in SUBSET K : \A m \in K : Ends(s, m)
  <2> HIDE DEF Good
  <2> QED
    BY <1>2, <1>6
<1> QED
  BY <1>0, <1>7 DEF Ends

(* resolve raises exactly on the selectors that have no meaning: those     *)
(* that reach an unknown name, themselves or a combination of nothing.     *)
LEMMA RaisesIffBroken ==
  ASSUME NEW universes, Catalog(universes), NEW name \in NamesOf(universes)
  PROVE  resolve(universes, name).raised <=> Broken(universes, name)
<1> DEFINE K == DOMAIN universes
<1>1. name \in Referred(universes, name)
  BY ReferredIsClosed
<1>2. CASE name \notin K
  <2>1. resolve(universes, name) = ConfigError
    BY <1>2 DEF resolve
  <2>2. ConfigError.raised
    BY DEF ConfigError
  <2>3. Broken(universes, name)
    BY <1>1, <1>2 DEF Broken
  <2> QED
    BY <2>1, <2>2, <2>3
<1>3. CASE name \in K
  <2>1. resolve(universes, name) = At(universes, {}, name)
    BY <1>3 DEF resolve, At
  <2>2. ASSUME ~Broken(universes, name) PROVE Fine(universes, {}, name)
    BY <1>1, <1>3, <2>2, WholeIsFine
  <2>3. ASSUME Fine(universes, {}, name), NEW m \in Referred(universes, name)
        PROVE  /\ m \in K
               /\ \A c \in Children(universes, m) : m \notin Referred(universes, c)
               /\ ~(Combines(universes, m) /\ Children(universes, m) = {})
    <3>1. m \in K /\ Fine(universes, {}, m)
      BY <1>3, <2>3, FineReaches
    <3>2. ~(Combines(universes, m) /\ Children(universes, m) = {})
      BY <3>1, FineByChildren
    <3>3. ASSUME NEW c \in Children(universes, m) PROVE m \notin Referred(universes, c)
      <4>1. Combines(universes, m)
        BY DEF Children, Combines
      <4>2. c \in K /\ Fine(universes, {} \cup {m}, c)
        BY <3>1, <4>1, FineByChildren
      <4>3. {} \cup {m} = {m} /\ {m} \in SUBSET K
        BY <3>1
      <4> QED
        BY <4>2, <4>3, FineReaches
    <3> QED
      BY <3>1, <3>2, <3>3
  <2>4. ASSUME Fine(universes, {}, name) PROVE ~Broken(universes, name)
    BY <2>3, <2>4 DEF Broken
  <2> QED
    BY <2>1, <2>2, <2>4 DEF Fine
<1> QED
  BY <1>2, <1>3

(* Who is in a combination is in one of its children, and has the labels   *)
(* it has there.                                                           *)
LEMMA LabelsOfCombined ==
  ASSUME NEW ch, NEW kind, NEW a \in Joined(kind, ch)
  PROVE  /\ \E c \in DOMAIN ch : a \in DOMAIN ch[c].sources
         /\ Combined(ch, Joined(kind, ch))[a]
              = UNION {ch[c].sources[a] : c \in {d \in DOMAIN ch : a \in DOMAIN ch[d].sources}}
<1>1. CASE kind = "union"
  BY <1>1 DEF Joined, Combined
<1>2. CASE kind # "union"
  BY <1>2 DEF Joined, Shared, Combined
<1> QED
  BY <1>1, <1>2

(* Every address a selector returns has labels, and they are true of it.   *)
LEMMA LabelsAreTrue ==
  ASSUME NEW universes, Catalog(universes)
  PROVE  \A s \in SUBSET DOMAIN universes : \A n \in DOMAIN universes :
           Fine(universes, s, n) =>
             \A a \in DOMAIN At(universes, s, n).sources :
               /\ At(universes, s, n).sources[a] # {}
               /\ \A label \in At(universes, s, n).sources[a] :
                    Truthful(universes, label, a)
<1>0. PICK K : K = DOMAIN universes /\ IsFiniteSet(K)
  BY DEF Catalog
<1> DEFINE Labelled(f) == \A a \in DOMAIN f :
                            f[a] # {} /\ \A label \in f[a] : Truthful(universes, label, a)
           True(s, n) == Fine(universes, s, n) => Labelled(At(universes, s, n).sources)
           Good == {g \in (SUBSET K) \X K : True(g[1], g[2])}
<1>1. ASSUME NEW s \in SUBSET K, NEW n \in K PROVE <<s, n>> \in Good <=> True(s, n)
  OBVIOUS
<1>2. ASSUME NEW s \in SUBSET K, NEW n \in K,
             n \notin s => \A c \in K : True(s \cup {n}, c)
      PROVE  True(s, n)
  <2> SUFFICES ASSUME Fine(universes, s, n) PROVE Labelled(At(universes, s, n).sources)
    OBVIOUS
  <2> DEFINE ch == Below(universes, resolve_map(universes), s, n)
  <2>1. n \notin s /\ At(universes, s, n) = Resolved(universes, n, ch)
    <3>1. n \notin s /\ At(universes, s, n) = Step(universes, resolve_map(universes), s, n)
      BY <1>0, FineByChildren
    <3> QED
      BY <3>1, Zenon DEF Step
  <2>2. \A f : Frozen(f).sources = f
    BY DEF Frozen
  <2>3. CASE universes[n].kind = "full_holders"
    <3> DEFINE rows == {r \in HolderRows : r[1] \in Ledgers}
    <3>1. PICK f : f = full_holders(n)
      OBVIOUS
    <3>2. DOMAIN f = {r[2] : r \in rows} \cup SeedHolders
      BY <3>1 DEF full_holders
    <3>3. ASSUME NEW a \in DOMAIN f
          PROVE  f[a] = {<<n, r[3]>> : r \in {x \in rows : x[2] = a}}
                        \cup IF a \in SeedHolders THEN {<<"full_holders", "config_seed">>}
                             ELSE {}
      BY <3>1, <3>2 DEF full_holders
    <3>4. ASSUME NEW a \in DOMAIN f PROVE f[a] # {}
      <4>1. CASE a \in SeedHolders
        BY <3>3, <4>1
      <4>2. CASE a \notin SeedHolders
        <5>1. PICK r \in rows : r[2] = a
          BY <3>2, <4>2
        <5>2. <<n, r[3]>> \in f[a]
          BY <3>3, <5>1
        <5> QED
          BY <5>2
      <4> QED
        BY <4>1, <4>2
    <3>5. ASSUME NEW a \in DOMAIN f, NEW label \in f[a] PROVE Truthful(universes, label, a)
      <4>1. CASE label = <<"full_holders", "config_seed">> /\ a \in SeedHolders
        BY <4>1, Zenon DEF Truthful
      <4>2. CASE \E r \in {x \in rows : x[2] = a} : label = <<n, r[3]>>
        <5>1. PICK r \in HolderRows : r[1] \in Ledgers /\ r[2] = a /\ label = <<n, r[3]>>
          BY <4>2
        <5>2. label[1] = n /\ label[2] = r[3]
          BY <5>1
        <5>3. r = <<r[1], a, label[2]>>
          BY <5>1, <5>2, RowsAssumption
        <5> QED
          BY <2>3, <5>1, <5>2, <5>3 DEF Truthful
      <4> QED
        BY <3>3, <4>1, <4>2
    <3>6. At(universes, s, n).sources = f
      BY <2>1, <2>2, <2>3, <3>1, ResolvedByKind
    <3> QED
      BY <3>4, <3>5, <3>6
  <2>4. CASE universes[n].kind = "explicit_list"
    <3>1. PICK f : f = explicit_list(n, universes[n].members)
      OBVIOUS
    <3>2. DOMAIN f = universes[n].members
      BY <3>1 DEF explicit_list
    <3>3. \A a \in DOMAIN f : f[a] = {<<n, "explicit_list">>}
      BY <3>1, <3>2 DEF explicit_list
    <3>4. ASSUME NEW a \in DOMAIN f, NEW label \in f[a] PROVE Truthful(universes, label, a)
      <4>1. label[1] = n /\ label[2] = "explicit_list"
        BY <3>3
      <4> QED
        BY <2>4, <3>2, <4>1 DEF Truthful
    <3>5. At(universes, s, n).sources = f
      BY <2>1, <2>2, <2>4, <3>1, ResolvedByKind
    <3> QED
      BY <3>3, <3>4, <3>5
  <2>5. CASE Combines(universes, n)
    <3>1. DOMAIN ch = Children(universes, n)
      BY DEF Below
    <3>2. ASSUME NEW c \in DOMAIN ch PROVE ~ch[c].raised /\ Labelled(ch[c].sources)
      <4>1. c \in K /\ Fine(universes, s \cup {n}, c)
        BY <1>0, <2>5, <3>1, FineByChildren
      <4>2. ch[c] = At(universes, s \cup {n}, c)
        BY <1>0, <3>1, <4>1 DEF Below, At
      <4>3. Labelled(At(universes, s \cup {n}, c).sources)
        BY <1>2, <2>1, <4>1
      <4> QED
        BY <4>1, <4>2, <4>3 DEF Fine
    <3>3. DOMAIN ch # {}
      BY <1>0, <2>5, <3>1, FineByChildren
    <3> HIDE DEF ch, Labelled
    <3>4. ~Raises(ch)
      BY <3>2, <3>3 DEF Raises
    <3>5. PICK J : J = Joined(universes[n].kind, ch)
      OBVIOUS
    <3>6. PICK f : f = Combined(ch, J)
      OBVIOUS
    <3>7. At(universes, s, n).sources = f
      BY <2>1, <2>2, <2>5, <3>4, <3>5, <3>6, ResolvedByKind
    <3>8. DOMAIN f = J
      BY <3>6 DEF Combined
    <3>9. ASSUME NEW a \in J
          PROVE  f[a] # {} /\ \A label \in f[a] : Truthful(universes, label, a)
      <4>1. /\ \E c \in DOMAIN ch : a \in DOMAIN ch[c].sources
            /\ f[a] = UNION {ch[c].sources[a] :
                               c \in {d \in DOMAIN ch : a \in DOMAIN ch[d].sources}}
        BY <3>5, <3>6, LabelsOfCombined
      <4>2. ASSUME NEW c \in DOMAIN ch, a \in DOMAIN ch[c].sources
            PROVE  /\ ch[c].sources[a] # {}
                   /\ \A label \in ch[c].sources[a] : Truthful(universes, label, a)
        BY <3>2, <4>2 DEF Labelled
      <4> QED
        BY <4>1, <4>2
    <3> QED
      BY <3>7, <3>8, <3>9 DEF Labelled
  <2> QED
    BY <1>0, <2>3, <2>4, <2>5 DEF Combines, Catalog
<1> HIDE DEF True
<1>3. \A s \in SUBSET K : \A n \in K :
        (n \notin s => \A c \in K : <<s \cup {n}, c>> \in Good) => <<s, n>> \in Good
  <2> TAKE s \in SUBSET K
  <2> TAKE n \in K
  <2>1. s \cup {n} \in SUBSET K
    OBVIOUS
  <2> HIDE DEF Good
  <2> QED
    BY <1>1, <1>2, <2>1
<1>4. Good \in SUBSET ((SUBSET K) \X K)
  OBVIOUS
<1>5. \A s \in SUBSET K : \A n \in K : <<s, n>> \in Good
  <2> HIDE DEF Good
  <2> QED
    BY <1>0, <1>3, <1>4, StackInduction
<1>6. \A s \in SUBSET K : \A n \in K : True(s, n)
  <2> HIDE DEF Good
  <2> QED
    BY <1>1, <1>5
<1> QED
  BY <1>0, <1>6 DEF True

(* The addresses of a selector that does not raise, from those of its      *)
(* children as resolve returns them.                                       *)
LEMMA MembersByKind ==
  ASSUME NEW universes, Catalog(universes), NEW n \in DOMAIN universes,
         Fine(universes, {}, n), NEW members,
         \A c \in Children(universes, n) :
           members[c] = DOMAIN resolve(universes, c).sources
  PROVE  DOMAIN resolve(universes, n).sources = Meaning(universes, n, members)
<1> DEFINE ch == Below(universes, resolve_map(universes), {}, n)
           of == {members[c] : c \in Children(universes, n)}
<1>1. resolve(universes, n) = Resolved(universes, n, ch)
  <2>1. resolve(universes, n) = At(universes, {}, n)
    BY DEF resolve, At
  <2>2. At(universes, {}, n) = Step(universes, resolve_map(universes), {}, n)
    BY FineByChildren
  <2>3. n \notin {}
    OBVIOUS
  <2> QED
    BY <2>1, <2>2, <2>3, Zenon DEF Step
<1>2. \A f : Frozen(f).sources = f
  BY DEF Frozen
<1>3. CASE universes[n].kind = "full_holders"
  <2>1. resolve(universes, n).sources = full_holders(n)
    BY <1>1, <1>2, <1>3, ResolvedByKind
  <2>2. DOMAIN full_holders(n)
          = {r[2] : r \in {x \in HolderRows : x[1] \in Ledgers}} \cup SeedHolders
    BY DEF full_holders
  <2> QED
    BY <1>3, <2>1, <2>2 DEF Meaning
<1>4. CASE universes[n].kind = "explicit_list"
  <2>1. resolve(universes, n).sources = explicit_list(n, universes[n].members)
    BY <1>1, <1>2, <1>4, ResolvedByKind
  <2>2. DOMAIN explicit_list(n, universes[n].members) = universes[n].members
    BY DEF explicit_list
  <2> QED
    BY <1>4, <2>1, <2>2 DEF Meaning
<1>5. CASE Combines(universes, n)
  <2>1. DOMAIN ch = Children(universes, n)
    BY DEF Below
  <2>2. ASSUME NEW c \in DOMAIN ch
        PROVE  ~ch[c].raised /\ DOMAIN ch[c].sources = members[c]
    <3>1. c \in DOMAIN universes /\ Fine(universes, {} \cup {n}, c)
      BY <1>5, <2>1, FineByChildren
    <3>2. ch[c] = At(universes, {} \cup {n}, c)
      BY <2>1, <3>1 DEF Below, At
    <3>3. At(universes, {}, c) = At(universes, {} \cup {n}, c)
      <4>1. {} \cup {n} \in SUBSET DOMAIN universes /\ {} \in SUBSET ({} \cup {n})
        OBVIOUS
      <4> QED
        BY <3>1, <4>1, StackIsIrrelevant
    <3>4. resolve(universes, c) = ch[c]
      BY <3>1, <3>2, <3>3 DEF resolve, At
    <3> QED
      BY <2>1, <3>1, <3>2, <3>4 DEF Fine
  <2>3. DOMAIN ch # {}
    BY <1>5, <2>1, FineByChildren
  <2> HIDE DEF ch
  <2>4. ~Raises(ch)
    BY <2>2, <2>3 DEF Raises
  <2>5. resolve(universes, n).sources = Combined(ch, Joined(universes[n].kind, ch))
    BY <1>1, <1>2, <1>5, <2>4, ResolvedByKind
  <2>6. DOMAIN resolve(universes, n).sources = Joined(universes[n].kind, ch)
    BY <2>5 DEF Combined
  <2>7. \A a : (a \in UNION of) <=> \E c \in DOMAIN ch : a \in DOMAIN ch[c].sources
    BY <2>1, <2>2
  <2>8. \A a : (\A addresses \in of : a \in addresses)
               <=> \A c \in DOMAIN ch : a \in DOMAIN ch[c].sources
    BY <2>1, <2>2
  <2> HIDE DEF of
  <2>9. CASE universes[n].kind = "union"
    <3>1. Joined(universes[n].kind, ch) = UNION of
      BY <2>7, <2>9 DEF Joined
    <3> QED
      BY <2>6, <2>9, <3>1 DEF of, Meaning
  <2>10. CASE universes[n].kind = "intersect"
    <3>1. Joined(universes[n].kind, ch)
            = {a \in UNION of : \A addresses \in of : a \in addresses}
      <4>1. Joined(universes[n].kind, ch) = Shared(ch)
        BY <2>10 DEF Joined
      <4>2. ASSUME NEW a
            PROVE  a \in Shared(ch)
                     <=> a \in UNION of /\ \A addresses \in of : a \in addresses
        BY <2>7, <2>8 DEF Shared
      <4> QED
        BY <4>1, <4>2
    <3> QED
      BY <2>6, <2>10, <3>1 DEF of, Meaning
  <2> QED
    BY <1>5, <2>9, <2>10 DEF Combines
<1> QED
  BY <1>3, <1>4, <1>5 DEF Combines, Catalog

(* UniverseResolver, for every catalog, with cycles, unknown names and     *)
(* combinations of nothing: resolve raises exactly on the selectors that   *)
(* reach one of these, and otherwise returns what the selector means, with *)
(* true labels for every address.                                          *)
THEOREM SelectorIsExact ==
  ASSUME NEW universes, Catalog(universes), NEW name \in NamesOf(universes)
  PROVE  ExactSelector(universes, name)
<1> DEFINE reached == Referred(universes, name)
           result == resolve(universes, name)
           members == [n \in reached |-> DOMAIN resolve(universes, n).sources]
<1>1. result.raised <=> Broken(universes, name)
  BY RaisesIffBroken
<1>2. ASSUME ~result.raised
      PROVE  /\ name \in DOMAIN universes /\ result = At(universes, {}, name)
             /\ Fine(universes, {}, name)
  <2>1. name \in DOMAIN universes
    <3>1. ConfigError.raised
      BY DEF ConfigError
    <3> QED
      BY <1>2, <3>1 DEF resolve
  <2>2. result = At(universes, {}, name)
    BY <2>1 DEF resolve, At
  <2> QED
    BY <1>2, <2>1, <2>2 DEF Fine
<1>3. ASSUME ~result.raised PROVE Solves(universes, members)
  <2> SUFFICES ASSUME NEW n \in reached
               PROVE  members[n] = Meaning(universes, n, members)
    BY Zenon DEF Solves
  <2>1. n \in DOMAIN universes /\ Fine(universes, {}, n)
    BY <1>2, <1>3, FineReaches
  <2>2. Children(universes, n) \subseteq reached
    BY <2>1, ReferredIsClosed
  <2>3. \A c \in Children(universes, n) :
          members[c] = DOMAIN resolve(universes, c).sources
    BY <2>2
  <2>4. members[n] = DOMAIN resolve(universes, n).sources
    OBVIOUS
  <2> HIDE DEF members
  <2> QED
    BY <2>1, <2>3, <2>4, MembersByKind
<1>4. ASSUME ~result.raised, NEW a \in DOMAIN result.sources
      PROVE  /\ result.sources[a] # {}
             /\ \A label \in result.sources[a] : Truthful(universes, label, a)
  <2>1. {} \in SUBSET DOMAIN universes
    OBVIOUS
  <2> QED
    BY <1>2, <1>4, <2>1, LabelsAreTrue
<1> QED
  BY <1>1, <1>3, <1>4, Zenon DEF ExactSelector

(* The resolver raises exactly on the selectors that have no meaning, and  *)
(* returns the meaning of the others, in every state of the run.           *)
THEOREM SelectorsStayExact == Spec => []SelectorsExact
<1>1. TypedInput => SelectorsExact
  <2> SUFFICES ASSUME TypedInput, subject = "universes", NEW n \in Names
               PROVE  ExactSelector(input, n)
    BY DEF SelectorsExact
  <2>1. input \in [Names -> Selectors]
    BY DEF TypedInput
  <2>2. IsFiniteSet(Names)
    <3>1. IsFiniteSet({"treasury"})
      BY FS_Singleton
    <3>2. IsFiniteSet({"treasury"} \cup {"holders"})
      BY <3>1, FS_AddElement
    <3>3. IsFiniteSet(({"treasury"} \cup {"holders"}) \cup {"both"})
      BY <3>2, FS_AddElement
    <3>4. Names = ({"treasury"} \cup {"holders"}) \cup {"both"}
      BY DEF Names
    <3> QED
      BY <3>3, <3>4
  <2>3. DOMAIN input = Names
    BY <2>1
  <2>4. \A s \in Selectors :
          s.kind \in {"full_holders", "explicit_list", "union", "intersect"}
    BY DEF Selectors
  <2>5. Catalog(input)
    BY <2>1, <2>2, <2>3, <2>4 DEF Catalog
  <2>6. n \in NamesOf(input)
    BY <2>3 DEF NamesOf
  <2> QED
    BY <2>5, <2>6, SelectorIsExact
<1> QED
  BY <1>1, InputsTyped, PTL

(* A selector that is not broken has one meaning only, so that what        *)
(* resolve returns is the meaning: two solutions over what the selector    *)
(* refers to are the same.                                                 *)
THEOREM MeaningIsUnique ==
  ASSUME NEW universes, Catalog(universes), NEW name \in NamesOf(universes),
         ~Broken(universes, name), NEW A, NEW B,
         Solves(universes, A), DOMAIN A = Referred(universes, name),
         Solves(universes, B), DOMAIN B = Referred(universes, name)
  PROVE  \A n \in Referred(universes, name) : A[n] = B[n]
<1>0. PICK K : K = DOMAIN universes /\ IsFiniteSet(K)
  BY DEF Catalog
<1> DEFINE R == Referred(universes, name)
           Same(s, m) == m \in R /\ Fine(universes, s, m) => A[m] = B[m]
           Good == {g \in (SUBSET K) \X K : Same(g[1], g[2])}
<1>1. ASSUME NEW s \in SUBSET K, NEW m \in K PROVE <<s, m>> \in Good <=> Same(s, m)
  OBVIOUS
<1>2. ASSUME NEW s \in SUBSET K, NEW m \in K,
             m \notin s => \A c \in K : Same(s \cup {m}, c)
      PROVE  Same(s, m)
  <2> SUFFICES ASSUME m \in R, Fine(universes, s, m) PROVE A[m] = B[m]
    OBVIOUS
  <2>1. m \notin s
    BY <1>0, FineByChildren
  <2>2. ASSUME NEW c \in Children(universes, m) PROVE A[c] = B[c]
    <3>1. Combines(universes, m)
      BY DEF Children, Combines
    <3>2. c \in K /\ Fine(universes, s \cup {m}, c)
      BY <1>0, <3>1, FineByChildren
    <3>3. c \in R
      BY <1>0, ReferredIsClosed
    <3> QED
      BY <1>2, <2>1, <3>2, <3>3
  <2>3. {A[c] : c \in Children(universes, m)} = {B[c] : c \in Children(universes, m)}
    BY <2>2
  <2>4. Meaning(universes, m, A) = Meaning(universes, m, B)
    BY <2>3, Zenon DEF Meaning
  <2>5. A[m] = Meaning(universes, m, A) /\ B[m] = Meaning(universes, m, B)
    BY Zenon DEF Solves
  <2> QED
    BY <2>4, <2>5
<1> HIDE DEF Same
<1>3. \A s \in SUBSET K : \A m \in K :
        (m \notin s => \A c \in K : <<s \cup {m}, c>> \in Good) => <<s, m>> \in Good
  <2> TAKE s \in SUBSET K
  <2> TAKE m \in K
  <2>1. s \cup {m} \in SUBSET K
    OBVIOUS
  <2> HIDE DEF Good
  <2> QED
    BY <1>1, <1>2, <2>1
<1>4. Good \in SUBSET ((SUBSET K) \X K)
  OBVIOUS
<1>5. \A s \in SUBSET K : \A m \in K : <<s, m>> \in Good
  <2> HIDE DEF Good
  <2> QED
    BY <1>0, <1>3, <1>4, StackInduction
<1>6. ASSUME NEW m \in R PROVE m \in K /\ Fine(universes, {}, m)
  <2>1. m \in K
    BY <1>0 DEF Broken
  <2>2. Referred(universes, m) \cap {} = {} /\ {} \in SUBSET K
    OBVIOUS
  <2> QED
    BY <1>0, <2>1, <2>2, WholeIsFine
<1>7. \A m \in R : Same({}, m)
  <2>1. {} \in SUBSET K
    OBVIOUS
  <2> HIDE DEF Good
  <2> QED
    BY <1>1, <1>5, <1>6, <2>1
<1> QED
  BY <1>6, <1>7 DEF Same

-----------------------------------------------------------------------------
(* The writer guard.                                                       *)

(* The beat interval and the age bounds are natural numbers. *)
LEMMA Durations ==
  /\ G!interval \in Nat \ {0}
  /\ G!LapseBound \in Nat
  /\ G!Gone \in Nat
  /\ G!Gone = stale_seconds + G!interval + MaxLate + 3 * MaxCall + 1
<1>1. G!interval \in Nat \ {0}
  BY GuardAssumption DEF G!GuardConstants, G!interval
<1>2. QED
  BY <1>1, GuardAssumption DEF G!GuardConstants, G!LapseBound, G!Gone

(* Every variable of the guard keeps its type. *)
THEOREM GuardTypeCorrect == GuardSpec => []GuardTypeOK
<1> USE GuardAssumption, Durations
    DEF G!GuardConstants, G!TypeOK, G!ControlStates, G!Calling, G!Classes
<1>1. G!Init => G!TypeOK
  BY DEF G!Init
<1>2. G!TypeOK /\ [G!Next]_G!vars => G!TypeOK'
  <2> SUFFICES ASSUME G!TypeOK, [G!Next]_G!vars PROVE G!TypeOK'
    OBVIOUS
  <2>1. CASE G!Tick
    BY <2>1 DEF G!Tick, G!Sleeping, G!Older
  <2>2. ASSUME NEW p \in Procs, G!Step(p) PROVE G!TypeOK'
    <3> G!Scope(p) \in G!Classes
      BY DEF G!Scope
    <3> USE DEF G!Goto, G!Fault, G!LeaveBehind, G!Younger
    <3>1. CASE G!Start(p)
      BY <3>1 DEF G!Start
    <3>2. CASE G!Check(p)
      BY <3>2 DEF G!Check, G!Sees
    <3>3. CASE G!WriteLands(p)
      BY <3>3 DEF G!WriteLands
    <3>4. CASE G!Recheck(p)
      BY <3>4 DEF G!Recheck, G!Sees
    <3>5. CASE G!Retract(p)
      BY <3>5 DEF G!Retract
    <3>6. CASE G!BeatBegins(p)
      BY <3>6 DEF G!BeatBegins
    <3>7. CASE G!BeatLands(p)
      BY <3>7 DEF G!BeatLands
    <3>8. CASE G!Finish(p)
      BY <3>8 DEF G!Finish
    <3>9. CASE G!Release(p)
      BY <3>9 DEF G!Release
    <3>10. CASE G!DrainEnds(p)
      BY <3>10 DEF G!DrainEnds
    <3>11. QED
      BY <2>2, <3>1, <3>2, <3>3, <3>4, <3>5, <3>6, <3>7, <3>8, <3>9, <3>10
         DEF G!Step, G!Proceed
  <2>3. ASSUME NEW p \in Procs, G!Failure(p) PROVE G!TypeOK'
    <3> G!Scope(p) \in G!Classes
      BY DEF G!Scope
    <3> USE DEF G!Goto, G!Fault, G!LeaveBehind, G!Younger
    <3>1. CASE G!CheckRaises(p)
      BY <3>1 DEF G!CheckRaises
    <3>2. CASE G!WriteRaises(p)
      BY <3>2 DEF G!WriteRaises
    <3>3. CASE G!RecheckRaises(p)
      BY <3>3 DEF G!RecheckRaises
    <3>4. CASE G!BeatFails(p)
      BY <3>4 DEF G!BeatFails
    <3>5. CASE G!Kill(p)
      BY <3>5 DEF G!Kill
    <3>6. QED
      BY <2>3, <3>1, <3>2, <3>3, <3>4, <3>5 DEF G!Failure
  <2>4. CASE UNCHANGED G!vars
    BY <2>4 DEF G!vars
  <2>5. QED
    BY <2>1, <2>2, <2>3, <2>4 DEF G!Next
<1>3. QED
  BY <1>1, <1>2, PTL DEF GuardSpec, G!Spec, GuardTypeOK

-----------------------------------------------------------------------------
(* A step of another process leaves the ages of p's row alone. *)
LEMMA AgesUnchanged ==
  ASSUME NEW p \in Procs, G!AgesOf(p),
         stage'[p] = stage[p], task'[p] = task[p], row'[p] = row[p],
         call'[p] = call[p], sinceBeat'[p] = sinceBeat[p], timer'[p] = timer[p]
  PROVE  G!AgesOf(p)'
BY DEF G!AgesOf, G!healthy, G!Holder, G!Sleeping

(* GuardAges is inductive: the row of a process ages no faster than its    *)
(* own clocks, which the timing bounds of Tick limit.                      *)
THEOREM GuardAgesCorrect == GuardSpec => []G!GuardAges
<1> USE GuardAssumption, Durations DEF G!GuardConstants
<1>0. /\ G!Tolerated \in Nat
      /\ G!Tolerated <= MaxOutage /\ G!Tolerated < stale_seconds
  BY DEF G!Tolerated, G!Younger
<1>1. G!Init => G!GuardAges
  BY DEF G!Init, G!GuardAges, G!AgesOf, G!healthy, G!Holder, G!Sleeping
<1>2. G!TypeOK /\ G!GuardAges /\ [G!Next]_G!vars => G!GuardAges'
  <2> SUFFICES ASSUME G!TypeOK, G!GuardAges, [G!Next]_G!vars, NEW p \in Procs
               PROVE  G!AgesOf(p)'
    BY DEF G!GuardAges
  <2>0. G!AgesOf(p)
    BY DEF G!GuardAges
  <2>1. CASE G!Tick
    BY <1>0, <2>0, <2>1 DEF G!Tick, G!AgesOf, G!TypeOK, G!healthy, G!Holder,
       G!Sleeping, G!Older,
       G!Calling
  <2>2. ASSUME NEW q \in Procs, G!Step(q) PROVE G!AgesOf(p)'
    <3>0. CASE p # q
      BY <2>0, <2>2, <3>0, AgesUnchanged DEF G!Step, G!Proceed, G!Start,
         G!Check, G!WriteLands,
         G!Recheck, G!Retract, G!BeatBegins, G!BeatLands, G!Finish, G!Release,
         G!DrainEnds,
         G!Goto, G!TypeOK
    <3> SUFFICES ASSUME p = q PROVE G!AgesOf(p)'
      BY <3>0
    <3> USE <1>0, <2>0 DEF G!AgesOf, G!TypeOK, G!healthy, G!Holder, G!Sleeping,
       G!Goto
    <3>1. CASE G!Start(p)
      BY <3>1 DEF G!Start
    <3>2. CASE G!Check(p)
      BY <3>2 DEF G!Check
    <3>3. CASE G!WriteLands(p)
      BY <3>3 DEF G!WriteLands
    <3>4. CASE G!Recheck(p)
      BY <3>4 DEF G!Recheck
    <3>5. CASE G!Retract(p)
      BY <3>5 DEF G!Retract
    <3>6. CASE G!BeatBegins(p)
      BY <3>6 DEF G!BeatBegins
    <3>7. CASE G!BeatLands(p)
      BY <3>7 DEF G!BeatLands
    <3>8. CASE G!Finish(p)
      BY <3>8 DEF G!Finish
    <3>9. CASE G!Release(p)
      BY <3>9 DEF G!Release
    <3>10. CASE G!DrainEnds(p)
      BY <3>10 DEF G!DrainEnds
    <3>11. QED
      BY <2>2, <3>1, <3>2, <3>3, <3>4, <3>5, <3>6, <3>7, <3>8, <3>9, <3>10
         DEF G!Step, G!Proceed
  <2>3. ASSUME NEW q \in Procs, G!Failure(q) PROVE G!AgesOf(p)'
    <3>0. CASE p # q
      BY <2>0, <2>3, <3>0, AgesUnchanged DEF G!Failure, G!CheckRaises,
         G!WriteRaises,
         G!RecheckRaises, G!BeatFails, G!Kill, G!Goto, G!TypeOK
    <3> SUFFICES ASSUME p = q PROVE G!AgesOf(p)'
      BY <3>0
    <3> USE <1>0, <2>0 DEF G!AgesOf, G!TypeOK, G!healthy, G!Holder, G!Sleeping,
       G!Goto
    <3>1. CASE G!CheckRaises(p)
      BY <3>1 DEF G!CheckRaises
    <3>2. CASE G!WriteRaises(p)
      BY <3>2 DEF G!WriteRaises
    <3>3. CASE G!RecheckRaises(p)
      BY <3>3 DEF G!RecheckRaises
    <3>4. CASE G!BeatFails(p)
      <4>1. task'[p] = "running" => sinceBeat[p] <= G!Tolerated
        BY <3>4 DEF G!BeatFails, G!OutageSpansWindow, G!Tolerated, G!Younger
      <4>2. QED
        BY <3>4, <4>1 DEF G!BeatFails
    <3>5. CASE G!Kill(p)
      BY <3>5 DEF G!Kill
    <3>6. QED
      BY <2>3, <3>1, <3>2, <3>3, <3>4, <3>5 DEF G!Failure
  <2>4. CASE UNCHANGED G!vars
    BY <2>0, <2>4, AgesUnchanged DEF G!vars
  <2>5. QED
    BY <2>1, <2>2, <2>3, <2>4 DEF G!Next
<1>3. QED
  BY <1>1, <1>2, GuardTypeCorrect, PTL DEF GuardSpec, G!Spec, GuardTypeOK

(* A guard that reports healthy lapsed at most one beat ago, whatever the  *)
(* outage (_heartbeat_loop).                                               *)
THEOREM HealthyLapse == GuardSpec => []HealthyLapseBounded
<1>1. G!TypeOK /\ G!GuardAges => G!HealthyLapseBounded
  BY GuardAssumption, Durations DEF G!GuardConstants, G!TypeOK, G!GuardAges,
     G!AgesOf, G!HealthyLapseBounded, G!healthy, G!Holder, G!Sleeping,
     G!Tolerated, G!Younger, G!LapseBound
<1>2. QED
  BY <1>1, GuardTypeCorrect, GuardAgesCorrect, PTL DEF GuardTypeOK, HealthyLapseBounded

(* Mutual exclusion within a lock class, for every timing, outage and kill *)
(* (acquire's read before its write and its read after it): when the reads *)
(* of acquire see the rows written before them, a second process of a      *)
(* class gets to work only after the first has let its row lapse.          *)
THEOREM GuardExcludesUnlessLapsed ==
  ASSUME ~LaggingReads
  PROVE  GuardSpec => ExcludesUnlessLapsed
<1> DEFINE Kept == \A p \in Procs : ~G!Lapsed(p)
<1>1. G!Init => G!AtMostOneHolder
  BY DEF G!Init, G!AtMostOneHolder, G!Holder
<1>2. G!TypeOK /\ Kept /\ G!AtMostOneHolder /\ [G!Next]_G!vars
       => G!AtMostOneHolder'
  <2> SUFFICES ASSUME G!TypeOK, Kept, G!AtMostOneHolder, [G!Next]_G!vars
               PROVE  G!AtMostOneHolder'
    OBVIOUS
  <2>1. CASE G!Tick \/ UNCHANGED G!vars
    BY <2>1 DEF G!Tick, G!vars, G!AtMostOneHolder, G!Holder
  <2>2. ASSUME NEW q \in Procs, G!Recheck(q) PROVE G!AtMostOneHolder'
    <3>1. CASE G!OthersFresh(q)
      <4>1. \A p \in Procs \ {q} : stage'[p] = stage[p] /\ task'[p] = task[p]
        BY <2>2 DEF G!Recheck, G!Goto, G!TypeOK
      <4>2. stage'[q] = "retract"
        BY <2>2, <3>1 DEF G!Recheck, G!Sees, G!Goto, G!TypeOK
      <4>3. QED
        BY <4>1, <4>2 DEF G!AtMostOneHolder, G!Holder
    <3>2. CASE ~G!OthersFresh(q)
      <4>1. \A p \in Procs \ {q} : G!Scope(p) = G!Scope(q) => ~G!Holder(p)
        BY <3>2 DEF G!OthersFresh, G!Lapsed
      <4>2. \A p \in Procs \ {q} : stage'[p] = stage[p]
        BY <2>2 DEF G!Recheck, G!Goto, G!TypeOK
      <4> QED
        BY <4>1, <4>2 DEF G!AtMostOneHolder, G!Holder
    <3> QED
      BY <3>1, <3>2
  <2>3. ASSUME NEW q \in Procs, G!Step(q),
     ~G!Recheck(q) PROVE G!AtMostOneHolder'
    BY <2>3 DEF G!Step, G!Proceed, G!Start, G!Check, G!WriteLands, G!Retract,
       G!BeatBegins, G!BeatLands,
       G!Finish, G!Release, G!DrainEnds, G!Goto, G!TypeOK, G!AtMostOneHolder,
       G!Holder, G!Sleeping
  <2>4. ASSUME NEW q \in Procs, G!Failure(q) PROVE G!AtMostOneHolder'
    BY <2>4 DEF G!Failure, G!CheckRaises, G!WriteRaises, G!RecheckRaises,
       G!BeatFails, G!Kill, G!Goto,
       G!TypeOK, G!AtMostOneHolder, G!Holder
  <2> QED
    BY <2>1, <2>2, <2>3, <2>4 DEF G!Next
<1>3. G!Spec /\ []Kept => []G!AtMostOneHolder
  BY <1>1, <1>2, GuardTypeCorrect, PTL DEF GuardSpec, G!Spec, GuardTypeOK
<1> QED
  BY <1>3 DEF GuardSpec, ExcludesUnlessLapsed, G!ExcludesUnlessLapsed
=============================================================================
