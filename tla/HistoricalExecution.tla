------------------------ MODULE HistoricalExecution ------------------------
(***************************************************************************)
(* One execution of a list of calls at an anchor block (execution/):       *)
(* HistoricalExecutorRouter sends it to Multicall3Executor, which runs     *)
(* batches in parallel and proves each by its sentinels, or, before        *)
(* Multicall3 was deployed, to LegacyRpcBatchExecutor, which runs them one *)
(* after the other on a hash-pinned endpoint or on a quorum of providers.  *)
(*                                                                         *)
(* An endpoint asked by number answers from the block it has there at that *)
(* moment.  A steady endpoint keeps that block for the three requests of a *)
(* number/hash sandwich; behind any other, a load balancer or a reorg may  *)
(* answer the middle one from another block.  The requests of one attempt  *)
(* read nothing the batches share, so an attempt is one step.              *)
(***************************************************************************)
EXTENDS EndpointPool

CONSTANTS
  NCalls,              \* the calls are 1..NCalls
  batch_size,
  max_parallel,        \* max_parallel_batches
  max_retries,
  quorum,              \* required_provider_quorum
  deployment_block,    \* of the Multicall3 contract
  Numbers,             \* anchor block numbers
  Blocks,              \* blocks an answer may come from
  Anchor,              \* the anchor block
  Sentinel,            \* [Blocks -> what the three sentinel calls return]
  Value,               \* [Blocks -> [1..NCalls -> value]]
  Fragile,             \* calls that may fail where their state is there
  Steady,              \* endpoints that keep their block during a sandwich
  Garbling,            \* endpoints that may return what cannot be decoded
  Failed, None         \* a failed call; no endpoint

ASSUME ExecutionConstants ==
  /\ NCalls \in Nat \ {0} /\ batch_size \in Nat \ {0}
  /\ max_parallel \in Nat \ {0} /\ max_retries \in Nat \ {0}
  /\ quorum \in Nat /\ quorum >= 2
  /\ Numbers \subseteq Nat /\ deployment_block \in Nat
  /\ Anchor \in Blocks /\ Steady \subseteq Names /\ Garbling \subseteq Names

(* The sentinels tell the anchor from every block an answer may come from; *)
(* two blocks with the same parent and timestamp are not told apart.       *)
ASSUME SentinelsIdentify == \A b \in Blocks : Sentinel[b] = Sentinel[Anchor] => b = Anchor

(* Of quorum independent groups at least one has a steady endpoint. *)
ASSUME QuorumHonest ==
  \A S \in SUBSET Names :
    Cardinality({provider_group[e] : e \in S}) >= quorum => S \cap Steady # {}

VARIABLES
  number,    \* the anchor's number
  task,      \* [Groups -> the state of a batch]
  status,    \* "running", "returned" or "raised"
  results    \* what execute returned

vars == <<poolVars, number, task, status, results>>

-----------------------------------------------------------------------------
(* chunked: the groups of calls, each as its first and last call. *)
Groups == 1..((NCalls + batch_size - 1) \div batch_size)
Group(g) == <<(g - 1) * batch_size + 1,
              IF g * batch_size < NCalls THEN g * batch_size ELSE NCalls>>
Length(segment) == segment[2] - segment[1] + 1
(* The halves of _execute_adaptive. *)
Halves(segment) ==
  LET midpoint == segment[1] + Length(segment) \div 2
  IN  <<<<segment[1], midpoint - 1>>, <<midpoint, segment[2]>>>>

uses_multicall == number >= deployment_block

(* The locals of a batch.  todo holds the segments still to execute, the   *)
(* current one first; tried and fallback belong to one _eth_call, refuted  *)
(* and round to one _execute_once; nested is the failed call that is being *)
(* escalated, or 0, and body the results of the batch it belongs to.       *)
Fresh(todo, out) ==
  [pc |-> "select", todo |-> todo, out |-> out, at |-> None, tried |-> {},
   refuted |-> {}, attempt |-> 0, round |-> 0, fallback |-> None,
   members |-> {}, nested |-> 0, body |-> <<>>]

Init ==
  /\ PoolInit(quorum)
  /\ number \in Numbers
  /\ task = IF uses_multicall
            THEN [g \in Groups |-> [Fresh(<<Group(g)>>, <<>>) EXCEPT !.pc = "queued"]]
            ELSE [g \in {1} |-> Fresh([i \in Groups |-> Group(i)], <<>>)]
  /\ status = "running"
  /\ results = <<>>

Running(g, pc) == status = "running" /\ task[g].pc = pc

(* The calls an attempt packs: the segment, or the one call it escalates. *)
Packed(t) == IF t.nested = 0 THEN Head(t.todo) ELSE <<t.nested, t.nested>>

(* What the calls of a segment may return on a block: a fragile one may    *)
(* fail, as where it runs out of gas.                                      *)
Bodies(segment, b) ==
  {[i \in 1..Length(segment) |-> <<segment[1] + i - 1, v[i]>>] :
     v \in {u \in [1..Length(segment) -> {Failed} \cup {Value[b][c] : c \in 1..NCalls}] :
              \A i \in DOMAIN u : LET c == segment[1] + i - 1
                IN  u[i] = Value[b][c] \/ (c \in Fragile /\ u[i] = Failed)}}

Goto(g, t) == task' = [task EXCEPT ![g] = t]

(* An exception that leaves _execute_adaptive.  The TaskGroup cancels the  *)
(* other batches, which report nothing to the pool any more.               *)
Raise == /\ status' = "raised"
         /\ task' = [g \in DOMAIN task |-> [Fresh(<<>>, <<>>) EXCEPT !.pc = "cancelled"]]
         /\ UNCHANGED results

(* RpcProviderLimit: halve the segment, whatever call of it met the limit. *)
SplitOrRaise(g) ==
  LET t == task[g]
  IN  IF Length(Head(t.todo)) = 1
      THEN Raise
      ELSE /\ Goto(g, Fresh(Halves(Head(t.todo)) \o Tail(t.todo), t.out))
           /\ UNCHANGED <<status, results>>

(* A segment is complete: on to the next one of the group. *)
Deliver(g, body) ==
  LET t == task[g] rest == Tail(t.todo)
  IN  /\ Goto(g, [Fresh(rest, t.out \o body) EXCEPT
                    !.pc = IF rest = <<>> THEN "done" ELSE "select"])
      /\ UNCHANGED <<status, results>>

(* The batches of all groups, in the order of the groups. *)
Flattened[g \in 0..Len(task)] ==
  IF g = 0 THEN <<>> ELSE Flattened[g - 1] \o task[g].out

AllDone == \A g \in DOMAIN task : task[g].pc = "done"
Return ==
  /\ status = "running"
  /\ AllDone
  /\ status' = "returned"
  /\ results' = Flattened[Len(task)]
  /\ UNCHANGED <<poolVars, number, task>>

-----------------------------------------------------------------------------
(* Multicall3Executor                                                      *)

Admit(g) ==
  /\ Running(g, "queued")
  /\ Cardinality({h \in DOMAIN task : task[h].pc \in {"select", "ask"}}) < max_parallel
  /\ Goto(g, [task[g] EXCEPT !.pc = "select"])
  /\ UNCHANGED <<poolVars, number, status, results>>

(* _select: an endpoint that honours hashes before one that does not. *)
Preferred(candidates) ==
  IF candidates \cap Eip1898 # {} THEN candidates \cap Eip1898 ELSE candidates

(* Mutant: the caller's exclusions are forgotten. *)
Choose_forget(g) == Serving(number) \ task[g].tried
Choose(g) == Serving(number) \ (task[g].tried \cup task[g].refuted)

(* Mutant: the attempts are not counted. *)
MayTry_always(t) == TRUE
MayTry(t) == t.attempt < max_retries

(* With nothing left to select, the endpoint of the last transient failure *)
(* is asked again.                                                         *)
Select(g) ==
  LET t == task[g] candidates == Preferred(Choose(g))
  IN  /\ uses_multicall /\ Running(g, "select")
      /\ IF MayTry(t) /\ candidates # {}
         THEN /\ Goto(g, [t EXCEPT !.pc = "ask", !.at = Selected(candidates)])
              /\ cursor' = CursorAfter(candidates)
              /\ UNCHANGED <<status, results>>
         ELSE /\ UNCHANGED cursor
              /\ IF MayTry(t) /\ t.fallback # None
                 THEN /\ Goto(g, [t EXCEPT !.pc = "ask", !.at = t.fallback])
                      /\ UNCHANGED <<status, results>>
                 ELSE Raise
      /\ UNCHANGED <<health, archived, number>>

(* The blocks that a request by hash and a sandwich by number may be       *)
(* answered from.                                                          *)
ReachByHash(e) == IF hash_policy[e] = "strict" THEN {Anchor} ELSE Blocks
ReachByNumber(e) == IF e \in Steady THEN {Anchor} ELSE Blocks
Reach(e) == IF e \in Eip1898 THEN ReachByHash(e) ELSE ReachByNumber(e)

(* Mutant: the sentinels are not compared. *)
Verified_never(b) == TRUE
(* _verify_sentinels, at the head and at the tail of one eth_call. *)
Verified(b) == Sentinel[b] = Sentinel[Anchor]

(* Failed calls of a batch that was verified, from call c on. *)
ToEscalate(body, c) == {i \in DOMAIN body : body[i][1] > c /\ body[i][2] = Failed}

(* A verified answer: escalate the failed calls one by one, then deliver.  *)
Accept(g, answer) ==
  LET t == task[g]
      at == IF t.nested = 0 THEN 0 ELSE t.nested - Head(t.todo)[1] + 1
      body == IF at = 0 THEN answer ELSE [t.body EXCEPT ![at] = answer[1]]
      left == ToEscalate(body, t.nested)
      next == CHOOSE i \in left : \A j \in left : i <= j
  IN  IF left = {}
      THEN Deliver(g, body)
      ELSE /\ Goto(g, [Fresh(t.todo, t.out) EXCEPT !.nested = body[next][1],
                                                   !.body = body])
           /\ UNCHANGED <<status, results>>

(* A refuted answer: the endpoint cools down and is out of this batch. *)
Refute(g) ==
  LET t == task[g]
  IN  IF t.round + 1 < max_retries
      THEN /\ Goto(g, [Fresh(t.todo, t.out) EXCEPT
                         !.refuted = t.refuted \cup {t.at}, !.round = t.round + 1,
                         !.nested = t.nested, !.body = t.body])
           /\ UNCHANGED <<status, results>>
      ELSE Raise

Answer(g) ==
  /\ uses_multicall /\ Running(g, "ask")
  /\ \E b \in Reach(task[g].at) :
       IF Verified(b)
       THEN /\ record_success(task[g].at)
            /\ \E answer \in Bodies(Packed(task[g]), b) : Accept(g, answer)
       ELSE /\ record_failure(task[g].at, "transient")
            /\ Refute(g)
  /\ UNCHANGED <<cursor, number>>

(* The return data cannot be decoded, or has the wrong number of results:  *)
(* even a hash-pinned answer is refuted.                                   *)
AnswerGarbled(g) ==
  /\ uses_multicall /\ Running(g, "ask") /\ task[g].at \in Garbling
  /\ record_failure(task[g].at, "transient")
  /\ Refute(g)
  /\ UNCHANGED <<cursor, number>>

AskFails(g, kind) ==
  LET t == task[g]
  IN  /\ uses_multicall /\ Running(g, "ask")
      /\ record_failure(t.at, kind)
      /\ \/ kind = "limit" /\ SplitOrRaise(g)
         \/ kind = "permanent" /\ Raise
         \/ /\ failover(kind)
            /\ Goto(g, [t EXCEPT !.pc = "select", !.at = None,
                          !.attempt = t.attempt + 1,
                          !.tried = t.tried \cup {t.at},
                          !.fallback = IF retryable(kind) THEN t.at ELSE None])
            /\ UNCHANGED <<status, results>>
      /\ UNCHANGED <<cursor, number>>

-----------------------------------------------------------------------------
(* LegacyRpcBatchExecutor                                                  *)

(* Hash-pinned endpoints one after the other, then the quorum. *)
SelectLegacy(g) ==
  LET t == task[g]
      candidates == (Serving(number) \ t.tried) \cap Eip1898
      members == QuorumMembers(quorum, number)
  IN  /\ ~uses_multicall /\ Running(g, "select")
      /\ IF MayTry(t) /\ candidates # {}
         THEN /\ Goto(g, [t EXCEPT !.pc = "ask", !.at = Selected(candidates)])
              /\ cursor' = CursorAfter(candidates)
              /\ UNCHANGED <<status, results>>
         ELSE /\ UNCHANGED cursor
              /\ IF Cardinality(members) = quorum
                 THEN /\ Goto(g, [t EXCEPT !.pc = "quorum", !.members = members])
                      /\ UNCHANGED <<status, results>>
                 ELSE Raise
      /\ UNCHANGED <<health, archived, number>>

AnswerLegacy(g) ==
  /\ ~uses_multicall /\ Running(g, "ask")
  /\ record_success(task[g].at)
  /\ \E b \in ReachByHash(task[g].at) :
       \E body \in Bodies(Head(task[g].todo), b) : Deliver(g, body)
  /\ UNCHANGED <<cursor, number>>

AskFailsLegacy(g, kind) ==
  LET t == task[g]
  IN  /\ ~uses_multicall /\ Running(g, "ask")
      /\ record_failure(t.at, kind)
      /\ \/ kind = "limit" /\ SplitOrRaise(g)
         \/ kind = "permanent" /\ Raise
         \/ /\ failover(kind)
            /\ Goto(g, [t EXCEPT !.pc = "select", !.at = None,
                          !.attempt = t.attempt + 1,
                          !.tried = t.tried \cup {t.at}])
            /\ UNCHANGED <<status, results>>
      /\ UNCHANGED <<cursor, number>>

(* The sandwiches of the quorum, which must agree on every result. *)
Agree(answer) == \A d, e \in DOMAIN answer : answer[d] = answer[e]
QuorumAnswers(g) ==
  LET t == task[g] segment == Head(t.todo)
      first == CHOOSE e \in t.members : \A d \in t.members : Position(e) <= Position(d)
  IN  /\ Running(g, "quorum")
      /\ \E answer \in [t.members -> UNION {Bodies(segment, b) : b \in Blocks}] :
           /\ \A e \in t.members : \E b \in ReachByNumber(e) : answer[e] \in Bodies(segment, b)
           /\ IF Agree(answer) THEN Deliver(g, answer[first]) ELSE Raise
      /\ UNCHANGED <<poolVars, number>>

(* One of them raises; nothing is reported to the pool. *)
QuorumFails(g, kind) ==
  /\ Running(g, "quorum")
  /\ IF kind = "limit" THEN SplitOrRaise(g) ELSE Raise
  /\ UNCHANGED <<poolVars, number>>

-----------------------------------------------------------------------------
Cooldown == /\ status = "running"
            /\ \E e \in Names : CooldownEnds(e)
            /\ UNCHANGED <<number, task, status, results>>

Others == /\ status = "running"
          /\ OtherSelects \/ \E e \in Names : OtherReports(e)
          /\ UNCHANGED <<number, task, status, results>>

BatchStep(g) ==
  \/ Admit(g) \/ Select(g) \/ Answer(g) \/ AnswerGarbled(g)
  \/ SelectLegacy(g) \/ AnswerLegacy(g) \/ QuorumAnswers(g)
  \/ \E kind \in FailureKinds :
       AskFails(g, kind) \/ AskFailsLegacy(g, kind) \/ QuorumFails(g, kind)

Next == Return \/ Cooldown \/ Others \/ \E g \in DOMAIN task : BatchStep(g)

(* Every request returns or times out, so every batch goes on. *)
Spec == /\ Init
        /\ [][Next]_vars
        /\ WF_vars(Return \/ \E g \in DOMAIN task : BatchStep(g))

-----------------------------------------------------------------------------
(* Properties.                                                             *)

States == {"queued", "select", "ask", "quorum", "done", "cancelled"}
Results == (1..NCalls) \X ({Failed} \cup {Value[b][c] : b \in Blocks, c \in 1..NCalls})

TypeOK ==
  /\ PoolTypeOK
  /\ number \in Numbers
  /\ status \in {"running", "returned", "raised"}
  /\ \A i \in DOMAIN results : results[i] \in Results
  /\ \A g \in DOMAIN task :
       /\ task[g].pc \in States
       /\ task[g].at \in Names \cup {None}
       /\ task[g].fallback \in Names \cup {None}
       /\ task[g].tried \in SUBSET Names
       /\ task[g].refuted \in SUBSET Names
       /\ task[g].members \in SUBSET Names
       /\ task[g].attempt \in 0..max_retries
       /\ task[g].round \in 0..max_retries
       /\ task[g].nested \in 0..NCalls
       /\ \A i \in DOMAIN task[g].out : task[g].out[i] \in Results
       /\ \A i \in DOMAIN task[g].body : task[g].body[i] \in Results

(* Whatever endpoints fail, fork, lag, limit or disagree while batches run *)
(* side by side on one pool, an execution ends, and what it returns is one *)
(* result per call, in order, each the state at the anchor or a failure.   *)
Abstract == INSTANCE PinnedRead WITH Truth <- Value[Anchor]
ImplementsPinnedRead == Abstract!Spec

(* "The caller's sentinel exclusions stay in `excluded` and are never      *)
(* reselected" (_eth_call), although the last endpoint is asked again when *)
(* nothing can be selected; and an endpoint that failed its probes is never*)
(* asked, whatever was reported about it.                                  *)
AskedIsTrusted ==
  \A g \in DOMAIN task : task[g].pc = "ask" =>
    /\ task[g].at \notin task[g].refuted
    /\ health[task[g].at] # "barred"
=============================================================================
