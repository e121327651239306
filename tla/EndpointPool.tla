---------------------------- MODULE EndpointPool ----------------------------
(***************************************************************************)
(* The shared pool of RPC endpoints (rpc/endpoint_pool.py, rpc/endpoint.py)*)
(* and the classes of failure (rpc/classification.py).  Every batch of a   *)
(* census, and every other call of the process, selects from one pool and  *)
(* reports back to it.                                                     *)
(***************************************************************************)
EXTENDS Integers, Sequences, FiniteSets

CONSTANTS
  Endpoints,         \* the endpoints, in configuration order: a sequence
  hash_policy,       \* [endpoint -> what it makes of a block hash]
  provider_group,    \* [endpoint -> provider group]
  archive_from_block \* the block whose state the probes asked for

Names == {Endpoints[i] : i \in DOMAIN Endpoints}
Count == Len(Endpoints)

ASSUME PoolConstants ==
  /\ Endpoints \in Seq(Names) /\ Count \in Nat \ {0}
  /\ Cardinality(Names) = Count
  /\ hash_policy \in [Names -> {"strict", "lenient", "latest", "rejects"}]
  /\ archive_from_block \in Nat

(* probe_eip1898.  A lenient endpoint answers a hash it does not have from *)
(* another block, one that reads the latest block does so with every hash. *)
canonical_call_works(e) == hash_policy[e] \in {"strict", "lenient"}
bogus_call_fails(e) == hash_policy[e] \in {"strict", "rejects"}
probe_eip1898(e) == canonical_call_works(e) /\ bogus_call_fails(e)
Eip1898 == {e \in Names : probe_eip1898(e)}

VARIABLES
  cursor,    \* 0..Count-1: where the next rotation starts
  health,    \* [Names -> "ok", "cooling" or "barred"]
  archived   \* endpoints whose state at the anchor is known to be gone

poolVars == <<cursor, health, archived>>

(* A failed probe sets cooldown_until to infinity: the endpoint is barred. *)
Healths == {"ok", "cooling", "barred"}

PoolTypeOK ==
  /\ cursor \in 0..(Count - 1)
  /\ health \in [Names -> Healths]
  /\ archived \in SUBSET Names

(* _probe_endpoints: what passed the probes has state from one block on    *)
(* and must be able to pin a block, by hash or by a quorum of independent  *)
(* provider groups.                                                        *)
PoolInit(quorum) ==
  /\ cursor = 0
  /\ archived = {}
  /\ \E probed \in (SUBSET Names) \ {{}} :
       /\ \/ probed \cap Eip1898 # {}
          \/ Cardinality({provider_group[e] : e \in probed}) >= quorum
       /\ health = [e \in Names |-> IF e \in probed THEN "ok" ELSE "barred"]

(* An unhealthy endpoint serves again when its cooldown is over. *)
can_serve(e, block) ==
  /\ health[e] = "ok"
  /\ block >= archive_from_block
  /\ e \notin archived

Serving(block) == {e \in Names : can_serve(e, block)}

(* select: the first candidate from the cursor on, round the pool. *)
Rotated(offset) == (cursor + offset) % Count
FirstOffset(candidates) ==
  CHOOSE o \in 0..(Count - 1) :
    /\ Endpoints[Rotated(o) + 1] \in candidates
    /\ \A i \in 0..(o - 1) : Endpoints[Rotated(i) + 1] \notin candidates
Selected(candidates) == Endpoints[Rotated(FirstOffset(candidates)) + 1]
CursorAfter(candidates) == (Rotated(FirstOffset(candidates)) + 1) % Count

(* select_distinct_groups: in configuration order, one endpoint per group. *)
GroupLeaders(block) ==
  {Endpoints[i] : i \in {j \in 1..Count :
     /\ can_serve(Endpoints[j], block)
     /\ \A k \in 1..(j - 1) : can_serve(Endpoints[k], block) =>
          provider_group[Endpoints[k]] # provider_group[Endpoints[j]]}}
Position(e) == CHOOSE i \in 1..Count : Endpoints[i] = e
QuorumMembers(count, block) ==
  {e \in GroupLeaders(block) :
     Cardinality({d \in GroupLeaders(block) : Position(d) < Position(e)}) < count}

record_success(e) == /\ health' = [health EXCEPT ![e] = "ok"]
                     /\ UNCHANGED archived

-----------------------------------------------------------------------------
(* classify_rpc_failure.  Transport and protocol errors, rate limits and   *)
(* 5xx answers are transient; reverts, and everything the classes do not   *)
(* name, a hash mismatch included, are permanent.                          *)
FailureKinds == {"transient", "archive", "limit", "permanent"}
retryable(kind) == kind = "transient"
failover(kind) == kind \in {"transient", "archive"}

record_failure(e, kind) ==
  /\ health' = IF failover(kind) THEN [health EXCEPT ![e] = "cooling"] ELSE health
  /\ archived' = IF kind = "archive" THEN archived \cup {e} ELSE archived

(* The other calls of the process (AsyncRpcClient.call, and the executions *)
(* of other targets) select among the endpoints they have not excluded and *)
(* report what became of their requests, about any block.                  *)
OtherSelects ==
  /\ \E candidates \in (SUBSET {e \in Names : health[e] = "ok"}) \ {{}} :
       cursor' = CursorAfter(candidates)
  /\ UNCHANGED <<health, archived>>

OtherReports(e) ==
  /\ health[e] # "barred"
  /\ record_success(e) \/ \E kind \in FailureKinds : record_failure(e, kind)
  /\ UNCHANGED cursor

CooldownEnds(e) ==
  /\ health[e] = "cooling"
  /\ health' = [health EXCEPT ![e] = "ok"]
  /\ UNCHANGED <<cursor, archived>>
=============================================================================
