----------------------------- MODULE PinnedRead -----------------------------
(***************************************************************************)
(* What HistoricalCallExecutor.execute promises its callers: either it     *)
(* raises, or it returns one result per call, in the order of the calls,   *)
(* and every result that is a success is the state at the anchor block.    *)
(* One execution is one atomic step here; no endpoint, batch, retry or     *)
(* provider appears.                                                       *)
(***************************************************************************)
EXTENDS Naturals, Sequences

CONSTANTS
  NCalls,   \* the calls are 1..NCalls
  Truth,    \* [1..NCalls -> value of the call at the anchor]
  Failed    \* the result of a call that did not succeed

VARIABLES
  status,   \* "running", "returned" or "raised"
  results   \* what was returned: a sequence of <<call, result>>

Init == status = "running" /\ results = <<>>

Raise == /\ status = "running"
         /\ status' = "raised"
         /\ UNCHANGED results

Return == /\ status = "running"
          /\ status' = "returned"
          /\ \E value \in [1..NCalls -> {Failed} \cup {Truth[c] : c \in 1..NCalls}] :
               /\ \A c \in 1..NCalls : value[c] \in {Failed, Truth[c]}
               /\ results' = [c \in 1..NCalls |-> <<c, value[c]>>]

Next == Raise \/ Return

(* Every execution ends: the retries of the code are bounded. *)
Spec == /\ Init
        /\ [][Next]_<<status, results>>
        /\ WF_<<status, results>>(Next)
=============================================================================
