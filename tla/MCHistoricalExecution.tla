----------------------- MODULE MCHistoricalExecution -----------------------
(* Model values and bounds for HistoricalExecution. *)
EXTENDS HistoricalExecution

CONSTANTS e1, e2, g1, g2, anchor, sibling

(* One behind a load balancer, which answers unknown hashes too, and one   *)
(* that honours hash references.                                           *)
MCEndpoints == <<e2, e1>>
MCGroups == [e \in {e1, e2} |-> IF e = e2 THEN g2 ELSE g1]
MCPolicy == [e \in {e1, e2} |-> IF e = e2 THEN "lenient" ELSE "strict"]

(* Every value shows the block it was read from. *)
MCSentinel == [b \in {anchor, sibling} |-> b]
MCValue == [b \in {anchor, sibling} |-> [c \in 1..NCalls |-> b]]
=============================================================================
