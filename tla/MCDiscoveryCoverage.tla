------------------------ MODULE MCDiscoveryCoverage ------------------------
(* Model values and bounds for DiscoveryCoverage. *)
EXTENDS DiscoveryCoverage

CONSTANTS p1, p2, x, y, z

(* A holder that returns, one that comes late, and a busy block. *)
MCLogs == {<<1, x>>, <<2, y>>, <<3, x>>, <<3, z>>}
(* Block 4 alone reaches the result cap. *)
CrowdedLogs == MCLogs \cup {<<4, x>>, <<4, y>>, <<4, z>>}
=============================================================================
