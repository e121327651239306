--------------------------- MODULE MCDayAnchors ---------------------------
(* Model values and bounds for DayAnchors. *)
EXTENDS DayAnchors

CONSTANTS p1, p2

(* Two views that fork after block 1.  Hashes name the fork and number.    *)
(* The day ends with block 2 in one view and with block 3 in the other, so *)
(* that block 2 of the second and block 3 of the first look like a proof.  *)
MCHeight == 5
Hash(fork, n) == <<IF n <= 1 THEN "trunk" ELSE fork, n>>
View(fork, ts) ==
  [n \in 0..MCHeight |-> [number |-> n, hash |-> Hash(fork, n),
                          parent_hash |-> Hash(fork, n - 1),
                          timestamp |-> ts[n + 1]]]
MCViews == {View("left", <<0, 2, 4, 6, 8, 9>>),
            View("right", <<0, 2, 3, 5, 7, 9>>)}
=============================================================================
