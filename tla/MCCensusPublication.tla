----------------------- MODULE MCCensusPublication -----------------------
(* Model values and bounds for CensusPublication. *)
EXTENDS CensusPublication

CONSTANTS a1, a2, a3, h1, h2, c1, c2, supply, fresh

MCHolders == {h1, h2}
(* One holder is dust within the allowance, the other is not. *)
MCBalance == [h \in MCHolders |-> IF h = h1 THEN 1 ELSE 3]
(* A lagging replica returns the holders of an earlier scan. *)
MCUniverseReads == {{h1}, {h2}, {h1, h2}}
NoHolders == {}
NoBalance == [h \in {} |-> 0]
NoReads == {{}}
=============================================================================
