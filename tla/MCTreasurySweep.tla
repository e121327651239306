-------------------------- MODULE MCTreasurySweep --------------------------
(* Model values and bounds for TreasurySweep. *)
EXTENDS TreasurySweep

CONSTANTS w1, w2, gno, spam, late, dead, nft

(* A token of both wallets, one that always fails, one that only the       *)
(* second wallet meets and only on the second day, one the operator has    *)
(* switched off, and a contract whose logs are not fungible.               *)
MCLogs == {<<1, 1, w1, gno>>, <<2, 2, w1, spam>>, <<2, 2, w2, gno>>,
           <<4, 1, w2, late>>, <<3, 1, w1, dead>>, <<3, 2, w2, nft>>}
MCAnchors == <<2, 5>>
(* The curated entry of one token ends after the first day. *)
MCActiveOn == <<{gno, spam, late, dead, nft}, {spam, late, dead, nft}>>
=============================================================================
