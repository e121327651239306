------------------------- MODULE BalanceCollectors -------------------------
(***************************************************************************)
(* What two collectors make of the results of their calls:                 *)
(* ATokenCollector (collectors/atoken.py) reads scaled balances, supplies  *)
(* and the liquidity index of the reserve and reconstructs the balances;   *)
(* BalancerPoolCollector (collectors/balancer.py) takes the reserves of a  *)
(* pool out of the list its vault returns.  The calls themselves are       *)
(* HistoricalExecution's; lost is the set of those that failed or whose    *)
(* return data could not be decoded.                                       *)
(***************************************************************************)
EXTENDS Integers, Sequences, FiniteSetsExt, Functions

CONSTANTS
  RAY,         \* 10^27: what an index of 1 is written as; even
  UINT256_MAX

ASSUME UnitConstants == RAY \in Nat \ {0} /\ RAY % 2 = 0 /\ UINT256_MAX \in Nat

HALF_RAY == RAY \div 2

-----------------------------------------------------------------------------
(* ATokenCollector.  An aToken is its ledger of scaled balances, the index *)
(* of its reserve, and the frozen universe, which may miss a holder.       *)

(* The supply the contract reports. *)
scaledTotalSupply(token) == SumFunction(token.scaled)

atoken_calls(token) ==
  {<<"scaledBalanceOf", h>> : h \in token.universe}
  \cup {<<"scaledTotalSupply">>, <<"liquidityIndex">>}

scaled_values(token, lost) ==
  {h \in token.universe : <<"scaledBalanceOf", h>> \notin lost}

(* Mutant: Aave's rayMul without the half. *)
ray_mul_half_up_floor(value, ray_factor) == (value * ray_factor) \div RAY
ray_mul_half_up(value, ray_factor) == (value * ray_factor + HALF_RAY) \div RAY

Overflows(token, h) == ray_mul_half_up(token.scaled[h], token.index) > UINT256_MAX

(* Without the index no balance can be reconstructed. *)
Reconstructed(token, lost) ==
  IF <<"liquidityIndex">> \in lost THEN {}
  ELSE {h \in scaled_values(token, lost) : ~Overflows(token, h)}
atoken_balances(token, lost) ==
  [h \in Reconstructed(token, lost) |-> ray_mul_half_up(token.scaled[h], token.index)]

atoken_errors(token, lost) ==
  (lost \cap atoken_calls(token))
  \cup {<<"ray_reconstruct", h>> :
          h \in scaled_values(token, lost) \ Reconstructed(token, lost)}

Complete(token, lost) ==
  /\ lost \cap atoken_calls(token) = {}
  /\ Reconstructed(token, lost) = token.universe
  /\ atoken_errors(token, lost) = {}

(* TokenCollectionResult.verified, under scaled_full_supply or scoped. *)
atoken_verified(token, lost) ==
  /\ atoken_errors(token, lost) = {}
  /\ Complete(token, lost)
  /\ token.mode = "scaled_full_supply" =>
       SumFunctionOnSet(token.scaled, scaled_values(token, lost))
         = scaledTotalSupply(token)

-----------------------------------------------------------------------------
(* BalancerPoolCollector.  A vault returns <<asset, amount>> pairs; assets *)
(* are the configured ones.                                                *)

Listed(vault) == {vault.pairs[i][1] : i \in DOMAIN vault.pairs}

(* dict(pairs): the last pair of an asset counts. *)
returned(vault) ==
  [asset \in Listed(vault) |->
     LET last == Max({i \in DOMAIN vault.pairs : vault.pairs[i][1] = asset})
     IN  vault.pairs[last][2]]

(* A duplicate is refused, a missing asset too; others are left out. *)
vault_errors(vault) ==
  \/ ~vault.success \/ vault.pairs = <<>>
  \/ Cardinality(Listed(vault)) # Len(vault.pairs)
  \/ ~(vault.assets \subseteq Listed(vault))

vault_balances(vault) ==
  IF vault_errors(vault) THEN <<>> ELSE [a \in vault.assets |-> returned(vault)[a]]

pool_verified(vault) ==
  ~vault_errors(vault) /\ DOMAIN vault_balances(vault) = vault.assets

-----------------------------------------------------------------------------
(* What they promise.                                                      *)

Distance(x, y) == IF x < y THEN y - x ELSE x - y

(* A holder's balance is the integer next to scaled * index / RAY, the     *)
(* higher of two that are equally near ("nearest integer with ties rounded *)
(* up"), and fits a uint256.                                               *)
Nearest(token, h, balance) ==
  LET exact == token.scaled[h] * token.index
  IN  /\ balance <= UINT256_MAX
      /\ \A other \in (balance - 1)..(balance + 1) :
           \/ Distance(RAY * balance, exact) < Distance(RAY * other, exact)
           \/ Distance(RAY * balance, exact) = Distance(RAY * other, exact) /\ other <= balance

Holders(token) == {h \in DOMAIN token.scaled : token.scaled[h] > 0}

(* What the aToken collector reports as verified, whatever calls were      *)
(* lost, holds the balance of every account of the universe; under         *)
(* scaled_full_supply the universe misses no holder, and the balances are  *)
(* off the scaled supply by at most half a unit each.  A complete reading  *)
(* of a complete universe is verified unless a balance overflows.          *)
ExactBalances(token, lost) ==
  LET balances == atoken_balances(token, lost)
      total == SumFunction(balances)
  IN  /\ atoken_verified(token, lost) =>
           /\ DOMAIN balances = token.universe
           /\ \A h \in token.universe : Nearest(token, h, balances[h])
           /\ token.mode = "scaled_full_supply" =>
                /\ Holders(token) \subseteq token.universe
                /\ 2 * Distance(RAY * total, scaledTotalSupply(token) * token.index)
                     <= RAY * Cardinality(token.universe)
      /\ lost = {} /\ Holders(token) \subseteq token.universe =>
           \/ atoken_verified(token, {})
           \/ \E h \in token.universe : Overflows(token, h)

(* The reserve of every configured asset is the amount of the one pair the *)
(* vault lists for it.                                                     *)
ExactReserves(vault) ==
  pool_verified(vault) =>
    \A a \in vault.assets : \E i \in DOMAIN vault.pairs :
      /\ vault.pairs[i] = <<a, vault_balances(vault)[a]>>
      /\ \A j \in DOMAIN vault.pairs : vault.pairs[j][1] = a => j = i
=============================================================================
