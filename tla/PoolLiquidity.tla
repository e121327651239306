--------------------------- MODULE PoolLiquidity ---------------------------
(***************************************************************************)
(* How the liquidity of a concentrated-liquidity pool is read and served:  *)
(* ClLiquidityCollector (collectors/cl_liquidity.py) finds the initialized *)
(* ticks in the pool's bitmap, reads each and reconciles them with the     *)
(* pool's state; what is published becomes the segments of ClProfileModule *)
(* (compute/cl_profile.py).  Each of the calls of a round may fail.        *)
(*                                                                         *)
(* A pool is given by its positions <<lower, upper, amount>>; everything a *)
(* call returns follows from them.                                         *)
(***************************************************************************)
EXTENDS Integers, FiniteSetsExt, Functions

CONSTANTS
  MIN_TICK, MAX_TICK,
  WORD,                 \* bits of a bitmap word (256)
  min_active_liquidity

ASSUME PoolConstants ==
  /\ MIN_TICK \in Int /\ MAX_TICK \in Int
  /\ WORD \in Nat \ {0}
  /\ min_active_liquidity \in Nat

-----------------------------------------------------------------------------
(* The pool contract.                                                      *)

compressed(pool) == pool.class = "uniswap_v3"

initialized(pool) == UNION {{p[1], p[2]} : p \in pool.positions}

Amount(positions) == SumFunction([p \in positions |-> p[3]])

liquidity_net(pool, t) ==
  Amount({p \in pool.positions : p[1] = t}) - Amount({p \in pool.positions : p[2] = t})

(* The liquidity that is in range at a tick. *)
LiquidityAt(pool, t) == Amount({p \in pool.positions : p[1] <= t /\ t < p[2]})

(* Uniswap keys its bitmap by tick / tickSpacing, Algebra by the tick. *)
Slot(pool, t) == IF compressed(pool) THEN t \div pool.spacing ELSE t
bitmap(pool, w) ==
  {Slot(pool, t) % WORD : t \in {u \in initialized(pool) : Slot(pool, u) \div WORD = w}}

-----------------------------------------------------------------------------
(* ClLiquidityCollector.  lost is the set of calls that fail or whose      *)
(* return data cannot be decoded: <<"st", key>> of the state, <<"bm", w>>  *)
(* for a bitmap word and <<"tk", t>> for a tick.                           *)

state_calls(pool) ==
  {"liquidity", "tickSpacing", "feeGrowth0", "feeGrowth1"}
  \cup IF compressed(pool) THEN {"slot0", "fee"} ELSE {"globalState"}

(* _decode_state raises: a pool that cannot report its state fails. *)
StateRaises(pool, lost) == \E k \in state_calls(pool) : <<"st", k>> \in lost

(* Shifting by 8 rounds towards minus infinity, as // does. *)
bitmap_calls(pool) ==
  IF compressed(pool)
  THEN ((MIN_TICK \div pool.spacing) \div WORD)..((MAX_TICK \div pool.spacing) \div WORD)
  ELSE (MIN_TICK \div WORD)..(MAX_TICK \div WORD)

tick_at(pool, w, bit) ==
  (w * WORD + bit) * (IF compressed(pool) THEN pool.spacing ELSE 1)

discover_ticks(pool, lost) ==
  LET read == {w \in bitmap_calls(pool) : <<"bm", w>> \notin lost}
      found == UNION {{tick_at(pool, w, bit) : bit \in bitmap(pool, w)} : w \in read}
  IN  found \cap MIN_TICK..MAX_TICK

BelowThreshold(pool) == LiquidityAt(pool, pool.tick) < min_active_liquidity

(* A tick is read as it is; the struct agrees with the bitmap, since both  *)
(* are read at the anchor.                                                 *)
materialize_ticks(pool, lost) ==
  IF BelowThreshold(pool) THEN {}
  ELSE {t \in discover_ticks(pool, lost) : <<"tk", t>> \notin lost}

(* Mutant: a bitmap word that failed is passed over. *)
errors_ticks(pool, lost) ==
  lost \cap {<<"tk", t>> : t \in discover_ticks(pool, lost)}
errors(pool, lost) ==
  IF BelowThreshold(pool) THEN {}
  ELSE lost \cap (       {<<"bm", w>> : w \in bitmap_calls(pool)}
                  \cup {<<"tk", t>> : t \in discover_ticks(pool, lost)})

NetSum(pool, ticks) == SumFunction([t \in ticks |-> liquidity_net(pool, t)])

reconcile(pool, ticks) ==
  /\ NetSum(pool, ticks) = 0
  /\ NetSum(pool, {t \in ticks : t <= pool.tick}) = LiquidityAt(pool, pool.tick)

(* What the census publishes: all checks passed and no terminal error. *)
Publishable(pool, lost) ==
  /\ ~StateRaises(pool, lost)
  /\ errors(pool, lost) = {}
  /\ BelowThreshold(pool) \/ reconcile(pool, materialize_ticks(pool, lost))

-----------------------------------------------------------------------------
(* ClProfileModule                                                         *)

(* _segments: from each tick to the next, the sum of the net liquidities   *)
(* up to it.                                                               *)
segments(pool, ticks) ==
  {<<t, Min({u \in ticks : u > t}), NetSum(pool, {u \in ticks : u <= t})>> :
     t \in {x \in ticks : \E u \in ticks : u > x}}

(* compute raises on a negative liquidity. *)
ProfileRaises(pool, ticks) == \E s \in segments(pool, ticks) : s[3] < 0

(* What a reader of pool_liquidity_profile finds at a tick. *)
ProfileAt(pool, ticks, t) ==
  Amount({s \in segments(pool, ticks) : s[1] <= t /\ t < s[2]})

-----------------------------------------------------------------------------
(* What they promise.                                                      *)

(* A pool that was read whole is published; and a pool that is published   *)
(* with its ticks has a profile, which gives at every tick the liquidity   *)
(* of the positions in range there.  The two sums of _reconcile do not see *)
(* a position out of range that is missing as a whole; the terminal errors *)
(* of the calls do.                                                        *)
ExactProfile(pool, lost) ==
  LET ticks == materialize_ticks(pool, lost)
  IN  /\ lost = {} => Publishable(pool, {})
      /\ Publishable(pool, lost) /\ ~BelowThreshold(pool) =>
           /\ ~ProfileRaises(pool, ticks)
           /\ \A t \in MIN_TICK..MAX_TICK :
                ProfileAt(pool, ticks, t) = LiquidityAt(pool, t)
=============================================================================
