--------------------------- MODULE MCFoundations ---------------------------
(***************************************************************************)
(* The parts the other modules stand on, each against a reference that is  *)
(* stated another way, over every small input.  An initial state chooses   *)
(* one of six subjects:                                                    *)
(*   ranges     stores of at most MaxRanges completed ranges below         *)
(*              MaxBlock: scans of several processes, split anywhere, may  *)
(*              leave ranges that overlap, nest, touch or repeat;          *)
(*   pool       pools with at most two positions, of which at most one     *)
(*              call is lost;                                              *)
(*   atoken     scaled ledgers of two holders, with a universe that may    *)
(*              miss one, of which any calls are lost;                     *)
(*   vault      lists of at most two assets, repeated or unknown ones      *)
(*              included;                                                  *)
(*   universes  catalogs of three selectors, cycles and unknown names      *)
(*              included;                                                  *)
(*   schema     runs of the migrations, which die and are repeated.        *)
(***************************************************************************)
EXTENDS BlockRanges, PoolLiquidity, BalanceCollectors, UniverseSelectors

CONSTANTS MaxBlock, MaxRanges, Spacings, Release, MaxFaults

ASSUME InputBounds == MaxBlock \in Nat /\ Spacings \subseteq Nat \ {0}

VARIABLES
  subject,
  input,      \* of the subject's functions
  shipped, edited, schema, ledger, pc, file, statement, boot, applied, faults

M == INSTANCE Migrations

ASSUME ReleaseAssumption == M!ReleaseWellFormed

schemaVars == <<shipped, edited, schema, ledger, pc, file, statement, boot,
                applied, faults>>
vars == <<subject, input, schemaVars>>

-----------------------------------------------------------------------------
(* The inputs.                                                             *)

SmallRanges == {r \in (0..MaxBlock) \X (0..MaxBlock) : r[1] < r[2]}

MCMinTick == -3
Ticks == MIN_TICK..MAX_TICK
Positions(spacing) ==
  {p \in Ticks \X Ticks \X {1, 2} : /\ p[1] < p[2]
                                    /\ p[1] % spacing = 0 /\ p[2] % spacing = 0}
PoolsOf(class, spacing) ==
  {[class |-> class, spacing |-> spacing, positions |-> {p, q}, tick |-> t] :
     p \in Positions(spacing), q \in Positions(spacing), t \in Ticks}
Pools == UNION {PoolsOf(class, s) : class \in {"uniswap_v3", "algebra"}, s \in Spacings}

ATokens ==
  [scaled : [{"a", "b"} -> 0..4], universe : {{"a"}, {"a", "b"}}, index : 0..7,
   mode : {"scaled_full_supply", "scoped"}]
Vaults ==
  [pairs : UNION {[1..n -> {"x", "y"} \X (0..2)] : n \in 0..2},
   assets : {{"x"}, {"y"}, {"x", "y"}}, success : BOOLEAN]

Names == {"treasury", "holders", "both"}
Selectors ==
  {[kind |-> "full_holders"]}
  \cup {[kind |-> "explicit_list", members |-> m] : m \in {{"a"}, {"b", "d"}}}
  \cup {[kind |-> k, of |-> o] : k \in {"union", "intersect"},
          o \in {{"treasury"}, {"holders"}, {"treasury", "holders"},
                 {"holders", "both"}, {"holders", "unknown"}}}

(* The first file makes the ledger; the last two define one view.          *)
MCRelease == << << <<"database", "create">>, <<"migrations", "create">> >>,
                << <<"table", "create">>, <<"view", "replace">> >>,
                << <<"view", "replace">> >> >>
MCHolderRows == {<<"token", "a", "transfer">>, <<"token", "b", "transfer">>,
                 <<"alias", "b", "mint">>, <<"other", "d", "transfer">>}

Init ==
  /\ M!Init
  /\ \/ /\ subject = "ranges"
        /\ input \in {[completed |-> {}, required |-> r] : r \in SmallRanges}
     \/ /\ subject = "pool"
        /\ input \in {[pool |-> p, lost |-> {}] : p \in Pools}
     \/ /\ subject = "atoken"
        /\ input \in {[token |-> t, lost |-> {}] : t \in ATokens}
     \/ subject = "vault" /\ input \in Vaults
     \/ subject = "universes" /\ input \in [Names -> Selectors]
     \/ subject = "schema" /\ input = <<>>

AddRange ==
  /\ subject = "ranges" /\ Cardinality(input.completed) < MaxRanges
  /\ \E r \in SmallRanges \ input.completed :
       input' = [input EXCEPT !.completed = @ \cup {r}]
  /\ UNCHANGED <<subject, schemaVars>>

LoseCall ==
  /\ subject = "pool" /\ input.lost = {}
  /\ \E call \in {<<"st", k>> : k \in state_calls(input.pool)}
                 \cup {<<"bm", w>> : w \in bitmap_calls(input.pool)}
                 \cup {<<"tk", t>> : t \in initialized(input.pool)} :
       input' = [input EXCEPT !.lost = {call}]
  /\ UNCHANGED <<subject, schemaVars>>

LoseRead ==
  /\ subject = "atoken"
  /\ \E call \in atoken_calls(input.token) \ input.lost :
       input' = [input EXCEPT !.lost = @ \cup {call}]
  /\ UNCHANGED <<subject, schemaVars>>

Migrate ==
  /\ subject = "schema"
  /\ M!Next
  /\ UNCHANGED <<subject, input>>

Next == AddRange \/ LoseCall \/ LoseRead \/ Migrate

Spec == Init /\ [][Next]_vars

-----------------------------------------------------------------------------
(* Ranges.                                                                 *)

(* What advance rescans and what it relies on: merge_coverage,             *)
(* coverage_gaps and contiguous_frontier lose no block and claim none.     *)
CoverageExact == subject = "ranges" => ExactCoverage(input.required, input.completed)

(* The chunks and halves scan_filter reads partition the range they come   *)
(* from, and each half is a range again.                                   *)
PartsExact == subject = "ranges" => \A n \in 1..MaxBlock : ExactParts(input.required, n)

-----------------------------------------------------------------------------
(* Liquidity.                                                              *)

(* What a reader of the profile finds is the liquidity of the pool, unless *)
(* the pool is not published.                                              *)
ProfileExact == subject = "pool" => ExactProfile(input.pool, input.lost)

-----------------------------------------------------------------------------
(* Balances.                                                               *)

(* What the aToken collector reports as verified is exact to the unit,     *)
(* whatever calls were lost, and so are the reserves of a vault, whatever  *)
(* it lists.                                                               *)
BalancesExact ==
  /\ subject = "atoken" => ExactBalances(input.token, input.lost)
  /\ subject = "vault" => ExactReserves(input)

-----------------------------------------------------------------------------
(* Universes.                                                              *)

(* The resolver raises exactly on the selectors that have no meaning, and  *)
(* returns the meaning of the others.                                      *)
SelectorsExact == subject = "universes" => \A n \in Names : ExactSelector(input, n)

(* Schema: see Migrations. *)
SchemaIsRelease == M!SchemaIsRelease
=============================================================================
