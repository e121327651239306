------------------------- MODULE UniverseSelectors -------------------------
(***************************************************************************)
(* UniverseResolver (core/universes.py): the addresses a selector of the   *)
(* catalog stands for, each with the sources it came from.  universes maps *)
(* names to selectors: full_holders, explicit_list with its addresses, or  *)
(* union and intersect of other selectors.                                 *)
(***************************************************************************)
EXTENDS FiniteSets

CONSTANTS
  HolderRows,  \* holder_members of the token and of its aliases:
               \* <<ledger, address, source>>
  Ledgers,     \* the token and its universe_aliases
  SeedHolders  \* seed_holders of the token

ASSUME RowsAssumption == \A r \in HolderRows : r = <<r[1], r[2], r[3]>>

(* The sources of every address, or a ConfigError. *)
ConfigError == [raised |-> TRUE]
Frozen(sources) == [raised |-> FALSE, sources |-> sources]

(* The ConfigError for an address whose provenance is missing or empty     *)
(* cannot happen here: a stored row has its source.                        *)
full_holders(name) ==
  LET rows == {r \in HolderRows : r[1] \in Ledgers}
  IN  [a \in {r[2] : r \in rows} \cup SeedHolders |->
         {<<name, r[3]>> : r \in {x \in rows : x[2] = a}}
         \cup IF a \in SeedHolders THEN {<<"full_holders", "config_seed">>} ELSE {}]

explicit_list(name, members) == [a \in members |-> {<<name, "explicit_list">>}]

(* Mutant: only the first child decides who is in an intersection. *)
Shared_first(children) == DOMAIN children[CHOOSE c \in DOMAIN children : TRUE].sources
Shared(children) ==
  {a \in UNION {DOMAIN children[c].sources : c \in DOMAIN children} :
     \A c \in DOMAIN children : a \in DOMAIN children[c].sources}

(* The labels of a in the children that have it. *)
Combined(children, addresses) ==
  [a \in addresses |->
     UNION {children[c].sources[a] :
              c \in {d \in DOMAIN children : a \in DOMAIN children[d].sources}}]

(* What a selector stands for, given its children. *)
Resolved(universes, name, children) ==
  LET selector == universes[name]
      all == UNION {DOMAIN children[c].sources : c \in DOMAIN children}
  IN  CASE selector.kind = "full_holders" -> Frozen(full_holders(name))
        [] selector.kind = "explicit_list" ->
             Frozen(explicit_list(name, selector.members))
        [] OTHER ->
             IF DOMAIN children = {} \/ \E c \in DOMAIN children : children[c].raised
             THEN ConfigError
             ELSE Frozen(Combined(children,
                    IF selector.kind = "union" THEN all ELSE Shared(children)))

Children(universes, name) ==
  IF universes[name].kind \in {"union", "intersect"} THEN universes[name].of ELSE {}

(* stack holds the names above: meeting one of them again is a cycle. *)
resolve_map(universes) ==
  LET known == DOMAIN universes
      map[stack \in SUBSET known] ==
        [name \in known |->
           IF name \in stack THEN ConfigError
           ELSE Resolved(universes, name,
                  [c \in Children(universes, name) |->
                     IF c \in known THEN map[stack \cup {name}][c] ELSE ConfigError])]
  IN  map

resolve(universes, name) ==
  IF name \in DOMAIN universes THEN resolve_map(universes)[{}][name] ELSE ConfigError

-----------------------------------------------------------------------------
(* What it promises.                                                       *)

NamesOf(universes) ==
  DOMAIN universes \cup UNION {Children(universes, n) : n \in DOMAIN universes}

(* The names a selector refers to, directly or through others. *)
Closed(universes, names) ==
  \A n \in names \cap DOMAIN universes : Children(universes, n) \subseteq names
Referred(universes, name) ==
  {n \in NamesOf(universes) :
     \A names \in SUBSET NamesOf(universes) :
       name \in names /\ Closed(universes, names) => n \in names}

(* A selector that has no meaning: it reaches a name that is not in the    *)
(* catalog, one that refers to itself, or a combination of nothing.        *)
Combines(universes, n) == universes[n].kind \in {"union", "intersect"}
Broken(universes, name) ==
  \E n \in Referred(universes, name) :
    \/ n \notin DOMAIN universes
    \/ \E c \in Children(universes, n) : n \in Referred(universes, c)
    \/ Combines(universes, n) /\ Children(universes, n) = {}

(* The addresses of a selector, when members gives those of its children; *)
(* and a members that gives every selector its meaning.                    *)
Meaning(universes, n, members) ==
  LET of == {members[c] : c \in Children(universes, n)}
  IN  CASE universes[n].kind = "full_holders" ->
             {r[2] : r \in {x \in HolderRows : x[1] \in Ledgers}} \cup SeedHolders
        [] universes[n].kind = "explicit_list" -> universes[n].members
        [] universes[n].kind = "union" -> UNION of
        [] OTHER -> {a \in UNION of : \A addresses \in of : a \in addresses}
Solves(universes, members) ==
  \A n \in DOMAIN members : members[n] = Meaning(universes, n, members)

(* A label names what put the address into the universe. *)
Truthful(universes, label, a) ==
  \/ label = <<"full_holders", "config_seed">> /\ a \in SeedHolders
  \/ /\ universes[label[1]].kind = "full_holders"
     /\ \E l \in Ledgers : <<l, a, label[2]>> \in HolderRows
  \/ /\ universes[label[1]].kind = "explicit_list" /\ label[2] = "explicit_list"
     /\ a \in universes[label[1]].members

(* resolve raises exactly on a broken selector; otherwise the addresses it *)
(* returns are the selector's meaning, as are those of all it refers to,   *)
(* and every address has labels, which are true.                           *)
ExactSelector(universes, name) ==
  LET reached == Referred(universes, name)
      result == resolve(universes, name)
  IN  /\ result.raised <=> Broken(universes, name)
      /\ ~result.raised =>
           /\ Solves(universes, [n \in reached |-> DOMAIN resolve(universes, n).sources])
           /\ \A a \in DOMAIN result.sources :
                /\ result.sources[a] # {}
                /\ \A label \in result.sources[a] : Truthful(universes, label, a)
=============================================================================
