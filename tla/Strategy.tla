------------------------------ MODULE Strategy ------------------------------
(***************************************************************************)
(* The order in which select_best_endpoint (src/src/strategy.rs) offers a    *)
(* request to the available endpoints.  Pure operators.                      *)
(*                                                                         *)
(* The order is lexicographic: an endpoint has a key, a tuple of integers,   *)
(* and the smaller key comes first.  The sort is stable, which the last      *)
(* component, the position in the configuration, stands for.                 *)
(***************************************************************************)
EXTENDS Integers, FiniteSets

CONSTANTS
    Urls,
    Weight,    \* the configured weight of every endpoint
    Position   \* its place in the configured list

Tier1MinWeight == 100
Tier2MinWeight == 50
Tier3MinWeight == 1

ASSUME StrategyAssumption ==
    /\ IsFiniteSet(Urls)
    /\ Weight \in [Urls -> Nat]
    /\ Position \in [Urls -> Nat]
    /\ \A u, v \in Urls : Position[u] = Position[v] => u = v

(* 4 stands for "no tier": weight 0, which the filter drops. *)
Tier(u) ==
    CASE Weight[u] >= Tier1MinWeight -> 1
      [] Weight[u] \in Tier2MinWeight .. Tier1MinWeight - 1 -> 2
      [] Weight[u] \in Tier3MinWeight .. Tier2MinWeight - 1 -> 3
      [] OTHER -> 4

UsesCost(tier) == tier = 2

(* Weight descending, cost ascending where the tier uses it, then the most    *)
(* recently selected first.                                                   *)
SelectionKey(u, cost, last) ==
    << -Weight[u], IF UsesCost(Tier(u)) THEN cost[u] ELSE 0, -last[u], Position[u] >>

Smaller(k, l) ==
    \E i \in 1..4 : k[i] < l[i] /\ \A j \in 1..(i - 1) : k[j] = l[j]

(* The arrangements of S (there is one) in which earlier means a smaller key. *)
Arranged(S, key(_)) ==
    { order \in [1..Cardinality(S) -> S] :
        /\ \A u \in S : \E i \in 1..Cardinality(S) : order[i] = u
        /\ \A i, j \in 1..Cardinality(S) : i < j => Smaller(key(order[i]), key(order[j])) }

(* What is left of the order when costs and timestamps change under sort_by:   *)
(* the weights, which every comparison looks at first, do not.                 *)
WeighedOrders(S) ==
    { order \in [1..Cardinality(S) -> S] :
        /\ \A u \in S : \E i \in 1..Cardinality(S) : order[i] = u
        /\ \A i, j \in 1..Cardinality(S) : i < j => Weight[order[i]] >= Weight[order[j]] }

(* Mutant: ties go to the longest time since selection. *)
LruOrders(S, cost, last) ==
    LET key(u) == SelectionKey(u, cost, [v \in S |-> -last[v]])
    IN  Arranged(S, key)

(* The candidates of one tier in the order they are tried. *)
SelectionOrders(S, cost, last) ==
    LET key(u) == SelectionKey(u, cost, last)
    IN  Arranged(S, key)
=============================================================================
