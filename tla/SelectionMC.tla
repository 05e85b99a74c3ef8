---------------------------- MODULE SelectionMC -----------------------------
(* Selection for TLC: a boundary between two tiers, and a tie.                *)
EXTENDS SelectionHistory, TLC

CONSTANTS a, b, c, t1, t2

TwoTiers == (a :> 50) @@ (b :> 50) @@ (c :> 49)
InOrder == (a :> 1) @@ (b :> 2) @@ (c :> 3)
Equals == (a :> 100) @@ (b :> 100)
InOrderTwo == (a :> 1) @@ (b :> 2)
Ones == (a :> 1) @@ (b :> 1)
ThreeOnes == (a :> 1) @@ (b :> 1) @@ (c :> 1)

\* Selectors do the same.
Symmetry == Permutations({t1, t2})
=============================================================================
