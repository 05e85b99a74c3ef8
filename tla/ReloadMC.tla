------------------------------ MODULE ReloadMC ------------------------------
(* Reload and its metrics for TLC.                                            *)
EXTENDS Gauges, TLC

CONSTANTS a, b

Config(list, cl, cd) == [valid |-> TRUE, list |-> list, client |-> cl, cooldown |-> cd]

\* An endpoint that comes and goes, a limit that changes, and a broken file, which
\* differs from the others in each of its parts.
Files ==
    { Config(a :> 1, 1, 1),
      Config((a :> 1) @@ (b :> 1), 1, 2),
      Config((a :> 2) @@ (b :> 1), 2, 2),
      [valid |-> FALSE, list |-> (b :> 2), client |-> 3, cooldown |-> 3] }
=============================================================================
