------------------------------ MODULE LocksMC -------------------------------
(* Locks for TLC: which operations run side by side.                         *)
EXTENDS Locks, TLC

CONSTANTS select, update, mark, health, gauge, reload, reload2, status

WithoutStatus ==
    (select :> GetNextEndpoint) @@ (update :> UpdateMetrics) @@ (mark :> Mark) @@
    (health :> PerformHealthChecks) @@
    (gauge :> CooldownGaugeUpdater) @@ (reload :> Reload) @@ (reload2 :> Reload)

WithStatus == (mark :> Mark) @@ (status :> GetStatus)

\* The two that run the same operation.
Symmetry == Permutations({reload, reload2})
=============================================================================
