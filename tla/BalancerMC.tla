----------------------------- MODULE BalancerMC -----------------------------
(* Balancer for TLC.                                                         *)
EXTENDS Balancer

CONSTANTS a, b

\* An endpoint that comes and goes next to one that stays, and a bad interval.
SomeConfigs ==
    { [urls |-> {a, b}, interval |-> 1], [urls |-> {b}, interval |-> 1],
      [urls |-> {a, b}, interval |-> 0] }
=============================================================================
