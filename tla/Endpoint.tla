------------------------------ MODULE Endpoint ------------------------------
(***************************************************************************)
(* The part of RpcEndpoint (src/src/endpoint.rs) that decides whether an    *)
(* upstream may be used, and the one operation that penalises it,           *)
(* trigger_cooldown (src/src/utils/cooldown.rs).  Pure operators: the       *)
(* modules that hold the endpoints extend this one.                         *)
(*                                                                         *)
(* An endpoint is a record                                                 *)
(*   healthy  - the field `healthy`;                                        *)
(*   attempts - `cooldown_attempts`, a saturating u32;                      *)
(*   cooldown - the time left until `cooldown_until`, in whole ticks: 0     *)
(*              stands for None and for every instant already past, which   *)
(*              is_in_cooldown does not tell apart.                         *)
(* Durations are computed in an unsigned word of WordBits bits (u64), the   *)
(* attempts are kept in a counter whose last value is MaxAttempts (u32).    *)
(***************************************************************************)
EXTENDS Naturals

CONSTANTS
    WordBits,     \* bits of the durations' word: 64 in the code
    MaxAttempts,  \* the last value of the attempts counter: u32::MAX
    Base,         \* base_cooldown_secs
    Max           \* max_cooldown_secs

Word == 2^WordBits

ASSUME EndpointAssumption ==
    /\ WordBits \in Nat \ {0}
    /\ MaxAttempts \in Nat \ {0}
    /\ Base \in Nat /\ Base < Word
    /\ Max \in Nat /\ Max < Word

EndpointState == [healthy : BOOLEAN, attempts : 0..MaxAttempts, cooldown : 0..Max]

(* LoadBalancer::new and reload both create an endpoint in this state. *)
NewEndpoint == [healthy |-> TRUE, attempts |-> 0, cooldown |-> 0]

IsInCooldown(ep) == ep.cooldown > 0
IsAvailable(ep) == ep.healthy /\ ~ IsInCooldown(ep)

AtMost(n, bound) == IF n <= bound THEN n ELSE bound

SaturatingIncrement(n) == AtMost(n + 1, MaxAttempts)
SaturatingMul(m, n) == AtMost(m * n, Word - 1)

(* 2u64.pow(n): the release profile wraps, so from the 64th power on it is 0. *)
WrappingPow2(n) == (2^n) % Word

(* Mutant: the cap at max_cooldown_secs is forgotten. *)
UncappedDuration(attempts) == SaturatingMul(Base, WrappingPow2(attempts))

(* base * 2^attempts, saturating, and never more than max. *)
CooldownDuration(attempts) == AtMost(SaturatingMul(Base, WrappingPow2(attempts)), Max)

TriggerCooldown(ep) ==
    LET attempts == SaturatingIncrement(ep.attempts)
    IN  [ep EXCEPT !.attempts = attempts, !.cooldown = CooldownDuration(attempts)]

(* One tick of the clock, seen from the endpoint. *)
Elapse(ep) == [ep EXCEPT !.cooldown = IF @ > 0 THEN @ - 1 ELSE 0]
=============================================================================
