------------------------------ MODULE Rotation ------------------------------
(***************************************************************************)
(* What the balancer promises about taking endpoints out of the rotation   *)
(* and putting them back, independently of requests, probes and threads.    *)
(*                                                                         *)
(* Every endpoint is broken or not, has collected a number of strikes since *)
(* it was last forgiven, and rests for some time.  A strike starts a new    *)
(* rest, which is never shorter than what was left of the old one as long   *)
(* as the strikes stay below Limit.  Only an assessment, which looks at     *)
(* many endpoints at once, brings a broken endpoint back; it then forgives  *)
(* everything.  Time alone never mends an endpoint.                         *)
(***************************************************************************)
EXTENDS Naturals

CONSTANTS Endpoints, MaxStrikes, Limit, MaxRest

VARIABLES broken, strikes, rest

rotationVars == <<broken, strikes, rest>>

RotationInit ==
    /\ broken = {}
    /\ strikes = [e \in Endpoints |-> 0]
    /\ rest = [e \in Endpoints |-> 0]

(* e has one strike more and its new rest respects the promise. *)
Struck(e) ==
    /\ strikes'[e] = IF strikes[e] < MaxStrikes THEN strikes[e] + 1 ELSE MaxStrikes
    /\ rest'[e] \in 0..MaxRest
    /\ strikes'[e] < Limit => rest'[e] >= rest[e]

Forgiven(e) == strikes'[e] = 0 /\ rest'[e] = 0

Untouched(e) == strikes'[e] = strikes[e] /\ rest'[e] = rest[e]

Shaped ==
    /\ DOMAIN strikes' = Endpoints
    /\ DOMAIN rest' = Endpoints

(* A strike that leaves an endpoint in the rotation: it only has to rest. *)
Strike(e) ==
    /\ Shaped
    /\ broken' = broken
    /\ Struck(e)
    /\ \A f \in Endpoints \ {e} : Untouched(f)

(* A working endpoint is found broken. *)
Break(e) ==
    /\ e \notin broken
    /\ Shaped
    /\ broken' = broken \union {e}
    /\ Struck(e)
    /\ \A f \in Endpoints \ {e} : Untouched(f)

(* Some broken endpoints come back and some working ones drop out. *)
Assess ==
    /\ Shaped
    /\ broken' \subseteq Endpoints
    /\ \A e \in broken \ broken' : Forgiven(e)
    /\ \A e \in broken' \ broken : Struck(e)
    /\ \A e \in Endpoints : (e \in broken <=> e \in broken') => Untouched(e)

Pass ==
    /\ rest' = [e \in Endpoints |-> IF rest[e] > 0 THEN rest[e] - 1 ELSE 0]
    /\ UNCHANGED <<broken, strikes>>

RotationNext ==
    \/ \E e \in Endpoints : Strike(e) \/ Break(e)
    \/ Assess
    \/ Pass

RotationSpec == RotationInit /\ [][RotationNext]_rotationVars
=============================================================================
