-------------------------------- MODULE Gate --------------------------------
(***************************************************************************)
(* What the global limit on concurrency promises: at most Capacity requests *)
(* are inside, whoever is waiting came before those behind it, and only the *)
(* first of the waiting goes in, at the moment somebody leaves.  Those who   *)
(* give up change nobody else's place.  Who is ahead of whom is a relation:  *)
(* how the line is kept is left open.                                       *)
(***************************************************************************)
EXTENDS Naturals, FiniteSets

CONSTANTS Guests, Capacity

VARIABLES inside, waiting, ahead

gateVars == <<inside, waiting, ahead>>

GateInit == inside = {} /\ waiting = {} /\ ahead = {}

Full == Cardinality(inside) = Capacity
Outside(r) == r \notin inside \union waiting
First(r) == r \in waiting /\ \A s \in waiting : <<s, r>> \notin ahead

(* The order of those who remain is what it was. *)
Among(guests) == ahead \intersect (guests \X guests)

Enter(r) ==
    /\ Outside(r)
    /\ ~ Full /\ waiting = {}
    /\ inside' = inside \union {r}
    /\ UNCHANGED <<waiting, ahead>>

QueueUp(r) ==
    /\ Outside(r)
    /\ Full
    /\ waiting' = waiting \union {r}
    /\ ahead' = ahead \union (waiting \X {r})
    /\ UNCHANGED inside

Depart(r) ==
    /\ r \in inside
    /\ waiting = {}
    /\ inside' = inside \ {r}
    /\ UNCHANGED <<waiting, ahead>>

HandOver(r, s) ==
    /\ r \in inside
    /\ First(s)
    /\ inside' = (inside \ {r}) \union {s}
    /\ waiting' = waiting \ {s}
    /\ ahead' = Among(waiting \ {s})

GiveUp(r) ==
    /\ r \in waiting
    /\ waiting' = waiting \ {r}
    /\ ahead' = Among(waiting \ {r})
    /\ UNCHANGED inside

GateNext ==
    \/ \E r \in Guests : Enter(r) \/ QueueUp(r) \/ Depart(r) \/ GiveUp(r)
    \/ \E r, s \in Guests : HandOver(r, s)

GateSpec == GateInit /\ [][GateNext]_gateVars
=============================================================================
