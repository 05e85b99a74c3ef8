--------------------------- MODULE ListedRotation ---------------------------
(***************************************************************************)
(* What the balancer promises about its list of endpoints while hot reloads *)
(* change it: Rotation, for endpoints that come and go.                     *)
(*                                                                         *)
(* The list gives every endpoint a standing.  A reload takes a copy of the  *)
(* list with newcomers added and others left out, and installs it later     *)
(* whatever has become of the list since.  The clock runs for both, and an  *)
(* endpoint in the list is otherwise only struck or forgiven.  A standing   *)
(* can be lost with its endpoint or go back to what it was when the copy    *)
(* was taken; it is never made up.  Somebody is always listed.              *)
(***************************************************************************)
EXTENDS Naturals

CONSTANTS Endpoints, MaxStrikes, Limit, MaxRest

VARIABLES
    standing,  \* of the endpoints in the list
    copy       \* of those in the copy; of nobody when there is none

listedVars == <<standing, copy>>

Newcomer == [broken |-> FALSE, strikes |-> 0, rest |-> 0]

Newcomers(listed) == [e \in listed |-> Newcomer]

ListedInit ==
    /\ \E listed \in (SUBSET Endpoints) \ {{}} : standing = Newcomers(listed)
    /\ copy = Newcomers({})

(* One strike more, and a new rest that respects the promise. *)
Struck(s, t) ==
    /\ t.strikes = IF s.strikes < MaxStrikes THEN s.strikes + 1 ELSE MaxStrikes
    /\ t.rest \in 0..MaxRest
    /\ t.strikes < Limit => t.rest >= s.rest

Forgiven(t) == t.strikes = 0 /\ t.rest = 0

SameList == DOMAIN standing' = DOMAIN standing

(* A strike may break a working endpoint, and never mends one. *)
Strike(e) ==
    /\ SameList
    /\ Struck(standing[e], standing'[e])
    /\ standing[e].broken => standing'[e].broken
    /\ \A f \in DOMAIN standing \ {e} : standing'[f] = standing[f]
    /\ UNCHANGED copy

(* Some broken endpoints come back and some working ones drop out. *)
Assess ==
    /\ SameList
    /\ \A e \in DOMAIN standing :
           \/ standing'[e] = standing[e]
           \/ standing[e].broken /\ ~ standing'[e].broken /\ Forgiven(standing'[e])
           \/ /\ ~ standing[e].broken /\ standing'[e].broken
              /\ Struck(standing[e], standing'[e])
    /\ UNCHANGED copy

Rested(s) == [s EXCEPT !.rest = IF @ > 0 THEN @ - 1 ELSE 0]
AllRested(s) == [e \in DOMAIN s |-> Rested(s[e])]

Pass ==
    /\ standing' = AllRested(standing)
    /\ copy' = AllRested(copy)

TakeCopy ==
    /\ DOMAIN copy = {}
    /\ \E listed \in (SUBSET Endpoints) \ {{}} :
           copy' = [e \in listed |-> IF e \in DOMAIN standing THEN standing[e] ELSE Newcomer]
    /\ UNCHANGED standing

InstallCopy ==
    /\ DOMAIN copy # {}
    /\ standing' = copy
    /\ copy' = Newcomers({})

ListedNext ==
    \/ \E e \in DOMAIN standing : Strike(e)
    \/ Assess
    \/ Pass
    \/ TakeCopy
    \/ InstallCopy

ListedSpec == ListedInit /\ [][ListedNext]_listedVars
=============================================================================
