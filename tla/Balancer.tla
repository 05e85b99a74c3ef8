------------------------------ MODULE Balancer ------------------------------
(***************************************************************************)
(* EndpointHealth with a list of endpoints that hot reloads change under the *)
(* requests and the health loop.  Marks and the answers of a round find their *)
(* endpoint by url (src/src/balancer.rs, src/src/utils/health.rs), so that    *)
(* they may meet none, or one that was removed and added again since.  A      *)
(* reload (src/src/config_reloader.rs) installs clones it made earlier, whose *)
(* cooldowns run on meanwhile: they are instants.  It also changes the        *)
(* interval of the health loop, which a file may set to 0.                    *)
(*                                                                         *)
(* Here `ep` is a function on the urls in the list, and an endpoint that is   *)
(* in no round has the probe "none".                                         *)
(***************************************************************************)
EXTENDS EndpointHealth

CONSTANTS
    Configs,   \* the configurations a file can hold: a list and an interval
    Steady     \* the endpoints whose upstream stays up

ASSUME BalancerAssumption ==
    /\ Configs \subseteq [urls : (SUBSET Urls) \ {{}}, interval : Nat]
    /\ Steady \subseteq Urls

VARIABLES
    interval,  \* balancer.health_check_interval_secs
    loop,      \* the health loop
    reload     \* what the reload under way has yet to write

ownVars == <<interval, loop, reload>>
balancerVars == <<vars, ownVars>>

Fresh(urls) == [u \in urls |-> NewEndpoint]
NoReload == [at |-> "idle", eps |-> Fresh({}), interval |-> 0]

BalancerTypeOK ==
    /\ DOMAIN ep \subseteq Urls /\ DOMAIN ep # {}
    /\ \A u \in DOMAIN ep : ep[u] \in EndpointState
    /\ req \in [Requests -> [at : Stages, url : Urls \union {NoUrl}]]
    /\ probe \in [Urls -> ProbeStates]
    /\ upstream \in [Urls -> Conditions]
    /\ interval \in {c.interval : c \in Configs}
    /\ loop \in {"waiting", "ticked", "probing", "dead"}
    /\ reload.at \in {"idle", "endpoints", "interval"}
    /\ \A u \in DOMAIN reload.eps : reload.eps[u] \in EndpointState

BalancerInit ==
    /\ \E c \in Configs : ep = Fresh(c.urls) /\ interval = c.interval
    /\ req = [r \in Requests |-> Idle]
    /\ probe = [u \in Urls |-> "none"]
    /\ upstream = [u \in Urls |-> "up"]
    /\ loop = "waiting"
    /\ reload = NoReload

-----------------------------------------------------------------------------
(* Requests: as in EndpointHealth, if the endpoint is still in the list.      *)

Serve(r, u) == u \in DOMAIN ep /\ Dispatch(r, u) /\ UNCHANGED ownVars

Proceed(r) == (Receive(r) \/ ReadBody(r) \/ Cancel(r)) /\ UNCHANGED ownVars

Mark(r) ==
    /\ req[r].url \in DOMAIN ep
    /\ MarkRateLimited(r) \/ MarkUnhealthy(r)
    /\ UNCHANGED ownVars

(* The endpoint has been removed: nothing to mark. *)
MarkNobody(r) ==
    /\ req[r].at \in {"limited", "failed"}
    /\ req[r].url \notin DOMAIN ep
    /\ req' = [req EXCEPT ![r] = Idle]
    /\ UNCHANGED <<ep, probe, upstream, ownVars>>

-----------------------------------------------------------------------------
(* The health loop. *)

(* The ticker fires and the interval has not become 0. *)
TickerFires ==
    /\ loop = "waiting"
    /\ interval > 0
    /\ loop' = "ticked"
    /\ UNCHANGED <<vars, interval, reload>>

(* Mutant: endpoints that are out are not probed. *)
BeginRoundOfHealthy ==
    /\ loop = "ticked"
    /\ loop' = "probing"
    /\ probe' = [u \in Urls |->
                   IF u \in DOMAIN ep /\ ep[u].healthy THEN "pending" ELSE "none"]
    /\ UNCHANGED <<ep, req, upstream, interval, reload>>

(* A probe is sent to every endpoint in the list. *)
BeginRound ==
    /\ loop = "ticked"
    /\ loop' = "probing"
    /\ probe' = [u \in Urls |-> IF u \in DOMAIN ep THEN "pending" ELSE "none"]
    /\ UNCHANGED <<ep, req, upstream, interval, reload>>

(* tokio's interval panics on a period of 0: the task is gone. *)
LoopPanics ==
    /\ loop = "waiting"
    /\ interval = 0
    /\ loop' = "dead"
    /\ UNCHANGED <<vars, interval, reload>>

Answered(u) == ProbeAnswer(u) /\ UNCHANGED ownVars

(* Every answer goes to the endpoint that now has its url, if there is one.    *)
Apply ==
    /\ loop = "probing"
    /\ \A u \in Urls : probe[u] # "pending"
    /\ ep' = [u \in DOMAIN ep |-> IF probe[u] = "none" THEN ep[u] ELSE Assessed(u)]
    /\ probe' = [u \in Urls |-> "none"]
    /\ loop' = "waiting"
    /\ UNCHANGED <<req, upstream, interval, reload>>

-----------------------------------------------------------------------------
(* The hot reload. *)

(* The endpoints that are there as they are, the others new. *)
Cloned(urls) == [u \in urls |-> IF u \in DOMAIN ep THEN ep[u] ELSE NewEndpoint]

(* Under the read lock. *)
CloneList(c) ==
    /\ reload.at = "idle"
    /\ reload' = [at |-> "endpoints", eps |-> Cloned(c.urls), interval |-> c.interval]
    /\ UNCHANGED <<vars, interval, loop>>

(* Mutant: the list is extended instead of replaced. *)
InstallInto ==
    /\ reload.at = "endpoints"
    /\ ep' = [u \in DOMAIN ep \union DOMAIN reload.eps |->
                IF u \in DOMAIN reload.eps THEN reload.eps[u] ELSE ep[u]]
    /\ reload' = [reload EXCEPT !.at = "interval", !.eps = Fresh({})]
    /\ UNCHANGED <<req, probe, upstream, interval, loop>>

Install ==
    /\ reload.at = "endpoints"
    /\ ep' = reload.eps
    /\ reload' = [reload EXCEPT !.at = "interval", !.eps = Fresh({})]
    /\ UNCHANGED <<req, probe, upstream, interval, loop>>

WriteInterval ==
    /\ reload.at = "interval"
    /\ interval' = reload.interval
    /\ reload' = NoReload
    /\ UNCHANGED <<vars, loop>>

-----------------------------------------------------------------------------
(* Time passes for the endpoints and for their clones. *)
Passed(eps) == [u \in DOMAIN eps |-> Elapse(eps[u])]

(* Mutant: a clone keeps the time its endpoint had left. *)
TimePassesInList ==
    /\ \E u \in DOMAIN ep : IsInCooldown(ep[u])
    /\ ep' = Passed(ep)
    /\ UNCHANGED <<req, probe, upstream, ownVars>>

TimePasses ==
    /\ \/ \E u \in DOMAIN ep : IsInCooldown(ep[u])
       \/ \E u \in DOMAIN reload.eps : IsInCooldown(reload.eps[u])
    /\ ep' = Passed(ep)
    /\ reload' = [reload EXCEPT !.eps = Passed(@)]
    /\ UNCHANGED <<req, probe, upstream, interval, loop>>

Turns(u) == u \notin Steady /\ Turn(u) /\ UNCHANGED ownVars

BalancerNext ==
    \/ \E r \in Requests, u \in Urls : Serve(r, u)
    \/ \E r \in Requests : Proceed(r)
    \/ \E r \in Requests : Mark(r)
    \/ \E r \in Requests : MarkNobody(r)
    \/ TickerFires
    \/ LoopPanics
    \/ BeginRound
    \/ \E u \in Urls : Answered(u)
    \/ Apply
    \/ \E c \in Configs : CloneList(c)
    \/ Install
    \/ WriteInterval
    \/ TimePasses
    \/ \E u \in Urls : Turns(u)

BalancerSpec == BalancerInit /\ [][BalancerNext]_balancerVars

(* As in EndpointHealth; nobody need reload. *)
BalancerFairness ==
    /\ \A r \in Requests : WF_balancerVars(Mark(r) \/ MarkNobody(r))
    /\ WF_balancerVars(TickerFires \/ LoopPanics \/ BeginRound)
    /\ \A u \in Urls : WF_balancerVars(Answered(u))
    /\ WF_balancerVars(Apply)
    /\ WF_balancerVars(Install \/ WriteInterval)
    /\ WF_balancerVars(TimePasses)

FairBalancerSpec == BalancerSpec /\ BalancerFairness

-----------------------------------------------------------------------------
(* Properties. *)

InRotation(u) == u \in DOMAIN ep /\ IsAvailable(ep[u])

(* Whoever is out of the rotation has been struck, also after a reload has     *)
(* brought back an earlier state: a round can tell a recovery by it.           *)
OutMeansStruck == \A u \in DOMAIN ep : ~ ep[u].healthy => ep[u].attempts > 0

(* The list implements the abstract rotation of endpoints that come and go:    *)
(* late marks, answers by url, clones and their late installation only strike, *)
(* forgive or rest an endpoint, lose it with its state, or bring back the      *)
(* state it had when it was cloned, rested since (reload, mark_unhealthy,      *)
(* mark_rate_limited, perform_health_checks).                                  *)
Standing(e) == [broken |-> ~ e.healthy, strikes |-> e.attempts, rest |-> e.cooldown]
Standings(eps) == [u \in DOMAIN eps |-> Standing(eps[u])]

L == INSTANCE ListedRotation WITH
        Endpoints <- Urls,
        MaxStrikes <- MaxAttempts,
        Limit <- WordBits,
        MaxRest <- Max,
        standing <- Standings(ep),
        copy <- Standings(reload.eps)

RefinesListedRotation == L!ListedSpec

(* Reloads may go on for ever and undo what was learnt between their clone and *)
(* their write: an endpoint that stays configured is still back again and      *)
(* again if its upstream stays up, and out if that stays down, as long as the  *)
(* health loop lives.                                                          *)
HealthShowsThroughReloads ==
    [](loop # "dead") =>
        \A u \in Urls :
            /\ <>[](u \in DOMAIN ep /\ upstream[u] = "up") => []<>InRotation(u)
            /\ <>[](upstream[u] = "down") => []<>~ InRotation(u)

(* Once reloads end, it is so for good, whatever answers and marks were meant  *)
(* for an endpoint of the same url that is gone.                               *)
HealthSettlesAfterReloads ==
    [](loop # "dead") /\ <>[](reload.at = "idle") =>
        \A u \in Urls :
            /\ <>[](u \in DOMAIN ep /\ upstream[u] = "up") => <>[]InRotation(u)
            /\ <>[](upstream[u] = "down") => <>[]~ InRotation(u)
=============================================================================
