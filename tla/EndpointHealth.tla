--------------------------- MODULE EndpointHealth ---------------------------
(***************************************************************************)
(* The health and cooldown state of a fixed list of endpoints, and the      *)
(* three tasks that write it at their own pace:                             *)
(*   - the requests being forwarded (src/src/forwarder.rs), each of which    *)
(*     learns its outcome first and takes the write lock for                *)
(*     mark_unhealthy or mark_rate_limited (src/src/balancer.rs) later;     *)
(*   - the health-check loop (src/src/utils/health.rs), which sends one      *)
(*     probe to every endpoint, waits for all of them, and only then        *)
(*     applies the answers in one write-locked block;                       *)
(*   - the clock.                                                           *)
(* Every action is one critical section of the endpoints' lock, or one step *)
(* between two awaits.  Which available endpoint a request gets is left      *)
(* open here (module Selection decides it); performance metrics and gauges  *)
(* are outputs no decision of this module reads.                            *)
(***************************************************************************)
EXTENDS Endpoint

CONSTANTS
    Urls,      \* the configured endpoints
    Requests,  \* the requests that can be in flight together
    NoUrl

ASSUME EndpointHealthAssumption == NoUrl \notin Urls

VARIABLES
    ep,        \* balancer.endpoints, by url
    req,       \* what each request is doing, and at which endpoint
    probe,     \* the probe of each endpoint in the current round
    upstream   \* what the node behind each url currently does (environment)

vars == <<ep, req, probe, upstream>>

Stages == {"idle", "sent", "reading", "limited", "failed"}
ProbeStates == {"none", "pending", "passed", "failed"}
Conditions == {"up", "flaky", "down"}

TypeOK ==
    /\ ep \in [Urls -> EndpointState]
    /\ req \in [Requests -> [at : Stages, url : Urls \union {NoUrl}]]
    /\ \A r \in Requests : req[r].at # "idle" => req[r].url \in Urls
    /\ probe \in [Urls -> ProbeStates]
    /\ upstream \in [Urls -> Conditions]

Idle == [at |-> "idle", url |-> NoUrl]

Init ==
    /\ ep = [u \in Urls |-> NewEndpoint]
    /\ req = [r \in Requests |-> Idle]
    /\ probe = [u \in Urls |-> "none"]
    /\ upstream = [u \in Urls |-> "up"]

-----------------------------------------------------------------------------
(* Requests. *)

(* get_next_endpoint picks some available endpoint and the request is sent. *)
Dispatch(r, u) ==
    /\ req[r].at = "idle"
    /\ IsAvailable(ep[u])
    /\ req' = [req EXCEPT ![r] = [at |-> "sent", url |-> u]]
    /\ UNCHANGED <<ep, probe, upstream>>

(* What an upstream in some condition may answer to a request. *)
Outcomes(condition) ==
    CASE condition = "up"   -> {"reading"}
      [] condition = "down" -> {"failed"}
      [] OTHER              -> {"reading", "limited", "failed"}

(* The response's head, a network error or a timeout arrives: `send().await` *)
(* returns.  A success still has a body to read; 429 and the rest lead to    *)
(* the mark_ call that follows without an await in between.                  *)
Receive(r) ==
    /\ req[r].at = "sent"
    /\ \E outcome \in Outcomes(upstream[req[r].url]) :
           req' = [req EXCEPT ![r].at = outcome]
    /\ UNCHANGED <<ep, probe, upstream>>

(* `response.bytes().await` returns: the request is over, or it failed after *)
(* all.                                                                      *)
ReadBody(r) ==
    /\ req[r].at = "reading"
    /\ \/ req' = [req EXCEPT ![r] = Idle]
       \/ /\ upstream[req[r].url] # "up"
          /\ req' = [req EXCEPT ![r].at = "failed"]
    /\ UNCHANGED <<ep, probe, upstream>>

(* The client hangs up: the handler's future is dropped at an await. *)
Cancel(r) ==
    /\ req[r].at \in {"sent", "reading"}
    /\ req' = [req EXCEPT ![r] = Idle]
    /\ UNCHANGED <<ep, probe, upstream>>

MarkRateLimited(r) ==
    /\ req[r].at = "limited"
    /\ ep' = [ep EXCEPT ![req[r].url] = TriggerCooldown(@)]
    /\ req' = [req EXCEPT ![r] = Idle]
    /\ UNCHANGED <<probe, upstream>>

(* Mutant: an endpoint that is out already is struck again, by a round too. *)
TakeOutAgain(e) == [TriggerCooldown(e) EXCEPT !.healthy = FALSE]

(* A healthy endpoint leaves the rotation; one that is out already is left   *)
(* alone, so that one outage costs one strike.                               *)
TakeOut(e) ==
    IF e.healthy THEN [TriggerCooldown(e) EXCEPT !.healthy = FALSE] ELSE e

(* Mutant: every failure that comes in is a strike. *)
MarkUnhealthyEachTime(r) ==
    /\ req[r].at = "failed"
    /\ ep' = [ep EXCEPT ![req[r].url] = [TriggerCooldown(@) EXCEPT !.healthy = FALSE]]
    /\ req' = [req EXCEPT ![r] = Idle]
    /\ UNCHANGED <<probe, upstream>>

MarkUnhealthy(r) ==
    /\ req[r].at = "failed"
    /\ ep' = [ep EXCEPT ![req[r].url] = TakeOut(@)]
    /\ req' = [req EXCEPT ![r] = Idle]
    /\ UNCHANGED <<probe, upstream>>

-----------------------------------------------------------------------------
(* The health-check loop. *)

StartRound ==
    /\ \A u \in Urls : probe[u] = "none"
    /\ probe' = [u \in Urls |-> "pending"]
    /\ UNCHANGED <<ep, req, upstream>>

(* A probe is answered, refused or timed out. *)
ProbeAnswer(u) ==
    /\ probe[u] = "pending"
    /\ \E answer \in CASE upstream[u] = "up"   -> {"passed"}
                       [] upstream[u] = "down" -> {"failed"}
                       [] OTHER                -> {"passed", "failed"} :
           probe' = [probe EXCEPT ![u] = answer]
    /\ UNCHANGED <<ep, req, upstream>>

(* Mutant: the cooldown survives the recovery. *)
RecoverResting(e) == [e EXCEPT !.healthy = TRUE, !.attempts = 0]

(* The endpoint answered its probe: one that was out comes back with its     *)
(* attempts and its cooldown cleared, one that was in keeps both.            *)
Recover(e) ==
    IF e.healthy THEN e ELSE [e EXCEPT !.healthy = TRUE, !.attempts = 0, !.cooldown = 0]

(* Mutants: a round looks at healthy endpoints only; a round only brings back. *)
AssessedIfHealthy(u) ==
    IF ep[u].healthy /\ probe[u] = "failed" THEN TakeOut(ep[u]) ELSE ep[u]
AssessedIfPassed(u) == IF probe[u] = "passed" THEN Recover(ep[u]) ELSE ep[u]

Assessed(u) == IF probe[u] = "passed" THEN Recover(ep[u]) ELSE TakeOut(ep[u])

(* All probes have been joined: the answers are applied under one write lock. *)
ApplyRound ==
    /\ \A u \in Urls : probe[u] \in {"passed", "failed"}
    /\ ep' = [u \in Urls |-> Assessed(u)]
    /\ probe' = [u \in Urls |-> "none"]
    /\ UNCHANGED <<req, upstream>>

-----------------------------------------------------------------------------
(* The environment. *)

Tick ==
    /\ \E u \in Urls : IsInCooldown(ep[u])
    /\ ep' = [u \in Urls |-> Elapse(ep[u])]
    /\ UNCHANGED <<req, probe, upstream>>

Turn(u) ==
    /\ \E condition \in Conditions \ {upstream[u]} :
           upstream' = [upstream EXCEPT ![u] = condition]
    /\ UNCHANGED <<ep, req, probe>>

Next ==
    \/ \E r \in Requests, u \in Urls : Dispatch(r, u)
    \/ \E r \in Requests : Receive(r)
    \/ \E r \in Requests : ReadBody(r)
    \/ \E r \in Requests : Cancel(r)
    \/ \E r \in Requests : MarkRateLimited(r)
    \/ \E r \in Requests : MarkUnhealthy(r)
    \/ StartRound
    \/ \E u \in Urls : ProbeAnswer(u)
    \/ ApplyRound
    \/ Tick
    \/ \E u \in Urls : Turn(u)

Spec == Init /\ [][Next]_vars

(* A request that has its answer runs on to the mark_ call, the loop's ticker *)
(* fires again and again, every probe ends within health_check_timeout_secs,  *)
(* and time passes.  Nothing is assumed of clients, requests or upstreams.    *)
FairSpec ==
    /\ Spec
    /\ \A r \in Requests : WF_vars(MarkRateLimited(r)) /\ WF_vars(MarkUnhealthy(r))
    /\ WF_vars(StartRound)
    /\ \A u \in Urls : WF_vars(ProbeAnswer(u))
    /\ WF_vars(ApplyRound)
    /\ WF_vars(Tick)

-----------------------------------------------------------------------------
(* Properties. *)

(* The cooldown field and the attempts field are written by different tasks,  *)
(* but never drift apart: an endpoint out of the rotation has at least one    *)
(* strike, nobody rests without a strike, and nobody rests longer than its    *)
(* number of strikes prescribes (trigger_cooldown against the recovery block  *)
(* of perform_health_checks).                                                 *)
RestMatchesStrikes ==
    \A u \in Urls :
        /\ ~ ep[u].healthy => ep[u].attempts > 0
        /\ ep[u].attempts = 0 => ep[u].cooldown = 0
        /\ ep[u].cooldown <= CooldownDuration(ep[u].attempts)

(* One outage costs one strike, however many of the requests that were under  *)
(* way fail and however many rounds find the endpoint down: between its exit  *)
(* and its return only a late answer of 429 adds a strike or prolongs the     *)
(* rest (mark_unhealthy, perform_health_checks, mark_rate_limited).           *)
OneStrikePerOutage ==
    [][\A u \in Urls :
         /\ ~ ep[u].healthy /\ ~ ep'[u].healthy
         /\ ep'[u].attempts # ep[u].attempts \/ ep'[u].cooldown > ep[u].cooldown
         => \E r \in Requests :
                req[r] = [at |-> "limited", url |-> u] /\ req'[r] = Idle]_vars

(* The endpoints' handling implements the abstract rotation: late marks, late *)
(* probe answers and the clock only ever strike, forgive or pass the time.    *)
R == INSTANCE Rotation WITH
        Endpoints <- Urls,
        MaxStrikes <- MaxAttempts,
        Limit <- WordBits,
        MaxRest <- Max,
        broken <- {u \in Urls : ~ ep[u].healthy},
        strikes <- [u \in Urls |-> ep[u].attempts],
        rest <- [u \in Urls |-> ep[u].cooldown]

RefinesRotation == R!RotationSpec

(* An upstream that works from some moment on is eventually in the rotation   *)
(* for good, whatever late failures and stale probe answers were under way    *)
(* when it recovered (perform_health_checks, is_available).                   *)
UpReturns ==
    \A u \in Urls : <>[](upstream[u] = "up") => <>[]IsAvailable(ep[u])

(* An upstream that stays down is eventually out of the rotation for good:    *)
(* no cooldown that runs out and no late success puts it back.                *)
DownLeaves ==
    \A u \in Urls : <>[](upstream[u] = "down") => <>[]~ IsAvailable(ep[u])
=============================================================================
