------------------------------ MODULE Metrics ------------------------------
(***************************************************************************)
(* The performance metrics of one endpoint (EndpointMetrics in               *)
(* src/src/endpoint.rs): two averages that decide its cost in tier 2, and a   *)
(* count of failures.  They are atomics of their own.  Requests update them   *)
(* under the endpoints' read lock, so that the steps of their updates         *)
(* interleave (src/src/forwarder.rs); the health loop updates them under the  *)
(* write lock (src/src/utils/health.rs).                                     *)
(*                                                                         *)
(* Averages are computed in floating point and rounded to whole units.        *)
(* Factors are in tenths.  Where the exact value lies half-way between two    *)
(* units, the code gets either one, depending on the error of the products,   *)
(* except for the factor 0.5, whose products are exact.                       *)
(***************************************************************************)
EXTENDS Naturals

CONSTANTS
    Threads,      \* the requests that can finish together
    Latencies,    \* how long a request can take
    Timeout,      \* timeout_secs, as a latency
    ProbeTimeout, \* health_check_timeout_secs, as a latency
    Smoothing,    \* latency_smoothing_factor, in tenths
    Kinds,        \* the kinds of errors, "timeout" among them,
    BasePenalty,  \* and the least penalty of each
    MinCost,      \* the least cost: 1000 ms
    MaxFailures   \* bound: how many consecutive failures are told apart

ASSUME MetricsAssumption ==
    /\ Latencies \subseteq Nat
    /\ Timeout \in Nat /\ ProbeTimeout \in Nat /\ MinCost \in Nat
    /\ Smoothing \in 0..10
    /\ "timeout" \in Kinds
    /\ BasePenalty \in [Kinds -> Nat]
    /\ MaxFailures \in Nat \ {0}

VARIABLES
    latency,   \* ema_latency_ms
    penalty,   \* ema_error_penalty_ms
    failures,  \* consecutive_failures
    update     \* where each request is in EndpointMetrics::update

vars == <<latency, penalty, failures, update>>

Stages == {"idle", "resetting", "decaying", "counting"}

TypeOK ==
    /\ latency \in Nat
    /\ penalty \in Nat
    /\ failures \in 0..MaxFailures
    /\ update \in [Threads -> Stages]

Init ==
    /\ latency = Timeout
    /\ penalty = 0
    /\ failures = 0
    /\ update = [t \in Threads |-> "idle"]

-----------------------------------------------------------------------------

(* Mutant: the weights of the two values add up to more than 1. *)
HeavyEma(factor, new, current) ==
    {(factor * new + (11 - factor) * current) \div 10}

(* Mutant: the average is truncated instead of rounded. *)
FloorEma(factor, new, current) == {(factor * new + (10 - factor) * current) \div 10}

(* What update_ema may store: factor * new + (1 - factor) * current, rounded. *)
Ema(factor, new, current) ==
    LET exact == factor * new + (10 - factor) * current  \* in tenths
        below == exact \div 10
        rest == exact % 10
    IN  {n \in {below, below + 1} :
            \/ rest < 5 /\ n = below
            \/ rest > 5 /\ n = below + 1
            \/ rest = 5 /\ (factor = 5 => n = below + 1)}

AtLeast(n, bound) == IF n < bound THEN bound ELSE n

(* calculate_penalty: the worse of what the request took and the least        *)
(* penalty of its error.                                                      *)
Penalty(kind, took) == AtLeast(took, BasePenalty[kind])

(* get_total_cost. *)
TotalCost == AtLeast(latency + penalty, MinCost)

Enter(t, from, to) == update[t] = from /\ update' = [update EXCEPT ![t] = to]

(* A response with a status of success: latency first, then the count, then   *)
(* the penalty.                                                               *)
SuccessLatency(t, took) ==
    /\ Enter(t, "idle", "resetting")
    /\ latency' \in Ema(Smoothing, took, latency)
    /\ UNCHANGED <<penalty, failures>>

(* Mutant: one failure is taken back. *)
SuccessTakesOneBack(t) ==
    /\ Enter(t, "resetting", "decaying")
    /\ failures' = failures - 1
    /\ UNCHANGED <<latency, penalty>>

SuccessReset(t) ==
    /\ Enter(t, "resetting", "decaying")
    /\ failures' = 0
    /\ UNCHANGED <<latency, penalty>>

(* Mutant: only recoveries let the penalty decay. *)
SuccessKeepsPenalty(t) == Enter(t, "decaying", "idle") /\ UNCHANGED <<latency, penalty, failures>>

SuccessDecay(t) ==
    /\ Enter(t, "decaying", "idle")
    /\ penalty' \in Ema(5, 0, penalty)
    /\ UNCHANGED <<latency, failures>>

(* Any other response, or an error; a timeout counts as long as timeout_secs. *)
FailurePenalty(t, kind, took) ==
    /\ Enter(t, "idle", "counting")
    /\ kind = "timeout" => took = Timeout
    /\ penalty' \in Ema(8, Penalty(kind, took), penalty)
    /\ UNCHANGED <<latency, failures>>

CountOne == failures' = IF failures < MaxFailures THEN failures + 1 ELSE failures

FailureCount(t) ==
    /\ Enter(t, "counting", "idle")
    /\ CountOne
    /\ UNCHANGED <<latency, penalty>>

(* The health loop holds the write lock: no request is inside update.         *)
Locked == (\A t \in Threads : update[t] = "idle") /\ UNCHANGED update

(* It brings an endpoint back. *)
Recover ==
    /\ Locked
    /\ failures' = 0
    /\ penalty' \in Ema(5, 0, penalty)
    /\ UNCHANGED latency

(* A probe has failed. *)
ProbeFailure ==
    /\ Locked
    /\ penalty' \in Ema(8, Penalty("timeout", ProbeTimeout), penalty)
    /\ CountOne
    /\ UNCHANGED latency

Success(t) == \E took \in Latencies : SuccessLatency(t, took)
Failure(t) == \E kind \in Kinds, took \in Latencies \union {Timeout} :
                  FailurePenalty(t, kind, took)

(* Mutant: a success lets the penalty decay first and resets the count last.   *)
FinishSwapped(t) ==
    \/ /\ Enter(t, "resetting", "decaying")
       /\ penalty' \in Ema(5, 0, penalty)
       /\ UNCHANGED <<latency, failures>>
    \/ /\ Enter(t, "decaying", "idle")
       /\ failures' = 0
       /\ UNCHANGED <<latency, penalty>>
    \/ FailureCount(t)

(* The steps after the first one of EndpointMetrics::update. *)
Finish(t) == SuccessReset(t) \/ SuccessDecay(t) \/ FailureCount(t)

Next ==
    \/ \E t \in Threads : Success(t)
    \/ \E t \in Threads : Failure(t)
    \/ \E t \in Threads : Finish(t)
    \/ Recover
    \/ ProbeFailure

Spec == Init /\ [][Next]_vars

(* An update that has begun goes on: it never waits. *)
FairSpec == Spec /\ \A t \in Threads : WF_vars(Finish(t))

-----------------------------------------------------------------------------
(* Properties. *)

(* update_ema: rounding never carries an average beyond what went into it.    *)
(* bound is an upper and least a lower bound of every latency, and worst one  *)
(* of every penalty.                                                          *)
Inputs == Latencies \union {Timeout}
Penalties == {Penalty(kind, took) : kind \in Kinds, took \in Inputs \union {ProbeTimeout}}

WithinInputs ==
    /\ \E low, high \in Inputs : low <= latency /\ latency <= high
    /\ \E worst \in Penalties : penalty <= worst

(* EndpointMetrics::update: the count of failures and the penalty change one  *)
(* after the other and under other requests' feet, yet a count of 0 that      *)
(* nobody is about to change means that the penalty has decayed since it last *)
(* grew: it is at most half of the worst one (rounded up).                    *)
NoFailuresMeansForgiven ==
    /\ failures = 0
    /\ \A t \in Threads : update[t] \notin {"decaying", "counting"}
    => \E worst \in Penalties : penalty <= (worst + 1) \div 2

(* The residue that rounding leaves: an average sticks as soon as a step of   *)
(* the factor is half a unit or less, the penalty, with 0.5, at 1.            *)
Residue == 5 \div Smoothing
Slack == Residue + 1

(* update_ema: beyond that residue rounding never stops an average.  Each      *)
(* success moves the latency towards what it took, from either side, and       *)
(* lowers a penalty of more than 1.                                           *)
NeverStuckBeyondResidue ==
    [][\A t \in Threads :
        /\ \A took \in Latencies : SuccessLatency(t, took) /\ Smoothing > 0 =>
               /\ latency > took + Residue => latency' < latency
               /\ latency + Residue < took => latency' > latency
        /\ SuccessDecay(t) /\ penalty > 1 => penalty' < penalty]_vars

BadStep == (\E t \in Threads : Failure(t)) \/ ProbeFailure
SlowStep(bound) ==
    \E t \in Threads : \E took \in {l \in Latencies : l > bound} : SuccessLatency(t, took)

(* An endpoint that from some moment on only succeeds, within some latency,   *)
(* and is used again and again, ends up costing that latency and no more than *)
(* the residue of the rounding, whatever it has been through.                 *)
CostSettles ==
    \A bound \in Latencies :
        /\ <>[][~ BadStep /\ ~ SlowStep(bound)]_vars
        /\ \E t \in Threads : []<><<SuccessDecay(t)>>_vars
        => <>[](TotalCost <= AtLeast(bound + Slack, MinCost))
=============================================================================
