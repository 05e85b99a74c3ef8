---------------------------- MODULE MetricsProofs ----------------------------
(* The averages of an endpoint stay within what was measured, and a count of  *)
(* no failures comes with a penalty that has decayed; beyond the residue of    *)
(* the rounding no average sticks: for any number of requests, any latencies,  *)
(* timeouts, penalties and smoothing factor.                                  *)
EXTENDS Metrics, TLAPS

(* The inductive invariant: each part needs the types, and the last one needs  *)
(* the bound on the penalty.                                                  *)
IInv == TypeOK /\ WithinInputs /\ NoFailuresMeansForgiven

-----------------------------------------------------------------------------
(* update_ema: a rounded average lies between the two values it is made of.    *)
LEMMA EmaBetween ==
    ASSUME NEW factor \in 0..10, NEW new \in Nat, NEW current \in Nat,
           NEW low \in Nat, NEW high \in Nat,
           low <= new, new <= high, low <= current, current <= high,
           NEW n \in Ema(factor, new, current)
    PROVE  n \in Nat /\ low <= n /\ n <= high
<1> DEFINE exact == factor * new + (10 - factor) * current
           below == exact \div 10
           rest == exact % 10
<1>1. exact \in Nat /\ 10 * low <= exact /\ exact <= 10 * high
  <2>1. \/ factor = 0 \/ factor = 1 \/ factor = 2 \/ factor = 3 \/ factor = 4 \/ factor = 5
        \/ factor = 6 \/ factor = 7 \/ factor = 8 \/ factor = 9 \/ factor = 10
    OBVIOUS
  <2> QED BY <2>1
<1>2. /\ n \in {below, below + 1}
      /\ \/ rest < 5 /\ n = below
         \/ rest > 5 /\ n = below + 1
         \/ rest = 5
  BY DEF Ema
<1> HIDE DEF exact
<1>3. below \in Nat /\ rest \in 0..9 /\ exact = 10 * below + rest
  BY <1>1
<1> QED BY <1>1, <1>2, <1>3

(* A decay leaves at most half, rounded up.                                   *)
LEMMA EmaHalves ==
    ASSUME NEW current \in Nat, NEW n \in Ema(5, 0, current)
    PROVE  n \in Nat /\ 2 * n <= current + 1
<1> DEFINE exact == 5 * 0 + (10 - 5) * current
           below == exact \div 10
           rest == exact % 10
<1>1. exact = 5 * current /\ exact \in Nat
  OBVIOUS
<1>2. /\ n \in {below, below + 1}
      /\ \/ rest < 5 /\ n = below
         \/ rest > 5 /\ n = below + 1
         \/ rest = 5
  BY DEF Ema
<1> HIDE DEF exact
<1>3. below \in Nat /\ rest \in 0..9 /\ exact = 10 * below + rest
  BY <1>1
<1> QED BY <1>1, <1>2, <1>3

LEMMA DecayLowers ==
    ASSUME NEW current \in Nat, current > 1, NEW n \in Ema(5, 0, current)
    PROVE  n < current
<1>1. n \in Nat /\ 2 * n <= current + 1
  BY EmaHalves
<1> HIDE DEF Ema
<1> QED BY <1>1

(* Beyond half a unit in the step, rounding moves an average towards the new   *)
(* value: f * d > 5 tenths is more than half a unit, for d more than 5 / f.    *)
LEMMA EmaMoves ==
    ASSUME NEW factor \in 1..10, NEW new \in Nat, NEW current \in Nat,
           NEW n \in Ema(factor, new, current)
    PROVE  /\ n \in Nat
           /\ current > new + (5 \div factor) => n < current
           /\ current + (5 \div factor) < new => n > current
<1> DEFINE exact == factor * new + (10 - factor) * current
           below == exact \div 10
           rest == exact % 10
<1>1. /\ exact \in Nat
      /\ current > new + (5 \div factor) => exact < 10 * current - 5
      /\ current + (5 \div factor) < new => exact > 10 * current + 5
  <2>1. \/ factor = 1 \/ factor = 2 \/ factor = 3 \/ factor = 4 \/ factor = 5
        \/ factor = 6 \/ factor = 7 \/ factor = 8 \/ factor = 9 \/ factor = 10
    OBVIOUS
  <2> QED BY <2>1
<1>2. /\ n \in {below, below + 1}
      /\ \/ rest < 5 /\ n = below
         \/ rest > 5 /\ n = below + 1
         \/ rest = 5
  BY DEF Ema
<1> HIDE DEF exact
<1>3. below \in Nat /\ rest \in 0..9 /\ exact = 10 * below + rest
  BY <1>1
<1> QED BY <1>1, <1>2, <1>3

(* calculate_penalty gives a natural number.                                  *)
LEMMA PenaltyTyped ==
    ASSUME NEW kind \in Kinds, NEW took \in Inputs \union {ProbeTimeout}
    PROVE  Penalty(kind, took) \in Penalties /\ Penalty(kind, took) \in Nat
<1>1. took \in Nat /\ BasePenalty[kind] \in Nat
  BY MetricsAssumption DEF Inputs
<1> QED BY <1>1 DEF Penalty, AtLeast, Penalties

LEMMA PenaltiesTyped == Penalties \subseteq Nat
BY PenaltyTyped DEF Penalties

(* The two bounds together: a penalty that grows stays within the worst one.   *)
LEMMA PenaltyStaysWithin ==
    ASSUME NEW kind \in Kinds, NEW took \in Inputs \union {ProbeTimeout},
           NEW current \in Nat, NEW worst \in Penalties, current <= worst,
           NEW n \in Ema(8, Penalty(kind, took), current)
    PROVE  n \in Nat /\ \E w \in Penalties : n <= w
<1> DEFINE p == Penalty(kind, took)
<1>1. p \in Penalties /\ p \in Nat /\ worst \in Nat
  BY PenaltyTyped, PenaltiesTyped
<1> HIDE DEF p
<1>4. 8 \in 0..10 /\ 0 \in Nat /\ 0 <= p /\ 0 <= current
  BY <1>1
<1>2. CASE p <= worst
  <2>1. n \in Nat /\ n <= worst
    <3>1. n \in Ema(8, p, current)
      BY DEF p
    <3> QED BY <1>1, <1>2, <3>1, <1>4, EmaBetween
  <2> QED BY <2>1
<1>3. CASE worst < p
  <2>1. n \in Nat /\ n <= p
    <3>1. n \in Ema(8, p, current) /\ current <= p
      BY <1>1, <1>3 DEF p
    <3> QED BY <1>1, <1>3, <3>1, <1>4, EmaBetween
  <2> QED BY <2>1, <1>1
<1> QED BY <1>1, <1>2, <1>3

(* A decayed penalty is within the worst one and at most half of it.           *)
LEMMA DecayForgives ==
    ASSUME NEW current \in Nat, NEW worst \in Penalties, current <= worst,
           NEW n \in Ema(5, 0, current)
    PROVE  n \in Nat /\ n <= worst /\ n <= (worst + 1) \div 2
<1>1. worst \in Nat
  BY PenaltiesTyped
<1>2. n \in Nat /\ 2 * n <= current + 1
  BY EmaHalves
<1>3. n <= worst
  BY <1>1, <1>2
<1>4. 2 * n <= worst + 1
  BY <1>1, <1>2
<1> QED BY <1>1, <1>2, <1>3, <1>4

-----------------------------------------------------------------------------
(* An update's step changes the stage of one request.                         *)
LEMMA EnterTyped ==
    ASSUME TypeOK, NEW t \in Threads, NEW from \in Stages, NEW to \in Stages,
           Enter(t, from, to)
    PROVE  /\ update' \in [Threads -> Stages]
           /\ update'[t] = to
           /\ \A s \in Threads : s # t => update'[s] = update[s]
BY DEF TypeOK, Enter, Stages

(* Init establishes the invariant (LoadBalancer::new).                        *)
LEMMA InitInvariant == Init => IInv
<1> SUFFICES ASSUME Init PROVE IInv
  OBVIOUS
<1>1. Timeout \in Nat /\ Timeout \in Inputs /\ MaxFailures \in Nat /\ "timeout" \in Kinds
  BY MetricsAssumption DEF Inputs
<1>2. TypeOK
  BY <1>1 DEF Init, TypeOK, Stages
<1>3. PICK worst \in Penalties : worst \in Nat
  BY <1>1, PenaltyTyped
<1>4. penalty <= worst /\ penalty <= (worst + 1) \div 2
  BY <1>3 DEF Init
<1>5. WithinInputs
  <2>1. Timeout <= latency /\ latency <= Timeout
    BY <1>1 DEF Init
  <2> QED BY <1>1, <1>3, <1>4, <2>1 DEF WithinInputs
<1> QED BY <1>2, <1>3, <1>4, <1>5 DEF IInv, NoFailuresMeansForgiven

(* Steps that leave the averages where they are need only care for the count. *)
LEMMA SameAveragesWithin ==
    ASSUME WithinInputs, UNCHANGED <<latency, penalty>> PROVE WithinInputs'
BY DEF WithinInputs, Inputs, Penalties, Penalty, AtLeast

(* The steps of a success: the latency, the count, the penalty.               *)
LEMMA SuccessLatencyStep ==
    ASSUME IInv, NEW t \in Threads, NEW took \in Latencies, SuccessLatency(t, took)
    PROVE  IInv'
<1>1. PICK low \in Inputs, high \in Inputs : low <= latency /\ latency <= high
  BY DEF IInv, WithinInputs
<1>2. /\ took \in Nat /\ took \in Inputs /\ low \in Nat /\ high \in Nat
      /\ Smoothing \in 0..10 /\ latency \in Nat
  BY MetricsAssumption DEF Inputs, IInv, TypeOK
<1>3. latency' \in Ema(Smoothing, took, latency) /\ UNCHANGED <<penalty, failures>>
  BY DEF SuccessLatency
<1>4. PICK low2 \in Inputs, high2 \in Inputs :
        /\ low2 \in Nat /\ high2 \in Nat
        /\ low2 <= took /\ took <= high2 /\ low2 <= latency /\ latency <= high2
  <2>1. \E l \in {low, took} : l \in Nat /\ l <= took /\ l <= latency
    BY <1>1, <1>2
  <2>2. \E h \in {high, took} : h \in Nat /\ took <= h /\ latency <= h
    BY <1>1, <1>2
  <2> QED BY <2>1, <2>2, <1>2
<1>5. latency' \in Nat /\ low2 <= latency' /\ latency' <= high2
  BY <1>2, <1>3, <1>4, EmaBetween
<1>6. /\ update' \in [Threads -> Stages] /\ update'[t] = "resetting"
      /\ \A s \in Threads : s # t => update'[s] = update[s]
      /\ update[t] = "idle"
  BY EnterTyped DEF SuccessLatency, IInv, Stages, Enter
<1>7. TypeOK'
  BY <1>3, <1>5, <1>6 DEF IInv, TypeOK
<1>8. WithinInputs'
  <2>1. \E worst \in Penalties : penalty' <= worst
    BY <1>3 DEF IInv, WithinInputs
  <2>2. \E l, h \in Inputs : l <= latency' /\ latency' <= h
    BY <1>5
  <2> QED BY <2>1, <2>2 DEF WithinInputs, Inputs, Penalties, Penalty, AtLeast
<1>9. NoFailuresMeansForgiven'
  BY <1>3, <1>6 DEF IInv, NoFailuresMeansForgiven, Penalties, Penalty, AtLeast, Inputs
<1> QED BY <1>7, <1>8, <1>9 DEF IInv

LEMMA SuccessResetStep ==
    ASSUME IInv, NEW t \in Threads, SuccessReset(t) PROVE IInv'
<1>1. /\ update' \in [Threads -> Stages] /\ update'[t] = "decaying"
      /\ failures' = 0 /\ UNCHANGED <<latency, penalty>>
  BY EnterTyped DEF SuccessReset, IInv, Stages
<1>2. TypeOK'
  BY <1>1, MetricsAssumption DEF IInv, TypeOK
<1>3. WithinInputs'
  BY <1>1, SameAveragesWithin DEF IInv
<1>4. NoFailuresMeansForgiven'
  BY <1>1 DEF NoFailuresMeansForgiven
<1> QED BY <1>2, <1>3, <1>4 DEF IInv

(* A decay of the penalty keeps both bounds, whoever it is done by.           *)
LEMMA DecayStep ==
    ASSUME IInv, penalty' \in Ema(5, 0, penalty), UNCHANGED latency
    PROVE  penalty' \in Nat /\ WithinInputs' /\ NoFailuresMeansForgiven'
<1>1. PICK worst \in Penalties : penalty <= worst
  BY DEF IInv, WithinInputs
<1>2. penalty' \in Nat /\ penalty' <= worst /\ penalty' <= (worst + 1) \div 2
  BY <1>1, DecayForgives DEF IInv, TypeOK
<1>3. \E low, high \in Inputs : low <= latency' /\ latency' <= high
  BY DEF IInv, WithinInputs
<1>4. WithinInputs'
  BY <1>2, <1>3 DEF WithinInputs, Inputs, Penalties, Penalty, AtLeast
<1>5. NoFailuresMeansForgiven'
  BY <1>2 DEF NoFailuresMeansForgiven, Inputs, Penalties, Penalty, AtLeast
<1> QED BY <1>2, <1>4, <1>5

LEMMA SuccessDecayStep ==
    ASSUME IInv, NEW t \in Threads, SuccessDecay(t) PROVE IInv'
<1>1. /\ update' \in [Threads -> Stages] /\ penalty' \in Ema(5, 0, penalty)
      /\ UNCHANGED <<latency, failures>>
  BY EnterTyped DEF SuccessDecay, IInv, Stages
<1>2. penalty' \in Nat /\ WithinInputs' /\ NoFailuresMeansForgiven'
  BY <1>1, DecayStep
<1>3. TypeOK'
  BY <1>1, <1>2 DEF IInv, TypeOK
<1> QED BY <1>2, <1>3 DEF IInv

(* A penalty keeps the bounds of the averages.                                *)
LEMMA PenaltyStep ==
    ASSUME IInv, NEW kind \in Kinds, NEW took \in Inputs \union {ProbeTimeout},
           penalty' \in Ema(8, Penalty(kind, took), penalty), UNCHANGED latency
    PROVE  penalty' \in Nat /\ WithinInputs'
<1>1. PICK worst \in Penalties : penalty <= worst
  BY DEF IInv, WithinInputs
<1>2. penalty' \in Nat /\ \E w \in Penalties : penalty' <= w
  BY <1>1, PenaltyStaysWithin DEF IInv, TypeOK
<1>3. \E low, high \in Inputs : low <= latency' /\ latency' <= high
  BY DEF IInv, WithinInputs
<1> QED BY <1>2, <1>3 DEF WithinInputs, Inputs, Penalties, Penalty, AtLeast

(* The steps of a failure: the penalty, then the count.                       *)
LEMMA FailurePenaltyStep ==
    ASSUME IInv, NEW t \in Threads, NEW kind \in Kinds,
           NEW took \in Latencies \union {Timeout}, FailurePenalty(t, kind, took)
    PROVE  IInv'
<1>1. /\ update' \in [Threads -> Stages] /\ update'[t] = "counting"
      /\ penalty' \in Ema(8, Penalty(kind, took), penalty)
      /\ UNCHANGED <<latency, failures>>
  BY EnterTyped DEF FailurePenalty, IInv, Stages
<1>2. penalty' \in Nat /\ WithinInputs'
  BY <1>1, PenaltyStep DEF Inputs
<1>3. TypeOK'
  BY <1>1, <1>2 DEF IInv, TypeOK
<1>4. NoFailuresMeansForgiven'
  BY <1>1 DEF NoFailuresMeansForgiven
<1> QED BY <1>2, <1>3, <1>4 DEF IInv

LEMMA CountOneTyped ==
    ASSUME TypeOK, CountOne PROVE failures' \in 0..MaxFailures /\ failures' > 0
BY MetricsAssumption DEF TypeOK, CountOne

LEMMA FailureCountStep ==
    ASSUME IInv, NEW t \in Threads, FailureCount(t) PROVE IInv'
<1>1. /\ update' \in [Threads -> Stages] /\ UNCHANGED <<latency, penalty>>
      /\ failures' \in 0..MaxFailures /\ failures' > 0
  BY EnterTyped, CountOneTyped DEF FailureCount, IInv, Stages
<1>2. TypeOK' /\ NoFailuresMeansForgiven'
  BY <1>1 DEF IInv, TypeOK, NoFailuresMeansForgiven
<1>3. WithinInputs'
  BY <1>1, SameAveragesWithin DEF IInv
<1> QED BY <1>2, <1>3 DEF IInv

(* The health loop's two.                                                     *)
LEMMA RecoverStep == ASSUME IInv, Recover PROVE IInv'
<1>1. /\ failures' = 0 /\ penalty' \in Ema(5, 0, penalty)
      /\ UNCHANGED latency /\ UNCHANGED update
  BY DEF Recover, Locked
<1>2. penalty' \in Nat /\ WithinInputs' /\ NoFailuresMeansForgiven'
  BY <1>1, DecayStep
<1>3. TypeOK'
  BY <1>1, <1>2, MetricsAssumption DEF IInv, TypeOK
<1> QED BY <1>2, <1>3 DEF IInv

LEMMA ProbeFailureStep == ASSUME IInv, ProbeFailure PROVE IInv'
<1>1. /\ penalty' \in Ema(8, Penalty("timeout", ProbeTimeout), penalty)
      /\ failures' \in 0..MaxFailures /\ failures' > 0
      /\ UNCHANGED latency /\ UNCHANGED update
  BY CountOneTyped DEF ProbeFailure, Locked, IInv
<1>2. penalty' \in Nat /\ WithinInputs'
  <2>1. "timeout" \in Kinds /\ ProbeTimeout \in Inputs \union {ProbeTimeout}
    BY MetricsAssumption
  <2> QED BY <1>1, <2>1, PenaltyStep
<1>3. TypeOK' /\ NoFailuresMeansForgiven'
  BY <1>1, <1>2 DEF IInv, TypeOK, NoFailuresMeansForgiven
<1> QED BY <1>2, <1>3 DEF IInv

-----------------------------------------------------------------------------
LEMMA NextInvariant == IInv /\ [Next]_vars => IInv'
<1> SUFFICES ASSUME IInv, [Next]_vars PROVE IInv'
  OBVIOUS
<1>1. ASSUME NEW t \in Threads, Success(t) PROVE IInv'
  BY <1>1, SuccessLatencyStep DEF Success
<1>2. ASSUME NEW t \in Threads, Failure(t) PROVE IInv'
  BY <1>2, FailurePenaltyStep DEF Failure
<1>3. ASSUME NEW t \in Threads, Finish(t) PROVE IInv'
  BY <1>3, SuccessResetStep, SuccessDecayStep, FailureCountStep DEF Finish
<1>4. CASE Recover
  BY <1>4, RecoverStep
<1>5. CASE ProbeFailure
  BY <1>5, ProbeFailureStep
<1>6. CASE UNCHANGED vars
  <2>1. WithinInputs'
    BY <1>6, SameAveragesWithin DEF IInv, vars
  <2>2. TypeOK'
    BY <1>6 DEF IInv, TypeOK, vars
  <2>3. NoFailuresMeansForgiven'
    BY <1>6 DEF IInv, NoFailuresMeansForgiven, vars, Penalties, Penalty, AtLeast, Inputs
  <2> QED BY <2>1, <2>2, <2>3 DEF IInv
<1> QED BY <1>1, <1>2, <1>3, <1>4, <1>5, <1>6 DEF Next

LEMMA InvariantHolds == Spec => []IInv
BY InitInvariant, NextInvariant, PTL DEF Spec

(* The averages, the count and the stages keep their types: an average of     *)
(* natural numbers stays one (EndpointMetrics).                               *)
THEOREM TypeCorrect == Spec => []TypeOK
<1>1. IInv => TypeOK
  BY DEF IInv
<1> QED BY <1>1, InvariantHolds, PTL

(* Rounding never carries an average beyond what was measured (update_ema).    *)
THEOREM AlwaysWithinInputs == Spec => []WithinInputs
<1>1. IInv => WithinInputs
  BY DEF IInv
<1> QED BY <1>1, InvariantHolds, PTL

(* A count of 0 that nobody is about to change means a penalty that has        *)
(* decayed since it last grew (EndpointMetrics::update).                       *)
THEOREM AlwaysForgiven == Spec => []NoFailuresMeansForgiven
<1>1. IInv => NoFailuresMeansForgiven
  BY DEF IInv
<1> QED BY <1>1, InvariantHolds, PTL

(* No average sticks further than the residue of the rounding from what the    *)
(* endpoint's successes measure (update_ema).                                 *)
THEOREM NeverAverageStuck == Spec => NeverStuckBeyondResidue
<1>1. ASSUME IInv, NEW t \in Threads
      PROVE  /\ \A took \in Latencies : SuccessLatency(t, took) /\ Smoothing > 0 =>
                    /\ latency > took + Residue => latency' < latency
                    /\ latency + Residue < took => latency' > latency
             /\ SuccessDecay(t) /\ penalty > 1 => penalty' < penalty
  <2>1. latency \in Nat /\ penalty \in Nat
    BY <1>1 DEF IInv, TypeOK
  <2>2. ASSUME NEW took \in Latencies, SuccessLatency(t, took), Smoothing > 0
        PROVE  /\ latency > took + Residue => latency' < latency
               /\ latency + Residue < took => latency' > latency
    <3>1. Smoothing \in 1..10 /\ took \in Nat /\ latency' \in Ema(Smoothing, took, latency)
      BY <2>2, MetricsAssumption DEF SuccessLatency
    <3> QED BY <2>1, <3>1, EmaMoves DEF Residue
  <2>3. ASSUME SuccessDecay(t), penalty > 1 PROVE penalty' < penalty
    <3>1. penalty' \in Ema(5, 0, penalty)
      BY <2>3 DEF SuccessDecay
    <3> QED BY <2>1, <2>3, <3>1, DecayLowers
  <2> QED BY <2>2, <2>3
<1>2. IInv => \A t \in Threads :
        /\ \A took \in Latencies : SuccessLatency(t, took) /\ Smoothing > 0 =>
               /\ latency > took + Residue => latency' < latency
               /\ latency + Residue < took => latency' > latency
        /\ SuccessDecay(t) /\ penalty > 1 => penalty' < penalty
  BY <1>1
<1> QED BY <1>2, InvariantHolds, PTL DEF NeverStuckBeyondResidue
=============================================================================
