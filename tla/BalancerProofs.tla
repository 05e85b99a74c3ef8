--------------------------- MODULE BalancerProofs ---------------------------
(* EndpointHealth is type-correct, keeps rests and strikes together, never    *)
(* strikes an outage twice and implements Rotation, for every set of          *)
(* endpoints and requests and every word size, counter size and setting.      *)
(* With the reloads of Balancer around it, whoever is out of the rotation was *)
(* still struck.                                                              *)
EXTENDS Balancer, FiniteSetTheorems, TLAPS

-----------------------------------------------------------------------------
(* The cooldown arithmetic of module Endpoint.                                *)

(* A power of two is the number of subsets of an interval, which is how the   *)
(* provers get hold of it: the arithmetic of pow in trigger_cooldown.         *)
LEMMA Pow2IsCardinality ==
    ASSUME NEW n \in Nat
    PROVE  /\ IsFiniteSet(SUBSET (1..n))
           /\ Cardinality(SUBSET (1..n)) = 2^n
           /\ 2^n \in Nat
<1>1. IsFiniteSet(1..n) /\ Cardinality(1..n) = n
  BY FS_Interval
<1>2. IsFiniteSet(SUBSET (1..n)) /\ Cardinality(SUBSET (1..n)) = 2^n
  BY <1>1, FS_SUBSET
<1>3. Cardinality(SUBSET (1..n)) \in Nat
  BY <1>2, FS_CardinalityType
<1> QED BY <1>2, <1>3

(* 2^m < 2^n for m < n: the backoff doubles, it never stands still.           *)
LEMMA Pow2StrictlyMonotone ==
    ASSUME NEW m \in Nat, NEW n \in Nat, m < n
    PROVE  2^m < 2^n
<1> DEFINE S == SUBSET (1..m)
           T == SUBSET (1..n)
<1>1. S \subseteq T
  OBVIOUS
<1>2. (1..n) \in T /\ (1..n) \notin S
  <2>1. n \in 1..n /\ n \notin 1..m
    OBVIOUS
  <2> QED BY <2>1
<1>3. IsFiniteSet(T) /\ Cardinality(T) = 2^n /\ 2^n \in Nat
  BY Pow2IsCardinality
<1>4. Cardinality(S) = 2^m /\ 2^m \in Nat
  BY Pow2IsCardinality
<1> HIDE DEF S, T
<1>5. S # T
  BY <1>2
<1>6. Cardinality(S) <= Cardinality(T) /\ Cardinality(S) # Cardinality(T)
  BY <1>1, <1>3, <1>5, FS_Subset
<1> QED BY <1>3, <1>4, <1>6

(* The backoff's factor is the power itself while it fits into the word       *)
(* (2u64.pow in trigger_cooldown), and always a number of that word.          *)
LEMMA WrappingPow2Value ==
    ASSUME NEW n \in Nat
    PROVE  /\ WrappingPow2(n) \in Nat
           /\ n < WordBits => WrappingPow2(n) = 2^n
<1>1. WordBits \in Nat
  BY EndpointAssumption
<1>2. 2^n \in Nat /\ Word \in Nat
  BY <1>1, Pow2IsCardinality DEF Word
<1>3. 0 < Word
  <2>1. CASE WordBits = 0
    BY <2>1, EndpointAssumption
  <2>2. CASE WordBits > 0
    <3>1. 2^0 < 2^WordBits /\ 2^0 \in Nat
      BY <1>1, <2>2, Pow2StrictlyMonotone, Pow2IsCardinality
    <3> QED BY <3>1, <1>2 DEF Word
  <2> QED BY <1>1, <2>1, <2>2
<1>4. WrappingPow2(n) \in Nat
  BY <1>2, <1>3 DEF WrappingPow2
<1>5. ASSUME n < WordBits PROVE WrappingPow2(n) = 2^n
  <2>1. 2^n < Word
    BY <1>1, <1>5, Pow2StrictlyMonotone DEF Word
  <2> QED BY <1>2, <2>1 DEF WrappingPow2
<1> QED BY <1>4, <1>5

(* Multiplication by a number keeps the order.                                *)
LEMMA TimesMonotone ==
    ASSUME NEW k \in Nat, NEW m \in Nat, NEW n \in Nat, m <= n
    PROVE  k * m \in Nat /\ k * n \in Nat /\ k * m <= k * n
<1>1. PICK d \in Nat : n = m + d
  <2>1. n - m \in Nat /\ n = m + (n - m)
    OBVIOUS
  <2> QED BY <2>1
<1>2. k * m \in Nat /\ k * d \in Nat /\ k * n \in Nat
  OBVIOUS
<1>3. k * n = k * m + k * d
  BY <1>1
<1> QED BY <1>2, <1>3

(* trigger_cooldown never computes a rest beyond max_cooldown_secs.           *)
THEOREM CooldownDurationBound ==
    ASSUME NEW n \in Nat
    PROVE  CooldownDuration(n) \in 0..Max
<1>1. WrappingPow2(n) \in Nat /\ Base \in Nat /\ Max \in Nat /\ Word \in Nat /\ Max < Word
  BY WrappingPow2Value, EndpointAssumption, Pow2IsCardinality DEF Word
<1>2. Base * WrappingPow2(n) \in Nat
  BY <1>1
<1> DEFINE product == Base * WrappingPow2(n)
<1> HIDE DEF product
<1>3. product \in Nat
  BY <1>2 DEF product
<1>4. CooldownDuration(n) = AtMost(AtMost(product, Word - 1), Max)
  BY DEF CooldownDuration, SaturatingMul, product
<1> QED BY <1>1, <1>3, <1>4 DEF AtMost

(* The backoff: as long as the attempts stay below the width of the word,     *)
(* more attempts never mean a shorter rest (trigger_cooldown).                *)
THEOREM BackoffMonotone ==
    ASSUME NEW m \in Nat, NEW n \in Nat, m <= n, n < WordBits
    PROVE  CooldownDuration(m) <= CooldownDuration(n)
<1>1. WordBits \in Nat /\ Base \in Nat /\ Max \in Nat /\ Word \in Nat /\ Max < Word
  BY EndpointAssumption, Pow2IsCardinality DEF Word
<1>2. /\ WrappingPow2(m) = 2^m /\ WrappingPow2(n) = 2^n
      /\ 2^m \in Nat /\ 2^n \in Nat
  BY <1>1, WrappingPow2Value, Pow2IsCardinality
<1>3. 2^m <= 2^n
  <2>1. CASE m = n
    BY <1>2, <2>1
  <2>2. CASE m < n
    BY <1>2, <2>2, Pow2StrictlyMonotone
  <2> QED BY <2>1, <2>2
<1> DEFINE p == Base * WrappingPow2(m)
           q == Base * WrappingPow2(n)
<1>4. p \in Nat /\ q \in Nat /\ p <= q
  BY <1>1, <1>2, <1>3, TimesMonotone
<1>5. /\ CooldownDuration(m) = AtMost(AtMost(p, Word - 1), Max)
      /\ CooldownDuration(n) = AtMost(AtMost(q, Word - 1), Max)
  BY DEF CooldownDuration, SaturatingMul
<1> HIDE DEF p, q
<1> QED BY <1>1, <1>4, <1>5 DEF AtMost

-----------------------------------------------------------------------------
(* Single endpoints.                                                          *)

(* RestMatchesStrikes, of one endpoint. *)
Matches(e) ==
    /\ ~ e.healthy => e.attempts > 0
    /\ e.attempts = 0 => e.cooldown = 0
    /\ e.cooldown <= CooldownDuration(e.attempts)

Sound(e) == e \in EndpointState /\ Matches(e)

(* The inductive invariant: RestMatchesStrikes needs the types of the fields, *)
(* and nothing else, since every action rewrites whole endpoints.             *)
IInv == TypeOK /\ RestMatchesStrikes

(* e2 is e with one strike more, as Rotation's Struck asks for.               *)
StruckFrom(e, e2) ==
    /\ e2.attempts = SaturatingIncrement(e.attempts)
    /\ e2.cooldown \in 0..Max
    /\ e2.attempts < WordBits => e2.cooldown >= e.cooldown

-----------------------------------------------------------------------------
(* A new endpoint is sound (LoadBalancer::new).                               *)
LEMMA NewSound == Sound(NewEndpoint)
<1>1. CooldownDuration(0) \in 0..Max /\ Max \in Nat /\ MaxAttempts \in Nat
  BY CooldownDurationBound, EndpointAssumption
<1> QED BY <1>1 DEF Sound, NewEndpoint, EndpointState, Matches

(* trigger_cooldown keeps an endpoint sound and strikes it.                   *)
LEMMA TriggerSound ==
    ASSUME NEW e, Sound(e)
    PROVE  /\ Sound(TriggerCooldown(e))
           /\ Sound([TriggerCooldown(e) EXCEPT !.healthy = FALSE])
           /\ TriggerCooldown(e).healthy = e.healthy
           /\ StruckFrom(e, TriggerCooldown(e))
           /\ StruckFrom(e, [TriggerCooldown(e) EXCEPT !.healthy = FALSE])
<1> DEFINE n == SaturatingIncrement(e.attempts)
           d == CooldownDuration(n)
<1>1. /\ e \in EndpointState /\ Matches(e)
      /\ MaxAttempts \in Nat /\ MaxAttempts > 0 /\ Max \in Nat /\ WordBits \in Nat
  BY EndpointAssumption DEF Sound
<1>2. /\ e.healthy \in BOOLEAN /\ e.attempts \in 0..MaxAttempts /\ e.cooldown \in 0..Max
  BY <1>1 DEF EndpointState
<1>3. n \in 1..MaxAttempts /\ e.attempts <= n
  BY <1>1, <1>2 DEF SaturatingIncrement, AtMost
<1>4. d \in 0..Max
  BY <1>3, CooldownDurationBound
<1>5. n < WordBits => d >= e.cooldown
  <2> SUFFICES ASSUME n < WordBits PROVE d >= e.cooldown
    OBVIOUS
  <2>1. CooldownDuration(e.attempts) <= d
    BY <1>1, <1>2, <1>3, BackoffMonotone
  <2>2. e.cooldown <= CooldownDuration(e.attempts)
    BY <1>1 DEF Matches
  <2>3. CooldownDuration(e.attempts) \in 0..Max
    BY <1>2, CooldownDurationBound
  <2> QED BY <1>1, <1>2, <1>4, <2>1, <2>2, <2>3
<1> DEFINE t == TriggerCooldown(e)
           f == [t EXCEPT !.healthy = FALSE]
<1>6. t = [e EXCEPT !.attempts = n, !.cooldown = d]
  BY DEF TriggerCooldown
<1>7. n \in 0..MaxAttempts
  BY <1>1, <1>3
<1> HIDE DEF n, d
<1>8. /\ t \in EndpointState /\ t.healthy = e.healthy /\ t.attempts = n /\ t.cooldown = d
      /\ f \in EndpointState /\ f.healthy = FALSE /\ f.attempts = n /\ f.cooldown = d
  <2> HIDE DEF t
  <2>1. t \in EndpointState /\ t.healthy = e.healthy /\ t.attempts = n /\ t.cooldown = d
    BY <1>1, <1>4, <1>6, <1>7 DEF EndpointState
  <2>2. f \in EndpointState /\ f.healthy = FALSE /\ f.attempts = n /\ f.cooldown = d
    BY <2>1 DEF EndpointState
  <2> QED BY <2>1, <2>2
<1>9. CooldownDuration(n) = d
  BY DEF d
<1>10. Matches(t) /\ Matches(f)
  BY <1>1, <1>3, <1>4, <1>8, <1>9 DEF Matches
<1>11. n = SaturatingIncrement(e.attempts)
  BY DEF n
<1>12. StruckFrom(e, t) /\ StruckFrom(e, f)
  BY <1>4, <1>5, <1>8, <1>11 DEF StruckFrom
<1> QED BY <1>8, <1>10, <1>12 DEF Sound

(* Time keeps an endpoint sound: what is left of a rest only gets less.       *)
LEMMA ElapseSound ==
    ASSUME NEW e, Sound(e)
    PROVE  /\ Sound(Elapse(e))
           /\ Elapse(e).healthy = e.healthy
           /\ Elapse(e).attempts = e.attempts
           /\ Elapse(e).cooldown = IF e.cooldown > 0 THEN e.cooldown - 1 ELSE 0
<1>1. /\ e \in EndpointState /\ Matches(e) /\ Max \in Nat /\ MaxAttempts \in Nat
      /\ e.cooldown \in 0..Max /\ e.attempts \in 0..MaxAttempts
  BY EndpointAssumption DEF Sound, EndpointState
<1> DEFINE c == IF e.cooldown > 0 THEN e.cooldown - 1 ELSE 0
<1>2. c \in 0..Max /\ c <= e.cooldown
  BY <1>1
<1>3. /\ Elapse(e).healthy = e.healthy /\ Elapse(e).attempts = e.attempts
      /\ Elapse(e).cooldown = c /\ Elapse(e) \in EndpointState
  BY <1>1, <1>2 DEF Elapse, EndpointState
<1>4. CooldownDuration(e.attempts) \in 0..Max
  BY <1>1, CooldownDurationBound
<1>5. Matches(Elapse(e))
  BY <1>1, <1>2, <1>3, <1>4 DEF Matches
<1> QED BY <1>3, <1>5 DEF Sound

(* mark_unhealthy and a failed probe keep an endpoint sound: one that was in  *)
(* is out with a strike, one that was out is not touched.                     *)
LEMMA TakeOutSound ==
    ASSUME NEW e, Sound(e)
    PROVE  /\ Sound(TakeOut(e))
           /\ ~ TakeOut(e).healthy
           /\ e.healthy => StruckFrom(e, TakeOut(e))
           /\ ~ e.healthy => TakeOut(e) = e
<1>1. CASE e.healthy
  <2>1. TakeOut(e) = [TriggerCooldown(e) EXCEPT !.healthy = FALSE]
    BY <1>1 DEF TakeOut
  <2>2. TriggerCooldown(e) \in EndpointState
    BY TriggerSound DEF Sound
  <2>3. ~ TakeOut(e).healthy
    BY <2>1, <2>2 DEF EndpointState
  <2> QED BY <1>1, <2>1, <2>3, TriggerSound
<1>2. CASE ~ e.healthy
  BY <1>2 DEF TakeOut
<1> QED BY <1>1, <1>2

(* A passed probe keeps an endpoint sound: one that was out comes back as if  *)
(* it were new, one that was in is not touched.                               *)
LEMMA RecoverSound ==
    ASSUME NEW e, Sound(e)
    PROVE  /\ Sound(Recover(e))
           /\ Recover(e).healthy
           /\ ~ e.healthy => Recover(e).attempts = 0 /\ Recover(e).cooldown = 0
           /\ e.healthy => Recover(e) = e
<1>1. CASE e.healthy
  BY <1>1 DEF Recover
<1>2. CASE ~ e.healthy
  <2>1. /\ Recover(e) \in EndpointState /\ Recover(e).healthy = TRUE
        /\ Recover(e).attempts = 0 /\ Recover(e).cooldown = 0
    <3>1. e \in EndpointState /\ 0 \in 0..MaxAttempts /\ 0 \in 0..Max
      BY EndpointAssumption DEF Sound
    <3>2. Recover(e) = [e EXCEPT !.healthy = TRUE, !.attempts = 0, !.cooldown = 0]
      BY <1>2 DEF Recover
    <3> QED BY <3>1, <3>2 DEF EndpointState
  <2>2. CooldownDuration(0) \in 0..Max /\ Max \in Nat
    BY CooldownDurationBound, EndpointAssumption
  <2> QED BY <1>2, <2>1, <2>2 DEF Sound, Matches
<1> QED BY <1>1, <1>2

(* IInv, endpoint by endpoint.                                                *)
LEMMA IInvIsSound ==
    IInv => \A u \in Urls : Sound(ep[u])
BY DEF IInv, TypeOK, RestMatchesStrikes, Sound, Matches

LEMMA SoundIsRest ==
    ASSUME \A u \in Urls : Sound(ep[u])
    PROVE  RestMatchesStrikes
BY DEF RestMatchesStrikes, Sound, Matches

-----------------------------------------------------------------------------
(* The initial state of the balancer is sound.                                *)
LEMMA InitIInv == Init => IInv
<1> SUFFICES ASSUME Init PROVE IInv
  OBVIOUS
<1>1. \A u \in Urls : Sound(ep[u])
  BY NewSound DEF Init
<1>2. TypeOK
  BY <1>1 DEF Init, TypeOK, Sound, Idle, Stages, ProbeStates, Conditions, NewEndpoint
<1> QED BY <1>1, <1>2, SoundIsRest DEF IInv

(* Every action leaves the invariant intact: a mark that comes late, a round  *)
(* applied after its answers went stale, and the clock included.              *)
LEMMA NextIInv == IInv /\ [Next]_vars => IInv'
<1> SUFFICES ASSUME IInv, [Next]_vars PROVE IInv'
  OBVIOUS
<1> USE DEF IInv
<1>0. /\ \A u \in Urls : Sound(ep[u])
      /\ ep \in [Urls -> EndpointState]
  BY IInvIsSound DEF TypeOK
<1> DEFINE Req == [at : Stages, url : Urls \union {NoUrl}]
           Clients == \A r \in Requests : req[r] \in Req /\ (req[r].at # "idle" => req[r].url \in Urls)
<1>a. ASSUME /\ ep' \in [Urls -> EndpointState]
             /\ \A u \in Urls : Sound(ep'[u])
             /\ req' \in [Requests -> Req]
             /\ \A r \in Requests : req'[r].at # "idle" => req'[r].url \in Urls
             /\ probe' \in [Urls -> ProbeStates]
             /\ upstream' \in [Urls -> Conditions]
      PROVE  IInv'
  BY <1>a DEF TypeOK, RestMatchesStrikes, Sound, Matches
<1>b. ASSUME NEW u \in Urls, NEW e, Sound(e), ep' = [ep EXCEPT ![u] = e]
      PROVE  ep' \in [Urls -> EndpointState] /\ \A v \in Urls : Sound(ep'[v])
  BY <1>0, <1>b DEF Sound
<1>c. Idle \in Req /\ Idle.at = "idle"
  BY DEF Idle, Stages
<1>1. ASSUME NEW r \in Requests, NEW u \in Urls, Dispatch(r, u)
      PROVE  IInv'
  BY <1>0, <1>1, <1>a DEF Dispatch, TypeOK, Stages
<1>2. ASSUME NEW r \in Requests, Receive(r) PROVE IInv'
  <2>1. PICK outcome \in Outcomes(upstream[req[r].url]) :
            req' = [req EXCEPT ![r].at = outcome]
    BY <1>2 DEF Receive
  <2>2. outcome \in Stages /\ req[r].at # "idle"
    BY <1>2, <2>1 DEF Receive, Outcomes, Stages
  <2>3. UNCHANGED <<ep, probe, upstream>>
    BY <1>2 DEF Receive
  <2> QED BY <1>0, <1>a, <2>1, <2>2, <2>3 DEF TypeOK
<1>3. ASSUME NEW r \in Requests, ReadBody(r) PROVE IInv'
  <2>1. UNCHANGED <<ep, probe, upstream>> /\ req[r].at # "idle"
    BY <1>3 DEF ReadBody
  <2>2. CASE req' = [req EXCEPT ![r] = Idle]
    BY <1>0, <1>a, <1>c, <2>1, <2>2 DEF TypeOK
  <2>3. CASE req' = [req EXCEPT ![r].at = "failed"]
    BY <1>0, <1>a, <2>1, <2>3 DEF TypeOK, Stages
  <2> QED BY <1>3, <2>2, <2>3 DEF ReadBody
<1>4. ASSUME NEW r \in Requests, Cancel(r) PROVE IInv'
  BY <1>0, <1>4, <1>a, <1>c DEF Cancel, TypeOK
<1>5. ASSUME NEW r \in Requests, MarkRateLimited(r) PROVE IInv'
  <2>1. req[r].url \in Urls
    BY <1>5 DEF MarkRateLimited, TypeOK
  <2>2. /\ ep' = [ep EXCEPT ![req[r].url] = TriggerCooldown(ep[req[r].url])]
        /\ Sound(TriggerCooldown(ep[req[r].url]))
    BY <1>0, <1>5, <2>1, TriggerSound DEF MarkRateLimited
  <2>3. ep' \in [Urls -> EndpointState] /\ \A v \in Urls : Sound(ep'[v])
    BY <1>b, <2>1, <2>2
  <2> QED BY <1>5, <1>a, <1>c, <2>3 DEF MarkRateLimited, TypeOK
<1>6. ASSUME NEW r \in Requests, MarkUnhealthy(r) PROVE IInv'
  <2>1. req[r].url \in Urls
    BY <1>6 DEF MarkUnhealthy, TypeOK
  <2>2. /\ ep' = [ep EXCEPT ![req[r].url] = TakeOut(ep[req[r].url])]
        /\ Sound(TakeOut(ep[req[r].url]))
    BY <1>0, <1>6, <2>1, TakeOutSound DEF MarkUnhealthy
  <2>3. ep' \in [Urls -> EndpointState] /\ \A v \in Urls : Sound(ep'[v])
    BY <1>b, <2>1, <2>2
  <2> QED BY <1>6, <1>a, <1>c, <2>3 DEF MarkUnhealthy, TypeOK
<1>7. CASE StartRound
  BY <1>0, <1>7, <1>a DEF StartRound, TypeOK, ProbeStates
<1>8. ASSUME NEW u \in Urls, ProbeAnswer(u) PROVE IInv'
  <2>1. PICK answer \in {"passed", "failed"} : probe' = [probe EXCEPT ![u] = answer]
    BY <1>8 DEF ProbeAnswer
  <2>2. UNCHANGED <<ep, req, upstream>>
    BY <1>8 DEF ProbeAnswer
  <2> QED BY <1>0, <1>a, <2>1, <2>2 DEF TypeOK, ProbeStates
<1>9. CASE ApplyRound
  <2>1. \A u \in Urls : Sound(Assessed(u))
    BY <1>0, RecoverSound, TakeOutSound DEF Assessed
  <2>2. ep' = [u \in Urls |-> Assessed(u)]
    BY <1>9 DEF ApplyRound
  <2>3. ep' \in [Urls -> EndpointState] /\ \A u \in Urls : Sound(ep'[u])
    BY <2>1, <2>2 DEF Sound
  <2> QED BY <1>9, <1>a, <2>3 DEF ApplyRound, TypeOK, ProbeStates
<1>10. CASE Tick
  <2>1. \A u \in Urls : Sound(Elapse(ep[u]))
    BY <1>0, ElapseSound
  <2>2. ep' = [u \in Urls |-> Elapse(ep[u])]
    BY <1>10 DEF Tick
  <2>3. ep' \in [Urls -> EndpointState] /\ \A u \in Urls : Sound(ep'[u])
    BY <2>1, <2>2 DEF Sound
  <2> QED BY <1>10, <1>a, <2>3 DEF Tick, TypeOK
<1>11. ASSUME NEW u \in Urls, Turn(u) PROVE IInv'
  <2>1. PICK condition \in Conditions : upstream' = [upstream EXCEPT ![u] = condition]
    BY <1>11 DEF Turn
  <2>2. UNCHANGED <<ep, req, probe>>
    BY <1>11 DEF Turn
  <2> QED BY <1>0, <1>a, <2>1, <2>2 DEF TypeOK
<1>12. CASE UNCHANGED vars
  BY <1>0, <1>12, <1>a DEF vars, TypeOK
<1> QED
  BY <1>1, <1>2, <1>3, <1>4, <1>5, <1>6, <1>7, <1>8, <1>9, <1>10, <1>11, <1>12 DEF Next

(* The endpoints, the requests and the probes always have the values the code *)
(* can give them.                                                             *)
THEOREM TypeCorrect == Spec => []TypeOK
<1>1. IInv => TypeOK
  BY DEF IInv
<1> QED BY <1>1, InitIInv, NextIInv, PTL DEF Spec

(* Rests and strikes never drift apart, though requests, the health loop and  *)
(* the clock write them at their own pace.                                    *)
THEOREM RestAlwaysMatchesStrikes == Spec => []RestMatchesStrikes
<1>1. IInv => RestMatchesStrikes
  BY DEF IInv
<1> QED BY <1>1, InitIInv, NextIInv, PTL DEF Spec

(* Whatever fails late, a request or a round, an outage is struck once; more   *)
(* than that is the doing of a late answer of 429.                            *)
THEOREM OutageCostsOneStrike == Spec => OneStrikePerOutage
<1> DEFINE Kept(u) ==
             /\ ~ ep[u].healthy /\ ~ ep'[u].healthy
             /\ ep'[u].attempts # ep[u].attempts \/ ep'[u].cooldown > ep[u].cooldown
             => \E r \in Requests : req[r] = [at |-> "limited", url |-> u] /\ req'[r] = Idle
<1>1. ASSUME IInv, [Next]_vars PROVE \A u \in Urls : Kept(u)
  <2> SUFFICES ASSUME NEW u \in Urls PROVE Kept(u)
    OBVIOUS
  <2>1. /\ Sound(ep[u]) /\ ep \in [Urls -> EndpointState]
        /\ ep[u].cooldown \in Nat /\ ~ (ep[u].cooldown > ep[u].cooldown)
    <3>1. Sound(ep[u]) /\ ep \in [Urls -> EndpointState] /\ Max \in Nat
      BY <1>1, IInvIsSound, EndpointAssumption DEF IInv, TypeOK
    <3> QED BY <3>1 DEF EndpointState
  <2>2. CASE ep'[u] = ep[u]
    BY <2>1, <2>2
  <2>3. ASSUME NEW r \in Requests, MarkRateLimited(r) PROVE Kept(u)
    <3>1. CASE req[r].url = u
      <4>1. req[r] \in [at : Stages, url : Urls \union {NoUrl}] /\ req[r].at = "limited"
        BY <1>1, <2>3 DEF MarkRateLimited, IInv, TypeOK
      <4>2. req[r] = [at |-> "limited", url |-> u]
        BY <3>1, <4>1
      <4>3. req'[r] = Idle
        BY <1>1, <2>3 DEF MarkRateLimited, IInv, TypeOK
      <4> QED BY <4>2, <4>3
    <3>2. CASE req[r].url # u
      BY <2>1, <2>2, <2>3, <3>2 DEF MarkRateLimited
    <3> QED BY <3>1, <3>2
  <2>4. ASSUME NEW r \in Requests, MarkUnhealthy(r) PROVE Kept(u)
    <3>1. ep' = [ep EXCEPT ![req[r].url] = TakeOut(ep[req[r].url])]
      BY <2>4 DEF MarkUnhealthy
    <3>2. CASE ~ ep[u].healthy
      <4>1. ep'[u] = ep[u]
        BY <2>1, <3>1, <3>2, TakeOutSound
      <4> QED BY <2>2, <4>1
    <3> QED BY <3>2
  <2>5. CASE ApplyRound
    <3>1. ep'[u] = Assessed(u)
      BY <2>5 DEF ApplyRound
    <3>2. CASE ~ ep[u].healthy /\ probe[u] = "passed"
      <4>1. ep'[u].healthy
        BY <2>1, <3>1, <3>2, RecoverSound DEF Assessed
      <4> QED BY <4>1
    <3>3. CASE ~ ep[u].healthy /\ probe[u] # "passed"
      <4>1. ep'[u] = ep[u]
        BY <2>1, <3>1, <3>3, TakeOutSound DEF Assessed
      <4> QED BY <2>2, <4>1
    <3> QED BY <3>2, <3>3
  <2>6. CASE Tick
    <3>1. /\ ep'[u].attempts = ep[u].attempts
          /\ ep'[u].cooldown = IF ep[u].cooldown > 0 THEN ep[u].cooldown - 1 ELSE 0
      BY <2>1, <2>6, ElapseSound DEF Tick
    <3>2. ~ (ep'[u].cooldown > ep[u].cooldown)
      BY <2>1, <3>1
    <3> QED BY <3>1, <3>2
  <2>7. \/ UNCHANGED ep
        \/ \E r \in Requests : MarkRateLimited(r) \/ MarkUnhealthy(r)
        \/ ApplyRound
        \/ Tick
    BY <1>1 DEF Next, vars, Dispatch, Receive, ReadBody, Cancel, StartRound, ProbeAnswer, Turn
  <2> HIDE DEF Kept
  <2> QED BY <2>2, <2>3, <2>4, <2>5, <2>6, <2>7
<1>2. IInv /\ [Next]_vars => [\A u \in Urls : Kept(u)]_vars
  BY <1>1
<1> QED BY <1>2, InitIInv, NextIInv, PTL DEF Spec, OneStrikePerOutage

-----------------------------------------------------------------------------
(* A request's mark is one strike of the abstract rotation, or nothing.       *)
LEMMA MarkRefines ==
    ASSUME IInv, NEW u \in Urls, NEW e,
           ep' = [ep EXCEPT ![u] = e],
           \/ e = TriggerCooldown(ep[u])
           \/ e = TakeOut(ep[u])
    PROVE  [R!RotationNext]_(R!rotationVars)
<1>1. Sound(ep[u]) /\ ep \in [Urls -> EndpointState]
  BY IInvIsSound DEF IInv, TypeOK
<1>2. ep'[u] = e /\ \A v \in Urls \ {u} : ep'[v] = ep[v]
  BY <1>1
<1>3. \A v \in Urls \ {u} : R!Untouched(v)
  BY <1>2 DEF R!Untouched
<1>4. R!Shaped
  BY DEF R!Shaped
<1>5. ASSUME StruckFrom(ep[u], e) PROVE R!Struck(u)
  <2>1. ep'[u].attempts = SaturatingIncrement(ep[u].attempts)
    BY <1>2, <1>5 DEF StruckFrom
  <2>2. ep[u].attempts \in 0..MaxAttempts /\ MaxAttempts \in Nat
    BY <1>1, EndpointAssumption DEF EndpointState
  <2>3. ep'[u].attempts = IF ep[u].attempts < MaxAttempts
                            THEN ep[u].attempts + 1 ELSE MaxAttempts
    BY <2>1, <2>2 DEF SaturatingIncrement, AtMost
  <2> QED BY <1>2, <1>5, <2>3 DEF StruckFrom, R!Struck
<1>6. CASE e = TriggerCooldown(ep[u])
  <2>1. StruckFrom(ep[u], e) /\ e.healthy = ep[u].healthy
    BY <1>1, <1>6, TriggerSound
  <2>2. {v \in Urls : ~ ep'[v].healthy} = {v \in Urls : ~ ep[v].healthy}
    BY <1>2, <2>1
  <2>3. R!Strike(u)
    BY <1>3, <1>4, <1>5, <2>1, <2>2 DEF R!Strike
  <2> QED BY <2>3 DEF R!RotationNext
<1>7. CASE e = TakeOut(ep[u]) /\ ep[u].healthy
  <2>1. StruckFrom(ep[u], e) /\ ~ e.healthy
    BY <1>1, <1>7, TakeOutSound
  <2>2. {v \in Urls : ~ ep'[v].healthy} = {v \in Urls : ~ ep[v].healthy} \union {u}
    BY <1>2, <2>1
  <2>3. R!Break(u)
    BY <1>3, <1>4, <1>5, <1>7, <2>1, <2>2 DEF R!Break
  <2> QED BY <2>3 DEF R!RotationNext
<1>8. CASE e = TakeOut(ep[u]) /\ ~ ep[u].healthy
  <2>1. ep' = ep
    BY <1>1, <1>8, TakeOutSound
  <2> QED BY <2>1 DEF R!rotationVars
<1> QED BY <1>6, <1>7, <1>8

(* One applied round is one assessment of the abstract rotation.              *)
LEMMA RoundRefines ==
    ASSUME IInv, ApplyRound
    PROVE  R!RotationNext
<1> DEFINE mended == {u \in Urls : ~ ep[u].healthy /\ probe[u] = "passed"}
           fallen == {u \in Urls : ep[u].healthy /\ probe[u] # "passed"}
<1>1. \A u \in Urls : Sound(ep[u]) /\ ep'[u] = Assessed(u)
  BY IInvIsSound DEF ApplyRound
<1>2. ASSUME NEW u \in mended PROVE R!Forgiven(u) /\ ep'[u].healthy
  BY <1>1, <1>2, RecoverSound DEF Assessed, R!Forgiven
<1>3. ASSUME NEW u \in fallen PROVE R!Struck(u) /\ ~ ep'[u].healthy
  <2>1. /\ ep'[u] = TakeOut(ep[u]) /\ ~ ep'[u].healthy
        /\ StruckFrom(ep[u], ep'[u]) /\ Sound(ep[u])
    BY <1>1, <1>3, TakeOutSound DEF Assessed
  <2>2. ep[u].attempts \in 0..MaxAttempts /\ MaxAttempts \in Nat
    BY <2>1, EndpointAssumption DEF Sound, EndpointState
  <2>3. ep'[u].attempts = IF ep[u].attempts < MaxAttempts
                            THEN ep[u].attempts + 1 ELSE MaxAttempts
    BY <2>1, <2>2 DEF StruckFrom, SaturatingIncrement, AtMost
  <2> QED BY <1>3, <2>1, <2>3 DEF StruckFrom, R!Struck
<1>4. ASSUME NEW u \in Urls \ (mended \union fallen)
      PROVE  R!Untouched(u) /\ ep'[u].healthy = ep[u].healthy
  BY <1>1, <1>4, RecoverSound, TakeOutSound DEF Assessed, R!Untouched
<1>5. R!Shaped
  BY DEF R!Shaped
<1>6. \A u \in Urls : /\ u \in mended => ~ ep[u].healthy
                      /\ u \in fallen => ep[u].healthy
  OBVIOUS
<1> HIDE DEF mended, fallen
<1>7. R!Assess
  <2>1. ASSUME NEW u \in Urls, ~ ep[u].healthy, ep'[u].healthy PROVE R!Forgiven(u)
    BY <1>2, <1>3, <1>4, <2>1
  <2>2. ASSUME NEW u \in Urls, ep[u].healthy, ~ ep'[u].healthy PROVE R!Struck(u)
    BY <1>2, <1>3, <1>4, <2>2
  <2>3. ASSUME NEW u \in Urls, ep[u].healthy <=> ep'[u].healthy PROVE R!Untouched(u)
    BY <1>2, <1>3, <1>4, <1>6, <2>3
  <2> QED BY <1>5, <2>1, <2>2, <2>3 DEF R!Assess
<1> QED BY <1>7 DEF R!RotationNext

(* A tick of the clock is the abstract passing of time.                       *)
LEMMA TickRefines ==
    ASSUME IInv, Tick
    PROVE  R!RotationNext
<1>1. \A u \in Urls : Sound(ep[u]) /\ ep'[u] = Elapse(ep[u])
  BY IInvIsSound DEF Tick
<1>2. \A u \in Urls : /\ ep'[u].healthy = ep[u].healthy
                      /\ ep'[u].attempts = ep[u].attempts
                      /\ ep'[u].cooldown = IF ep[u].cooldown > 0 THEN ep[u].cooldown - 1 ELSE 0
  BY <1>1, ElapseSound
<1>3. R!Pass
  BY <1>2 DEF R!Pass
<1> QED BY <1>3 DEF R!RotationNext

(* Forwarding, health checking and cooldowns together implement the abstract  *)
(* rotation: whatever the order in which marks, rounds and ticks take the     *)
(* lock, an endpoint is only struck, forgiven, or rests.                      *)
THEOREM ImplementsRotation == Spec => RefinesRotation
<1>1. Init => R!RotationInit
  BY DEF Init, R!RotationInit, NewEndpoint
<1>2. IInv /\ [Next]_vars => [R!RotationNext]_(R!rotationVars)
  <2> SUFFICES ASSUME IInv, [Next]_vars PROVE [R!RotationNext]_(R!rotationVars)
    OBVIOUS
  <2>1. CASE UNCHANGED ep
    BY <2>1 DEF R!rotationVars
  <2>2. ASSUME NEW r \in Requests, MarkRateLimited(r)
        PROVE  [R!RotationNext]_(R!rotationVars)
    <3>1. req[r].url \in Urls
      BY <2>2 DEF MarkRateLimited, IInv, TypeOK
    <3>2. ep' = [ep EXCEPT ![req[r].url] = TriggerCooldown(ep[req[r].url])]
      BY <2>2 DEF MarkRateLimited
    <3> QED BY <3>1, <3>2, MarkRefines
  <2>3. ASSUME NEW r \in Requests, MarkUnhealthy(r)
        PROVE  [R!RotationNext]_(R!rotationVars)
    <3>1. req[r].url \in Urls
      BY <2>3 DEF MarkUnhealthy, IInv, TypeOK
    <3>2. ep' = [ep EXCEPT ![req[r].url] = TakeOut(ep[req[r].url])]
      BY <2>3 DEF MarkUnhealthy
    <3> QED BY <3>1, <3>2, MarkRefines
  <2>4. CASE ApplyRound
    BY <2>4, RoundRefines
  <2>5. CASE Tick
    BY <2>5, TickRefines
  <2>6. \/ UNCHANGED ep
        \/ \E r \in Requests : MarkRateLimited(r) \/ MarkUnhealthy(r)
        \/ ApplyRound
        \/ Tick
    BY DEF Next, vars, Dispatch, Receive, ReadBody, Cancel, StartRound, ProbeAnswer, Turn
  <2> QED BY <2>1, <2>2, <2>3, <2>4, <2>5, <2>6
<1> QED BY <1>1, <1>2, InitIInv, NextIInv, PTL DEF Spec, RefinesRotation, R!RotationSpec

-----------------------------------------------------------------------------
(* The endpoints with the reloads around them.                                *)

Sounds == {e \in EndpointState : Matches(e)}
Lists == UNION {[D -> Sounds] : D \in SUBSET Urls}

(* The inductive invariant.  The clones that a reload has yet to install count  *)
(* as much as the endpoints: they must be sound when they replace these, and    *)
(* time has passed for them, too.                                              *)
BalancerInv ==
    /\ ep \in Lists /\ DOMAIN ep # {}
    /\ req \in [Requests -> [at : Stages, url : Urls \union {NoUrl}]]
    /\ probe \in [Urls -> ProbeStates]
    /\ upstream \in [Urls -> Conditions]
    /\ interval \in {c.interval : c \in Configs}
    /\ loop \in {"waiting", "ticked", "probing", "dead"}
    /\ reload \in [at : {"idle", "endpoints", "interval"}, eps : Lists, interval : Nat]
    /\ reload.at = "endpoints" => DOMAIN reload.eps # {}
    /\ reload.at # "idle" => reload.interval \in {c.interval : c \in Configs}

LEMMA InSounds == \A e : e \in Sounds <=> Sound(e)
BY DEF Sounds, Sound

LEMMA InLists ==
    ASSUME NEW f PROVE f \in Lists <=> DOMAIN f \subseteq Urls /\ f \in [DOMAIN f -> Sounds]
BY DEF Lists

LEMMA InvariantSuffices == BalancerInv => BalancerTypeOK /\ OutMeansStruck
<1> SUFFICES ASSUME BalancerInv PROVE BalancerTypeOK /\ OutMeansStruck
  OBVIOUS
<1>1. /\ DOMAIN ep \subseteq Urls /\ \A u \in DOMAIN ep : ep[u] \in Sounds
      /\ \A u \in DOMAIN reload.eps : reload.eps[u] \in Sounds
  BY InLists DEF BalancerInv
<1>2. OutMeansStruck
  BY <1>1 DEF OutMeansStruck, Sounds, Matches
<1> QED BY <1>1, <1>2 DEF BalancerInv, BalancerTypeOK, Sounds

LEMMA FreshSound ==
    ASSUME NEW urls \in SUBSET Urls PROVE Fresh(urls) \in Lists /\ DOMAIN Fresh(urls) = urls
<1>1. NewEndpoint \in Sounds
  BY NewSound, InSounds
<1>2. DOMAIN Fresh(urls) = urls /\ Fresh(urls) \in [urls -> Sounds]
  BY <1>1 DEF Fresh
<1> QED BY <1>2, InLists

LEMMA ClonedSound ==
    ASSUME ep \in Lists, NEW urls \in SUBSET Urls
    PROVE  Cloned(urls) \in Lists /\ DOMAIN Cloned(urls) = urls
<1>1. NewEndpoint \in Sounds /\ \A u \in DOMAIN ep : ep[u] \in Sounds
  BY NewSound, InSounds, InLists
<1>2. DOMAIN Cloned(urls) = urls /\ Cloned(urls) \in [urls -> Sounds]
  BY <1>1 DEF Cloned
<1> QED BY <1>2, InLists

LEMMA PassedSound ==
    ASSUME NEW eps \in Lists PROVE Passed(eps) \in Lists /\ DOMAIN Passed(eps) = DOMAIN eps
<1>1. DOMAIN eps \subseteq Urls /\ \A u \in DOMAIN eps : Sound(eps[u])
  BY InLists, InSounds
<1>2. \A u \in DOMAIN eps : Elapse(eps[u]) \in Sounds
  BY <1>1, ElapseSound, InSounds
<1>3. DOMAIN Passed(eps) = DOMAIN eps /\ Passed(eps) \in [DOMAIN eps -> Sounds]
  BY <1>2 DEF Passed
<1> QED BY <1>1, <1>3, InLists

LEMMA ReplacedSound ==
    ASSUME ep \in Lists, NEW u \in DOMAIN ep, NEW e, Sound(e), ep' = [ep EXCEPT ![u] = e]
    PROVE  ep' \in Lists /\ DOMAIN ep' = DOMAIN ep
<1>1. DOMAIN ep \subseteq Urls /\ ep \in [DOMAIN ep -> Sounds] /\ e \in Sounds
  BY InLists, InSounds
<1>2. DOMAIN ep' = DOMAIN ep /\ ep' \in [DOMAIN ep' -> Sounds]
  BY <1>1
<1> QED BY <1>1, <1>2, InLists

LEMMA BalancerInitSound == BalancerInit => BalancerInv
<1> SUFFICES ASSUME BalancerInit PROVE BalancerInv
  OBVIOUS
<1>1. PICK c \in Configs : ep = Fresh(c.urls) /\ interval = c.interval
  BY DEF BalancerInit
<1>2. c.urls \in SUBSET Urls /\ c.urls # {}
  BY BalancerAssumption
<1>3. ep \in Lists /\ DOMAIN ep # {} /\ Fresh({}) \in Lists
  BY <1>1, <1>2, FreshSound
<1>4. reload \in [at : {"idle", "endpoints", "interval"}, eps : Lists, interval : Nat]
      /\ reload.at = "idle"
  BY <1>3 DEF BalancerInit, NoReload
<1>5. req \in [Requests -> [at : Stages, url : Urls \union {NoUrl}]]
  BY DEF BalancerInit, Idle, Stages
<1> QED BY <1>1, <1>3, <1>4, <1>5 DEF BalancerInit, BalancerInv, ProbeStates, Conditions

-----------------------------------------------------------------------------

LEMMA BalancerNextSound == BalancerInv /\ [BalancerNext]_balancerVars => BalancerInv'
<1> SUFFICES ASSUME BalancerInv, [BalancerNext]_balancerVars PROVE BalancerInv'
  OBVIOUS
<1> DEFINE Req == [at : Stages, url : Urls \union {NoUrl}]
<1>1. /\ ep \in Lists /\ DOMAIN ep # {} /\ DOMAIN ep \subseteq Urls
      /\ \A u \in DOMAIN ep : Sound(ep[u])
      /\ req \in [Requests -> Req] /\ Idle \in Req
  BY InLists, InSounds DEF BalancerInv, Idle, Stages
<1>a. ASSUME req' \in [Requests -> Req], UNCHANGED <<ep, probe, upstream, ownVars>>
      PROVE  BalancerInv'
  BY <1>a DEF BalancerInv, ownVars
<1>b. ASSUME ep' \in Lists, DOMAIN ep' # {}, req' \in [Requests -> Req],
             UNCHANGED <<probe, upstream, ownVars>>
      PROVE  BalancerInv'
  BY <1>b DEF BalancerInv, ownVars
<1>2. ASSUME NEW r \in Requests, NEW u \in Urls, Serve(r, u) PROVE BalancerInv'
  <2>1. req' \in [Requests -> Req]
    BY <1>1, <1>2 DEF Serve, Dispatch, Stages
  <2> QED BY <1>2, <1>a, <2>1 DEF Serve, Dispatch
<1>3. ASSUME NEW r \in Requests, Proceed(r) PROVE BalancerInv'
  <2>1. CASE Receive(r)
    <3>1. PICK outcome \in Outcomes(upstream[req[r].url]) : req' = [req EXCEPT ![r].at = outcome]
      BY <2>1 DEF Receive
    <3>2. outcome \in Stages
      BY <3>1 DEF Outcomes, Stages
    <3>3. req' \in [Requests -> Req]
      BY <1>1, <3>1, <3>2
    <3> QED BY <1>3, <1>a, <2>1, <3>3 DEF Proceed, Receive
  <2>2. CASE ReadBody(r)
    <3>1. CASE req' = [req EXCEPT ![r] = Idle]
      <4>1. req' \in [Requests -> Req]
        BY <1>1, <3>1
      <4> QED BY <1>3, <1>a, <2>2, <4>1 DEF Proceed, ReadBody
    <3>2. CASE req' = [req EXCEPT ![r].at = "failed"]
      <4>1. req' \in [Requests -> Req]
        BY <1>1, <3>2 DEF Stages
      <4> QED BY <1>3, <1>a, <2>2, <4>1 DEF Proceed, ReadBody
    <3> QED BY <2>2, <3>1, <3>2 DEF ReadBody
  <2>3. CASE Cancel(r)
    <3>1. req' \in [Requests -> Req]
      BY <1>1, <2>3 DEF Cancel
    <3> QED BY <1>3, <1>a, <2>3, <3>1 DEF Proceed, Cancel
  <2> QED BY <1>3, <2>1, <2>2, <2>3 DEF Proceed
<1>4. ASSUME NEW r \in Requests, Mark(r) PROVE BalancerInv'
  <2>1. /\ req[r].url \in DOMAIN ep /\ req' = [req EXCEPT ![r] = Idle]
        /\ UNCHANGED <<probe, upstream, ownVars>>
    BY <1>4 DEF Mark, MarkRateLimited, MarkUnhealthy
  <2>2. PICK e : Sound(e) /\ ep' = [ep EXCEPT ![req[r].url] = e]
    <3>1. Sound(TriggerCooldown(ep[req[r].url])) /\ Sound(TakeOut(ep[req[r].url]))
      BY <1>1, <2>1, TriggerSound, TakeOutSound
    <3>2. \/ ep' = [ep EXCEPT ![req[r].url] = TriggerCooldown(ep[req[r].url])]
          \/ ep' = [ep EXCEPT ![req[r].url] = TakeOut(ep[req[r].url])]
      BY <1>4 DEF Mark, MarkRateLimited, MarkUnhealthy
    <3> QED BY <3>1, <3>2
  <2>3. ep' \in Lists /\ DOMAIN ep' = DOMAIN ep
    BY <1>1, <2>1, <2>2, ReplacedSound
  <2>4. req' \in [Requests -> Req]
    BY <1>1, <2>1
  <2> QED BY <1>1, <1>b, <2>1, <2>3, <2>4
<1>5. ASSUME NEW r \in Requests, MarkNobody(r) PROVE BalancerInv'
  <2>1. req' \in [Requests -> Req]
    BY <1>1, <1>5 DEF MarkNobody
  <2> QED BY <1>5, <1>a, <2>1 DEF MarkNobody
<1>6. CASE TickerFires \/ LoopPanics
  BY <1>6 DEF TickerFires, LoopPanics, BalancerInv, vars
<1>7. CASE BeginRound
  <2>1. probe' \in [Urls -> ProbeStates]
    BY <1>7 DEF BeginRound, ProbeStates
  <2> QED BY <1>7, <2>1 DEF BeginRound, BalancerInv
<1>8. ASSUME NEW u \in Urls, Answered(u) PROVE BalancerInv'
  <2>1. PICK answer \in {"passed", "failed"} : probe' = [probe EXCEPT ![u] = answer]
    BY <1>8 DEF Answered, ProbeAnswer
  <2>2. probe' \in [Urls -> ProbeStates]
    BY <2>1 DEF BalancerInv, ProbeStates
  <2> QED BY <1>8, <2>2 DEF Answered, ProbeAnswer, BalancerInv, ownVars
<1>9. CASE Apply
  <2>1. \A u \in DOMAIN ep : Sound(Assessed(u))
    BY <1>1, RecoverSound, TakeOutSound DEF Assessed
  <2>2. ep' = [u \in DOMAIN ep |-> IF probe[u] = "none" THEN ep[u] ELSE Assessed(u)]
    BY <1>9 DEF Apply
  <2>3. DOMAIN ep' = DOMAIN ep /\ \A u \in DOMAIN ep' : Sound(ep'[u])
    BY <1>1, <2>1, <2>2
  <2>4. ep' \in [DOMAIN ep' -> Sounds]
    BY <2>2, <2>3, InSounds
  <2>5. ep' \in Lists
    BY <1>1, <2>3, <2>4, InLists
  <2>6. probe' \in [Urls -> ProbeStates]
    BY <1>9 DEF Apply, ProbeStates
  <2> QED BY <1>1, <1>9, <2>3, <2>5, <2>6 DEF Apply, BalancerInv
<1>10. ASSUME NEW c \in Configs, CloneList(c) PROVE BalancerInv'
  <2>1. c.urls \in SUBSET Urls /\ c.urls # {} /\ c.interval \in Nat
    BY BalancerAssumption
  <2>2. Cloned(c.urls) \in Lists /\ DOMAIN Cloned(c.urls) = c.urls
    BY <1>1, <2>1, ClonedSound
  <2>3. reload' = [at |-> "endpoints", eps |-> Cloned(c.urls), interval |-> c.interval]
    BY <1>10 DEF CloneList
  <2>4. /\ reload' \in [at : {"idle", "endpoints", "interval"}, eps : Lists, interval : Nat]
        /\ DOMAIN reload'.eps # {} /\ reload'.interval \in {d.interval : d \in Configs}
    BY <2>1, <2>2, <2>3
  <2> QED BY <1>10, <2>4 DEF CloneList, BalancerInv, vars
<1>11. CASE Install
  <2>1. /\ reload.at = "endpoints" /\ ep' = reload.eps
        /\ reload' = [reload EXCEPT !.at = "interval", !.eps = Fresh({})]
    BY <1>11 DEF Install
  <2>2. ep' \in Lists /\ DOMAIN ep' # {} /\ Fresh({}) \in Lists
    BY <2>1, FreshSound DEF BalancerInv
  <2>3. /\ reload' \in [at : {"idle", "endpoints", "interval"}, eps : Lists, interval : Nat]
        /\ reload'.at = "interval" /\ reload'.interval = reload.interval
    BY <2>1, <2>2 DEF BalancerInv
  <2>4. reload'.interval \in {c.interval : c \in Configs}
    BY <2>1, <2>3 DEF BalancerInv
  <2> QED BY <1>11, <2>2, <2>3, <2>4 DEF Install, BalancerInv
<1>12. CASE WriteInterval
  <2>1. reload' = NoReload /\ interval' \in {c.interval : c \in Configs}
    BY <1>12 DEF WriteInterval, BalancerInv
  <2>2. reload' \in [at : {"idle", "endpoints", "interval"}, eps : Lists, interval : Nat]
        /\ reload'.at = "idle"
    BY <2>1, FreshSound DEF NoReload
  <2> QED BY <1>12, <2>1, <2>2 DEF WriteInterval, BalancerInv, vars
<1>13. CASE TimePasses
  <2>1. ep' = Passed(ep) /\ reload' = [reload EXCEPT !.eps = Passed(reload.eps)]
    BY <1>13 DEF TimePasses
  <2>2. /\ Passed(ep) \in Lists /\ DOMAIN Passed(ep) = DOMAIN ep
        /\ Passed(reload.eps) \in Lists /\ DOMAIN Passed(reload.eps) = DOMAIN reload.eps
    BY PassedSound DEF BalancerInv
  <2>3. /\ reload' \in [at : {"idle", "endpoints", "interval"}, eps : Lists, interval : Nat]
        /\ reload'.at = reload.at /\ reload'.interval = reload.interval
        /\ DOMAIN reload'.eps = DOMAIN reload.eps
    BY <2>1, <2>2 DEF BalancerInv
  <2> QED BY <1>13, <2>1, <2>2, <2>3 DEF TimePasses, BalancerInv
<1>14. ASSUME NEW u \in Urls, Turns(u) PROVE BalancerInv'
  <2>1. PICK condition \in Conditions : upstream' = [upstream EXCEPT ![u] = condition]
    BY <1>14 DEF Turns, Turn
  <2>2. upstream' \in [Urls -> Conditions]
    BY <2>1 DEF BalancerInv
  <2> QED BY <1>14, <2>2 DEF Turns, Turn, BalancerInv, ownVars
<1>15. CASE UNCHANGED balancerVars
  BY <1>15 DEF balancerVars, vars, ownVars, BalancerInv
<1> QED
  BY <1>2, <1>3, <1>4, <1>5, <1>6, <1>7, <1>8, <1>9, <1>10, <1>11, <1>12, <1>13, <1>14, <1>15
  DEF BalancerNext

LEMMA BalancerAlwaysSound == BalancerSpec => []BalancerInv
BY BalancerInitSound, BalancerNextSound, PTL DEF BalancerSpec

(* Lists, clones, requests and rounds stay well typed however reloads change   *)
(* the list under them; the list is never empty.                              *)
THEOREM BalancerTypeCorrect == BalancerSpec => []BalancerTypeOK
BY BalancerAlwaysSound, InvariantSuffices, PTL

(* Whoever is out of the rotation has been struck, also when a reload has       *)
(* undone what happened since it cloned the list: a clone is as consistent as   *)
(* the endpoint it was made of, and marks and answers change one whole endpoint.*)
THEOREM OutAlwaysMeansStruck == BalancerSpec => []OutMeansStruck
BY BalancerAlwaysSound, InvariantSuffices, PTL

-----------------------------------------------------------------------------
(* The list as an implementation of the rotation with endpoints that come and  *)
(* go.  Clones exist only between the clone and its installation; with         *)
(* BalancerInv, which says that endpoints and clones are sound, that is all     *)
(* the refinement needs.                                                       *)

NoStrayClones == reload.at # "endpoints" => DOMAIN reload.eps = {}

LEMMA FreshOfNobody == DOMAIN Fresh({}) = {} /\ Standings(Fresh({})) = L!Newcomers({})
BY DEF Fresh, Standings, L!Newcomers

(* No step leaves clones behind (reload).                                      *)
LEMMA NoStrayClonesNext ==
    BalancerInv /\ NoStrayClones /\ [BalancerNext]_balancerVars => NoStrayClones'
<1> SUFFICES ASSUME BalancerInv, NoStrayClones, [BalancerNext]_balancerVars
             PROVE  NoStrayClones'
  OBVIOUS
<1>1. CASE UNCHANGED reload
  BY <1>1 DEF NoStrayClones
<1>2. ASSUME NEW c \in Configs, CloneList(c) PROVE NoStrayClones'
  BY <1>2 DEF CloneList, NoStrayClones
<1>3. CASE Install
  <2>1. reload' = [reload EXCEPT !.at = "interval", !.eps = Fresh({})]
    BY <1>3 DEF Install
  <2>2. reload'.eps = Fresh({})
    BY <2>1 DEF BalancerInv
  <2> QED BY <2>2, FreshOfNobody DEF NoStrayClones
<1>4. CASE WriteInterval
  BY <1>4, FreshOfNobody DEF WriteInterval, NoReload, NoStrayClones
<1>5. CASE TimePasses
  <2>1. reload' = [reload EXCEPT !.eps = Passed(reload.eps)]
    BY <1>5 DEF TimePasses
  <2>2. reload'.at = reload.at /\ reload'.eps = Passed(reload.eps)
    BY <2>1 DEF BalancerInv
  <2>3. DOMAIN reload'.eps = DOMAIN reload.eps
    BY <2>2 DEF Passed
  <2> QED BY <2>2, <2>3 DEF NoStrayClones
<1>6. \/ UNCHANGED reload
      \/ \E c \in Configs : CloneList(c)
      \/ Install \/ WriteInterval \/ TimePasses
  BY DEF BalancerNext, balancerVars, ownVars, vars, Serve, Proceed, Mark, MarkNobody, TickerFires,
         LoopPanics, BeginRound, Answered, Apply, Turns
<1> QED BY <1>1, <1>2, <1>3, <1>4, <1>5, <1>6

LEMMA StandingFields ==
    ASSUME NEW e
    PROVE  /\ Standing(e).broken <=> ~ e.healthy
           /\ Standing(e).strikes = e.attempts
           /\ Standing(e).rest = e.cooldown
BY DEF Standing

(* A strike of an endpoint is a strike of its standing (trigger_cooldown).      *)
LEMMA StandingStruck ==
    ASSUME NEW e, NEW t, Sound(e), StruckFrom(e, t)
    PROVE  L!Struck(Standing(e), Standing(t))
<1>1. e.attempts \in 0..MaxAttempts /\ MaxAttempts \in Nat
  BY EndpointAssumption DEF Sound, EndpointState
<1>2. t.attempts = IF e.attempts < MaxAttempts THEN e.attempts + 1 ELSE MaxAttempts
  BY <1>1 DEF StruckFrom, SaturatingIncrement, AtMost
<1> QED BY <1>2 DEF StruckFrom, L!Struck, Standing

(* The clock runs for a standing as for its endpoint.                          *)
LEMMA StandingRested ==
    ASSUME NEW e, Sound(e)
    PROVE  Standing(Elapse(e)) = L!Rested(Standing(e))
<1>1. /\ Elapse(e).healthy = e.healthy
      /\ Elapse(e).attempts = e.attempts
      /\ Elapse(e).cooldown = IF e.cooldown > 0 THEN e.cooldown - 1 ELSE 0
  BY ElapseSound
<1> QED BY <1>1 DEF Standing, L!Rested

LEMMA StandingsRested ==
    ASSUME NEW eps \in Lists
    PROVE  Standings(Passed(eps)) = L!AllRested(Standings(eps))
<1>1. \A u \in DOMAIN eps : Sound(eps[u])
  BY InLists, InSounds
<1>2. \A u \in DOMAIN eps : Standing(Elapse(eps[u])) = L!Rested(Standing(eps[u]))
  BY <1>1, StandingRested
<1>3. DOMAIN Passed(eps) = DOMAIN eps /\ \A u \in DOMAIN eps : Passed(eps)[u] = Elapse(eps[u])
  BY DEF Passed
<1>4. /\ DOMAIN Standings(eps) = DOMAIN eps
      /\ \A u \in DOMAIN eps : Standings(eps)[u] = Standing(eps[u])
  BY DEF Standings
<1>5. Standings(Passed(eps)) = [u \in DOMAIN eps |-> L!Rested(Standing(eps[u]))]
  BY <1>2, <1>3 DEF Standings
<1> QED BY <1>4, <1>5 DEF L!AllRested

-----------------------------------------------------------------------------
(* One step of the list at a time.                                            *)

(* A late mark strikes the endpoint that has the url now, or leaves it alone    *)
(* (mark_rate_limited, mark_unhealthy).                                       *)
LEMMA MarkIsStrike ==
    ASSUME BalancerInv, NEW r \in Requests, Mark(r)
    PROVE  [L!ListedNext]_(L!listedVars)
<1> DEFINE u == req[r].url
<1>1. /\ u \in DOMAIN ep /\ Sound(ep[u]) /\ reload' = reload
      /\ \/ ep' = [ep EXCEPT ![u] = TriggerCooldown(ep[u])]
         \/ ep' = [ep EXCEPT ![u] = TakeOut(ep[u])]
  BY InLists, InSounds DEF BalancerInv, Mark, MarkRateLimited, MarkUnhealthy, ownVars
<1> HIDE DEF u
<1>2. ASSUME NEW e, ep' = [ep EXCEPT ![u] = e], StruckFrom(ep[u], e),
             ~ ep[u].healthy => ~ e.healthy
      PROVE  L!ListedNext
  <2>1. DOMAIN ep' = DOMAIN ep /\ ep'[u] = e /\ \A v \in DOMAIN ep \ {u} : ep'[v] = ep[v]
    BY <1>1, <1>2
  <2>2. L!SameList
    BY <2>1 DEF L!SameList, Standings
  <2>3. L!Struck(Standings(ep)[u], Standings(ep')[u])
    <3>1. L!Struck(Standing(ep[u]), Standing(e))
      BY <1>1, <1>2, StandingStruck
    <3>2. Standings(ep)[u] = Standing(ep[u]) /\ Standings(ep')[u] = Standing(e)
      BY <1>1, <2>1 DEF Standings
    <3> QED BY <3>1, <3>2
  <2>4. Standings(ep)[u].broken => Standings(ep')[u].broken
    BY <1>1, <1>2, <2>1 DEF Standings, Standing
  <2>5. \A v \in DOMAIN Standings(ep) \ {u} : Standings(ep')[v] = Standings(ep)[v]
    BY <2>1 DEF Standings
  <2>6. Standings(reload.eps)' = Standings(reload.eps) /\ u \in DOMAIN Standings(ep)
    BY <1>1 DEF Standings
  <2>7. L!Strike(u)
    BY <2>2, <2>3, <2>4, <2>5, <2>6 DEF L!Strike
  <2> QED BY <2>6, <2>7 DEF L!ListedNext
<1>3. CASE ep' = [ep EXCEPT ![u] = TriggerCooldown(ep[u])]
  <2>1. StruckFrom(ep[u], TriggerCooldown(ep[u]))
        /\ TriggerCooldown(ep[u]).healthy = ep[u].healthy
    BY <1>1, TriggerSound
  <2> QED BY <1>2, <1>3, <2>1
<1>4. CASE ep' = [ep EXCEPT ![u] = TakeOut(ep[u])] /\ ep[u].healthy
  <2>1. StruckFrom(ep[u], TakeOut(ep[u]))
    BY <1>1, <1>4, TakeOutSound
  <2> QED BY <1>2, <1>4, <2>1
<1>5. CASE ep' = [ep EXCEPT ![u] = TakeOut(ep[u])] /\ ~ ep[u].healthy
  <2>1. TakeOut(ep[u]) = ep[u]
    BY <1>1, <1>5, TakeOutSound
  <2>2. ep' = ep
    <3>1. ep \in [DOMAIN ep -> Sounds]
      BY InLists DEF BalancerInv
    <3> QED BY <1>5, <2>1, <3>1
  <2> QED BY <1>1, <2>2 DEF L!listedVars, Standings
<1> QED BY <1>1, <1>3, <1>4, <1>5

(* A round's answers assess whoever now has the urls (perform_health_checks).   *)
LEMMA ApplyIsAssess ==
    ASSUME BalancerInv, Apply
    PROVE  L!ListedNext
<1> DEFINE s == Standings(ep)
           t == Standings(ep)'
<1>1. /\ \A u \in DOMAIN ep : Sound(ep[u]) /\ (ep'[u] = ep[u] \/ ep'[u] = Assessed(u))
      /\ DOMAIN ep' = DOMAIN ep /\ reload' = reload
  BY InLists, InSounds DEF BalancerInv, Apply
<1>2. /\ DOMAIN s = DOMAIN ep /\ DOMAIN t = DOMAIN ep
      /\ \A u \in DOMAIN ep : s[u] = Standing(ep[u]) /\ t[u] = Standing(ep'[u])
  BY <1>1 DEF Standings
<1> HIDE DEF s, t
<1>3. ASSUME NEW u \in DOMAIN ep
      PROVE  \/ t[u] = s[u]
             \/ s[u].broken /\ ~ t[u].broken /\ L!Forgiven(t[u])
             \/ ~ s[u].broken /\ t[u].broken /\ L!Struck(s[u], t[u])
  <2>1. CASE ep'[u] = ep[u]
    BY <1>2, <2>1
  <2>2. CASE ep'[u] = Recover(ep[u])
    <3>1. CASE ep[u].healthy
      BY <1>1, <1>2, <2>2, <3>1, RecoverSound
    <3>2. CASE ~ ep[u].healthy
      <4>1. ep'[u].healthy /\ ep'[u].attempts = 0 /\ ep'[u].cooldown = 0
        BY <1>1, <2>2, <3>2, RecoverSound
      <4>2. s[u].broken /\ ~ t[u].broken
        BY <1>2, <3>2, <4>1, StandingFields
      <4>3. L!Forgiven(t[u])
        BY <1>2, <4>1, StandingFields DEF L!Forgiven
      <4> QED BY <4>2, <4>3
    <3> QED BY <3>1, <3>2
  <2>3. CASE ep'[u] = TakeOut(ep[u])
    <3>1. CASE ~ ep[u].healthy
      BY <1>1, <1>2, <2>3, <3>1, TakeOutSound
    <3>2. CASE ep[u].healthy
      <4>1. StruckFrom(ep[u], ep'[u]) /\ ~ ep'[u].healthy
        BY <1>1, <2>3, <3>2, TakeOutSound
      <4>2. L!Struck(s[u], t[u])
        BY <1>1, <1>2, <4>1, StandingStruck
      <4>3. ~ s[u].broken /\ t[u].broken
        BY <1>2, <3>2, <4>1, StandingFields
      <4> QED BY <4>2, <4>3
    <3> QED BY <3>1, <3>2
  <2> QED BY <1>1, <2>1, <2>2, <2>3 DEF Assessed
<1>4. L!Assess
  BY <1>1, <1>2, <1>3 DEF L!Assess, L!SameList, s, t
<1> QED BY <1>4 DEF L!ListedNext

(* Time passes for the list and for the clones.                                *)
LEMMA TimeIsPass ==
    ASSUME BalancerInv, TimePasses
    PROVE  L!ListedNext
<1>1. ep \in Lists /\ reload.eps \in Lists
  BY DEF BalancerInv
<1>2. ep' = Passed(ep) /\ reload' = [reload EXCEPT !.eps = Passed(reload.eps)]
  BY DEF TimePasses
<1>3. reload'.eps = Passed(reload.eps)
  BY <1>2 DEF BalancerInv
<1>4. /\ Standings(Passed(ep)) = L!AllRested(Standings(ep))
      /\ Standings(Passed(reload.eps)) = L!AllRested(Standings(reload.eps))
  BY <1>1, StandingsRested
<1>5. L!Pass
  BY <1>2, <1>3, <1>4 DEF L!Pass
<1> QED BY <1>5 DEF L!ListedNext

LEMMA StandingOfNew == Standing(NewEndpoint) = L!Newcomer
<1>1. NewEndpoint.healthy = TRUE /\ NewEndpoint.attempts = 0 /\ NewEndpoint.cooldown = 0
  BY DEF NewEndpoint
<1> QED BY <1>1, Zenon DEF Standing, L!Newcomer

(* The clone is a copy: the endpoints that are there as they are (reload).      *)
LEMMA CloneIsCopy ==
    ASSUME BalancerInv, NoStrayClones, NEW c \in Configs, CloneList(c)
    PROVE  L!ListedNext
<1> DEFINE s == Standings(ep)
<1>1. c.urls \in (SUBSET Urls) \ {{}}
  BY BalancerAssumption
<1>2. /\ reload.at = "idle" /\ ep' = ep
      /\ reload'.eps = Cloned(c.urls)
  BY DEF CloneList, vars
<1>3. DOMAIN Standings(reload.eps) = {}
  BY <1>2 DEF NoStrayClones, Standings
<1>4. Standings(reload'.eps) =
          [u \in c.urls |-> IF u \in DOMAIN s THEN s[u] ELSE L!Newcomer]
  <2>1. DOMAIN Cloned(c.urls) = c.urls
    BY DEF Cloned
  <2>2. DOMAIN s = DOMAIN ep /\ \A u \in DOMAIN ep : s[u] = Standing(ep[u])
    BY DEF Standings
  <2> HIDE DEF s
  <2>3. ASSUME NEW u \in c.urls
        PROVE  Standing(Cloned(c.urls)[u]) = IF u \in DOMAIN s THEN s[u] ELSE L!Newcomer
    <3>1. CASE u \in DOMAIN ep
      BY <2>2, <3>1 DEF Cloned
    <3>2. CASE u \notin DOMAIN ep
      <4>1. Cloned(c.urls)[u] = NewEndpoint
        BY <3>2 DEF Cloned
      <4>2. Standing(NewEndpoint) = L!Newcomer
        BY StandingOfNew
      <4> QED BY <2>2, <3>2, <4>1, <4>2
    <3> QED BY <3>1, <3>2
  <2> QED BY <1>2, <2>1, <2>3 DEF Standings
<1>5. L!TakeCopy
  BY <1>1, <1>2, <1>3, <1>4 DEF L!TakeCopy
<1> QED BY <1>5 DEF L!ListedNext

(* What is installed is the copy (reload).                                     *)
LEMMA InstallIsInstall ==
    ASSUME BalancerInv, Install
    PROVE  L!ListedNext
<1>1. /\ reload.at = "endpoints" /\ ep' = reload.eps
      /\ reload' = [reload EXCEPT !.at = "interval", !.eps = Fresh({})]
  BY DEF Install
<1>2. reload'.eps = Fresh({})
  BY <1>1 DEF BalancerInv
<1>3. DOMAIN Standings(reload.eps) # {}
  BY <1>1 DEF BalancerInv, Standings
<1>4. L!InstallCopy
  BY <1>1, <1>2, <1>3, FreshOfNobody DEF L!InstallCopy
<1> QED BY <1>4 DEF L!ListedNext

(* Requests, rounds and reloads over a changing list implement the rotation of  *)
(* endpoints that come and go: no order in which a late mark, a late answer, a  *)
(* clone and its installation take the lock makes up a standing.               *)
THEOREM ImplementsListedRotation == BalancerSpec => RefinesListedRotation
<1>1. BalancerInit => L!ListedInit /\ NoStrayClones
  <2> SUFFICES ASSUME BalancerInit PROVE L!ListedInit /\ NoStrayClones
    OBVIOUS
  <2>1. PICK c \in Configs : ep = Fresh(c.urls)
    BY DEF BalancerInit
  <2>2. c.urls \in (SUBSET Urls) \ {{}}
    BY BalancerAssumption
  <2>3. Standings(ep) = L!Newcomers(c.urls)
    BY <2>1 DEF Fresh, Standings, Standing, NewEndpoint, L!Newcomers, L!Newcomer
  <2>4. reload.eps = Fresh({})
    BY DEF BalancerInit, NoReload
  <2>5. L!ListedInit
    BY <2>2, <2>3, <2>4, FreshOfNobody DEF L!ListedInit
  <2> QED BY <2>4, <2>5, FreshOfNobody DEF NoStrayClones
<1>2. BalancerInv /\ NoStrayClones /\ [BalancerNext]_balancerVars
          => [L!ListedNext]_(L!listedVars)
  <2> SUFFICES ASSUME BalancerInv, NoStrayClones, [BalancerNext]_balancerVars
               PROVE  [L!ListedNext]_(L!listedVars)
    OBVIOUS
  <2>1. CASE UNCHANGED <<ep, reload>>
    BY <2>1 DEF L!listedVars, Standings
  <2>2. ASSUME NEW r \in Requests, Mark(r) PROVE [L!ListedNext]_(L!listedVars)
    BY <2>2, MarkIsStrike
  <2>3. CASE Apply
    BY <2>3, ApplyIsAssess
  <2>4. ASSUME NEW c \in Configs, CloneList(c) PROVE [L!ListedNext]_(L!listedVars)
    BY <2>4, CloneIsCopy
  <2>5. CASE Install
    BY <2>5, InstallIsInstall
  <2>6. CASE WriteInterval
    <3>1. ep' = ep /\ reload'.eps = Fresh({})
      BY <2>6 DEF WriteInterval, NoReload, vars
    <3>2. DOMAIN reload.eps = {}
      BY <2>6 DEF WriteInterval, NoStrayClones
    <3>3. Standings(reload.eps) = Standings(Fresh({}))
      BY <3>2, FreshOfNobody DEF Standings
    <3> QED BY <3>1, <3>3 DEF L!listedVars, Standings
  <2>7. CASE TimePasses
    BY <2>7, TimeIsPass
  <2>8. \/ UNCHANGED <<ep, reload>>
        \/ \E r \in Requests : Mark(r)
        \/ Apply
        \/ \E c \in Configs : CloneList(c)
        \/ Install \/ WriteInterval \/ TimePasses
    BY DEF BalancerNext, balancerVars, ownVars, vars, Serve, Dispatch, Proceed, Receive, ReadBody,
           Cancel, MarkNobody, TickerFires, LoopPanics, BeginRound, Answered, ProbeAnswer,
           Turns, Turn
  <2> QED BY <2>1, <2>2, <2>3, <2>4, <2>5, <2>6, <2>7, <2>8
<1> QED
  BY <1>1, <1>2, BalancerInitSound, BalancerNextSound, NoStrayClonesNext, PTL
  DEF BalancerSpec, RefinesListedRotation, L!ListedSpec
=============================================================================
