--------------------------- MODULE AdmissionProofs ---------------------------
(* No permit is lost or invented, nobody waits for a free one, and the gauge   *)
(* counts the handlers, for any number of requests, any max_concurrency, any   *)
(* bodies and any limits of the batch size.                                   *)
EXTENDS Admission, FiniteSetTheorems, TLAPS

(* Nobody is in the queue twice.                                              *)
Distinct == \A i, j \in DOMAIN queue : queue[i] = queue[j] => i = j

Waiters == {r \in Requests : req[r].at = "queued"}
QueueIsQueued == Queued = Waiters

(* The inductive invariant: PermitsConserved, with the length of the queue      *)
(* replaced by what makes it the number of waiters; a handover turns a waiter   *)
(* into a holder, so that each part needs the others.                          *)
IInv ==
    /\ TypeOK
    /\ free + Cardinality(Holders) = MaxConcurrency
    /\ QueueIsQueued
    /\ Distinct
    /\ NoIdlePermit
    /\ GaugeCountsHandlers

-----------------------------------------------------------------------------
(* Counting handlers.                                                         *)
LEMMA Counted ==
    ASSUME NEW S \in SUBSET Requests
    PROVE  /\ IsFiniteSet(S) /\ Cardinality(S) \in Nat
           /\ S # {} => Cardinality(S) > 0
           /\ \A r : Cardinality(S \union {r}) =
                       IF r \in S THEN Cardinality(S) ELSE Cardinality(S) + 1
           /\ \A r : Cardinality(S \ {r}) =
                       IF r \in S THEN Cardinality(S) - 1 ELSE Cardinality(S)
<1>1. IsFiniteSet(S)
  BY FS_Subset, AdmissionAssumption
<1>2. Cardinality(S) \in Nat
  BY <1>1, FS_CardinalityType
<1>3. S # {} => Cardinality(S) > 0
  BY <1>1, <1>2, FS_EmptySet
<1>4. \A r : Cardinality(S \union {r}) =
              IF r \in S THEN Cardinality(S) ELSE Cardinality(S) + 1
  BY <1>1, FS_AddElement
<1>5. \A r : Cardinality(S \ {r}) =
              IF r \in S THEN Cardinality(S) - 1 ELSE Cardinality(S)
  BY <1>1, FS_RemoveElement
<1> QED BY <1>1, <1>2, <1>3, <1>4, <1>5

(* The queue of distinct waiters is as long as there are waiters.              *)
LEMMA QueueCounts ==
    ASSUME queue \in Seq(Requests), Distinct PROVE Len(queue) = Cardinality(Queued)
<1> DEFINE n == Len(queue)
<1>1. n \in Nat /\ DOMAIN queue = 1..n
  OBVIOUS
<1>2. queue \in [1..n -> Queued]
  BY <1>1 DEF Queued
<1>3. queue \in Surjection(1..n, Queued)
  BY <1>1, <1>2 DEF Surjection, Queued
<1>4. queue \in Injection(1..n, Queued)
  BY <1>1, <1>2 DEF Injection, IsInjective, Distinct
<1>5. IsFiniteSet(1..n) /\ Cardinality(1..n) = n
  <2>1. 1 \in Int /\ n \in Int
    BY <1>1
  <2>2. IsFiniteSet(1..n) /\ Cardinality(1..n) = IF 1 > n THEN 0 ELSE n - 1 + 1
    BY <2>1, FS_Interval
  <2> QED BY <2>2, <1>1
<1> HIDE DEF n
<1>6. Cardinality(Queued) = Cardinality(1..n)
  BY <1>3, <1>4, <1>5, FS_Surjection
<1> QED BY <1>5, <1>6 DEF n

LEMMA InvariantSuffices == IInv => PermitsConserved
BY QueueCounts DEF IInv, TypeOK, PermitsConserved, QueueIsQueued, Waiters

LEMMA InitInvariant == Init => IInv
<1> SUFFICES ASSUME Init PROVE IInv
  OBVIOUS
<1>1. /\ MaxConcurrency \in Nat /\ queue = << >> /\ free = MaxConcurrency /\ gauge = 0
      /\ maxBatch \in BatchLimits
      /\ \E body \in Bodies : req = [r \in Requests |-> [at |-> "absent", body |-> body]]
  BY AdmissionAssumption DEF Init
<1>2. TypeOK
  BY <1>1 DEF TypeOK
<1>3. Holders = {} /\ InHandler = {} /\ Queued = {} /\ Waiters = {}
  BY <1>1 DEF Holders, InHandler, Inside, Queued, Waiters
<1>4. Cardinality({}) = 0
  BY FS_EmptySet
<1> QED BY <1>1, <1>2, <1>3, <1>4
        DEF IInv, QueueIsQueued, Distinct, NoIdlePermit, GaugeCountsHandlers

-----------------------------------------------------------------------------
Everywhere == Inside \union Answers \union {"absent"}
Held == {"granted", "forwarding"}

(* One handler moves on: what that means for the three sets of handlers.       *)
LEMMA Moved ==
    ASSUME TypeOK, NEW r \in Requests, NEW x \in Everywhere, NEW b \in Bodies,
           req' = [req EXCEPT ![r] = [at |-> x, body |-> b]]
    PROVE  /\ req' \in [Requests -> [at : Everywhere, body : Bodies]]
           /\ Holders' = IF x \in Held THEN Holders \union {r} ELSE Holders \ {r}
           /\ InHandler' = IF x \in Inside THEN InHandler \union {r} ELSE InHandler \ {r}
           /\ Waiters' = IF x = "queued" THEN Waiters \union {r} ELSE Waiters \ {r}
BY DEF TypeOK, Everywhere, Held, Holders, InHandler, Waiters

LEMMA MovedAt ==
    ASSUME TypeOK, NEW r \in Requests, NEW x \in Everywhere,
           req' = [req EXCEPT ![r].at = x]
    PROVE  req' = [req EXCEPT ![r] = [at |-> x, body |-> req[r].body]] /\ req[r].body \in Bodies
<1>1. req[r] \in [at : Everywhere, body : Bodies]
  BY DEF TypeOK, Everywhere
<1>2. [req[r] EXCEPT !.at = x] = [at |-> x, body |-> req[r].body]
  BY <1>1
<1> QED BY <1>1, <1>2

(* A handler that stands at some place is in the sets of that place.           *)
LEMMA Standing ==
    ASSUME NEW r \in Requests
    PROVE  /\ r \in Holders <=> req[r].at \in Held
           /\ r \in InHandler <=> req[r].at \in Inside
           /\ r \in Waiters <=> req[r].at = "queued"
           /\ Holders \subseteq Requests /\ InHandler \subseteq Requests
           /\ Held \subseteq Inside /\ Inside \subseteq Everywhere /\ Answers \subseteq Everywhere
BY DEF Holders, Held, InHandler, Inside, Waiters, Everywhere

(* Removing the i-th waiter removes it alone.                                  *)
LEMMA WithoutOne ==
    ASSUME queue \in Seq(Requests), Distinct, NEW i \in DOMAIN queue,
           queue' = Without(queue, i)
    PROVE  /\ queue' \in Seq(Requests)
           /\ Queued' = Queued \ {queue[i]}
           /\ Distinct'
<1> DEFINE n == Len(queue)
<1>1. n \in Nat /\ DOMAIN queue = 1..n /\ i \in 1..n /\ n - 1 \in Nat
  OBVIOUS
<1>2. queue' = [k \in 1..(n - 1) |-> IF k < i THEN queue[k] ELSE queue[k + 1]]
  BY DEF Without
<1> HIDE DEF n
<1>3. \A k \in 1..(n - 1) : k \in 1..n /\ k + 1 \in 1..n
  BY <1>1
<1>4. \A k \in 1..(n - 1) : queue'[k] \in Requests
  BY <1>1, <1>2, <1>3
<1>5. queue' \in Seq(Requests) /\ DOMAIN queue' = 1..(n - 1)
  BY <1>1, <1>2, <1>4
<1>6. Distinct'
  <2> SUFFICES ASSUME NEW k \in 1..(n - 1), NEW m \in 1..(n - 1), queue'[k] = queue'[m]
               PROVE  k = m
    BY <1>5 DEF Distinct
  <2> DEFINE K == IF k < i THEN k ELSE k + 1
             M == IF m < i THEN m ELSE m + 1
  <2>1. K \in 1..n /\ M \in 1..n /\ queue[K] = queue[M]
    BY <1>1, <1>2, <1>3
  <2>2. K = M
    BY <1>1, <2>1 DEF Distinct
  <2> QED BY <1>1, <2>2
<1>7. \A k \in 1..(n - 1) : queue'[k] \in Queued /\ queue'[k] # queue[i]
  <2> TAKE k \in 1..(n - 1)
  <2> DEFINE K == IF k < i THEN k ELSE k + 1
  <2>1. K \in 1..n /\ K # i /\ queue'[k] = queue[K]
    BY <1>1, <1>2, <1>3
  <2> QED BY <1>1, <2>1 DEF Distinct, Queued
<1>8. \A m \in 1..n : m # i => \E k \in 1..(n - 1) : queue'[k] = queue[m]
  <2> SUFFICES ASSUME NEW m \in 1..n, m # i PROVE \E k \in 1..(n - 1) : queue'[k] = queue[m]
    OBVIOUS
  <2>1. CASE m < i
    <3>1. m \in 1..(n - 1) /\ queue'[m] = queue[m]
      BY <1>1, <1>2, <2>1
    <3> QED BY <3>1
  <2>2. CASE m > i
    <3>1. m - 1 \in 1..(n - 1) /\ queue'[m - 1] = queue[m]
      BY <1>1, <1>2, <2>2
    <3> QED BY <3>1
  <2> QED BY <1>1, <2>1, <2>2
<1>9. Queued' = Queued \ {queue[i]}
  <2>1. ASSUME NEW q \in Queued' PROVE q \in Queued \ {queue[i]}
    <3>1. PICK k \in 1..(n - 1) : q = queue'[k]
      BY <1>5, <2>1 DEF Queued
    <3> QED BY <1>7, <3>1
  <2>2. ASSUME NEW q \in Queued, q # queue[i] PROVE q \in Queued'
    <3>1. PICK m \in 1..n : q = queue[m]
      BY <1>1 DEF Queued
    <3>2. PICK k \in 1..(n - 1) : queue'[k] = q
      BY <1>8, <2>2, <3>1
    <3> QED BY <1>5, <3>2 DEF Queued
  <2> QED BY <2>1, <2>2
<1> QED BY <1>5, <1>6, <1>9

(* The queue grows at its end and is served from its head.                     *)
LEMMA AppendOne ==
    ASSUME queue \in Seq(Requests), Distinct, NEW r \in Requests, r \notin Queued,
           queue' = Append(queue, r)
    PROVE  queue' \in Seq(Requests) /\ Queued' = Queued \union {r} /\ Distinct'
<1> DEFINE n == Len(queue)
<1>1. /\ n \in Nat /\ DOMAIN queue = 1..n /\ n + 1 \in 1..(n + 1)
      /\ \A k \in 1..n : k \in 1..(n + 1) /\ k # n + 1
      /\ \A k \in 1..(n + 1) : k \in 1..n \/ k = n + 1
  OBVIOUS
<1>2. /\ queue' \in Seq(Requests) /\ DOMAIN queue' = 1..(n + 1) /\ queue'[n + 1] = r
      /\ \A k \in 1..n : queue'[k] = queue[k]
  OBVIOUS
<1> HIDE DEF n
<1>3. \A k \in 1..n : queue[k] \in Queued
  BY <1>1 DEF Queued
<1>4. Distinct'
  BY <1>1, <1>2, <1>3 DEF Distinct
<1>5. Queued' = Queued \union {r}
  <2>1. ASSUME NEW q \in Queued' PROVE q \in Queued \union {r}
    <3>1. PICK k \in 1..(n + 1) : q = queue'[k]
      BY <1>2 DEF Queued
    <3> QED BY <1>1, <1>2, <1>3, <3>1
  <2>2. ASSUME NEW q \in Queued PROVE q \in Queued'
    <3>1. PICK k \in 1..n : q = queue[k]
      BY <1>1 DEF Queued
    <3> QED BY <1>1, <1>2, <3>1 DEF Queued
  <2>3. r \in Queued'
    BY <1>1, <1>2 DEF Queued
  <2> QED BY <2>1, <2>2, <2>3
<1> QED BY <1>2, <1>4, <1>5

LEMMA TailOne ==
    ASSUME queue \in Seq(Requests), Distinct, queue # << >>, queue' = Tail(queue)
    PROVE  /\ queue' \in Seq(Requests) /\ Queued' = Queued \ {Head(queue)} /\ Distinct'
           /\ Head(queue) \in Queued
<1> DEFINE n == Len(queue)
<1>1. /\ n \in Nat /\ n >= 1 /\ DOMAIN queue = 1..n /\ 1 \in 1..n
      /\ Head(queue) = queue[1]
  OBVIOUS
<1>2. /\ queue' \in Seq(Requests) /\ DOMAIN queue' = 1..(n - 1)
      /\ \A k \in 1..(n - 1) : queue'[k] = queue[k + 1]
  OBVIOUS
<1> HIDE DEF n
<1>3. /\ \A k \in 1..(n - 1) : k + 1 \in 1..n /\ k + 1 # 1
      /\ \A k \in 1..n : k # 1 => k - 1 \in 1..(n - 1) /\ (k - 1) + 1 = k
      /\ \A k, m \in 1..(n - 1) : k + 1 = m + 1 => k = m
  BY <1>1
<1>4. Distinct'
  BY <1>1, <1>2, <1>3 DEF Distinct
<1>5. Queued' = Queued \ {queue[1]}
  <2>1. ASSUME NEW q \in Queued' PROVE q \in Queued \ {queue[1]}
    <3>1. PICK k \in 1..(n - 1) : q = queue'[k]
      BY <1>2 DEF Queued
    <3>2. q = queue[k + 1] /\ k + 1 \in 1..n /\ k + 1 # 1
      BY <1>2, <1>3, <3>1
    <3> QED BY <1>1, <3>2 DEF Queued, Distinct
  <2>2. ASSUME NEW q \in Queued, q # queue[1] PROVE q \in Queued'
    <3>1. PICK k \in 1..n : q = queue[k]
      BY <1>1 DEF Queued
    <3>2. k - 1 \in 1..(n - 1) /\ queue'[k - 1] = q
      BY <1>2, <1>3, <2>2, <3>1
    <3> QED BY <1>2, <3>2 DEF Queued
  <2> QED BY <2>1, <2>2
<1> QED BY <1>1, <1>2, <1>4, <1>5 DEF Queued

-----------------------------------------------------------------------------
(* A permit is given back: to the first waiter, or to the semaphore.           *)
LEMMA LeaveStep ==
    ASSUME IInv, NEW r \in Requests, req[r].at \in Held, NEW answer \in Answers,
           Leave(r, answer), UNCHANGED maxBatch
    PROVE  IInv'
<1>1. /\ TypeOK /\ Distinct /\ QueueIsQueued /\ queue \in Seq(Requests)
      /\ r \in Holders /\ r \in InHandler /\ r \notin Waiters
      /\ Holders \in SUBSET Requests /\ InHandler \in SUBSET Requests
      /\ free + Cardinality(Holders) = MaxConcurrency /\ gauge = Cardinality(InHandler)
      /\ free \in 0..MaxConcurrency /\ MaxConcurrency \in Nat
      /\ maxBatch \in BatchLimits /\ answer \in Everywhere
      /\ answer \notin Inside /\ answer \notin Held /\ answer # "queued"
  BY Standing, AdmissionAssumption
     DEF IInv, TypeOK, GaugeCountsHandlers, Held, Inside, Answers, Waiters
<1>2. gauge' = gauge - 1 /\ gauge' \in Nat /\ gauge' = Cardinality(InHandler \ {r})
      /\ Cardinality(Holders) \in Nat /\ Cardinality(Holders) > 0
  BY <1>1, Counted DEF Leave
<1>3. CASE queue = << >>
  <2>1. free' = free + 1 /\ req' = [req EXCEPT ![r].at = answer] /\ queue' = queue
    BY <1>3 DEF Leave
  <2>2. /\ req' \in [Requests -> [at : Everywhere, body : Bodies]]
        /\ Holders' = Holders \ {r} /\ InHandler' = InHandler \ {r} /\ Waiters' = Waiters
    <3>1. /\ req' = [req EXCEPT ![r] = [at |-> answer, body |-> req[r].body]]
          /\ req[r].body \in Bodies
      BY <1>1, <2>1, MovedAt
    <3>2. /\ req' \in [Requests -> [at : Everywhere, body : Bodies]]
          /\ Holders' = IF answer \in Held THEN Holders \union {r} ELSE Holders \ {r}
          /\ InHandler' = IF answer \in Inside THEN InHandler \union {r} ELSE InHandler \ {r}
          /\ Waiters' = IF answer = "queued" THEN Waiters \union {r} ELSE Waiters \ {r}
      <4>1. TypeOK /\ answer \in Everywhere /\ req[r].body \in Bodies
        BY <1>1, <3>1
      <4> QED BY <3>1, <4>1, Moved
    <3> QED BY <1>1, <3>2
  <2>3. /\ free' + Cardinality(Holders') = MaxConcurrency
        /\ free' \in 0..MaxConcurrency
    <3>1. Cardinality(Holders') = Cardinality(Holders) - 1
      BY <1>1, <2>2, Counted
    <3> QED BY <1>1, <1>2, <2>1, <3>1
  <2>4. TypeOK'
    BY <1>1, <1>2, <2>1, <2>2, <2>3 DEF TypeOK, Everywhere
  <2>5. QueueIsQueued' /\ Distinct' /\ NoIdlePermit'
    BY <1>1, <1>3, <2>1, <2>2 DEF QueueIsQueued, Queued, Distinct, NoIdlePermit
  <2>6. GaugeCountsHandlers'
    BY <1>2, <2>2 DEF GaugeCountsHandlers
  <2> QED BY <2>3, <2>4, <2>5, <2>6 DEF IInv
<1>4. CASE queue # << >>
  <2> DEFINE h == Head(queue)
  <2>1. /\ free' = free /\ queue' = Tail(queue)
        /\ req' = [req EXCEPT ![r].at = answer, ![h].at = "granted"]
    BY <1>4 DEF Leave
  <2>2. /\ queue' \in Seq(Requests) /\ Queued' = Queued \ {h} /\ Distinct' /\ h \in Queued
    BY <1>1, <1>4, <2>1, TailOne
  <2> HIDE DEF h
  <2>3. h \in Waiters /\ h \in Requests /\ h # r /\ h \in InHandler /\ h \notin Holders
    BY <1>1, <2>2 DEF QueueIsQueued, Waiters, InHandler, Inside, Holders
  <2>4. /\ req' \in [Requests -> [at : Everywhere, body : Bodies]]
        /\ \A s \in Requests : req'[s].at = IF s = h THEN "granted"
                                              ELSE IF s = r THEN answer ELSE req[s].at
    <3> DEFINE mid == [req EXCEPT ![r].at = answer]
    <3>1. "granted" \in Everywhere /\ req \in [Requests -> [at : Everywhere, body : Bodies]]
      BY <1>1 DEF Everywhere, Inside, TypeOK
    <3>2. req' = [mid EXCEPT ![h].at = "granted"]
      BY <2>1
    <3>3. /\ mid \in [Requests -> [at : Everywhere, body : Bodies]]
          /\ \A s \in Requests : mid[s].at = IF s = r THEN answer ELSE req[s].at
      <4>1. answer \in Everywhere
        BY <1>1
      <4> QED BY <3>1, <4>1
    <3> HIDE DEF mid
    <3> QED BY <2>3, <3>1, <3>2, <3>3
  <2>5. /\ Holders' = (Holders \ {r}) \union {h} /\ InHandler' = InHandler \ {r}
        /\ Waiters' = Waiters \ {h}
    BY <1>1, <2>3, <2>4 DEF Holders, InHandler, Waiters, Held, Inside
  <2>6. Cardinality(Holders') = Cardinality(Holders)
    <3>1. Cardinality(Holders \ {r}) = Cardinality(Holders) - 1
      BY <1>1, Counted
    <3>2. Cardinality((Holders \ {r}) \union {h}) = Cardinality(Holders \ {r}) + 1
      BY <1>1, <2>3, Counted
    <3> QED BY <1>2, <2>5, <3>1, <3>2
  <2>7. TypeOK'
    BY <1>1, <1>2, <2>1, <2>2, <2>4 DEF TypeOK, Everywhere
  <2>8. QueueIsQueued' /\ NoIdlePermit'
    BY <1>1, <1>4, <2>1, <2>2, <2>5 DEF IInv, QueueIsQueued, NoIdlePermit
  <2>9. GaugeCountsHandlers'
    BY <1>2, <2>5 DEF GaugeCountsHandlers
  <2> QED BY <1>1, <2>1, <2>2, <2>6, <2>7, <2>8, <2>9 DEF IInv
<1> QED BY <1>3, <1>4

(* What a request needs to know of the invariant when it moves outside Leave.  *)
LEMMA Basics ==
    ASSUME IInv
    PROVE  /\ TypeOK /\ Distinct /\ QueueIsQueued /\ queue \in Seq(Requests)
           /\ free + Cardinality(Holders) = MaxConcurrency /\ gauge = Cardinality(InHandler)
           /\ free \in 0..MaxConcurrency /\ MaxConcurrency \in Nat /\ gauge \in Nat
           /\ maxBatch \in BatchLimits
           /\ Holders \in SUBSET Requests /\ InHandler \in SUBSET Requests
           /\ Cardinality(Holders) \in Nat /\ Cardinality(InHandler) \in Nat
           /\ \A r \in Requests : req[r] \in [at : Everywhere, body : Bodies]
<1>1. Holders \in SUBSET Requests /\ InHandler \in SUBSET Requests
  BY DEF Holders, InHandler
<1> QED BY <1>1, Counted, AdmissionAssumption
        DEF IInv, TypeOK, GaugeCountsHandlers, Everywhere

(* A body arrives: the handler is counted.                                    *)
LEMMA ArriveStep ==
    ASSUME IInv, NEW r \in Requests, NEW body \in Bodies, Arrive(r, body) PROVE IInv'
<1>1. /\ req[r].at \notin Inside /\ gauge' = gauge + 1
      /\ req' = [req EXCEPT ![r] = [at |-> "received", body |-> body]]
      /\ UNCHANGED <<queue, free, maxBatch>>
  BY DEF Arrive
<1>2. /\ r \notin Holders /\ r \notin InHandler /\ r \notin Waiters
      /\ "received" \in Everywhere /\ "received" \in Inside /\ "received" \notin Held
  BY <1>1, Standing DEF Everywhere, Inside, Held
<1>3. /\ req' \in [Requests -> [at : Everywhere, body : Bodies]]
      /\ Holders' = Holders /\ InHandler' = InHandler \union {r} /\ Waiters' = Waiters
  <2>1. TypeOK
    BY Basics
  <2>2. /\ req' \in [Requests -> [at : Everywhere, body : Bodies]]
        /\ Holders' = IF "received" \in Held THEN Holders \union {r} ELSE Holders \ {r}
        /\ InHandler' = IF "received" \in Inside THEN InHandler \union {r} ELSE InHandler \ {r}
        /\ Waiters' = IF "received" = "queued" THEN Waiters \union {r} ELSE Waiters \ {r}
    BY <1>1, <1>2, <2>1, Moved
  <2> QED BY <1>2, <2>2
<1>4. gauge' = Cardinality(InHandler') /\ gauge' \in Nat
  BY <1>1, <1>2, <1>3, Basics, Counted
<1>5. TypeOK'
  BY <1>1, <1>3, <1>4, Basics DEF TypeOK, Everywhere
<1> QED BY <1>1, <1>3, <1>4, <1>5, Basics
        DEF IInv, QueueIsQueued, Queued, Distinct, NoIdlePermit, GaugeCountsHandlers

(* A handler without a permit returns.                                        *)
LEMMA RejectEarlyStep ==
    ASSUME IInv, NEW r \in Requests, RejectEarly(r) PROVE IInv'
<1>1. /\ req[r].at = "received" /\ gauge' = gauge - 1
      /\ req' = [req EXCEPT ![r].at = "batch_too_large"]
      /\ UNCHANGED <<queue, free, maxBatch>>
  BY DEF RejectEarly, Answer
<1>2. /\ r \notin Holders /\ r \in InHandler /\ r \notin Waiters
      /\ "batch_too_large" \in Everywhere /\ "batch_too_large" \notin Inside
      /\ "batch_too_large" \notin Held
  BY <1>1, Standing DEF Everywhere, Inside, Held, Answers
<1>3. /\ req' \in [Requests -> [at : Everywhere, body : Bodies]]
      /\ Holders' = Holders /\ InHandler' = InHandler \ {r} /\ Waiters' = Waiters
  BY <1>1, <1>2, Basics DEF TypeOK, Everywhere, Holders, InHandler, Waiters, Held, Inside
<1>4. gauge' = Cardinality(InHandler') /\ gauge' \in Nat
  BY <1>1, <1>2, <1>3, Basics, Counted
<1>5. TypeOK'
  BY <1>1, <1>3, <1>4, Basics DEF TypeOK, Everywhere
<1> QED BY <1>1, <1>3, <1>4, <1>5, Basics
        DEF IInv, QueueIsQueued, Queued, Distinct, NoIdlePermit, GaugeCountsHandlers

(* A free permit is taken, or the handler queues up.                          *)
LEMMA AcquireStep ==
    ASSUME IInv, NEW r \in Requests, Acquire(r) PROVE IInv'
<1>1. req[r].at = "received" /\ UNCHANGED <<gauge, maxBatch>>
  BY DEF Acquire
<1>2. r \notin Holders /\ r \in InHandler /\ r \notin Waiters
  BY <1>1, Standing DEF Inside, Held
<1>3. CASE free > 0
  <2>1. free' = free - 1 /\ req' = [req EXCEPT ![r].at = "granted"] /\ queue' = queue
    BY <1>3 DEF Acquire
  <2>2. /\ req' \in [Requests -> [at : Everywhere, body : Bodies]]
        /\ Holders' = Holders \union {r} /\ InHandler' = InHandler /\ Waiters' = Waiters
    BY <1>1, <1>2, <2>1, Basics DEF TypeOK, Everywhere, Holders, InHandler, Waiters, Held, Inside
  <2>3. free' + Cardinality(Holders') = MaxConcurrency /\ free' \in 0..MaxConcurrency
    <3>1. Cardinality(Holders') = Cardinality(Holders) + 1
      BY <1>2, <2>2, Basics, Counted
    <3>2. /\ free \in 0..MaxConcurrency /\ MaxConcurrency \in Nat
          /\ Cardinality(Holders) \in Nat /\ free + Cardinality(Holders) = MaxConcurrency
      BY Basics
    <3> QED BY <1>3, <2>1, <3>1, <3>2
  <2>4. TypeOK'
    BY <1>1, <2>1, <2>2, <2>3, Basics DEF TypeOK, Everywhere
  <2>5. queue = << >>
    BY <1>3 DEF IInv, NoIdlePermit
  <2> QED BY <1>1, <2>1, <2>2, <2>3, <2>4, <2>5, Basics
          DEF IInv, QueueIsQueued, Queued, Distinct, NoIdlePermit, GaugeCountsHandlers
<1>4. CASE ~ (free > 0)
  <2>1. free' = free /\ req' = [req EXCEPT ![r].at = "queued"] /\ queue' = Append(queue, r)
    BY <1>4 DEF Acquire
  <2>2. /\ req' \in [Requests -> [at : Everywhere, body : Bodies]]
        /\ Holders' = Holders /\ InHandler' = InHandler /\ Waiters' = Waiters \union {r}
    BY <1>1, <1>2, <2>1, Basics DEF TypeOK, Everywhere, Holders, InHandler, Waiters, Held, Inside
  <2>3. queue' \in Seq(Requests) /\ Queued' = Queued \union {r} /\ Distinct'
    BY <1>2, <2>1, Basics, AppendOne DEF QueueIsQueued
  <2>4. TypeOK'
    BY <1>1, <2>1, <2>2, <2>3, Basics DEF TypeOK, Everywhere
  <2>5. QueueIsQueued'
    BY <2>2, <2>3, Basics DEF QueueIsQueued
  <2>6. NoIdlePermit'
    BY <1>4, <2>1, Basics DEF NoIdlePermit
  <2> QED BY <1>1, <2>1, <2>2, <2>3, <2>4, <2>5, <2>6, Basics DEF IInv, GaugeCountsHandlers
<1> QED BY <1>3, <1>4

LEMMA ForwardStep ==
    ASSUME IInv, NEW r \in Requests, Forward(r) PROVE IInv'
<1>1. /\ req[r].at = "granted" /\ req' = [req EXCEPT ![r].at = "forwarding"]
      /\ UNCHANGED <<queue, free, gauge, maxBatch>>
  BY DEF Forward
<1>2. /\ req' \in [Requests -> [at : Everywhere, body : Bodies]]
      /\ Holders' = Holders /\ InHandler' = InHandler /\ Waiters' = Waiters
  BY <1>1, Basics DEF TypeOK, Everywhere, Holders, InHandler, Waiters, Held, Inside
<1>3. TypeOK'
  BY <1>1, <1>2, Basics DEF TypeOK, Everywhere
<1> QED BY <1>1, <1>2, <1>3, Basics
        DEF IInv, QueueIsQueued, Queued, Distinct, NoIdlePermit, GaugeCountsHandlers

(* The client of a waiter hangs up.                                           *)
LEMMA HangUpInQueueStep ==
    ASSUME IInv, NEW r \in Requests, req[r].at = "queued",
           NEW i \in DOMAIN queue, queue[i] = r, queue' = Without(queue, i),
           Answer(r, "gone"), UNCHANGED <<free, maxBatch>>
    PROVE  IInv'
<1>1. gauge' = gauge - 1 /\ req' = [req EXCEPT ![r].at = "gone"]
  BY DEF Answer
<1>2. r \notin Holders /\ r \in InHandler /\ r \in Waiters
  BY Standing DEF Held, Inside
<1>3. /\ req' \in [Requests -> [at : Everywhere, body : Bodies]]
      /\ Holders' = Holders /\ InHandler' = InHandler \ {r} /\ Waiters' = Waiters \ {r}
  BY <1>1, <1>2, Basics DEF TypeOK, Everywhere, Holders, InHandler, Waiters, Held, Inside, Answers
<1>4. gauge' = Cardinality(InHandler') /\ gauge' \in Nat
  BY <1>1, <1>2, <1>3, Basics, Counted
<1>5. queue' \in Seq(Requests) /\ Queued' = Queued \ {r} /\ Distinct'
  BY Basics, WithoutOne
<1>6. TypeOK'
  BY <1>3, <1>4, <1>5, Basics DEF TypeOK, Everywhere
<1>7. QueueIsQueued'
  BY <1>3, <1>5, Basics DEF QueueIsQueued
<1>8. NoIdlePermit'
  <2>1. queue # << >>
    OBVIOUS
  <2> QED BY <2>1 DEF IInv, NoIdlePermit
<1> QED BY <1>3, <1>4, <1>5, <1>6, <1>7, <1>8, Basics DEF IInv, GaugeCountsHandlers

-----------------------------------------------------------------------------
LEMMA NextInvariant == IInv /\ [Next]_vars => IInv'
<1> SUFFICES ASSUME IInv, [Next]_vars PROVE IInv'
  OBVIOUS
<1>1. ASSUME NEW r \in Requests, NEW body \in Bodies, Arrive(r, body) PROVE IInv'
  BY <1>1, ArriveStep
<1>2. ASSUME NEW r \in Requests, RejectEarly(r) PROVE IInv'
  BY <1>2, RejectEarlyStep
<1>3. ASSUME NEW r \in Requests, Acquire(r) PROVE IInv'
  BY <1>3, AcquireStep
<1>4. ASSUME NEW r \in Requests, Refuse(r) PROVE IInv'
  <2>1. /\ req[r].at \in Held /\ UNCHANGED maxBatch
        /\ \E answer \in Answers : Leave(r, answer)
    BY <1>4 DEF Refuse, Held, Answers
  <2> QED BY <2>1, LeaveStep
<1>5. ASSUME NEW r \in Requests, Forward(r) PROVE IInv'
  BY <1>5, ForwardStep
<1>6. ASSUME NEW r \in Requests, Respond(r) PROVE IInv'
  <2>1. /\ req[r].at \in Held /\ UNCHANGED maxBatch
        /\ \E answer \in Answers : Leave(r, answer)
    BY <1>6 DEF Respond, Held, Answers
  <2> QED BY <2>1, LeaveStep
<1>7. ASSUME NEW r \in Requests, HangUp(r) PROVE IInv'
  <2>1. CASE req[r].at = "queued"
    <3>1. PICK i \in DOMAIN queue : queue[i] = r /\ queue' = Without(queue, i)
      BY <1>7, <2>1 DEF HangUp
    <3>2. Answer(r, "gone") /\ UNCHANGED <<free, maxBatch>>
      BY <1>7, <2>1 DEF HangUp
    <3> QED BY <2>1, <3>1, <3>2, HangUpInQueueStep
  <2>2. CASE req[r].at \in Held
    <3>1. "gone" \in Answers /\ Leave(r, "gone") /\ UNCHANGED maxBatch
      BY <1>7, <2>2 DEF HangUp, Held, Answers
    <3> QED BY <2>2, <3>1, LeaveStep
  <2> QED BY <1>7, <2>1, <2>2 DEF HangUp, Held
<1>8. ASSUME NEW limit \in BatchLimits, ReloadLimit(limit) PROVE IInv'
  BY <1>8 DEF ReloadLimit, IInv, TypeOK, QueueIsQueued, Queued, Waiters, Distinct,
              NoIdlePermit, GaugeCountsHandlers, Holders, InHandler
<1>9. CASE UNCHANGED vars
  BY <1>9 DEF vars, IInv, TypeOK, QueueIsQueued, Queued, Waiters, Distinct,
              NoIdlePermit, GaugeCountsHandlers, Holders, InHandler
<1> QED BY <1>1, <1>2, <1>3, <1>4, <1>5, <1>6, <1>7, <1>8, <1>9 DEF Next

LEMMA InvariantHolds == Spec => []IInv
BY InitInvariant, NextInvariant, PTL DEF Spec

(* Requests, queue, permits, gauge and limit keep their types (handle_rpc).    *)
THEOREM TypeCorrect == Spec => []TypeOK
<1>1. IInv => TypeOK
  BY DEF IInv
<1> QED BY <1>1, InvariantHolds, PTL

(* Permits are neither lost nor invented on any way out of handle_rpc, and the *)
(* waiters are those that stand before acquire_owned, each in the queue once.  *)
THEOREM PermitsAlwaysConserved == Spec => []PermitsConserved
BY InvariantSuffices, InvariantHolds, PTL

(* No handler of handle_rpc waits while a permit is free.                      *)
THEOREM NeverIdlePermit == Spec => []NoIdlePermit
<1>1. IInv => NoIdlePermit
  BY DEF IInv
<1> QED BY <1>1, InvariantHolds, PTL

(* ConcurrencyGuard is dropped exactly once on every way out.                  *)
THEOREM GaugeAlwaysCounts == Spec => []GaugeCountsHandlers
<1>1. IInv => GaugeCountsHandlers
  BY DEF IInv
<1> QED BY <1>1, InvariantHolds, PTL

-----------------------------------------------------------------------------
(* The gate.  The positions in the queue are an order of the waiters; what the *)
(* three changes of the queue do to that order.                               *)

(* A new waiter comes behind all the others.                                  *)
LEMMA AppendBehind ==
    ASSUME queue \in Seq(Requests), NEW r \in Requests, queue' = Append(queue, r)
    PROVE  Ahead(queue') = Ahead(queue) \union (Queued \X {r})
<1> DEFINE n == Len(queue)
<1>1. /\ n \in Nat /\ DOMAIN queue = 1..n /\ DOMAIN queue' = 1..(n + 1)
      /\ queue'[n + 1] = r /\ \A k \in 1..n : queue'[k] = queue[k]
      /\ \A k \in 1..n : queue[k] \in Requests
  OBVIOUS
<1> HIDE DEF n
<1>2. ASSUME NEW s \in Requests, NEW t \in Requests
      PROVE  Before(queue', s, t) <=> Before(queue, s, t) \/ (s \in Queued /\ t = r)
  <2>1. ASSUME Before(queue', s, t) PROVE Before(queue, s, t) \/ (s \in Queued /\ t = r)
    <3>1. PICK i, j \in 1..(n + 1) : i < j /\ queue'[i] = s /\ queue'[j] = t
      BY <1>1, <2>1 DEF Before
    <3>2. i \in 1..n /\ queue[i] = s
      BY <1>1, <3>1
    <3>3. CASE j = n + 1
      BY <1>1, <3>1, <3>2, <3>3 DEF Queued
    <3>4. CASE j # n + 1
      <4>1. j \in 1..n /\ queue[j] = t
        BY <1>1, <3>1, <3>4
      <4> QED BY <1>1, <3>1, <3>2, <4>1 DEF Before
    <3> QED BY <3>3, <3>4
  <2>2. ASSUME Before(queue, s, t) PROVE Before(queue', s, t)
    <3>1. PICK i, j \in 1..n : i < j /\ queue[i] = s /\ queue[j] = t
      BY <1>1, <2>2 DEF Before
    <3>2. i \in 1..(n + 1) /\ j \in 1..(n + 1) /\ queue'[i] = s /\ queue'[j] = t
      BY <1>1, <3>1
    <3> QED BY <1>1, <3>1, <3>2 DEF Before
  <2>3. ASSUME s \in Queued, t = r PROVE Before(queue', s, t)
    <3>1. PICK i \in 1..n : queue[i] = s
      BY <1>1, <2>3 DEF Queued
    <3>2. i \in 1..(n + 1) /\ n + 1 \in 1..(n + 1) /\ i < n + 1 /\ queue'[i] = s
      BY <1>1, <3>1
    <3> QED BY <1>1, <2>3, <3>2 DEF Before
  <2> QED BY <2>1, <2>2, <2>3
<1>3. Queued \subseteq Requests
  BY <1>1 DEF Queued
<1> QED BY <1>2, <1>3 DEF Ahead

(* Whoever is left by a shift of the queue from its i-th place on stands as    *)
(* before towards the others: Tail shifts all, Without those behind i.         *)
LEMMA ShiftKeepsOrder ==
    ASSUME queue \in Seq(Requests), Distinct, NEW i \in 1..Len(queue),
           queue' = Without(queue, i)
    PROVE  Ahead(queue') = Ahead(queue) \intersect
                             ((Queued \ {queue[i]}) \X (Queued \ {queue[i]}))
<1> DEFINE n == Len(queue)
           Old(k) == IF k < i THEN k ELSE k + 1
           New(k) == IF k < i THEN k ELSE k - 1
           Left == Queued \ {queue[i]}
<1>1. /\ n \in Nat /\ DOMAIN queue = 1..n /\ i \in 1..n
      /\ \A k \in 1..n : queue[k] \in Requests
  OBVIOUS
<1>2. queue' = [k \in 1..(n - 1) |-> IF k < i THEN queue[k] ELSE queue[k + 1]]
  BY DEF Without
<1>3. DOMAIN queue' = 1..(n - 1) /\ \A k \in 1..(n - 1) : queue'[k] = queue[Old(k)]
  BY <1>2
<1> HIDE DEF n
<1>4. /\ \A k \in 1..(n - 1) : Old(k) \in 1..n /\ Old(k) # i
      /\ \A k, m \in 1..(n - 1) : k < m => Old(k) < Old(m)
      /\ \A k \in 1..n : k # i => New(k) \in 1..(n - 1) /\ Old(New(k)) = k
      /\ \A k, m \in 1..n : k # i /\ m # i /\ k < m => New(k) < New(m)
  BY <1>1
<1> HIDE DEF Old, New
<1>5. \A k \in 1..n : k # i <=> queue[k] \in Left
  BY <1>1 DEF Distinct, Queued
<1>6. ASSUME NEW s \in Requests, NEW t \in Requests
      PROVE  Before(queue', s, t) <=> Before(queue, s, t) /\ s \in Left /\ t \in Left
  <2>1. ASSUME Before(queue', s, t) PROVE Before(queue, s, t) /\ s \in Left /\ t \in Left
    <3>1. PICK k, m \in 1..(n - 1) : k < m /\ queue'[k] = s /\ queue'[m] = t
      BY <1>3, <2>1 DEF Before
    <3>2. /\ Old(k) \in 1..n /\ Old(m) \in 1..n /\ Old(k) < Old(m)
          /\ Old(k) # i /\ Old(m) # i
          /\ queue[Old(k)] = s /\ queue[Old(m)] = t
      BY <1>3, <1>4, <3>1
    <3> QED BY <1>1, <1>5, <3>2 DEF Before
  <2>2. ASSUME Before(queue, s, t), s \in Left, t \in Left PROVE Before(queue', s, t)
    <3>1. PICK k, m \in 1..n : k < m /\ queue[k] = s /\ queue[m] = t
      BY <1>1, <2>2 DEF Before
    <3>2. k # i /\ m # i
      BY <1>5, <2>2, <3>1
    <3>3. /\ New(k) \in 1..(n - 1) /\ New(m) \in 1..(n - 1) /\ New(k) < New(m)
          /\ queue'[New(k)] = s /\ queue'[New(m)] = t
      BY <1>3, <1>4, <3>1, <3>2
    <3> QED BY <1>3, <3>3 DEF Before
  <2> QED BY <2>1, <2>2
<1>7. Left \subseteq Requests
  BY <1>1 DEF Queued
<1> HIDE DEF Left
<1>8. Ahead(queue') = Ahead(queue) \intersect (Left \X Left)
  BY <1>6, <1>7 DEF Ahead
<1> QED BY <1>8 DEF Left

(* Serving the head removes the first place.                                  *)
LEMMA TailIsWithout ==
    ASSUME NEW q \in Seq(Requests), q # << >> PROVE Tail(q) = Without(q, 1)
<1>1. /\ Len(q) \in Nat /\ Tail(q) \in Seq(Requests) /\ DOMAIN Tail(q) = 1..(Len(q) - 1)
      /\ \A k \in 1..(Len(q) - 1) : Tail(q)[k] = q[k + 1]
  OBVIOUS
<1>2. Without(q, 1) = [k \in 1..(Len(q) - 1) |-> q[k + 1]]
  <2>1. \A k \in 1..(Len(q) - 1) : ~ (k < 1)
    BY <1>1
  <2> QED BY <2>1 DEF Without
<1> QED BY <1>1, <1>2

(* Nobody is ahead of the head.                                               *)
LEMMA HeadIsFirst ==
    ASSUME queue \in Seq(Requests), Distinct, queue # << >>
    PROVE  G!First(queue[1])
<1>1. Len(queue) \in Nat /\ DOMAIN queue = 1..Len(queue) /\ 1 \in 1..Len(queue)
  OBVIOUS
<1>2. ASSUME NEW s \in Queued, <<s, queue[1]>> \in Ahead(queue) PROVE FALSE
  <2>1. PICK i, j \in 1..Len(queue) : i < j /\ queue[j] = queue[1]
    BY <1>1, <1>2 DEF Ahead, Before
  <2>2. j = 1
    BY <1>1, <2>1 DEF Distinct
  <2> QED BY <1>1, <2>1, <2>2
<1> QED BY <1>1, <1>2 DEF G!First, Queued

-----------------------------------------------------------------------------
(* One step of the gate at a time.                                            *)

LEMMA NobodyMoves ==
    ASSUME Holders' = Holders, queue' = queue
    PROVE  UNCHANGED G!gateVars
BY DEF G!gateVars, Queued

LEMMA EmptyQueue ==
    ASSUME queue \in Seq(Requests)
    PROVE  queue = << >> <=> Queued = {}
<1>1. DOMAIN queue = 1..Len(queue) /\ Len(queue) \in Nat
  OBVIOUS
<1>2. ASSUME queue # << >> PROVE queue[1] \in Queued
  BY <1>1, <1>2 DEF Queued
<1>3. ASSUME queue = << >> PROVE Queued = {}
  BY <1>1, <1>3 DEF Queued
<1> QED BY <1>2, <1>3

LEMMA GateIsFull == G!Full <=> Cardinality(Holders) = MaxConcurrency
<1>1. G!Cardinality(Holders) = Cardinality(Holders)
  BY Zenon DEF G!Cardinality, Cardinality
<1> QED BY <1>1 DEF G!Full

(* acquire_owned lets the handler in or puts it last.                          *)
LEMMA AcquireEnters ==
    ASSUME IInv, NEW r \in Requests, Acquire(r)
    PROVE  G!GateNext
<1>1. /\ r \notin Holders /\ r \notin Queued /\ G!Outside(r)
      /\ queue \in Seq(Requests)
  <2>1. r \notin Holders /\ r \notin Waiters
    BY Standing DEF Acquire, Held
  <2> QED BY <2>1, Basics DEF QueueIsQueued, G!Outside
<1>2. /\ free \in 0..MaxConcurrency /\ MaxConcurrency \in Nat
      /\ Cardinality(Holders) \in Nat /\ free + Cardinality(Holders) = MaxConcurrency
  BY Basics
<1> DEFINE n == Cardinality(Holders)
<1>f. n = MaxConcurrency <=> ~ (free > 0)
  <2> HIDE DEF n
  <2>1. free \in Nat /\ n \in Nat /\ free + n = MaxConcurrency /\ MaxConcurrency \in Nat
    BY <1>2 DEF n
  <2> QED BY <2>1
<1>3. CASE free > 0
  <2>1. req' = [req EXCEPT ![r].at = "granted"] /\ queue' = queue
    BY <1>3 DEF Acquire
  <2>2. Holders' = Holders \union {r}
    BY <2>1, Basics DEF TypeOK, Holders
  <2>3. queue = << >>
    BY <1>2, <1>3 DEF IInv, NoIdlePermit
  <2>4. Queued = {} /\ Queued' = Queued
    BY <1>1, <2>1, <2>3, EmptyQueue DEF Queued
  <2>5. ~ G!Full
    BY <1>3, <1>f, GateIsFull
  <2>6. G!Enter(r)
    BY <1>1, <2>1, <2>2, <2>4, <2>5 DEF G!Enter
  <2> QED BY <2>6 DEF G!GateNext
<1>4. CASE ~ (free > 0)
  <2>1. req' = [req EXCEPT ![r].at = "queued"] /\ queue' = Append(queue, r)
    BY <1>4 DEF Acquire
  <2>2. Holders' = Holders
    BY <1>1, <2>1, Basics DEF TypeOK, Holders
  <2>3. Queued' = Queued \union {r}
    BY <1>1, <2>1, Basics, AppendOne
  <2>4. Ahead(queue') = Ahead(queue) \union (Queued \X {r})
    BY <1>1, <2>1, AppendBehind
  <2>5. G!Full
    BY <1>4, <1>f, GateIsFull
  <2>6. G!QueueUp(r)
    BY <1>1, <2>2, <2>3, <2>4, <2>5 DEF G!QueueUp
  <2> QED BY <2>6 DEF G!GateNext
<1> QED BY <1>3, <1>4

(* A holder departs, or hands its permit to the first in line.                 *)
LEMMA LeaveDeparts ==
    ASSUME IInv, NEW r \in Requests, req[r].at \in Held, NEW answer \in Answers,
           Leave(r, answer)
    PROVE  G!GateNext
<1>1. r \in Holders /\ queue \in Seq(Requests) /\ Distinct /\ QueueIsQueued
  BY Basics, Standing
<1>2. answer \in Everywhere /\ answer \notin Held /\ "granted" \in Held
  BY DEF Answers, Everywhere, Held
<1>3. CASE queue = << >>
  <2>1. req' = [req EXCEPT ![r].at = answer] /\ queue' = queue
    BY <1>3 DEF Leave
  <2>2. Holders' = Holders \ {r}
    BY <1>2, <2>1, Basics DEF TypeOK, Holders, Held
  <2>3. Queued = {} /\ Queued' = Queued
    BY <1>1, <1>3, <2>1, EmptyQueue DEF Queued
  <2>4. G!Depart(r)
    BY <1>1, <2>1, <2>2, <2>3 DEF G!Depart
  <2> QED BY <2>4 DEF G!GateNext
<1>4. CASE queue # << >>
  <2> DEFINE h == Head(queue)
  <2>1. queue' = Tail(queue) /\ req' = [req EXCEPT ![r].at = answer, ![h].at = "granted"]
    BY <1>4 DEF Leave
  <2>2. Queued' = Queued \ {h} /\ h \in Queued /\ h = queue[1]
    BY <1>1, <1>4, <2>1, TailOne
  <2> HIDE DEF h
  <2>3. h \in Requests /\ h # r
    <3>1. req[h].at = "queued" /\ h \in Requests
      BY <1>1, <2>2 DEF QueueIsQueued, Waiters
    <3> QED BY <3>1 DEF Held
  <2>4. Holders' = (Holders \ {r}) \union {h}
    <3> DEFINE mid == [req EXCEPT ![r].at = answer]
    <3>1. /\ mid \in [Requests -> [at : Everywhere, body : Bodies]]
          /\ \A s \in Requests : mid[s].at = IF s = r THEN answer ELSE req[s].at
      BY <1>2, Basics DEF TypeOK, Everywhere
    <3>2. req' = [mid EXCEPT ![h].at = "granted"]
      BY <2>1
    <3> HIDE DEF mid
    <3>3. \A s \in Requests : req'[s].at = IF s = h THEN "granted"
                                             ELSE IF s = r THEN answer ELSE req[s].at
      BY <2>3, <3>1, <3>2
    <3> QED BY <1>2, <2>3, <3>3 DEF Holders, Held
  <2>5. Ahead(queue') = Ahead(queue) \intersect ((Queued \ {h}) \X (Queued \ {h}))
    <3>1. 1 \in 1..Len(queue)
      BY <1>1, <1>4
    <3>2. queue' = Without(queue, 1)
      BY <1>1, <1>4, <2>1, TailIsWithout
    <3> QED BY <1>1, <2>2, <3>1, <3>2, ShiftKeepsOrder
  <2>6. G!First(h)
    BY <1>1, <1>4, <2>2, HeadIsFirst
  <2>7. G!HandOver(r, h)
    BY <1>1, <2>2, <2>4, <2>5, <2>6 DEF G!HandOver, G!Among
  <2> QED BY <2>3, <2>7 DEF G!GateNext
<1> QED BY <1>3, <1>4

(* A waiter gives up its place.                                               *)
LEMMA HangUpGivesUp ==
    ASSUME IInv, NEW r \in Requests, HangUp(r)
    PROVE  G!GateNext
<1>1. CASE req[r].at \in Held
  <2>1. "gone" \in Answers /\ Leave(r, "gone")
    BY <1>1 DEF HangUp, Held, Answers
  <2> QED BY <1>1, <2>1, LeaveDeparts
<1>2. CASE req[r].at = "queued"
  <2>1. PICK i \in DOMAIN queue : queue[i] = r /\ queue' = Without(queue, i)
    BY <1>2 DEF HangUp
  <2>2. req' = [req EXCEPT ![r].at = "gone"]
    BY <1>2 DEF HangUp, Answer
  <2>3. Holders' = Holders
    BY <1>2, <2>2, Basics DEF TypeOK, Holders
  <2>4. queue \in Seq(Requests) /\ Distinct /\ i \in 1..Len(queue) /\ r \in Queued
    BY <2>1, Basics DEF Queued
  <2>5. Queued' = Queued \ {r}
    BY <2>1, <2>4, WithoutOne
  <2>6. Ahead(queue') = Ahead(queue) \intersect ((Queued \ {r}) \X (Queued \ {r}))
    BY <2>1, <2>4, ShiftKeepsOrder
  <2>7. G!GiveUp(r)
    BY <2>3, <2>4, <2>5, <2>6 DEF G!GiveUp, G!Among
  <2> QED BY <2>7 DEF G!GateNext
<1> QED BY <1>1, <1>2 DEF HangUp, Held

(* handle_rpc implements the gate: whatever hangs up where and whatever is      *)
(* refused after its wait, the longest waiting goes in next, as soon as         *)
(* somebody leaves.                                                           *)
THEOREM ImplementsGate == Spec => RefinesGate
<1>1. Init => G!GateInit
  <2> SUFFICES ASSUME Init PROVE G!GateInit
    OBVIOUS
  <2>1. queue = << >> /\ DOMAIN queue = {} /\ Holders = {}
    BY DEF Init, Holders
  <2>2. Queued = {} /\ Ahead(queue) = {}
    BY <2>1 DEF Queued, Ahead, Before
  <2> QED BY <2>1, <2>2 DEF G!GateInit
<1>2. IInv /\ [Next]_vars => [G!GateNext]_(G!gateVars)
  <2> SUFFICES ASSUME IInv, [Next]_vars PROVE G!GateNext \/ UNCHANGED G!gateVars
    OBVIOUS
  <2>1. ASSUME NEW r \in Requests, NEW body \in Bodies, Arrive(r, body)
        PROVE  UNCHANGED G!gateVars
    <3>1. queue' = queue /\ Holders' = Holders
      BY <2>1, Basics DEF Arrive, Inside, TypeOK, Holders
    <3> QED BY <3>1, NobodyMoves
  <2>2. ASSUME NEW r \in Requests, RejectEarly(r) PROVE UNCHANGED G!gateVars
    <3>1. queue' = queue /\ Holders' = Holders
      BY <2>2, Basics DEF RejectEarly, Answer, TypeOK, Holders
    <3> QED BY <3>1, NobodyMoves
  <2>3. ASSUME NEW r \in Requests, Acquire(r) PROVE G!GateNext
    BY <2>3, AcquireEnters
  <2>4. ASSUME NEW r \in Requests, Refuse(r) \/ Respond(r) PROVE G!GateNext
    <3>1. /\ req[r].at \in Held
          /\ \E answer \in Answers : Leave(r, answer)
      BY <2>4 DEF Refuse, Respond, Held, Answers
    <3> QED BY <3>1, LeaveDeparts
  <2>5. ASSUME NEW r \in Requests, Forward(r) PROVE UNCHANGED G!gateVars
    <3>1. queue' = queue /\ Holders' = Holders
      BY <2>5, Basics DEF Forward, TypeOK, Holders
    <3> QED BY <3>1, NobodyMoves
  <2>6. ASSUME NEW r \in Requests, HangUp(r) PROVE G!GateNext
    BY <2>6, HangUpGivesUp
  <2>7. CASE UNCHANGED <<req, queue>>
    BY <2>7 DEF G!gateVars, Holders, Queued
  <2>8. ASSUME NEW limit \in BatchLimits, ReloadLimit(limit) PROVE UNCHANGED <<req, queue>>
    BY <2>8 DEF ReloadLimit
  <2>9. UNCHANGED vars => UNCHANGED <<req, queue>>
    BY DEF vars
  <2> QED BY <2>1, <2>2, <2>3, <2>4, <2>5, <2>6, <2>7, <2>8, <2>9 DEF Next
<1> QED BY <1>1, <1>2, InvariantHolds, PTL DEF Spec, RefinesGate, G!GateSpec
=============================================================================
