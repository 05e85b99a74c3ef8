----------------------------- MODULE Admission ------------------------------
(***************************************************************************)
(* handle_rpc (src/src/main.rs) from the arrival of a body to the answer:    *)
(* the concurrency gauge and its guard, the checks before and after parsing, *)
(* the global semaphore, and the client that may hang up at every await.     *)
(*                                                                         *)
(* The semaphore is tokio's (external): waiters queue up in order, and a     *)
(* released permit is handed to the first of them directly.                  *)
(***************************************************************************)
EXTENDS Naturals, Sequences, FiniteSets

CONSTANTS
    Requests,
    MaxConcurrency,  \* max_concurrency, at least 1 after finalize
    Bodies,          \* the kinds of bodies that arrive
    BatchLimits      \* the values max_batch_size takes, at least 1

(* A body: whether it is a JSON array, whether it parses, the number of its   *)
(* elements (1 if it is no array), and the number of its opening braces,      *)
(* nested ones included.  axum 0.6's extractor hands no body over 2 MB to the *)
(* handler (external), whose own check against 10 MB is therefore never true. *)
Body == [batch : BOOLEAN, parses : BOOLEAN, size : Nat, braces : Nat]

ASSUME AdmissionAssumption ==
    /\ MaxConcurrency \in Nat \ {0}
    /\ Bodies \subseteq Body
    /\ BatchLimits \subseteq Nat \ {0}
    /\ IsFiniteSet(Requests)

VARIABLES
    req,       \* what each request's handler is doing
    queue,     \* the semaphore's waiters, first come first
    free,      \* its free permits
    gauge,     \* CONCURRENCY_ACTIVE_PERMITS
    maxBatch   \* max_batch_size, which a reload may change

vars == <<req, queue, free, gauge, maxBatch>>

(* Inside the handler: "received", "queued", "granted" (has its permit),      *)
(* "forwarding" (waits for the upstream).  Outside: "absent" and the answers, *)
(* "served" for 200 and "gone" for a client that hung up.                     *)
Inside == {"received", "queued", "granted", "forwarding"}
Answers == {"batch_too_large", "bad", "unavailable", "served", "gone"}

InHandler == {r \in Requests : req[r].at \in Inside}
Holders == {r \in Requests : req[r].at \in {"granted", "forwarding"}}
Queued == {queue[i] : i \in DOMAIN queue}

TypeOK ==
    /\ req \in [Requests -> [at : Inside \union Answers \union {"absent"}, body : Bodies]]
    /\ queue \in Seq(Requests)
    /\ free \in 0..MaxConcurrency
    /\ gauge \in Nat
    /\ maxBatch \in BatchLimits

Init ==
    /\ \E body \in Bodies : req = [r \in Requests |-> [at |-> "absent", body |-> body]]
    /\ queue = << >>
    /\ free = MaxConcurrency
    /\ gauge = 0
    /\ maxBatch \in BatchLimits

-----------------------------------------------------------------------------
(* A body arrives and the guard counts the handler. *)
Arrive(r, body) ==
    /\ req[r].at \notin Inside
    /\ req' = [req EXCEPT ![r] = [at |-> "received", body |-> body]]
    /\ gauge' = gauge + 1
    /\ UNCHANGED <<queue, free, maxBatch>>

(* Mutants: the guard is forgotten; the gauge is decremented by hand as well. *)
AnswerUndropped(r, answer) ==
    /\ req' = [req EXCEPT ![r].at = answer]
    /\ gauge' = gauge
AnswerTwice(r, answer) ==
    /\ req' = [req EXCEPT ![r].at = answer]
    /\ gauge' = gauge - 2

(* The handler returns: the guard is dropped. *)
Answer(r, answer) ==
    /\ req' = [req EXCEPT ![r].at = answer]
    /\ gauge' = gauge - 1

(* The check on the raw bytes counts braces, for arrays only. *)
LooksOversized(body) == body.batch /\ body.braces > maxBatch

RejectEarly(r) ==
    /\ req[r].at = "received"
    /\ LooksOversized(req[r].body)
    /\ Answer(r, "batch_too_large")
    /\ UNCHANGED <<queue, free, maxBatch>>

(* acquire_owned: a free permit is taken, otherwise the request queues up. *)
Acquire(r) ==
    /\ req[r].at = "received"
    /\ ~ LooksOversized(req[r].body)
    /\ IF free > 0
       THEN /\ free' = free - 1
            /\ req' = [req EXCEPT ![r].at = "granted"]
            /\ queue' = queue
       ELSE /\ queue' = Append(queue, r)
            /\ req' = [req EXCEPT ![r].at = "queued"]
            /\ free' = free
    /\ UNCHANGED <<gauge, maxBatch>>

(* Mutants of Leave: the permit is lost; the last waiter gets it.              *)
LeaveWithPermit(r, answer) ==
    /\ gauge' = gauge - 1
    /\ req' = [req EXCEPT ![r].at = answer]
    /\ UNCHANGED <<free, queue>>
LeaveToLast(r, answer) ==
    LET n == Len(queue) IN
    /\ gauge' = gauge - 1
    /\ IF n = 0
       THEN /\ free' = free + 1
            /\ req' = [req EXCEPT ![r].at = answer]
            /\ queue' = queue
       ELSE /\ free' = free
            /\ req' = [req EXCEPT ![r].at = answer, ![queue[n]].at = "granted"]
            /\ queue' = SubSeq(queue, 1, n - 1)

(* r leaves with some answer and gives back its permit: to the first waiter,  *)
(* who thereby has it, or to the semaphore.                                   *)
Leave(r, answer) ==
    /\ gauge' = gauge - 1
    /\ IF queue = << >>
       THEN /\ free' = free + 1
            /\ req' = [req EXCEPT ![r].at = answer]
            /\ queue' = queue
       ELSE /\ free' = free
            /\ req' = [req EXCEPT ![r].at = answer, ![Head(queue)].at = "granted"]
            /\ queue' = Tail(queue)

(* The body is parsed and checked again, now by its real size, against the    *)
(* limit of this moment; then an endpoint is selected.                        *)
Refuse(r) ==
    /\ req[r].at = "granted"
    /\ LET body == req[r].body IN
       \/ (~ body.parses \/ body.size = 0) /\ Leave(r, "bad")
       \/ body.parses /\ body.size > maxBatch /\ Leave(r, "batch_too_large")
       \/ body.parses /\ body.size \in 1..maxBatch /\ Leave(r, "unavailable")
    /\ UNCHANGED maxBatch

Forward(r) ==
    /\ req[r].at = "granted"
    /\ req[r].body.parses
    /\ req[r].body.size \in 1..maxBatch
    /\ req' = [req EXCEPT ![r].at = "forwarding"]
    /\ UNCHANGED <<queue, free, gauge, maxBatch>>

(* The upstream's answer, or its error, goes to the client with status 200. *)
Respond(r) ==
    /\ req[r].at = "forwarding"
    /\ Leave(r, "served")
    /\ UNCHANGED maxBatch

(* A queue without its i-th waiter. *)
Without(waiters, i) ==
    [k \in 1..(Len(waiters) - 1) |-> IF k < i THEN waiters[k] ELSE waiters[k + 1]]

(* The client hangs up and the future is dropped where it waits.  A permit    *)
(* that was handed over but not yet seen by the task is given back as well.   *)
HangUp(r) ==
    /\ \/ /\ req[r].at = "queued"
          /\ \E i \in DOMAIN queue : queue[i] = r /\ queue' = Without(queue, i)
          /\ Answer(r, "gone")
          /\ free' = free
       \/ /\ req[r].at \in {"granted", "forwarding"}
          /\ Leave(r, "gone")
    /\ UNCHANGED maxBatch

ReloadLimit(limit) ==
    /\ limit # maxBatch
    /\ maxBatch' = limit
    /\ UNCHANGED <<req, queue, free, gauge>>

Handle(r) == RejectEarly(r) \/ Acquire(r) \/ Refuse(r) \/ Forward(r) \/ Respond(r)

Next ==
    \/ \E r \in Requests, body \in Bodies : Arrive(r, body)
    \/ \E r \in Requests : RejectEarly(r)
    \/ \E r \in Requests : Acquire(r)
    \/ \E r \in Requests : Refuse(r)
    \/ \E r \in Requests : Forward(r)
    \/ \E r \in Requests : Respond(r)
    \/ \E r \in Requests : HangUp(r)
    \/ \E limit \in BatchLimits : ReloadLimit(limit)

Spec == Init /\ [][Next]_vars

(* A handler runs whenever it does not wait, and the HTTP client's timeout    *)
(* ends every wait for an upstream.                                           *)
FairSpec == Spec /\ \A r \in Requests : WF_vars(Handle(r))

-----------------------------------------------------------------------------
(* Permits are neither lost nor invented on any way out of the handler, the   *)
(* client's hanging up at each await included; and the waiters are exactly    *)
(* the handlers that stand before acquire_owned, each in the queue once.      *)
PermitsConserved ==
    /\ free + Cardinality(Holders) = MaxConcurrency
    /\ Queued = {r \in Requests : req[r].at = "queued"}
    /\ Len(queue) = Cardinality(Queued)

(* No handler waits while a permit is free.                                   *)
NoIdlePermit == queue # << >> => free = 0

(* The gauge counts the handlers that have not returned: the guard is dropped *)
(* exactly once on every way out, early returns and hang-ups included.        *)
GaugeCountsHandlers == gauge = Cardinality(InHandler)

(* The handlers implement the abstract gate: a permit goes to the request that  *)
(* has waited longest and to nobody else, and one that hangs up in the middle   *)
(* of the queue costs nobody a place (handle_rpc's acquire_owned, the permit's  *)
(* drop on every way out).                                                     *)
Before(line, r, s) == \E i, j \in DOMAIN line : i < j /\ line[i] = r /\ line[j] = s
Ahead(line) == {p \in Requests \X Requests : Before(line, p[1], p[2])}

G == INSTANCE Gate WITH
        Guests <- Requests,
        Capacity <- MaxConcurrency,
        inside <- Holders,
        waiting <- Queued,
        ahead <- Ahead(queue)

RefinesGate == G!GateSpec

(* A request that waits for a permit does not wait for ever, however many     *)
(* others arrive: it is answered, or its client hangs up.                     *)
EveryRequestEnds ==
    \A r \in Requests : req[r].at \in Inside ~> req[r].at \in Answers
=============================================================================
