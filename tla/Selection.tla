----------------------------- MODULE Selection ------------------------------
(***************************************************************************)
(* Concurrent calls of get_next_endpoint (src/src/balancer.rs) through       *)
(* select_best_endpoint (src/src/strategy.rs).  All selectors hold the read  *)
(* locks of the endpoints and of the limiters together, so they interleave   *)
(* between the filter, the sort of a tier, each reservation (a limiter has a  *)
(* mutex of its own) and the final store of last_selected.  What writers of  *)
(* the endpoints do is only possible while nobody selects; costs are atomics *)
(* that finishing requests update under the same read lock, at any time, the *)
(* middle of a sort included.                                               *)
(***************************************************************************)
EXTENDS Strategy, Sequences

CONSTANTS
    Threads,
    Burst,       \* burst_size of every endpoint: what its limiter can hold
    BatchSizes,  \* the batch sizes of requests; handle_rpc rejects 0
    Costs,       \* the values get_total_cost takes
    Unlimited,   \* endpoints that have no limiter (a reload can leave some)
    MaxNow       \* bound of the clock

ASSUME SelectionAssumption ==
    /\ Burst \in [Urls -> Nat \ {0}]
    /\ BatchSizes \subseteq Nat \ {0}
    /\ Costs \subseteq Nat /\ Costs # {}
    /\ Unlimited \subseteq Urls
    /\ MaxNow \in Nat \ {0}

VARIABLES
    available,      \* the endpoints for which is_available() holds
    tokens,         \* what each limiter could grant at once (external, GCRA)
    cost, last,     \* total cost, where a selection reads it, and last_selected
    now,            \* the clock, in whole seconds
    sel             \* what each thread's selection is doing

Costed == {u \in Urls : UsesCost(Tier(u))}

vars == <<available, tokens, cost, last, now, sel>>

NoSelection == [at |-> "idle", n |-> 0, order |-> << >>, later |-> {}]

(* "try" has the rest of a tier in `order` and the tiers after it in `later`, *)
(* "picked" has its tokens; "none" is an idle thread whose last selection     *)
(* found nobody.                                                              *)
Phases == {"idle", "try", "picked", "none"}
Done(t) == sel[t].at \in {"idle", "none"}

TypeOK ==
    /\ available \subseteq Urls
    /\ \A u \in Urls : tokens[u] \in 0..Burst[u]
    /\ cost \in [Costed -> Costs]
    /\ last \in [Urls -> 0..MaxNow]
    /\ now \in 1..MaxNow
    /\ DOMAIN tokens = Urls
    /\ DOMAIN sel = Threads
    /\ \A t \in Threads :
         /\ sel[t].at \in Phases
         /\ sel[t].n \in BatchSizes \union {0}
         /\ sel[t].order \in Seq(Urls)
         /\ sel[t].later \subseteq Urls

Init ==
    /\ available = Urls
    /\ tokens = Burst
    /\ cost \in [Costed -> Costs]
    /\ last = [u \in Urls |-> 0]
    /\ now = 1
    /\ sel = [t \in Threads |-> NoSelection]

-----------------------------------------------------------------------------
Candidates == {u \in available : Weight[u] > 0}

Finish(t, at) == sel' = [sel EXCEPT ![t] = [NoSelection EXCEPT !.at = at]]

(* The read locks are taken and the available endpoints collected by tier;    *)
(* without any the selection is over at once.                                 *)
Begin(t, n) ==
    /\ Done(t)
    /\ IF Candidates = {}
       THEN Finish(t, "none")
       ELSE sel' = [sel EXCEPT ![t] =
                      [at |-> "try", n |-> n, order |-> << >>, later |-> Candidates]]
    /\ UNCHANGED <<available, tokens, cost, last, now>>

(* Mutant: the tiers are tried from the last one up. *)
WorstTier(S) == {u \in S : \A v \in S : Tier(u) >= Tier(v)}

BestTier(S) == {u \in S : \A v \in S : Tier(u) <= Tier(v)}

(* Mutant: the tiers after the first one that has candidates are forgotten. *)
SortOnlyTier(t) ==
    /\ sel[t].at = "try"
    /\ sel[t].order = << >>
    /\ sel[t].later # {}
    /\ \E order \in SelectionOrders(BestTier(sel[t].later), cost, last) :
           sel' = [sel EXCEPT ![t].order = order, ![t].later = {}]
    /\ UNCHANGED <<available, tokens, cost, last, now>>

(* The next tier that has candidates is sorted with the costs and timestamps  *)
(* of this moment.                                                            *)
SortTier(t) ==
    /\ sel[t].at = "try"
    /\ sel[t].order = << >>
    /\ sel[t].later # {}
    /\ \E order \in SelectionOrders(BestTier(sel[t].later), cost, last) :
           sel' = [sel EXCEPT ![t].order = order, ![t].later = @ \ BestTier(@)]
    /\ UNCHANGED <<available, tokens, cost, last, now>>

(* The comparator reads the costs and timestamps anew each time, and they      *)
(* change between two comparisons: a finishing request stores a cost, or       *)
(* another selection, about to store its timestamp, does so before the sort    *)
(* ends.  Ties in weight may then come out in any order.                       *)
SortDisturbed(t) ==
    /\ sel[t].at = "try"
    /\ sel[t].order = << >>
    /\ sel[t].later # {}
    /\ \/ BestTier(sel[t].later) \subseteq Costed
       \/ \E r \in Threads \ {t} : sel[r].at = "picked"
    /\ \E order \in WeighedOrders(BestTier(sel[t].later)) :
           sel' = [sel EXCEPT ![t].order = order, ![t].later = @ \ BestTier(@)]
    /\ UNCHANGED <<available, tokens, cost, last, now>>

(* Mutant: what the limiter says is ignored. *)
GrantsAnything(u, n) == TRUE

(* check_n on the endpoint's limiter: all n tokens or none, and never more    *)
(* than the burst.  An endpoint without a limiter is never refused.           *)
Grants(u, n) == u \in Unlimited \/ tokens[u] >= n

Reserve(t) ==
    /\ sel[t].at = "try"
    /\ sel[t].order # << >>
    /\ LET u == Head(sel[t].order) IN
       IF Grants(u, sel[t].n)
       THEN /\ tokens' = [tokens EXCEPT ![u] = IF u \in Unlimited THEN @ ELSE @ - sel[t].n]
            /\ sel' = [sel EXCEPT ![t].at = "picked", ![t].order = <<u>>, ![t].later = {}]
       ELSE /\ tokens' = tokens
            /\ sel' = [sel EXCEPT ![t].order = Tail(@)]
    /\ UNCHANGED <<available, cost, last, now>>

(* Everybody in every tier has refused. *)
GiveUp(t) ==
    /\ sel[t].at = "try"
    /\ sel[t].order = << >>
    /\ sel[t].later = {}
    /\ Finish(t, "none")
    /\ UNCHANGED <<available, tokens, cost, last, now>>

(* last_selected is stored and the locks are released. *)
Store(t) ==
    /\ sel[t].at = "picked"
    /\ last' = [last EXCEPT ![Head(sel[t].order)] = now]
    /\ Finish(t, "idle")
    /\ UNCHANGED <<available, tokens, cost, now>>

-----------------------------------------------------------------------------
(* The environment: the limiters fill up, the second passes, requests end and *)
(* change costs, a cooldown runs out, a writer takes endpoints out or in.     *)

Refill(u) ==
    /\ tokens[u] < Burst[u]
    /\ tokens' = [tokens EXCEPT ![u] = @ + 1]
    /\ UNCHANGED <<available, cost, last, now, sel>>

Tick ==
    /\ now < MaxNow
    /\ now' = now + 1
    /\ UNCHANGED <<available, tokens, cost, last, sel>>

CostChanges(u) ==
    /\ u \in Costed
    /\ \E c \in Costs \ {cost[u]} : cost' = [cost EXCEPT ![u] = c]
    /\ UNCHANGED <<available, tokens, last, now, sel>>

CooldownEnds(u) ==
    /\ u \notin available
    /\ available' = available \union {u}
    /\ UNCHANGED <<tokens, cost, last, now, sel>>

TakenOut(u) ==
    /\ \A t \in Threads : Done(t)
    /\ available' = available \ {u}
    /\ UNCHANGED <<tokens, cost, last, now, sel>>

Step(t) ==
    \/ \E n \in BatchSizes : Begin(t, n)
    \/ SortTier(t)
    \/ SortDisturbed(t)
    \/ Reserve(t)
    \/ GiveUp(t)
    \/ Store(t)

Environment ==
    \/ \E u \in Urls : Refill(u)
    \/ Tick
    \/ \E u \in Urls : CostChanges(u)
    \/ \E u \in Urls : CooldownEnds(u)
    \/ \E u \in Urls : TakenOut(u)

Next == (\E t \in Threads : Step(t)) \/ Environment

Spec == Init /\ [][Next]_vars

(* Selections run to their end, requests keep coming, limiters fill up.        *)
Fairness ==
    /\ \A t \in Threads : WF_vars(Step(t))
    /\ \A u \in Urls : WF_vars(Refill(u))

(* README.md: the tie-breaker on last_selected prevents starvation, so that   *)
(* of endpoints with equal weights that stay available each is used again     *)
(* and again.                                                                 *)
NoStarvation ==
    \A u, v \in Urls :
        Weight[u] = Weight[v] /\ <>[]({u, v} \subseteq available)
            => (   []<>(\E t \in Threads : sel[t].at = "picked" /\ Head(sel[t].order) = u)
                => []<>(\E t \in Threads : sel[t].at = "picked" /\ Head(sel[t].order) = v))
=============================================================================
