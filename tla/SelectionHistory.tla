-------------------------- MODULE SelectionHistory --------------------------
(* Selection with what its promises are about: what has been so since a        *)
(* selection began.                                                           *)
EXTENDS Selection

\* For each thread, since its selection began: the candidates whose limiter
\* could have served it at every moment so far, and whether no cost and no
\* timestamp has changed, not even in the middle of a sort so that it shows.
VARIABLES able, quiet

allVars == <<vars, able, quiet>>

Trying(t) == sel[t].at = "try"

HistoryInit ==
    /\ Init
    /\ able = [t \in Threads |-> {}]
    /\ quiet = [t \in Threads |-> TRUE]

AbleNow(t) ==
    CASE sel'[t].at = "try" /\ ~ Trying(t) -> {u \in Candidates : Grants(u, sel'[t].n)}
      [] sel'[t].at = "try" /\ Trying(t) ->
            {u \in able[t] : u \in Unlimited \/ tokens'[u] >= sel[t].n}
      [] sel'[t].at = "idle" -> {}
      [] OTHER -> able[t]

QuietNow(t) ==
    \/ Done(t)
    \/ sel'[t].at = "idle"
    \/ /\ quiet[t] /\ cost' = cost /\ last' = last
       /\ SortDisturbed(t) => SortTier(t)

HistoryNext ==
    /\ Next
    /\ able' = [t \in Threads |-> AbleNow(t)]
    /\ quiet' = [t \in Threads |-> QuietNow(t)]

HistorySpec == HistoryInit /\ [][HistoryNext]_allVars
FairHistorySpec == HistorySpec /\ Fairness

(* get_next_endpoint never passes over a heavier endpoint that was available  *)
(* and whose limiter had the tokens all the time, whatever other selections   *)
(* took and whatever happened to costs and timestamps meanwhile.              *)
HeaviestServes ==
    \A t \in Threads : sel[t].at = "picked" =>
        \A u \in able[t] : Weight[u] <= Weight[Head(sel[t].order)]

(* select_best_endpoint, tier by tier, is the choice of the first endpoint of *)
(* one ranking over all tiers among those that could serve the request, if    *)
(* nothing the ranking depends on moved under the selection.                  *)
FirstOfRankingServes ==
    \A t \in Threads : sel[t].at = "picked" /\ quiet[t] =>
        LET chosen == Head(sel[t].order) IN
        \A u \in able[t] \ {chosen} :
            Smaller(SelectionKey(chosen, cost, last), SelectionKey(u, cost, last))

(* get_next_endpoint answers None (503 to the client) only if no available    *)
(* endpoint could have served the request throughout the selection.           *)
NoneMeansNobodyCould ==
    \A t \in Threads : sel[t].at = "none" => able[t] = {}
=============================================================================
