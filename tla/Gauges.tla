------------------------------- MODULE Gauges -------------------------------
(***************************************************************************)
(* What a scrape of /metrics sees of the endpoints across hot reloads: the   *)
(* series of each endpoint (by its label) and the gauges of how many there   *)
(* are and how many are available.  Every step of Reload goes with what it   *)
(* does to them; reload (src/src/config_reloader.rs) has some steps of its    *)
(* own besides, and so have the updater (src/src/utils/cooldown.rs) and the   *)
(* health loop, which ends its rounds in update_healthy_count                *)
(* (src/src/balancer.rs).                                                    *)
(*                                                                         *)
(* `series` is the family azoth's updater writes, cooldown_seconds, for the   *)
(* six that reload both creates and removes.                                 *)
(***************************************************************************)
EXTENDS Reload, FiniteSets

ASSUME GaugesAssumption == IsFiniteSet(Urls)

VARIABLES
    series,    \* the urls that have a series
    total,     \* TOTAL_ENDPOINTS
    healthy,   \* HEALTHY_ENDPOINTS
    book       \* where each reload is in what it does to the metrics

gaugeVars == <<series, total, healthy, book>>
allVars == <<vars, gaugeVars>>

(* "gone" knows the removed urls, "counted" a number of available endpoints.  *)
NoBook == [at |-> "none"]

GaugesTypeOK ==
    /\ TypeOK
    /\ series \subseteq Urls
    /\ total \in 0..Cardinality(Urls)
    /\ healthy \in 0..Cardinality(Urls)
    /\ DOMAIN book = Reloaders
    /\ \A j \in Reloaders :
         /\ book[j].at \in {"none", "gone", "clean", "count", "counted"}
         /\ book[j].at = "gone" => book[j].urls \subseteq Urls
         /\ book[j].at = "counted" => book[j].n \in 0..Cardinality(Urls)

Available == {u \in DOMAIN endpoints : endpoints[u].strikes = 0}

GaugesInit ==
    /\ Init
    /\ series = DOMAIN endpoints
    /\ total = Cardinality(DOMAIN endpoints)
    /\ healthy = Cardinality(DOMAIN endpoints)
    /\ book = [j \in Reloaders |-> NoBook]

-----------------------------------------------------------------------------
(* The reload. *)

(* Mutant: every current url counts as removed. *)
AllCurrent(j) == DOMAIN endpoints

(* The urls that the new list does not have any more. *)
Removed(j) == DOMAIN endpoints \ DOMAIN job[j].conf.list

(* Under the endpoints' read lock, which is then released. *)
Compare(j) ==
    /\ job[j].at = "snapshot"
    /\ book[j].at = "none"
    /\ book' = [book EXCEPT ![j] = [at |-> "gone", urls |-> Removed(j)]]
    /\ UNCHANGED <<vars, series, total, healthy>>

(* cleanup_endpoint_metrics, while the removed endpoints are still listed. *)
Cleanup(j) ==
    /\ book[j].at = "gone"
    /\ series' = series \ book[j].urls
    /\ book' = [book EXCEPT ![j] = [at |-> "clean"]]
    /\ UNCHANGED <<vars, total, healthy>>

(* initialize_endpoint_metrics for the urls that the list does not have yet. *)
SnapshotAndInitialize(j) ==
    /\ book[j].at = "clean"
    /\ Snapshot(j)
    /\ series' = series \union (DOMAIN job[j].conf.list \ DOMAIN endpoints)
    /\ book' = [book EXCEPT ![j] = NoBook]
    /\ UNCHANGED <<total, healthy>>

(* The last settings are written, and the total. *)
WriteTotal(j) ==
    /\ WriteCooldown(j)
    /\ total' = Cardinality(DOMAIN job[j].conf.list)
    /\ book' = [book EXCEPT ![j] = [at |-> "count"]]
    /\ UNCHANGED <<series, healthy>>

(* Mutant: nothing is counted, the gauge stays as it is. *)
KeepHealthy(j) ==
    /\ book[j].at = "count"
    /\ book' = [book EXCEPT ![j] = [at |-> "counted", n |-> healthy]]
    /\ UNCHANGED <<vars, series, total, healthy>>

(* The available endpoints are counted under the read lock... *)
CountHealthy(j) ==
    /\ book[j].at = "count"
    /\ book' = [book EXCEPT ![j] = [at |-> "counted", n |-> Cardinality(Available)]]
    /\ UNCHANGED <<vars, series, total, healthy>>

(* ... and the gauge is set after it has been released. *)
SetHealthy(j) ==
    /\ book[j].at = "counted"
    /\ healthy' = book[j].n
    /\ book' = [book EXCEPT ![j] = NoBook]
    /\ UNCHANGED <<vars, series, total>>

-----------------------------------------------------------------------------
(* The others. *)

(* trigger_cooldown sets the gauge of the endpoint. *)
PenaliseAndSet(u) ==
    /\ Penalise(u)
    /\ series' = series \union {u}
    /\ UNCHANGED <<total, healthy, book>>

(* The updater, every second: the cooldowns of all listed endpoints. *)
UpdateCooldowns ==
    /\ series' = series \union DOMAIN endpoints
    /\ UNCHANGED <<vars, total, healthy, book>>

(* Mutant: every listed endpoint counts. *)
UpdateCountOfAll ==
    /\ healthy' = Cardinality(DOMAIN endpoints)
    /\ UNCHANGED <<vars, series, total, book>>

(* update_healthy_count, at the end of the updater's turn and of a round of    *)
(* the health loop: the gauge is set under the read lock.                      *)
UpdateHealthyCount ==
    /\ healthy' = Cardinality(Available)
    /\ UNCHANGED <<vars, series, total, book>>

(* The steps of a reload that leave the metrics alone. *)
PlainWork(j) ==
    /\ \/ CompareClient(j)
       \/ WriteClient(j)
       \/ WriteEndpoints(j)
       \/ WriteLimiters(j)
    /\ UNCHANGED gaugeVars

GaugesLoad(j) ==
    /\ book[j].at = "none"
    /\ Load(j)
    /\ UNCHANGED gaugeVars

GaugesWork(j) ==
    \/ PlainWork(j)
    \/ Compare(j)
    \/ Cleanup(j)
    \/ SnapshotAndInitialize(j)
    \/ WriteTotal(j)
    \/ CountHealthy(j)
    \/ SetHealthy(j)

GaugesNext ==
    \/ \E j \in Reloaders : GaugesLoad(j)
    \/ \E j \in Reloaders : GaugesWork(j)
    \/ \E u \in Urls : PenaliseAndSet(u)
    \/ \E u \in Urls : Restore(u) /\ UNCHANGED gaugeVars
    \/ \E c \in Configs : Edit(c) /\ UNCHANGED gaugeVars
    \/ UpdateCooldowns
    \/ UpdateHealthyCount

GaugesSpec == GaugesInit /\ [][GaugesNext]_allVars

(* A reload that has begun runs to its end, the operator asks for one again    *)
(* and again, and the updater's ticker fires every second.                     *)
GaugesFairness ==
    /\ \A j \in Reloaders : WF_allVars(GaugesWork(j)) /\ SF_allVars(GaugesLoad(j))
    /\ WF_allVars(UpdateHealthyCount)

FairGaugesSpec == GaugesSpec /\ GaugesFairness

-----------------------------------------------------------------------------
(* Properties. *)

MetricsAtRest == AtRest /\ \A j \in Reloaders : book[j].at = "none"

(* reload removes series before it changes the list and creates them before    *)
(* that, too; once it is over, every endpoint in the list has its series.      *)
ListedHaveSeries == MetricsAtRest => DOMAIN endpoints \subseteq series

(* The count of available endpoints is taken and written in different steps,   *)
(* by three tasks; once no reload is under way the total is that of the list,  *)
(* and no count taken from an earlier, longer list is left in the other gauge. *)
GaugesFitTheList ==
    MetricsAtRest =>
        /\ total = Cardinality(DOMAIN endpoints)
        /\ healthy <= total

(* Once the number of available endpoints stays what it is, the gauge shows it *)
(* for good, also if reloads go on.                                            *)
HealthyGaugeSettles ==
    \A n \in 0..Cardinality(Urls) :
        <>[](Cardinality(Available) = n) => <>[](healthy = n)
=============================================================================
