------------------------------- MODULE Reload -------------------------------
(***************************************************************************)
(* The hot reload of the configuration (src/src/config_reloader.rs) step by  *)
(* step, next to the tasks that write the endpoints meanwhile.  Nothing      *)
(* holds a lock from the snapshot to the writes, and nothing keeps two       *)
(* POST /reload requests (src/src/main.rs) apart.                            *)
(*                                                                         *)
(* A configuration is what reload applies of one: which endpoints there are   *)
(* and with which rate limit, and two more settings: `client`, the HTTP       *)
(* client's, which reload writes first, and `cooldown`, the balancer's, which *)
(* it writes last.  The max_concurrency and bind_addr of the file are no part *)
(* of it: reload drops them, and they keep their values until a restart.      *)
(***************************************************************************)
EXTENDS Naturals

CONSTANTS
    Urls,
    Limits,      \* the rate limit and burst of an endpoint, as one value
    Configs,     \* the contents the file can have
    Reloaders,   \* the reload requests that can run side by side
    MaxStrikes   \* bound: how many penalties of an endpoint are told apart

Endpoint == [limit : Limits, strikes : 0..MaxStrikes]
Partial(S) == UNION {[D -> S] : D \in SUBSET Urls}

ASSUME ReloadAssumption ==
    /\ MaxStrikes \in Nat \ {0}
    /\ \A c \in Configs : c.valid \in BOOLEAN /\ c.list \in Partial(Limits)
    /\ \E c \in Configs : c.valid

VARIABLES
    endpoints,   \* balancer.endpoints: a function on the urls in the list
    limiters,    \* balancer.rate_limiters: a function on the urls in the map
    client, cooldown,
    file,        \* the configuration file (environment)
    job          \* what each reload request is doing

vars == <<endpoints, limiters, client, cooldown, file, job>>

Phases == {"idle", "compare", "client", "snapshot", "endpoints", "limiters", "cooldown"}

(* conf is the loaded configuration, eps and lims the lists built from it.    *)
NoJob == [at |-> "idle"]

TypeOK ==
    /\ endpoints \in Partial(Endpoint)
    /\ limiters \in Partial(Limits)
    /\ client \in {c.client : c \in Configs}
    /\ cooldown \in {c.cooldown : c \in Configs}
    /\ file \in Configs
    /\ DOMAIN job = Reloaders
    /\ \A j \in Reloaders :
         /\ job[j].at \in Phases
         /\ job[j].at # "idle" => job[j].conf \in Configs /\ job[j].conf.valid
         /\ job[j].at \in {"endpoints", "limiters"} =>
              /\ job[j].eps \in Partial(Endpoint)
              /\ DOMAIN job[j].eps = DOMAIN job[j].conf.list
              /\ job[j].lims \in Partial(Limits)

NewEndpoint(limit) == [limit |-> limit, strikes |-> 0]

(* LoadBalancer::new builds everything from one valid configuration. *)
Init ==
    \E c \in Configs :
        /\ c.valid
        /\ file = c
        /\ endpoints = [u \in DOMAIN c.list |-> NewEndpoint(c.list[u])]
        /\ limiters = c.list
        /\ client = c.client
        /\ cooldown = c.cooldown
        /\ job = [j \in Reloaders |-> NoJob]

-----------------------------------------------------------------------------
(* The reload request. *)

(* Mutant: an invalid file is loaded all the same. *)
LoadAnything(j) ==
    /\ job[j].at = "idle"
    /\ job' = [job EXCEPT ![j] = [at |-> "compare", conf |-> file]]
    /\ UNCHANGED <<endpoints, limiters, client, cooldown, file>>

(* The file is read, completed and validated; an error ends the reload before *)
(* anything is written.                                                       *)
Load(j) ==
    /\ job[j].at = "idle"
    /\ file.valid
    /\ job' = [job EXCEPT ![j] = [at |-> "compare", conf |-> file]]
    /\ UNCHANGED <<endpoints, limiters, client, cooldown, file>>

(* Mutant: the comparison is the wrong way round. *)
CompareClientWrongly(j) ==
    /\ job[j].at = "compare"
    /\ job' = [job EXCEPT ![j].at =
                  IF client = job[j].conf.client THEN "client" ELSE "snapshot"]
    /\ UNCHANGED <<endpoints, limiters, client, cooldown, file>>

CompareClient(j) ==
    /\ job[j].at = "compare"
    /\ job' = [job EXCEPT ![j].at =
                  IF client # job[j].conf.client THEN "client" ELSE "snapshot"]
    /\ UNCHANGED <<endpoints, limiters, client, cooldown, file>>

(* The client and its four settings, each under a lock of its own: one step,  *)
(* for nothing below tells them apart.                                       *)
WriteClient(j) ==
    /\ job[j].at = "client"
    /\ client' = job[j].conf.client
    /\ job' = [job EXCEPT ![j].at = "snapshot"]
    /\ UNCHANGED <<endpoints, limiters, cooldown, file>>

(* The new list: a clone of what is there with the new limit, or a new one.   *)
Merged(list) ==
    [u \in DOMAIN list |->
        IF u \in DOMAIN endpoints
        THEN [endpoints[u] EXCEPT !.limit = list[u]]
        ELSE NewEndpoint(list[u])]

(* Mutant: an endpoint that stays keeps its limiter whatever its new limit. *)
KeptLimiters(list) ==
    [u \in DOMAIN list |-> IF u \in DOMAIN limiters THEN limiters[u] ELSE list[u]]

(* The new limiters: a new one where the endpoint is new or its limit has     *)
(* changed, the old one, if there is one, where it has not.                   *)
MergedLimiters(list) ==
    LET Renewed == {u \in DOMAIN list :
                      u \in DOMAIN endpoints => endpoints[u].limit # list[u]}
        Kept == (DOMAIN list \ Renewed) \intersect DOMAIN limiters
    IN  [u \in Renewed \union Kept |-> IF u \in Renewed THEN list[u] ELSE limiters[u]]

(* Mutant: the limiters are renewed in the map itself, not in a new one. *)
SnapshotInPlace(j) ==
    /\ job[j].at = "snapshot"
    /\ LET list == job[j].conf.list IN
       /\ limiters' = MergedLimiters(list)
       /\ job' = [job EXCEPT ![j] =
                    [at |-> "endpoints", conf |-> job[j].conf,
                     eps |-> Merged(list), lims |-> MergedLimiters(list)]]
    /\ UNCHANGED <<endpoints, client, cooldown, file>>

(* Under the read locks of the endpoints and of the limiters. *)
Snapshot(j) ==
    /\ job[j].at = "snapshot"
    /\ LET list == job[j].conf.list IN
       job' = [job EXCEPT ![j] =
                 [at |-> "endpoints", conf |-> job[j].conf,
                  eps |-> Merged(list), lims |-> MergedLimiters(list)]]
    /\ UNCHANGED <<endpoints, limiters, client, cooldown, file>>

WriteEndpoints(j) ==
    /\ job[j].at = "endpoints"
    /\ endpoints' = job[j].eps
    /\ job' = [job EXCEPT ![j].at = "limiters"]
    /\ UNCHANGED <<limiters, client, cooldown, file>>

WriteLimiters(j) ==
    /\ job[j].at = "limiters"
    /\ limiters' = job[j].lims
    /\ job' = [job EXCEPT ![j] = [at |-> "cooldown", conf |-> job[j].conf]]
    /\ UNCHANGED <<endpoints, client, cooldown, file>>

WriteCooldown(j) ==
    /\ job[j].at = "cooldown"
    /\ cooldown' = job[j].conf.cooldown
    /\ job' = [job EXCEPT ![j] = NoJob]
    /\ UNCHANGED <<endpoints, limiters, client, file>>

-----------------------------------------------------------------------------
(* The others. *)

(* mark_unhealthy, mark_rate_limited or a failed probe; a url that is not in  *)
(* the list any more is ignored.                                              *)
Penalise(u) ==
    /\ u \in DOMAIN endpoints
    /\ endpoints[u].strikes < MaxStrikes
    /\ endpoints' = [endpoints EXCEPT ![u].strikes = @ + 1]
    /\ UNCHANGED <<limiters, client, cooldown, file, job>>

(* The health loop brings an endpoint back, or its cooldown runs out. *)
Restore(u) ==
    /\ u \in DOMAIN endpoints
    /\ endpoints[u].strikes > 0
    /\ endpoints' = [endpoints EXCEPT ![u].strikes = 0]
    /\ UNCHANGED <<limiters, client, cooldown, file, job>>

Edit(c) ==
    /\ c # file
    /\ file' = c
    /\ UNCHANGED <<endpoints, limiters, client, cooldown, job>>

Work(j) ==
    \/ CompareClient(j)
    \/ WriteClient(j)
    \/ Snapshot(j)
    \/ WriteEndpoints(j)
    \/ WriteLimiters(j)
    \/ WriteCooldown(j)

Next ==
    \/ \E j \in Reloaders : Load(j)
    \/ \E j \in Reloaders : Work(j)
    \/ \E u \in Urls : Penalise(u)
    \/ \E u \in Urls : Restore(u)
    \/ \E c \in Configs : Edit(c)

Spec == Init /\ [][Next]_vars

-----------------------------------------------------------------------------
(* Properties. *)

AtRest == \A j \in Reloaders : job[j].at = "idle"

(* All of the configuration that reload applies. *)
Applied(c) ==
    /\ DOMAIN endpoints = DOMAIN c.list
    /\ \A u \in DOMAIN endpoints : endpoints[u].limit = c.list[u]
    /\ limiters = c.list
    /\ client = c.client
    /\ cooldown = c.cooldown

(* With no reload under way, all that reload applies is of one configuration: *)
(* every endpoint has the limiter its limit asks for, and the client and the  *)
(* cooldowns come from the same file (the writes at the end of reload).       *)
OneConfigurationAtRest == AtRest => \E c \in Configs : c.valid /\ Applied(c)

(* The list and the map of limiters are two writes: between them a selection   *)
(* can find an endpoint without its limiter, or with the one of an earlier     *)
(* limit, and at no other time, so not while a list is prepared, marks fall in *)
(* between or the rest is written.                                             *)
LimiterPerEndpoint ==
    (\A j \in Reloaders : job[j].at # "limiters") =>
        /\ DOMAIN limiters = DOMAIN endpoints
        /\ \A u \in DOMAIN endpoints : limiters[u] = endpoints[u].limit

(* A file with an error never shows, not even in part, and the list of         *)
(* endpoints is at every moment that of one file, also while reloads overtake  *)
(* each other (the checks come before the first write, and the list is written *)
(* at once).                                                                  *)
EveryPartIsValid ==
    /\ \E c \in Configs :
         /\ c.valid /\ DOMAIN endpoints = DOMAIN c.list
         /\ \A u \in DOMAIN endpoints : endpoints[u].limit = c.list[u]
    /\ \A u \in DOMAIN limiters :
         \E c \in Configs : c.valid /\ u \in DOMAIN c.list /\ limiters[u] = c.list[u]
    /\ \E c \in Configs : c.valid /\ client = c.client
    /\ \E c \in Configs : c.valid /\ cooldown = c.cooldown

(* Everything that reload applies is in the end as the file says, once that   *)
(* stays as it is and is valid, whatever reload of earlier contents is still  *)
(* under way.  (What reload drops, max_concurrency and bind_addr, is not.)    *)
FileTakesEffect ==
    \A c \in Configs : c.valid => (<>[](file = c) => <>[]Applied(c))
=============================================================================
