----------------------------- MODULE ReloadProofs -----------------------------
(* The hot reload is type-correct for any number of reloads side by side; if   *)
(* there is one at a time, all that it applies is of one configuration after   *)
(* it, and only between two of its writes an endpoint lacks its limiter,       *)
(* whatever the other tasks do and for any urls, limits and configurations.    *)
(* Every step with its metrics is a step of the reload, and with one reload at  *)
(* a time the metrics fit the list whenever none is under way.                 *)
EXTENDS Gauges, FiniteSetTheorems, TLAPS

(* POST /reload is not sent again before it is answered.                      *)
OneAtATime == \A i, j \in Reloaders : i = j

-----------------------------------------------------------------------------
(* Types.                                                                     *)
Valid == {c \in Configs : c.valid}

Job ==
    {NoJob}
    \union [at : {"compare", "client", "snapshot", "cooldown"}, conf : Valid]
    \union [at : {"endpoints", "limiters"}, conf : Valid,
            eps : Partial(Endpoint), lims : Partial(Limits)]

(* TypeOK, with what a job is said in one set.                                *)
TypeInv ==
    /\ endpoints \in Partial(Endpoint)
    /\ limiters \in Partial(Limits)
    /\ client \in {c.client : c \in Configs}
    /\ cooldown \in {c.cooldown : c \in Configs}
    /\ file \in Configs
    /\ job \in [Reloaders -> Job]
    /\ \A j \in Reloaders : job[j].at \in {"endpoints", "limiters"} =>
                              DOMAIN job[j].eps = DOMAIN job[j].conf.list

LEMMA PartialFunctions ==
    ASSUME NEW S, NEW f
    PROVE  f \in Partial(S) <=> DOMAIN f \subseteq Urls /\ f \in [DOMAIN f -> S]
BY DEF Partial

(* The stages of a reload tell what its record holds.                         *)
LEMMA JobAt ==
    ASSUME TypeInv, NEW j \in Reloaders
    PROVE  /\ job[j] \in Job
           /\ job[j].at \in Phases
           /\ job[j].at = "idle" => job[j] = NoJob
           /\ job[j].at \in {"compare", "client", "snapshot", "cooldown"} =>
                job[j] \in [at : {"compare", "client", "snapshot", "cooldown"}, conf : Valid]
           /\ job[j].at \in {"endpoints", "limiters"} =>
                job[j] \in [at : {"endpoints", "limiters"}, conf : Valid,
                            eps : Partial(Endpoint), lims : Partial(Limits)]
<1>1. job[j] \in Job
  BY DEF TypeInv
<1> QED BY <1>1 DEF Job, NoJob, Phases

LEMMA ConfTyped ==
    ASSUME NEW c \in Valid
    PROVE  /\ c \in Configs /\ c.valid
           /\ DOMAIN c.list \subseteq Urls /\ c.list \in [DOMAIN c.list -> Limits]
BY ReloadAssumption, PartialFunctions DEF Valid

LEMMA TypeInvSuffices == TypeInv => TypeOK
<1> SUFFICES ASSUME TypeInv PROVE TypeOK
  OBVIOUS
<1>1. DOMAIN job = Reloaders
  BY DEF TypeInv
<1>2. ASSUME NEW j \in Reloaders
      PROVE  /\ job[j].at \in Phases
             /\ job[j].at # "idle" => job[j].conf \in Configs /\ job[j].conf.valid
             /\ job[j].at \in {"endpoints", "limiters"} =>
                  /\ job[j].eps \in Partial(Endpoint)
                  /\ job[j].lims \in Partial(Limits)
  BY JobAt DEF Phases, Valid
<1> QED BY <1>1, <1>2 DEF TypeInv, TypeOK

(* The new list and its limiters are well typed.                              *)
LEMMA MergedTyped ==
    ASSUME TypeInv, NEW c \in Valid
    PROVE  /\ Merged(c.list) \in Partial(Endpoint)
           /\ DOMAIN Merged(c.list) = DOMAIN c.list
           /\ \A u \in DOMAIN c.list : Merged(c.list)[u].limit = c.list[u]
<1>1. /\ DOMAIN c.list \subseteq Urls /\ c.list \in [DOMAIN c.list -> Limits]
      /\ endpoints \in [DOMAIN endpoints -> Endpoint] /\ MaxStrikes \in Nat
  BY ConfTyped, PartialFunctions, ReloadAssumption DEF TypeInv
<1>2. ASSUME NEW u \in DOMAIN c.list
      PROVE  Merged(c.list)[u] \in Endpoint /\ Merged(c.list)[u].limit = c.list[u]
  <2>1. CASE u \in DOMAIN endpoints
    <3>1. Merged(c.list)[u] = [endpoints[u] EXCEPT !.limit = c.list[u]]
      BY <2>1 DEF Merged
    <3>2. endpoints[u] \in Endpoint /\ c.list[u] \in Limits
      BY <1>1, <2>1
    <3> QED BY <3>1, <3>2 DEF Endpoint
  <2>2. CASE u \notin DOMAIN endpoints
    <3>1. Merged(c.list)[u] = NewEndpoint(c.list[u])
      BY <2>2 DEF Merged
    <3> QED BY <1>1, <3>1 DEF NewEndpoint, Endpoint
  <2> QED BY <2>1, <2>2
<1>3. DOMAIN Merged(c.list) = DOMAIN c.list /\ Merged(c.list) \in [DOMAIN c.list -> Endpoint]
  BY <1>2 DEF Merged
<1> QED BY <1>1, <1>2, <1>3, PartialFunctions

LEMMA MergedLimitersTyped ==
    ASSUME TypeInv, NEW c \in Valid PROVE MergedLimiters(c.list) \in Partial(Limits)
<1>1. /\ DOMAIN c.list \subseteq Urls /\ c.list \in [DOMAIN c.list -> Limits]
      /\ limiters \in [DOMAIN limiters -> Limits]
  BY ConfTyped, PartialFunctions DEF TypeInv
<1> DEFINE Renewed == {u \in DOMAIN c.list :
                        u \in DOMAIN endpoints => endpoints[u].limit # c.list[u]}
           Kept == (DOMAIN c.list \ Renewed) \intersect DOMAIN limiters
           f == [u \in Renewed \union Kept |-> IF u \in Renewed THEN c.list[u] ELSE limiters[u]]
<1>2. MergedLimiters(c.list) = f
  BY DEF MergedLimiters
<1>3. \A u \in Renewed \union Kept : f[u] \in Limits
  BY <1>1
<1>4. DOMAIN f = Renewed \union Kept /\ f \in [DOMAIN f -> Limits] /\ DOMAIN f \subseteq Urls
  BY <1>1, <1>3
<1> HIDE DEF f
<1> QED BY <1>2, <1>4, PartialFunctions
-----------------------------------------------------------------------------
(* The type invariant is inductive.                                           *)

(* A reload moves to another stage: the other reloads keep what they hold.    *)
LEMMA Moves ==
    ASSUME TypeInv, NEW j \in Reloaders, NEW next \in Job,
           job' = [job EXCEPT ![j] = next],
           next.at \in {"endpoints", "limiters"} => DOMAIN next.eps = DOMAIN next.conf.list
    PROVE  /\ job' \in [Reloaders -> Job]
           /\ job'[j] = next /\ \A i \in Reloaders : i # j => job'[i] = job[i]
           /\ \A i \in Reloaders : job'[i].at \in {"endpoints", "limiters"} =>
                                     DOMAIN job'[i].eps = DOMAIN job'[i].conf.list
<1>1. job \in [Reloaders -> Job]
  BY DEF TypeInv
<1>2. /\ job' \in [Reloaders -> Job]
      /\ job'[j] = next /\ \A i \in Reloaders : i # j => job'[i] = job[i]
  BY <1>1
<1>3. ASSUME NEW i \in Reloaders, job'[i].at \in {"endpoints", "limiters"}
      PROVE  DOMAIN job'[i].eps = DOMAIN job'[i].conf.list
  <2>1. CASE i = j
    BY <1>2, <1>3, <2>1
  <2>2. CASE i # j
    BY <1>2, <1>3, <2>2 DEF TypeInv
  <2> QED BY <2>1, <2>2
<1> QED BY <1>2, <1>3

(* The same for a step that changes no more than the stage.                   *)
LEMMA Restaged ==
    ASSUME TypeInv, NEW j \in Reloaders, NEW at,
           \/ /\ job[j].at \in {"compare", "client"}
              /\ at \in {"client", "snapshot"}
           \/ job[j].at = "endpoints" /\ at = "limiters",
           job' = [job EXCEPT ![j].at = at]
    PROVE  /\ job' \in [Reloaders -> Job]
           /\ job'[j] = [job[j] EXCEPT !.at = at]
           /\ \A i \in Reloaders : i # j => job'[i] = job[i]
           /\ \A i \in Reloaders : job'[i].at \in {"endpoints", "limiters"} =>
                                     DOMAIN job'[i].eps = DOMAIN job'[i].conf.list
<1> DEFINE next == [job[j] EXCEPT !.at = at]
<1>1. job' = [job EXCEPT ![j] = next]
  BY DEF TypeInv
<1>2. next \in Job /\ (next.at \in {"endpoints", "limiters"} =>
                          DOMAIN next.eps = DOMAIN next.conf.list)
  <2>1. CASE job[j].at \in {"compare", "client"} /\ at \in {"client", "snapshot"}
    <3>1. job[j] \in [at : {"compare", "client", "snapshot", "cooldown"}, conf : Valid]
      BY <2>1, JobAt
    <3>2. next \in [at : {"compare", "client", "snapshot", "cooldown"}, conf : Valid]
      BY <2>1, <3>1
    <3>3. next.at = at
      BY <3>1
    <3> HIDE DEF next
    <3> QED BY <2>1, <3>2, <3>3 DEF Job
  <2>2. CASE job[j].at = "endpoints" /\ at = "limiters"
    <3>1. /\ job[j] \in [at : {"endpoints", "limiters"}, conf : Valid,
                         eps : Partial(Endpoint), lims : Partial(Limits)]
          /\ DOMAIN job[j].eps = DOMAIN job[j].conf.list
      BY <2>2, JobAt DEF TypeInv
    <3>2. /\ next \in [at : {"endpoints", "limiters"}, conf : Valid,
                       eps : Partial(Endpoint), lims : Partial(Limits)]
          /\ next.eps = job[j].eps /\ next.conf = job[j].conf
      BY <2>2, <3>1
    <3> HIDE DEF next
    <3> QED BY <3>1, <3>2 DEF Job
  <2> QED BY <2>1, <2>2
<1> HIDE DEF next
<1>3. /\ job' \in [Reloaders -> Job]
      /\ job'[j] = next /\ \A i \in Reloaders : i # j => job'[i] = job[i]
      /\ \A i \in Reloaders : job'[i].at \in {"endpoints", "limiters"} =>
                                DOMAIN job'[i].eps = DOMAIN job'[i].conf.list
  BY <1>1, <1>2, Moves
<1> QED BY <1>3 DEF next

LEMMA InitTyped == Init => TypeInv
<1> SUFFICES ASSUME Init PROVE TypeInv
  OBVIOUS
<1>1. PICK c \in Configs :
        /\ c.valid
        /\ file = c
        /\ endpoints = [u \in DOMAIN c.list |-> NewEndpoint(c.list[u])]
        /\ limiters = c.list /\ client = c.client /\ cooldown = c.cooldown
        /\ job = [j \in Reloaders |-> NoJob]
  BY DEF Init
<1>2. DOMAIN c.list \subseteq Urls /\ c.list \in [DOMAIN c.list -> Limits]
  BY <1>1, ConfTyped DEF Valid
<1>3. endpoints \in Partial(Endpoint)
  <2>1. \A u \in DOMAIN c.list : NewEndpoint(c.list[u]) \in Endpoint
    BY <1>2, ReloadAssumption DEF NewEndpoint, Endpoint
  <2>2. DOMAIN endpoints = DOMAIN c.list /\ endpoints \in [DOMAIN endpoints -> Endpoint]
    BY <1>1, <2>1
  <2> QED BY <1>2, <2>2, PartialFunctions
<1>4. limiters \in Partial(Limits)
  BY <1>1, <1>2, PartialFunctions
<1>5. /\ job \in [Reloaders -> Job]
      /\ \A j \in Reloaders : job[j].at \notin {"endpoints", "limiters"}
  BY <1>1 DEF Job, NoJob
<1> QED BY <1>1, <1>3, <1>4, <1>5 DEF TypeInv

(* The strikes of one endpoint change, and nothing else.                      *)
LEMMA StrikesTyped ==
    ASSUME TypeInv, NEW u \in DOMAIN endpoints, NEW n \in 0..MaxStrikes,
           endpoints' = [endpoints EXCEPT ![u].strikes = n]
    PROVE  /\ endpoints' \in Partial(Endpoint)
           /\ DOMAIN endpoints' = DOMAIN endpoints
           /\ \A v \in DOMAIN endpoints : endpoints'[v].limit = endpoints[v].limit
<1>1. /\ DOMAIN endpoints \subseteq Urls
      /\ endpoints \in [DOMAIN endpoints -> Endpoint]
  BY PartialFunctions DEF TypeInv
<1>2. \A v \in DOMAIN endpoints :
        endpoints'[v] \in Endpoint /\ endpoints'[v].limit = endpoints[v].limit
  BY <1>1 DEF Endpoint
<1>3. DOMAIN endpoints' = DOMAIN endpoints /\ endpoints' \in [DOMAIN endpoints' -> Endpoint]
  BY <1>1, <1>2
<1> QED BY <1>1, <1>2, <1>3, PartialFunctions

LEMMA NextTyped == TypeInv /\ [Next]_vars => TypeInv'
<1> SUFFICES ASSUME TypeInv, [Next]_vars PROVE TypeInv'
  OBVIOUS
<1> USE DEF TypeInv
<1>1. ASSUME NEW j \in Reloaders, Load(j) PROVE TypeInv'
  <2> DEFINE next == [at |-> "compare", conf |-> file]
  <2>1. next \in Job /\ next.at = "compare"
    BY <1>1 DEF Load, Job, Valid
  <2>2. job' = [job EXCEPT ![j] = next]
    BY <1>1 DEF Load
  <2> HIDE DEF next
  <2>3. /\ job' \in [Reloaders -> Job]
        /\ \A i \in Reloaders : job'[i].at \in {"endpoints", "limiters"} =>
                                  DOMAIN job'[i].eps = DOMAIN job'[i].conf.list
    BY <2>1, <2>2, Moves
  <2> QED BY <1>1, <2>3 DEF Load
<1>2. ASSUME NEW j \in Reloaders, CompareClient(j) PROVE TypeInv'
  <2> DEFINE at == IF client # job[j].conf.client THEN "client" ELSE "snapshot"
  <2>1. job' = [job EXCEPT ![j].at = at] /\ at \in {"client", "snapshot"}
        /\ job[j].at = "compare"
    BY <1>2 DEF CompareClient
  <2> HIDE DEF at
  <2>2. /\ job' \in [Reloaders -> Job]
        /\ \A i \in Reloaders : job'[i].at \in {"endpoints", "limiters"} =>
                                  DOMAIN job'[i].eps = DOMAIN job'[i].conf.list
    BY <2>1, Restaged
  <2> QED BY <1>2, <2>2 DEF CompareClient
<1>3. ASSUME NEW j \in Reloaders, WriteClient(j) PROVE TypeInv'
  <2>1. /\ job' = [job EXCEPT ![j].at = "snapshot"] /\ job[j].at = "client"
        /\ client' = job[j].conf.client /\ UNCHANGED <<endpoints, limiters, cooldown, file>>
    BY <1>3 DEF WriteClient
  <2>2. /\ job' \in [Reloaders -> Job]
        /\ \A i \in Reloaders : job'[i].at \in {"endpoints", "limiters"} =>
                                  DOMAIN job'[i].eps = DOMAIN job'[i].conf.list
    BY <2>1, Restaged
  <2>3. job[j].conf \in Configs
    BY <2>1, JobAt DEF Valid
  <2> QED BY <2>1, <2>2, <2>3
<1>4. ASSUME NEW j \in Reloaders, Snapshot(j) PROVE TypeInv'
  <2> DEFINE c == job[j].conf
             next == [at |-> "endpoints", conf |-> c,
                      eps |-> Merged(c.list), lims |-> MergedLimiters(c.list)]
  <2>1. job[j].at = "snapshot" /\ job' = [job EXCEPT ![j] = next]
        /\ UNCHANGED <<endpoints, limiters, client, cooldown, file>>
    BY <1>4 DEF Snapshot
  <2>2. c \in Valid
    BY <2>1, JobAt
  <2>3. /\ Merged(c.list) \in Partial(Endpoint)
        /\ DOMAIN Merged(c.list) = DOMAIN c.list
        /\ MergedLimiters(c.list) \in Partial(Limits)
    BY <2>2, MergedTyped, MergedLimitersTyped
  <2>4. next \in Job /\ DOMAIN next.eps = DOMAIN next.conf.list
    BY <2>2, <2>3 DEF Job
  <2> HIDE DEF next
  <2>5. /\ job' \in [Reloaders -> Job]
        /\ \A i \in Reloaders : job'[i].at \in {"endpoints", "limiters"} =>
                                  DOMAIN job'[i].eps = DOMAIN job'[i].conf.list
    BY <2>1, <2>4, Moves
  <2> QED BY <2>1, <2>5
<1>5. ASSUME NEW j \in Reloaders, WriteEndpoints(j) PROVE TypeInv'
  <2>1. /\ job' = [job EXCEPT ![j].at = "limiters"] /\ job[j].at = "endpoints"
        /\ endpoints' = job[j].eps /\ UNCHANGED <<limiters, client, cooldown, file>>
    BY <1>5 DEF WriteEndpoints
  <2>2. /\ job' \in [Reloaders -> Job]
        /\ \A i \in Reloaders : job'[i].at \in {"endpoints", "limiters"} =>
                                  DOMAIN job'[i].eps = DOMAIN job'[i].conf.list
    BY <2>1, Restaged
  <2>3. job[j].eps \in Partial(Endpoint)
    BY <2>1, JobAt
  <2> QED BY <2>1, <2>2, <2>3
<1>6. ASSUME NEW j \in Reloaders, WriteLimiters(j) PROVE TypeInv'
  <2> DEFINE next == [at |-> "cooldown", conf |-> job[j].conf]
  <2>1. /\ job' = [job EXCEPT ![j] = next] /\ job[j].at = "limiters"
        /\ limiters' = job[j].lims /\ UNCHANGED <<endpoints, client, cooldown, file>>
    BY <1>6 DEF WriteLimiters
  <2>2. job[j].lims \in Partial(Limits) /\ job[j].conf \in Valid
    BY <2>1, JobAt
  <2>3. next \in Job /\ next.at = "cooldown"
    BY <2>2 DEF Job
  <2> HIDE DEF next
  <2>4. /\ job' \in [Reloaders -> Job]
        /\ \A i \in Reloaders : job'[i].at \in {"endpoints", "limiters"} =>
                                  DOMAIN job'[i].eps = DOMAIN job'[i].conf.list
    BY <2>1, <2>3, Moves
  <2> QED BY <2>1, <2>2, <2>4
<1>7. ASSUME NEW j \in Reloaders, WriteCooldown(j) PROVE TypeInv'
  <2>1. /\ job' = [job EXCEPT ![j] = NoJob] /\ job[j].at = "cooldown"
        /\ cooldown' = job[j].conf.cooldown /\ UNCHANGED <<endpoints, limiters, client, file>>
    BY <1>7 DEF WriteCooldown
  <2>2. job[j].conf \in Configs
    BY <2>1, JobAt DEF Valid
  <2>3. NoJob \in Job /\ NoJob.at = "idle"
    BY DEF Job, NoJob
  <2>4. /\ job' \in [Reloaders -> Job]
        /\ \A i \in Reloaders : job'[i].at \in {"endpoints", "limiters"} =>
                                  DOMAIN job'[i].eps = DOMAIN job'[i].conf.list
    BY <2>1, <2>3, Moves
  <2> QED BY <2>1, <2>2, <2>4
<1>8. ASSUME NEW u \in Urls, Penalise(u) PROVE TypeInv'
  <2>1. /\ u \in DOMAIN endpoints /\ endpoints[u].strikes + 1 \in 0..MaxStrikes
        /\ endpoints' = [endpoints EXCEPT ![u].strikes = endpoints[u].strikes + 1]
    <3>1. endpoints \in [DOMAIN endpoints -> Endpoint] /\ MaxStrikes \in Nat
      BY PartialFunctions, ReloadAssumption
    <3>2. u \in DOMAIN endpoints /\ endpoints[u].strikes < MaxStrikes
      BY <1>8 DEF Penalise
    <3>3. endpoints[u].strikes \in Nat
      BY <3>1, <3>2 DEF Endpoint
    <3> QED BY <1>8, <3>1, <3>2, <3>3 DEF Penalise
  <2>2. endpoints' \in Partial(Endpoint)
    BY <2>1, StrikesTyped
  <2> QED BY <1>8, <2>2 DEF Penalise
<1>9. ASSUME NEW u \in Urls, Restore(u) PROVE TypeInv'
  <2>1. /\ u \in DOMAIN endpoints /\ 0 \in 0..MaxStrikes
        /\ endpoints' = [endpoints EXCEPT ![u].strikes = 0]
    BY <1>9, ReloadAssumption DEF Restore
  <2>2. endpoints' \in Partial(Endpoint)
    BY <2>1, StrikesTyped
  <2> QED BY <1>9, <2>2 DEF Restore
<1>10. ASSUME NEW c \in Configs, Edit(c) PROVE TypeInv'
  BY <1>10 DEF Edit
<1>11. ASSUME UNCHANGED vars PROVE TypeInv'
  BY <1>11 DEF vars
<1> QED BY <1>1, <1>2, <1>3, <1>4, <1>5, <1>6, <1>7, <1>8, <1>9, <1>10, <1>11 DEF Next, Work

(* Whatever number of reloads run side by side, and however their steps and    *)
(* those of the other tasks interleave, all that they read and write is typed.  *)
THEOREM TypeCorrect == Spec => []TypeOK
<1>1. Spec => []TypeInv
  BY InitTyped, NextTyped, PTL DEF Spec
<1> QED BY <1>1, TypeInvSuffices, PTL
-----------------------------------------------------------------------------
(* Any number of reloads at a time: no part of an invalid file ever shows.    *)

(* The endpoints are those of the list, with its limits.                      *)
Lists(eps, list) ==
    /\ DOMAIN eps = DOMAIN list
    /\ \A u \in DOMAIN list : eps[u].limit = list[u]

ValidLimits(lims) ==
    \A u \in DOMAIN lims : \E c \in Valid : u \in DOMAIN c.list /\ lims[u] = c.list[u]

(* What is yet to be written is as valid as what is there, however old it is.  *)
PartsInv ==
    /\ TypeInv
    /\ \E c \in Valid : Lists(endpoints, c.list)
    /\ ValidLimits(limiters)
    /\ client \in {c.client : c \in Valid}
    /\ cooldown \in {c.cooldown : c \in Valid}
    /\ \A j \in Reloaders :
         /\ job[j].at = "endpoints" => Lists(job[j].eps, job[j].conf.list)
         /\ job[j].at \in {"endpoints", "limiters"} => ValidLimits(job[j].lims)

LEMMA PartsSuffice == PartsInv => EveryPartIsValid
<1> SUFFICES ASSUME PartsInv PROVE EveryPartIsValid
  OBVIOUS
<1>1. PICK c \in Valid : Lists(endpoints, c.list)
  BY DEF PartsInv
<1> QED BY <1>1 DEF PartsInv, EveryPartIsValid, Valid, Lists, ValidLimits

LEMMA InitParts == Init => PartsInv
<1> SUFFICES ASSUME Init PROVE PartsInv
  OBVIOUS
<1>1. PICK c \in Configs :
        /\ c.valid
        /\ endpoints = [u \in DOMAIN c.list |-> NewEndpoint(c.list[u])]
        /\ limiters = c.list /\ client = c.client /\ cooldown = c.cooldown
        /\ job = [j \in Reloaders |-> NoJob]
  BY DEF Init
<1>2. c \in Valid /\ Lists(endpoints, c.list)
  BY <1>1 DEF Valid, Lists, NewEndpoint
<1>3. ValidLimits(limiters)
  BY <1>1, <1>2 DEF ValidLimits
<1>4. \A j \in Reloaders : job[j].at = "idle"
  BY <1>1 DEF NoJob
<1> QED BY <1>1, <1>2, <1>3, <1>4, InitTyped DEF PartsInv

(* Where a limiter is kept it is as valid as before, where it is new it is the *)
(* file's.                                                                    *)
LEMMA MergedLimitersValid ==
    ASSUME ValidLimits(limiters), NEW c \in Valid PROVE ValidLimits(MergedLimiters(c.list))
<1> DEFINE Renewed == {u \in DOMAIN c.list :
                        u \in DOMAIN endpoints => endpoints[u].limit # c.list[u]}
           Kept == (DOMAIN c.list \ Renewed) \intersect DOMAIN limiters
           f == [u \in Renewed \union Kept |-> IF u \in Renewed THEN c.list[u] ELSE limiters[u]]
<1>1. MergedLimiters(c.list) = f
  BY DEF MergedLimiters
<1>2. ASSUME NEW u \in DOMAIN f
      PROVE  \E d \in Valid : u \in DOMAIN d.list /\ f[u] = d.list[u]
  <2>1. CASE u \in Renewed
    BY <2>1
  <2>2. CASE u \notin Renewed
    <3>1. u \in DOMAIN limiters /\ f[u] = limiters[u]
      BY <1>2, <2>2
    <3> QED BY <3>1 DEF ValidLimits
  <2> QED BY <2>1, <2>2
<1> HIDE DEF f
<1> QED BY <1>1, <1>2 DEF ValidLimits

(* What one step can do to the record of one reload.                          *)
LEMMA StepOfOne ==
    ASSUME TypeInv, [Next]_vars, NEW j \in Reloaders
    PROVE  \/ job'[j] = job[j]
           \/ job'[j].at \notin {"endpoints", "limiters"}
           \/ Snapshot(j)
           \/ WriteEndpoints(j)
<1>1. job \in [Reloaders -> Job]
  BY DEF TypeInv
<1>2. ASSUME NEW i \in Reloaders, Load(i)
      PROVE  job'[j] = job[j] \/ job'[j].at = "compare"
  BY <1>1, <1>2 DEF Load
<1>3. ASSUME NEW i \in Reloaders, CompareClient(i) \/ WriteClient(i)
      PROVE  job'[j] = job[j] \/ job'[j].at \in {"client", "snapshot"}
  <2>1. PICK at \in {"client", "snapshot"} :
          job[i].at \in {"compare", "client"} /\ job' = [job EXCEPT ![i].at = at]
    BY <1>3 DEF CompareClient, WriteClient
  <2>2. job[i] \in [at : {"compare", "client", "snapshot", "cooldown"}, conf : Valid]
    BY <2>1, JobAt
  <2> QED BY <1>1, <2>1, <2>2
<1>4. ASSUME NEW i \in Reloaders, Snapshot(i) PROVE job'[j] = job[j] \/ Snapshot(j)
  BY <1>1, <1>4 DEF Snapshot
<1>5. ASSUME NEW i \in Reloaders, WriteEndpoints(i)
      PROVE  job'[j] = job[j] \/ WriteEndpoints(j)
  BY <1>1, <1>5 DEF WriteEndpoints
<1>6. ASSUME NEW i \in Reloaders, WriteLimiters(i) \/ WriteCooldown(i)
      PROVE  job'[j] = job[j] \/ job'[j].at \in {"cooldown", "idle"}
  BY <1>1, <1>6 DEF WriteLimiters, WriteCooldown, NoJob
<1>7. ASSUME \/ \E u \in Urls : Penalise(u) \/ Restore(u)
             \/ \E c \in Configs : Edit(c)
             \/ UNCHANGED vars
      PROVE  job' = job
  BY <1>7 DEF Penalise, Restore, Edit, vars
<1> QED BY <1>2, <1>3, <1>4, <1>5, <1>6, <1>7 DEF Next, Work

(* The snapshot of a reload and its first write, as its record shows them.      *)
LEMMA SnapshotRecords ==
    ASSUME TypeInv, NEW j \in Reloaders, Snapshot(j)
    PROVE  /\ job[j].at = "snapshot" /\ job[j].conf \in Valid
           /\ job'[j].at = "endpoints" /\ job'[j].conf = job[j].conf
           /\ job'[j].eps = Merged(job[j].conf.list)
           /\ job'[j].lims = MergedLimiters(job[j].conf.list)
           /\ UNCHANGED <<endpoints, limiters, client, cooldown>>
<1>1. job[j].at = "snapshot" /\ job \in [Reloaders -> Job]
  BY DEF Snapshot, TypeInv
<1> QED BY <1>1, JobAt DEF Snapshot

LEMMA WriteEndpointsRecords ==
    ASSUME TypeInv, NEW j \in Reloaders, WriteEndpoints(j)
    PROVE  /\ job[j].at = "endpoints" /\ job[j].conf \in Valid
           /\ job'[j].at = "limiters" /\ job'[j].conf = job[j].conf
           /\ job'[j].lims = job[j].lims
           /\ endpoints' = job[j].eps /\ UNCHANGED <<limiters, client, cooldown>>
<1>1. job[j].at = "endpoints" /\ job' = [job EXCEPT ![j].at = "limiters"]
  BY DEF WriteEndpoints
<1>2. job'[j] = [job[j] EXCEPT !.at = "limiters"]
  BY <1>1, Restaged
<1>3. job[j] \in [at : {"endpoints", "limiters"}, conf : Valid,
                  eps : Partial(Endpoint), lims : Partial(Limits)]
  BY <1>1, JobAt
<1> QED BY <1>1, <1>2, <1>3 DEF WriteEndpoints

LEMMA NextParts == PartsInv /\ [Next]_vars => PartsInv'
<1> SUFFICES ASSUME PartsInv, [Next]_vars PROVE PartsInv'
  OBVIOUS
<1>1. TypeInv /\ TypeInv'
  BY NextTyped DEF PartsInv
<1>2. ASSUME NEW j \in Reloaders
      PROVE  /\ job'[j].at = "endpoints" => Lists(job'[j].eps, job'[j].conf.list)
             /\ job'[j].at \in {"endpoints", "limiters"} => ValidLimits(job'[j].lims)
  <2>1. CASE job'[j] = job[j] \/ job'[j].at \notin {"endpoints", "limiters"}
    BY <2>1 DEF PartsInv
  <2>2. CASE Snapshot(j)
    <3>1. /\ job[j].conf \in Valid
          /\ job'[j].conf = job[j].conf /\ job'[j].eps = Merged(job[j].conf.list)
          /\ job'[j].lims = MergedLimiters(job[j].conf.list)
      BY <1>1, <2>2, SnapshotRecords
    <3>2. Lists(Merged(job[j].conf.list), job[j].conf.list)
      BY <1>1, <3>1, MergedTyped DEF Lists
    <3>3. ValidLimits(MergedLimiters(job[j].conf.list))
      BY <3>1, MergedLimitersValid DEF PartsInv
    <3> QED BY <3>1, <3>2, <3>3
  <2>3. CASE WriteEndpoints(j)
    <3>1. job[j].at = "endpoints" /\ job'[j].at = "limiters" /\ job'[j].lims = job[j].lims
      BY <1>1, <2>3, WriteEndpointsRecords
    <3> QED BY <3>1 DEF PartsInv
  <2> QED BY <1>1, <2>1, <2>2, <2>3, StepOfOne
<1> DEFINE Parts(e, l, cl, cd) ==
             /\ \E c \in Valid : Lists(e, c.list)
             /\ ValidLimits(l)
             /\ cl \in {c.client : c \in Valid}
             /\ cd \in {c.cooldown : c \in Valid}
<1>3. Parts(endpoints, limiters, client, cooldown)
  BY DEF PartsInv
<1>4. Parts(endpoints', limiters', client', cooldown')
  <2>1. ASSUME NEW j \in Reloaders, Load(j) \/ CompareClient(j) \/ Snapshot(j)
        PROVE  UNCHANGED <<endpoints, limiters, client, cooldown>>
    BY <2>1 DEF Load, CompareClient, Snapshot
  <2>2. ASSUME NEW j \in Reloaders, WriteClient(j)
        PROVE  Parts(endpoints', limiters', client', cooldown')
    <3>1. job[j].at = "client" /\ client' = job[j].conf.client
          /\ UNCHANGED <<endpoints, limiters, cooldown>>
      BY <2>2 DEF WriteClient
    <3>2. job[j].conf \in Valid
      BY <1>1, <3>1, JobAt
    <3> QED BY <1>3, <3>1, <3>2
  <2>3. ASSUME NEW j \in Reloaders, WriteEndpoints(j)
        PROVE  Parts(endpoints', limiters', client', cooldown')
    <3>1. /\ job[j].at = "endpoints" /\ job[j].conf \in Valid
          /\ endpoints' = job[j].eps /\ UNCHANGED <<limiters, client, cooldown>>
      BY <1>1, <2>3, WriteEndpointsRecords
    <3>2. Lists(endpoints', job[j].conf.list)
      BY <3>1 DEF PartsInv
    <3> QED BY <1>3, <3>1, <3>2
  <2>4. ASSUME NEW j \in Reloaders, WriteLimiters(j)
        PROVE  Parts(endpoints', limiters', client', cooldown')
    <3>1. /\ job[j].at = "limiters" /\ limiters' = job[j].lims
          /\ UNCHANGED <<endpoints, client, cooldown>>
      BY <2>4 DEF WriteLimiters
    <3>2. ValidLimits(limiters')
      BY <3>1 DEF PartsInv
    <3> QED BY <1>3, <3>1, <3>2
  <2>5. ASSUME NEW j \in Reloaders, WriteCooldown(j)
        PROVE  Parts(endpoints', limiters', client', cooldown')
    <3>1. job[j].at = "cooldown" /\ cooldown' = job[j].conf.cooldown
          /\ UNCHANGED <<endpoints, limiters, client>>
      BY <2>5 DEF WriteCooldown
    <3>2. job[j].conf \in Valid
      BY <1>1, <3>1, JobAt
    <3> QED BY <1>3, <3>1, <3>2
  <2>6. ASSUME NEW u \in Urls, Penalise(u) \/ Restore(u)
        PROVE  Parts(endpoints', limiters', client', cooldown')
    <3>1. PICK n : endpoints' = [endpoints EXCEPT ![u].strikes = n]
      BY <2>6 DEF Penalise, Restore
    <3>2. endpoints \in [DOMAIN endpoints -> Endpoint]
      BY <1>1, PartialFunctions DEF TypeInv
    <3>3. /\ DOMAIN endpoints' = DOMAIN endpoints
          /\ \A v \in DOMAIN endpoints : endpoints'[v].limit = endpoints[v].limit
      BY <3>1, <3>2 DEF Endpoint
    <3>4. PICK c \in Valid : Lists(endpoints, c.list)
      BY <1>3
    <3>5. Lists(endpoints', c.list)
      BY <3>3, <3>4 DEF Lists
    <3>6. UNCHANGED <<limiters, client, cooldown>>
      BY <2>6 DEF Penalise, Restore
    <3> QED BY <1>3, <3>5, <3>6
  <2>7. ASSUME (\E c \in Configs : Edit(c)) \/ UNCHANGED vars
        PROVE  UNCHANGED <<endpoints, limiters, client, cooldown>>
    BY <2>7 DEF Edit, vars
  <2>8. ASSUME UNCHANGED <<endpoints, limiters, client, cooldown>>
        PROVE  Parts(endpoints', limiters', client', cooldown')
    BY <1>3, <2>8
  <2> HIDE DEF Parts
  <2> QED BY <2>1, <2>2, <2>3, <2>4, <2>5, <2>6, <2>7, <2>8 DEF Next, Work
<1> QED BY <1>1, <1>2, <1>4 DEF PartsInv

(* A file with an error never shows, and the list is always that of one file,   *)
(* however many reloads overtake each other between their writes.              *)
THEOREM EveryPartAlwaysValid == Spec => []EveryPartIsValid
<1>1. Spec => []PartsInv
  BY InitParts, NextParts, PTL DEF Spec
<1> QED BY <1>1, PartsSuffice, PTL

-----------------------------------------------------------------------------
(* One reload at a time leaves all it applies of one configuration behind.     *)

(* What reload has established at each of its stages.                         *)
Progress(j) ==
    /\ job[j].at \in {"compare", "client", "snapshot", "endpoints"} => Lists(endpoints, limiters)
    /\ job[j].at \in {"snapshot", "endpoints", "limiters", "cooldown"} =>
         client = job[j].conf.client
    /\ job[j].at = "endpoints" => Lists(job[j].eps, job[j].conf.list)
    /\ job[j].at \in {"endpoints", "limiters"} => job[j].lims = job[j].conf.list
    /\ job[j].at \in {"limiters", "cooldown"} => Lists(endpoints, job[j].conf.list)
    /\ job[j].at = "cooldown" => limiters = job[j].conf.list

ReloadInv ==
    /\ TypeInv
    /\ OneConfigurationAtRest
    /\ \A j \in Reloaders : Progress(j)

(* The limiters built from matching endpoints and limiters are the new ones:  *)
(* where a limiter is kept it has the limit that the file asks for.           *)
LEMMA MergedLimitersFit ==
    ASSUME NEW list, list = [u \in DOMAIN list |-> list[u]], Lists(endpoints, limiters)
    PROVE  MergedLimiters(list) = list
<1> DEFINE Renewed == {u \in DOMAIN list :
                        u \in DOMAIN endpoints => endpoints[u].limit # list[u]}
           Kept == (DOMAIN list \ Renewed) \intersect DOMAIN limiters
           f == [u \in Renewed \union Kept |-> IF u \in Renewed THEN list[u] ELSE limiters[u]]
<1>1. MergedLimiters(list) = f
  BY DEF MergedLimiters
<1>2. ASSUME NEW u \in DOMAIN list
      PROVE  u \in Renewed \union Kept /\ (u \notin Renewed => limiters[u] = list[u])
  BY DEF Lists
<1>3. Renewed \union Kept = DOMAIN list
  BY <1>2
<1>4. DOMAIN f = DOMAIN list /\ \A u \in DOMAIN list : f[u] = list[u]
  BY <1>2, <1>3
<1>5. f = [u \in DOMAIN list |-> list[u]]
  BY <1>2, <1>3
<1> QED BY <1>1, <1>5

LEMMA AppliedLists ==
    ASSUME NEW c PROVE Applied(c) => Lists(endpoints, limiters) /\ Lists(endpoints, c.list)
BY DEF Applied, Lists

(* A step of a task that changes no limit and no reload.                      *)
LEMMA OthersKeep ==
    ASSUME ReloadInv, UNCHANGED <<limiters, client, cooldown, job>>,
           DOMAIN endpoints' = DOMAIN endpoints,
           \A u \in DOMAIN endpoints : endpoints'[u].limit = endpoints[u].limit
    PROVE  OneConfigurationAtRest' /\ \A j \in Reloaders : Progress(j)'
<1>1. ASSUME NEW list, Lists(endpoints, list) PROVE Lists(endpoints', list)
  BY <1>1 DEF Lists
<1>2. ASSUME NEW c, Applied(c) PROVE Applied(c)'
  BY <1>2 DEF Applied
<1>3. OneConfigurationAtRest'
  BY <1>2 DEF ReloadInv, OneConfigurationAtRest, AtRest
<1>4. ASSUME NEW j \in Reloaders PROVE Progress(j)'
  <2>1. Progress(j) /\ job'[j] = job[j] /\ limiters' = limiters /\ client' = client
    BY DEF ReloadInv
  <2> QED BY <2>1, <1>1 DEF Progress
<1> QED BY <1>3, <1>4

LEMMA InitWhole == Init => ReloadInv
<1> SUFFICES ASSUME Init PROVE ReloadInv
  OBVIOUS
<1>1. PICK c \in Configs :
        /\ c.valid
        /\ endpoints = [u \in DOMAIN c.list |-> NewEndpoint(c.list[u])]
        /\ limiters = c.list /\ client = c.client /\ cooldown = c.cooldown
        /\ job = [j \in Reloaders |-> NoJob]
  BY DEF Init
<1>2. DOMAIN endpoints = DOMAIN c.list /\ \A u \in DOMAIN endpoints : endpoints[u].limit = c.list[u]
  BY <1>1 DEF NewEndpoint
<1>3. Applied(c)
  BY <1>1, <1>2 DEF Applied
<1>4. \A j \in Reloaders : Progress(j)
  BY <1>1 DEF Progress, NoJob
<1> QED BY <1>1, <1>3, <1>4, InitTyped DEF ReloadInv, OneConfigurationAtRest

LEMMA NextWhole == ASSUME OneAtATime PROVE ReloadInv /\ [Next]_vars => ReloadInv'
<1> SUFFICES ASSUME ReloadInv, [Next]_vars PROVE ReloadInv'
  OBVIOUS
<1>1. TypeInv /\ TypeInv'
  BY NextTyped DEF ReloadInv
<1> SUFFICES OneConfigurationAtRest' /\ \A j \in Reloaders : Progress(j)'
  BY <1>1 DEF ReloadInv
<1>2. ASSUME NEW j \in Reloaders, job'[j].at # "idle", Progress(j)'
      PROVE  OneConfigurationAtRest' /\ \A i \in Reloaders : Progress(i)'
  BY <1>2 DEF OneAtATime, OneConfigurationAtRest, AtRest
<1>3. ASSUME NEW j \in Reloaders
      PROVE  Progress(j) /\ job[j] \in Job /\ job \in [Reloaders -> Job]
  BY <1>1 DEF ReloadInv, TypeInv
<1>4. ASSUME NEW j \in Reloaders, Load(j) PROVE OneConfigurationAtRest' /\ \A i \in Reloaders : Progress(i)'
  <2>1. job[j].at = "idle" /\ job'[j] = [at |-> "compare", conf |-> file]
        /\ UNCHANGED <<endpoints, limiters>>
    BY <1>3, <1>4 DEF Load
  <2>2. AtRest
    BY <2>1 DEF AtRest, OneAtATime
  <2>3. Lists(endpoints, limiters)
    BY <2>2, AppliedLists DEF ReloadInv, OneConfigurationAtRest
  <2>4. Lists(endpoints', limiters')
    BY <2>1, <2>3
  <2>5. Progress(j)'
    BY <2>1, <2>4 DEF Progress
  <2> QED BY <1>2, <2>1, <2>5
<1>5. ASSUME NEW j \in Reloaders, CompareClient(j)
      PROVE  OneConfigurationAtRest' /\ \A i \in Reloaders : Progress(i)'
  <2> DEFINE at == IF client # job[j].conf.client THEN "client" ELSE "snapshot"
  <2>1. job[j].at = "compare" /\ job' = [job EXCEPT ![j].at = at]
        /\ UNCHANGED <<endpoints, limiters, client>>
    BY <1>5 DEF CompareClient
  <2>2. job'[j] = [job[j] EXCEPT !.at = at] /\ at \in {"client", "snapshot"}
    BY <1>1, <2>1, Restaged
  <2>3. job[j] \in [at : {"compare", "client", "snapshot", "cooldown"}, conf : Valid]
    BY <1>1, <2>1, JobAt
  <2>4. job'[j].at = at /\ job'[j].conf = job[j].conf
    BY <2>2, <2>3
  <2>5. Lists(endpoints, limiters)
    BY <1>3, <2>1 DEF Progress
  <2>6. Lists(endpoints', limiters')
    BY <2>1, <2>5
  <2>7. Progress(j)'
    BY <2>1, <2>2, <2>4, <2>6 DEF Progress
  <2> QED BY <1>2, <2>2, <2>4, <2>7
<1>6. ASSUME NEW j \in Reloaders, WriteClient(j)
      PROVE  OneConfigurationAtRest' /\ \A i \in Reloaders : Progress(i)'
  <2>1. /\ job[j].at = "client" /\ job' = [job EXCEPT ![j].at = "snapshot"]
        /\ client' = job[j].conf.client /\ UNCHANGED <<endpoints, limiters>>
    BY <1>6 DEF WriteClient
  <2>2. job'[j] = [job[j] EXCEPT !.at = "snapshot"]
    BY <1>1, <2>1, Restaged
  <2>3. job[j] \in [at : {"compare", "client", "snapshot", "cooldown"}, conf : Valid]
    BY <1>1, <2>1, JobAt
  <2>4. job'[j].at = "snapshot" /\ job'[j].conf = job[j].conf
    BY <2>2, <2>3
  <2>5. Lists(endpoints, limiters)
    BY <1>3, <2>1 DEF Progress
  <2>6. Lists(endpoints', limiters')
    BY <2>1, <2>5
  <2>7. Progress(j)'
    BY <2>1, <2>4, <2>6 DEF Progress
  <2> QED BY <1>2, <2>4, <2>7
<1>7. ASSUME NEW j \in Reloaders, Snapshot(j)
      PROVE  OneConfigurationAtRest' /\ \A i \in Reloaders : Progress(i)'
  <2> DEFINE c == job[j].conf
             next == [at |-> "endpoints", conf |-> c,
                      eps |-> Merged(c.list), lims |-> MergedLimiters(c.list)]
  <2>1. job[j].at = "snapshot" /\ job' = [job EXCEPT ![j] = next]
        /\ UNCHANGED <<client, endpoints, limiters>>
    BY <1>7 DEF Snapshot
  <2>2. job'[j] = next
    BY <1>3, <2>1
  <2>3. c \in Valid
    BY <1>1, <2>1, JobAt
  <2>4. Lists(Merged(c.list), c.list)
    BY <1>1, <2>3, MergedTyped DEF Lists
  <2>5. Lists(endpoints, limiters) /\ client = c.client
    BY <1>3, <2>1 DEF Progress
  <2>6. c.list = [u \in DOMAIN c.list |-> c.list[u]]
    BY <2>3, ConfTyped
  <2>7. MergedLimiters(c.list) = c.list
    BY <2>5, <2>6, MergedLimitersFit
  <2>8. /\ job'[j].at = "endpoints" /\ job'[j].conf = c
        /\ job'[j].eps = Merged(c.list) /\ job'[j].lims = c.list
    BY <2>2, <2>7
  <2>9. Lists(job'[j].eps, job'[j].conf.list) /\ Lists(endpoints', limiters')
    BY <2>1, <2>4, <2>5, <2>8
  <2> HIDE DEF next
  <2>10. Progress(j)'
    BY <2>1, <2>5, <2>8, <2>9 DEF Progress
  <2> QED BY <1>2, <2>8, <2>10
<1>8. ASSUME NEW j \in Reloaders, WriteEndpoints(j)
      PROVE  OneConfigurationAtRest' /\ \A i \in Reloaders : Progress(i)'
  <2>1. /\ job[j].at = "endpoints" /\ job' = [job EXCEPT ![j].at = "limiters"]
        /\ endpoints' = job[j].eps /\ UNCHANGED <<limiters, client>>
    BY <1>8 DEF WriteEndpoints
  <2>2. job'[j] = [job[j] EXCEPT !.at = "limiters"]
    BY <1>1, <2>1, Restaged
  <2>3. job[j] \in [at : {"endpoints", "limiters"}, conf : Valid,
                    eps : Partial(Endpoint), lims : Partial(Limits)]
    BY <1>1, <2>1, JobAt
  <2>4. /\ job'[j].at = "limiters" /\ job'[j].conf = job[j].conf
        /\ job'[j].lims = job[j].lims
    BY <2>2, <2>3
  <2>5. /\ Lists(job[j].eps, job[j].conf.list) /\ client = job[j].conf.client
        /\ job[j].lims = job[j].conf.list
    BY <1>3, <2>1 DEF Progress
  <2>6. Lists(endpoints', job'[j].conf.list)
    BY <2>1, <2>4, <2>5
  <2>7. Progress(j)'
    BY <2>1, <2>4, <2>5, <2>6 DEF Progress
  <2> QED BY <1>2, <2>4, <2>7
<1>9. ASSUME NEW j \in Reloaders, WriteLimiters(j)
      PROVE  OneConfigurationAtRest' /\ \A i \in Reloaders : Progress(i)'
  <2>1. /\ job[j].at = "limiters" /\ limiters' = job[j].lims
        /\ UNCHANGED <<endpoints, client>>
    BY <1>9 DEF WriteLimiters
  <2>2. job'[j] = [at |-> "cooldown", conf |-> job[j].conf]
    BY <1>3, <1>9 DEF WriteLimiters
  <2>3. job'[j].at = "cooldown" /\ job'[j].conf = job[j].conf
    BY <2>2
  <2>4. /\ Lists(endpoints, job[j].conf.list) /\ client = job[j].conf.client
        /\ job[j].lims = job[j].conf.list
    BY <1>3, <2>1 DEF Progress
  <2>5. Lists(endpoints', job'[j].conf.list)
    BY <2>1, <2>3, <2>4
  <2>6. Progress(j)'
    BY <2>1, <2>3, <2>4, <2>5 DEF Progress
  <2> QED BY <1>2, <2>3, <2>6
<1>10. ASSUME NEW j \in Reloaders, WriteCooldown(j)
      PROVE  OneConfigurationAtRest' /\ \A i \in Reloaders : Progress(i)'
  <2>1. job[j].at = "cooldown" /\ UNCHANGED <<endpoints, limiters, client>>
        /\ cooldown' = job[j].conf.cooldown
    BY <1>10 DEF WriteCooldown
  <2>2. PICK c \in Configs : c = job[j].conf /\ c.valid
    BY <1>1, <2>1, JobAt DEF Valid
  <2>3. job'[j] = NoJob
    BY <1>3, <1>10 DEF WriteCooldown
  <2>4. /\ Lists(endpoints, c.list) /\ client = c.client /\ limiters = c.list
    BY <1>3, <2>1, <2>2 DEF Progress
  <2>5. Applied(c)'
    BY <2>1, <2>2, <2>4 DEF Applied, Lists
  <2>6. Progress(j)'
    BY <2>3 DEF Progress, NoJob
  <2>7. \A i \in Reloaders : Progress(i)'
    BY <2>6 DEF OneAtATime
  <2>8. OneConfigurationAtRest'
    BY <2>2, <2>5 DEF OneConfigurationAtRest
  <2> QED BY <2>7, <2>8
<1>11. ASSUME NEW u \in Urls, Penalise(u) \/ Restore(u)
      PROVE  OneConfigurationAtRest' /\ \A i \in Reloaders : Progress(i)'
  <2>1. PICK n : endpoints' = [endpoints EXCEPT ![u].strikes = n]
    BY <1>11 DEF Penalise, Restore
  <2>2. endpoints \in [DOMAIN endpoints -> Endpoint]
    BY <1>1, PartialFunctions DEF TypeInv
  <2>3. /\ DOMAIN endpoints' = DOMAIN endpoints
        /\ \A v \in DOMAIN endpoints : endpoints'[v].limit = endpoints[v].limit
    BY <2>1, <2>2 DEF Endpoint
  <2>4. UNCHANGED <<limiters, client, cooldown, job>>
    BY <1>11 DEF Penalise, Restore
  <2> QED BY <2>3, <2>4, OthersKeep
<1>12. ASSUME NEW c \in Configs, Edit(c)
      PROVE  OneConfigurationAtRest' /\ \A i \in Reloaders : Progress(i)'
  BY <1>12, OthersKeep DEF Edit
<1>13. ASSUME UNCHANGED vars
      PROVE  OneConfigurationAtRest' /\ \A i \in Reloaders : Progress(i)'
  BY <1>13, OthersKeep DEF vars
<1> QED BY <1>4, <1>5, <1>6, <1>7, <1>8, <1>9, <1>10, <1>11, <1>12, <1>13 DEF Next, Work

(* With one reload at a time, and whatever the file becomes and the other      *)
(* tasks do to the endpoints meanwhile, all that reload applies is of one      *)
(* valid configuration whenever no reload is under way: the endpoints, the     *)
(* limiters, the client and the cooldowns belong together.                     *)
THEOREM WholeConfigurationAtRest ==
    ASSUME OneAtATime PROVE Spec => []OneConfigurationAtRest
<1>1. Init => ReloadInv
  BY InitWhole
<1>2. ReloadInv /\ [Next]_vars => ReloadInv'
  BY NextWhole
<1>3. ReloadInv => OneConfigurationAtRest
  BY DEF ReloadInv
<1> QED BY <1>1, <1>2, <1>3, PTL DEF Spec

(* The list and the limiters fit at every stage but between their two writes.  *)
LEMMA LimitersFitTheList ==
    ASSUME OneAtATime PROVE ReloadInv => LimiterPerEndpoint
<1> SUFFICES ASSUME ReloadInv, \A j \in Reloaders : job[j].at # "limiters"
             PROVE  /\ DOMAIN limiters = DOMAIN endpoints
                    /\ \A u \in DOMAIN endpoints : limiters[u] = endpoints[u].limit
  BY DEF LimiterPerEndpoint
<1>1. Lists(endpoints, limiters)
  <2>1. CASE AtRest
    BY <2>1, AppliedLists DEF ReloadInv, OneConfigurationAtRest
  <2>2. CASE ~ AtRest
    <3>1. PICK j \in Reloaders : job[j].at # "idle"
      BY <2>2 DEF AtRest
    <3>2. job[j].at \in Phases /\ Progress(j)
      BY JobAt DEF ReloadInv
    <3>3. CASE job[j].at = "cooldown"
      BY <3>2, <3>3 DEF Progress
    <3>4. CASE job[j].at # "cooldown"
      BY <3>1, <3>2, <3>4 DEF Progress, Phases
    <3> QED BY <3>3, <3>4
  <2> QED BY <2>1, <2>2
<1> QED BY <1>1 DEF Lists

(* With one reload at a time, every endpoint in the list has the limiter of its *)
(* own limit, and there is no other limiter, except between reload's write of   *)
(* the list and its write of the limiters.                                     *)
THEOREM LimiterAlwaysPerEndpoint ==
    ASSUME OneAtATime PROVE Spec => []LimiterPerEndpoint
<1>1. Init => ReloadInv
  BY InitWhole
<1>2. ReloadInv /\ [Next]_vars => ReloadInv'
  BY NextWhole
<1> QED BY <1>1, <1>2, LimitersFitTheList, PTL DEF Spec

-----------------------------------------------------------------------------
(* The metrics of the endpoints.                                              *)
LEMMA Sizes ==
    ASSUME NEW S \in SUBSET Urls
    PROVE  /\ Cardinality(S) \in 0..Cardinality(Urls)
           /\ \A T \in SUBSET S : Cardinality(T) <= Cardinality(S)
<1>1. IsFiniteSet(Urls) /\ Cardinality(Urls) \in Nat
  BY GaugesAssumption, FS_CardinalityType
<1>2. IsFiniteSet(S) /\ Cardinality(S) <= Cardinality(Urls)
  BY <1>1, FS_Subset
<1>3. Cardinality(S) \in Nat
  BY <1>2, FS_CardinalityType
<1>4. \A T \in SUBSET S : Cardinality(T) <= Cardinality(S)
  BY <1>2, FS_Subset
<1> QED BY <1>1, <1>2, <1>3, <1>4

-----------------------------------------------------------------------------
(* The detailed specification implements the one without metrics.             *)
LEMMA StepsAreReloads == [GaugesNext]_allVars => [Next]_vars
<1> SUFFICES ASSUME [GaugesNext]_allVars PROVE [Next]_vars
  OBVIOUS
<1>1. ASSUME NEW j \in Reloaders, GaugesWork(j) PROVE Work(j) \/ UNCHANGED vars
  BY <1>1 DEF GaugesWork, PlainWork, Compare, Cleanup, SnapshotAndInitialize, WriteTotal,
              CountHealthy, SetHealthy, Work
<1>2. ASSUME NEW j \in Reloaders, GaugesLoad(j) PROVE Load(j)
  BY <1>2 DEF GaugesLoad
<1>3. ASSUME NEW u \in Urls, PenaliseAndSet(u) PROVE Penalise(u)
  BY <1>3 DEF PenaliseAndSet
<1>4. ASSUME UpdateCooldowns \/ UpdateHealthyCount \/ UNCHANGED allVars PROVE UNCHANGED vars
  BY <1>4 DEF UpdateCooldowns, UpdateHealthyCount, allVars
<1> QED BY <1>1, <1>2, <1>3, <1>4 DEF GaugesNext, Next

(* What the metrics add to reload, and to the tasks beside it, disturbs none   *)
(* of it: whatever holds of Reload holds of the program with its metrics.      *)
THEOREM ImplementsReload == GaugesSpec => Spec
<1>1. GaugesInit => Init
  BY DEF GaugesInit
<1> QED BY <1>1, StepsAreReloads, PTL DEF GaugesSpec, Spec

-----------------------------------------------------------------------------
(* Types.                                                                     *)
Book ==
    {NoBook}
    \union [at : {"clean", "count"}]
    \union [at : {"gone"}, urls : SUBSET Urls]
    \union [at : {"counted"}, n : 0..Cardinality(Urls)]

BookTyped ==
    /\ series \subseteq Urls
    /\ total \in 0..Cardinality(Urls)
    /\ healthy \in 0..Cardinality(Urls)
    /\ book \in [Reloaders -> Book]

LEMMA BookAt ==
    ASSUME NEW bk \in Book
    PROVE  /\ bk.at \in {"none", "gone", "clean", "count", "counted"}
           /\ bk.at = "gone" => bk.urls \in SUBSET Urls
           /\ bk.at = "counted" => bk.n \in 0..Cardinality(Urls)
BY DEF Book, NoBook

LEMMA BookTypedSuffices == TypeInv /\ BookTyped => GaugesTypeOK
<1> SUFFICES ASSUME TypeInv, BookTyped PROVE GaugesTypeOK
  OBVIOUS
<1>1. TypeOK
  BY TypeInvSuffices
<1>2. DOMAIN book = Reloaders /\ \A j \in Reloaders : book[j] \in Book
  BY DEF BookTyped
<1> QED BY <1>1, <1>2, BookAt DEF BookTyped, GaugesTypeOK

(* The list and the available endpoints in it are urls.                       *)
LEMMA Listed ==
    ASSUME TypeInv
    PROVE  /\ DOMAIN endpoints \in SUBSET Urls /\ Available \in SUBSET DOMAIN endpoints
           /\ \A j \in Reloaders : job[j].at # "idle" => DOMAIN job[j].conf.list \in SUBSET Urls
<1>1. DOMAIN endpoints \subseteq Urls
  BY PartialFunctions DEF TypeInv
<1>2. ASSUME NEW j \in Reloaders, job[j].at # "idle" PROVE job[j].conf \in Valid
  BY <1>2, JobAt DEF Phases
<1> QED BY <1>1, <1>2, ConfTyped DEF Available

LEMMA GaugesInitTyped == GaugesInit => BookTyped
<1> SUFFICES ASSUME GaugesInit PROVE BookTyped
  OBVIOUS
<1>1. TypeInv
  BY InitTyped DEF GaugesInit
<1>2. DOMAIN endpoints \in SUBSET Urls
  BY <1>1, Listed
<1>3. Cardinality(DOMAIN endpoints) \in 0..Cardinality(Urls)
  BY <1>2, Sizes
<1> QED BY <1>2, <1>3 DEF GaugesInit, BookTyped, Book

LEMMA GaugesNextTyped ==
    TypeInv /\ BookTyped /\ [GaugesNext]_allVars => BookTyped'
<1> SUFFICES ASSUME TypeInv, BookTyped, [GaugesNext]_allVars PROVE BookTyped'
  OBVIOUS
<1>1. /\ DOMAIN endpoints \in SUBSET Urls
      /\ Cardinality(DOMAIN endpoints) \in 0..Cardinality(Urls)
      /\ Cardinality(Available) \in 0..Cardinality(Urls)
  BY Listed, Sizes
<1>2. ASSUME UNCHANGED gaugeVars PROVE BookTyped'
  BY <1>2 DEF gaugeVars, BookTyped
<1>3. ASSUME NEW j \in Reloaders, Compare(j) PROVE BookTyped'
  <2>1. [at |-> "gone", urls |-> Removed(j)] \in Book
    BY <1>1 DEF Book, Removed
  <2> QED BY <1>3, <2>1 DEF Compare, BookTyped
<1>4. ASSUME NEW j \in Reloaders, Cleanup(j) PROVE BookTyped'
  <2>1. [at |-> "clean"] \in Book
    BY DEF Book
  <2> QED BY <1>4, <2>1 DEF Cleanup, BookTyped
<1>5. ASSUME NEW j \in Reloaders, SnapshotAndInitialize(j) PROVE BookTyped'
  <2>1. DOMAIN job[j].conf.list \in SUBSET Urls
    BY <1>5, Listed DEF SnapshotAndInitialize, Snapshot
  <2>2. NoBook \in Book
    BY DEF Book
  <2> QED BY <1>5, <2>1, <2>2 DEF SnapshotAndInitialize, BookTyped
<1>6. ASSUME NEW j \in Reloaders, WriteTotal(j) PROVE BookTyped'
  <2>1. DOMAIN job[j].conf.list \in SUBSET Urls
    BY <1>6, Listed DEF WriteTotal, WriteCooldown
  <2>2. Cardinality(DOMAIN job[j].conf.list) \in 0..Cardinality(Urls)
    BY <2>1, Sizes
  <2>3. [at |-> "count"] \in Book
    BY DEF Book
  <2> QED BY <1>6, <2>2, <2>3 DEF WriteTotal, BookTyped
<1>7. ASSUME NEW j \in Reloaders, CountHealthy(j) PROVE BookTyped'
  <2>1. [at |-> "counted", n |-> Cardinality(Available)] \in Book
    BY <1>1 DEF Book
  <2> QED BY <1>7, <2>1 DEF CountHealthy, BookTyped
<1>8. ASSUME NEW j \in Reloaders, SetHealthy(j) PROVE BookTyped'
  <2>1. book[j].n \in 0..Cardinality(Urls) /\ NoBook \in Book
    BY <1>8, BookAt DEF SetHealthy, BookTyped, Book
  <2> QED BY <1>8, <2>1 DEF SetHealthy, BookTyped
<1>9. ASSUME NEW u \in Urls, PenaliseAndSet(u) PROVE BookTyped'
  BY <1>9 DEF PenaliseAndSet, BookTyped
<1>10. ASSUME UpdateCooldowns PROVE BookTyped'
  BY <1>1, <1>10 DEF UpdateCooldowns, BookTyped
<1>11. ASSUME UpdateHealthyCount PROVE BookTyped'
  BY <1>1, <1>11 DEF UpdateHealthyCount, BookTyped
<1>12. ASSUME NEW j \in Reloaders, GaugesWork(j) PROVE BookTyped'
  BY <1>12, <1>2, <1>3, <1>4, <1>5, <1>6, <1>7, <1>8 DEF GaugesWork, PlainWork
<1> QED BY <1>2, <1>9, <1>10, <1>11, <1>12 DEF GaugesNext, GaugesLoad, allVars

(* However many reloads, updates and marks interleave, the gauges never leave  *)
(* their range and no series belongs to anything but a url.                    *)
THEOREM GaugesTypeCorrect == GaugesSpec => []GaugesTypeOK
<1>1. GaugesInit => TypeInv /\ BookTyped
  BY InitTyped, GaugesInitTyped DEF GaugesInit
<1>2. TypeInv /\ BookTyped /\ [GaugesNext]_allVars => (TypeInv /\ BookTyped)'
  BY StepsAreReloads, NextTyped, GaugesNextTyped
<1> QED BY <1>1, <1>2, BookTypedSuffices, PTL DEF GaugesSpec
-----------------------------------------------------------------------------
(* With one reload at a time the metrics fit the list at rest.                *)

(* What reload and the others have shown of the list at each stage: a series   *)
(* is missing only between the cleanup and the new list, and only those of     *)
(* removed endpoints; the counts are those of the list until it is written.    *)
Shown(j) ==
    /\ book[j].at \in {"gone", "clean"} => job[j].at = "snapshot"
    /\ book[j].at \in {"count", "counted"} => job[j].at = "idle"
    /\ book[j].at = "gone" => book[j].urls = DOMAIN endpoints \ DOMAIN job[j].conf.list
    /\ book[j].at = "clean" => DOMAIN endpoints \intersect DOMAIN job[j].conf.list \subseteq series
    /\ job[j].at = "endpoints" => DOMAIN job[j].conf.list \subseteq series
    /\ job[j].at # "endpoints" /\ book[j].at # "clean" => DOMAIN endpoints \subseteq series
    /\ job[j].at \notin {"limiters", "cooldown"} => total = Cardinality(DOMAIN endpoints)
    /\ job[j].at \notin {"limiters", "cooldown"} /\ book[j].at \notin {"count", "counted"} =>
         healthy <= Cardinality(DOMAIN endpoints)
    /\ book[j].at = "counted" => book[j].n <= Cardinality(DOMAIN endpoints)

AtRestFit == ListedHaveSeries /\ GaugesFitTheList

GaugesInv ==
    /\ ReloadInv
    /\ BookTyped
    /\ AtRestFit
    /\ \A j \in Reloaders : Shown(j)

(* A step that changes neither list nor stage, loses no series and leaves the  *)
(* gauge as it is or at a number of endpoints there are.                       *)
LEMMA OthersFit ==
    ASSUME GaugesInv, UNCHANGED <<job, book, total>>, DOMAIN endpoints' = DOMAIN endpoints,
           series \subseteq series',
           healthy' = healthy \/ healthy' <= Cardinality(DOMAIN endpoints)
    PROVE  AtRestFit' /\ \A j \in Reloaders : Shown(j)'
<1>1. ASSUME NEW j \in Reloaders PROVE Shown(j)'
  <2>1. Shown(j) /\ job'[j] = job[j] /\ book'[j] = book[j]
    BY DEF GaugesInv
  <2> QED BY <2>1 DEF Shown
<1>2. MetricsAtRest' = MetricsAtRest
  BY DEF MetricsAtRest, AtRest
<1>3. ListedHaveSeries'
  BY <1>2 DEF GaugesInv, AtRestFit, ListedHaveSeries
<1>4. GaugesFitTheList'
  BY <1>2 DEF GaugesInv, AtRestFit, GaugesFitTheList
<1> QED BY <1>1, <1>3, <1>4 DEF AtRestFit

LEMMA GaugesInitFit == GaugesInit => GaugesInv
<1> SUFFICES ASSUME GaugesInit PROVE GaugesInv
  OBVIOUS
<1>1. ReloadInv /\ BookTyped
  BY InitWhole, GaugesInitTyped DEF GaugesInit
<1>2. /\ job = [j \in Reloaders |-> NoJob] /\ book = [j \in Reloaders |-> NoBook]
      /\ series = DOMAIN endpoints /\ total = Cardinality(DOMAIN endpoints)
      /\ healthy = Cardinality(DOMAIN endpoints)
  BY DEF GaugesInit, Init
<1>3. Cardinality(DOMAIN endpoints) \in Nat
  BY <1>1, <1>2 DEF BookTyped
<1>4. \A j \in Reloaders : Shown(j)
  BY <1>2, <1>3 DEF Shown, NoJob, NoBook
<1>5. AtRestFit
  BY <1>2, <1>3 DEF AtRestFit, ListedHaveSeries, GaugesFitTheList
<1> QED BY <1>1, <1>4, <1>5 DEF GaugesInv

LEMMA GaugesNextFit ==
    ASSUME OneAtATime PROVE GaugesInv /\ [GaugesNext]_allVars => GaugesInv'
<1> SUFFICES ASSUME GaugesInv, [GaugesNext]_allVars PROVE GaugesInv'
  OBVIOUS
<1>1. ReloadInv /\ ReloadInv' /\ TypeInv /\ BookTyped /\ BookTyped'
  BY StepsAreReloads, NextWhole, GaugesNextTyped DEF GaugesInv, ReloadInv
<1> DEFINE Goal == AtRestFit' /\ \A i \in Reloaders : Shown(i)'
<1> SUFFICES Goal
  BY <1>1 DEF GaugesInv
<1>2. ASSUME NEW j \in Reloaders, Shown(j)' PROVE Goal
  <2>1. \A i \in Reloaders : Shown(i)'
    BY <1>2 DEF OneAtATime
  <2>2. ASSUME MetricsAtRest' PROVE job'[j].at = "idle" /\ book'[j].at = "none"
    BY <2>2 DEF MetricsAtRest, AtRest
  <2>3. AtRestFit'
    BY <1>2, <2>2 DEF Shown, AtRestFit, ListedHaveSeries, GaugesFitTheList
  <2> QED BY <2>1, <2>3
<1>3. ASSUME NEW j \in Reloaders
      PROVE  /\ Shown(j) /\ Progress(j) /\ job[j].at \in Phases
             /\ book[j].at \in {"none", "gone", "clean", "count", "counted"}
             /\ job[j].at \notin {"snapshot", "idle"} => book[j].at = "none"
  <2>1. Shown(j) /\ Progress(j) /\ job[j].at \in Phases
    BY <1>1, JobAt DEF GaugesInv, ReloadInv
  <2>2. book[j].at \in {"none", "gone", "clean", "count", "counted"}
    BY <1>1, BookAt DEF BookTyped
  <2> QED BY <2>1, <2>2 DEF Shown
<1>4. job \in [Reloaders -> Job] /\ book \in [Reloaders -> Book]
  BY <1>1 DEF TypeInv, BookTyped
<1> HIDE DEF Goal
<1>5. ASSUME NEW j \in Reloaders, GaugesLoad(j) PROVE Goal
  <2>1. /\ job[j].at = "idle" /\ book[j].at = "none" /\ book' = book
        /\ UNCHANGED <<endpoints, series, total, healthy>>
    BY <1>5 DEF GaugesLoad, Load, gaugeVars
  <2>2. job'[j].at = "compare"
    BY <1>4, <1>5 DEF GaugesLoad, Load
  <2>3. Shown(j)'
    BY <1>3, <2>1, <2>2 DEF Shown
  <2> QED BY <1>2, <2>3
<1>6. ASSUME NEW j \in Reloaders, PlainWork(j), CompareClient(j) \/ WriteClient(j) PROVE Goal
  <2>1. /\ job[j].at \in {"compare", "client"}
        /\ UNCHANGED <<endpoints, series, total, healthy, book>>
    BY <1>6 DEF PlainWork, CompareClient, WriteClient, gaugeVars
  <2>2. PICK at \in {"client", "snapshot"} : job' = [job EXCEPT ![j].at = at]
    BY <1>6 DEF CompareClient, WriteClient
  <2>3. job'[j] = [job[j] EXCEPT !.at = at]
    BY <1>1, <2>1, <2>2, Restaged
  <2>4. job[j] \in [at : {"compare", "client", "snapshot", "cooldown"}, conf : Valid]
    BY <1>1, <2>1, JobAt
  <2>5. job'[j].at = at
    BY <2>3, <2>4
  <2>6. Shown(j)'
    BY <1>3, <2>1, <2>5 DEF Shown
  <2> QED BY <1>2, <2>6
<1>7. ASSUME NEW j \in Reloaders, PlainWork(j), WriteEndpoints(j) PROVE Goal
  <2>1. /\ job[j].at = "endpoints" /\ job' = [job EXCEPT ![j].at = "limiters"]
        /\ endpoints' = job[j].eps /\ UNCHANGED <<series, total, healthy, book>>
    BY <1>7 DEF PlainWork, WriteEndpoints, gaugeVars
  <2>2. job'[j] = [job[j] EXCEPT !.at = "limiters"]
    BY <1>1, <2>1, Restaged
  <2>3. job[j] \in [at : {"endpoints", "limiters"}, conf : Valid,
                    eps : Partial(Endpoint), lims : Partial(Limits)]
    BY <1>1, <2>1, JobAt
  <2>4. job'[j].at = "limiters"
    BY <2>2, <2>3
  <2>5. DOMAIN endpoints' = DOMAIN job[j].conf.list
    BY <1>1, <2>1 DEF TypeInv
  <2>6. Shown(j)'
    BY <1>3, <2>1, <2>4, <2>5 DEF Shown
  <2> QED BY <1>2, <2>6
<1>8. ASSUME NEW j \in Reloaders, PlainWork(j), WriteLimiters(j) PROVE Goal
  <2>1. job[j].at = "limiters" /\ UNCHANGED <<endpoints, series, total, healthy, book>>
    BY <1>8 DEF PlainWork, WriteLimiters, gaugeVars
  <2>2. job'[j].at = "cooldown"
    BY <1>4, <1>8 DEF WriteLimiters
  <2>3. Shown(j)'
    BY <1>3, <2>1, <2>2 DEF Shown
  <2> QED BY <1>2, <2>3
<1>9. ASSUME NEW j \in Reloaders, Compare(j) PROVE Goal
  <2>1. /\ job[j].at = "snapshot" /\ book[j].at = "none"
        /\ UNCHANGED <<endpoints, job, series, total, healthy>>
    BY <1>9 DEF Compare, vars
  <2>2. book'[j] = [at |-> "gone", urls |-> Removed(j)]
    BY <1>4, <1>9 DEF Compare
  <2>3. book'[j].at = "gone" /\ book'[j].urls = DOMAIN endpoints \ DOMAIN job[j].conf.list
    BY <2>2 DEF Removed
  <2>4. Shown(j)'
    BY <1>3, <2>1, <2>3 DEF Shown
  <2> QED BY <1>2, <2>4
<1>10. ASSUME NEW j \in Reloaders, Cleanup(j) PROVE Goal
  <2>1. /\ book[j].at = "gone" /\ series' = series \ book[j].urls
        /\ UNCHANGED <<endpoints, job, total, healthy>>
    BY <1>10 DEF Cleanup, vars
  <2>2. book'[j].at = "clean"
    BY <1>4, <1>10 DEF Cleanup
  <2>3. /\ job[j].at = "snapshot" /\ DOMAIN endpoints \subseteq series
        /\ book[j].urls = DOMAIN endpoints \ DOMAIN job[j].conf.list
    BY <1>3, <2>1 DEF Shown
  <2>4. DOMAIN endpoints \intersect DOMAIN job[j].conf.list \subseteq series'
    BY <2>1, <2>3
  <2>5. Shown(j)'
    BY <1>3, <2>1, <2>2, <2>3, <2>4 DEF Shown
  <2> QED BY <1>2, <2>5
<1>11. ASSUME NEW j \in Reloaders, SnapshotAndInitialize(j) PROVE Goal
  <2>1. /\ book[j].at = "clean" /\ job[j].at = "snapshot"
        /\ series' = series \union (DOMAIN job[j].conf.list \ DOMAIN endpoints)
        /\ UNCHANGED <<endpoints, total, healthy>>
    BY <1>11 DEF SnapshotAndInitialize, Snapshot
  <2>2. book'[j].at = "none"
    BY <1>4, <1>11 DEF SnapshotAndInitialize, NoBook
  <2>3. job'[j].at = "endpoints" /\ job'[j].conf = job[j].conf
    BY <1>4, <1>11 DEF SnapshotAndInitialize, Snapshot
  <2>4. DOMAIN endpoints \intersect DOMAIN job[j].conf.list \subseteq series
    BY <1>3, <2>1 DEF Shown
  <2>5. DOMAIN job'[j].conf.list \subseteq series'
    BY <2>1, <2>3, <2>4
  <2>6. Shown(j)'
    BY <1>3, <2>1, <2>2, <2>3, <2>5 DEF Shown
  <2> QED BY <1>2, <2>6
<1>12. ASSUME NEW j \in Reloaders, WriteTotal(j) PROVE Goal
  <2>1. /\ job[j].at = "cooldown" /\ total' = Cardinality(DOMAIN job[j].conf.list)
        /\ UNCHANGED <<endpoints, series, healthy>>
    BY <1>12 DEF WriteTotal, WriteCooldown
  <2>2. job'[j].at = "idle" /\ book'[j].at = "count"
    BY <1>4, <1>12 DEF WriteTotal, WriteCooldown, NoJob
  <2>3. DOMAIN endpoints = DOMAIN job[j].conf.list
    BY <1>3, <2>1 DEF Progress, Lists
  <2>4. Shown(j)'
    BY <1>3, <2>1, <2>2, <2>3 DEF Shown
  <2> QED BY <1>2, <2>4
<1>13. ASSUME NEW j \in Reloaders, CountHealthy(j) PROVE Goal
  <2>1. book[j].at = "count" /\ UNCHANGED <<endpoints, job, series, total, healthy>>
    BY <1>13 DEF CountHealthy, vars
  <2>2. book'[j].at = "counted" /\ book'[j].n = Cardinality(Available)
    BY <1>4, <1>13 DEF CountHealthy
  <2>3. Cardinality(Available) <= Cardinality(DOMAIN endpoints)
    BY <1>1, Listed, Sizes
  <2>4. Shown(j)'
    BY <1>3, <2>1, <2>2, <2>3 DEF Shown
  <2> QED BY <1>2, <2>4
<1>14. ASSUME NEW j \in Reloaders, SetHealthy(j) PROVE Goal
  <2>1. /\ book[j].at = "counted" /\ healthy' = book[j].n
        /\ UNCHANGED <<endpoints, job, series, total>>
    BY <1>14 DEF SetHealthy, vars
  <2>2. book'[j].at = "none"
    BY <1>4, <1>14 DEF SetHealthy, NoBook
  <2>3. Shown(j)'
    BY <1>3, <2>1, <2>2 DEF Shown
  <2> QED BY <1>2, <2>3
<1>15. ASSUME NEW u \in Urls, PenaliseAndSet(u) \/ (Restore(u) /\ UNCHANGED gaugeVars) PROVE Goal
  <2>1. /\ DOMAIN endpoints' = DOMAIN endpoints /\ series \subseteq series'
        /\ UNCHANGED <<job, book, total, healthy>>
    BY <1>15 DEF PenaliseAndSet, Penalise, Restore, gaugeVars
  <2> QED BY <2>1, OthersFit DEF Goal
<1>16. ASSUME UpdateHealthyCount PROVE Goal
  <2>1. healthy' <= Cardinality(DOMAIN endpoints)
    BY <1>1, <1>16, Listed, Sizes DEF UpdateHealthyCount
  <2>2. UNCHANGED <<job, book, total, series, endpoints>>
    BY <1>16 DEF UpdateHealthyCount, vars
  <2> QED BY <2>1, <2>2, OthersFit DEF Goal
<1>17. ASSUME \/ UpdateCooldowns
              \/ \E c \in Configs : Edit(c) /\ UNCHANGED gaugeVars
              \/ UNCHANGED allVars
       PROVE  Goal
  <2>1. UNCHANGED <<job, book, total, healthy, endpoints>> /\ series \subseteq series'
    BY <1>17 DEF UpdateCooldowns, Edit, gaugeVars, allVars, vars
  <2> QED BY <2>1, OthersFit DEF Goal
<1>18. ASSUME NEW j \in Reloaders, GaugesWork(j) PROVE Goal
  BY <1>18, <1>6, <1>7, <1>8, <1>9, <1>10, <1>11, <1>12, <1>13, <1>14 DEF GaugesWork, PlainWork
<1> QED BY <1>5, <1>15, <1>16, <1>17, <1>18 DEF GaugesNext

LEMMA GaugesInvariant == ASSUME OneAtATime PROVE GaugesSpec => []GaugesInv
<1>1. GaugesInit => GaugesInv
  BY GaugesInitFit
<1>2. GaugesInv /\ [GaugesNext]_allVars => GaugesInv'
  BY GaugesNextFit
<1> QED BY <1>1, <1>2, PTL DEF GaugesSpec

(* With one reload at a time, every listed endpoint has its series whenever no  *)
(* reload is under way, although the cleanup and the list change in steps of    *)
(* their own and marks, updates and rounds fall between any two of them.        *)
THEOREM ListedAlwaysHaveSeries ==
    ASSUME OneAtATime PROVE GaugesSpec => []ListedHaveSeries
<1>1. GaugesInv => ListedHaveSeries
  BY DEF GaugesInv, AtRestFit
<1> QED BY <1>1, GaugesInvariant, PTL

(* And the total is that of the list then, and no count of a longer list is     *)
(* left in the gauge of healthy endpoints, although it is counted and written   *)
(* in different steps and by several tasks.                                    *)
THEOREM GaugesAlwaysFit ==
    ASSUME OneAtATime PROVE GaugesSpec => []GaugesFitTheList
<1>1. GaugesInv => GaugesFitTheList
  BY DEF GaugesInv, AtRestFit
<1> QED BY <1>1, GaugesInvariant, PTL
=============================================================================
