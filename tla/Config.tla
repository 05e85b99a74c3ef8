------------------------------- MODULE Config -------------------------------
(***************************************************************************)
(* From a configuration file to the configuration that the balancer runs     *)
(* (src/src/config.rs): try_load_config, then finalize with                  *)
(* validate_and_dedupe_endpoints, whose loop takes the list entry by entry.   *)
(*                                                                         *)
(* A url is told by the features the checks look at: blanks around it, its    *)
(* scheme and whether that is in lower case, whether "//" follows it, what    *)
(* follows that, the slashes it ends in, and blanks or control characters     *)
(* inside.  The case of a host is part of the host: nothing normalises it.    *)
(***************************************************************************)
EXTENDS Naturals, Integers, Sequences, FiniteSets

CONSTANTS
    Hosts, NoHost,      \* what follows "https://" up to the slashes at the end
    HostLen,            \* its length
    None,               \* an Option without a value
    NaN,                \* a float that is no number
    MaxUrlLen, MaxRateLimit, MaxBurstSize,
    DefaultInterval, DefaultSmoothing, DefaultBatch, DefaultConcurrency,
    DefaultWeight, DefaultEndpoints,
    Files               \* the configurations a file can hold

Schemes == {"http", "https"}

Url == [padded : BOOLEAN, scheme : Schemes \union {"other"}, upper : BOOLEAN,
        separator : BOOLEAN, host : Hosts \union {NoHost}, slashes : Nat,
        odd : BOOLEAN]
Entry == [url : Url, rate : Nat, burst : Nat, weight : Nat \union {None}]

(* health_check_interval stands for all settings that only get a default.     *)
Raw == [interval : Nat \union {None}, smoothing : Int \union {NaN, None},
        batch : Nat \union {None}, concurrency : Nat \union {None},
        endpoints : Seq(Entry) \union {None}]

ASSUME ConfigAssumption ==
    /\ NoHost \notin Hosts
    /\ HostLen \in [Hosts \union {NoHost} -> Nat]
    /\ \A bound \in {MaxUrlLen, MaxRateLimit, MaxBurstSize} : bound \in Nat \ {0}
    /\ None \notin Seq(Entry)
    /\ NaN \notin Int /\ None \notin Int /\ None # NaN
    /\ DefaultSmoothing \in 0..10
    /\ \A default \in {DefaultInterval, DefaultBatch, DefaultConcurrency} :
         default \in Nat \ {0}
    /\ DefaultWeight \in Nat
    /\ DefaultEndpoints \in Seq(Entry)
    /\ Files \subseteq Raw

VARIABLES
    phase,
    config,  \* the Config that finalize works on
    pos,     \* how many entries of its list the loop has taken
    seen,    \* the HashSet of canonical urls
    kept     \* the entries the loop has kept, and then the final list

vars == <<phase, config, pos, seen, kept>>

Empty == [interval |-> None, smoothing |-> None, batch |-> None,
          concurrency |-> None, endpoints |-> None]

Init ==
    /\ phase = "load"
    /\ config = Empty
    /\ pos = 0
    /\ seen = {}
    /\ kept = <<>>

-----------------------------------------------------------------------------

(* try_load_config reads and parses the file. *)
LoadFile ==
    /\ phase = "load"
    /\ config' \in Files
    /\ phase' = "defaults"
    /\ UNCHANGED <<pos, seen, kept>>

(* There is no file: its callers take Config::default(). *)
NoFile ==
    /\ phase = "load"
    /\ phase' = "defaults"
    /\ UNCHANGED <<config, pos, seen, kept>>

(* There is one that cannot be read or parsed. *)
BrokenFile ==
    /\ phase = "load"
    /\ phase' = "failed"
    /\ UNCHANGED <<config, pos, seen, kept>>

OrElse(option, default) == IF option = None THEN default ELSE option

AtLeastOne(n) == IF n < 1 THEN 1 ELSE n

(* f64::clamp(0.0, 1.0), in tenths: it hands a NaN through. *)
Clamp(x) == CASE x = NaN -> NaN
              [] x # NaN /\ x < 0 -> 0
              [] x # NaN /\ x > 10 -> 10
              [] OTHER -> x

(* Mutants: the concurrency may stay 0; no list of endpoints is filled in.     *)
DefaultsUnclamped ==
    /\ phase = "defaults"
    /\ config' = [interval |-> OrElse(config.interval, DefaultInterval),
                  smoothing |-> Clamp(OrElse(config.smoothing, DefaultSmoothing)),
                  batch |-> AtLeastOne(OrElse(config.batch, DefaultBatch)),
                  concurrency |-> OrElse(config.concurrency, DefaultConcurrency),
                  endpoints |-> OrElse(config.endpoints, DefaultEndpoints)]
    /\ phase' = "validate"
    /\ UNCHANGED <<pos, seen, kept>>
DefaultsWithoutList ==
    /\ phase = "defaults"
    /\ config' = [config EXCEPT !.interval = DefaultInterval]
    /\ phase' = "validate"
    /\ UNCHANGED <<pos, seen, kept>>

(* Missing settings get their defaults, three of them are kept in range.       *)
Defaults ==
    /\ phase = "defaults"
    /\ config' = [interval |-> OrElse(config.interval, DefaultInterval),
                  smoothing |-> Clamp(OrElse(config.smoothing, DefaultSmoothing)),
                  batch |-> AtLeastOne(OrElse(config.batch, DefaultBatch)),
                  concurrency |-> AtLeastOne(OrElse(config.concurrency, DefaultConcurrency)),
                  endpoints |-> OrElse(config.endpoints, DefaultEndpoints)]
    /\ phase' = "validate"
    /\ UNCHANGED <<pos, seen, kept>>

(* The length in bytes once trimmed, the slashes at the end included. *)
UrlLen(u) == HostLen[u.host] + u.slashes

(* Every check of the loop.  The blanks around a url are trimmed first.       *)
Usable(e) ==
    /\ e.url.scheme \in Schemes /\ e.url.separator
    /\ UrlLen(e.url) <= MaxUrlLen
    /\ ~ e.url.odd
    /\ e.rate \in 1..MaxRateLimit
    /\ e.burst \in 1..MaxBurstSize

(* Trimmed, the scheme in lower case, without the slashes at the end; if that  *)
(* leaves no host, the slashes after the scheme are at the end.                *)
Canonical(u) == [u EXCEPT !.padded = FALSE, !.upper = FALSE, !.slashes = 0,
                          !.separator = (u.host # NoHost)]

Cleaned(e) == [e EXCEPT !.url = Canonical(@)]

(* Mutant: a url counts as seen before it has passed the checks. *)
ExamineSeenFirst ==
    /\ phase = "validate"
    /\ pos < Len(config.endpoints)
    /\ pos' = pos + 1
    /\ LET e == Cleaned(config.endpoints[pos + 1])
       IN  /\ seen' = seen \union {e.url}
           /\ kept' = IF Usable(config.endpoints[pos + 1]) /\ e.url \notin seen
                      THEN Append(kept, e)
                      ELSE kept
    /\ UNCHANGED <<phase, config>>

(* One entry of the list: dropped if it fails a check or has been seen.        *)
Examine ==
    /\ phase = "validate"
    /\ pos < Len(config.endpoints)
    /\ pos' = pos + 1
    /\ LET e == Cleaned(config.endpoints[pos + 1])
       IN  IF Usable(config.endpoints[pos + 1]) /\ e.url \notin seen
           THEN seen' = seen \union {e.url} /\ kept' = Append(kept, e)
           ELSE UNCHANGED <<seen, kept>>
    /\ UNCHANGED <<phase, config>>

(* The end of the list: an error if nothing is left, else the final            *)
(* constraints on each endpoint.                                               *)
Finish ==
    /\ phase = "validate"
    /\ pos = Len(config.endpoints)
    /\ phase' = IF kept = <<>> THEN "failed" ELSE "done"
    /\ kept' = [k \in DOMAIN kept |->
                  [kept[k] EXCEPT !.rate = AtLeastOne(@),
                                  !.burst = AtLeastOne(@),
                                  !.weight = OrElse(@, DefaultWeight)]]
    /\ UNCHANGED <<config, pos, seen>>

Next == LoadFile \/ NoFile \/ BrokenFile \/ Defaults \/ Examine \/ Finish

Spec == Init /\ [][Next]_vars

-----------------------------------------------------------------------------
(* Properties. *)

TypeOK ==
    /\ phase \in {"load", "defaults", "validate", "done", "failed"}
    /\ config \in Raw
    /\ phase \in {"validate", "done"} => config.endpoints \in Seq(Entry)
    /\ pos \in Nat
    /\ seen \subseteq Url
    /\ kept \in Seq(Entry)

(* The positions, up to n, of the usable entries with a url that no usable     *)
(* entry before them has.                                                      *)
Firsts(list, n) ==
    {k \in 1..n : /\ Usable(list[k])
                  /\ \A m \in 1..(k - 1) :
                       Usable(list[m]) => Canonical(list[m].url) # Canonical(list[k].url)}

(* validate_and_dedupe_endpoints: of the entries that are one url, the first   *)
(* usable one is kept, in the order of the file and with its own limits and    *)
(* weight, and nothing else; an entry that fails a check never shadows a later *)
(* one.                                                                        *)
FirstValidWins ==
    phase = "validate" =>
        LET firsts == Firsts(config.endpoints, pos)
        IN  /\ Len(kept) = Cardinality(firsts)
            /\ \A k \in firsts :
                 kept[Cardinality(firsts \intersect (1..k))] = Cleaned(config.endpoints[k])

(* What LoadBalancer::new and reload take from finalize without a check of     *)
(* their own: an endpoint, no url twice (limiters are kept by url), limits of  *)
(* which a limiter can be built, no setting missing, and sizes that let a      *)
(* request in.  It is no claim that the values are usable: the factor may be a *)
(* NaN, which clamp hands through, and the interval may be 0, which kills the  *)
(* health loop (utils/health.rs:43).                                          *)
FinalCanBeBuilt ==
    phase = "done" =>
        /\ kept # <<>>
        /\ \A k \in DOMAIN kept :
             /\ kept[k].rate \in 1..MaxRateLimit
             /\ kept[k].burst \in 1..MaxBurstSize
             /\ kept[k].weight # None
             /\ \A m \in DOMAIN kept : kept[k].url = kept[m].url => k = m
        /\ config.interval # None
        /\ config.smoothing \in (0..10) \union {NaN}
        /\ config.batch \in Nat \ {0}
        /\ config.concurrency \in Nat \ {0}
=============================================================================
