# azoth-balancer in TLA+

A TLA+ model of azoth-balancer 0.3.0 (`src/src/`, Rust): a load balancer in
front of JSON-RPC nodes. The modules are checked with TLC on small instances;
the safety of each component is proved for every value of the constants with
TLAPS.

## The system

One process (tokio, many threads) holds one `LoadBalancer`. All tasks share it.

| Component | State | Operations | Talks to |
|---|---|---|---|
| endpoint health and cooldown (`endpoint.rs`, `utils/cooldown.rs`, `utils/health.rs`, `mark_*` of `balancer.rs`, `forwarder.rs`) | per endpoint: `healthy`, `cooldown_attempts`, `cooldown_until` | `forward_request`, `mark_unhealthy`, `mark_rate_limited`, `perform_health_checks` | upstream nodes over HTTP; all share the endpoints' `RwLock` |
| performance metrics (`EndpointMetrics`) | per endpoint: two averages, consecutive failures, as atomics | `update`, `update_ema`, `get_total_cost` | forwarding and the health loop write, selection reads the cost |
| selection (`strategy.rs`, `get_next_endpoint`) | limiters (one mutex each), `last_selected`, costs | `select_best_endpoint`, `reserve_tokens`, the ranking of `/status` | called by `handle_rpc` under two read locks |
| locks | about a dozen `parking_lot::RwLock`s | every operation above, `get_status`, `reload`, the gauge updater | each other |
| configuration (`config.rs`) | none | `try_load_config`, `finalize`, `validate_and_dedupe_endpoints` | start and reload |
| hot reload (`config_reloader.rs`, `handle_reload`) | the list, the limiters, the HTTP client, the settings | `reload` | the file; everybody who reads or writes the list |
| Prometheus metrics (`utils/metrics.rs`) | counters, histograms and gauges, many by endpoint label | increments everywhere, label cleanup in `reload`, gauges from three tasks | scrapers |
| admission (`handle_rpc` in `main.rs`) | a semaphore, a gauge, `max_batch_size` | arrival, two size checks, permit, forwarding, answer, hang-up | selection, forwarding |
| shutdown (`shutdown.rs`, `main`) | where `main` is, the two background tasks | signals, drain, `graceful_shutdown`, `abort_all` | the server, the tasks |

What makes it hard:

* An outcome is learnt at one moment and written at a later one: a request
  learns a failure before it takes the write lock, a health-check round applies
  an early answer after the slowest probe, a reload writes back clones, a count
  of healthy endpoints is stored after the lock is released.
* Marks, answers and metrics find their endpoint by url, which a reload may have
  removed, or removed and added again, since.
* Selections share read locks, so they interleave with each other, with costs
  and with the clock; only single reservations are atomic. Updates of one
  endpoint's averages interleave one atomic after the other.
* Reload replaces under several locks what selections read together, and two
  reloads may run at once.
* Futures are dropped at any await when a client hangs up.
* Shutdown combines signals, a drain without a bound of its own, two timeouts
  and tasks that may panic.

What makes each component correct is stated under *Runs* below;
`PROJECT.json` lists the hazards with their lines.

## Modules

```
Endpoint ── EndpointHealth ── EndpointHealthMC
                │    └ R == INSTANCE Rotation
             Balancer ── BalancerMC
                     └ L == INSTANCE ListedRotation
Strategy ── Selection ── SelectionHistory ── SelectionMC
Reload ── Gauges ── ReloadMC
Admission ── AdmissionMC
         └ G == INSTANCE Gate
Metrics ── MetricsMC    Config ── ConfigMC    Locks ── LocksMC    Shutdown
```

`──` is EXTENDS. Each of Balancer (with EndpointHealth), Selection (with
SelectionHistory), Metrics, Reload (with Gauges), Config, Locks, Admission and
Shutdown has a module of proofs, `<name>Proofs`.

**Endpoint** holds the pure part of an endpoint: a record of `healthy`,
`attempts` and `cooldown`, `TriggerCooldown` and `IsAvailable`. The cooldown is
the time *left*, in ticks; 0 stands both for `None` and for an instant in the
past, which no decision tells apart. Durations live in a word of `WordBits` bits
with the code's saturating product, wrapping power and cap, attempts in a
saturating counter that ends at `MaxAttempts`.

**EndpointHealth** has one action per critical section or per step between two
awaits. A request goes from `Dispatch` (chosen and sent) through `Receive` (the
response's head, or an error) and `ReadBody` to `MarkRateLimited` or
`MarkUnhealthy`; `Cancel` drops it at an await. A round of the health loop is
`StartRound`, one `ProbeAnswer` per endpoint and `ApplyRound`. `Tick` is the
clock and `Turn` an upstream that goes up, down or flaky. Which available
endpoint a request gets is open here. `base` and `max` are constant.

**Rotation** is the abstract specification of that: strikes, rests, and who is
out. A strike adds one and, while the strikes are below the width of the word,
never shortens a rest; only an assessment brings a broken endpoint back, and it
forgives everything; time never mends. `RefinesRotation` is the refinement.

**Balancer** composes EndpointHealth with the reload: the list of endpoints is
the domain of `ep`, requests and rounds meet whatever endpoint now has their url
(`Mark`, `MarkNobody`, `Apply`), `CloneList`, `Install` and `WriteInterval` are
the steps of a reload between its locks, clones cool down while they wait, and
the ticker of the health loop (`TickerFires`, `BeginRound`) panics when the
interval has become 0 (`LoopPanics`). One reload at a time; limits and metrics
are left to the modules below.

**ListedRotation** is its abstract specification: Rotation for endpoints that come
and go. The list gives everybody a standing; a reload takes a copy with newcomers
and without those left out, and installs it later whatever has become of the list.
So a standing can be lost or go back to what it was at the copy, but is never made
up, and apart from installations, an endpoint is only struck, forgiven or rested.
The refinement mapping (`Standings`) maps an endpoint to its standing as in
EndpointHealth, and the clones of a reload under way to the copy.

**Metrics** is one endpoint's averages. A request's `update` is one action per
atomic (`SuccessLatency`, `SuccessReset`, `SuccessDecay`; `FailurePenalty`,
`FailureCount`); the health loop's updates, under the write lock, are one action
each. Factors are in tenths and values in whole units; where the exact average
lies half-way between two units, the floating-point code may get either, and so
may the model.

**Strategy** gives the order of the candidates as a lexicographic key.
**Selection** runs several `get_next_endpoint` side by side: `Begin` (locks,
filter), `SortTier` (costs and timestamps of that moment), `Reserve` per
candidate, `GiveUp`, `Store`. `SortDisturbed` is the sort whose comparator reads
costs or timestamps that change between two comparisons: only the weights can be
relied upon then, and ties come out in any order (`WeighedOrders`). It happens when
costs may change or another selection is about to store its timestamp. The limiters
refill, the second passes, costs change and cooldowns end at any time; endpoints are
taken out only while nobody holds the read lock. `Unlimited` are endpoints without a
limiter. Time in `Selection` is in whole seconds, as in `last_selected`.
**SelectionHistory** adds two history variables, which say for each selection who
could have served it at every moment so far (`able`) and whether nothing the
ranking depends on has moved (`quiet`), and states what a selection promises. Its
step is `Next` with exactly one next value for each of the two, so that by its form it
has the behaviours of Selection, no more and no fewer.

**Locks** is `parking_lot`'s RwLock (a writer announces itself, new readers then
wait, even those that read already) and each operation as the sequence of locks
read off the code, guards held as long as Rust holds the temporaries. Locks that
some operation holds while it asks for another are told apart; the scalar locks
nobody holds while asking for another are one. `/status` reads the settings of the
client, too, while it holds the endpoints.

**Config** is the load of a file: `LoadFile`, `NoFile`, `BrokenFile`, then
`Defaults` (what `finalize` fills in and clamps), one `Examine` per entry of the
list, and `Finish`. A url is the record of the features the checks look at, and
`Canonical` is what trimming and lower-casing do to it. One interval stands for
the settings that only get a default.

**Reload** follows `reload`: `Load`, `CompareClient`, `WriteClient`, `Snapshot`
(under both read locks), `WriteEndpoints`, `WriteLimiters`, `WriteCooldown`, with
`Penalise` and `Restore` as the other writers and `Edit` as the operator. The
pair of rate limit and burst is one value. `client` stands for the settings
written first (the client and four settings, each under a lock of its own, in one
step, since no property tells them apart), `cooldown` for those written last; an
endpoint's health, cooldown and attempts are one number of strikes. The file's
`max_concurrency` and `bind_addr` are no part of a configuration here: reload drops
them (the `..` at `config_reloader.rs:108`), the semaphore and the listener are made
once at the start (`balancer.rs:157`, `main.rs:232-237`), and so they change with a
restart only. `Applied` says that all the rest of a configuration is in use.
**Gauges** adds what a scrape sees: which
urls have a series, the total and the count of available endpoints. Each of
its steps is a step of Reload with what it does to them, or one of its own
(`Compare`, `Cleanup`, `CountHealthy`, `SetHealthy` in the reload,
`UpdateCooldowns` and `UpdateHealthyCount` in the other tasks); that it
implements Reload is proved.

**Admission** is `handle_rpc`. A body has the features the checks look at. The
early check counts braces of arrays; `Acquire` takes a permit or queues up;
`Refuse` covers the answers after parsing (400, 413, 503), `Respond` the answer
with status 200; `HangUp` drops the future while it is queued, has been handed
a permit it has not seen, or waits for the upstream. axum 0.6's extractor limits
a body to 2 MB, so the handler's own check against 10 MB never fires and is left
out. **Gate** is its abstract specification: who is inside, who waits and who is
ahead of whom, as a relation; the mapping (`Before`, `Ahead`) reads these off the
queue of tokio's semaphore and the handlers' stages.

**Shutdown** is `main` from the signal on, `shutdown_signal`, the drain of hyper
and `ShutdownManager`. An abort, by `abort_all` or by the drop of the `JoinSet`, only
asks: in the stage `stopping` a task goes on with its work, may even end by itself,
and is dropped at its next await (`Cancelled`). The process has ended when the
runtime has seen every task stop (`RuntimeDropped`).

The modules that end in `MC` hold constants for TLC. Where a property speaks of the
past, a module that ends in `History` adds variables that record it.
Definitions whose comment calls them a *mutant* are faulty variants of the
definition after them; they show that a property notices such a fault.

## Runs

Every property below is an INVARIANT or PROPERTY of the run's `.cfg`. Each run
but Locks also has its module's type invariant; those that end in a violation have
only the property they are about.

| Run | Shows | Bounds, and why they are enough |
|---|---|---|
| EndpointHealth | `RestMatchesStrikes`: out of the rotation means struck, no rest without strikes, no rest longer than the strikes prescribe; `OneStrikePerOutage`: between an endpoint's exit and its return only a late 429 strikes it again, however many requests and rounds find it broken; `RefinesRotation`; `UpReturns`, `DownLeaves`: an upstream that stays up ends up in the rotation for good, one that stays down out of it | 2 endpoints, one of which a round waits for; 1 request, which can mark late both between and during rounds; 3-bit words, attempts up to 4, cap 3: the power wraps within reach, the counter saturates, the cap is hit. About 212,000 states |
| Balancer | `RefinesListedRotation`; `HealthShowsThroughReloads`: as long as the health loop lives, an upstream that stays up and listed is in the rotation again and again and one that stays down out of it, whatever reloads undo; `HealthSettlesAfterReloads`: for good, once reloads end | 2 endpoints, one of which comes and goes and fails; 1 request; 3 configurations, one with an interval of 0; a reload at a time, repeated without bound. About 97,000 states |
| Metrics | `WithinInputs`: rounding never carries an average beyond what was measured; `NoFailuresMeansForgiven`: a count of 0 comes with a penalty that has decayed; `NeverStuckBeyondResidue`: rounding stops no average further than 1/(2α) from what successes measure, from either side; `CostSettles`: an endpoint that from some moment on only succeeds ends up costing its latency and the residue of the rounding | 2 requests inside `update`, which is enough for any two of its steps to fall between two others; the code's base penalties, in seconds; latencies on both sides of the probe's timeout |
| Selection | `HeaviestServes`: no heavier endpoint that could serve all the time is passed over; `NoneMeansNobodyCould`; `FirstOfRankingServes`: tier by tier equals one ranking over all endpoints if nothing it depends on moves | 2 selectors, 3 endpoints in 2 tiers at the boundary 49/50, the upper two with one token each, the lower one without limiter, single calls; 2 costs, 2 seconds: enough for a token to go between the sort and the attempt, for a tier to be exhausted, and for both orders of cost and of timestamps, in sorts disturbed by either. About 1.56 million states, the largest run: 2 to 3 minutes |
| Locks | `DeadlockFree`: no group of threads waits in a circle | one thread per operation other than `/status`, and a second reload |
| Config | `FirstValidWins`: of the entries that are one url the first usable one is kept, in order; `FinalCanBeBuilt`: what is returned has what the start and a reload build from without a check of their own: endpoints, limits a limiter can be made of, no setting missing, sizes that let requests in. Not that every value is usable: see *Other disagreements* | lists of up to 3 of 14 entries: an entry that fails a check before two spellings of one url; lengths and limits scaled down to 4 and 2, so that each check has both sides |
| Reload | `EveryPartIsValid`: the list in use is that of a valid file, and each limiter and setting comes from one; `OneConfigurationAtRest`: all that reload applies is of one file when none is under way; `LimiterPerEndpoint`: only between two writes of a reload is an endpoint without the limiter of its own limit; `ListedHaveSeries` and `GaugesFitTheList` whenever no reload is under way; `FileTakesEffect`: of a valid file that stays, all that reload applies ends up in use; `HealthyGaugeSettles`: the gauge of healthy endpoints ends up right once their number stays | one reload at a time, repeated; 4 files (one invalid) that add, remove and change; 2 strikes |
| Admission | `PermitsConserved`, `GaugeCountsHandlers`; `RefinesGate`: first come, first in, whoever hangs up; `EveryRequestEnds` | 3 requests, 1 permit (2 can wait, so that the order of the queue matters), a body on each side of each check, a changing limit. About 72,000 states |
| Shutdown | `RequestsBeforeTasks`, `OkMeansClean`, `SignalEndsProcess` | 2 requests, 2 tasks, one of which may panic |

The deadlock check is on except in the Shutdown run, where the process ends, in
the Config run, where the load ends, and in LocksStatus, which is about the
deadlock.

Runs that end in a violation, each a disagreement between the code and what the
repository says of it (`PROJECT.json`, "findings", quotes the line):

| Run | Behaviour TLC finds |
|---|---|
| MruStarvation | two equal endpoints: one serves for ever, the other never |
| LocksStatus | `/status` reads, a mark queues up to write, `/status` reads again: both wait for ever, and everybody after them |
| TwoReloads | two `POST /reload` at once: the first is overtaken between its writes by the second, whose file has changed, and writes its old setting over the new one; the balancer then runs a mixture of two files for good |

### Other disagreements

The models make these plain too, without a run of their own.

Health and cooldown:

* A round applies an answer after its slowest probe: an endpoint that a request
  has found broken since its own answer is put back and its cooldown cleared
  (`utils/health.rs:118` against lines 5-6).
* At the 64th strike `2^attempts` leaves the word (`utils/cooldown.rs:28`), and the
  endpoint rests for 0 seconds. Each 429 of a request in flight is a strike; only
  a recovery *of an endpoint marked unhealthy* resets them.
* A mark between a reload's snapshot and its write is undone
  (`config_reloader.rs:181-182` and 226).
* An interval of 0 passes `finalize`; tokio's interval panics on it inside the
  health loop (`utils/health.rs:43`), the process lives on, and nothing that is
  out ever comes back. The liveness properties of Balancer have it as a condition.
* A `max_cooldown_secs` beyond what an `Instant` can hold panics under the
  endpoints' write lock (`utils/cooldown.rs:33`).

Metrics:

* A failure can lower the penalty: the new one counts for 0.8 even if it is the
  smaller (`endpoint.rs:53`).
* `consecutive_failures` is kept "for backoff" (`endpoint.rs:55`), which never reads it.
* The metrics are atomics one by one, not jointly as `endpoint.rs:134` may be read.
* Averages stick: the penalty at 1, the latency up to about 1/(2α) above the
  measurements (`Slack` in `CostSettles`).
* A new endpoint costs `timeout_secs` and is not used while a cheaper one of its
  tier has tokens; nothing else lowers its cost.

Configuration:

* The default `max_batch_size` of 100 exceeds the default burst of 25: a batch
  between the two is refused by every limiter at any time.
* `finalize` is said to leave "a consistent and usable state", with values clamped "to
  valid ranges" (`config.rs:20-21`). A smoothing factor of NaN passes `clamp`
  (`config.rs:42`) and every average is then 0; an interval of 0 passes, too
  (`config.rs:29-30`), and kills the health loop (above). `FinalCanBeBuilt` is
  therefore about what can be built, and says nothing of these two.
* `https://` is accepted, as `https:`; hosts that differ in case only are two
  endpoints; weights may all be 0.
* `example.config.toml:12` says the client's settings need a restart; reload rebuilds
  the client. The settings that do need one are `max_concurrency` and `bind_addr`, of
  which it does not say so: reload drops them without a word and answers success.

Reload and metrics of Prometheus:

* A limiter mixed up by two reloads is not repaired by a later one, which compares
  limits with the endpoint's own fields (`config_reloader.rs:189`) and keeps the
  limiter it finds.
* Between its two writes (`config_reloader.rs:226-227`) a reload has new endpoints
  without limiters; `reserve_tokens` never refuses these.
* `cleanup_endpoint_metrics` is said to remove all labels (`config_reloader.rs:47`)
  but leaves four families (`UPSTREAM_RATE_LIMITED_TOTAL`, `REQUEST_TIMEOUTS`,
  `PRIORITY_ENDPOINT_SELECTED`, `HEALTH_CHECK_LATENCY`); requests and updates still
  in flight create removed series again. `REQUEST_LATENCY` is never initialised.
* `CONCURRENCY_ACTIVE_PERMITS` counts handlers (`GaugeCountsHandlers`), hence the
  waiting ones too, not the permits held as `utils/metrics.rs:168` says.
* `ALL_ENDPOINTS_RATE_LIMITED` is not incremented when no endpoint is available at
  all (`strategy.rs:45`), which `utils/metrics.rs:195-197` says it counts.

Others:

* The early check of `handle_rpc` (`main.rs:70`) counts every `{`: a batch within
  the limit is rejected if its parameters hold objects.
* The status page breaks ties the opposite way round from the selection
  (`balancer.rs:286` against `strategy.rs:90`).
* After a second Ctrl+C `main` still drains: without clients that finish or hang
  up, `SignalEndsProcess` does not hold.
* `abort_all` is said to abort "immediately" and not to wait (`shutdown.rs:58-60`). It
  does not, but the end of `main` does: the runtime is dropped when every task has
  come to its next await.
* A task that panicked makes `graceful_shutdown` return, and the drop of its
  `JoinSet` aborts the other task at its next await (`JoinNext`, `Cancelled`).

### Fairness

* EndpointHealth: a request whose outcome is known reaches its mark (there is no
  await in between that waits for anything but the lock); the ticker fires again
  and again; a probe ends, by `health_check_timeout_secs` at the latest; time
  passes. Nothing is assumed of requests being made or of upstreams.
* Balancer: the same; the ticker, its panic and the beginning of a round are one
  loop and have one condition together; a reload that has begun writes what it
  has to. Nobody need ask for one.
* Metrics: an update that has begun goes on; it waits for nothing. `CostSettles`
  assumes in its premise that the endpoint is used again and again.
* Selection (only in MruStarvation): selections run to their end and begin again,
  limiters refill.
* Reload: a reload that has begun ends; the operator asks again and again; the
  updater's ticker fires every second. The operator's part is strong fairness,
  since a reload is possible again and again but not while one is under way.
* Admission: a handler that can run runs, and the client's `timeout_secs` ends
  each wait for an upstream. Clients need not hang up.
* Shutdown: `main`'s timers and handlers run. Clients complete what they have begun or
  hang up. The background tasks need not see the signal: they may hang, but at an
  await, where an abort reaches them (between two awaits they only take locks; that
  these are given up again is what the run Locks is about).

## Proofs

For every value of the constants that satisfies the modules' assumptions
(`EndpointAssumption`, `BalancerAssumption` and so on: naturals that fit, finite
sets where something is counted, placeholders that are no values):

| Module | Theorems |
|---|---|
| BalancerProofs | of EndpointHealth: `TypeCorrect`, `RestAlwaysMatchesStrikes`, `OutageCostsOneStrike`, `ImplementsRotation`; `CooldownDurationBound`, `BackoffMonotone`; of Balancer: `BalancerTypeCorrect`, `OutAlwaysMeansStruck`, `ImplementsListedRotation` |
| SelectionProofs | `TypeCorrect`, `HeaviestAlwaysServes`, `NoneAlwaysMeansNobody`, `FirstOfRankingAlwaysServes`; `SortHasOneResult`, `SortAlwaysDecided` |
| MetricsProofs | `TypeCorrect`, `AlwaysWithinInputs`, `AlwaysForgiven`, `NeverAverageStuck` |
| ReloadProofs | `TypeCorrect`, `EveryPartAlwaysValid`, `WholeConfigurationAtRest`, `LimiterAlwaysPerEndpoint`; `ImplementsReload`, `GaugesTypeCorrect`, `ListedAlwaysHaveSeries`, `GaugesAlwaysFit` |
| ConfigProofs | `TypeCorrect`, `FirstValidAlwaysWins`, `FinalCanAlwaysBeBuilt` |
| LocksProofs | `HeldAsGuardsSay`, `OperationsNeverDeadlock` |
| AdmissionProofs | `TypeCorrect`, `PermitsAlwaysConserved`, `NeverIdlePermit`, `GaugeAlwaysCounts`, `ImplementsGate` |
| ShutdownProofs | `TypeCorrect`, `RequestsAlwaysBeforeTasks`, `OkAlwaysClean` |

The inductive invariants, and why the properties do not do by themselves:

* **EndpointHealth**: `IInv` is the type invariant with the statement `Sound` of
  each endpoint. Each operation on one endpoint (`TriggerCooldown`, `TakeOut`,
  `Recover`, `Elapse`) is shown once to keep `Sound`. For the refinement,
  `StruckFrom` shows that `TriggerCooldown` is a strike in the sense of Rotation:
  its new rest is the full duration of the new attempts, which by `Sound` and
  `BackoffMonotone` is at least what was left of the old one. That needs powers of
  two, which the provers do not know; `Pow2IsCardinality` identifies `2^n` with
  the number of subsets of `1..n`, from which `Pow2StrictlyMonotone` follows by
  the library's facts on cardinality, without induction.
* **Balancer**: `BalancerInv` says `Sound` of the clones of a reload under way as
  well as of the list, since `Install` makes the list of them, and that the list
  they make is not empty. The refinement of ListedRotation needs one thing more,
  `NoStrayClones`: there are clones only between the clone and its installation.
  The rest is one lemma per operation: a mark is a strike (`MarkIsStrike`, by
  `StruckFrom`), a round an assessment (`ApplyIsAssess`), the clock a pass for list
  and copy alike (`TimeIsPass`).
* **Selection**: the properties speak of the end of a selection, `Fair` of its
  middle: whoever could have served is still to be asked, in the rest of this tier
  or in a later one; the rest of a tier is in the order of the weights and, while
  nothing moves, of the ranking; later tiers are lighter (`LaterIsLighter`). `Sorted`
  says what the sort of a tier gives, `StandStill` that other selections and the
  environment can only take endpoints out of `able`. A disturbed sort keeps the
  order of the weights, which is all that the first two properties use
  (`WeighedSorted`, `SortedIsWeighed`); the third is about quiet selections, which
  have not had one. The theorems that speak of the past are about `HistorySpec`.
  `SortHasOneResult` says that `SelectionOrders` has exactly one element, so that a
  selection is never stuck in its sort: an endpoint's place is 1 and the number of
  those that are better. Different endpoints have different places, hence the
  finitely many places are all taken (the library's fact on injections between
  finite sets, in the place of an induction), and any sorted order puts everybody
  on their place.
* **Metrics**: the three properties together. `EmaBetween` shows that a rounded
  average lies between its two arguments, `DecayForgives` that half of a bounded
  penalty, rounded either way, is at most half of the bound. `EmaMoves` is the converse,
  the step `CostSettles` makes again and again: an average further than the residue
  moves, whichever way a half is rounded. An update in the
  middle of a failure is what `NoFailuresMeansForgiven` has to exclude, and the
  stages of `update` say when that is.
* **Reload**: `OneConfigurationAtRest` speaks of moments without a reload; `Progress`
  says at each stage of one which parts are already new. `MergedLimitersFit` is the
  crux: limiters merged from a list and its limiters are those of the new list.
  Both this and the theorems on the gauges assume `OneAtATime`, which is the run's
  instance and without which TwoReloads shows the opposite. What holds of any number
  of reloads side by side is proved without it: the types, `ImplementsReload`, that
  each part by itself comes from a valid file (`PartsInv`: also what a reload is yet
  to write does, however old it is). `LimitersFitTheList` reads off `Progress` that
  list and limiters fit at every stage but one. For the gauges, `Shown` says what each
  stage of the book-keeping has established, with `Progress` below it:
  `ImplementsReload` and `ReloadInv` are used, not repeated.
* **Config**: `FirstValidWins` describes what is kept by the whole list up to here,
  the loop by the set `seen`. The invariant identifies `seen` with the canonical
  urls of the usable entries met so far; `OneMore` says how `Firsts` grows by one
  entry.
* **Locks**: each program is given the locks it holds before each of its steps
  (`Follows`), and asks only for locks of a higher `Rank` than all of these. The
  invariant says that `readers` and `bit` are what these lists say (`HeldBy`), but
  for a writer that has only announced itself, and that a writer is alone with its
  lock (`WriterAlone`): `HeldAsGuardsSay`. Then in any group of waiting
  threads one that waits for a lock of the highest rank is not blocked by a holder
  in it; if a writer that has only announced itself blocks it, that writer is one
  that nobody in the group blocks. `OperationsNeverDeadlock` is for any number of
  threads; `GetStatus` has no such list, which is LocksStatus.
* **Admission**: permits free and held add up, the queue holds each waiter once and
  nobody else (`QueueIsQueued`, `Distinct`), and the gauge counts those inside. The
  lemmas on sequences (`WithoutOne`, `AppendOne`, `TailOne`) say what the queue's
  operations do to who is in it. For the refinement of Gate, the pairs `Ahead` of a
  queue without somebody are those among the others, because nobody is in it twice.
* **Shutdown**: tasks that are joined have ended, a task hears of the shutdown, or is
  cut off, only once `main` is past the drain, and Ok is only answered at the very end.

Only model-checked: all liveness (fairness and ENABLED are beyond the prover). Every
safety property of a passing run is a theorem. `OutMeansStruck` of Balancer and
`NoIdlePermit` of Admission are theorems that no run checks by themselves: the one
follows from `RefinesListedRotation`, the other from `RefinesGate` and `PermitsConserved`.

## Not modelled

* The counters and histograms that only ever grow, and the encoding of `/metrics`:
  no decision reads them. The metrics whose values relate to other state are in
  Gauges, Selection and Admission.
* The status page's ranking (`get_endpoint_priority_stats`), which changes nothing.
* A panic of `sort_by` itself: since Rust 1.81 the standard library may panic when a
  comparison contradicts another, as costs that change during the sort of a tier of
  more than 20 endpoints can make it. `SortDisturbed` has the sort end in some order.
* `base_cooldown_secs` and `max_cooldown_secs` changing under EndpointHealth.
* `max_concurrency` and `bind_addr` in a reload, which leaves them as they are.
* A handler or task that blocks a thread on a lock for ever: where that can happen,
  in `/status`, is the run LocksStatus; Shutdown assumes it does not.
* Two reloads at once in Balancer: Reload has them.
* JSON shaping, tracing, routing, the command line, Docker, Grafana: input and
  output without state of their own.

## Plan

Done: all modules above with their proofs, and the three refinements. Left:

1. What a task that panics inside a critical section leaves behind (`parking_lot` does
   not poison its locks), for the panic under `utils/cooldown.rs:33`.
2. The status page's ranking as a function of the state, against the selection's.
