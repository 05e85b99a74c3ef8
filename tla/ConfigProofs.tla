----------------------------- MODULE ConfigProofs -----------------------------
(* Whatever a file holds, a list of any length included, the configuration     *)
(* that finalize returns has all that LoadBalancer::new and reload build from,  *)
(* and its list is the one of the first usable entries.                        *)
EXTENDS Config, FiniteSetTheorems, TLAPS

Urls(list) == {list[k].url : k \in DOMAIN list}

(* The settings once the defaults are filled in.                              *)
Settled ==
    /\ config.endpoints \in Seq(Entry)
    /\ config.interval # None
    /\ config.smoothing = NaN \/ config.smoothing \in 0..10
    /\ config.batch \in Nat \ {0}
    /\ config.concurrency \in Nat \ {0}

(* What every kept entry has passed.  That its url is a seen one is what keeps  *)
(* the next entry from having the same.                                        *)
Passed ==
    /\ \A k \in DOMAIN kept : /\ kept[k].rate \in 1..MaxRateLimit
                              /\ kept[k].burst \in 1..MaxBurstSize
                              /\ kept[k].url \in seen
    /\ \A k, m \in DOMAIN kept : kept[k].url = kept[m].url => k = m

(* The urls of the usable entries among the first n.                          *)
Met(list, n) == {Canonical(list[m].url) : m \in {m \in 1..n : Usable(list[m])}}

IInv ==
    /\ TypeOK
    /\ phase \in {"load", "defaults"} => kept = <<>> /\ pos = 0 /\ seen = {}
    /\ phase \in {"validate", "done"} => Settled
    /\ phase \in {"validate", "done"} => Passed
    /\ phase = "validate" => pos <= Len(config.endpoints) /\ seen = Met(config.endpoints, pos)
    /\ phase = "done" => kept # <<>> /\ \A k \in DOMAIN kept : kept[k].weight # None
    /\ FirstValidWins

-----------------------------------------------------------------------------
LEMMA OptionsApart == None \notin Nat /\ None \notin Int /\ NaN \notin Int /\ None # NaN
BY ConfigAssumption

LEMMA Chosen ==
    ASSUME NEW S, NEW option, option \in S \/ option = None, NEW default \in S
    PROVE  OrElse(option, default) \in S
BY DEF OrElse

LEMMA CanonicalTyped ==
    ASSUME NEW e \in Entry
    PROVE  /\ Cleaned(e) \in Entry /\ Cleaned(e).url = Canonical(e.url)
           /\ Cleaned(e).rate = e.rate /\ Cleaned(e).burst = e.burst
           /\ Canonical(e.url) \in Url
<1>1. e.url \in Url
  BY DEF Entry
<1>2. (e.url.host # NoHost) \in BOOLEAN
  OBVIOUS
<1>3. Canonical(e.url) \in Url
  BY <1>1, <1>2 DEF Canonical, Url
<1>4. Cleaned(e) = [e EXCEPT !.url = Canonical(e.url)]
  BY DEF Cleaned
<1> HIDE DEF Canonical
<1>5. Cleaned(e) \in Entry /\ Cleaned(e).url = Canonical(e.url)
      /\ Cleaned(e).rate = e.rate /\ Cleaned(e).burst = e.burst
  BY <1>3, <1>4 DEF Entry
<1> QED BY <1>3, <1>5

LEMMA DefaultsSettle ==
    ASSUME config \in Raw, Defaults PROVE Settled' /\ config' \in Raw
<1>1. /\ config.interval \in Nat \union {None} /\ config.batch \in Nat \union {None}
      /\ config.smoothing \in Int \union {NaN, None} /\ config.concurrency \in Nat \union {None}
      /\ config.endpoints \in Seq(Entry) \union {None}
  BY DEF Raw
<1>0. /\ DefaultInterval \in Nat /\ DefaultBatch \in Nat /\ DefaultConcurrency \in Nat
      /\ DefaultEndpoints \in Seq(Entry) /\ DefaultSmoothing \in Int \union {NaN}
  <2>1. DefaultInterval \in Nat /\ DefaultBatch \in Nat /\ DefaultConcurrency \in Nat
    BY ConfigAssumption, Zenon
  <2>2. DefaultEndpoints \in Seq(Entry) /\ DefaultSmoothing \in 0..10
    BY ConfigAssumption, Zenon
  <2>3. DefaultSmoothing \in Int
    BY <2>2
  <2> QED BY <2>1, <2>2, <2>3
<1>2. /\ OrElse(config.interval, DefaultInterval) \in Nat
      /\ OrElse(config.batch, DefaultBatch) \in Nat
      /\ OrElse(config.concurrency, DefaultConcurrency) \in Nat
      /\ OrElse(config.endpoints, DefaultEndpoints) \in Seq(Entry)
      /\ OrElse(config.smoothing, DefaultSmoothing) \in Int \union {NaN}
  BY <1>0, <1>1, Chosen
<1>3. /\ AtLeastOne(OrElse(config.batch, DefaultBatch)) \in Nat \ {0}
      /\ AtLeastOne(OrElse(config.concurrency, DefaultConcurrency)) \in Nat \ {0}
  BY <1>2 DEF AtLeastOne
<1>4. ASSUME NEW x \in Int \union {NaN} PROVE Clamp(x) = NaN \/ Clamp(x) \in 0..10
  <2>1. CASE x = NaN
    BY <2>1 DEF Clamp
  <2>2. CASE x # NaN
    <3>1. x \in Int
      BY <2>2
    <3>2. Clamp(x) = IF x < 0 THEN 0 ELSE IF x > 10 THEN 10 ELSE x
      BY <2>2, <3>1 DEF Clamp
    <3> QED BY <3>1, <3>2
  <2> QED BY <2>1, <2>2
<1>5. config' = [interval |-> OrElse(config.interval, DefaultInterval),
                 smoothing |-> Clamp(OrElse(config.smoothing, DefaultSmoothing)),
                 batch |-> AtLeastOne(OrElse(config.batch, DefaultBatch)),
                 concurrency |-> AtLeastOne(OrElse(config.concurrency, DefaultConcurrency)),
                 endpoints |-> OrElse(config.endpoints, DefaultEndpoints)]
  BY DEF Defaults
<1>6. Clamp(OrElse(config.smoothing, DefaultSmoothing)) \in (0..10) \union {NaN}
  BY <1>2, <1>4
<1>7. Settled'
  BY <1>2, <1>3, <1>5, <1>6, OptionsApart DEF Settled
<1>8. config' \in Raw
  BY <1>2, <1>3, <1>5, <1>6 DEF Raw
<1> QED BY <1>7, <1>8

(* One more entry is a first one exactly if it is kept.                        *)
LEMMA OneMore ==
    ASSUME NEW list, NEW n \in Nat
    PROVE  /\ Met(list, n + 1) = Met(list, n) \union
                (IF Usable(list[n + 1]) THEN {Canonical(list[n + 1].url)} ELSE {})
           /\ Firsts(list, n + 1) = Firsts(list, n) \union
                (IF Usable(list[n + 1]) /\ Canonical(list[n + 1].url) \notin Met(list, n)
                 THEN {n + 1} ELSE {})
<1>1. 1..(n + 1) = (1..n) \union {n + 1} /\ n + 1 \notin 1..n /\ 1..((n + 1) - 1) = 1..n
  OBVIOUS
<1>2. Met(list, n + 1) = Met(list, n) \union
        (IF Usable(list[n + 1]) THEN {Canonical(list[n + 1].url)} ELSE {})
  BY <1>1 DEF Met
<1>3. ASSUME NEW k PROVE k \in Firsts(list, n + 1) <=>
        \/ k \in Firsts(list, n)
        \/ k = n + 1 /\ Usable(list[n + 1]) /\ Canonical(list[n + 1].url) \notin Met(list, n)
  <2>1. CASE k = n + 1
    BY <1>1, <2>1 DEF Firsts, Met
  <2>2. CASE k # n + 1
    BY <1>1, <2>2 DEF Firsts
  <2> QED BY <2>1, <2>2
<1> QED BY <1>2, <1>3

LEMMA FirstsFinite ==
    ASSUME NEW list, NEW n \in Nat
    PROVE  /\ IsFiniteSet(Firsts(list, n)) /\ Firsts(list, n) \subseteq 1..n
           /\ Cardinality(Firsts(list, n)) \in Nat
           /\ \A k : Cardinality(Firsts(list, n) \intersect (1..k)) \in Nat
           /\ \A k \in Firsts(list, n) :
                Cardinality(Firsts(list, n) \intersect (1..k)) \in 1..Cardinality(Firsts(list, n))
<1>1. Firsts(list, n) \subseteq 1..n
  BY DEF Firsts
<1>2. IsFiniteSet(1..n)
  BY FS_Interval
<1>3. IsFiniteSet(Firsts(list, n))
  BY <1>1, <1>2, FS_Subset
<1>4. ASSUME NEW k PROVE /\ IsFiniteSet(Firsts(list, n) \intersect (1..k))
                         /\ Cardinality(Firsts(list, n) \intersect (1..k)) \in Nat
                         /\ Cardinality(Firsts(list, n) \intersect (1..k)) <= Cardinality(Firsts(list, n))
  <2>1. Firsts(list, n) \intersect (1..k) \in SUBSET Firsts(list, n)
    OBVIOUS
  <2>2. /\ IsFiniteSet(Firsts(list, n) \intersect (1..k))
        /\ Cardinality(Firsts(list, n) \intersect (1..k)) <= Cardinality(Firsts(list, n))
    BY <1>3, <2>1, FS_Subset
  <2> QED BY <2>2, FS_CardinalityType
<1>5. ASSUME NEW k \in Firsts(list, n)
      PROVE  Cardinality(Firsts(list, n) \intersect (1..k)) # 0
  <2>1. k \in Firsts(list, n) \intersect (1..k)
    BY <1>1
  <2> QED BY <1>4, <2>1, FS_EmptySet
<1>6. Cardinality(Firsts(list, n)) \in Nat
  BY <1>3, FS_CardinalityType
<1>7. \A k \in Firsts(list, n) :
        Cardinality(Firsts(list, n) \intersect (1..k)) \in 1..Cardinality(Firsts(list, n))
  BY <1>4, <1>5, <1>6
<1> QED BY <1>1, <1>3, <1>4, <1>6, <1>7
-----------------------------------------------------------------------------

LEMMA InitSound == Init => IInv
<1> SUFFICES ASSUME Init PROVE IInv
  OBVIOUS
<1>1. phase = "load" /\ config = Empty /\ pos = 0 /\ seen = {} /\ kept = <<>>
  BY DEF Init
<1>2. Empty \in Raw
  BY DEF Empty, Raw
<1>3. TypeOK
  BY <1>1, <1>2 DEF TypeOK
<1> QED BY <1>1, <1>3 DEF IInv, FirstValidWins

(* The loop over the list: what has been seen and kept goes with its position.  *)
LEMMA ExamineSound == IInv /\ Examine => IInv'
<1> SUFFICES ASSUME IInv, Examine PROVE IInv'
  OBVIOUS
<1> DEFINE list == config.endpoints
           n == pos + 1
           e == Cleaned(list[n])
           url == Canonical(list[n].url)
           new == Usable(list[n]) /\ url \notin seen
<1>1. /\ phase = "validate" /\ phase' = "validate" /\ config' = config /\ pos' = n
      /\ list \in Seq(Entry) /\ pos \in Nat /\ n \in 1..Len(list)
      /\ Settled /\ Passed /\ seen = Met(list, pos) /\ FirstValidWins
      /\ seen \subseteq Url /\ kept \in Seq(Entry)
  BY DEF IInv, TypeOK, Settled, Examine
<1>2. list[n] \in Entry
  BY <1>1
<1>3. e \in Entry /\ e.url = url /\ e.rate = list[n].rate /\ e.burst = list[n].burst /\ url \in Url
  BY <1>2, CanonicalTyped
<1>4. IF new THEN seen' = seen \union {url} /\ kept' = Append(kept, e)
             ELSE seen' = seen /\ kept' = kept
  <2>1. IF Usable(list[n]) /\ e.url \notin seen
        THEN seen' = seen \union {e.url} /\ kept' = Append(kept, e)
        ELSE seen' = seen /\ kept' = kept
    BY DEF Examine
  <2> HIDE DEF e, list, n, url
  <2> QED BY <1>3, <2>1
<1>5. /\ Met(list, n) = Met(list, pos) \union (IF Usable(list[n]) THEN {url} ELSE {})
      /\ Firsts(list, n) = Firsts(list, pos) \union (IF new THEN {n} ELSE {})
  BY <1>1, OneMore
<1>6. new => list[n].rate \in 1..MaxRateLimit /\ list[n].burst \in 1..MaxBurstSize
  BY DEF Usable
<1>7. list' = list
  BY <1>1
<1> HIDE DEF list, e, url, n, new
<1>8. seen' = Met(list, n) /\ seen' \subseteq Url
  BY <1>1, <1>3, <1>4, <1>5 DEF new
<1>9. CASE new
  <2>1. /\ kept' \in Seq(Entry) /\ Len(kept') = Len(kept) + 1 /\ kept'[Len(kept')] = e
        /\ \A k \in 1..Len(kept) : kept'[k] = kept[k]
        /\ DOMAIN kept' = 1..(Len(kept) + 1) /\ DOMAIN kept = 1..Len(kept) /\ Len(kept) \in Nat
    <3>1. kept \in Seq(Entry) /\ e \in Entry /\ kept' = Append(kept, e)
      BY <1>1, <1>3, <1>4, <1>9
    <3> QED BY <3>1
  <2>2. Passed'
    <3>1. ASSUME NEW k \in DOMAIN kept'
          PROVE  /\ kept'[k].rate \in 1..MaxRateLimit /\ kept'[k].burst \in 1..MaxBurstSize
                 /\ kept'[k].url \in seen'
                 /\ k = Len(kept') => kept'[k].url = url
                 /\ k # Len(kept') => kept'[k].url \in seen /\ k \in DOMAIN kept /\ kept'[k] = kept[k]
      <4>1. CASE k = Len(kept')
        BY <1>3, <1>4, <1>6, <1>9, <2>1, <4>1
      <4>2. CASE k # Len(kept')
        <5>1. k \in DOMAIN kept /\ kept'[k] = kept[k]
          BY <2>1, <4>2
        <5> QED BY <1>1, <1>4, <1>9, <4>2, <5>1 DEF Passed
      <4> QED BY <4>1, <4>2
    <3>2. url \notin seen
      BY <1>9 DEF new
    <3>3. ASSUME NEW k \in DOMAIN kept', NEW m \in DOMAIN kept', kept'[k].url = kept'[m].url
          PROVE  k = m
      <4>1. CASE k = Len(kept') \/ m = Len(kept')
        BY <3>1, <3>2, <3>3, <4>1
      <4>2. CASE k # Len(kept') /\ m # Len(kept')
        BY <1>1, <3>1, <3>3, <4>2 DEF Passed
      <4> QED BY <4>1, <4>2
    <3> QED BY <3>1, <3>3 DEF Passed
  <2>3. FirstValidWins'
    <3> DEFINE F == Firsts(list, pos)
               G == Firsts(list, n)
    <3>1. /\ Len(kept) = Cardinality(F)
          /\ \A k \in F : kept[Cardinality(F \intersect (1..k))] = Cleaned(list[k])
      BY <1>1 DEF FirstValidWins, list
    <3>2. /\ IsFiniteSet(F) /\ F \subseteq 1..pos /\ Cardinality(F) \in Nat
          /\ \A k \in F : Cardinality(F \intersect (1..k)) \in 1..Cardinality(F)
      BY <1>1, FirstsFinite
    <3>3. G = F \union {n} /\ n = pos + 1
      BY <1>5, <1>9 DEF n
    <3>4. n \notin F
      BY <1>1, <3>2, <3>3
    <3> HIDE DEF F, G
    <3>5. Cardinality(G) = Cardinality(F) + 1
      BY <3>2, <3>3, <3>4, FS_AddElement
    <3>6. ASSUME NEW k \in G PROVE kept'[Cardinality(G \intersect (1..k))] = Cleaned(list[k])
      <4>1. CASE k = n
        <5>a. pos \in Nat
          BY <1>1
        <5>b. \A m \in G : m \in 1..k
          BY <3>2, <3>3, <4>1, <5>a
        <5>1. G \intersect (1..k) = G
          BY <5>b
        <5>2. Cardinality(G \intersect (1..k)) = Len(kept')
          BY <2>1, <3>1, <3>5, <5>1
        <5> QED BY <2>1, <4>1, <5>2 DEF e
      <4>2. CASE k # n
        <5>1. k \in F /\ k \in 1..pos
          BY <3>2, <3>3, <4>2
        <5>2. G \intersect (1..k) = F \intersect (1..k)
          BY <1>1, <3>2, <3>3, <5>1
        <5>3. Cardinality(F \intersect (1..k)) \in 1..Len(kept)
          BY <3>1, <3>2, <5>1
        <5> QED BY <2>1, <3>1, <5>1, <5>2, <5>3
      <4> QED BY <4>1, <4>2
    <3>7. Len(kept') = Cardinality(G)
      BY <2>1, <3>1, <3>5
    <3>8. pos' = n /\ config'.endpoints = list
      BY <1>1 DEF list
    <3> QED BY <3>6, <3>7, <3>8 DEF FirstValidWins, G
  <2> QED BY <1>1, <1>7, <1>8, <2>1, <2>2, <2>3 DEF IInv, TypeOK, Settled, list
<1>10. CASE ~ new
  <2>1. kept' = kept /\ seen' = seen /\ Firsts(list, n) = Firsts(list, pos)
    BY <1>4, <1>5, <1>10
  <2>2. Passed'
    BY <1>1, <2>1 DEF Passed
  <2>3. FirstValidWins'
    <3>1. LET F == Firsts(list, n)
          IN  /\ Len(kept) = Cardinality(F)
              /\ \A k \in F : kept[Cardinality(F \intersect (1..k))] = Cleaned(list[k])
      BY <1>1, <2>1 DEF FirstValidWins, list
    <3>2. pos' = n /\ config'.endpoints = list
      BY <1>1 DEF list
    <3> QED BY <2>1, <3>1, <3>2 DEF FirstValidWins
  <2> QED BY <1>1, <1>7, <1>8, <2>1, <2>2, <2>3 DEF IInv, TypeOK, Settled, list
<1> QED BY <1>9, <1>10

(* The end of the list: what has passed the checks is left as it is.           *)
LEMMA FinishSound == IInv /\ Finish => IInv'
<1> SUFFICES ASSUME IInv, Finish PROVE IInv'
  OBVIOUS
<1>1. /\ phase = "validate" /\ config' = config /\ pos' = pos /\ seen' = seen
      /\ phase' = IF kept = <<>> THEN "failed" ELSE "done"
      /\ kept' = [k \in DOMAIN kept |->
                    [kept[k] EXCEPT !.rate = AtLeastOne(kept[k].rate),
                                    !.burst = AtLeastOne(kept[k].burst),
                                    !.weight = OrElse(kept[k].weight, DefaultWeight)]]
  BY DEF Finish
<1>2. /\ kept \in Seq(Entry) /\ DOMAIN kept = 1..Len(kept) /\ Len(kept) \in Nat
      /\ Settled /\ Passed /\ TypeOK
  <2>1. Settled /\ Passed /\ TypeOK
    BY <1>1 DEF IInv
  <2>2. kept \in Seq(Entry)
    BY <2>1 DEF TypeOK
  <2>3. DOMAIN kept = 1..Len(kept) /\ Len(kept) \in Nat
    BY <2>2
  <2> QED BY <2>1, <2>2, <2>3
<1>3. ASSUME NEW k \in DOMAIN kept
      PROVE  /\ kept'[k] \in Entry /\ kept'[k].url = kept[k].url
             /\ kept'[k].rate = kept[k].rate /\ kept'[k].burst = kept[k].burst
             /\ kept'[k].weight # None
  <2>1. kept[k] \in Entry /\ kept[k].weight \in Nat \union {None}
    <3>1. kept \in Seq(Entry) /\ k \in 1..Len(kept)
      BY <1>2
    <3>2. kept[k] \in Entry
      BY <3>1
    <3> QED BY <3>2 DEF Entry
  <2>2. AtLeastOne(kept[k].rate) = kept[k].rate /\ AtLeastOne(kept[k].burst) = kept[k].burst
    BY <1>2, ConfigAssumption DEF AtLeastOne, Passed
  <2>3. OrElse(kept[k].weight, DefaultWeight) \in Nat
    BY <2>1, Chosen, ConfigAssumption
  <2>4. kept'[k] = [kept[k] EXCEPT !.rate = kept[k].rate, !.burst = kept[k].burst,
                                   !.weight = OrElse(kept[k].weight, DefaultWeight)]
    BY <1>1, <2>2
  <2>5. kept'[k] \in Entry /\ kept'[k].url = kept[k].url
        /\ kept'[k].rate = kept[k].rate /\ kept'[k].burst = kept[k].burst
        /\ kept'[k].weight \in Nat
    BY <2>1, <2>3, <2>4 DEF Entry
  <2> QED BY <2>5, OptionsApart
<1>4. DOMAIN kept' = DOMAIN kept
  BY <1>1
<1>5. kept' \in Seq(Entry) /\ (kept # <<>> => kept' # <<>>)
  <2>1. kept' = [k \in 1..Len(kept) |-> kept'[k]]
    BY <1>1, <1>2
  <2>2. \A k \in 1..Len(kept) : kept'[k] \in Entry
    BY <1>2, <1>3
  <2>3. kept' \in [1..Len(kept) -> Entry]
    BY <2>1, <2>2
  <2>4. kept' \in Seq(Entry) /\ Len(kept') = Len(kept)
    BY <1>2, <2>3
  <2> QED BY <1>2, <2>4
<1>6. Passed'
  <2>1. ASSUME NEW k \in DOMAIN kept'
        PROVE  /\ kept'[k].rate \in 1..MaxRateLimit /\ kept'[k].burst \in 1..MaxBurstSize
               /\ kept'[k].url \in seen'
    <3>1. k \in DOMAIN kept /\ seen' = seen
      BY <1>1, <1>4
    <3>2. kept[k].rate \in 1..MaxRateLimit /\ kept[k].burst \in 1..MaxBurstSize
          /\ kept[k].url \in seen
      BY <1>2, <3>1 DEF Passed
    <3>3. /\ kept'[k].url = kept[k].url
          /\ kept'[k].rate = kept[k].rate /\ kept'[k].burst = kept[k].burst
      BY <1>3, <3>1
    <3> QED BY <3>1, <3>2, <3>3
  <2>2. ASSUME NEW k \in DOMAIN kept', NEW m \in DOMAIN kept', kept'[k].url = kept'[m].url
        PROVE  k = m
    <3>1. k \in DOMAIN kept /\ m \in DOMAIN kept /\ kept[k].url = kept[m].url
      BY <1>3, <1>4, <2>2
    <3> QED BY <1>2, <3>1 DEF Passed
  <2> QED BY <2>1, <2>2 DEF Passed
<1>7. phase' = "done" => kept' # <<>> /\ \A k \in DOMAIN kept' : kept'[k].weight # None
  BY <1>1, <1>3, <1>4, <1>5
<1>8. Settled' /\ TypeOK'
  BY <1>1, <1>2, <1>5 DEF Settled, TypeOK
<1> QED BY <1>1, <1>6, <1>7, <1>8 DEF IInv, FirstValidWins

LEMMA NextSound == IInv /\ [Next]_vars => IInv'
<1> SUFFICES ASSUME IInv, [Next]_vars PROVE IInv'
  OBVIOUS
<1>1. CASE LoadFile
  <2>1. config' \in Raw
    BY <1>1, ConfigAssumption DEF LoadFile
  <2> QED BY <1>1, <2>1 DEF LoadFile, IInv, TypeOK, FirstValidWins
<1>2. CASE NoFile \/ BrokenFile
  BY <1>2 DEF NoFile, BrokenFile, IInv, TypeOK, FirstValidWins
<1>3. CASE Defaults
  <2>1. /\ phase' = "validate" /\ kept' = <<>> /\ pos' = 0 /\ seen' = {}
        /\ config \in Raw
    BY <1>3 DEF Defaults, IInv, TypeOK
  <2>2. Settled' /\ config' \in Raw
    BY <1>3, <2>1, DefaultsSettle
  <2>3. Passed'
    BY <2>1 DEF Passed
  <2>4. Met(config'.endpoints, 0) = {} /\ Firsts(config'.endpoints, 0) = {}
    BY DEF Met, Firsts
  <2>5. FirstValidWins'
    BY <2>1, <2>4, FS_EmptySet DEF FirstValidWins
  <2>6. TypeOK'
    BY <2>1, <2>2 DEF TypeOK, Settled
  <2>7. pos' <= Len(config'.endpoints) /\ seen' = Met(config'.endpoints, pos')
    BY <2>1, <2>2, <2>4 DEF Settled
  <2> QED BY <2>1, <2>2, <2>3, <2>5, <2>6, <2>7 DEF IInv
<1>4. CASE Examine
  BY <1>4, ExamineSound
<1>5. CASE Finish
  BY <1>5, FinishSound
<1>6. CASE UNCHANGED vars
  BY <1>6 DEF vars, IInv, TypeOK, Settled, Passed, FirstValidWins
<1> QED BY <1>1, <1>2, <1>3, <1>4, <1>5, <1>6 DEF Next

LEMMA AlwaysSound == Spec => []IInv
BY InitSound, NextSound, PTL DEF Spec

(* Every step of the load is well typed, for any file.                         *)
THEOREM TypeCorrect == Spec => []TypeOK
<1>1. IInv => TypeOK
  BY DEF IInv
<1> QED BY <1>1, AlwaysSound, PTL

(* Of the entries that are one url, the first usable one is kept, in the order  *)
(* of the file, for a list of any length.                                      *)
THEOREM FirstValidAlwaysWins == Spec => []FirstValidWins
<1>1. IInv => FirstValidWins
  BY DEF IInv
<1> QED BY <1>1, AlwaysSound, PTL

(* A configuration that finalize returns has an endpoint, no url twice, limits  *)
(* of which a limiter can be built, every setting, and no size that lets        *)
(* nothing in (finalize, validate_and_dedupe_endpoints).  An interval of 0 and  *)
(* a factor that is no number pass.                                           *)
THEOREM FinalCanAlwaysBeBuilt == Spec => []FinalCanBeBuilt
<1>1. IInv => FinalCanBeBuilt
  <2> SUFFICES ASSUME IInv, phase = "done" PROVE FinalCanBeBuilt
    BY DEF FinalCanBeBuilt
  <2>1. config.smoothing \in (0..10) \union {NaN}
    BY DEF IInv, Settled
  <2> QED BY <2>1 DEF IInv, Settled, Passed, FinalCanBeBuilt
<1> QED BY <1>1, AlwaysSound, PTL
=============================================================================
