--------------------------- MODULE SelectionProofs ---------------------------
(* Whatever selections run side by side, and whatever tokens, costs, timestamps *)
(* and cooldowns do meanwhile: a selection serves from the heaviest endpoint    *)
(* that could, gives up only if none could, and follows one ranking as long as  *)
(* the ranking holds still.  For any endpoints, weights, bursts and threads.    *)
EXTENDS SelectionHistory, FiniteSetTheorems, TLAPS

Trial == [at : Phases, n : BatchSizes \union {0}, order : Seq(Urls), later : SUBSET Urls]

SelTyped ==
    /\ available \in SUBSET Urls
    /\ tokens \in [Urls -> Nat] /\ \A u \in Urls : tokens[u] <= Burst[u]
    /\ cost \in [Costed -> Costs]
    /\ last \in [Urls -> 0..MaxNow]
    /\ now \in 1..MaxNow
    /\ sel \in [Threads -> Trial]

TypeInv ==
    /\ SelTyped
    /\ able \in [Threads -> SUBSET Urls]
    /\ quiet \in [Threads -> BOOLEAN]

Ranked(u, v, c, l) == Smaller(SelectionKey(u, c, l), SelectionKey(v, c, l))

(* Somebody who could have served has not been asked yet; those who are yet to  *)
(* be asked are so in the order of their weights and, while nothing has moved,  *)
(* in that of the ranking.                                                     *)
Fair(s, could, still, c, l) ==
    /\ s.at = "try" =>
         /\ \A u \in could : u \in s.later \/ \E i \in 1..Len(s.order) : s.order[i] = u
         /\ \A i, j \in 1..Len(s.order) :
              i < j => /\ Weight[s.order[i]] >= Weight[s.order[j]]
                       /\ still => Ranked(s.order[i], s.order[j], c, l)
         /\ \A i \in 1..Len(s.order), v \in s.later : Weight[s.order[i]] > Weight[v]
    /\ s.at = "picked" =>
         /\ s.order # << >>
         /\ \A u \in could : Weight[u] <= Weight[Head(s.order)]
         /\ still => \A u \in could \ {Head(s.order)} : Ranked(Head(s.order), u, c, l)
    /\ s.at \in {"idle", "none"} => could = {}

IInv == TypeInv /\ \A t \in Threads : Fair(sel[t], able[t], quiet[t], cost, last)

-----------------------------------------------------------------------------
(* The ranking.                                                               *)
LEMMA RankedIsWeighed ==
    ASSUME NEW u \in Urls, NEW v \in Urls, NEW c, NEW l,
           Ranked(u, v, c, l)
    PROVE  Weight[u] >= Weight[v]
<1> DEFINE k == SelectionKey(u, c, l)
           m == SelectionKey(v, c, l)
<1>1. k[1] = -Weight[u] /\ m[1] = -Weight[v] /\ Weight[u] \in Nat /\ Weight[v] \in Nat
  BY StrategyAssumption DEF SelectionKey
<1>2. PICK i \in 1..4 : k[i] < m[i] /\ \A j \in 1..(i - 1) : k[j] = m[j]
  BY DEF Ranked, Smaller
<1> HIDE DEF k, m
<1>3. CASE i = 1
  BY <1>1, <1>2, <1>3
<1>4. CASE i # 1
  <2>1. 1 \in 1..(i - 1)
    BY <1>4
  <2>2. k[1] = m[1]
    BY <1>2, <2>1
  <2> QED BY <1>1, <2>2
<1> QED BY <1>3, <1>4

LEMMA HeavierIsRanked ==
    ASSUME NEW u \in Urls, NEW v \in Urls, NEW c, NEW l, Weight[u] > Weight[v]
    PROVE  Ranked(u, v, c, l)
<1> DEFINE k == SelectionKey(u, c, l)
           m == SelectionKey(v, c, l)
<1>1. k[1] = -Weight[u] /\ m[1] = -Weight[v] /\ Weight[u] \in Nat /\ Weight[v] \in Nat
  BY StrategyAssumption DEF SelectionKey
<1> HIDE DEF k, m
<1>2. k[1] < m[1]
  BY <1>1
<1>3. Smaller(k, m)
  BY <1>2 DEF Smaller
<1> QED BY <1>3 DEF Ranked, k, m

(* An endpoint of a later tier weighs less.                                   *)
LEMMA LaterIsLighter ==
    ASSUME NEW S \in SUBSET Urls, NEW u \in BestTier(S), NEW v \in S \ BestTier(S)
    PROVE  Weight[u] > Weight[v]
<1>1. u \in Urls /\ v \in Urls /\ Weight[u] \in Nat /\ Weight[v] \in Nat
  BY StrategyAssumption DEF BestTier
<1>2. /\ Tier(u) \in 1..4 /\ Tier(v) \in 1..4
      /\ \A w \in S : Tier(w) \in 1..4
  BY DEF Tier, Tier1MinWeight, Tier2MinWeight, Tier3MinWeight
<1>3. Tier(u) < Tier(v)
  <2>1. PICK w \in S : ~ (Tier(v) <= Tier(w))
    BY DEF BestTier
  <2>2. Tier(u) <= Tier(w)
    BY DEF BestTier
  <2> QED BY <1>2, <2>1, <2>2
<1> QED BY <1>1, <1>3 DEF Tier, Tier1MinWeight, Tier2MinWeight, Tier3MinWeight

LEMMA Sorted ==
    ASSUME NEW S \in SUBSET Urls, NEW c, NEW l, NEW order \in SelectionOrders(S, c, l)
    PROVE  /\ order \in Seq(S)
           /\ \A i \in 1..Len(order) : order[i] \in S
           /\ \A u \in S : \E i \in 1..Len(order) : order[i] = u
           /\ \A i, j \in 1..Len(order) :
                i < j => Ranked(order[i], order[j], c, l)
<1>1. Cardinality(S) \in Nat
  <2>1. IsFiniteSet(S)
    BY FS_Subset, StrategyAssumption
  <2> QED BY <2>1, FS_CardinalityType
<1>2. /\ order \in [1..Cardinality(S) -> S]
      /\ \A u \in S : \E i \in 1..Cardinality(S) : order[i] = u
      /\ \A i, j \in 1..Cardinality(S) :
           i < j => Ranked(order[i], order[j], c, l)
  BY DEF SelectionOrders, Arranged, Ranked
<1>3. order \in Seq(S) /\ Len(order) = Cardinality(S)
  BY <1>1, <1>2
<1> QED BY <1>2, <1>3

LEMMA WeighedSorted ==
    ASSUME NEW S \in SUBSET Urls, NEW order \in WeighedOrders(S)
    PROVE  /\ order \in Seq(S)
           /\ \A i \in 1..Len(order) : order[i] \in S
           /\ \A u \in S : \E i \in 1..Len(order) : order[i] = u
           /\ \A i, j \in 1..Len(order) : i < j => Weight[order[i]] >= Weight[order[j]]
<1>1. Cardinality(S) \in Nat
  <2>1. IsFiniteSet(S)
    BY FS_Subset, StrategyAssumption
  <2> QED BY <2>1, FS_CardinalityType
<1>2. /\ order \in [1..Cardinality(S) -> S]
      /\ \A u \in S : \E i \in 1..Cardinality(S) : order[i] = u
      /\ \A i, j \in 1..Cardinality(S) : i < j => Weight[order[i]] >= Weight[order[j]]
  BY DEF WeighedOrders
<1>3. order \in Seq(S) /\ Len(order) = Cardinality(S)
  BY <1>1, <1>2
<1> QED BY <1>2, <1>3

(* An undisturbed sort is one that respects the weights.                       *)
LEMMA SortedIsWeighed ==
    ASSUME NEW S \in SUBSET Urls, NEW c, NEW l, NEW order \in SelectionOrders(S, c, l)
    PROVE  order \in WeighedOrders(S)
<1>1. /\ order \in [1..Cardinality(S) -> S]
      /\ \A u \in S : \E i \in 1..Cardinality(S) : order[i] = u
      /\ \A i, j \in 1..Cardinality(S) : i < j => Ranked(order[i], order[j], c, l)
  BY DEF SelectionOrders, Arranged, Ranked
<1>2. \A i \in 1..Cardinality(S) : order[i] \in Urls
  BY <1>1
<1>3. \A i, j \in 1..Cardinality(S) : i < j => Weight[order[i]] >= Weight[order[j]]
  BY <1>1, <1>2, RankedIsWeighed
<1> QED BY <1>1, <1>3 DEF WeighedOrders

-----------------------------------------------------------------------------
(* Types.                                                                     *)
LEMMA TrialTyped ==
    ASSUME SelTyped, NEW t \in Threads
    PROVE  /\ sel[t] \in Trial /\ sel[t].at \in Phases /\ sel[t].n \in BatchSizes \union {0}
           /\ sel[t].n \in Nat
           /\ sel[t].order \in Seq(Urls) /\ sel[t].later \in SUBSET Urls
           /\ Candidates \in SUBSET Urls
<1>1. sel[t] \in Trial
  BY DEF SelTyped
<1>2. /\ sel[t].at \in Phases /\ sel[t].n \in BatchSizes \union {0}
      /\ sel[t].order \in Seq(Urls) /\ sel[t].later \in SUBSET Urls
  BY <1>1 DEF Trial
<1>3. sel[t].n \in Nat
  <2>1. \A n \in BatchSizes : n \in Nat
    BY SelectionAssumption
  <2>2. sel[t].n \in BatchSizes \/ sel[t].n = 0
    BY <1>2
  <2> QED BY <2>1, <2>2
<1>4. Candidates \in SUBSET Urls
  BY DEF SelTyped, Candidates
<1> QED BY <1>1, <1>2, <1>3, <1>4

LEMMA Selected ==
    ASSUME SelTyped, NEW t \in Threads, NEW s \in Trial, sel' = [sel EXCEPT ![t] = s]
    PROVE  /\ sel' \in [Threads -> Trial] /\ sel'[t] = s
           /\ \A r \in Threads : r # t => sel'[r] = sel[r]
BY DEF SelTyped

LEMMA BeginStep ==
    ASSUME SelTyped, NEW t \in Threads, NEW n \in BatchSizes, Begin(t, n)
    PROVE  /\ SelTyped'
           /\ \A r \in Threads : r # t => sel'[r] = sel[r]
           /\ Done(t) /\ Candidates \in SUBSET Urls
           /\ sel'[t] = IF Candidates = {}
                        THEN [at |-> "none", n |-> 0, order |-> << >>, later |-> {}]
                        ELSE [at |-> "try", n |-> n, order |-> << >>, later |-> Candidates]
<1> DEFINE s == IF Candidates = {}
                THEN [at |-> "none", n |-> 0, order |-> << >>, later |-> {}]
                ELSE [at |-> "try", n |-> n, order |-> << >>, later |-> Candidates]
<1>1. /\ Done(t) /\ sel' = [sel EXCEPT ![t] = s]
      /\ UNCHANGED <<available, tokens, cost, last, now>>
  BY DEF Begin, Finish, NoSelection
<1>2. Candidates \in SUBSET Urls
  BY TrialTyped
<1>3. s \in Trial
  BY <1>2 DEF Trial, Phases
<1> HIDE DEF s
<1>4. /\ sel' \in [Threads -> Trial] /\ sel'[t] = s
      /\ \A r \in Threads : r # t => sel'[r] = sel[r]
  BY <1>1, <1>3, Selected
<1>5. SelTyped'
  BY <1>1, <1>4 DEF SelTyped
<1> QED BY <1>1, <1>2, <1>4, <1>5 DEF s

LEMMA SortTierStep ==
    ASSUME SelTyped, NEW t \in Threads, SortTier(t) \/ SortDisturbed(t)
    PROVE  /\ SelTyped'
           /\ \A r \in Threads : r # t => sel'[r] = sel[r]
           /\ UNCHANGED <<tokens, cost, last>>
           /\ sel[t].at = "try" /\ sel[t].order = << >> /\ sel[t].later \in SUBSET Urls
           /\ sel'[t].at = "try" /\ sel'[t].n = sel[t].n
           /\ sel'[t].later = sel[t].later \ BestTier(sel[t].later)
           /\ sel'[t].order \in WeighedOrders(BestTier(sel[t].later))
           /\ SortTier(t) => sel'[t].order \in SelectionOrders(BestTier(sel[t].later), cost, last)
<1> DEFINE S == BestTier(sel[t].later)
           rest == sel[t].later \ S
<1>1. /\ sel[t].at = "try" /\ sel[t].order = << >>
      /\ UNCHANGED <<available, tokens, cost, last, now>>
  BY DEF SortTier, SortDisturbed
<1>2. sel[t] \in Trial /\ sel[t].later \in SUBSET Urls
  BY TrialTyped
<1>3. S \in SUBSET Urls /\ rest \in SUBSET Urls
  BY <1>2 DEF BestTier
<1>4. ASSUME NEW order \in WeighedOrders(S),
             sel' = [sel EXCEPT ![t].order = order, ![t].later = rest]
      PROVE  /\ SelTyped'
             /\ \A r \in Threads : r # t => sel'[r] = sel[r]
             /\ sel'[t].at = "try" /\ sel'[t].n = sel[t].n
             /\ sel'[t].order = order /\ sel'[t].later = rest
  <2>1. order \in Seq(Urls)
    <3>1. order \in Seq(S)
      BY <1>3, WeighedSorted
    <3> QED BY <1>3, <3>1
  <2> DEFINE s == [sel[t] EXCEPT !.order = order, !.later = rest]
  <2>2. sel' = [sel EXCEPT ![t] = s]
    BY <1>4
  <2>3. s \in Trial /\ s.at = "try" /\ s.n = sel[t].n /\ s.order = order /\ s.later = rest
    <3> HIDE DEF rest
    <3> QED BY <1>1, <1>2, <1>3, <2>1 DEF Trial
  <2> HIDE DEF s
  <2>4. /\ sel' \in [Threads -> Trial] /\ sel'[t] = s
        /\ \A r \in Threads : r # t => sel'[r] = sel[r]
    BY <2>2, <2>3, Selected
  <2>5. SelTyped'
    BY <1>1, <2>4 DEF SelTyped
  <2> QED BY <2>3, <2>4, <2>5
<1>5. ASSUME SortTier(t)
      PROVE  \E order \in SelectionOrders(S, cost, last) :
               /\ order \in WeighedOrders(S)
               /\ sel' = [sel EXCEPT ![t].order = order, ![t].later = rest]
  <2>1. PICK order \in SelectionOrders(S, cost, last) :
               sel' = [sel EXCEPT ![t].order = order, ![t].later = @ \ BestTier(@)]
    BY <1>5 DEF SortTier
  <2> HIDE DEF S
  <2>2. order \in WeighedOrders(S)
    BY <1>3, SortedIsWeighed
  <2> QED BY <2>1, <2>2 DEF S
<1>6. ASSUME ~ SortTier(t)
      PROVE  \E order \in WeighedOrders(S) :
               sel' = [sel EXCEPT ![t].order = order, ![t].later = rest]
  BY <1>6 DEF SortDisturbed
<1> HIDE DEF S, rest
<1>7. CASE SortTier(t)
  <2>1. PICK order \in SelectionOrders(S, cost, last) :
               /\ order \in WeighedOrders(S)
               /\ sel' = [sel EXCEPT ![t].order = order, ![t].later = rest]
    BY <1>5, <1>7
  <2> QED BY <1>1, <1>2, <1>4, <2>1 DEF S, rest
<1>8. CASE ~ SortTier(t)
  <2>1. PICK order \in WeighedOrders(S) :
               sel' = [sel EXCEPT ![t].order = order, ![t].later = rest]
    BY <1>6, <1>8
  <2> QED BY <1>1, <1>2, <1>4, <1>8, <2>1 DEF S, rest
<1> QED BY <1>7, <1>8

LEMMA ReserveStep ==
    ASSUME SelTyped, NEW t \in Threads, Reserve(t)
    PROVE  /\ SelTyped'
           /\ \A r \in Threads : r # t => sel'[r] = sel[r]
           /\ UNCHANGED <<cost, last>>
           /\ sel[t].at = "try" /\ sel[t].order # << >>
           /\ IF Grants(Head(sel[t].order), sel[t].n)
              THEN sel'[t].at = "picked" /\ sel'[t].order = <<Head(sel[t].order)>>
              ELSE /\ tokens' = tokens
                   /\ sel'[t].at = "try" /\ sel'[t].n = sel[t].n
                   /\ sel'[t].order = Tail(sel[t].order) /\ sel'[t].later = sel[t].later
<1> DEFINE u == Head(sel[t].order)
           n == sel[t].n
<1>1. /\ sel[t].at = "try" /\ sel[t].order # << >>
      /\ UNCHANGED <<available, cost, last, now>>
  BY DEF Reserve
<1>2. sel[t] \in Trial /\ n \in Nat /\ sel[t].order \in Seq(Urls)
  BY TrialTyped
<1>3. u \in Urls /\ Tail(sel[t].order) \in Seq(Urls) /\ <<u>> \in Seq(Urls)
  BY <1>1, <1>2
<1>4. CASE Grants(u, n)
  <2> DEFINE s == [sel[t] EXCEPT !.at = "picked", !.order = <<u>>, !.later = {}]
  <2>1. /\ tokens' = [tokens EXCEPT ![u] = IF u \in Unlimited THEN @ ELSE @ - n]
        /\ sel' = [sel EXCEPT ![t].at = "picked", ![t].order = <<u>>, ![t].later = {}]
    BY <1>4 DEF Reserve
  <2>2. sel' = [sel EXCEPT ![t] = s]
    BY <2>1
  <2>3. s \in Trial /\ s.at = "picked" /\ s.order = <<u>>
    <3> HIDE DEF u, n
    <3> QED BY <1>2, <1>3 DEF Trial, Phases
  <2> HIDE DEF s
  <2>4. /\ sel' \in [Threads -> Trial] /\ sel'[t] = s
        /\ \A r \in Threads : r # t => sel'[r] = sel[r]
    BY <2>2, <2>3, Selected
  <2>5. tokens' \in [Urls -> Nat] /\ \A v \in Urls : tokens'[v] <= Burst[v]
    <3> HIDE DEF u, n
    <3>1. tokens[u] \in Nat /\ (u \notin Unlimited => tokens[u] >= n)
      BY <1>3, <1>4 DEF SelTyped, Grants
    <3>2. \A v \in Urls : Burst[v] \in Nat /\ tokens[v] \in Nat /\ tokens[v] <= Burst[v]
      BY SelectionAssumption DEF SelTyped
    <3> QED BY <1>2, <1>3, <2>1, <3>1, <3>2 DEF SelTyped, n
  <2>6. SelTyped'
    BY <1>1, <2>4, <2>5 DEF SelTyped
  <2> QED BY <1>1, <1>4, <2>3, <2>4, <2>6
<1>5. CASE ~ Grants(u, n)
  <2> DEFINE rest == Tail(sel[t].order)
             s == [sel[t] EXCEPT !.order = rest]
  <2>1. tokens' = tokens /\ sel' = [sel EXCEPT ![t].order = Tail(@)]
    BY <1>5 DEF Reserve
  <2>2. sel' = [sel EXCEPT ![t] = s]
    BY <2>1
  <2>3. /\ s \in Trial /\ s.at = "try" /\ s.n = sel[t].n
        /\ s.order = rest /\ s.later = sel[t].later
    <3>1. rest \in Seq(Urls)
      BY <1>3
    <3> HIDE DEF rest
    <3> QED BY <1>1, <1>2, <3>1 DEF Trial
  <2> HIDE DEF s
  <2>4. /\ sel' \in [Threads -> Trial] /\ sel'[t] = s
        /\ \A r \in Threads : r # t => sel'[r] = sel[r]
    BY <2>2, <2>3, Selected
  <2>5. SelTyped'
    BY <1>1, <2>1, <2>4 DEF SelTyped
  <2> QED BY <1>1, <1>5, <2>1, <2>3, <2>4, <2>5
<1> QED BY <1>4, <1>5

LEMMA EndStep ==
    ASSUME SelTyped, NEW t \in Threads, GiveUp(t) \/ Store(t),
           Store(t) => sel[t].order # << >>
    PROVE  /\ SelTyped'
           /\ \A r \in Threads : r # t => sel'[r] = sel[r]
           /\ GiveUp(t) => /\ sel[t].at = "try" /\ sel[t].order = << >> /\ sel[t].later = {}
                           /\ sel'[t].at = "none"
           /\ Store(t) => sel'[t].at = "idle"
<1>1. CASE GiveUp(t)
  <2> DEFINE s == [at |-> "none", n |-> 0, order |-> << >>, later |-> {}]
  <2>1. /\ sel[t].at = "try" /\ sel[t].order = << >> /\ sel[t].later = {}
        /\ sel' = [sel EXCEPT ![t] = s] /\ UNCHANGED <<available, tokens, cost, last, now>>
    BY <1>1 DEF GiveUp, Finish, NoSelection
  <2>2. s \in Trial
    BY DEF Trial, Phases
  <2>3. /\ sel' \in [Threads -> Trial] /\ sel'[t] = s
        /\ \A r \in Threads : r # t => sel'[r] = sel[r]
    BY <2>1, <2>2, Selected
  <2>4. SelTyped' /\ ~ Store(t)
    BY <2>1, <2>3 DEF SelTyped, Store
  <2> QED BY <2>1, <2>3, <2>4
<1>2. CASE Store(t)
  <2> DEFINE s == [at |-> "idle", n |-> 0, order |-> << >>, later |-> {}]
             u == Head(sel[t].order)
  <2>1. /\ sel[t].at = "picked" /\ last' = [last EXCEPT ![u] = now]
        /\ sel' = [sel EXCEPT ![t] = s] /\ UNCHANGED <<available, tokens, cost, now>>
    <3>1. [NoSelection EXCEPT !.at = "idle"] = s
      BY DEF NoSelection
    <3> QED BY <1>2, <3>1 DEF Store, Finish
  <2>2. s \in Trial
    BY DEF Trial, Phases
  <2>3. /\ sel' \in [Threads -> Trial] /\ sel'[t] = s
        /\ \A r \in Threads : r # t => sel'[r] = sel[r]
    BY <2>1, <2>2, Selected
  <2>4. u \in Urls
    <3>1. sel[t].order \in Seq(Urls) /\ sel[t].order # << >>
      BY <1>2, TrialTyped
    <3> QED BY <3>1
  <2>5. now \in 0..MaxNow
    BY SelectionAssumption DEF SelTyped
  <2> HIDE DEF u
  <2>6. last' \in [Urls -> 0..MaxNow]
    BY <2>1, <2>4, <2>5 DEF SelTyped
  <2>7. SelTyped' /\ ~ GiveUp(t)
    BY <2>1, <2>3, <2>6 DEF SelTyped, GiveUp
  <2> QED BY <2>3, <2>7
<1> QED BY <1>1, <1>2

(* The environment leaves the selections alone.                               *)
LEMMA EnvironmentStep == ASSUME SelTyped, Environment PROVE SelTyped' /\ sel' = sel
<1>1. ASSUME NEW u \in Urls, Refill(u) PROVE SelTyped' /\ sel' = sel
  <2>1. tokens[u] < Burst[u] /\ tokens' = [tokens EXCEPT ![u] = tokens[u] + 1]
        /\ UNCHANGED <<available, cost, last, now, sel>>
    BY <1>1 DEF Refill
  <2>2. tokens[u] \in Nat /\ Burst[u] \in Nat
    BY SelectionAssumption DEF SelTyped
  <2>3. tokens' \in [Urls -> Nat] /\ \A v \in Urls : tokens'[v] <= Burst[v]
    BY <2>1, <2>2 DEF SelTyped
  <2> QED BY <2>1, <2>3 DEF SelTyped
<1>2. CASE Tick
  BY <1>2, SelectionAssumption DEF Tick, SelTyped
<1>3. ASSUME NEW u \in Urls, CostChanges(u) PROVE SelTyped' /\ sel' = sel
  BY <1>3 DEF CostChanges, SelTyped
<1>4. ASSUME NEW u \in Urls, CooldownEnds(u) PROVE SelTyped' /\ sel' = sel
  BY <1>4 DEF CooldownEnds, SelTyped
<1>5. ASSUME NEW u \in Urls, TakenOut(u) PROVE SelTyped' /\ sel' = sel
  BY <1>5 DEF TakenOut, SelTyped
<1> QED BY <1>1, <1>2, <1>3, <1>4, <1>5 DEF Environment

-----------------------------------------------------------------------------
(* What is so since a selection began.                                        *)
LEMMA AbleTyped ==
    ASSUME TypeInv, NEW t \in Threads PROVE AbleNow(t) \in SUBSET Urls
BY TrialTyped DEF TypeInv, AbleNow

(* A selection that others overtake: it may lose some who could have served.   *)
LEMMA StandStill ==
    ASSUME TypeInv, NEW t \in Threads, Fair(sel[t], able[t], quiet[t], cost, last),
           sel'[t] = sel[t], able'[t] = AbleNow(t), quiet'[t] = QuietNow(t)
    PROVE  Fair(sel'[t], able'[t], quiet'[t], cost', last')
<1>1. able'[t] \subseteq able[t]
  BY DEF Trying, AbleNow
<1>2. ASSUME sel[t].at \in {"try", "picked"}, quiet'[t]
      PROVE  quiet[t] /\ cost' = cost /\ last' = last
  BY <1>2 DEF QuietNow, Done
<1>3. ASSUME sel[t].at \in {"try", "picked"}, quiet'[t], NEW u, NEW v
      PROVE  quiet[t] /\ (Ranked(u, v, cost, last) => Ranked(u, v, cost', last'))
  BY <1>2, <1>3 DEF Ranked, SelectionKey
<1>4. CASE sel[t].at = "try"
  <2>1. /\ \A u \in able[t] : u \in sel[t].later \/ \E i \in 1..Len(sel[t].order) : sel[t].order[i] = u
        /\ \A i, j \in 1..Len(sel[t].order) :
              i < j => /\ Weight[sel[t].order[i]] >= Weight[sel[t].order[j]]
                       /\ quiet[t] => Ranked(sel[t].order[i], sel[t].order[j], cost, last)
        /\ \A i \in 1..Len(sel[t].order), v \in sel[t].later : Weight[sel[t].order[i]] > Weight[v]
    BY <1>4 DEF Fair
  <2>2. \A i, j \in 1..Len(sel[t].order) :
           i < j => (quiet'[t] => Ranked(sel[t].order[i], sel[t].order[j], cost', last'))
    BY <1>3, <1>4, <2>1
  <2> QED BY <1>1, <1>4, <2>1, <2>2 DEF Fair
<1>5. CASE sel[t].at = "picked"
  <2>1. /\ sel[t].order # << >>
        /\ \A u \in able[t] : Weight[u] <= Weight[Head(sel[t].order)]
        /\ quiet[t] => \A u \in able[t] \ {Head(sel[t].order)} : Ranked(Head(sel[t].order), u, cost, last)
    BY <1>5 DEF Fair
  <2>2. quiet'[t] => \A u \in able'[t] \ {Head(sel[t].order)} : Ranked(Head(sel[t].order), u, cost', last')
    BY <1>1, <1>3, <1>5, <2>1
  <2> QED BY <1>1, <1>5, <2>1, <2>2 DEF Fair
<1>6. CASE sel[t].at \in {"idle", "none"}
  BY <1>1, <1>6 DEF Fair
<1>7. sel[t].at \in Phases
  BY TrialTyped DEF TypeInv
<1> QED BY <1>4, <1>5, <1>6, <1>7 DEF Phases

LEMMA BeginIsFair ==
    ASSUME TypeInv, NEW t \in Threads, Fair(sel[t], able[t], quiet[t], cost, last),
           NEW n \in BatchSizes, Begin(t, n), able'[t] = AbleNow(t)
    PROVE  Fair(sel'[t], able'[t], quiet'[t], cost', last')
<1>1. /\ Done(t)
      /\ sel'[t] = IF Candidates = {}
                   THEN [at |-> "none", n |-> 0, order |-> << >>, later |-> {}]
                   ELSE [at |-> "try", n |-> n, order |-> << >>, later |-> Candidates]
  BY BeginStep DEF TypeInv
<1>2. able[t] = {} /\ ~ Trying(t)
  BY <1>1 DEF Done, Fair, Trying
<1>3. CASE Candidates = {}
  BY <1>1, <1>2, <1>3 DEF AbleNow, Fair
<1>4. CASE Candidates # {}
  <2>1. sel'[t].at = "try" /\ sel'[t].order = << >> /\ sel'[t].later = Candidates
    BY <1>1, <1>4
  <2>2. able'[t] \subseteq Candidates
    BY <1>2, <2>1 DEF AbleNow
  <2>3. 1..Len(sel'[t].order) = {}
    BY <2>1
  <2> QED BY <2>1, <2>2, <2>3 DEF Fair
<1> QED BY <1>3, <1>4

LEMMA SortTierIsFair ==
    ASSUME TypeInv, NEW t \in Threads, Fair(sel[t], able[t], quiet[t], cost, last),
           SortTier(t) \/ SortDisturbed(t), able'[t] = AbleNow(t), quiet'[t] = QuietNow(t)
    PROVE  Fair(sel'[t], able'[t], quiet'[t], cost', last')
<1> DEFINE S == BestTier(sel[t].later)
           order == sel'[t].order
<1>1. /\ UNCHANGED <<tokens, cost, last>>
      /\ sel[t].at = "try" /\ sel[t].order = << >> /\ sel[t].later \in SUBSET Urls
      /\ sel'[t].at = "try" /\ sel'[t].n = sel[t].n
      /\ sel'[t].later = sel[t].later \ S
      /\ order \in WeighedOrders(S)
      /\ SortTier(t) => order \in SelectionOrders(S, cost, last)
  BY SortTierStep DEF TypeInv
<1>2. S \in SUBSET sel[t].later /\ S \in SUBSET Urls
  BY <1>1 DEF BestTier
<1>3. quiet'[t] => SortTier(t)
  BY <1>1 DEF QuietNow, Done
<1>4. /\ \A i \in 1..Len(order) : order[i] \in S
      /\ \A u \in S : \E i \in 1..Len(order) : order[i] = u
      /\ \A i, j \in 1..Len(order) : i < j => Weight[order[i]] >= Weight[order[j]]
  <2>1. S \in SUBSET Urls /\ order \in WeighedOrders(S)
    BY <1>1, <1>2
  <2> HIDE DEF S, order
  <2>2. \A i \in 1..Len(order) : order[i] \in S
    BY <2>1, WeighedSorted
  <2>3. \A u \in S : \E i \in 1..Len(order) : order[i] = u
    BY <2>1, WeighedSorted
  <2>4. \A i, j \in 1..Len(order) : i < j => Weight[order[i]] >= Weight[order[j]]
    BY <2>1, WeighedSorted
  <2> QED BY <2>2, <2>3, <2>4
<1>5. able'[t] \subseteq sel[t].later
  <2>1. able[t] \subseteq sel[t].later
    BY <1>1 DEF Fair
  <2>2. able'[t] \subseteq able[t]
    BY <1>1 DEF AbleNow, Trying
  <2> QED BY <2>1, <2>2
<1>6. \A i \in 1..Len(order), v \in sel[t].later \ S : Weight[order[i]] > Weight[v]
  BY <1>1, <1>4, LaterIsLighter
<1>7. \A i, j \in 1..Len(order) :
        i < j => (quiet'[t] => Ranked(order[i], order[j], cost', last'))
  <2> SUFFICES ASSUME quiet'[t]
               PROVE  \A i, j \in 1..Len(order) :
                        i < j => Ranked(order[i], order[j], cost', last')
    OBVIOUS
  <2>1. S \in SUBSET Urls /\ order \in SelectionOrders(S, cost, last)
    BY <1>1, <1>2, <1>3
  <2> HIDE DEF S, order
  <2>2. \A i, j \in 1..Len(order) : i < j => Ranked(order[i], order[j], cost, last)
    BY <2>1, Sorted
  <2> QED BY <1>1, <2>2 DEF Ranked, SelectionKey
<1> HIDE DEF S
<1>8. \A u \in able'[t] : u \in sel[t].later \ S \/ \E i \in 1..Len(order) : order[i] = u
  BY <1>4, <1>5
<1> QED BY <1>1, <1>4, <1>6, <1>7, <1>8 DEF Fair


LEMMA ReserveIsFair ==
    ASSUME TypeInv, NEW t \in Threads, Fair(sel[t], able[t], quiet[t], cost, last),
           Reserve(t), able'[t] = AbleNow(t), quiet'[t] = QuietNow(t)
    PROVE  Fair(sel'[t], able'[t], quiet'[t], cost', last')
<1> DEFINE o == sel[t].order
           x == Head(sel[t].order)
<1>1. /\ UNCHANGED <<cost, last>> /\ sel[t].at = "try" /\ o # << >>
      /\ IF Grants(x, sel[t].n)
         THEN sel'[t].at = "picked" /\ sel'[t].order = <<x>>
         ELSE /\ tokens' = tokens
              /\ sel'[t].at = "try" /\ sel'[t].n = sel[t].n
              /\ sel'[t].order = Tail(o) /\ sel'[t].later = sel[t].later
  BY ReserveStep DEF TypeInv
<1>2. o \in Seq(Urls) /\ sel[t].later \in SUBSET Urls
  BY TrialTyped DEF TypeInv
<1>3. /\ 1 \in 1..Len(o) /\ x = o[1] /\ x \in Urls
      /\ Len(Tail(o)) = Len(o) - 1 /\ Len(o) \in Nat
      /\ \A i \in 1..(Len(o) - 1) : Tail(o)[i] = o[i + 1]
      /\ \A i \in 1..Len(o) : o[i] \in Urls
  BY <1>1, <1>2
<1>4. /\ \A u \in able[t] : u \in sel[t].later \/ \E i \in 1..Len(o) : o[i] = u
      /\ \A i, j \in 1..Len(o) :
           i < j => /\ Weight[o[i]] >= Weight[o[j]]
                    /\ quiet[t] => Ranked(o[i], o[j], cost, last)
      /\ \A i \in 1..Len(o), v \in sel[t].later : Weight[o[i]] > Weight[v]
  BY <1>1 DEF Fair
<1>5. \A u \in Urls : Weight[u] \in Nat
  BY StrategyAssumption
<1>6. quiet'[t] => quiet[t]
  BY <1>1 DEF QuietNow, Done
<1>7. ASSUME NEW u, NEW v, Ranked(u, v, cost, last) PROVE Ranked(u, v, cost', last')
  BY <1>1, <1>7 DEF Ranked, SelectionKey
<1>8. able'[t] \in SUBSET Urls /\ able[t] \in SUBSET Urls
  BY AbleTyped DEF TypeInv
<1>9. CASE Grants(x, sel[t].n)
  <2>1. sel'[t].at = "picked" /\ sel'[t].order = <<x>> /\ able'[t] = able[t]
    BY <1>1, <1>9 DEF AbleNow
  <2>2. ASSUME NEW u \in able[t], u # x
        PROVE  Weight[u] <= Weight[x] /\ (quiet[t] => Ranked(x, u, cost, last))
    <3>1. CASE u \in sel[t].later
      <4>1. Weight[x] > Weight[u]
        BY <1>3, <1>4, <3>1
      <4>2. Ranked(x, u, cost, last)
        BY <1>3, <1>8, <4>1, HeavierIsRanked
      <4> QED BY <1>3, <1>5, <1>8, <4>1, <4>2
    <3>2. ASSUME NEW i \in 1..Len(o), o[i] = u
          PROVE  Weight[u] <= Weight[x] /\ (quiet[t] => Ranked(x, u, cost, last))
      <4>1. 1 < i
        BY <1>3, <2>2, <3>2
      <4> QED BY <1>3, <1>4, <1>5, <1>8, <3>2, <4>1
    <3> QED BY <1>4, <3>1, <3>2
  <2>3. \A u \in able'[t] : Weight[u] <= Weight[x]
    BY <1>3, <1>5, <2>1, <2>2
  <2>4. quiet'[t] => \A u \in able'[t] \ {x} : Ranked(x, u, cost', last')
    BY <1>6, <1>7, <2>1, <2>2
  <2>5. Head(sel'[t].order) = x /\ sel'[t].order # << >>
    BY <2>1
  <2> DEFINE s == sel'[t]
  <2>6. s.at = "picked" /\ s.order # << >> /\ Head(s.order) = x
    BY <2>1, <2>5
  <2> HIDE DEF x, s
  <2>7. Fair(s, able'[t], quiet'[t], cost', last')
    BY <2>3, <2>4, <2>6 DEF Fair
  <2> QED BY <2>7 DEF s
<1>10. CASE ~ Grants(x, sel[t].n)
  <2>1. /\ tokens' = tokens /\ sel'[t].at = "try" /\ sel'[t].n = sel[t].n
        /\ sel'[t].order = Tail(o) /\ sel'[t].later = sel[t].later
    BY <1>1, <1>10
  <2>2. able'[t] \subseteq able[t] \ {x}
    BY <1>1, <1>10, <2>1 DEF AbleNow, Trying, Grants
  <2>3. ASSUME NEW u \in able'[t]
        PROVE  u \in sel[t].later \/ \E i \in 1..Len(Tail(o)) : Tail(o)[i] = u
    <3>1. u \in able[t] /\ u # x
      BY <2>2
    <3>2. ASSUME NEW i \in 1..Len(o), o[i] = u
          PROVE  \E k \in 1..Len(Tail(o)) : Tail(o)[k] = u
      <4>1. i # 1 /\ i - 1 \in 1..(Len(o) - 1) /\ (i - 1) + 1 = i
        BY <1>3, <3>1, <3>2
      <4>2. Tail(o)[i - 1] = u
        BY <1>3, <3>2, <4>1
      <4> QED BY <1>3, <4>1, <4>2
    <3> QED BY <1>4, <3>1, <3>2
  <2>4. ASSUME NEW i \in 1..Len(Tail(o))
        PROVE  i + 1 \in 1..Len(o) /\ Tail(o)[i] = o[i + 1]
    BY <1>3
  <2>5. \A i, j \in 1..Len(Tail(o)) :
          i < j => /\ Weight[Tail(o)[i]] >= Weight[Tail(o)[j]]
                   /\ quiet[t] => Ranked(Tail(o)[i], Tail(o)[j], cost, last)
    <3> SUFFICES ASSUME NEW i \in 1..Len(Tail(o)), NEW j \in 1..Len(Tail(o)), i < j
                 PROVE  /\ Weight[o[i + 1]] >= Weight[o[j + 1]]
                        /\ quiet[t] => Ranked(o[i + 1], o[j + 1], cost, last)
      BY <2>4
    <3>1. i + 1 \in 1..Len(o) /\ j + 1 \in 1..Len(o) /\ i + 1 < j + 1
      BY <2>4
    <3> QED BY <1>4, <3>1
  <2>6. \A i \in 1..Len(Tail(o)), v \in sel[t].later : Weight[Tail(o)[i]] > Weight[v]
    BY <1>4, <2>4
  <2>7. \A i, j \in 1..Len(Tail(o)) :
          i < j => (quiet'[t] => Ranked(Tail(o)[i], Tail(o)[j], cost', last'))
    BY <1>6, <1>7, <2>5
  <2> DEFINE rest == Tail(o)
  <2> HIDE DEF o, rest
  <2>8. sel'[t].at = "try" /\ sel'[t].order = rest /\ sel'[t].later = sel[t].later
    BY <2>1 DEF rest
  <2>9. /\ \A u \in able'[t] : u \in sel[t].later \/ \E i \in 1..Len(rest) : rest[i] = u
        /\ \A i, j \in 1..Len(rest) :
             i < j => /\ Weight[rest[i]] >= Weight[rest[j]]
                      /\ quiet'[t] => Ranked(rest[i], rest[j], cost', last')
        /\ \A i \in 1..Len(rest), v \in sel[t].later : Weight[rest[i]] > Weight[v]
    BY <2>3, <2>5, <2>6, <2>7 DEF rest
  <2> QED BY <2>8, <2>9 DEF Fair
<1> QED BY <1>9, <1>10

LEMMA EndIsFair ==
    ASSUME TypeInv, NEW t \in Threads, Fair(sel[t], able[t], quiet[t], cost, last),
           GiveUp(t) \/ Store(t), able'[t] = AbleNow(t)
    PROVE  Fair(sel'[t], able'[t], quiet'[t], cost', last')
<1>1. Store(t) => sel[t].order # << >>
  BY DEF Store, Fair
<1>2. /\ GiveUp(t) => /\ sel[t].at = "try" /\ sel[t].order = << >> /\ sel[t].later = {}
                      /\ sel'[t].at = "none"
      /\ Store(t) => sel'[t].at = "idle"
  BY <1>1, EndStep DEF TypeInv
<1>3. CASE GiveUp(t)
  <2>1. able[t] = {}
    BY <1>2, <1>3 DEF Fair
  <2>2. able'[t] = {} /\ sel'[t].at = "none"
    BY <1>2, <1>3, <2>1 DEF AbleNow
  <2> QED BY <2>2 DEF Fair
<1>4. CASE Store(t)
  <2>1. able'[t] = {} /\ sel'[t].at = "idle"
    BY <1>2, <1>4 DEF AbleNow
  <2> QED BY <2>1 DEF Fair
<1> QED BY <1>3, <1>4

-----------------------------------------------------------------------------
LEMMA InitInvariant == HistoryInit => IInv
<1> SUFFICES ASSUME HistoryInit PROVE IInv
  OBVIOUS
<1>1. SelTyped
  <2>1. Burst \in [Urls -> Nat] /\ \A u \in Urls : Burst[u] <= Burst[u]
    BY SelectionAssumption
  <2>2. 1 \in 1..MaxNow /\ 0 \in 0..MaxNow
    BY SelectionAssumption
  <2>3. NoSelection \in Trial
    BY DEF NoSelection, Trial, Phases
  <2> QED BY <2>1, <2>2, <2>3 DEF HistoryInit, Init, SelTyped
<1>2. \A t \in Threads : sel[t].at = "idle" /\ able[t] = {}
  BY DEF HistoryInit, Init, NoSelection
<1> QED BY <1>1, <1>2 DEF HistoryInit, IInv, TypeInv, Fair

LEMMA NextInvariant == IInv /\ [HistoryNext]_allVars => IInv'
<1> SUFFICES ASSUME IInv, [HistoryNext]_allVars PROVE IInv'
  OBVIOUS
<1>1. TypeInv /\ SelTyped /\ \A t \in Threads : Fair(sel[t], able[t], quiet[t], cost, last)
  BY DEF IInv, TypeInv
<1>2. CASE UNCHANGED allVars
  <2>1. UNCHANGED <<available, tokens, cost, last, now, sel, able, quiet>>
    BY <1>2 DEF allVars, vars
  <2>2. TypeInv'
    BY <1>1, <2>1 DEF TypeInv, SelTyped
  <2>3. \A t \in Threads : Fair(sel'[t], able'[t], quiet'[t], cost', last')
    BY <1>1, <2>1
  <2> QED BY <2>2, <2>3 DEF IInv
<1>3. CASE HistoryNext
  <2>1. \A t \in Threads : able'[t] = AbleNow(t) /\ quiet'[t] = QuietNow(t)
    BY <1>3 DEF HistoryNext
  <2>2. able' \in [Threads -> SUBSET Urls] /\ quiet' \in [Threads -> BOOLEAN]
    <3>1. \A t \in Threads : AbleNow(t) \in SUBSET Urls /\ QuietNow(t) \in BOOLEAN
      BY <1>1, AbleTyped DEF QuietNow, Done, TypeInv
    <3> QED BY <1>3, <3>1 DEF HistoryNext
  <2>3. ASSUME NEW t \in Threads, Step(t) PROVE IInv'
    <3>1. /\ SelTyped' /\ \A r \in Threads : r # t => sel'[r] = sel[r]
          /\ Fair(sel'[t], able'[t], quiet'[t], cost', last')
      <4>1. ASSUME NEW n \in BatchSizes, Begin(t, n)
            PROVE  /\ SelTyped' /\ \A r \in Threads : r # t => sel'[r] = sel[r]
                   /\ Fair(sel'[t], able'[t], quiet'[t], cost', last')
        BY <1>1, <2>1, <4>1, BeginStep, BeginIsFair
      <4>2. CASE SortTier(t) \/ SortDisturbed(t)
        BY <1>1, <2>1, <4>2, SortTierStep, SortTierIsFair
      <4>3. CASE Reserve(t)
        BY <1>1, <2>1, <4>3, ReserveStep, ReserveIsFair
      <4>4. CASE GiveUp(t) \/ Store(t)
        <5>1. Store(t) => sel[t].order # << >>
          BY <1>1 DEF Store, Fair
        <5> QED BY <1>1, <2>1, <4>4, <5>1, EndStep, EndIsFair
      <4> QED BY <2>3, <4>1, <4>2, <4>3, <4>4 DEF Step
    <3>2. \A r \in Threads : Fair(sel'[r], able'[r], quiet'[r], cost', last')
      BY <1>1, <2>1, <3>1, StandStill
    <3> QED BY <2>2, <3>1, <3>2 DEF IInv, TypeInv
  <2>4. CASE Environment
    <3>1. SelTyped' /\ sel' = sel
      BY <1>1, <2>4, EnvironmentStep
    <3>2. \A r \in Threads : Fair(sel'[r], able'[r], quiet'[r], cost', last')
      BY <1>1, <2>1, <3>1, StandStill
    <3> QED BY <2>2, <3>1, <3>2 DEF IInv, TypeInv
  <2> QED BY <1>3, <2>3, <2>4 DEF HistoryNext, Next
<1> QED BY <1>2, <1>3

LEMMA InvariantHolds == HistorySpec => []IInv
BY InitInvariant, NextInvariant, PTL DEF HistorySpec

(* The limiters, costs, timestamps and selections keep their types; a limiter   *)
(* never grants more than it has (reserve_tokens).                             *)
THEOREM TypeCorrect == HistorySpec => []TypeOK
<1>1. IInv => TypeOK
  <2> SUFFICES ASSUME IInv PROVE TypeOK
    OBVIOUS
  <2>1. SelTyped
    BY DEF IInv, TypeInv
  <2>2. \A t \in Threads :
          /\ sel[t].at \in Phases /\ sel[t].n \in BatchSizes \union {0}
          /\ sel[t].order \in Seq(Urls) /\ sel[t].later \subseteq Urls
    BY <2>1, TrialTyped
  <2>3. \A u \in Urls : tokens[u] \in 0..Burst[u]
    BY <2>1, SelectionAssumption DEF SelTyped
  <2> QED BY <2>1, <2>2, <2>3 DEF TypeOK, SelTyped
<1> QED BY <1>1, InvariantHolds, PTL

(* Selections that compete for tokens never pass over a heavier endpoint that   *)
(* could have served all the time (select_best_endpoint).                      *)
THEOREM HeaviestAlwaysServes == HistorySpec => []HeaviestServes
<1>1. IInv => HeaviestServes
  BY DEF IInv, Fair, HeaviestServes
<1> QED BY <1>1, InvariantHolds, PTL

(* None is the answer only if nobody could have served throughout              *)
(* (select_best_endpoint's end).                                               *)
THEOREM NoneAlwaysMeansNobody == HistorySpec => []NoneMeansNobodyCould
<1>1. IInv => NoneMeansNobodyCould
  BY DEF IInv, Fair, NoneMeansNobodyCould
<1> QED BY <1>1, InvariantHolds, PTL

(* Tier by tier gives the first of one ranking over all endpoints while nothing *)
(* moves (the sort in select_best_endpoint).                                   *)
THEOREM FirstOfRankingAlwaysServes == HistorySpec => []FirstOfRankingServes
<1>1. IInv => FirstOfRankingServes
  BY DEF IInv, Fair, FirstOfRankingServes, Ranked
<1> QED BY <1>1, InvariantHolds, PTL

-----------------------------------------------------------------------------
(* The sort of a tier.  The keys of different endpoints differ in their        *)
(* position, so that Smaller orders them totally, and an endpoint's place in    *)
(* the sorted tier is the number of those before it.                           *)

(* What Smaller means, component by component (the comparator of sort_by).      *)
LEMMA SmallerByComponent ==
    ASSUME NEW k, NEW m
    PROVE  Smaller(k, m) <=> \/ k[1] < m[1]
                             \/ k[1] = m[1] /\ k[2] < m[2]
                             \/ k[1] = m[1] /\ k[2] = m[2] /\ k[3] < m[3]
                             \/ k[1] = m[1] /\ k[2] = m[2] /\ k[3] = m[3] /\ k[4] < m[4]
<1> DEFINE At(i) == k[i] < m[i] /\ \A j \in 1..(i - 1) : k[j] = m[j]
<1>1. At(1) <=> k[1] < m[1]
  OBVIOUS
<1>2. At(2) <=> k[1] = m[1] /\ k[2] < m[2]
  <2>1. \A j : j \in 1..(2 - 1) <=> j = 1
    OBVIOUS
  <2> QED BY <2>1
<1>3. At(3) <=> k[1] = m[1] /\ k[2] = m[2] /\ k[3] < m[3]
  <2>1. \A j : j \in 1..(3 - 1) <=> j = 1 \/ j = 2
    OBVIOUS
  <2> QED BY <2>1
<1>4. At(4) <=> k[1] = m[1] /\ k[2] = m[2] /\ k[3] = m[3] /\ k[4] < m[4]
  <2>1. \A j : j \in 1..(4 - 1) <=> j = 1 \/ j = 2 \/ j = 3
    OBVIOUS
  <2> QED BY <2>1
<1>5. Smaller(k, m) <=> \E i \in 1..4 : At(i)
  BY DEF Smaller
<1> HIDE DEF At
<1>6. (\E i \in 1..4 : At(i)) <=> At(1) \/ At(2) \/ At(3) \/ At(4)
  <2>1. \A i : i \in 1..4 <=> i = 1 \/ i = 2 \/ i = 3 \/ i = 4
    OBVIOUS
  <2> QED BY <2>1
<1> QED BY <1>1, <1>2, <1>3, <1>4, <1>5, <1>6

LEMMA KeyTyped ==
    ASSUME NEW u \in Urls, NEW c \in [Costed -> Nat], NEW l \in [Urls -> Nat]
    PROVE  LET k == SelectionKey(u, c, l)
           IN  /\ k[1] \in Int /\ k[2] \in Int /\ k[3] \in Int /\ k[4] \in Int
               /\ k[4] = Position[u]
<1>1. Weight[u] \in Nat /\ Position[u] \in Nat /\ l[u] \in Nat
  BY StrategyAssumption
<1>2. (IF UsesCost(Tier(u)) THEN c[u] ELSE 0) \in Int
  <2>1. UsesCost(Tier(u)) => u \in Costed
    BY DEF Costed
  <2>2. u \in Costed => c[u] \in Nat
    OBVIOUS
  <2> QED BY <2>1, <2>2
<1> DEFINE x == IF UsesCost(Tier(u)) THEN c[u] ELSE 0
<1>3. SelectionKey(u, c, l) = << -Weight[u], x, -l[u], Position[u] >>
  BY DEF SelectionKey
<1>4. x \in Int
  BY <1>2
<1> HIDE DEF x
<1> QED BY <1>1, <1>3, <1>4

(* The ranking is a strict total order (the comparator of sort_by).            *)
LEMMA RankingIsTotal ==
    ASSUME NEW c \in [Costed -> Nat], NEW l \in [Urls -> Nat]
    PROVE  /\ \A u \in Urls : ~ Ranked(u, u, c, l)
           /\ \A u, v \in Urls : u # v => Ranked(u, v, c, l) \/ Ranked(v, u, c, l)
           /\ \A u, v, w \in Urls :
                Ranked(u, v, c, l) /\ Ranked(v, w, c, l) => Ranked(u, w, c, l)
<1> DEFINE k(u) == SelectionKey(u, c, l)
<1>1. \A u \in Urls : /\ k(u)[1] \in Int /\ k(u)[2] \in Int /\ k(u)[3] \in Int /\ k(u)[4] \in Int
                      /\ k(u)[4] = Position[u]
  BY KeyTyped
<1>2. \A u, v : Ranked(u, v, c, l) <=>
          \/ k(u)[1] < k(v)[1]
          \/ k(u)[1] = k(v)[1] /\ k(u)[2] < k(v)[2]
          \/ k(u)[1] = k(v)[1] /\ k(u)[2] = k(v)[2] /\ k(u)[3] < k(v)[3]
          \/ k(u)[1] = k(v)[1] /\ k(u)[2] = k(v)[2] /\ k(u)[3] = k(v)[3] /\ k(u)[4] < k(v)[4]
  BY SmallerByComponent DEF Ranked
<1> HIDE DEF k
<1>3. \A u \in Urls : ~ Ranked(u, u, c, l)
  BY <1>1, <1>2
<1>4. ASSUME NEW u \in Urls, NEW v \in Urls, u # v
      PROVE  Ranked(u, v, c, l) \/ Ranked(v, u, c, l)
  <2>1. k(u)[4] # k(v)[4]
    BY <1>1, <1>4, StrategyAssumption
  <2> QED BY <1>1, <1>2, <2>1
<1>5. ASSUME NEW u \in Urls, NEW v \in Urls, NEW w \in Urls,
             Ranked(u, v, c, l), Ranked(v, w, c, l)
      PROVE  Ranked(u, w, c, l)
  BY <1>1, <1>2, <1>5
<1> QED BY <1>3, <1>4, <1>5

Better(S, u, c, l) == {v \in S : Ranked(v, u, c, l)}
Place(S, u, c, l) == Cardinality(Better(S, u, c, l)) + 1

(* Places are different and within the tier; a better endpoint has a smaller.   *)
LEMMA PlacesAreOrdered ==
    ASSUME NEW S \in SUBSET Urls, NEW c \in [Costed -> Nat], NEW l \in [Urls -> Nat]
    PROVE  /\ IsFiniteSet(S) /\ Cardinality(S) \in Nat
           /\ \A u \in S : Place(S, u, c, l) \in 1..Cardinality(S)
           /\ \A u, v \in S : Ranked(u, v, c, l) => Place(S, u, c, l) < Place(S, v, c, l)
<1>1. IsFiniteSet(S) /\ Cardinality(S) \in Nat
  <2>1. IsFiniteSet(S)
    BY FS_Subset, StrategyAssumption
  <2> QED BY <2>1, FS_CardinalityType
<1>2. ASSUME NEW u \in S
      PROVE  /\ IsFiniteSet(Better(S, u, c, l)) /\ Cardinality(Better(S, u, c, l)) \in Nat
             /\ u \notin Better(S, u, c, l)
             /\ Cardinality(Better(S, u, c, l) \union {u}) = Cardinality(Better(S, u, c, l)) + 1
  <2>1. Better(S, u, c, l) \in SUBSET S /\ u \notin Better(S, u, c, l)
    BY RankingIsTotal DEF Better
  <2>2. IsFiniteSet(Better(S, u, c, l))
    BY <1>1, <2>1, FS_Subset
  <2>3. Cardinality(Better(S, u, c, l)) \in Nat
    BY <2>2, FS_CardinalityType
  <2> QED BY <2>1, <2>2, <2>3, FS_AddElement
<1>3. ASSUME NEW u \in S PROVE Place(S, u, c, l) \in 1..Cardinality(S)
  <2>1. Better(S, u, c, l) \union {u} \in SUBSET S
    BY DEF Better
  <2>2. Cardinality(Better(S, u, c, l) \union {u}) <= Cardinality(S)
    BY <1>1, <2>1, FS_Subset
  <2> DEFINE n == Cardinality(Better(S, u, c, l))
  <2>3. n \in Nat /\ n + 1 <= Cardinality(S) /\ Place(S, u, c, l) = n + 1
    BY <1>2, <2>2 DEF Place
  <2> HIDE DEF n
  <2> QED BY <1>1, <2>3
<1>4. ASSUME NEW u \in S, NEW v \in S, Ranked(u, v, c, l)
      PROVE  Place(S, u, c, l) < Place(S, v, c, l)
  <2>1. Better(S, u, c, l) \union {u} \in SUBSET Better(S, v, c, l)
    BY <1>4, RankingIsTotal DEF Better
  <2>2. Cardinality(Better(S, u, c, l) \union {u}) <= Cardinality(Better(S, v, c, l))
    BY <1>2, <2>1, FS_Subset
  <2> DEFINE n == Cardinality(Better(S, u, c, l))
             m == Cardinality(Better(S, v, c, l))
  <2>3. /\ n \in Nat /\ m \in Nat /\ n + 1 <= m
        /\ Place(S, u, c, l) = n + 1 /\ Place(S, v, c, l) = m + 1
    BY <1>2, <2>2 DEF Place
  <2> HIDE DEF n, m
  <2> QED BY <2>3
<1> QED BY <1>1, <1>3, <1>4

(* The places of a tier are exactly the numbers up to its size.                *)
LEMMA EveryPlaceIsTaken ==
    ASSUME NEW S \in SUBSET Urls, NEW c \in [Costed -> Nat], NEW l \in [Urls -> Nat]
    PROVE  \A i \in 1..Cardinality(S) : \E u \in S : Place(S, u, c, l) = i
<1> DEFINE n == Cardinality(S)
           place == [u \in S |-> Place(S, u, c, l)]
<1>1. /\ IsFiniteSet(S) /\ n \in Nat
      /\ \A u \in S : Place(S, u, c, l) \in 1..n
      /\ \A u, v \in S : Ranked(u, v, c, l) => Place(S, u, c, l) < Place(S, v, c, l)
  BY PlacesAreOrdered
<1>2. IsFiniteSet(1..n) /\ Cardinality(1..n) = n
  <2> HIDE DEF n
  <2>1. IsFiniteSet(1..n) /\ Cardinality(1..n) = IF 1 > n THEN 0 ELSE n - 1 + 1
    BY <1>1, FS_Interval
  <2> QED BY <1>1, <2>1
<1>3. place \in Injection(S, 1..n)
  <2>1. place \in [S -> 1..n]
    BY <1>1
  <2>2. ASSUME NEW u \in S, NEW v \in S, place[u] = place[v] PROVE u = v
    <3>1. Place(S, u, c, l) = Place(S, v, c, l)
      BY <2>2
    <3>2. ~ Ranked(u, v, c, l) /\ ~ Ranked(v, u, c, l)
      BY <1>1, <3>1
    <3> QED BY <3>2, RankingIsTotal
  <2> QED BY <2>1, <2>2 DEF Injection, IsInjective
<1> HIDE DEF n, place
<1>4. place \in Surjection(S, 1..n)
  <2>1. Cardinality(S) = Cardinality(1..n)
    BY <1>2 DEF n
  <2> QED BY <1>2, <1>3, <2>1, FS_Injection
<1>5. \A i \in 1..n : \E u \in S : place[u] = i
  BY <1>4 DEF Surjection
<1>6. \A u \in S : place[u] = Place(S, u, c, l)
  BY DEF place
<1> QED BY <1>5, <1>6 DEF n

AtPlaces(order, S, c, l) ==
    /\ order \in [1..Cardinality(S) -> S]
    /\ \A i \in 1..Cardinality(S) : Place(S, order[i], c, l) = i

(* In a sorted tier everybody stands at its place.                             *)
LEMMA SortedByPlace ==
    ASSUME NEW S \in SUBSET Urls, NEW c \in [Costed -> Nat], NEW l \in [Urls -> Nat],
           NEW order \in SelectionOrders(S, c, l)
    PROVE  AtPlaces(order, S, c, l)
<1> DEFINE n == Cardinality(S)
<1>1. n \in Nat
  BY PlacesAreOrdered
<1>2. /\ order \in [1..n -> S]
      /\ \A u \in S : \E i \in 1..n : order[i] = u
      /\ \A i, j \in 1..n : i < j => Ranked(order[i], order[j], c, l)
  BY DEF SelectionOrders, Arranged, Ranked
<1> HIDE DEF n
<1>3. ASSUME NEW i \in 1..n, NEW j \in 1..n
      PROVE  Ranked(order[j], order[i], c, l) <=> j < i
  <2>1. order[i] \in Urls /\ order[j] \in Urls
    BY <1>2
  <2>2. ASSUME Ranked(order[j], order[i], c, l), ~ (j < i) PROVE FALSE
    <3>1. CASE i = j
      BY <2>1, <2>2, <3>1, RankingIsTotal
    <3>2. CASE i < j
      BY <1>2, <2>1, <2>2, <3>2, RankingIsTotal
    <3> QED BY <1>1, <2>2, <3>1, <3>2
  <2> QED BY <1>2, <2>2
<1>4. ASSUME NEW i \in 1..n PROVE Place(S, order[i], c, l) = i
  <2> DEFINE first == 1..(i - 1)
             better == Better(S, order[i], c, l)
             upto == [j \in first |-> order[j]]
  <2>1. first \subseteq 1..n /\ \A j \in 1..n : j \in first <=> j < i
    BY <1>1
  <2>2. upto \in Surjection(first, better)
    <3>1. \A j \in first : order[j] \in better
      BY <1>2, <1>3, <2>1 DEF Better
    <3>2. \A u \in better : \E j \in first : order[j] = u
      <4> TAKE u \in better
      <4>1. PICK j \in 1..n : order[j] = u
        BY <1>2 DEF Better
      <4>2. j < i
        BY <1>3, <4>1 DEF Better
      <4> QED BY <2>1, <4>1, <4>2
    <3> QED BY <3>1, <3>2 DEF Surjection
  <2>3. upto \in Injection(first, better)
    <3>1. ASSUME NEW j \in first, NEW m \in first, order[j] = order[m] PROVE j = m
      <4>1. j \in 1..n /\ m \in 1..n /\ order[j] \in Urls
        BY <1>2, <2>1
      <4>2. ~ Ranked(order[j], order[m], c, l) /\ ~ Ranked(order[m], order[j], c, l)
        BY <3>1, <4>1, RankingIsTotal
      <4>3. ~ (j < m) /\ ~ (m < j)
        BY <1>3, <4>1, <4>2
      <4> QED BY <1>1, <4>1, <4>3
    <3> QED BY <2>2, <3>1 DEF Surjection, Injection, IsInjective
  <2>4. IsFiniteSet(first) /\ Cardinality(first) = i - 1
    <3>1. i \in Int /\ i >= 1 /\ i - 1 \in Int
      BY <1>1
    <3>2. /\ IsFiniteSet(1..(i - 1))
          /\ Cardinality(1..(i - 1)) = IF 1 > i - 1 THEN 0 ELSE (i - 1) - 1 + 1
      BY <3>1, FS_Interval
    <3> QED BY <3>1, <3>2
  <2> HIDE DEF first, better, upto
  <2>5. Cardinality(better) = Cardinality(first)
    BY <2>2, <2>3, <2>4, FS_Surjection
  <2>6. Place(S, order[i], c, l) = Cardinality(better) + 1
    BY DEF Place, better
  <2> QED BY <1>1, <2>4, <2>5, <2>6
<1> QED BY <1>2, <1>4 DEF n, AtPlaces

(* Two sorted arrangements of a tier put everybody at the same place.          *)
LEMMA SortIsUnique ==
    ASSUME NEW S \in SUBSET Urls, NEW c \in [Costed -> Nat], NEW l \in [Urls -> Nat],
           NEW o \in SelectionOrders(S, c, l), NEW p \in SelectionOrders(S, c, l)
    PROVE  o = p
<1> DEFINE n == Cardinality(S)
<1>0. AtPlaces(o, S, c, l) /\ AtPlaces(p, S, c, l)
  BY SortedByPlace
<1>1. o \in [1..n -> S] /\ \A i \in 1..n : Place(S, o[i], c, l) = i
  BY <1>0 DEF AtPlaces
<1>2. p \in [1..n -> S] /\ \A i \in 1..n : Place(S, p[i], c, l) = i
  BY <1>0 DEF AtPlaces
<1>3. /\ n \in Nat
      /\ \A v, w \in S : Ranked(v, w, c, l) => Place(S, v, c, l) < Place(S, w, c, l)
  BY PlacesAreOrdered
<1> HIDE DEF n
<1>4. ASSUME NEW i \in 1..n PROVE o[i] = p[i]
  <2>1. /\ o[i] \in S /\ p[i] \in S /\ ~ (i < i)
        /\ Place(S, o[i], c, l) = i /\ Place(S, p[i], c, l) = i
    BY <1>1, <1>2, <1>3
  <2>2. ~ Ranked(o[i], p[i], c, l) /\ ~ Ranked(p[i], o[i], c, l)
    BY <1>3, <2>1
  <2> QED BY <2>1, <2>2, RankingIsTotal
<1>5. o = [i \in 1..n |-> o[i]] /\ p = [i \in 1..n |-> p[i]]
  BY <1>1, <1>2
<1>6. [i \in 1..n |-> o[i]] = [i \in 1..n |-> p[i]]
  BY <1>4
<1> QED BY <1>5, <1>6

(* However costs and timestamps stand, the candidates of a tier can be sorted,  *)
(* in one way only: sort_by leaves nothing open, and no selection is stuck in   *)
(* its sort or depends on the order it found the endpoints in otherwise than    *)
(* by their position (select_best_endpoint).                                   *)
THEOREM SortHasOneResult ==
    ASSUME NEW S \in SUBSET Urls, NEW c \in [Costed -> Nat], NEW l \in [Urls -> Nat]
    PROVE  \E order \in [1..Cardinality(S) -> S] : SelectionOrders(S, c, l) = {order}
<1> DEFINE n == Cardinality(S)
           order == [i \in 1..n |-> CHOOSE u \in S : Place(S, u, c, l) = i]
<1>1. \A i \in 1..n : order[i] \in S /\ Place(S, order[i], c, l) = i
  BY EveryPlaceIsTaken
<1>2. order \in [1..n -> S]
  BY <1>1
<1> HIDE DEF order
<1>3. order \in SelectionOrders(S, c, l)
  <2>1. \A u \in S : \E i \in 1..n : order[i] = u
    <3> TAKE u \in S
    <3> DEFINE i == Place(S, u, c, l)
    <3>1. i \in 1..n
      BY PlacesAreOrdered
    <3>2. Place(S, order[i], c, l) = i /\ order[i] \in S
      BY <1>1, <3>1
    <3>3. ~ Ranked(u, order[i], c, l) /\ ~ Ranked(order[i], u, c, l)
      <4>1. \A v, w \in S : Ranked(v, w, c, l) => Place(S, v, c, l) < Place(S, w, c, l)
        BY PlacesAreOrdered
      <4>2. ~ (i < i)
        BY <3>1, PlacesAreOrdered
      <4> QED BY <3>2, <4>1, <4>2
    <3>4. order[i] = u
      BY <3>2, <3>3, RankingIsTotal
    <3> QED BY <3>1, <3>4
  <2>2. \A i, j \in 1..n : i < j => Ranked(order[i], order[j], c, l)
    <3> SUFFICES ASSUME NEW i \in 1..n, NEW j \in 1..n, i < j
                 PROVE  Ranked(order[i], order[j], c, l)
      OBVIOUS
    <3>1. n \in Nat /\ order[i] \in S /\ order[j] \in S
          /\ Place(S, order[i], c, l) = i /\ Place(S, order[j], c, l) = j
      BY <1>1, PlacesAreOrdered
    <3>2. order[i] # order[j]
      BY <3>1
    <3>3. ~ Ranked(order[j], order[i], c, l)
      <4>1. Ranked(order[j], order[i], c, l) => j < i
        BY <3>1, PlacesAreOrdered
      <4> QED BY <3>1, <4>1
    <3> QED BY <3>1, <3>2, <3>3, RankingIsTotal
  <2> QED BY <1>2, <2>1, <2>2 DEF SelectionOrders, Arranged, Ranked
<1>4. \A other \in SelectionOrders(S, c, l) : other = order
  BY <1>3, SortIsUnique
<1> QED BY <1>2, <1>3, <1>4

(* In every reachable state, the tier a selection is about to sort has exactly  *)
(* one sorted arrangement, whatever finishing requests have made of the costs   *)
(* and other selections of the timestamps (select_best_endpoint).              *)
SortIsDecided ==
    \A t \in Threads :
        \E order \in Seq(Urls) : SelectionOrders(BestTier(sel[t].later), cost, last) = {order}

THEOREM SortAlwaysDecided == HistorySpec => []SortIsDecided
<1>1. IInv => SortIsDecided
  <2> SUFFICES ASSUME IInv, NEW t \in Threads
               PROVE  \E order \in Seq(Urls) :
                        SelectionOrders(BestTier(sel[t].later), cost, last) = {order}
    BY DEF SortIsDecided
  <2> DEFINE S == BestTier(sel[t].later)
  <2>1. SelTyped
    BY DEF IInv, TypeInv
  <2>2. cost \in [Costed -> Nat] /\ last \in [Urls -> Nat]
    <3>1. Costs \subseteq Nat /\ 0..MaxNow \subseteq Nat
      BY SelectionAssumption
    <3>2. cost \in [Costed -> Costs] /\ last \in [Urls -> 0..MaxNow]
      BY <2>1 DEF SelTyped
    <3>3. cost \in [Costed -> Nat]
      BY <3>1, <3>2
    <3>4. last \in [Urls -> Nat]
      BY <3>1, <3>2
    <3> QED BY <3>3, <3>4
  <2>3. S \in SUBSET Urls
    BY <2>1, TrialTyped DEF BestTier
  <2> HIDE DEF S
  <2>4. PICK order \in [1..Cardinality(S) -> S] : SelectionOrders(S, cost, last) = {order}
    BY <2>2, <2>3, SortHasOneResult
  <2>5. order \in Seq(S)
    BY <2>3, <2>4, Sorted
  <2>6. order \in Seq(Urls)
    BY <2>3, <2>5
  <2> QED BY <2>4, <2>6 DEF S
<1> QED BY <1>1, InvariantHolds, PTL
=============================================================================
