----------------------------- MODULE LocksProofs ------------------------------
(* However many threads run them side by side, the operations that take their  *)
(* locks in one order never wait in a circle; and all of them do, but          *)
(* get_status.                                                                *)
EXTENDS Locks, TLAPS

(* The order of the locks.                                                    *)
Rank == [l \in Locks |->
           CASE l = "endpoints" -> 1
             [] l = "limiters" -> 2
             [] l = "connect" -> 3
             [] l = "timeout" -> 4
             [] l = "base" -> 5
             [] l = "max" -> 6
             [] OTHER -> 7]

(* h[k] are the locks that a program holds before its k-th step.               *)
InOrder(p, h, k) ==
    IF p[k].do = "free"
    THEN p[k].lock \in h[k] /\ h[k + 1] = h[k] \ {p[k].lock}
    ELSE /\ \A m \in h[k] : Rank[m] < Rank[p[k].lock]
         /\ h[k + 1] = h[k] \union {p[k].lock}

(* It asks only for locks beyond all it holds, frees what it holds, and ends     *)
(* with nothing.                                                              *)
Follows(p, h) ==
    /\ h \in [1..(Len(p) + 1) -> SUBSET Locks]
    /\ h[1] = {} /\ h[Len(p) + 1] = {}
    /\ \A k \in 1..Len(p) : InOrder(p, h, k)

Disciplined(p) == p \in Seq(Steps) /\ Len(p) # 0 /\ \E h : Follows(p, h)

LEMMA Ranks == \A l \in Locks : Rank[l] \in 1..7
BY DEF Rank, Locks

LEMMA TopRank ==
    ASSUME NEW S \in SUBSET (1..7), S # {} PROVE \E m \in S : \A n \in S : n <= m
<1>1. CASE 7 \in S
  BY <1>1
<1>2. CASE 7 \notin S /\ 6 \in S
  BY <1>2
<1>3. CASE 7 \notin S /\ 6 \notin S /\ 5 \in S
  BY <1>3
<1>4. CASE 7 \notin S /\ 6 \notin S /\ 5 \notin S /\ 4 \in S
  BY <1>4
<1>5. CASE 7 \notin S /\ 6 \notin S /\ 5 \notin S /\ 4 \notin S
  <2>1. CASE 3 \in S
    BY <1>5, <2>1
  <2>2. CASE 3 \notin S /\ 2 \in S
    BY <1>5, <2>2
  <2>3. CASE 3 \notin S /\ 2 \notin S
    <3>1. \A n \in S : n = 1
      BY <1>5, <2>3
    <3>2. PICK m \in S : TRUE
      OBVIOUS
    <3>3. m = 1 /\ \A n \in S : n <= m
      BY <3>1
    <3> QED BY <3>3
  <2> QED BY <2>1, <2>2, <2>3
<1> QED BY <1>1, <1>2, <1>3, <1>4, <1>5

-----------------------------------------------------------------------------
(* Every thread runs a disciplined program.                                   *)
Order == \A t \in Threads : Disciplined(Program[t])

(* A choice of what each program holds.                                       *)
Holding == [t \in Threads |-> CHOOSE h : Follows(Program[t], h)]
Held(t) == Holding[t][pc[t]]

(* The locks are held by those, and only those, whose program is at a step that  *)
(* holds them; beyond that, a writer bit may be that of a writer still waiting.  *)
HeldBy(t, l) ==
    /\ readers[l][t] \in {0, 1}
    /\ readers[l][t] = 1 => l \in Held(t) /\ bit[l] # {t}
    /\ bit[l] = {t} => l \in Held(t) \/ (Step(t).do = "write" /\ Step(t).lock = l)
    /\ l \in Held(t) => readers[l][t] = 1 \/ bit[l] = {t}

(* Whoever holds a lock for writing shares it with no reader.                  *)
WriterAlone(l) ==
    \A t \in Threads : bit[l] = {t} /\ l \in Held(t) => \A s \in Threads : readers[l][s] = 0

IInv ==
    /\ pc \in [Threads -> Nat]
    /\ \A t \in Threads : pc[t] \in 1..Len(Program[t])
    /\ readers \in [Locks -> [Threads -> {0, 1}]]
    /\ bit \in [Locks -> SUBSET Threads]
    /\ \A l \in Locks : \A s, t \in bit[l] : s = t
    /\ \A t \in Threads, l \in Locks : HeldBy(t, l)
    /\ \A l \in Locks : WriterAlone(l)

LEMMA ProgramTyped ==
    ASSUME Order, NEW t \in Threads
    PROVE  /\ Program[t] \in Seq(Steps) /\ Len(Program[t]) \in Nat \ {0}
           /\ \A k \in 1..Len(Program[t]) : Program[t][k] \in Steps
           /\ Follows(Program[t], Holding[t])
<1>1. Disciplined(Program[t])
  BY DEF Order
<1>2. Program[t] \in Seq(Steps) /\ Len(Program[t]) # 0
  BY <1>1 DEF Disciplined
<1>3. Len(Program[t]) \in Nat \ {0} /\ \A k \in 1..Len(Program[t]) : Program[t][k] \in Steps
  BY <1>2
<1>4. Follows(Program[t], Holding[t])
  BY <1>1 DEF Disciplined, Holding
<1> QED BY <1>2, <1>3, <1>4

(* The step of a thread, and what it holds before and after.                   *)
LEMMA AtStep ==
    ASSUME Order, IInv, NEW t \in Threads
    PROVE  /\ Step(t).do \in {"read", "write", "free"} /\ Step(t).lock \in Locks
           /\ Held(t) \subseteq Locks
           /\ Step(t).do = "free" => Step(t).lock \in Held(t)
           /\ Step(t).do # "free" =>
                \A m \in Held(t) : Rank[m] < Rank[Step(t).lock] /\ m # Step(t).lock
           /\ Advance(t) =>
                /\ pc' \in [Threads -> Nat] /\ pc'[t] \in 1..Len(Program[t])
                /\ \A s \in Threads : s # t => pc'[s] = pc[s]
                /\ Holding[t][pc'[t]] =
                     IF Step(t).do = "free" THEN Held(t) \ {Step(t).lock}
                                            ELSE Held(t) \union {Step(t).lock}
<1> DEFINE n == Len(Program[t])
           k == pc[t]
           h == Holding[t]
<1>1. /\ n \in Nat \ {0} /\ k \in 1..n /\ Program[t][k] \in Steps /\ Follows(Program[t], h)
      /\ Step(t) = Program[t][k] /\ Held(t) = h[k]
  BY ProgramTyped DEF IInv, Step, Held
<1>2. Step(t).do \in {"read", "write", "free"} /\ Step(t).lock \in Locks
  BY <1>1 DEF Steps
<1> HIDE DEF h
<1> HIDE DEF h
<1> HIDE DEF h
<1>3. /\ h[k] \in SUBSET Locks /\ h[1] = {} /\ h[n + 1] = {}
      /\ IF Step(t).do = "free"
         THEN Step(t).lock \in h[k] /\ h[k + 1] = h[k] \ {Step(t).lock}
         ELSE /\ \A m \in h[k] : Rank[m] < Rank[Step(t).lock]
              /\ h[k + 1] = h[k] \union {Step(t).lock}
  BY <1>1 DEF Follows, InOrder
<1>4. \A m \in Locks : Rank[m] \in Nat
  BY Ranks
<1>5. ASSUME Step(t).do # "free", NEW m \in Held(t)
      PROVE  Rank[m] < Rank[Step(t).lock] /\ m # Step(t).lock
  <2>1. m \in Locks /\ Rank[m] < Rank[Step(t).lock]
    BY <1>1, <1>3, <1>5
  <2> QED BY <1>4, <2>1
<1>6. ASSUME Advance(t)
      PROVE  /\ pc' \in [Threads -> Nat] /\ pc'[t] \in 1..n
             /\ \A s \in Threads : s # t => pc'[s] = pc[s]
             /\ h[pc'[t]] = h[k + 1]
  <2>2. pc \in [Threads -> Nat] /\ pc' = [pc EXCEPT ![t] = IF k = n THEN 1 ELSE k + 1]
    BY <1>6 DEF IInv, Advance
  <2>3. pc'[t] = IF k = n THEN 1 ELSE k + 1
    BY <2>2
  <2>4. (IF k = n THEN 1 ELSE k + 1) \in 1..n
    BY <1>1
  <2>5. pc' \in [Threads -> Nat] /\ \A s \in Threads : s # t => pc'[s] = pc[s]
    BY <1>1, <2>2, <2>4
  <2> QED BY <1>3, <2>3, <2>4, <2>5
<1> QED BY <1>1, <1>2, <1>3, <1>5, <1>6 DEF h

LEMMA InitHeld == ASSUME Order PROVE Init => IInv
<1> SUFFICES ASSUME Init PROVE IInv
  OBVIOUS
<1>1. ASSUME NEW t \in Threads PROVE pc[t] = 1 /\ 1 \in 1..Len(Program[t]) /\ Held(t) = {}
  <2>1. pc[t] = 1
    BY DEF Init
  <2>2. Len(Program[t]) \in Nat \ {0} /\ Holding[t][1] = {}
    BY ProgramTyped DEF Follows
  <2> QED BY <2>1, <2>2 DEF Held
<1>2. \A t \in Threads, l \in Locks : HeldBy(t, l)
  BY <1>1 DEF Init, HeldBy
<1>3. pc \in [Threads -> Nat] /\ \A t \in Threads : pc[t] \in 1..Len(Program[t])
  BY <1>1 DEF Init
<1>4. \A l \in Locks : WriterAlone(l)
  BY DEF Init, WriterAlone
<1> QED BY <1>2, <1>3, <1>4 DEF Init, IInv

(* The rest of a step: the locks that are not those of the step, and the other  *)
(* threads, keep what they have.                                               *)
LEMMA NextHeld == ASSUME Order PROVE IInv /\ [Next]_vars => IInv'
<1> SUFFICES ASSUME IInv, [Next]_vars PROVE IInv'
  OBVIOUS
<1>1. /\ pc \in [Threads -> Nat] /\ \A t \in Threads : pc[t] \in 1..Len(Program[t])
      /\ readers \in [Locks -> [Threads -> {0, 1}]] /\ bit \in [Locks -> SUBSET Threads]
      /\ \A l \in Locks : \A s, t \in bit[l] : s = t
      /\ \A t \in Threads, l \in Locks : HeldBy(t, l)
      /\ \A l \in Locks : WriterAlone(l)
  BY DEF IInv
<1>2. ASSUME NEW t \in Threads, AcquireRead(t) PROVE IInv'
  <2> DEFINE l == Step(t).lock
  <2>1. /\ Step(t).do = "read" /\ bit[l] = {} /\ Advance(t) /\ bit' = bit
        /\ readers' = [readers EXCEPT ![l][t] = readers[l][t] + 1]
    BY <1>2 DEF AcquireRead
  <2>2. /\ l \in Locks /\ l \notin Held(t)
        /\ pc' \in [Threads -> Nat] /\ pc'[t] \in 1..Len(Program[t])
        /\ \A s \in Threads : s # t => pc'[s] = pc[s]
        /\ Holding[t][pc'[t]] = Held(t) \union {l}
    BY <2>1, AtStep
  <2>3. readers[l][t] = 0
    BY <1>1, <2>2 DEF HeldBy
  <2>4. readers' = [readers EXCEPT ![l][t] = 1]
    BY <2>1, <2>3
  <2> HIDE DEF l
  <2>5. /\ readers' \in [Locks -> [Threads -> {0, 1}]] /\ readers'[l][t] = 1
        /\ \A m \in Locks, s \in Threads : m # l \/ s # t => readers'[m][s] = readers[m][s]
    BY <1>1, <2>2, <2>4
  <2>6. \A s \in Threads : pc'[s] \in 1..Len(Program[s])
    BY <1>1, <2>2
  <2>7. ASSUME NEW s \in Threads, NEW m \in Locks PROVE HeldBy(s, m)'
    <3>1. CASE s = t
      <4>1. Held(t)' = Held(t) \union {l}
        BY <2>2 DEF Held
      <4>2. HeldBy(t, m) /\ (bit[m] = {t} => m \in Held(t))
        BY <1>1, <2>1 DEF HeldBy
      <4>3. CASE m = l
        BY <2>1, <2>5, <3>1, <4>1, <4>3 DEF HeldBy, l
      <4>4. CASE m # l
        <5>1. readers'[m][t] = readers[m][t] /\ bit'[m] = bit[m]
          BY <2>1, <2>5, <4>4
        <5> QED BY <3>1, <4>1, <4>2, <4>4, <5>1 DEF HeldBy
      <4> QED BY <4>3, <4>4
    <3>2. CASE s # t
      <4>1. /\ Held(s)' = Held(s) /\ Step(s)' = Step(s)
            /\ readers'[m][s] = readers[m][s] /\ bit'[m] = bit[m]
        BY <2>1, <2>2, <2>5, <3>2 DEF Held, Step
      <4> QED BY <1>1, <4>1 DEF HeldBy
    <3> QED BY <3>1, <3>2
  <2>8. ASSUME NEW m \in Locks PROVE WriterAlone(m)'
    <3>1. CASE m = l
      BY <2>1, <3>1 DEF WriterAlone, l
    <3>2. CASE m # l
      <4>1. /\ bit'[m] = bit[m] /\ \A s \in Threads : readers'[m][s] = readers[m][s]
            /\ \A s \in Threads : m \in Held(s)' => m \in Held(s)
        BY <2>1, <2>2, <2>5, <3>2 DEF Held
      <4> QED BY <1>1, <4>1 DEF WriterAlone
    <3> QED BY <3>1, <3>2
  <2> QED BY <1>1, <2>1, <2>2, <2>5, <2>6, <2>7, <2>8 DEF IInv
<1>3. ASSUME NEW t \in Threads, AnnounceWrite(t) PROVE IInv'
  <2> DEFINE l == Step(t).lock
  <2>1. /\ Step(t).do = "write" /\ bit[l] = {} /\ bit' = [bit EXCEPT ![l] = {t}]
        /\ pc' = pc /\ readers' = readers
    BY <1>3 DEF AnnounceWrite
  <2>2. l \in Locks /\ l \notin Held(t)
    BY <2>1, AtStep
  <2>3. readers[l][t] = 0
    BY <1>1, <2>2 DEF HeldBy
  <2> HIDE DEF l
  <2>4. /\ bit' \in [Locks -> SUBSET Threads] /\ bit'[l] = {t}
        /\ \A m \in Locks : m # l => bit'[m] = bit[m]
    BY <1>1, <2>1, <2>2
  <2>5. \A m \in Locks : \A s, r \in bit'[m] : s = r
    BY <1>1, <2>4
  <2>6. ASSUME NEW s \in Threads, NEW m \in Locks PROVE HeldBy(s, m)'
    <3>1. Held(s)' = Held(s) /\ Step(s)' = Step(s) /\ readers'[m][s] = readers[m][s]
      BY <2>1 DEF Held, Step
    <3>2. HeldBy(s, m)
      BY <1>1
    <3>3. CASE m # l
      BY <2>4, <3>1, <3>2, <3>3 DEF HeldBy
    <3>4. CASE m = l /\ s = t
      BY <2>1, <2>2, <2>3, <2>4, <3>1, <3>2, <3>4 DEF HeldBy, l
    <3>5. CASE m = l /\ s # t
      BY <2>1, <2>4, <3>1, <3>2, <3>5 DEF HeldBy
    <3> QED BY <3>3, <3>4, <3>5
  <2>7. ASSUME NEW m \in Locks PROVE WriterAlone(m)'
    <3>1. readers' = readers /\ \A s \in Threads : Held(s)' = Held(s)
      BY <2>1 DEF Held
    <3>2. CASE m = l
      BY <2>2, <2>4, <3>1, <3>2 DEF WriterAlone
    <3>3. CASE m # l
      BY <1>1, <2>4, <3>1, <3>3 DEF WriterAlone
    <3> QED BY <3>2, <3>3
  <2> QED BY <1>1, <2>1, <2>4, <2>5, <2>6, <2>7 DEF IInv
<1>4. ASSUME NEW t \in Threads, AcquireWrite(t) PROVE IInv'
  <2> DEFINE l == Step(t).lock
  <2>1. /\ Step(t).do = "write" /\ bit[l] = {t} /\ Advance(t)
        /\ bit' = bit /\ readers' = readers
    BY <1>4 DEF AcquireWrite
  <2>2. /\ l \in Locks /\ l \notin Held(t)
        /\ pc' \in [Threads -> Nat] /\ pc'[t] \in 1..Len(Program[t])
        /\ \A s \in Threads : s # t => pc'[s] = pc[s]
        /\ Holding[t][pc'[t]] = Held(t) \union {l}
    BY <2>1, AtStep
  <2>3. \A s \in Threads : pc'[s] \in 1..Len(Program[s])
    BY <1>1, <2>2
  <2>4. ASSUME NEW s \in Threads, NEW m \in Locks PROVE HeldBy(s, m)'
    <3>1. HeldBy(s, m) /\ readers'[m][s] = readers[m][s] /\ bit'[m] = bit[m]
      BY <1>1, <2>1
    <3>2. CASE s = t
      <4>1. Held(t)' = Held(t) \union {l}
        BY <2>2 DEF Held
      <4>2. m \in Held(t)' <=> m \in Held(t) \/ m = l
        BY <4>1
      <4> HIDE DEF l
      <4> QED BY <2>1, <3>1, <3>2, <4>2 DEF HeldBy, l
    <3>3. CASE s # t
      <4>1. Held(s)' = Held(s) /\ Step(s)' = Step(s)
        BY <2>2, <3>3 DEF Held, Step
      <4> QED BY <3>1, <4>1 DEF HeldBy
    <3> QED BY <3>2, <3>3
  <2>5. ASSUME NEW m \in Locks PROVE WriterAlone(m)'
    <3>1. bit' = bit /\ readers' = readers
      BY <2>1
    <3>2. CASE m = l
      <4>1. ReadersOf(m) = {} /\ readers \in [Locks -> [Threads -> {0, 1}]]
        BY <1>1, <1>4, <3>2 DEF AcquireWrite
      <4>2. \A s \in Threads : readers[m][s] = 0
        <5> SUFFICES ASSUME NEW s \in Threads PROVE readers[m][s] = 0
          OBVIOUS
        <5>1. readers[m][s] \in {0, 1} /\ ~ (readers[m][s] > 0)
          BY <4>1 DEF ReadersOf
        <5> QED BY <5>1
      <4> QED BY <3>1, <4>2 DEF WriterAlone
    <3>3. CASE m # l
      <4>1. \A s \in Threads : m \in Held(s)' => m \in Held(s)
        BY <2>2, <3>3 DEF Held
      <4> QED BY <1>1, <3>1, <4>1 DEF WriterAlone
    <3> QED BY <3>2, <3>3
  <2> QED BY <1>1, <2>1, <2>2, <2>3, <2>4, <2>5 DEF IInv
<1>5. ASSUME NEW t \in Threads, Release(t) PROVE IInv'
  <2> DEFINE l == Step(t).lock
  <2>1. /\ Step(t).do = "free" /\ Advance(t)
        /\ IF bit[l] = {t}
           THEN bit' = [bit EXCEPT ![l] = {}] /\ readers' = readers
           ELSE readers' = [readers EXCEPT ![l][t] = readers[l][t] - 1] /\ bit' = bit
    BY <1>5 DEF Release
  <2>2. /\ l \in Locks /\ l \in Held(t)
        /\ pc' \in [Threads -> Nat] /\ pc'[t] \in 1..Len(Program[t])
        /\ \A s \in Threads : s # t => pc'[s] = pc[s]
        /\ Holding[t][pc'[t]] = Held(t) \ {l}
    BY <2>1, AtStep
  <2>3. \A s \in Threads : pc'[s] \in 1..Len(Program[s])
    BY <1>1, <2>2
  <2>4. HeldBy(t, l) /\ l \in Held(t)
    BY <1>1, <2>2
  <2>5. Held(t)' = Held(t) \ {l} /\ Step(t).do # "write"
    BY <2>1, <2>2 DEF Held
  <2> HIDE DEF l
  <2>6. /\ readers' \in [Locks -> [Threads -> {0, 1}]] /\ bit' \in [Locks -> SUBSET Threads]
        /\ readers'[l][t] = 0 /\ bit'[l] # {t}
        /\ bit'[l] \subseteq bit[l]
        /\ \A m \in Locks : m # l => bit'[m] = bit[m]
        /\ \A s \in Threads : s # t => (bit'[l] = {s} <=> bit[l] = {s})
        /\ \A m \in Locks, s \in Threads : m # l \/ s # t => readers'[m][s] = readers[m][s]
    <3>1. CASE bit[l] = {t}
      <4>1. readers[l][t] = 0
        BY <2>4, <3>1 DEF HeldBy
      <4>2. bit' = [bit EXCEPT ![l] = {}] /\ readers' = readers
        BY <2>1, <3>1
      <4>3. bit'[l] = {} /\ \A m \in Locks : m # l => bit'[m] = bit[m]
        BY <1>1, <2>2, <4>2
      <4>4. bit' \in [Locks -> SUBSET Threads]
        BY <1>1, <2>2, <4>2
      <4>5. bit'[l] # {t} /\ bit'[l] \subseteq bit[l]
        BY <4>3
      <4>6. \A s \in Threads : s # t => (bit'[l] = {s} <=> bit[l] = {s})
        BY <3>1, <4>3
      <4> QED BY <1>1, <4>1, <4>2, <4>3, <4>4, <4>5, <4>6
    <3>2. CASE bit[l] # {t}
      <4>1. readers[l][t] = 1
        BY <2>4, <3>2 DEF HeldBy
      <4>2. readers' = [readers EXCEPT ![l][t] = 0] /\ bit' = bit
        BY <2>1, <3>2, <4>1
      <4> QED BY <1>1, <2>2, <3>2, <4>2
    <3> QED BY <3>1, <3>2
  <2>7. \A m \in Locks : \A s, r \in bit'[m] : s = r
    BY <1>1, <2>6
  <2>8. ASSUME NEW s \in Threads, NEW m \in Locks PROVE HeldBy(s, m)'
    <3>1. HeldBy(s, m)
      BY <1>1
    <3>2. CASE s = t /\ m = l
      BY <2>5, <2>6, <3>2 DEF HeldBy
    <3>3. CASE s = t /\ m # l
      <4>1. readers'[m][s] = readers[m][s] /\ bit'[m] = bit[m]
            /\ (m \in Held(s)' <=> m \in Held(s))
        BY <2>5, <2>6, <3>3
      <4> QED BY <2>5, <3>1, <3>3, <4>1 DEF HeldBy
    <3>4. CASE s # t
      <4>1. Held(s)' = Held(s) /\ Step(s)' = Step(s)
        BY <2>2, <3>4 DEF Held, Step
      <4>2. readers'[m][s] = readers[m][s] /\ (bit'[m] = {s} <=> bit[m] = {s})
        BY <2>6, <3>4
      <4> QED BY <3>1, <4>1, <4>2 DEF HeldBy
    <3> QED BY <3>2, <3>3, <3>4
  <2>9. ASSUME NEW m \in Locks PROVE WriterAlone(m)'
    <3> SUFFICES ASSUME NEW s \in Threads, bit'[m] = {s}, m \in Held(s)',
                        NEW r \in Threads
                 PROVE  readers'[m][r] = 0
      BY DEF WriterAlone
    <3>1. bit[m] = {s}
      BY <2>6
    <3>2. m \in Held(s)
      BY <2>2, <2>5 DEF Held
    <3>3. readers[m][r] = 0
      BY <1>1, <3>1, <3>2 DEF WriterAlone
    <3> QED BY <2>6, <3>3
  <2> QED BY <2>2, <2>3, <2>6, <2>7, <2>8, <2>9 DEF IInv
<1>6. CASE UNCHANGED vars
  BY <1>6 DEF vars, IInv, HeldBy, Held, Step, WriterAlone
<1> QED BY <1>2, <1>3, <1>4, <1>5, <1>6 DEF Next

(* Whoever waits, waits for a lock beyond all it holds.                        *)
LEMMA WaitsBeyond ==
    ASSUME Order, IInv, NEW t \in Waiting, NEW m \in Held(t)
    PROVE  Rank[m] < Rank[Step(t).lock] /\ Rank[m] \in 1..7 /\ Rank[Step(t).lock] \in 1..7
<1>1. t \in Threads /\ Blockers(t) # {}
  BY DEF Waiting
<1>2. Step(t).do # "free"
  BY <1>1 DEF Blockers
<1>3. Step(t).lock \in Locks /\ Held(t) \subseteq Locks /\ Rank[m] < Rank[Step(t).lock]
  BY <1>1, <1>2, AtStep
<1> QED BY <1>3, Ranks

(* So in every group nobody who waits for a lock of the highest rank is blocked *)
(* by a holder in it; a writer that has only announced itself is another one    *)
(* that waits for that lock.                                                  *)
LEMMA NoCircle == ASSUME Order, IInv PROVE DeadlockFree
<1> SUFFICES ASSUME NEW D \in SUBSET Waiting, D # {}
             PROVE  \E t \in D : Blockers(t) \intersect D = {}
  BY DEF DeadlockFree
<1> DEFINE S == {Rank[Step(t).lock] : t \in D}
<1>1. \A t \in D : t \in Threads /\ t \in Waiting /\ Step(t).lock \in Locks
  BY AtStep DEF Waiting
<1>2. S \in SUBSET (1..7) /\ S # {}
  BY <1>1, Ranks
<1>3. \E m \in S : \A n \in S : n <= m
  <2> HIDE DEF S
  <2> QED BY <1>2, TopRank
<1>4. PICK t \in D : \A s \in D : Rank[Step(s).lock] <= Rank[Step(t).lock]
  BY <1>3
<1> DEFINE l == Step(t).lock
<1>5. l \in Locks /\ t \in Threads /\ t \in Waiting
  BY <1>1
<1>6. ASSUME NEW s \in D, l \in Held(s) PROVE FALSE
  <2>1. s \in Waiting
    BY <1>1
  <2>2. Rank[l] < Rank[Step(s).lock] /\ Rank[l] \in 1..7 /\ Rank[Step(s).lock] \in 1..7
    BY <1>6, <2>1, WaitsBeyond
  <2>3. Rank[Step(s).lock] <= Rank[l]
    BY <1>4
  <2> QED BY <2>2, <2>3
<1>7. ReadersOf(l) \intersect D = {}
  <2> SUFFICES ASSUME NEW s \in D, readers[l][s] > 0 PROVE FALSE
    BY DEF ReadersOf
  <2>1. s \in Threads /\ HeldBy(s, l)
    BY <1>1, <1>5 DEF IInv
  <2>2. readers[l][s] = 1
    BY <2>1 DEF HeldBy
  <2> QED BY <1>6, <2>1, <2>2 DEF HeldBy
<1>8. Blockers(t) # {} /\ Step(t).do \in {"read", "write", "free"}
  BY <1>5, AtStep DEF Waiting
<1>9. CASE Step(t).do = "write" /\ bit[l] = {t}
  <2>1. Blockers(t) = ReadersOf(l)
    BY <1>9 DEF Blockers
  <2> QED BY <1>7, <2>1
<1>10. CASE ~(Step(t).do = "write" /\ bit[l] = {t})
  <2>1. Blockers(t) = bit[l]
    BY <1>8, <1>10 DEF Blockers
  <2>2. CASE bit[l] \intersect D = {}
    BY <2>1, <2>2
  <2>3. CASE bit[l] \intersect D # {}
    <3>1. PICK s \in D : s \in bit[l]
      BY <2>3
    <3>2. s \in Threads /\ bit[l] = {s} /\ HeldBy(s, l)
      BY <1>1, <1>5, <3>1 DEF IInv
    <3>3. l \notin Held(s)
      BY <1>6
    <3>4. Step(s).do = "write" /\ Step(s).lock = l
      BY <3>2, <3>3 DEF HeldBy
    <3>5. Blockers(s) = ReadersOf(l)
      <4> HIDE DEF l
      <4> QED BY <3>2, <3>4 DEF Blockers
    <3> QED BY <1>7, <3>5
  <2> QED BY <2>2, <2>3
<1> QED BY <1>9, <1>10

(* Programs that take their locks in one order, any number of them, never wait  *)
(* in a circle.                                                               *)
THEOREM OrderedNeverDeadlocks == ASSUME Order PROVE Spec => []DeadlockFree
<1>1. Init => IInv
  BY InitHeld
<1>2. IInv /\ [Next]_vars => IInv'
  BY NextHeld
<1>3. IInv => DeadlockFree
  BY NoCircle
<1> QED BY <1>1, <1>2, <1>3, PTL DEF Spec

-----------------------------------------------------------------------------
(* The operations, and what each holds before each of its steps.               *)
LEMMA GetNextEndpointOrdered == Disciplined(GetNextEndpoint)
<1> DEFINE h == [k \in 1..5 |->
              CASE k \in {2, 4} -> {"endpoints"}
                [] k = 3 -> {"endpoints", "limiters"}
                [] OTHER -> {}]
<1>1. GetNextEndpoint \in Seq(Steps) /\ Len(GetNextEndpoint) = 4
  BY DEF GetNextEndpoint, Read, Free, Steps, Locks
<1>2. h \in [1..(4 + 1) -> SUBSET Locks] /\ h[1] = {} /\ h[4 + 1] = {}
  BY DEF Locks
<1>3. \A k \in 1..4 : InOrder(GetNextEndpoint, h, k)
  BY DEF GetNextEndpoint, Read, Free, InOrder, Rank, Locks
<1> HIDE DEF h
<1>4. Follows(GetNextEndpoint, h)
  BY <1>1, <1>2, <1>3 DEF Follows
<1>5. Len(GetNextEndpoint) # 0
  BY <1>1
<1> QED BY <1>1, <1>4, <1>5 DEF Disciplined

LEMMA UpdateMetricsOrdered == Disciplined(UpdateMetrics)
<1> DEFINE h == [k \in 1..7 |->
              CASE k \in {2, 4, 6} -> {"endpoints"}
                [] k = 3 -> {"endpoints", "settings"}
                [] k = 5 -> {"endpoints", "timeout"}
                [] OTHER -> {}]
<1>1. UpdateMetrics \in Seq(Steps) /\ Len(UpdateMetrics) = 6
  BY DEF UpdateMetrics, Read, Free, Steps, Locks
<1>2. h \in [1..(6 + 1) -> SUBSET Locks] /\ h[1] = {} /\ h[6 + 1] = {}
  BY DEF Locks
<1>3. \A k \in 1..6 : InOrder(UpdateMetrics, h, k)
  BY DEF UpdateMetrics, Read, Free, InOrder, Rank, Locks
<1> HIDE DEF h
<1>4. Follows(UpdateMetrics, h)
  BY <1>1, <1>2, <1>3 DEF Follows
<1>5. Len(UpdateMetrics) # 0
  BY <1>1
<1> QED BY <1>1, <1>4, <1>5 DEF Disciplined

LEMMA MarkOrdered == Disciplined(Mark)
<1> DEFINE h == [k \in 1..7 |->
              CASE k \in {2, 6} -> {"endpoints"}
                [] k \in {3, 5} -> {"endpoints", "base"}
                [] k = 4 -> {"endpoints", "base", "max"}
                [] OTHER -> {}]
<1>1. Mark \in Seq(Steps) /\ Len(Mark) = 6
  BY DEF Mark, Read, Write, Free, Steps, Locks
<1>2. h \in [1..(6 + 1) -> SUBSET Locks] /\ h[1] = {} /\ h[6 + 1] = {}
  BY DEF Locks
<1>3. \A k \in 1..6 : InOrder(Mark, h, k)
  BY DEF Mark, Read, Write, Free, InOrder, Rank, Locks
<1> HIDE DEF h
<1>4. Follows(Mark, h)
  BY <1>1, <1>2, <1>3 DEF Follows
<1>5. Len(Mark) # 0
  BY <1>1
<1> QED BY <1>1, <1>4, <1>5 DEF Disciplined

LEMMA PerformHealthChecksOrdered == Disciplined(PerformHealthChecks)
<1> DEFINE h == [k \in 1..15 |->
              CASE k \in {2, 6, 8, 10, 12, 14} -> {"endpoints"}
                [] k = 4 -> {"settings"}
                [] k = 7 -> {"endpoints", "base"}
                [] k = 9 -> {"endpoints", "max"}
                [] k = 11 -> {"endpoints", "settings"}
                [] OTHER -> {}]
<1>1. PerformHealthChecks \in Seq(Steps) /\ Len(PerformHealthChecks) = 14
  BY DEF PerformHealthChecks, Read, Write, Free, Steps, Locks
<1>2. h \in [1..(14 + 1) -> SUBSET Locks] /\ h[1] = {} /\ h[14 + 1] = {}
  BY DEF Locks
<1>3. ASSUME NEW k \in 1..14 PROVE InOrder(PerformHealthChecks, h, k)
  <2>1. CASE k \in 1..7
    BY <2>1 DEF PerformHealthChecks, Read, Write, Free, InOrder, Rank, Locks
  <2>2. CASE k \in 8..14
    BY <2>2 DEF PerformHealthChecks, Read, Write, Free, InOrder, Rank, Locks
  <2> QED BY <2>1, <2>2
<1> HIDE DEF h
<1>4. Follows(PerformHealthChecks, h)
  BY <1>1, <1>2, <1>3 DEF Follows
<1>5. Len(PerformHealthChecks) # 0
  BY <1>1
<1> QED BY <1>1, <1>4, <1>5 DEF Disciplined

LEMMA CooldownGaugeUpdaterOrdered == Disciplined(CooldownGaugeUpdater)
<1> DEFINE h == [k \in 1..3 |->
              CASE k = 2 -> {"endpoints"}
                [] OTHER -> {}]
<1>1. CooldownGaugeUpdater \in Seq(Steps) /\ Len(CooldownGaugeUpdater) = 2
  BY DEF CooldownGaugeUpdater, Read, Free, Steps, Locks
<1>2. h \in [1..(2 + 1) -> SUBSET Locks] /\ h[1] = {} /\ h[2 + 1] = {}
  BY DEF Locks
<1>3. \A k \in 1..2 : InOrder(CooldownGaugeUpdater, h, k)
  BY DEF CooldownGaugeUpdater, Read, Free, InOrder, Rank, Locks
<1> HIDE DEF h
<1>4. Follows(CooldownGaugeUpdater, h)
  BY <1>1, <1>2, <1>3 DEF Follows
<1>5. Len(CooldownGaugeUpdater) # 0
  BY <1>1
<1> QED BY <1>1, <1>4, <1>5 DEF Disciplined

LEMMA ReloadOrdered == Disciplined(Reload)
<1> DEFINE h == [k \in 1..29 |->
              CASE k \in {2, 4, 6} -> {"connect"}
                [] k = 3 -> {"connect", "timeout"}
                [] k = 8 -> {"timeout"}
                [] k \in {10, 12, 16, 18, 28} -> {"endpoints"}
                [] k \in {13, 15} -> {"endpoints", "limiters"}
                [] k = 14 -> {"endpoints", "limiters", "timeout"}
                [] k = 20 -> {"limiters"}
                [] k = 22 -> {"base"}
                [] k = 24 -> {"max"}
                [] k = 26 -> {"settings"}
                [] OTHER -> {}]
<1>1. Reload \in Seq(Steps) /\ Len(Reload) = 28
  BY DEF Reload, Read, Write, Free, Steps, Locks
<1>2. h \in [1..(28 + 1) -> SUBSET Locks] /\ h[1] = {} /\ h[28 + 1] = {}
  BY DEF Locks
<1>3. ASSUME NEW k \in 1..28 PROVE InOrder(Reload, h, k)
  <2>1. CASE k \in 1..7
    BY <2>1 DEF Reload, Read, Write, Free, InOrder, Rank, Locks
  <2>2. CASE k \in 8..14
    BY <2>2 DEF Reload, Read, Write, Free, InOrder, Rank, Locks
  <2>3. CASE k \in 15..21
    BY <2>3 DEF Reload, Read, Write, Free, InOrder, Rank, Locks
  <2>4. CASE k \in 22..28
    BY <2>4 DEF Reload, Read, Write, Free, InOrder, Rank, Locks
  <2> QED BY <2>1, <2>2, <2>3, <2>4
<1> HIDE DEF h
<1>4. Follows(Reload, h)
  BY <1>1, <1>2, <1>3 DEF Follows
<1>5. Len(Reload) # 0
  BY <1>1
<1> QED BY <1>1, <1>4, <1>5 DEF Disciplined

(* Every operation but get_status takes its locks in the one order.            *)
OrderedOperations ==
    {GetNextEndpoint, UpdateMetrics, Mark, PerformHealthChecks, CooldownGaugeUpdater,
     Reload}

LEMMA OperationsOrdered ==
    ASSUME \A t \in Threads : Program[t] \in OrderedOperations PROVE Order
<1>1. ASSUME NEW t \in Threads PROVE Disciplined(Program[t])
  <2>1. \/ Program[t] = GetNextEndpoint \/ Program[t] = UpdateMetrics
        \/ Program[t] = Mark \/ Program[t] = PerformHealthChecks
        \/ Program[t] = CooldownGaugeUpdater \/ Program[t] = Reload
    BY DEF OrderedOperations
  <2> QED BY <2>1, GetNextEndpointOrdered, UpdateMetricsOrdered, MarkOrdered,
             PerformHealthChecksOrdered, CooldownGaugeUpdaterOrdered, ReloadOrdered
<1> QED BY <1>1 DEF Order

(* The guards' discipline: what a thread holds is what its place in its         *)
(* operation says (Follows determines Holding step by step), so that between    *)
(* two operations it holds nothing; and a writer has its lock for itself.      *)
GuardsHeld ==
    /\ \A t \in Threads, l \in Locks : HeldBy(t, l)
    /\ \A l \in Locks : WriterAlone(l) /\ \A s, t \in bit[l] : s = t

NothingLeftHeld ==
    \A t \in Threads, l \in Locks :
        pc[t] = 1 => readers[l][t] = 0 /\ (bit[l] = {t} => Step(t) = Write(l))

(* parking_lot's guards: a lock is held by those whose operation is between     *)
(* the guard's making and its drop and by nobody else, a writer excludes every  *)
(* other holder, and no operation ends with a lock still held.                 *)
THEOREM HeldAsGuardsSay ==
    ASSUME \A t \in Threads : Program[t] \in OrderedOperations
    PROVE  Spec => [](GuardsHeld /\ NothingLeftHeld)
<1>1. Order
  BY OperationsOrdered
<1>2. Init => IInv
  BY <1>1, InitHeld
<1>3. IInv /\ [Next]_vars => IInv'
  BY <1>1, NextHeld
<1>4. IInv => GuardsHeld
  BY DEF IInv, GuardsHeld
<1>5. IInv => NothingLeftHeld
  <2> SUFFICES ASSUME IInv, NEW t \in Threads, NEW l \in Locks, pc[t] = 1
               PROVE  readers[l][t] = 0 /\ (bit[l] = {t} => Step(t) = Write(l))
    BY DEF NothingLeftHeld
  <2>1. /\ Held(t) = {} /\ Step(t) \in Steps /\ HeldBy(t, l)
    BY <1>1, ProgramTyped DEF Held, Follows, Step, IInv
  <2> QED BY <2>1 DEF HeldBy, Write, Steps
<1> QED BY <1>2, <1>3, <1>4, <1>5, PTL DEF Spec

(* With any number of threads in any of the operations but get_status, no      *)
(* circle of waiting arises among them (balancer.rs, forwarder.rs, health.rs,  *)
(* cooldown.rs, config_reloader.rs).                                          *)
THEOREM OperationsNeverDeadlock ==
    ASSUME \A t \in Threads : Program[t] \in OrderedOperations
    PROVE  Spec => []DeadlockFree
BY OperationsOrdered, OrderedNeverDeadlocks
=============================================================================
