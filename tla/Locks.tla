------------------------------- MODULE Locks --------------------------------
(***************************************************************************)
(* The parking_lot RwLocks of the balancer and the order in which its        *)
(* operations take and release them.  A thread runs one operation again and  *)
(* again; an operation is a program of lock steps, read off the source.      *)
(*                                                                         *)
(* parking_lot's RwLock (external): a writer first sets the writer bit,      *)
(* which needs no other writer, and then waits for the readers to leave; a   *)
(* reader waits while the bit is set, even if the lock is held by readers    *)
(* only and even if the waiting reader is one of them.                       *)
(***************************************************************************)
EXTENDS Naturals, Sequences, FiniteSets

CONSTANTS
    Threads,
    Program   \* the operation each thread runs

Locks == {"endpoints", "limiters", "base", "max", "connect", "timeout", "settings"}

Read(lock) == [do |-> "read", lock |-> lock]
Write(lock) == [do |-> "write", lock |-> lock]
Free(lock) == [do |-> "free", lock |-> lock]
Steps == [do : {"read", "write", "free"}, lock : Locks]

ASSUME LocksAssumption == Program \in [Threads -> Seq(Steps)]

-----------------------------------------------------------------------------
(* The operations.  "connect" and "timeout" stand for the four locks of the   *)
(* client's settings, which reload compares in one expression and so holds     *)
(* together; "settings" for the scalar locks that nobody holds while asking    *)
(* for another one (smoothing factor, client, config path, intervals).        *)

GetNextEndpoint ==
    << Read("endpoints"), Read("limiters"), Free("limiters"), Free("endpoints") >>

(* The metrics update of forward_request. *)
UpdateMetrics ==
    << Read("endpoints"), Read("settings"), Free("settings"),
       Read("timeout"), Free("timeout"), Free("endpoints") >>

(* mark_rate_limited and mark_unhealthy. *)
Mark ==
    << Write("endpoints"), Read("base"), Read("max"), Free("max"), Free("base"),
       Free("endpoints") >>

PerformHealthChecks ==
    << Read("endpoints"), Free("endpoints"), Read("settings"), Free("settings"),
       Write("endpoints"), Read("base"), Free("base"), Read("max"), Free("max"),
       Read("settings"), Free("settings"), Free("endpoints"),
       Read("endpoints"), Free("endpoints") >>

(* Twice in a row in the code, which a program that is repeated need not say. *)
CooldownGaugeUpdater == << Read("endpoints"), Free("endpoints") >>

(* Mutant: both writes at the end under both locks, limiters first. *)
ReloadBothAtOnce ==
    << Read("endpoints"), Read("limiters"), Free("limiters"), Free("endpoints"),
       Write("limiters"), Write("endpoints"), Free("endpoints"), Free("limiters") >>

Reload ==
    << Read("connect"), Read("timeout"), Free("timeout"), Free("connect"),
       Write("connect"), Free("connect"), Write("timeout"), Free("timeout"),
       Read("endpoints"), Free("endpoints"),
       Read("endpoints"), Read("limiters"), Read("timeout"), Free("timeout"),
       Free("limiters"), Free("endpoints"),
       Write("endpoints"), Free("endpoints"), Write("limiters"), Free("limiters"),
       Write("base"), Free("base"), Write("max"), Free("max"),
       Write("settings"), Free("settings"), Read("endpoints"), Free("endpoints") >>

(* get_status, which reads the settings one after the other and calls          *)
(* get_endpoint_priority_stats while it still holds the endpoints.            *)
GetStatus ==
    << Read("endpoints"), Read("settings"), Free("settings"),
       Read("base"), Free("base"), Read("max"), Free("max"),
       Read("settings"), Free("settings"),
       Read("connect"), Free("connect"), Read("timeout"), Free("timeout"),
       Read("endpoints"), Free("endpoints"), Free("endpoints") >>

-----------------------------------------------------------------------------
VARIABLES
    pc,       \* the next step of each thread's program
    readers,  \* how often each thread holds each lock for reading
    bit       \* the threads that have set each lock's writer bit (at most one)

vars == <<pc, readers, bit>>

Init ==
    /\ pc = [t \in Threads |-> 1]
    /\ readers = [l \in Locks |-> [t \in Threads |-> 0]]
    /\ bit = [l \in Locks |-> {}]

Step(t) == Program[t][pc[t]]

(* The next step, or the operation's beginning again. *)
Advance(t) == pc' = [pc EXCEPT ![t] = IF @ = Len(Program[t]) THEN 1 ELSE @ + 1]

ReadersOf(l) == {t \in Threads : readers[l][t] > 0}

AcquireRead(t) ==
    /\ Step(t).do = "read"
    /\ bit[Step(t).lock] = {}
    /\ readers' = [readers EXCEPT ![Step(t).lock][t] = @ + 1]
    /\ Advance(t)
    /\ UNCHANGED bit

AnnounceWrite(t) ==
    /\ Step(t).do = "write"
    /\ bit[Step(t).lock] = {}
    /\ bit' = [bit EXCEPT ![Step(t).lock] = {t}]
    /\ UNCHANGED <<pc, readers>>

AcquireWrite(t) ==
    /\ Step(t).do = "write"
    /\ bit[Step(t).lock] = {t}
    /\ ReadersOf(Step(t).lock) = {}
    /\ Advance(t)
    /\ UNCHANGED <<readers, bit>>

Release(t) ==
    /\ Step(t).do = "free"
    /\ LET l == Step(t).lock IN
       IF bit[l] = {t}
       THEN bit' = [bit EXCEPT ![l] = {}] /\ UNCHANGED readers
       ELSE readers' = [readers EXCEPT ![l][t] = @ - 1] /\ UNCHANGED bit
    /\ Advance(t)

Next ==
    \/ \E t \in Threads : AcquireRead(t)
    \/ \E t \in Threads : AnnounceWrite(t)
    \/ \E t \in Threads : AcquireWrite(t)
    \/ \E t \in Threads : Release(t)

Spec == Init /\ [][Next]_vars

-----------------------------------------------------------------------------
(* Those a thread's next step has to wait for. *)
Blockers(t) ==
    LET l == Step(t).lock IN
    CASE Step(t).do = "read" -> bit[l]
      [] Step(t).do = "write" /\ bit[l] # {t} -> bit[l]
      [] Step(t).do = "write" /\ bit[l] = {t} -> ReadersOf(l)
      [] OTHER -> {}

Waiting == {t \in Threads : Blockers(t) # {}}

(* No group of threads waits in a circle: in every group somebody waits for   *)
(* nobody in it.  A circle would stop the requests, the health loop and the   *)
(* reload for good, since they all take the endpoints' lock.                  *)
DeadlockFree ==
    \A D \in (SUBSET Waiting) \ {{}} : \E t \in D : Blockers(t) \intersect D = {}
=============================================================================
