------------------------------ MODULE Shutdown ------------------------------
(***************************************************************************)
(* The end of the process: the signals main (src/src/main.rs) waits for, the *)
(* server's drain (hyper, external: it stops accepting and waits for every   *)
(* request it has accepted), and ShutdownManager (src/src/shutdown.rs), which  *)
(* then ends or aborts the two background tasks.  An abort is a request: a   *)
(* task is cancelled where it next awaits, and the process is over when the   *)
(* runtime (tokio, external) has seen every task stop.                       *)
(***************************************************************************)
EXTENDS Naturals, FiniteSets

CONSTANTS
    Requests,
    Tasks,
    Fragile   \* the tasks whose handler can panic: the health loop

ASSUME ShutdownAssumption == Fragile \subseteq Tasks

VARIABLES
    main,     \* where main is
    force,    \* force_shutdown_atomic
    request,  \* what each accepted request waits for
    task,     \* what each background task does
    joined,   \* the tasks join_next has returned
    result    \* what graceful_shutdown returned

vars == <<main, force, request, task, joined, result>>

(* In "stopping" main has returned: the tasks left are aborted, the sender    *)
(* and the JoinSet dropped, and the runtime is being dropped.                 *)
Stages == {"serving", "confirming", "draining", "joining", "stopping", "exited"}
Over == {"ended", "panicked", "aborted"}

(* Every variable has its type, and join_next returns only tasks that have    *)
(* come to an end.                                                            *)
TypeOK ==
    /\ main \in Stages
    /\ force \in BOOLEAN
    /\ request \in [Requests -> {"none", "sending", "handled"}]
    /\ task \in [Tasks -> {"waiting", "working"} \union Over]
    /\ joined \subseteq {k \in Tasks : task[k] \in Over}
    /\ result \in {"none", "ok", "panic", "timeout"}

Init ==
    /\ main = "serving"
    /\ force = FALSE
    /\ request = [r \in Requests |-> "none"]
    /\ task = [k \in Tasks |-> "waiting"]
    /\ joined = {}
    /\ result = "none"

-----------------------------------------------------------------------------
(* Clients and the server. *)

(* The head of a request is there; its body may still be under way.  The      *)
(* server accepts until the shutdown future is ready.                         *)
Accept(r) ==
    /\ main \in {"serving", "confirming"}
    /\ request[r] = "none"
    /\ request' = [request EXCEPT ![r] = "sending"]
    /\ UNCHANGED <<main, force, task, joined, result>>

BodyComplete(r) ==
    /\ request[r] = "sending"
    /\ main # "exited"
    /\ request' = [request EXCEPT ![r] = "handled"]
    /\ UNCHANGED <<main, force, task, joined, result>>

(* handle_rpc answers; the HTTP client's timeout bounds it. *)
Answer(r) ==
    /\ request[r] = "handled"
    /\ main # "exited"
    /\ request' = [request EXCEPT ![r] = "none"]
    /\ UNCHANGED <<main, force, task, joined, result>>

HangUp(r) ==
    /\ request[r] # "none"
    /\ main # "exited"
    /\ request' = [request EXCEPT ![r] = "none"]
    /\ UNCHANGED <<main, force, task, joined, result>>

-----------------------------------------------------------------------------
(* The background tasks: a biased select of the shutdown signal and a tick,   *)
(* whose handler runs to its end before the next select.                      *)

SignalSent == main \in {"joining", "stopping"}

Tick(k) ==
    /\ task[k] = "waiting"
    /\ main # "exited"
    /\ ~ SignalSent
    /\ task' = [task EXCEPT ![k] = "working"]
    /\ UNCHANGED <<main, force, request, joined, result>>

WorkDone(k) ==
    /\ task[k] = "working"
    /\ task' = [task EXCEPT ![k] = "waiting"]
    /\ UNCHANGED <<main, force, request, joined, result>>

(* A panic in the handler: interval(0) after a reload. *)
Panic(k) ==
    /\ k \in Fragile
    /\ task[k] = "working"
    /\ task' = [task EXCEPT ![k] = "panicked"]
    /\ UNCHANGED <<main, force, request, joined, result>>

SeeSignal(k) ==
    /\ task[k] = "waiting"
    /\ SignalSent
    /\ task' = [task EXCEPT ![k] = "ended"]
    /\ UNCHANGED <<main, force, request, joined, result>>

(* An aborted task is dropped at its next await, which may come after more of *)
(* its work, or after its end.                                                *)
Cancelled(k) ==
    /\ main = "stopping"
    /\ task[k] \notin Over
    /\ task' = [task EXCEPT ![k] = "aborted"]
    /\ UNCHANGED <<main, force, request, joined, result>>

-----------------------------------------------------------------------------
(* main. *)

SigTerm ==
    /\ main = "serving"
    /\ main' = "draining"
    /\ UNCHANGED <<force, request, task, joined, result>>

CtrlC ==
    /\ main = "serving"
    /\ main' = "confirming"
    /\ UNCHANGED <<force, request, task, joined, result>>

SecondCtrlC ==
    /\ main = "confirming"
    /\ main' = "draining"
    /\ force' = TRUE
    /\ UNCHANGED <<request, task, joined, result>>

(* Ten seconds without a second Ctrl+C. *)
ConfirmTimeout ==
    /\ main = "confirming"
    /\ main' = "draining"
    /\ UNCHANGED <<force, request, task, joined, result>>

(* Mutant: the server does not wait for its requests. *)
DrainedAtOnce ==
    /\ main = "draining"
    /\ main' = IF force THEN "stopping" ELSE "joining"
    /\ UNCHANGED <<force, request, task, joined, result>>

(* graceful.await returns; a forced shutdown asks for the tasks' abort and    *)
(* returns, a graceful one drops the sender, which is the signal.             *)
Drained ==
    /\ main = "draining"
    /\ \A r \in Requests : request[r] = "none"
    /\ main' = IF force THEN "stopping" ELSE "joining"
    /\ UNCHANGED <<force, request, task, joined, result>>

(* Mutant: a panic is taken for an end. *)
JoinNextAnyhow(k) ==
    /\ main = "joining"
    /\ k \notin joined
    /\ task[k] \in Over
    /\ joined' = joined \union {k}
    /\ UNCHANGED <<main, task, result, force, request>>

(* Mutant: a task counts as joined once it has been told. *)
JoinNextTold(k) ==
    /\ main = "joining"
    /\ k \notin joined
    /\ task[k] # "panicked"
    /\ joined' = joined \union {k}
    /\ UNCHANGED <<main, task, result, force, request>>

(* join_next returns k; the first panic ends the wait, and the drop of the    *)
(* set aborts whoever has not ended.                                          *)
JoinNext(k) ==
    /\ main = "joining"
    /\ k \notin joined
    /\ joined' = joined \union {k}
    /\ \/ /\ task[k] = "ended"
          /\ UNCHANGED <<main, result>>
       \/ /\ task[k] = "panicked"
          /\ main' = "stopping"
          /\ result' = "panic"
    /\ UNCHANGED <<force, request, task>>

AllJoined ==
    /\ main = "joining"
    /\ joined = Tasks
    /\ main' = "stopping"
    /\ result' = "ok"
    /\ UNCHANGED <<force, request, task, joined>>

(* Mutant: a task that is busy holds up the timeout. *)
JoinTimeoutAtPause ==
    /\ main = "joining"
    /\ joined # Tasks
    /\ \A k \in Tasks : task[k] # "working"
    /\ main' = "stopping"
    /\ result' = "timeout"
    /\ UNCHANGED <<force, request, task, joined>>

(* Thirty seconds are over: the tasks' abort is asked for. *)
JoinTimeout ==
    /\ main = "joining"
    /\ joined # Tasks
    /\ main' = "stopping"
    /\ result' = "timeout"
    /\ UNCHANGED <<force, request, task, joined>>

(* The drop of the runtime returns when no task is left to poll. *)
RuntimeDropped ==
    /\ main = "stopping"
    /\ \A k \in Tasks : task[k] \in Over
    /\ main' = "exited"
    /\ UNCHANGED <<force, request, task, joined, result>>

MainStep ==
    \/ ConfirmTimeout \/ Drained
    \/ AllJoined \/ JoinTimeout \/ \E k \in Tasks : JoinNext(k)
    \/ RuntimeDropped

Next ==
    \/ \E r \in Requests : Accept(r)
    \/ \E r \in Requests : BodyComplete(r)
    \/ \E r \in Requests : Answer(r)
    \/ \E r \in Requests : HangUp(r)
    \/ \E k \in Tasks : Tick(k)
    \/ \E k \in Tasks : WorkDone(k)
    \/ \E k \in Tasks : Panic(k)
    \/ \E k \in Tasks : SeeSignal(k)
    \/ \E k \in Tasks : Cancelled(k)
    \/ SigTerm
    \/ CtrlC
    \/ SecondCtrlC
    \/ ConfirmTimeout
    \/ Drained
    \/ \E k \in Tasks : JoinNext(k)
    \/ AllJoined
    \/ JoinTimeout
    \/ RuntimeDropped

Spec == Init /\ [][Next]_vars

(* The process: timers fire, main and the handlers run, and a task that runs  *)
(* comes to an await (its handlers block on nothing else for long).           *)
FairProcess ==
    /\ WF_vars(MainStep)
    /\ \A r \in Requests : WF_vars(Answer(r))
    /\ \A k \in Tasks : WF_vars(Cancelled(k))

(* Clients that complete what they have begun, or hang up. *)
FairClients == \A r \in Requests : WF_vars(BodyComplete(r) \/ HangUp(r))

FairSpec == Spec /\ FairProcess
FairClientsSpec == FairSpec /\ FairClients

-----------------------------------------------------------------------------
(* A shutdown, forced or not, completes the requests in flight: main goes on  *)
(* to the tasks, and a task is told to end or cut off in its work, only when  *)
(* no request is left (Drained, graceful_shutdown, abort_all).                *)
RequestsBeforeTasks ==
    (\/ main \in {"joining", "stopping", "exited"}
     \/ \E k \in Tasks : task[k] \in {"ended", "aborted"})
    => \A r \in Requests : request[r] = "none"

(* An Ok from graceful_shutdown means that no task was cut off in its work    *)
(* and none had panicked.                                                     *)
OkMeansClean ==
    result = "ok" => \A k \in Tasks : task[k] = "ended"

(* A signal ends the process, if clients finish or give up what they have     *)
(* begun, even though a task may hang or panic (the 30 second timeout, and    *)
(* the aborts that the end of main asks for).                                 *)
SignalEndsProcess == main # "serving" ~> main = "exited"
=============================================================================
