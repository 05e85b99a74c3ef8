--------------------------- MODULE ShutdownProofs ---------------------------
(* The order of the shutdown, for any number of requests in flight and of     *)
(* background tasks, and whichever of the tasks can panic.                    *)
EXTENDS Shutdown, TLAPS

(* What join_next has returned has ended by itself, as long as main waits;     *)
(* an Ok is returned when main is done with the tasks; and a task is told to   *)
(* end, or cut off, when the signal is sent.                                  *)
JoinedHaveEnded == main \notin {"stopping", "exited"} => \A k \in joined : task[k] = "ended"
OkAtTheEnd == result = "ok" => main \in {"stopping", "exited"}
ToldBySignal ==
    (\E k \in Tasks : task[k] \in {"ended", "aborted"})
    => main \in {"joining", "stopping", "exited"}

(* The inductive invariant: RequestsBeforeTasks needs ToldBySignal, for a      *)
(* request that is accepted; OkMeansClean needs the other two for the step in  *)
(* which all are joined.                                                      *)
IInv ==
    /\ TypeOK
    /\ RequestsBeforeTasks
    /\ OkMeansClean
    /\ JoinedHaveEnded
    /\ OkAtTheEnd
    /\ ToldBySignal

-----------------------------------------------------------------------------
LEMMA InitInvariant == Init => IInv
BY DEF Init, IInv, TypeOK, Stages, Over, RequestsBeforeTasks, OkMeansClean,
       JoinedHaveEnded, OkAtTheEnd, ToldBySignal

(* Clients and the server change requests before the end only, and accept     *)
(* new ones before the drain only.                                            *)
LEMMA RequestStep ==
    ASSUME IInv, NEW r \in Requests,
           Accept(r) \/ BodyComplete(r) \/ Answer(r) \/ HangUp(r)
    PROVE  IInv'
<1>1. /\ UNCHANGED <<main, force, task, joined, result>>
      /\ main # "exited"
      /\ \E what \in {"none", "sending", "handled"} :
           request' = [request EXCEPT ![r] = what]
      /\ main \in {"serving", "confirming"} \/ request[r] # "none"
  BY DEF Accept, BodyComplete, Answer, HangUp
<1>2. TypeOK'
  BY <1>1 DEF IInv, TypeOK
<1>3. RequestsBeforeTasks'
  BY <1>1 DEF IInv, RequestsBeforeTasks, ToldBySignal
<1>4. OkMeansClean' /\ JoinedHaveEnded' /\ OkAtTheEnd' /\ ToldBySignal'
  BY <1>1 DEF IInv, OkMeansClean, JoinedHaveEnded, OkAtTheEnd, ToldBySignal
<1> QED BY <1>2, <1>3, <1>4 DEF IInv

(* A task changes its state until it is over; it ends, or is cut off, when     *)
(* main has come to the tasks.                                                *)
LEMMA TaskStep ==
    ASSUME IInv, NEW k \in Tasks,
           Tick(k) \/ WorkDone(k) \/ Panic(k) \/ SeeSignal(k) \/ Cancelled(k)
    PROVE  IInv'
<1>1. /\ UNCHANGED <<main, force, request, joined, result>>
      /\ task[k] \in {"waiting", "working"}
      /\ \E what \in {"waiting", "working"} \union Over :
           /\ task' = [task EXCEPT ![k] = what]
           /\ what \in {"ended", "aborted"} => main \in {"joining", "stopping"}
  BY DEF Tick, WorkDone, Panic, SeeSignal, SignalSent, Cancelled, Over, IInv, TypeOK
<1>2. k \notin joined
  BY <1>1 DEF IInv, TypeOK, Over
<1>3. TypeOK'
  BY <1>1, <1>2 DEF IInv, TypeOK
<1>4. ToldBySignal'
  BY <1>1 DEF IInv, TypeOK, ToldBySignal
<1>5. RequestsBeforeTasks'
  BY <1>1, <1>4 DEF IInv, RequestsBeforeTasks, ToldBySignal
<1>6. OkMeansClean' /\ OkAtTheEnd'
  BY <1>1 DEF IInv, OkMeansClean, OkAtTheEnd
<1>7. JoinedHaveEnded'
  BY <1>1, <1>2 DEF IInv, TypeOK, JoinedHaveEnded
<1> QED BY <1>3, <1>4, <1>5, <1>6, <1>7 DEF IInv

(* The signals lead to the drain.                                             *)
LEMMA SignalStep ==
    ASSUME IInv, SigTerm \/ CtrlC \/ SecondCtrlC \/ ConfirmTimeout
    PROVE  IInv'
<1>1. /\ main \in {"serving", "confirming"} /\ main' \in {"confirming", "draining"}
      /\ force' \in {force, TRUE}
      /\ UNCHANGED <<request, task, joined, result>>
  BY DEF SigTerm, CtrlC, SecondCtrlC, ConfirmTimeout
<1>2. TypeOK'
  BY <1>1 DEF IInv, TypeOK, Stages
<1>3. ToldBySignal' /\ RequestsBeforeTasks'
  BY <1>1 DEF IInv, ToldBySignal, RequestsBeforeTasks
<1>4. OkMeansClean' /\ JoinedHaveEnded' /\ OkAtTheEnd'
  BY <1>1 DEF IInv, OkMeansClean, JoinedHaveEnded, OkAtTheEnd
<1> QED BY <1>2, <1>3, <1>4 DEF IInv

LEMMA DrainedStep == ASSUME IInv, Drained PROVE IInv'
<1>1. /\ main = "draining" /\ \A r \in Requests : request[r] = "none"
      /\ main' \in {"joining", "stopping"}
      /\ UNCHANGED <<force, request, task, joined, result>>
      /\ result # "ok"
  BY DEF Drained, IInv, OkAtTheEnd
<1> QED BY <1>1 DEF IInv, TypeOK, Stages, RequestsBeforeTasks, OkMeansClean,
             JoinedHaveEnded, OkAtTheEnd, ToldBySignal

LEMMA JoinNextStep == ASSUME IInv, NEW k \in Tasks, JoinNext(k) PROVE IInv'
<1>1. /\ main = "joining" /\ joined' = joined \union {k} /\ task[k] \in Over
      /\ UNCHANGED <<force, request, task>> /\ result # "ok"
  BY DEF JoinNext, IInv, OkAtTheEnd, Over
<1>2. CASE task[k] = "ended" /\ UNCHANGED <<main, result>>
  BY <1>1, <1>2 DEF IInv, TypeOK, RequestsBeforeTasks, OkMeansClean, JoinedHaveEnded,
                    OkAtTheEnd, ToldBySignal
<1>3. CASE main' = "stopping" /\ result' = "panic"
  BY <1>1, <1>3 DEF IInv, TypeOK, Stages, RequestsBeforeTasks, OkMeansClean, JoinedHaveEnded,
                    OkAtTheEnd, ToldBySignal
<1> QED BY <1>2, <1>3 DEF JoinNext

LEMMA AllJoinedStep == ASSUME IInv, AllJoined PROVE IInv'
<1>1. /\ main = "joining" /\ joined = Tasks /\ main' = "stopping" /\ result' = "ok"
      /\ UNCHANGED <<force, request, task, joined>>
  BY DEF AllJoined
<1>2. \A k \in Tasks : task[k] = "ended"
  BY <1>1 DEF IInv, JoinedHaveEnded
<1> QED BY <1>1, <1>2 DEF IInv, TypeOK, Stages, RequestsBeforeTasks, OkMeansClean,
             JoinedHaveEnded, OkAtTheEnd, ToldBySignal

LEMMA JoinTimeoutStep == ASSUME IInv, JoinTimeout PROVE IInv'
<1>1. /\ main = "joining" /\ main' = "stopping" /\ result' = "timeout"
      /\ UNCHANGED <<force, request, task, joined>>
  BY DEF JoinTimeout
<1> QED BY <1>1 DEF IInv, TypeOK, Stages, RequestsBeforeTasks, OkMeansClean,
             JoinedHaveEnded, OkAtTheEnd, ToldBySignal

LEMMA RuntimeDroppedStep == ASSUME IInv, RuntimeDropped PROVE IInv'
<1>1. /\ main = "stopping" /\ main' = "exited"
      /\ UNCHANGED <<force, request, task, joined, result>>
  BY DEF RuntimeDropped
<1> QED BY <1>1 DEF IInv, TypeOK, Stages, RequestsBeforeTasks, OkMeansClean,
             JoinedHaveEnded, OkAtTheEnd, ToldBySignal

-----------------------------------------------------------------------------
LEMMA NextInvariant == IInv /\ [Next]_vars => IInv'
<1> SUFFICES ASSUME IInv, [Next]_vars PROVE IInv'
  OBVIOUS
<1>1. ASSUME NEW r \in Requests, Accept(r) \/ BodyComplete(r) \/ Answer(r) \/ HangUp(r)
      PROVE  IInv'
  BY <1>1, RequestStep
<1>2. ASSUME NEW k \in Tasks,
             Tick(k) \/ WorkDone(k) \/ Panic(k) \/ SeeSignal(k) \/ Cancelled(k)
      PROVE  IInv'
  BY <1>2, TaskStep
<1>3. ASSUME SigTerm \/ CtrlC \/ SecondCtrlC \/ ConfirmTimeout PROVE IInv'
  BY <1>3, SignalStep
<1>4. CASE Drained
  BY <1>4, DrainedStep
<1>5. ASSUME NEW k \in Tasks, JoinNext(k) PROVE IInv'
  BY <1>5, JoinNextStep
<1>6. CASE AllJoined
  BY <1>6, AllJoinedStep
<1>7. CASE JoinTimeout
  BY <1>7, JoinTimeoutStep
<1>8. CASE RuntimeDropped
  BY <1>8, RuntimeDroppedStep
<1>9. CASE UNCHANGED vars
  BY <1>9 DEF vars, IInv, TypeOK, RequestsBeforeTasks, OkMeansClean, JoinedHaveEnded,
              OkAtTheEnd, ToldBySignal
<1> QED BY <1>1, <1>2, <1>3, <1>4, <1>5, <1>6, <1>7, <1>8, <1>9 DEF Next

LEMMA InvariantHolds == Spec => []IInv
BY InitInvariant, NextInvariant, PTL DEF Spec

(* Every variable of the shutdown keeps its type, and join_next returns only   *)
(* tasks that have come to an end.                                            *)
THEOREM TypeCorrect == Spec => []TypeOK
<1>1. IInv => TypeOK
  BY DEF IInv
<1> QED BY <1>1, InvariantHolds, PTL

(* main goes on to the tasks, and a task is told to end or cut off in its      *)
(* work, only when no request is left (Drained, graceful_shutdown, abort_all). *)
THEOREM RequestsAlwaysBeforeTasks == Spec => []RequestsBeforeTasks
<1>1. IInv => RequestsBeforeTasks
  BY DEF IInv
<1> QED BY <1>1, InvariantHolds, PTL

(* An Ok from graceful_shutdown means that every task ended by itself.         *)
THEOREM OkAlwaysClean == Spec => []OkMeansClean
<1>1. IInv => OkMeansClean
  BY DEF IInv
<1> QED BY <1>1, InvariantHolds, PTL
=============================================================================
