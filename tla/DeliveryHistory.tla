--------------------------- MODULE DeliveryHistory ---------------------------
(***************************************************************************)
(* ImportSystem with a history variable: the jobs a reconciler put back to *)
(* queued although a worker had taken them up since it selected them.      *)
(*                                                                         *)
(* reconcile_stalled_jobs selects without a lock and writes later, and     *)
(* both the publisher's loop and every starting worker run it              *)
(* (outbox_publisher.py, worker.py:79-85). Two runs may select the same    *)
(* abandoned job; once the first has requeued it, a worker can take it     *)
(* before the second writes. Nothing in the code prevents that, so what    *)
(* the delivery of jobs promises is stated of the other jobs.              *)
(***************************************************************************)
EXTENDS ImportSystem

VARIABLE overtaken

historyVars == <<vars, overtaken>>

HistoryInit == Init /\ overtaken = {}

\* A worker runs j, or has brought it to success.
TakenUp(j) == job[j].status = "succeeded" \/ \E w \in Workers : RunsJob(w, j)

\* The jobs a reconciler writes back to queued in this step.
RequeuedNow ==
    UNION {recon[r].running : r \in {r \in Reconcilers :
              recon[r].pc = "selected" /\ recon'[r].pc = "idle"}}

HistoryNext ==
    /\ Next
    /\ overtaken' = overtaken \cup {j \in RequeuedNow : TakenUp(j)}

HistorySpec == HistoryInit /\ [][HistoryNext]_historyVars

-----------------------------------------------------------------------------
\* However many reconcilers overlap, and whatever is delivered twice, retried,
\* lost or killed: two workers run one job only after a reconciler has put it
\* back to queued while one of them ran it or after it had succeeded.
OneWorkerPerJob ==
    \A v, w \in Workers :
        Busy(v) /\ Busy(w) /\ v # w /\ MyJob(v) = MyJob(w) => MyJob(v) \in overtaken

\* A job that succeeded is never run again and keeps its success, but for a
\* job that was overtaken: the late write of a reconciler, or the second worker
\* of a job it put back before, are the only ways to lose a success.
SucceededIsFinal ==
    [][\A j \in JobIds :
        job[j].status = "succeeded" =>
            job'[j].status = "succeeded" \/ j \in overtaken']_historyVars
=============================================================================
