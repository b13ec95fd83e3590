----------------------------- MODULE JobDelivery -----------------------------
(***************************************************************************)
(* How a queued job reaches a worker: the outbox publisher                 *)
(* (backend/app/outbox_publisher.py), the Redis broker, and                *)
(* reconcile_stalled_jobs (backend/app/services/jobs.py), which the        *)
(* publisher's loop and every starting worker run without a lock.          *)
(*                                                                         *)
(* Time is not modelled. A queued job may count as stale as soon as it is  *)
(* published. A running job may count as stale only when no worker runs    *)
(* it: its heartbeat is refreshed when an attempt starts, an attempt is    *)
(* killed after CELERY_TASK_TIME_LIMIT_SECONDS (600) and a heartbeat is    *)
(* stale after JOB_STALE_SECONDS (900).                                    *)
(***************************************************************************)
EXTENDS ImportState

\* publish_batch for one claimed row: the send and the commit of published_at.
Publish(j) ==
    /\ outbox[j] = "pending"
    /\ queue[FirstDelivery(j)] < MaxCopies
    /\ queue' = Enqueued(FirstDelivery(j))
    /\ outbox' = [outbox EXCEPT ![j] = "published"]
    /\ UNCHANGED <<batch, job, attempt, contacts, report, worker, recon, session>>

\* The publisher dies after the send and before the commit.
PublishUnrecorded(j) ==
    /\ "duplicate" \in Faults
    /\ outbox[j] = "pending"
    /\ queue[FirstDelivery(j)] < MaxCopies
    /\ queue' = Enqueued(FirstDelivery(j))
    /\ UNCHANGED <<dbVars, report, worker, recon, session>>

\* Redis restarts empty.
LoseBroker ==
    /\ "broker" \in Faults
    /\ queue' = [m \in Messages |-> 0]
    /\ UNCHANGED <<dbVars, report, worker, recon, session>>

-----------------------------------------------------------------------------
(* reconcile_stalled_jobs: a SELECT without FOR UPDATE, then the writes *)

StaleRunning(j) ==
    job[j].status = "running" /\ \A w \in Workers : ~RunsJob(w, j)

StaleQueued(j) == job[j].status = "queued" /\ outbox[j] = "published"

ReconcileSelect(r, running, queued) ==
    /\ recon[r].pc = "idle"
    /\ running \cup queued # {}
    /\ \A j \in running : StaleRunning(j)
    /\ \A j \in queued : StaleQueued(j)
    /\ recon' = [recon EXCEPT ![r] = [pc |-> "selected", running |-> running,
                                      queued |-> queued]]
    /\ UNCHANGED <<dbVars, report, queue, worker, session>>

\* Mutant: only the status is reset, and the outbox row stays published.
ReconcileCommitUnpublished(r) ==
    /\ recon[r].pc = "selected"
    /\ job' = [j \in JobIds |->
          IF j \in recon[r].running THEN [job[j] EXCEPT !.status = "queued"]
          ELSE job[j]]
    /\ outbox' = outbox
    /\ recon' = [recon EXCEPT ![r] = IdleReconciler]
    /\ UNCHANGED <<batch, attempt, contacts, report, queue, worker, session>>

\* Mutant: the status column is written for every selected job.
ReconcileCommitBlind(r) ==
    LET selected == recon[r].running \cup recon[r].queued IN
    /\ recon[r].pc = "selected"
    /\ \A j \in selected : ~Locked(j)
    /\ job' = [j \in JobIds |->
          IF j \in selected THEN [job[j] EXCEPT !.status = "queued"] ELSE job[j]]
    /\ outbox' = [j \in JobIds |->
          IF j \in selected THEN "pending" ELSE outbox[j]]
    /\ recon' = [recon EXCEPT ![r] = IdleReconciler]
    /\ UNCHANGED <<batch, attempt, contacts, report, queue, worker, session>>

\* A job loaded as queued keeps its status column out of the UPDATE.
ReconcileCommit(r) ==
    LET selected == recon[r].running \cup recon[r].queued IN
    /\ recon[r].pc = "selected"
    /\ \A j \in selected : ~Locked(j)
    /\ job' = [j \in JobIds |->
          IF j \in recon[r].running THEN [job[j] EXCEPT !.status = "queued"]
          ELSE job[j]]
    /\ outbox' = [j \in JobIds |->
          IF j \in selected THEN "pending" ELSE outbox[j]]
    /\ recon' = [recon EXCEPT ![r] = IdleReconciler]
    /\ UNCHANGED <<batch, attempt, contacts, report, queue, worker, session>>

-----------------------------------------------------------------------------
Transport ==
    \/ \E j \in JobIds : Publish(j) \/ PublishUnrecorded(j)
    \/ LoseBroker

Reconcile ==
    \E r \in Reconcilers :
        \/ \E running, queued \in SUBSET JobIds :
              ReconcileSelect(r, running, queued)
        \/ ReconcileCommit(r)
=============================================================================
