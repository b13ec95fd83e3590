------------------------------ MODULE ImportApi ------------------------------
(***************************************************************************)
(* The mutating handlers of backend/app/api/routes/imports.py and the      *)
(* enqueue_job they share. validate_import and confirm_import read the     *)
(* import FOR UPDATE, so each is one step. set_mapping, cancel_import and  *)
(* retry_import read the import without a lock and write later: each is a  *)
(* Read step and a Commit step of a session.                               *)
(***************************************************************************)
EXTENDS ImportState

\* enqueue_job: a job and its outbox row in the caller's transaction. Job j
\* is the next one in creation order.
EnqueueJob(j, i, kind) ==
    /\ j \in JobIds /\ ~Created(j)
    /\ \A k \in 1 .. j - 1 : Created(k)
    /\ job' = [job EXCEPT ![j] = [status |-> "queued", import |-> i,
                                  kind |-> kind, attempts |-> 0]]
    /\ outbox' = [outbox EXCEPT ![j] = "pending"]

\* upload_import stores the object and inserts the row.
Upload(i) ==
    /\ batch[i].status = None
    /\ batch' = [batch EXCEPT ![i].status = "uploaded"]
    /\ UNCHANGED <<job, attempt, outbox, contacts, report, queue, worker,
                   recon, session>>

-----------------------------------------------------------------------------
(* set_mapping *)

Mappable == {"uploaded", "mapped", "failed"}

SetMappingRead(s, i, m) ==
    /\ session[s].pc = "idle"
    /\ batch[i].status \in Mappable
    /\ session' = [session EXCEPT ![s] =
          [pc |-> "mapping", import |-> i, status |-> batch[i].status,
           loaded |-> batch[i].mapping, mapping |-> m]]
    /\ UNCHANGED <<dbVars, report, queue, worker, recon>>

SetMappingCommit(s) ==
    /\ session[s].pc = "mapping"
    /\ LET i == session[s].import IN
       batch' = [batch EXCEPT
          ![i].mapping = Flushed(session[s].loaded, session[s].mapping, @),
          ![i].status = Flushed(session[s].status, "mapped", @)]
    /\ session' = [session EXCEPT ![s] = IdleSession]
    /\ UNCHANGED <<job, attempt, outbox, contacts, report, queue, worker, recon>>

-----------------------------------------------------------------------------
(* validate_import, confirm_import *)

ValidateImport(i, j) ==
    /\ batch[i].status = "mapped"
    /\ EnqueueJob(j, i, "validate")
    /\ batch' = [batch EXCEPT ![i].status = "validating"]
    /\ UNCHANGED <<attempt, contacts, report, queue, worker, recon, session>>

\* Mutant: the key is not looked at before a job is queued.
ConfirmImportAgain(i, k, j) ==
    /\ batch[i].status = "validated"
    /\ EnqueueJob(j, i, "confirm")
    /\ batch' = [batch EXCEPT ![i].key = k]
    /\ UNCHANGED <<attempt, contacts, report, queue, worker, recon, session>>

\* Mutant: the accepted key is not stored with the job.
ConfirmImportKeyless(i, k, j) ==
    /\ batch[i].key = None
    /\ batch[i].status = "validated"
    /\ EnqueueJob(j, i, "confirm")
    /\ UNCHANGED <<batch, attempt, contacts, report, queue, worker, recon, session>>

\* With a key already stored the handler answers with the existing job or a
\* conflict and writes nothing.
ConfirmImport(i, k, j) ==
    /\ batch[i].key = None
    /\ batch[i].status = "validated"
    /\ EnqueueJob(j, i, "confirm")
    /\ batch' = [batch EXCEPT ![i].key = k]
    /\ UNCHANGED <<attempt, contacts, report, queue, worker, recon, session>>

-----------------------------------------------------------------------------
(* cancel_import *)

CancelRead(s, i) ==
    /\ session[s].pc = "idle"
    /\ batch[i].status # None
    /\ ~batch[i].started
    /\ batch[i].status # "completed"
    /\ session' = [session EXCEPT ![s] =
          [IdleSession EXCEPT !.pc = "cancel", !.import = i]]
    /\ UNCHANGED <<dbVars, report, queue, worker, recon>>

Cancellable == {"queued", "running"}

CancelCommit(s) ==
    /\ session[s].pc = "cancel"
    /\ LET i == session[s].import IN
       /\ \A j \in JobsOf(i) : job[j].status \in Cancellable => ~Locked(j)
       /\ \/ \E j \in JobIds :
                /\ IsNewest(j, i, Cancellable)
                /\ job' = [job EXCEPT ![j].status = "cancel_requested"]
          \/ /\ \A j \in JobsOf(i) : job[j].status \notin Cancellable
             /\ UNCHANGED job
    /\ session' = [session EXCEPT ![s] = IdleSession]
    /\ UNCHANGED <<batch, attempt, outbox, contacts, report, queue, worker, recon>>

-----------------------------------------------------------------------------
(* retry_import *)

RetryRead(s, i) ==
    /\ session[s].pc = "idle"
    /\ batch[i].status # None
    /\ session' = [session EXCEPT ![s] =
          [IdleSession EXCEPT !.pc = "retry", !.import = i,
                              !.status = batch[i].status]]
    /\ UNCHANGED <<dbVars, report, queue, worker, recon>>

\* Mutant: the import returns to "validated" whatever kind of job failed.
RetryStatusMutant(kind) == "validated"

RetryStatus(kind) == IF kind = "confirm" THEN "validated" ELSE "mapped"

\* The newest failed job is queued again as a new job of the same kind.
RetryFailed(s, i, failed, j) ==
    /\ IsNewest(failed, i, {"failed"})
    /\ EnqueueJob(j, i, job[failed].kind)
    /\ batch' = [batch EXCEPT ![i].status =
          Flushed(session[s].status, RetryStatus(job[failed].kind), @)]

RetryCommit(s) ==
    /\ session[s].pc = "retry"
    /\ LET i == session[s].import IN
       /\ \A j \in JobsOf(i) : job[j].status = "failed" => ~Locked(j)
       /\ \/ \E failed, j \in JobIds : RetryFailed(s, i, failed, j)
          \/ /\ \A j \in JobsOf(i) : job[j].status # "failed"
             /\ UNCHANGED <<batch, job, outbox>>
    /\ session' = [session EXCEPT ![s] = IdleSession]
    /\ UNCHANGED <<attempt, contacts, report, queue, worker, recon>>

-----------------------------------------------------------------------------
Request ==
    \/ \E i \in Imports :
          \/ Upload(i)
          \/ \E j \in JobIds : ValidateImport(i, j)
          \/ \E k \in Keys, j \in JobIds : ConfirmImport(i, k, j)
    \/ \E s \in Sessions :
          \/ \E i \in Imports :
                \/ \E m \in Mappings : SetMappingRead(s, i, m)
                \/ CancelRead(s, i)
                \/ RetryRead(s, i)
          \/ SetMappingCommit(s)
          \/ CancelCommit(s)
          \/ RetryCommit(s)
=============================================================================
