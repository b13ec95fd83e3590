------------------------------ MODULE JobWorker ------------------------------
(***************************************************************************)
(* The Celery task process_job of backend/app/worker.py and the            *)
(* run_validation and run_confirmation it calls                            *)
(* (backend/app/services/jobs.py). Every action ends with a commit, except *)
(* FetchUpload (reads) and Classify, which keeps the job row locked until  *)
(* CommitValidation. The worker's writes to import_batch.status are always *)
(* made: the corner where the session had already loaded the value it      *)
(* writes, and so leaves the column out, is not modelled.                  *)
(***************************************************************************)
EXTENDS ImportState

MyJob(w) == worker[w].msg.job
MyImport(w) == job[MyJob(w)].import

Taken(m) == [queue EXCEPT ![m] = @ - 1]

AttemptEnds(w, status) ==
    attempt' = [attempt EXCEPT ![MyJob(w)][worker[w].attempt] = status]

Release(w) == worker' = [worker EXCEPT ![w] = IdleWorker]

-----------------------------------------------------------------------------
(* _start_attempt: a delivery is taken from the broker and the job row is   *)
(* locked.                                                                  *)

\* Nothing is done for a job that is running, succeeded or cancelled.
IgnoreDelivery(m) ==
    /\ job[m.job].status \in {"running", "succeeded", "cancelled"}
    /\ UNCHANGED <<batch, job, attempt, worker>>

\* Mutant: a delivery of a job to be cancelled is dropped.
CancelOnDeliveryDropped(m) ==
    /\ job[m.job].status = "cancel_requested"
    /\ UNCHANGED <<batch, job, attempt, worker>>

CancelOnDelivery(m) ==
    /\ job[m.job].status = "cancel_requested"
    /\ job' = [job EXCEPT ![m.job].status = "cancelled"]
    /\ LET i == job[m.job].import IN
       batch' = [batch EXCEPT ![i].status =
                    IF batch[i].started THEN @ ELSE "cancelled"]
    /\ UNCHANGED <<attempt, worker>>

ExhaustAttempts(m) ==
    /\ job[m.job].status \in {"queued", "failed"}
    /\ job[m.job].attempts >= MaxAttempts
    /\ job' = [job EXCEPT ![m.job].status = "failed"]
    /\ UNCHANGED <<batch, attempt, worker>>

\* Mutant: the job_attempt row is added for the first attempt only.
BeginAttemptUnrecorded(w, m) ==
    /\ job' = [job EXCEPT ![m.job].status = "running",
                          ![m.job].attempts = @ + 1]
    /\ attempt' = [attempt EXCEPT ![m.job][1] = "running"]
    /\ worker' = [worker EXCEPT ![w] =
          [IdleWorker EXCEPT !.pc = job[m.job].kind, !.msg = m,
                             !.attempt = job[m.job].attempts + 1]]
    /\ UNCHANGED batch

BeginAttempt(w, m) ==
    /\ job' = [job EXCEPT ![m.job].status = "running",
                          ![m.job].attempts = @ + 1]
    /\ attempt' = [attempt EXCEPT
                      ![m.job][job[m.job].attempts + 1] = "running"]
    /\ worker' = [worker EXCEPT ![w] =
          [IdleWorker EXCEPT !.pc = job[m.job].kind, !.msg = m,
                             !.attempt = job[m.job].attempts + 1]]
    /\ UNCHANGED batch

\* Mutant: a delivery of a running job starts it once more.
StartAttemptUnguarded(w, m) ==
    /\ job[m.job].status \in {"queued", "failed", "running"}
    /\ job[m.job].attempts < MaxAttempts
    /\ BeginAttempt(w, m)

\* Mutant: the attempt count is not compared with max_attempts.
StartAttemptUnbounded(w, m) ==
    /\ job[m.job].status \in {"queued", "failed"}
    /\ BeginAttempt(w, m)

StartAttempt(w, m) ==
    /\ job[m.job].status \in {"queued", "failed"}
    /\ job[m.job].attempts < MaxAttempts
    /\ BeginAttempt(w, m)

Deliver(w, m) ==
    /\ ~Busy(w)
    /\ queue[m] > 0
    /\ ~Locked(m.job)
    /\ queue' = Taken(m)
    /\ \/ IgnoreDelivery(m)
       \/ CancelOnDelivery(m)
       \/ ExhaustAttempts(m)
       \/ StartAttempt(w, m)
    /\ UNCHANGED <<outbox, contacts, report, recon, session>>

-----------------------------------------------------------------------------
(* _cancel_if_requested, with the job row locked *)

CancelAttempt(w) ==
    /\ job[MyJob(w)].status = "cancel_requested"
    /\ job' = [job EXCEPT ![MyJob(w)].status = "cancelled"]
    /\ batch' = [batch EXCEPT ![MyImport(w)].status = "cancelled"]
    /\ AttemptEnds(w, "cancelled")
    /\ Release(w)
    /\ UNCHANGED <<contacts, report>>

Succeed(w) ==
    /\ job' = [job EXCEPT ![MyJob(w)].status = "succeeded"]
    /\ AttemptEnds(w, "succeeded")

-----------------------------------------------------------------------------
(* run_validation *)

BeginValidation(w) ==
    /\ worker[w].pc = "validate"
    /\ batch[MyImport(w)].mapping # None
    /\ batch' = [batch EXCEPT ![MyImport(w)].status = "validating"]
    /\ worker' = [worker EXCEPT ![w].pc = "fetch"]
    /\ UNCHANGED <<job, attempt, outbox, contacts, report, queue, recon, session>>

InDirectory(S) == {e \in S : contacts[e] # None}
FileEmails(i) == ValidEmails[i][batch[i].mapping]

\* storage.get, the first pass and the query for existing contacts.
FetchUpload(w) ==
    /\ worker[w].pc = "fetch"
    /\ worker' = [worker EXCEPT ![w].pc = "classify",
                      ![w].existing = InDirectory(FileEmails(MyImport(w)))]
    /\ UNCHANGED <<dbVars, report, queue, recon, session>>

\* The second pass, the cancellation check, the DELETE of the old rows and
\* the report objects: the job stays locked, nothing is committed yet.
PutReports(w) ==
    LET accepted == FileEmails(MyImport(w)) \ worker[w].existing IN
    /\ job[MyJob(w)].status # "cancel_requested"
    /\ report' = [report EXCEPT ![MyImport(w)] = accepted]
    /\ worker' = [worker EXCEPT ![w].pc = "commit", ![w].rows = accepted,
                                ![w].fresh = TRUE]
    /\ UNCHANGED <<batch, job, attempt, contacts>>

Classify(w) ==
    /\ worker[w].pc = "classify"
    /\ ~Locked(MyJob(w))
    /\ CancelAttempt(w) \/ PutReports(w)
    /\ UNCHANGED <<outbox, queue, recon, session>>

\* Rows another validation of the import inserted after our DELETE make our
\* INSERT break uq_validation_row_import_number.
MakeOthersStale(w) ==
    [v \in Workers |->
        IF v = w THEN IdleWorker
        ELSE IF worker[v].pc = "commit" /\ RunsImport(v, MyImport(w))
             THEN [worker[v] EXCEPT !.fresh = FALSE]
             ELSE worker[v]]

CommitValidation(w) ==
    /\ worker[w].pc = "commit"
    /\ worker[w].fresh
    /\ batch' = [batch EXCEPT ![MyImport(w)].status = "validated",
                              ![MyImport(w)].accepted = worker[w].rows]
    /\ Succeed(w)
    /\ worker' = MakeOthersStale(w)
    /\ UNCHANGED <<outbox, contacts, report, queue, recon, session>>

-----------------------------------------------------------------------------
(* run_confirmation: one transaction under the import's and the job's lock *)

\* Mutant: INSERT ... ON CONFLICT DO UPDATE.
UpsertContacts(i, emails) ==
    contacts' = [e \in Emails |-> IF e \in emails THEN i ELSE contacts[e]]

InsertContacts(i, emails) ==
    contacts' = [e \in Emails |->
        IF e \in emails /\ contacts[e] = None THEN i ELSE contacts[e]]

\* Mutant: the rows that met a conflict are counted as inserted.
CommitConfirmationMiscounted(w) ==
    LET i == MyImport(w) IN
    /\ batch[i].status = "validated"
    /\ InsertContacts(i, batch[i].accepted)
    /\ batch' = [batch EXCEPT ![i].status = "completed", ![i].started = TRUE,
                              ![i].inserted = batch[i].accepted,
                              ![i].skipped = InDirectory(batch[i].accepted)]
    /\ Succeed(w) /\ Release(w)
    /\ UNCHANGED report

CommitConfirmation(w) ==
    LET i == MyImport(w)
        existing == InDirectory(batch[i].accepted)
    IN
    /\ batch[i].status = "validated"
    /\ InsertContacts(i, batch[i].accepted)
    /\ batch' = [batch EXCEPT ![i].status = "completed", ![i].started = TRUE,
                              ![i].inserted = batch[i].accepted \ existing,
                              ![i].skipped = existing]
    /\ Succeed(w) /\ Release(w)
    /\ UNCHANGED report

AlreadyCompleted(w) ==
    /\ batch[MyImport(w)].status = "completed"
    /\ Succeed(w) /\ Release(w)
    /\ UNCHANGED <<batch, contacts, report>>

RunConfirmation(w) ==
    /\ worker[w].pc = "confirm"
    /\ ~Locked(MyJob(w))
    /\ \/ CancelAttempt(w)
       \/ /\ job[MyJob(w)].status # "cancel_requested"
          /\ AlreadyCompleted(w) \/ CommitConfirmation(w)
    /\ UNCHANGED <<outbox, queue, recon, session>>

-----------------------------------------------------------------------------
(* _fail_attempt, and what Celery does with the exception it re-raises *)

\* autoretry_for=(OSError,): another message, one retry further on.
Retried(m) ==
    IF m.retries + 1 < MaxAttempts
    THEN Enqueued([m EXCEPT !.retries = @ + 1])
    ELSE queue

\* The RuntimeErrors the two functions raise themselves.
NotReady(w) ==
    \/ /\ worker[w].pc = "validate"
       /\ batch[MyImport(w)].mapping = None
    \/ /\ worker[w].pc = "confirm"
       /\ job[MyJob(w)].status # "cancel_requested"
       /\ batch[MyImport(w)].status \notin {"validated", "completed"}

\* Errors that end an attempt without another message.
OrdinaryError(w) ==
    \/ "error" \in Faults
    \/ NotReady(w)
    \/ worker[w].pc = "commit" /\ ~worker[w].fresh

LockedByOther(w) ==
    \E v \in Workers \ {w} : RunsJob(v, MyJob(w)) /\ worker[v].pc = "commit"

StorageError(w) == "storage" \in Faults /\ worker[w].pc \in {"fetch", "commit"}

\* Mutant: a cancellation request is honoured for the job and not the import.
FailAttemptHalfCancelled(w) ==
    /\ Busy(w)
    /\ ~LockedByOther(w)
    /\ job' = [job EXCEPT ![MyJob(w)].status =
                  IF @ = "cancel_requested" THEN "cancelled" ELSE "failed"]
    /\ batch' = [batch EXCEPT ![MyImport(w)].status = "failed"]
    /\ AttemptEnds(w, "failed")
    /\ OrdinaryError(w) /\ UNCHANGED queue
    /\ Release(w)
    /\ UNCHANGED <<outbox, contacts, report, recon, session>>

FailAttempt(w) ==
    /\ Busy(w)
    /\ ~LockedByOther(w)
    /\ job' = [job EXCEPT ![MyJob(w)].status = "failed"]
    /\ batch' = [batch EXCEPT ![MyImport(w)].status = "failed"]
    /\ AttemptEnds(w, "failed")
    /\ \/ OrdinaryError(w) /\ UNCHANGED queue
       \/ StorageError(w) /\ queue' = Retried(worker[w].msg)
    /\ Release(w)
    /\ UNCHANGED <<outbox, contacts, report, recon, session>>

\* The child dies and its transaction is rolled back. A killed child's message
\* is returned to the broker (task_reject_on_worker_lost); at the hard time
\* limit it is acknowledged, and a broker that restarts empty has lost it.
Crash(w) ==
    /\ "crash" \in Faults
    /\ Busy(w)
    /\ queue' = Enqueued(worker[w].msg) \/ UNCHANGED queue
    /\ Release(w)
    /\ UNCHANGED <<dbVars, report, recon, session>>

-----------------------------------------------------------------------------
WorkerStep(w) ==
    \/ BeginValidation(w)
    \/ FetchUpload(w)
    \/ Classify(w)
    \/ CommitValidation(w)
    \/ RunConfirmation(w)
    \/ FailAttempt(w)
    \/ Crash(w)
=============================================================================
