---------------------------- MODULE ImportService ----------------------------
(* The import API as a browser sees it: one import, the answers of its       *)
(* handlers, and the workers reduced to the statuses they leave behind.      *)
(* backend/app/api/routes/imports.py, services/jobs.py.  The interleavings   *)
(* inside the handlers and the workers are the subject of ImportSystem: here *)
(* a retried message, a second worker and a reconciler may act on a job at   *)
(* any time once it has been taken up.                                       *)
EXTENDS Naturals, Sequences, FiniteSets, Functions

CONSTANTS
    Required,    \* contact fields a mapping must have
    Optional,    \* contact fields it may have
    Headers,     \* columns of the uploaded file
    Blank,       \* the empty string, which is no column's name
    MaxJobs,     \* bound: jobs of the import
    MaxAgain,    \* bound: times a job that was taken up goes on again
    None

ASSUMPTION BlankIsNoHeader == Blank \notin Headers
ASSUMPTION JobBound == MaxJobs \in Nat \ {0} /\ MaxAgain \in Nat

VARIABLES
    status,      \* import_batch.status; "none" before the upload
    mapping,     \* import_batch.mapping
    key,         \* import_batch.confirm_idempotency_key; 0 is the key of others
    started,     \* import_batch.confirmation_started_at is set
    jobs,        \* the import's jobs, oldest first
    again        \* times a job that was taken up went on again

server == <<status, mapping, key, started, jobs, again>>

Fields == Required \cup Optional

\* MappingUpdate.mapping: any dict of strings.
Mappings == UNION {[D -> Headers \cup {Blank}] : D \in SUBSET Fields}

Statuses == {"none", "uploaded", "mapped", "validating", "validated",
             "completed", "failed", "cancelled"}
JobStatuses == {"queued", "running", "cancel_requested",
                "succeeded", "failed", "cancelled"}

\* taken: job.attempt_count is above 0.
Jobs == [kind : {"validate", "confirm"}, status : JobStatuses, taken : BOOLEAN]

\* validate_mapping
ValidMapping(m) ==
    /\ Required \subseteq DOMAIN m
    /\ IsInjective(m)
    /\ Range(m) \subseteq Headers

ServiceTypeOK ==
    /\ status \in Statuses
    /\ mapping = None \/ mapping \in Mappings
    /\ key = None \/ key \in Nat
    /\ started \in BOOLEAN
    /\ again \in 0 .. MaxAgain
    /\ jobs \in Seq(Jobs)
    /\ Len(jobs) <= MaxJobs

ServiceInit ==
    /\ status = "none"
    /\ mapping = None
    /\ key = None
    /\ started = FALSE
    /\ jobs = <<>>
    /\ again = 0

Newest(S) == {j \in S : \A i \in S : i <= j}
JobsIn(S) == {j \in DOMAIN jobs : jobs[j].status \in S}
NewestConfirm == Newest({j \in DOMAIN jobs : jobs[j].kind = "confirm"})

Enqueue(kind) ==
    /\ Len(jobs) < MaxJobs
    /\ jobs' = Append(jobs, [kind |-> kind, status |-> "queued", taken |-> FALSE])
---------------------------------------------------------------------------
(* The handlers.  Each is a condition under which it accepts a request and   *)
(* the change it then makes.                                                 *)

UploadImport ==
    /\ status' = "uploaded"
    /\ UNCHANGED <<mapping, key, started, jobs, again>>

Mappable == status \in {"uploaded", "mapped", "failed"}

SetMapping(m) ==
    /\ Mappable /\ ValidMapping(m)
    /\ status' = "mapped"
    /\ mapping' = m
    /\ UNCHANGED <<key, started, jobs, again>>

ValidateImport ==
    /\ status = "mapped"
    /\ Enqueue("validate")
    /\ status' = "validating"
    /\ UNCHANGED <<mapping, key, started, again>>

\* Confirmed before with this key: the answer is the job there is.
ConfirmImport(k) ==
    \/ /\ key = None /\ status = "validated"
       /\ Enqueue("confirm")
       /\ key' = k
       /\ UNCHANGED <<status, mapping, started, again>>
    \/ key = k /\ UNCHANGED server

RetryImport ==
    \E j \in Newest(JobsIn({"failed"})) :
        /\ Enqueue(jobs[j].kind)
        /\ status' = IF jobs[j].kind = "confirm" THEN "validated" ELSE "mapped"
        /\ UNCHANGED <<mapping, key, started, again>>

CancelImport ==
    /\ ~started /\ status # "completed"
    /\ \E j \in Newest(JobsIn({"queued", "running"})) :
          jobs' = [jobs EXCEPT ![j].status = "cancel_requested"]
    /\ UNCHANGED <<status, mapping, key, started, again>>

\* What a handler answers instead when it does not accept.
Conflict(kind, k) ==
    CASE kind = "save" -> ~Mappable
      [] kind = "validate" -> status # "mapped"
      [] kind = "confirm" -> IF key = None THEN status # "validated" ELSE key # k
      [] kind = "retry" -> JobsIn({"failed"}) = {}
      [] kind = "cancel" -> started \/ status = "completed" \/ JobsIn({"queued", "running"}) = {}
---------------------------------------------------------------------------
(* The workers and the reconcilers                                          *)

Write(j, jobStatus, importStatus) ==
    /\ jobs' = [jobs EXCEPT ![j].status = jobStatus, ![j].taken = TRUE]
    /\ status' = importStatus
    /\ UNCHANGED <<mapping, key>>

\* A job that was taken up goes on: the retries and copies of its message, and
\* its attempts, are limited.
Again == again < MaxAgain /\ again' = again + 1

\* A delivery starts a queued job; that of Celery's retry, or a second copy, a
\* job that has failed.
StartJob(j) ==
    /\ \/ jobs[j].status = "queued" /\ UNCHANGED again
       \/ jobs[j].status = "failed" /\ Again
    /\ Write(j, "running", IF jobs[j].kind = "validate" THEN "validating" ELSE status)
    /\ UNCHANGED started

\* A delivery finds the attempts exhausted, and leaves the import alone.
ExhaustJob(j) ==
    /\ jobs[j].taken /\ jobs[j].status = "queued"
    /\ Write(j, "failed", status)
    /\ UNCHANGED <<started, again>>

\* A worker runs the job, or still does: a reconciler has queued the job again,
\* or another delivery has cancelled it.
Runs(j) ==
    \/ jobs[j].status = "running" /\ UNCHANGED again
    \/ jobs[j].taken /\ jobs[j].status \in {"queued", "cancelled"} /\ Again

\* A confirmation is one transaction: "importing" is never seen.
SucceedJob(j) ==
    /\ Runs(j)
    /\ jobs[j].kind = "confirm" => status \in {"validated", "completed"}
    /\ Write(j, "succeeded", IF jobs[j].kind = "confirm" THEN "completed" ELSE "validated")
    /\ started' = (started \/ jobs[j].kind = "confirm")

FailJob(j) ==
    /\ Runs(j) \/ (jobs[j].taken /\ jobs[j].status = "cancel_requested" /\ UNCHANGED again)
    /\ Write(j, "failed", "failed")
    /\ UNCHANGED started

\* A delivery spares an import whose confirmation has started, a worker at its
\* check does not.
CancelJob(j) ==
    /\ jobs[j].status = "cancel_requested"
    /\ jobs' = [jobs EXCEPT ![j].status = "cancelled"]
    /\ \/ ~started /\ status' = "cancelled"
       \/ started /\ UNCHANGED status
       \/ jobs[j].taken /\ status' = "cancelled"
    /\ UNCHANGED <<mapping, key, started, again>>

\* reconcile_stalled_jobs, on a job that is running still.
RequeueJob(j) ==
    /\ jobs[j].status = "running"
    /\ Again
    /\ jobs' = [jobs EXCEPT ![j].status = "queued"]
    /\ UNCHANGED <<status, mapping, key, started>>

Work(j) ==
    \/ StartJob(j) \/ ExhaustJob(j)
    \/ SucceedJob(j) \/ FailJob(j) \/ CancelJob(j)
    \/ RequeueJob(j)
=============================================================================
