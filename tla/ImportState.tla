----------------------------- MODULE ImportState -----------------------------
(***************************************************************************)
(* The durable and volatile state the import service shares: the           *)
(* PostgreSQL tables of backend/app/models.py, the report objects in       *)
(* storage, the Celery messages in Redis, and what each running process    *)
(* (API request, worker, reconciler) holds in memory between two of its    *)
(* database transactions.                                                  *)
(*                                                                         *)
(* A CSV file is abstracted to the set of normalized emails its rows yield *)
(* under a column mapping; ids of jobs are their creation order.           *)
(***************************************************************************)
EXTENDS Naturals, FiniteSets

CONSTANTS
    Imports,        \* the import_batch ids that may be uploaded
    Emails,         \* normalized email addresses
    Mappings,       \* column mappings an operator may save
    ValidEmails,    \* ValidEmails[i][m]: emails of the valid rows of i's file under m
    Keys,           \* Idempotency-Key values
    Workers,        \* Celery worker children
    Reconcilers,    \* processes that run reconcile_stalled_jobs
    Sessions,       \* API requests that read and write in two steps
    MaxJobs,        \* bound: jobs ever created
    MaxAttempts,    \* CELERY_TASK_MAX_RETRIES + 1
    MaxCopies,      \* bound: copies of one message waiting in the broker
    Faults,         \* the faults of the environment this instance admits
    None

\* A worker dies; storage raises an OSError; another exception ends an attempt;
\* the broker loses its messages; a publisher dies between its send and commit.
FaultClasses == {"crash", "storage", "error", "broker", "duplicate"}

ASSUME ValidEmailsAssumption ==
    ValidEmails \in [Imports -> [Mappings -> SUBSET Emails]]

ASSUME BoundsAssumption ==
    /\ MaxJobs \in Nat \ {0}
    /\ MaxAttempts \in Nat \ {0}
    /\ MaxCopies \in Nat \ {0}

ASSUME FaultsAssumption == Faults \subseteq FaultClasses

VARIABLES
    batch,      \* import_batch, and the accepted rows of validation_row
    job,        \* job
    attempt,    \* job_attempt
    outbox,     \* job_outbox: whether published_at is set
    contacts,   \* contact: the import each normalized email came from
    report,     \* the accepted report object of an import in storage
    queue,      \* Celery messages waiting in Redis
    worker,     \* what a worker child holds while it runs a task
    recon,      \* the jobs a reconciler selected and has not written yet
    session     \* what an API request read and has not written yet

dbVars == <<batch, job, attempt, outbox, contacts>>
vars == <<batch, job, attempt, outbox, contacts, report, queue, worker, recon,
          session>>

-----------------------------------------------------------------------------
(* Tables *)

JobIds == 1 .. MaxJobs
AttemptNumbers == 1 .. MaxAttempts

\* "importing" is written and overwritten inside one transaction, so no
\* committed state ever shows it.
BatchStatuses == {"uploaded", "mapped", "validating", "validated", "completed",
                  "failed", "cancelled"}
JobStatuses == {"queued", "running", "succeeded", "failed",
                "cancel_requested", "cancelled"}
AttemptStatuses == {"running", "succeeded", "failed", "cancelled"}
JobKinds == {"validate", "confirm"}

\* A row that has not been inserted has status None.
NoBatch == [status |-> None, mapping |-> None, key |-> None, started |-> FALSE,
            accepted |-> {}, inserted |-> {}, skipped |-> {}]
NoJob == [status |-> None, import |-> None, kind |-> None, attempts |-> 0]

Batch == [status : BatchStatuses \cup {None}, mapping : Mappings \cup {None},
          key : Keys \cup {None}, started : BOOLEAN,
          accepted : SUBSET Emails, inserted : SUBSET Emails,
          skipped : SUBSET Emails]
Job == [status : JobStatuses \cup {None}, import : Imports \cup {None},
        kind : JobKinds \cup {None}, attempts : 0 .. MaxAttempts]

Created(j) == job[j].status # None
JobsOf(i) == {j \in JobIds : Created(j) /\ job[j].import = i}

\* ORDER BY created_at DESC, first row, among i's jobs in one of `statuses`.
IsNewest(j, i, statuses) ==
    /\ j \in JobsOf(i) /\ job[j].status \in statuses
    /\ \A k \in JobsOf(i) : job[k].status \in statuses => k <= j

-----------------------------------------------------------------------------
(* Messages and processes *)

Messages == [job : JobIds, retries : 0 .. MaxAttempts - 1]
FirstDelivery(j) == [job |-> j, retries |-> 0]

\* None is no value any column or field can hold.
ASSUME NoneAssumption ==
    /\ None \notin Imports /\ None \notin Mappings /\ None \notin Keys
    /\ None \notin Messages /\ \A S \in SUBSET Emails : None # S
    /\ None \notin BatchStatuses \cup JobStatuses \cup AttemptStatuses
    /\ None \notin JobKinds \cup {"pending", "published"}

\* One more copy of m waits in the broker; above MaxCopies it is dropped.
Enqueued(m) ==
    [queue EXCEPT ![m] = IF @ < MaxCopies THEN @ + 1 ELSE @]

IdleWorker == [pc |-> "idle", msg |-> None, attempt |-> 0, existing |-> {},
               rows |-> {}, fresh |-> TRUE]
IdleReconciler == [pc |-> "idle", running |-> {}, queued |-> {}]
IdleSession == [pc |-> "idle", import |-> None, status |-> None,
                loaded |-> None, mapping |-> None]

WorkerPcs == {"idle", "validate", "fetch", "classify", "commit", "confirm"}
Worker == [pc : WorkerPcs, msg : Messages \cup {None},
           attempt : 0 .. MaxAttempts, existing : SUBSET Emails,
           rows : SUBSET Emails, fresh : BOOLEAN]
Reconciler == [pc : {"idle", "selected"}, running : SUBSET JobIds,
               queued : SUBSET JobIds]
Session == [pc : {"idle", "mapping", "cancel", "retry"},
            import : Imports \cup {None}, status : BatchStatuses \cup {None},
            loaded : Mappings \cup {None}, mapping : Mappings \cup {None}]

Busy(w) == worker[w].pc # "idle"
RunsJob(w, j) == Busy(w) /\ worker[w].msg.job = j
RunsImport(w, i) == Busy(w) /\ job[worker[w].msg.job].import = i

\* The FOR UPDATE lock _cancel_if_requested takes is held until the commit.
Locked(j) == \E w \in Workers : RunsJob(w, j) /\ worker[w].pc = "commit"

-----------------------------------------------------------------------------
(* SQLAlchemy's unit of work *)

\* What an UPDATE leaves in a column: a flush writes the attributes whose
\* value differs from the one the session loaded, and only those.
Flushed(loaded, new, current) == IF new = loaded THEN current ELSE new

-----------------------------------------------------------------------------
Init ==
    /\ batch = [i \in Imports |-> NoBatch]
    /\ job = [j \in JobIds |-> NoJob]
    /\ attempt = [j \in JobIds |-> [n \in AttemptNumbers |-> None]]
    /\ outbox = [j \in JobIds |-> None]
    /\ contacts = [e \in Emails |-> None]
    /\ report = [i \in Imports |-> None]
    /\ queue = [m \in Messages |-> 0]
    /\ worker = [w \in Workers |-> IdleWorker]
    /\ recon = [r \in Reconcilers |-> IdleReconciler]
    /\ session = [s \in Sessions |-> IdleSession]

TypeOK ==
    /\ batch \in [Imports -> Batch]
    /\ job \in [JobIds -> Job]
    /\ attempt \in [JobIds -> [AttemptNumbers -> AttemptStatuses \cup {None}]]
    /\ outbox \in [JobIds -> {"pending", "published", None}]
    /\ contacts \in [Emails -> Imports \cup {None}]
    /\ report \in [Imports -> (SUBSET Emails) \cup {None}]
    /\ queue \in [Messages -> 0 .. MaxCopies]
    /\ worker \in [Workers -> Worker]
    /\ recon \in [Reconcilers -> Reconciler]
    /\ session \in [Sessions -> Session]
=============================================================================
