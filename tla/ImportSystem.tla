---------------------------- MODULE ImportSystem -----------------------------
(***************************************************************************)
(* The API, the outbox publisher, the broker, the reconcilers and the      *)
(* workers over one database: the whole life of an import.                 *)
(***************************************************************************)
EXTENDS ImportApi, JobWorker, JobDelivery

Work == \E w \in Workers : WorkerStep(w) \/ \E m \in Messages : Deliver(w, m)

Next == Request \/ Transport \/ Reconcile \/ Work

Spec == Init /\ [][Next]_vars

-----------------------------------------------------------------------------
(* Integrity of what the tables, the messages and the processes refer to *)

\* A job row names an uploaded and mapped import; only a confirmed import has
\* confirmation jobs.
JobsAreWellFormed ==
    \A j \in JobIds :
        \/ job[j] = NoJob
        \/ /\ job[j].status \in JobStatuses
           /\ job[j].import \in Imports
           /\ job[j].kind \in JobKinds
           /\ batch[job[j].import].mapping \in Mappings
           /\ job[j].kind = "confirm" => batch[job[j].import].key # None

MappedBeforeUse ==
    \A i \in Imports :
        batch[i].status \notin {None, "uploaded"} => batch[i].mapping \in Mappings

\* Messages, outbox rows and reconcilers name jobs that exist.
MessagesNameJobs == \A m \in Messages : queue[m] > 0 => Created(m.job)
OutboxNamesJobs == \A j \in JobIds : outbox[j] # None => Created(j)
ReconcilersNameJobs ==
    \A r \in Reconcilers : \A j \in recon[r].running \cup recon[r].queued :
        Created(j)

\* A worker runs an attempt its job counts, and confirms only for a
\* confirmation job.
WorkersRunJobs ==
    \A w \in Workers : Busy(w) =>
        /\ worker[w].msg \in Messages
        /\ Created(MyJob(w))
        /\ worker[w].attempt \in 1 .. job[MyJob(w)].attempts
        /\ worker[w].pc = "confirm" => job[MyJob(w)].kind = "confirm"

\* A mapping a request loaded is never unset while the request waits.
SessionsNameImports ==
    \A s \in Sessions : session[s].pc # "idle" =>
        /\ session[s].import \in Imports
        /\ session[s].pc = "mapping" =>
              /\ session[s].mapping \in Mappings
              /\ session[s].loaded # None =>
                    batch[session[s].import].mapping \in Mappings

\* Every reference holds, whatever is interleaved, retried or lost.
Consistent ==
    /\ JobsAreWellFormed
    /\ MappedBeforeUse
    /\ MessagesNameJobs
    /\ OutboxNamesJobs
    /\ ReconcilersNameJobs
    /\ WorkersRunJobs
    /\ SessionsNameImports

-----------------------------------------------------------------------------
(* Safety *)

\* A contact came from an import an operator confirmed with a key and whose
\* confirmation transaction began: neither validation nor a retry reaches the
\* directory on its own.
ImportedOnlyAfterConfirmation ==
    \A e \in Emails : contacts[e] # None =>
        batch[contacts[e]].key # None /\ batch[contacts[e]].started

\* A completed import has every accepted row in the directory, and its counts
\* partition the accepted rows.
CompletedImportIsInDirectory ==
    \A i \in Imports : batch[i].status = "completed" =>
        /\ batch[i].started
        /\ \A e \in batch[i].accepted : contacts[e] # None
        /\ batch[i].inserted \cup batch[i].skipped = batch[i].accepted
        /\ batch[i].inserted \cap batch[i].skipped = {}

\* download_report never finds the report of a validated or completed import
\* missing: whatever puts an import in these states, its reports were stored.
DownloadableReportExists ==
    \A i \in Imports :
        batch[i].status \in {"validated", "completed"} => report[i] # None

\* Attempts are bounded over every redelivery, retry, crash and reconciliation,
\* and the attempt history is exactly the numbers 1 .. attempt_count.
AttemptHistory ==
    \A j \in JobIds, n \in AttemptNumbers :
        (attempt[j][n] # None) <=> (n <= job[j].attempts)

\* The screen's "Retry eligible job" works whenever it is offered: an import
\* that failed before its confirmation began has a failed job, or a job that
\* is still on its way to an outcome.
FailedImportIsRetryable ==
    \A i \in Imports : batch[i].status = "failed" /\ ~batch[i].started =>
        \E j \in JobsOf(i) :
            job[j].status \in {"failed", "queued", "running", "cancel_requested"}

-----------------------------------------------------------------------------
(* Action properties *)

\* Repeated clicks queue one confirmation: once an import has a confirmation
\* job, another appears only by retrying one that failed, and the accepted key
\* never changes.
OneConfirmationPerKey ==
    [][\A i \in Imports :
        /\ batch[i].key # None => batch'[i].key = batch[i].key
        /\ \A j \in JobIds :
              /\ ~Created(j) /\ job'[j].status # None
              /\ job'[j].import = i /\ job'[j].kind = "confirm"
              => \A k \in JobsOf(i) : job[k].kind = "confirm" =>
                    \E f \in JobsOf(i) : job[f].kind = "confirm"
                                         /\ job[f].status = "failed"]_vars

\* A cancellation accepted before any worker took the job wins: the job does
\* nothing but become cancelled, and stays cancelled. (Excepted are a job a
\* worker is running and one a reconciler selected while it was running.)
CancellationWins ==
    [][\A j \in JobIds :
        /\ job[j].status \in {"cancel_requested", "cancelled"}
        /\ \A w \in Workers : ~RunsJob(w, j)
        /\ \A r \in Reconcilers : j \notin recon[r].running
        => job'[j].status \in {job[j].status, "cancelled"}]_vars

-----------------------------------------------------------------------------
(* Refinement *)

Promise == INSTANCE Directory WITH
    key <- [i \in Imports |-> batch[i].key],
    imported <- [i \in Imports |-> batch[i].started]

\* Whatever the jobs, retries, crashes and reconciliations do, the directory
\* changes only as Directory promises: one accepted key per import, contacts
\* inserted only under an accepted key, none overwritten or removed.
ImplementsDirectory == Promise!Spec

-----------------------------------------------------------------------------
(* Liveness *)

DeliverAny(m) == \E w \in Workers : Deliver(w, m)

ReconcileCovering(j) ==
    \E r \in Reconcilers, running, queued \in SUBSET JobIds :
        j \in running \cup queued /\ ReconcileSelect(r, running, queued)

\* The publisher loop polls and reconciles for ever, row locks are granted in
\* order, a worker child ends within its time limit, and a message that keeps
\* being published is delivered some time.
Fairness ==
    /\ \A j \in JobIds : SF_vars(Publish(j)) /\ SF_vars(ReconcileCovering(j))
    /\ \A r \in Reconcilers : SF_vars(ReconcileCommit(r))
    /\ \A m \in Messages : SF_vars(DeliverAny(m))
    /\ \A w \in Workers : WF_vars(WorkerStep(w))

FairSpec == Spec /\ Fairness

\* No job is stranded as queued or running: whatever crashes and whatever the
\* broker loses, it comes to an outcome or to a cancellation request.
JobsSettle ==
    \A j \in JobIds : job[j].status \in {"queued", "running"} ~>
        job[j].status \in {"succeeded", "failed", "cancelled", "cancel_requested"}

\* A requested cancellation comes to an outcome.
CancellationSettles ==
    \A j \in JobIds : job[j].status = "cancel_requested" ~>
        job[j].status # "cancel_requested"

-----------------------------------------------------------------------------
(* What the documentation says and the code does not do *)

\* PLAN.md: replayed messages are harmless. No worker step takes an import
\* out of "completed".
ReplayLeavesCompletedImports ==
    [][\A i \in Imports :
        batch[i].status = "completed" /\ batch'[i].status # "completed"
        => UNCHANGED worker]_vars
=============================================================================
