----------------------------- MODULE ImportProofs -----------------------------
(***************************************************************************)
(* What the import service promises its operators, for any number of       *)
(* imports, workers, messages, retries and crashes: tables are typed and   *)
(* refer to rows that are there; Directory is implemented; imports,        *)
(* attempts and confirmations; who may touch a job, however many processes *)
(* reconcile; and what the state of an import says of its report and its   *)
(* retries.                                                                *)
(***************************************************************************)
EXTENDS DeliveryHistory, TLAPS

\* The inductive invariant: types and references.
IInv == TypeOK /\ Consistent

-----------------------------------------------------------------------------
(* Writes that keep a table's type *)

LEMMA BatchStatusSet ==
    ASSUME NEW f \in [Imports -> Batch], NEW i \in Imports,
           NEW st \in BatchStatuses \cup {None}
    PROVE  [f EXCEPT ![i].status = st] \in [Imports -> Batch]
BY DEF Batch

LEMMA BatchKeySet ==
    ASSUME NEW f \in [Imports -> Batch], NEW i \in Imports, NEW k \in Keys
    PROVE  [f EXCEPT ![i].key = k] \in [Imports -> Batch]
BY DEF Batch

LEMMA BatchMappingSet ==
    ASSUME NEW f \in [Imports -> Batch], NEW i \in Imports, NEW m \in Mappings,
           NEW st \in BatchStatuses \cup {None}
    PROVE  [f EXCEPT ![i].mapping = m, ![i].status = st] \in [Imports -> Batch]
BY ZenonT(30) DEF Batch

LEMMA BatchAcceptedSet ==
    ASSUME NEW f \in [Imports -> Batch], NEW i \in Imports,
           NEW st \in BatchStatuses \cup {None}, NEW rows \in SUBSET Emails
    PROVE  [f EXCEPT ![i].status = st, ![i].accepted = rows] \in [Imports -> Batch]
BY ZenonT(30) DEF Batch

LEMMA BatchCompletedSet ==
    ASSUME NEW f \in [Imports -> Batch], NEW i \in Imports,
           NEW st \in BatchStatuses \cup {None},
           NEW inserted \in SUBSET Emails, NEW skipped \in SUBSET Emails
    PROVE  [f EXCEPT ![i].status = st, ![i].started = TRUE,
                     ![i].inserted = inserted, ![i].skipped = skipped]
             \in [Imports -> Batch]
<1>. DEFINE b == [f[i] EXCEPT !.status = st, !.started = TRUE,
                              !.inserted = inserted, !.skipped = skipped]
<1>1. b \in Batch
  BY DEF Batch
<1>. HIDE DEF b
<1>2. [f EXCEPT ![i] = b] \in [Imports -> Batch]
  BY <1>1
<1>. QED BY <1>2 DEF b

LEMMA JobStatusSet ==
    ASSUME NEW f \in [JobIds -> Job], NEW j \in JobIds, NEW st \in JobStatuses
    PROVE  [f EXCEPT ![j].status = st] \in [JobIds -> Job]
BY DEF Job

LEMMA AttemptSet ==
    ASSUME NEW f \in [JobIds -> [AttemptNumbers -> AttemptStatuses \cup {None}]],
           NEW j \in JobIds, NEW n \in AttemptNumbers, NEW st \in AttemptStatuses
    PROVE  [f EXCEPT ![j][n] = st] \in
             [JobIds -> [AttemptNumbers -> AttemptStatuses \cup {None}]]
OBVIOUS

LEMMA WorkerReleased ==
    ASSUME NEW f \in [Workers -> Worker], NEW w \in Workers
    PROVE  [f EXCEPT ![w] = IdleWorker] \in [Workers -> Worker]
BY BoundsAssumption DEF Worker, IdleWorker, WorkerPcs

LEMMA IdleSessionTyped == IdleSession \in Session
BY DEF Session, IdleSession

LEMMA EnqueuedTyped ==
    ASSUME queue \in [Messages -> 0 .. MaxCopies], NEW m \in Messages
    PROVE  Enqueued(m) \in [Messages -> 0 .. MaxCopies]
BY BoundsAssumption DEF Enqueued

LEMMA EnqueuedOnly ==
    ASSUME queue \in [Messages -> 0 .. MaxCopies], NEW m \in Messages,
           NEW n \in Messages, Enqueued(m)[n] > 0
    PROVE  n = m \/ queue[n] > 0
BY DEF Enqueued

LEMMA FirstDeliveryTyped ==
    ASSUME NEW j \in JobIds
    PROVE  FirstDelivery(j) \in Messages /\ FirstDelivery(j).job = j
BY BoundsAssumption DEF FirstDelivery, Messages

-----------------------------------------------------------------------------
(* What every step keeps, and the references that follow from it *)

\* Jobs keep their import and kind and never lose an attempt; mappings and
\* keys are never unset.
Kept ==
    /\ \A j \in JobIds : Created(j) =>
          /\ job'[j].status \in JobStatuses
          /\ job'[j].import = job[j].import
          /\ job'[j].kind = job[j].kind
          /\ job'[j].attempts >= job[j].attempts
    /\ \A i \in Imports :
          /\ batch[i].mapping \in Mappings => batch'[i].mapping \in Mappings
          /\ batch[i].key # None => batch'[i].key # None

LEMMA CreatedJob ==
    ASSUME Consistent, NEW j \in JobIds, Created(j)
    PROVE  /\ job[j].status \in JobStatuses
           /\ job[j].import \in Imports
           /\ job[j].kind \in JobKinds
           /\ batch[job[j].import].mapping \in Mappings
           /\ job[j].kind = "confirm" => batch[job[j].import].key # None
BY DEF Consistent, JobsAreWellFormed, Created, NoJob

LEMMA NotCreatedJob ==
    ASSUME Consistent, NEW j \in JobIds, ~Created(j)
    PROVE  job[j] = NoJob
BY NoneAssumption DEF Consistent, JobsAreWellFormed, Created

LEMMA KeptCreated ==
    ASSUME Kept, NEW j \in JobIds, Created(j)
    PROVE  Created(j)'
BY NoneAssumption DEF Kept, Created

LEMMA KeptJobs ==
    ASSUME Consistent, Kept, NEW j \in JobIds, Created(j)
    PROVE  /\ job'[j].status \in JobStatuses
           /\ job'[j].import \in Imports
           /\ job'[j].kind \in JobKinds
           /\ batch'[job'[j].import].mapping \in Mappings
           /\ job'[j].kind = "confirm" => batch'[job'[j].import].key # None
BY CreatedJob DEF Kept

LEMMA KeptWellFormed ==
    ASSUME Consistent, Kept, \A j \in JobIds : ~Created(j) => job'[j] = job[j]
    PROVE  JobsAreWellFormed'
<1>1. SUFFICES ASSUME NEW j \in JobIds, job'[j] # NoJob
               PROVE  Created(j)
  BY KeptJobs DEF JobsAreWellFormed
<1>. QED
  BY <1>1, NotCreatedJob

LEMMA KeptMessages ==
    ASSUME Consistent, Kept, queue' = queue
    PROVE  MessagesNameJobs'
BY KeptCreated DEF Consistent, MessagesNameJobs, Messages

LEMMA KeptOutbox ==
    ASSUME Consistent, Kept, outbox' = outbox
    PROVE  OutboxNamesJobs'
BY KeptCreated DEF Consistent, OutboxNamesJobs

LEMMA KeptReconcilers ==
    ASSUME TypeOK, Consistent, Kept, recon' = recon
    PROVE  ReconcilersNameJobs'
BY KeptCreated DEF Consistent, ReconcilersNameJobs, TypeOK, Reconciler

\* A worker that is idle or runs the message and attempt it ran before.
LEMMA KeptWorker ==
    ASSUME TypeOK, TypeOK', Consistent, Kept, NEW w \in Workers,
           Busy(w)' => /\ Busy(w)
                       /\ worker'[w].msg = worker[w].msg
                       /\ worker'[w].attempt = worker[w].attempt
                       /\ worker'[w].pc = "confirm" => worker[w].pc = "confirm"
    PROVE  Busy(w)' =>
              /\ worker'[w].msg \in Messages
              /\ Created(MyJob(w))'
              /\ worker'[w].attempt \in 1 .. job'[MyJob(w)'].attempts
              /\ worker'[w].pc = "confirm" => job'[MyJob(w)'].kind = "confirm"
<1>1. SUFFICES ASSUME Busy(w)'
               PROVE  /\ worker'[w].msg \in Messages
                      /\ Created(MyJob(w))'
                      /\ worker'[w].attempt \in 1 .. job'[MyJob(w)'].attempts
                      /\ worker'[w].pc = "confirm" => job'[MyJob(w)'].kind = "confirm"
  OBVIOUS
<1>2. /\ worker[w].msg \in Messages
      /\ Created(MyJob(w))
      /\ worker[w].attempt \in 1 .. job[MyJob(w)].attempts
      /\ worker[w].pc = "confirm" => job[MyJob(w)].kind = "confirm"
  BY <1>1 DEF Consistent, WorkersRunJobs
<1>3. MyJob(w) \in JobIds /\ MyJob(w)' = MyJob(w)
  BY <1>1, <1>2 DEF MyJob, Messages
<1>4. job[MyJob(w)].attempts \in Nat /\ job'[MyJob(w)].attempts \in Nat
  BY <1>3, BoundsAssumption DEF TypeOK, Job
<1>5. job'[MyJob(w)].attempts >= job[MyJob(w)].attempts
  BY <1>2, <1>3 DEF Kept
<1>6. worker'[w].attempt \in 1 .. job'[MyJob(w)].attempts
  BY <1>1, <1>2, <1>4, <1>5
<1>. QED
  BY <1>1, <1>2, <1>3, <1>6, KeptCreated DEF Kept

LEMMA KeptWorkers ==
    ASSUME TypeOK, TypeOK', Consistent, Kept, worker' = worker
    PROVE  WorkersRunJobs'
BY KeptWorker DEF WorkersRunJobs, Busy

LEMMA KeptSessions ==
    ASSUME Consistent, Kept, session' = session
    PROVE  SessionsNameImports'
BY DEF Consistent, SessionsNameImports, Kept

-----------------------------------------------------------------------------
(* Facts about what a worker runs *)

LEMMA RunningJob ==
    ASSUME TypeOK, Consistent, NEW w \in Workers, Busy(w)
    PROVE  /\ worker[w].msg \in Messages
           /\ MyJob(w) \in JobIds
           /\ Created(MyJob(w))
           /\ MyImport(w) \in Imports
           /\ worker[w].attempt \in AttemptNumbers
           /\ batch[MyImport(w)].mapping \in Mappings
<1>1. /\ worker[w].msg \in Messages
      /\ Created(MyJob(w))
      /\ worker[w].attempt \in 1 .. job[MyJob(w)].attempts
  BY DEF Consistent, WorkersRunJobs
<1>2. MyJob(w) \in JobIds
  BY <1>1 DEF Messages, MyJob
<1>3. MyImport(w) \in Imports /\ batch[MyImport(w)].mapping \in Mappings
  BY <1>1, <1>2, CreatedJob DEF MyImport
<1>4. job[MyJob(w)].attempts \in 0 .. MaxAttempts
  BY <1>2 DEF TypeOK, Job
<1>. QED
  BY <1>1, <1>2, <1>3, <1>4, BoundsAssumption DEF AttemptNumbers

-----------------------------------------------------------------------------
(* The API's actions *)

\* A new job is the only change to the job table and the outbox.
LEMMA EnqueueJobTyped ==
    ASSUME TypeOK, Consistent, NEW j \in JobIds, NEW i \in Imports,
           NEW kind \in JobKinds, EnqueueJob(j, i, kind)
    PROVE  /\ job' \in [JobIds -> Job]
           /\ outbox' \in [JobIds -> {"pending", "published", None}]
           /\ \A k \in JobIds : k # j => job'[k] = job[k] /\ outbox'[k] = outbox[k]
           /\ job'[j] = [status |-> "queued", import |-> i, kind |-> kind,
                         attempts |-> 0]
           /\ ~Created(j)
<1>1. [status |-> "queued", import |-> i, kind |-> kind, attempts |-> 0] \in Job
  BY BoundsAssumption DEF Job, JobStatuses
<1>. QED
  BY <1>1 DEF EnqueueJob, TypeOK

LEMMA EnqueueJobKeeps ==
    ASSUME TypeOK, Consistent, NEW j \in JobIds, NEW i \in Imports,
           NEW kind \in JobKinds, EnqueueJob(j, i, kind),
           batch[i].mapping \in Mappings,
           kind = "confirm" => batch'[i].key # None,
           \A k \in Imports :
              /\ batch[k].mapping \in Mappings => batch'[k].mapping \in Mappings
              /\ batch[k].key # None => batch'[k].key # None
    PROVE  Kept /\ JobsAreWellFormed' /\ OutboxNamesJobs'
<1>1. /\ \A k \in JobIds : k # j => job'[k] = job[k] /\ outbox'[k] = outbox[k]
      /\ job'[j] = [status |-> "queued", import |-> i, kind |-> kind,
                    attempts |-> 0]
      /\ ~Created(j)
  BY EnqueueJobTyped
<1>2. \A k \in JobIds : Created(k) => k # j /\ job'[k] = job[k]
  BY <1>1
<1>3. Kept
  <2>1. ASSUME NEW k \in JobIds, Created(k)
        PROVE  /\ job'[k].status \in JobStatuses
               /\ job'[k].import = job[k].import
               /\ job'[k].kind = job[k].kind
               /\ job'[k].attempts >= job[k].attempts
    <3>1. job[k].attempts \in Nat
      BY BoundsAssumption DEF TypeOK, Job
    <3>. QED BY <1>2, <2>1, <3>1, CreatedJob
  <2>. QED BY <2>1 DEF Kept
<1>4. JobsAreWellFormed'
  <2>1. ASSUME NEW k \in JobIds, job'[k] # NoJob
        PROVE  /\ job'[k].status \in JobStatuses
               /\ job'[k].import \in Imports
               /\ job'[k].kind \in JobKinds
               /\ batch'[job'[k].import].mapping \in Mappings
               /\ job'[k].kind = "confirm" => batch'[job'[k].import].key # None
    <3>1. CASE k = j
      BY <1>1, <3>1 DEF JobStatuses
    <3>2. CASE k # j
      <4>1. Created(k)
        BY <1>1, <2>1, <3>2, NotCreatedJob
      <4>. QED BY <1>3, <4>1, KeptJobs
    <3>. QED BY <3>1, <3>2
  <2>. QED BY <2>1 DEF JobsAreWellFormed
<1>5. OutboxNamesJobs'
  <2>1. Created(j)'
    BY <1>1, NoneAssumption DEF Created, JobStatuses
  <2>. QED
    BY <1>1, <1>3, <2>1, KeptCreated DEF OutboxNamesJobs, Consistent
<1>. QED BY <1>3, <1>4, <1>5

\* Jobs untouched, mappings and keys never unset.
LEMMA KeptWithoutJobs ==
    ASSUME TypeOK, Consistent, job' = job,
           \A i \in Imports :
              /\ batch[i].mapping \in Mappings => batch'[i].mapping \in Mappings
              /\ batch[i].key # None => batch'[i].key # None
    PROVE  Kept /\ JobsAreWellFormed'
<1>1. ASSUME NEW j \in JobIds, Created(j)
      PROVE  job[j].status \in JobStatuses /\ job[j].attempts >= job[j].attempts
  <2>1. job[j].attempts \in Nat
    BY BoundsAssumption DEF TypeOK, Job
  <2>. QED BY <1>1, <2>1, CreatedJob
<1>2. Kept
  BY <1>1 DEF Kept
<1>. QED BY <1>2, KeptWellFormed

\* A step that leaves the jobs and the imports alone.
LEMMA KeptTables ==
    ASSUME TypeOK, Consistent, job' = job, batch' = batch
    PROVE  Kept /\ JobsAreWellFormed' /\ MappedBeforeUse'
BY KeptWithoutJobs DEF Consistent, MappedBeforeUse

\* One import's status is written, and it had a mapping if it needs one.
LEMMA StatusWritten ==
    ASSUME TypeOK, Consistent, NEW i \in Imports, NEW st \in BatchStatuses,
           batch' = [batch EXCEPT ![i].status = st],
           st # "uploaded" => batch[i].mapping \in Mappings
    PROVE  /\ batch' \in [Imports -> Batch]
           /\ \A k \in Imports : batch'[k].mapping = batch[k].mapping
                                 /\ batch'[k].key = batch[k].key
           /\ MappedBeforeUse'
<1>1. batch' \in [Imports -> Batch]
  BY BatchStatusSet DEF TypeOK
<1>2. \A k \in Imports : /\ batch'[k].mapping = batch[k].mapping
                         /\ batch'[k].key = batch[k].key
                         /\ k # i => batch'[k].status = batch[k].status
                         /\ k = i => batch'[k].status = st
  BY DEF TypeOK, Batch
<1>3. MappedBeforeUse'
  BY <1>2 DEF Consistent, MappedBeforeUse
<1>. QED BY <1>1, <1>2, <1>3

LEMMA UploadKeepsIInv ==
    ASSUME IInv, NEW i \in Imports, Upload(i)
    PROVE  IInv'
<1>. USE DEF IInv
<1>1. /\ batch' \in [Imports -> Batch]
      /\ \A k \in Imports : batch'[k].mapping = batch[k].mapping
                            /\ batch'[k].key = batch[k].key
      /\ MappedBeforeUse'
  BY StatusWritten DEF Upload, BatchStatuses
<1>2. TypeOK'
  BY <1>1 DEF TypeOK, Upload
<1>3. Kept /\ JobsAreWellFormed'
  BY <1>1, KeptWithoutJobs DEF Upload
<1>4. MessagesNameJobs' /\ OutboxNamesJobs' /\ ReconcilersNameJobs'
  BY <1>3, KeptMessages, KeptOutbox, KeptReconcilers DEF Upload
<1>5. WorkersRunJobs' /\ SessionsNameImports'
  BY <1>2, <1>3, KeptWorkers, KeptSessions DEF Upload
<1>. QED
  BY <1>1, <1>2, <1>3, <1>4, <1>5 DEF Consistent

\* A request that has only read.
LEMMA ReadKeepsIInv ==
    ASSUME IInv, NEW s \in Sessions, NEW x \in Session,
           UNCHANGED <<dbVars, report, queue, worker, recon>>,
           session' = [session EXCEPT ![s] = x],
           x.import \in Imports,
           x.pc = "mapping" =>
              /\ x.mapping \in Mappings
              /\ x.loaded # None => batch[x.import].mapping \in Mappings
    PROVE  IInv'
<1>. USE DEF IInv, dbVars
<1>1. TypeOK'
  BY DEF TypeOK
<1>2. Kept /\ JobsAreWellFormed' /\ MappedBeforeUse'
  BY KeptTables
<1>3. MessagesNameJobs' /\ OutboxNamesJobs' /\ ReconcilersNameJobs'
  BY <1>2, KeptMessages, KeptOutbox, KeptReconcilers
<1>4. WorkersRunJobs'
  BY <1>1, <1>2, KeptWorkers
<1>5. SessionsNameImports'
  BY DEF TypeOK, Consistent, SessionsNameImports
<1>. QED
  BY <1>1, <1>2, <1>3, <1>4, <1>5 DEF Consistent

\* The session's request has been answered.
LEMMA SessionAnswered ==
    ASSUME TypeOK, Consistent, Kept, NEW s \in Sessions,
           session' = [session EXCEPT ![s] = IdleSession]
    PROVE  session' \in [Sessions -> Session] /\ SessionsNameImports'
<1>1. session' \in [Sessions -> Session]
  BY IdleSessionTyped DEF TypeOK
<1>2. \A t \in Sessions : session'[t].pc # "idle" => session'[t] = session[t]
  BY DEF TypeOK, IdleSession
<1>3. SessionsNameImports'
  BY <1>2 DEF Consistent, SessionsNameImports, Kept
<1>. QED BY <1>1, <1>3

LEMMA SetMappingReadKeepsIInv ==
    ASSUME IInv, NEW s \in Sessions, NEW i \in Imports, NEW m \in Mappings,
           SetMappingRead(s, i, m)
    PROVE  IInv'
<1>. DEFINE x == [pc |-> "mapping", import |-> i, status |-> batch[i].status,
                   loaded |-> batch[i].mapping, mapping |-> m]
<1>2. batch[i].status \in BatchStatuses \cup {None}
      /\ batch[i].mapping \in Mappings \cup {None}
  BY DEF IInv, TypeOK, Batch
<1>3. x \in Session
  BY <1>2 DEF Session
<1>4. x.loaded # None => batch[x.import].mapping \in Mappings
  BY <1>2
<1>5. session' = [session EXCEPT ![s] = x]
  BY DEF SetMappingRead
<1>6. UNCHANGED <<dbVars, report, queue, worker, recon>>
  BY DEF SetMappingRead
<1>. QED
  BY <1>3, <1>4, <1>5, <1>6, ReadKeepsIInv

LEMMA CancelReadKeepsIInv ==
    ASSUME IInv, NEW s \in Sessions, NEW i \in Imports, CancelRead(s, i)
    PROVE  IInv'
<1>. DEFINE x == [IdleSession EXCEPT !.pc = "cancel", !.import = i]
<1>2. x \in Session /\ x.import \in Imports /\ x.pc # "mapping"
  BY DEF Session, IdleSession
<1>3. session' = [session EXCEPT ![s] = x]
      /\ UNCHANGED <<dbVars, report, queue, worker, recon>>
  BY DEF CancelRead
<1>. HIDE DEF x
<1>. QED
  BY <1>2, <1>3, ReadKeepsIInv

LEMMA RetryReadKeepsIInv ==
    ASSUME IInv, NEW s \in Sessions, NEW i \in Imports, RetryRead(s, i)
    PROVE  IInv'
<1>. DEFINE x == [IdleSession EXCEPT !.pc = "retry", !.import = i,
                                      !.status = batch[i].status]
<1>2. batch[i].status \in BatchStatuses \cup {None}
  BY DEF IInv, TypeOK, Batch
<1>3. x \in Session /\ x.import \in Imports /\ x.pc # "mapping"
  BY <1>2 DEF Session, IdleSession
<1>4. session' = [session EXCEPT ![s] = x]
      /\ UNCHANGED <<dbVars, report, queue, worker, recon>>
  BY DEF RetryRead
<1>. HIDE DEF x
<1>. QED
  BY <1>3, <1>4, ReadKeepsIInv

LEMMA SetMappingCommitKeepsIInv ==
    ASSUME IInv, NEW s \in Sessions, SetMappingCommit(s)
    PROVE  IInv'
<1>. USE DEF IInv
<1>. DEFINE i == session[s].import
            newMapping == Flushed(session[s].loaded, session[s].mapping,
                                  batch[i].mapping)
            newStatus == Flushed(session[s].status, "mapped", batch[i].status)
<1>1. i \in Imports /\ session[s] \in Session
  BY DEF Consistent, SessionsNameImports, SetMappingCommit, TypeOK
<1>2. newMapping \in Mappings
  BY <1>1, NoneAssumption DEF Consistent, SessionsNameImports, SetMappingCommit, Flushed
<1>3. newStatus \in BatchStatuses \cup {None}
  BY <1>1 DEF TypeOK, Batch, BatchStatuses, Flushed
<1>4. batch' = [batch EXCEPT ![i].mapping = newMapping, ![i].status = newStatus]
  BY DEF SetMappingCommit
<1>. HIDE DEF newMapping, newStatus, i
<1>5. batch' \in [Imports -> Batch]
  BY <1>1, <1>2, <1>3, <1>4, BatchMappingSet DEF TypeOK
<1>6. \A k \in Imports :
         /\ k # i => batch'[k] = batch[k]
         /\ batch'[i].mapping \in Mappings
         /\ batch'[k].key = batch[k].key
  BY <1>1, <1>2, <1>4 DEF TypeOK, Batch
<1>7. Kept /\ JobsAreWellFormed'
  BY <1>6, KeptWithoutJobs DEF SetMappingCommit
<1>8. MappedBeforeUse'
  BY <1>6 DEF Consistent, MappedBeforeUse
<1>9. session' \in [Sessions -> Session] /\ SessionsNameImports'
  BY <1>7, SessionAnswered DEF SetMappingCommit
<1>10. TypeOK'
  BY <1>5, <1>9 DEF TypeOK, SetMappingCommit
<1>11. MessagesNameJobs' /\ OutboxNamesJobs' /\ ReconcilersNameJobs'
  BY <1>7, KeptMessages, KeptOutbox, KeptReconcilers DEF SetMappingCommit
<1>12. WorkersRunJobs'
  BY <1>7, <1>10, KeptWorkers DEF SetMappingCommit
<1>. QED
  BY <1>7, <1>8, <1>9, <1>10, <1>11, <1>12 DEF Consistent

LEMMA ValidateImportKeepsIInv ==
    ASSUME IInv, NEW i \in Imports, NEW j \in JobIds, ValidateImport(i, j)
    PROVE  IInv'
<1>. USE DEF IInv
<1>1. batch[i].mapping \in Mappings
  BY NoneAssumption DEF Consistent, MappedBeforeUse, ValidateImport, BatchStatuses
<1>2. /\ batch' \in [Imports -> Batch]
      /\ \A k \in Imports : batch'[k].mapping = batch[k].mapping
                            /\ batch'[k].key = batch[k].key
      /\ MappedBeforeUse'
  BY <1>1, StatusWritten DEF ValidateImport, BatchStatuses
<1>3. Kept /\ JobsAreWellFormed' /\ OutboxNamesJobs'
  BY <1>1, <1>2, EnqueueJobKeeps DEF ValidateImport, JobKinds
<1>4. TypeOK'
  <2>1. job' \in [JobIds -> Job]
        /\ outbox' \in [JobIds -> {"pending", "published", None}]
    BY EnqueueJobTyped DEF ValidateImport, JobKinds
  <2>. QED BY <1>2, <2>1 DEF TypeOK, ValidateImport
<1>5. MessagesNameJobs' /\ ReconcilersNameJobs' /\ SessionsNameImports'
  BY <1>3, KeptMessages, KeptReconcilers, KeptSessions DEF ValidateImport
<1>6. WorkersRunJobs'
  BY <1>3, <1>4, KeptWorkers DEF ValidateImport
<1>. QED
  BY <1>2, <1>3, <1>4, <1>5, <1>6 DEF Consistent

LEMMA ConfirmImportKeepsIInv ==
    ASSUME IInv, NEW i \in Imports, NEW k \in Keys, NEW j \in JobIds,
           ConfirmImport(i, k, j)
    PROVE  IInv'
<1>. USE DEF IInv
<1>1. batch[i].mapping \in Mappings
  BY NoneAssumption DEF Consistent, MappedBeforeUse, ConfirmImport, BatchStatuses
<1>2. batch' = [batch EXCEPT ![i].key = k]
  BY DEF ConfirmImport
<1>3. batch' \in [Imports -> Batch]
  BY <1>2, BatchKeySet DEF TypeOK
<1>4. /\ \A n \in Imports : /\ batch'[n].mapping = batch[n].mapping
                            /\ batch'[n].status = batch[n].status
                            /\ n # i => batch'[n].key = batch[n].key
      /\ batch'[i].key = k /\ k # None
  BY <1>2, NoneAssumption DEF TypeOK, Batch
<1>5. Kept /\ JobsAreWellFormed' /\ OutboxNamesJobs'
  BY <1>1, <1>4, EnqueueJobKeeps DEF ConfirmImport, JobKinds
<1>6. TypeOK'
  <2>1. job' \in [JobIds -> Job]
        /\ outbox' \in [JobIds -> {"pending", "published", None}]
    BY EnqueueJobTyped DEF ConfirmImport, JobKinds
  <2>. QED BY <1>3, <2>1 DEF TypeOK, ConfirmImport
<1>7. MappedBeforeUse'
  BY <1>4 DEF Consistent, MappedBeforeUse
<1>8. MessagesNameJobs' /\ ReconcilersNameJobs' /\ SessionsNameImports'
  BY <1>5, KeptMessages, KeptReconcilers, KeptSessions DEF ConfirmImport
<1>9. WorkersRunJobs'
  BY <1>5, <1>6, KeptWorkers DEF ConfirmImport
<1>. QED
  BY <1>5, <1>6, <1>7, <1>8, <1>9 DEF Consistent

\* One existing job's status is written.
LEMMA JobStatusWritten ==
    ASSUME TypeOK, Consistent, NEW j \in JobIds, Created(j),
           NEW st \in JobStatuses, job' = [job EXCEPT ![j].status = st],
           \A i \in Imports :
              /\ batch[i].mapping \in Mappings => batch'[i].mapping \in Mappings
              /\ batch[i].key # None => batch'[i].key # None
    PROVE  job' \in [JobIds -> Job] /\ Kept /\ JobsAreWellFormed'
<1>1. job' \in [JobIds -> Job]
  BY JobStatusSet DEF TypeOK
<1>2. \A k \in JobIds : /\ k # j => job'[k] = job[k]
                        /\ job'[k].import = job[k].import
                        /\ job'[k].kind = job[k].kind
                        /\ job'[k].attempts = job[k].attempts
                        /\ k = j => job'[k].status = st
  BY DEF TypeOK, Job
<1>3. ASSUME NEW k \in JobIds, Created(k)
      PROVE  job'[k].status \in JobStatuses /\ job'[k].attempts >= job[k].attempts
  <2>1. job[k].attempts \in Nat
    BY BoundsAssumption DEF TypeOK, Job
  <2>. QED BY <1>2, <1>3, <2>1, CreatedJob
<1>4. Kept
  BY <1>2, <1>3 DEF Kept
<1>. QED
  BY <1>1, <1>2, <1>4, KeptWellFormed

LEMMA CancelCommitKeepsIInv ==
    ASSUME IInv, NEW s \in Sessions, CancelCommit(s)
    PROVE  IInv'
<1>. USE DEF IInv
<1>1. job' \in [JobIds -> Job] /\ Kept /\ JobsAreWellFormed'
  <2>1. CASE UNCHANGED job
    BY <2>1, KeptTables DEF CancelCommit, TypeOK
  <2>2. ASSUME NEW j \in JobIds, IsNewest(j, session[s].import, Cancellable),
               job' = [job EXCEPT ![j].status = "cancel_requested"]
        PROVE  job' \in [JobIds -> Job] /\ Kept /\ JobsAreWellFormed'
    <3>1. Created(j)
      BY <2>2 DEF IsNewest, JobsOf
    <3>. QED
      BY <2>2, <3>1, JobStatusWritten DEF CancelCommit, JobStatuses
  <2>. QED
    BY <2>1, <2>2 DEF CancelCommit
<1>2. session' \in [Sessions -> Session] /\ SessionsNameImports'
  BY <1>1, SessionAnswered DEF CancelCommit
<1>3. TypeOK'
  BY <1>1, <1>2 DEF TypeOK, CancelCommit
<1>4. MappedBeforeUse'
  BY DEF Consistent, MappedBeforeUse, CancelCommit
<1>5. MessagesNameJobs' /\ OutboxNamesJobs' /\ ReconcilersNameJobs'
  BY <1>1, KeptMessages, KeptOutbox, KeptReconcilers DEF CancelCommit
<1>6. WorkersRunJobs'
  BY <1>1, <1>3, KeptWorkers DEF CancelCommit
<1>. QED
  BY <1>1, <1>2, <1>3, <1>4, <1>5, <1>6 DEF Consistent

\* A retried job is of an import that is mapped, and confirmed when the job is
\* a confirmation.
LEMMA RetryFailedKeeps ==
    ASSUME TypeOK, Consistent, NEW s \in Sessions, session[s].pc # "idle",
           NEW failed \in JobIds, NEW j \in JobIds,
           RetryFailed(s, session[s].import, failed, j)
    PROVE  /\ batch' \in [Imports -> Batch] /\ job' \in [JobIds -> Job]
           /\ outbox' \in [JobIds -> {"pending", "published", None}]
           /\ Kept /\ JobsAreWellFormed' /\ OutboxNamesJobs' /\ MappedBeforeUse'
<1>. DEFINE i == session[s].import
            status == Flushed(session[s].status, RetryStatus(job[failed].kind),
                              batch[i].status)
<1>1. i \in Imports
  BY DEF Consistent, SessionsNameImports
<1>2. Created(failed) /\ job[failed].import = i
  BY DEF RetryFailed, IsNewest, JobsOf
<1>3. /\ job[failed].kind \in JobKinds
      /\ batch[i].mapping \in Mappings
      /\ job[failed].kind = "confirm" => batch[i].key # None
  BY <1>2, CreatedJob
<1>4. EnqueueJob(j, i, job[failed].kind)
      /\ batch' = [batch EXCEPT ![i].status = status]
  BY DEF RetryFailed
<1>5. status \in BatchStatuses \cup {None}
  BY <1>1 DEF TypeOK, Batch, BatchStatuses, Flushed, RetryStatus
<1>. HIDE DEF i, status
<1>6. batch' \in [Imports -> Batch]
  BY <1>1, <1>4, <1>5, BatchStatusSet DEF TypeOK
<1>7. \A k \in Imports : /\ batch'[k].mapping = batch[k].mapping
                         /\ batch'[k].key = batch[k].key
                         /\ k # i => batch'[k] = batch[k]
  BY <1>1, <1>4 DEF TypeOK, Batch
<1>8. MappedBeforeUse'
  BY <1>3, <1>7 DEF Consistent, MappedBeforeUse
<1>9. job' \in [JobIds -> Job]
      /\ outbox' \in [JobIds -> {"pending", "published", None}]
  BY <1>1, <1>3, <1>4, EnqueueJobTyped
<1>10. Kept /\ JobsAreWellFormed' /\ OutboxNamesJobs'
  BY <1>1, <1>3, <1>4, <1>7, EnqueueJobKeeps
<1>. QED
  BY <1>6, <1>8, <1>9, <1>10

LEMMA RetryCommitKeepsIInv ==
    ASSUME IInv, NEW s \in Sessions, RetryCommit(s)
    PROVE  IInv'
<1>. USE DEF IInv
<1>1. /\ batch' \in [Imports -> Batch] /\ job' \in [JobIds -> Job]
      /\ outbox' \in [JobIds -> {"pending", "published", None}]
      /\ Kept /\ JobsAreWellFormed' /\ OutboxNamesJobs' /\ MappedBeforeUse'
  <2>1. CASE UNCHANGED <<batch, job, outbox>>
    BY <2>1, KeptTables, KeptOutbox DEF TypeOK
  <2>2. ASSUME NEW failed \in JobIds, NEW j \in JobIds,
               RetryFailed(s, session[s].import, failed, j)
        PROVE  /\ batch' \in [Imports -> Batch] /\ job' \in [JobIds -> Job]
               /\ outbox' \in [JobIds -> {"pending", "published", None}]
               /\ Kept /\ JobsAreWellFormed' /\ OutboxNamesJobs'
               /\ MappedBeforeUse'
    BY <2>2, RetryFailedKeeps DEF RetryCommit
  <2>. QED
    BY <2>1, <2>2 DEF RetryCommit
<1>2. session' \in [Sessions -> Session] /\ SessionsNameImports'
  BY <1>1, SessionAnswered DEF RetryCommit
<1>3. TypeOK'
  BY <1>1, <1>2 DEF TypeOK, RetryCommit
<1>4. MessagesNameJobs' /\ ReconcilersNameJobs'
  BY <1>1, KeptMessages, KeptReconcilers DEF RetryCommit
<1>5. WorkersRunJobs'
  BY <1>1, <1>3, KeptWorkers DEF RetryCommit
<1>. QED
  BY <1>1, <1>2, <1>3, <1>4, <1>5 DEF Consistent

-----------------------------------------------------------------------------
(* The publisher, the broker and the reconcilers *)

\* Every message waiting now waited before or names a job that exists.
LEMMA MessageAdded ==
    ASSUME Consistent, Kept,
           \A m \in Messages : queue'[m] > 0 => queue[m] > 0 \/ Created(m.job)
    PROVE  MessagesNameJobs'
BY KeptCreated DEF Consistent, MessagesNameJobs, Messages

LEMMA SendKeepsQueue ==
    ASSUME TypeOK, Consistent, Kept, NEW m \in Messages, Created(m.job),
           queue' = Enqueued(m)
    PROVE  queue' \in [Messages -> 0 .. MaxCopies] /\ MessagesNameJobs'
BY EnqueuedTyped, EnqueuedOnly, MessageAdded DEF TypeOK

LEMMA PublishKeepsIInv ==
    ASSUME IInv, NEW j \in JobIds, Publish(j)
    PROVE  IInv'
<1>. USE DEF IInv
<1>1. Kept /\ JobsAreWellFormed' /\ MappedBeforeUse'
  BY KeptTables DEF Publish
<1>2. Created(j)
  BY NoneAssumption DEF Publish, Consistent, OutboxNamesJobs
<1>3. queue' \in [Messages -> 0 .. MaxCopies] /\ MessagesNameJobs'
  BY <1>1, <1>2, FirstDeliveryTyped, SendKeepsQueue DEF Publish
<1>4. TypeOK'
  BY <1>3 DEF TypeOK, Publish
<1>5. OutboxNamesJobs'
  BY <1>1, <1>2, KeptCreated DEF Publish, TypeOK, Consistent, OutboxNamesJobs
<1>6. ReconcilersNameJobs' /\ SessionsNameImports'
  BY <1>1, KeptReconcilers, KeptSessions DEF Publish
<1>7. WorkersRunJobs'
  BY <1>1, <1>4, KeptWorkers DEF Publish
<1>. QED
  BY <1>1, <1>3, <1>4, <1>5, <1>6, <1>7 DEF Consistent

\* A step that changes nothing but the queue.
LEMMA QueueStepKeepsIInv ==
    ASSUME IInv, queue' \in [Messages -> 0 .. MaxCopies],
           \A m \in Messages : queue'[m] > 0 => queue[m] > 0 \/ Created(m.job),
           UNCHANGED <<dbVars, report, worker, recon, session>>
    PROVE  IInv'
<1>. USE DEF IInv, dbVars
<1>1. TypeOK'
  BY DEF TypeOK
<1>2. Kept /\ JobsAreWellFormed' /\ MappedBeforeUse'
  BY KeptTables
<1>3. MessagesNameJobs'
  BY <1>2, MessageAdded
<1>4. OutboxNamesJobs' /\ ReconcilersNameJobs' /\ SessionsNameImports'
  BY <1>2, KeptOutbox, KeptReconcilers, KeptSessions
<1>5. WorkersRunJobs'
  BY <1>1, <1>2, KeptWorkers
<1>. QED
  BY <1>1, <1>2, <1>3, <1>4, <1>5 DEF Consistent

LEMMA PublishUnrecordedKeepsIInv ==
    ASSUME IInv, NEW j \in JobIds, PublishUnrecorded(j)
    PROVE  IInv'
<1>1. Created(j)
  BY NoneAssumption DEF IInv, PublishUnrecorded, Consistent, OutboxNamesJobs
<1>2. queue' \in [Messages -> 0 .. MaxCopies]
      /\ \A m \in Messages : queue'[m] > 0 => queue[m] > 0 \/ Created(m.job)
  BY <1>1, FirstDeliveryTyped, EnqueuedTyped, EnqueuedOnly
  DEF IInv, TypeOK, PublishUnrecorded
<1>3. UNCHANGED <<dbVars, report, worker, recon, session>>
  BY DEF PublishUnrecorded
<1>. QED
  BY <1>2, <1>3, QueueStepKeepsIInv

LEMMA LoseBrokerKeepsIInv ==
    ASSUME IInv, LoseBroker
    PROVE  IInv'
<1>1. queue' \in [Messages -> 0 .. MaxCopies]
      /\ \A m \in Messages : ~(queue'[m] > 0)
  BY BoundsAssumption DEF LoseBroker
<1>2. UNCHANGED <<dbVars, report, worker, recon, session>>
  BY DEF LoseBroker
<1>. QED
  BY <1>1, <1>2, QueueStepKeepsIInv

LEMMA ReconcileSelectKeepsIInv ==
    ASSUME IInv, NEW r \in Reconcilers, NEW running \in SUBSET JobIds,
           NEW queued \in SUBSET JobIds, ReconcileSelect(r, running, queued)
    PROVE  IInv'
<1>. USE DEF IInv
<1>. DEFINE x == [pc |-> "selected", running |-> running, queued |-> queued]
<1>1. x \in Reconciler /\ recon' = [recon EXCEPT ![r] = x]
  BY DEF Reconciler, ReconcileSelect
<1>2. \A j \in running \cup queued : Created(j)
  BY NoneAssumption DEF ReconcileSelect, StaleRunning, StaleQueued, Created,
                        JobStatuses
<1>3. TypeOK'
  BY <1>1 DEF TypeOK, ReconcileSelect, dbVars
<1>4. Kept /\ JobsAreWellFormed' /\ MappedBeforeUse'
  BY KeptTables DEF ReconcileSelect, dbVars
<1>5. \A n \in Reconcilers : n # r => recon'[n] = recon[n]
  BY DEF ReconcileSelect, TypeOK
<1>6. recon'[r] = x
  BY <1>1 DEF TypeOK
<1>7. ReconcilersNameJobs'
  BY <1>2, <1>4, <1>5, <1>6, KeptCreated
  DEF Consistent, ReconcilersNameJobs, TypeOK, Reconciler
<1>8. MessagesNameJobs' /\ OutboxNamesJobs' /\ SessionsNameImports'
  BY <1>4, KeptMessages, KeptOutbox, KeptSessions DEF ReconcileSelect, dbVars
<1>9. WorkersRunJobs'
  BY <1>3, <1>4, KeptWorkers DEF ReconcileSelect
<1>. QED
  BY <1>3, <1>4, <1>7, <1>8, <1>9 DEF Consistent

LEMMA ReconcileCommitKeepsIInv ==
    ASSUME IInv, NEW r \in Reconcilers, ReconcileCommit(r)
    PROVE  IInv'
<1>. USE DEF IInv
<1>. DEFINE running == recon[r].running
            selected == recon[r].running \cup recon[r].queued
<1>1. \A j \in selected : Created(j) /\ j \in JobIds
  BY DEF Consistent, ReconcilersNameJobs, TypeOK, Reconciler
<1>2. job' = [j \in JobIds |->
                IF j \in running THEN [job[j] EXCEPT !.status = "queued"]
                ELSE job[j]]
      /\ outbox' = [j \in JobIds |-> IF j \in selected THEN "pending" ELSE outbox[j]]
      /\ recon' = [recon EXCEPT ![r] = IdleReconciler]
  BY DEF ReconcileCommit
<1>3. \A j \in running : j \in selected
  OBVIOUS
<1>. HIDE DEF running, selected
<1>4. \A j \in JobIds : job[j] \in Job /\ [job[j] EXCEPT !.status = "queued"] \in Job
  BY DEF TypeOK, Job, JobStatuses
<1>5. job' \in [JobIds -> Job]
      /\ outbox' \in [JobIds -> {"pending", "published", None}]
  BY <1>2, <1>4 DEF TypeOK
<1>6. \A j \in JobIds : /\ job'[j].import = job[j].import
                        /\ job'[j].kind = job[j].kind
                        /\ job'[j].attempts = job[j].attempts
                        /\ job'[j].status \in {job[j].status, "queued"}
                        /\ j \notin running => job'[j] = job[j]
  BY <1>2 DEF TypeOK, Job
<1>7. Kept /\ JobsAreWellFormed'
  <2>1. ASSUME NEW j \in JobIds, Created(j)
        PROVE  job'[j].status \in JobStatuses /\ job'[j].attempts >= job[j].attempts
    <3>1. job[j].attempts \in Nat
      BY BoundsAssumption DEF TypeOK, Job
    <3>. QED BY <1>6, <2>1, <3>1, CreatedJob DEF JobStatuses
  <2>2. Kept
    BY <1>6, <2>1 DEF Kept, ReconcileCommit
  <2>3. \A j \in JobIds : ~Created(j) => job'[j] = job[j]
    BY <1>1, <1>3, <1>6
  <2>. QED BY <2>2, <2>3, KeptWellFormed
<1>8. recon' \in [Reconcilers -> Reconciler]
  BY <1>2 DEF TypeOK, Reconciler, IdleReconciler
<1>9. TypeOK'
  BY <1>5, <1>8 DEF TypeOK, ReconcileCommit
<1>10. OutboxNamesJobs'
  BY <1>1, <1>2, <1>7, KeptCreated DEF Consistent, OutboxNamesJobs
<1>11. \A n \in Reconcilers :
          recon'[n].running \subseteq recon[n].running
          /\ recon'[n].queued \subseteq recon[n].queued
  BY <1>2 DEF TypeOK, IdleReconciler
<1>12. ReconcilersNameJobs'
  BY <1>7, <1>11, KeptCreated
  DEF Consistent, ReconcilersNameJobs, TypeOK, Reconciler
<1>13. MappedBeforeUse' /\ MessagesNameJobs' /\ SessionsNameImports'
  BY <1>7, KeptMessages, KeptSessions
  DEF Consistent, MappedBeforeUse, ReconcileCommit
<1>14. WorkersRunJobs'
  BY <1>7, <1>9, KeptWorkers DEF ReconcileCommit
<1>. QED
  BY <1>7, <1>9, <1>10, <1>12, <1>13, <1>14 DEF Consistent

-----------------------------------------------------------------------------
(* The worker *)

\* One worker's record is replaced, by an idle one or one that goes on with
\* the message and attempt it had.
LEMMA WorkerGoesOn ==
    ASSUME TypeOK, TypeOK', Consistent, Kept, NEW w \in Workers, NEW x,
           worker' = [worker EXCEPT ![w] = x],
           \/ x = IdleWorker
           \/ /\ Busy(w) /\ x.msg = worker[w].msg
              /\ x.attempt = worker[w].attempt /\ x.pc # "confirm"
    PROVE  WorkersRunJobs'
<1>1. ASSUME NEW v \in Workers
      PROVE  Busy(v)' =>
                /\ worker'[v].msg \in Messages
                /\ Created(MyJob(v))'
                /\ worker'[v].attempt \in 1 .. job'[MyJob(v)'].attempts
                /\ worker'[v].pc = "confirm" => job'[MyJob(v)'].kind = "confirm"
  <2>1. Busy(v)' => /\ Busy(v)
                    /\ worker'[v].msg = worker[v].msg
                    /\ worker'[v].attempt = worker[v].attempt
                    /\ worker'[v].pc = "confirm" => worker[v].pc = "confirm"
    BY DEF TypeOK, Busy, IdleWorker
  <2>. QED BY <2>1, KeptWorker
<1>. QED BY <1>1 DEF WorkersRunJobs

LEMMA TakenTyped ==
    ASSUME TypeOK, NEW m \in Messages, queue[m] > 0
    PROVE  /\ Taken(m) \in [Messages -> 0 .. MaxCopies]
           /\ \A n \in Messages : Taken(m)[n] > 0 => queue[n] > 0
BY BoundsAssumption DEF TypeOK, Taken

\* A delivery that starts no attempt.
LEMMA DeliveryWithoutAttempt ==
    ASSUME TypeOK, Consistent, NEW m \in Messages, Created(m.job),
           IgnoreDelivery(m) \/ CancelOnDelivery(m) \/ ExhaustAttempts(m)
    PROVE  /\ batch' \in [Imports -> Batch] /\ job' \in [JobIds -> Job]
           /\ Kept /\ JobsAreWellFormed' /\ MappedBeforeUse'
           /\ UNCHANGED <<attempt, worker>>
<1>1. m.job \in JobIds
  BY DEF Messages
<1>2. CASE IgnoreDelivery(m)
  BY <1>2, KeptTables DEF IgnoreDelivery, TypeOK
<1>3. CASE CancelOnDelivery(m)
  <2>. DEFINE i == job[m.job].import
              status == IF batch[i].started THEN batch[i].status ELSE "cancelled"
  <2>1. i \in Imports /\ batch[i].mapping \in Mappings
    BY <1>1, CreatedJob
  <2>2. status \in BatchStatuses \cup {None}
    BY <2>1 DEF TypeOK, Batch, BatchStatuses
  <2>3. batch' = [batch EXCEPT ![i].status = status]
    BY <1>3 DEF CancelOnDelivery
  <2>. HIDE DEF i, status
  <2>4. batch' \in [Imports -> Batch]
    BY <2>1, <2>2, <2>3, BatchStatusSet DEF TypeOK
  <2>5. \A k \in Imports : /\ batch'[k].mapping = batch[k].mapping
                           /\ batch'[k].key = batch[k].key
                           /\ k # i => batch'[k] = batch[k]
    BY <2>1, <2>3 DEF TypeOK, Batch
  <2>6. MappedBeforeUse'
    BY <2>1, <2>5 DEF Consistent, MappedBeforeUse
  <2>7. job' \in [JobIds -> Job] /\ Kept /\ JobsAreWellFormed'
    BY <1>1, <1>3, <2>5, JobStatusWritten DEF CancelOnDelivery, JobStatuses
  <2>. QED BY <1>3, <2>4, <2>6, <2>7 DEF CancelOnDelivery
<1>4. CASE ExhaustAttempts(m)
  <2>1. job' \in [JobIds -> Job] /\ Kept /\ JobsAreWellFormed'
    BY <1>1, <1>4, JobStatusWritten DEF ExhaustAttempts, JobStatuses
  <2>. QED
    BY <1>4, <2>1 DEF ExhaustAttempts, TypeOK, Consistent, MappedBeforeUse
<1>. QED BY <1>2, <1>3, <1>4

\* A delivery that starts an attempt: its number is the count it leaves.
LEMMA StartAttemptKeeps ==
    ASSUME TypeOK, Consistent, NEW w \in Workers, NEW m \in Messages,
           Created(m.job), StartAttempt(w, m)
    PROVE  /\ job' \in [JobIds -> Job]
           /\ attempt' \in
                [JobIds -> [AttemptNumbers -> AttemptStatuses \cup {None}]]
           /\ worker' \in [Workers -> Worker]
           /\ Kept /\ JobsAreWellFormed'
           /\ \A v \in Workers : v # w => worker'[v] = worker[v]
           /\ worker'[w].msg = m
           /\ worker'[w].pc = job[m.job].kind
           /\ worker'[w].attempt \in 1 .. job'[m.job].attempts
<1>. DEFINE j == m.job
            n == job[j].attempts + 1
            x == [IdleWorker EXCEPT !.pc = job[j].kind, !.msg = m, !.attempt = n]
<1>1. j \in JobIds /\ job[j].kind \in JobKinds
  BY CreatedJob DEF Messages
<1>2. job[j].attempts \in Nat /\ job[j].attempts < MaxAttempts
  BY <1>1, BoundsAssumption DEF TypeOK, Job, StartAttempt
<1>3. n \in AttemptNumbers /\ n \in 0 .. MaxAttempts
  BY <1>2, BoundsAssumption DEF AttemptNumbers
<1>4. /\ job' = [job EXCEPT ![j].status = "running", ![j].attempts = n]
      /\ attempt' = [attempt EXCEPT ![j][n] = "running"]
      /\ worker' = [worker EXCEPT ![w] = x]
      /\ batch' = batch
  BY DEF StartAttempt, BeginAttempt
<1>5. x \in Worker /\ x.msg = m /\ x.pc = job[j].kind /\ x.attempt = n
  BY <1>1, <1>3 DEF Worker, IdleWorker, WorkerPcs, JobKinds
<1>. HIDE DEF x
<1>6. worker' \in [Workers -> Worker]
      /\ worker'[w] = x /\ \A v \in Workers : v # w => worker'[v] = worker[v]
  BY <1>4, <1>5 DEF TypeOK
<1>7. attempt' \in [JobIds -> [AttemptNumbers -> AttemptStatuses \cup {None}]]
  BY <1>1, <1>3, <1>4, AttemptSet DEF TypeOK, AttemptStatuses
<1>8. job'[j].attempts = n /\ job'[j].status = "running"
      /\ job'[j].import = job[j].import /\ job'[j].kind = job[j].kind
      /\ \A k \in JobIds : k # j => job'[k] = job[k]
  BY <1>1, <1>4 DEF TypeOK, Job
<1>9. job' \in [JobIds -> Job]
  <2>1. [job[j] EXCEPT !.status = "running", !.attempts = n] \in Job
    BY <1>1, <1>3, ZenonT(30) DEF TypeOK, Job, JobStatuses
  <2>. QED BY <1>1, <1>4, <2>1 DEF TypeOK
<1>10. Kept /\ JobsAreWellFormed'
  <2>1. ASSUME NEW k \in JobIds, Created(k)
        PROVE  job'[k].status \in JobStatuses /\ job'[k].attempts >= job[k].attempts
    <3>1. job[k].attempts \in Nat
      BY BoundsAssumption DEF TypeOK, Job
    <3>. QED BY <1>2, <1>8, <2>1, <3>1, CreatedJob DEF JobStatuses
  <2>2. Kept
    BY <1>4, <1>8, <2>1 DEF Kept
  <2>. QED BY <1>8, <2>2, KeptWellFormed
<1>11. worker'[w].attempt \in 1 .. job'[j].attempts
  BY <1>2, <1>5, <1>6, <1>8
<1>. QED
  BY <1>5, <1>6, <1>7, <1>9, <1>10, <1>11

LEMMA DeliverKeepsIInv ==
    ASSUME IInv, NEW w \in Workers, NEW m \in Messages, Deliver(w, m)
    PROVE  IInv'
<1>. USE DEF IInv
<1>1. Created(m.job) /\ m.job \in JobIds
  BY DEF Deliver, Consistent, MessagesNameJobs, Messages
<1>2. queue' \in [Messages -> 0 .. MaxCopies]
      /\ \A n \in Messages : queue'[n] > 0 => queue[n] > 0
  BY TakenTyped DEF Deliver
<1>3. TypeOK' /\ Kept /\ JobsAreWellFormed' /\ MappedBeforeUse' /\ WorkersRunJobs'
  <2>1. CASE IgnoreDelivery(m) \/ CancelOnDelivery(m) \/ ExhaustAttempts(m)
    <3>1. /\ batch' \in [Imports -> Batch] /\ job' \in [JobIds -> Job]
          /\ Kept /\ JobsAreWellFormed' /\ MappedBeforeUse'
          /\ UNCHANGED <<attempt, worker>>
      BY <1>1, <2>1, DeliveryWithoutAttempt
    <3>2. TypeOK'
      BY <1>2, <3>1 DEF TypeOK, Deliver
    <3>. QED BY <3>1, <3>2, KeptWorkers
  <2>2. CASE StartAttempt(w, m)
    <3>1. /\ job' \in [JobIds -> Job]
          /\ attempt' \in
               [JobIds -> [AttemptNumbers -> AttemptStatuses \cup {None}]]
          /\ worker' \in [Workers -> Worker]
          /\ Kept /\ JobsAreWellFormed'
      BY <1>1, <2>2, StartAttemptKeeps
    <3>2. /\ \A v \in Workers : v # w => worker'[v] = worker[v]
          /\ worker'[w].msg = m
          /\ worker'[w].pc = job[m.job].kind
          /\ worker'[w].attempt \in 1 .. job'[m.job].attempts
      BY <1>1, <2>2, StartAttemptKeeps
    <3>3. batch' = batch
      BY <2>2 DEF StartAttempt, BeginAttempt
    <3>4. TypeOK'
      BY <1>2, <3>1, <3>3 DEF TypeOK, Deliver
    <3>5. MappedBeforeUse'
      BY <3>3 DEF Consistent, MappedBeforeUse
    <3>6. ASSUME NEW v \in Workers
          PROVE  Busy(v)' =>
                    /\ worker'[v].msg \in Messages
                    /\ Created(MyJob(v))'
                    /\ worker'[v].attempt \in 1 .. job'[MyJob(v)'].attempts
                    /\ worker'[v].pc = "confirm" => job'[MyJob(v)'].kind = "confirm"
      <4>1. CASE v = w
        <5>1. MyJob(v)' = m.job
          BY <3>2, <4>1 DEF MyJob
        <5>2. Created(m.job)'
          BY <1>1, <3>1, KeptCreated
        <5>3. job'[m.job].kind = job[m.job].kind
          BY <1>1, <3>1 DEF Kept
        <5>4. Created(MyJob(v))'
          BY <5>1, <5>2 DEF Created
        <5>. QED BY <3>2, <4>1, <5>1, <5>3, <5>4
      <4>2. CASE v # w
        BY <3>1, <3>2, <3>4, <4>2, KeptWorker DEF Busy
      <4>. QED BY <4>1, <4>2
    <3>7. WorkersRunJobs'
      BY <3>6 DEF WorkersRunJobs
    <3>. QED BY <3>1, <3>4, <3>5, <3>7
  <2>. QED BY <2>1, <2>2 DEF Deliver
<1>4. MessagesNameJobs'
  BY <1>2, <1>3, MessageAdded
<1>5. OutboxNamesJobs' /\ ReconcilersNameJobs' /\ SessionsNameImports'
  BY <1>3, KeptOutbox, KeptReconcilers, KeptSessions DEF Deliver
<1>. QED
  BY <1>3, <1>4, <1>5 DEF Consistent

LEMMA BeginValidationKeepsIInv ==
    ASSUME IInv, NEW w \in Workers, BeginValidation(w)
    PROVE  IInv'
<1>. USE DEF IInv
<1>. DEFINE x == [worker[w] EXCEPT !.pc = "fetch"]
<1>1. Busy(w)
  BY DEF BeginValidation, Busy
<1>2. MyImport(w) \in Imports /\ batch[MyImport(w)].mapping \in Mappings
  BY <1>1, RunningJob
<1>3. /\ batch' \in [Imports -> Batch]
      /\ \A k \in Imports : batch'[k].mapping = batch[k].mapping
                            /\ batch'[k].key = batch[k].key
      /\ MappedBeforeUse'
  BY <1>2, StatusWritten DEF BeginValidation, BatchStatuses
<1>4. /\ worker' = [worker EXCEPT ![w] = x] /\ x \in Worker
      /\ x.msg = worker[w].msg /\ x.attempt = worker[w].attempt
      /\ x.pc # "confirm"
  BY DEF BeginValidation, TypeOK, Worker, WorkerPcs
<1>. HIDE DEF x
<1>5. worker' \in [Workers -> Worker]
  BY <1>4 DEF TypeOK
<1>6. TypeOK'
  BY <1>3, <1>5 DEF TypeOK, BeginValidation
<1>7. Kept /\ JobsAreWellFormed'
  BY <1>3, KeptWithoutJobs DEF BeginValidation
<1>8. WorkersRunJobs'
  BY <1>1, <1>4, <1>6, <1>7, WorkerGoesOn
<1>9. MessagesNameJobs' /\ OutboxNamesJobs' /\ ReconcilersNameJobs'
      /\ SessionsNameImports'
  BY <1>7, KeptMessages, KeptOutbox, KeptReconcilers, KeptSessions
  DEF BeginValidation
<1>. QED
  BY <1>3, <1>6, <1>7, <1>8, <1>9 DEF Consistent

\* A worker's step that writes none of the tables its references go through.
LEMMA WorkerStepKeepsIInv ==
    ASSUME IInv, NEW w \in Workers, NEW x \in Worker, Busy(w),
           worker' = [worker EXCEPT ![w] = x],
           x.msg = worker[w].msg, x.attempt = worker[w].attempt,
           x.pc # "confirm",
           report' \in [Imports -> (SUBSET Emails) \cup {None}],
           UNCHANGED <<dbVars, queue, recon, session>>
    PROVE  IInv'
<1>. USE DEF IInv, dbVars
<1>1. TypeOK'
  BY DEF TypeOK
<1>2. Kept /\ JobsAreWellFormed' /\ MappedBeforeUse'
  BY KeptTables
<1>3. WorkersRunJobs'
  BY <1>1, <1>2, WorkerGoesOn
<1>4. MessagesNameJobs' /\ OutboxNamesJobs' /\ ReconcilersNameJobs'
      /\ SessionsNameImports'
  BY <1>2, KeptMessages, KeptOutbox, KeptReconcilers, KeptSessions
<1>. QED
  BY <1>1, <1>2, <1>3, <1>4 DEF Consistent

LEMMA FileEmailsTyped ==
    ASSUME TypeOK, Consistent, NEW w \in Workers, Busy(w)
    PROVE  FileEmails(MyImport(w)) \in SUBSET Emails
<1>1. MyImport(w) \in Imports /\ batch[MyImport(w)].mapping \in Mappings
  BY RunningJob
<1>. QED
  BY <1>1, ValidEmailsAssumption DEF FileEmails

LEMMA FetchUploadKeepsIInv ==
    ASSUME IInv, NEW w \in Workers, FetchUpload(w)
    PROVE  IInv'
<1>. DEFINE known == InDirectory(FileEmails(MyImport(w)))
            x == [worker[w] EXCEPT !.pc = "classify", !.existing = known]
<1>1. Busy(w)
  BY DEF FetchUpload, Busy
<1>2. known \in SUBSET Emails
  BY <1>1, FileEmailsTyped DEF IInv, InDirectory
<1>3. worker' = [worker EXCEPT ![w] = x]
      /\ UNCHANGED <<dbVars, report, queue, recon, session>>
  BY DEF FetchUpload
<1>. HIDE DEF known
<1>4. x \in Worker /\ x.msg = worker[w].msg /\ x.attempt = worker[w].attempt
      /\ x.pc # "confirm"
  BY <1>2 DEF IInv, TypeOK, Worker, WorkerPcs
<1>5. report' \in [Imports -> (SUBSET Emails) \cup {None}]
  BY <1>3 DEF IInv, TypeOK
<1>. HIDE DEF x
<1>. QED
  BY <1>1, <1>3, <1>4, <1>5, WorkerStepKeepsIInv

LEMMA PutReportsKeepsIInv ==
    ASSUME IInv, NEW w \in Workers, Busy(w), PutReports(w),
           UNCHANGED <<outbox, queue, recon, session>>
    PROVE  IInv'
<1>. DEFINE accepted == FileEmails(MyImport(w)) \ worker[w].existing
            x == [worker[w] EXCEPT !.pc = "commit", !.rows = accepted,
                                   !.fresh = TRUE]
<1>1. accepted \in SUBSET Emails /\ MyImport(w) \in Imports
  BY FileEmailsTyped, RunningJob DEF IInv
<1>2. /\ worker' = [worker EXCEPT ![w] = x]
      /\ report' = [report EXCEPT ![MyImport(w)] = accepted]
      /\ UNCHANGED <<dbVars, queue, recon, session>>
  BY DEF PutReports, dbVars
<1>. HIDE DEF accepted
<1>3. x \in Worker /\ x.msg = worker[w].msg /\ x.attempt = worker[w].attempt
      /\ x.pc # "confirm"
  BY <1>1 DEF IInv, TypeOK, Worker, WorkerPcs
<1>4. report' \in [Imports -> (SUBSET Emails) \cup {None}]
  BY <1>1, <1>2 DEF IInv, TypeOK
<1>. HIDE DEF x
<1>. QED
  BY <1>2, <1>3, <1>4, WorkerStepKeepsIInv

\* What every step that ends an attempt has in common.
LEMMA AttemptEndKeepsIInv ==
    ASSUME IInv, NEW w \in Workers, Busy(w),
           NEW st \in JobStatuses, job' = [job EXCEPT ![MyJob(w)].status = st],
           NEW ast \in AttemptStatuses, AttemptEnds(w, ast),
           batch' \in [Imports -> Batch],
           \A k \in Imports : batch'[k].mapping = batch[k].mapping
                              /\ batch'[k].key = batch[k].key,
           MappedBeforeUse',
           contacts' \in [Emails -> Imports \cup {None}],
           worker' \in [Workers -> Worker],
           \A v \in Workers : Busy(v)' =>
              /\ Busy(v)
              /\ worker'[v].msg = worker[v].msg
              /\ worker'[v].attempt = worker[v].attempt
              /\ worker'[v].pc = "confirm" => worker[v].pc = "confirm",
           queue' \in [Messages -> 0 .. MaxCopies],
           \A m \in Messages : queue'[m] > 0 => queue[m] > 0 \/ Created(m.job),
           UNCHANGED <<outbox, report, recon, session>>
    PROVE  IInv'
<1>. USE DEF IInv
<1>1. MyJob(w) \in JobIds /\ Created(MyJob(w)) /\ worker[w].attempt \in AttemptNumbers
  BY RunningJob
<1>2. job' \in [JobIds -> Job] /\ Kept /\ JobsAreWellFormed'
  BY <1>1, JobStatusWritten
<1>3. attempt' \in [JobIds -> [AttemptNumbers -> AttemptStatuses \cup {None}]]
  BY <1>1, AttemptSet DEF AttemptEnds, TypeOK
<1>4. TypeOK'
  BY <1>2, <1>3 DEF TypeOK
<1>5. WorkersRunJobs'
  BY <1>2, <1>4, KeptWorker DEF WorkersRunJobs
<1>6. MessagesNameJobs' /\ OutboxNamesJobs' /\ ReconcilersNameJobs'
      /\ SessionsNameImports'
  BY <1>2, MessageAdded, KeptOutbox, KeptReconcilers, KeptSessions
<1>. QED
  BY <1>2, <1>4, <1>5, <1>6 DEF Consistent

LEMMA ReleaseIdles ==
    ASSUME TypeOK, NEW w \in Workers, Release(w)
    PROVE  /\ worker' \in [Workers -> Worker]
           /\ \A v \in Workers : Busy(v)' => Busy(v) /\ worker'[v] = worker[v]
BY WorkerReleased DEF TypeOK, Release, Busy, IdleWorker

LEMMA CancelAttemptKeepsIInv ==
    ASSUME IInv, NEW w \in Workers, Busy(w), CancelAttempt(w),
           UNCHANGED <<outbox, queue, recon, session>>
    PROVE  IInv'
<1>. USE DEF IInv
<1>1. MyImport(w) \in Imports /\ batch[MyImport(w)].mapping \in Mappings
  BY RunningJob
<1>2. /\ batch' \in [Imports -> Batch]
      /\ \A k \in Imports : batch'[k].mapping = batch[k].mapping
                            /\ batch'[k].key = batch[k].key
      /\ MappedBeforeUse'
  BY <1>1, StatusWritten DEF CancelAttempt, BatchStatuses
<1>3. job' = [job EXCEPT ![MyJob(w)].status = "cancelled"]
      /\ AttemptEnds(w, "cancelled") /\ Release(w)
      /\ UNCHANGED <<contacts, report>>
  BY DEF CancelAttempt
<1>4. /\ worker' \in [Workers -> Worker]
      /\ \A v \in Workers : Busy(v)' => Busy(v) /\ worker'[v] = worker[v]
  BY <1>3, ReleaseIdles
<1>5. "cancelled" \in JobStatuses /\ "cancelled" \in AttemptStatuses
  BY DEF JobStatuses, AttemptStatuses
<1>6. queue' \in [Messages -> 0 .. MaxCopies]
      /\ contacts' \in [Emails -> Imports \cup {None}]
  BY <1>3 DEF TypeOK
<1>. QED
  BY <1>2, <1>3, <1>4, <1>5, <1>6, AttemptEndKeepsIInv

LEMMA ClassifyKeepsIInv ==
    ASSUME IInv, NEW w \in Workers, Classify(w)
    PROVE  IInv'
<1>1. Busy(w)
  BY DEF Classify, Busy
<1>. QED
  BY <1>1, CancelAttemptKeepsIInv, PutReportsKeepsIInv DEF Classify

LEMMA CommitValidationKeepsIInv ==
    ASSUME IInv, NEW w \in Workers, CommitValidation(w)
    PROVE  IInv'
<1>. USE DEF IInv
<1>1. Busy(w)
  BY DEF CommitValidation, Busy
<1>2. MyImport(w) \in Imports /\ batch[MyImport(w)].mapping \in Mappings
  BY <1>1, RunningJob
<1>3. worker[w].rows \in SUBSET Emails
  BY DEF TypeOK, Worker
<1>4. batch' = [batch EXCEPT ![MyImport(w)].status = "validated",
                             ![MyImport(w)].accepted = worker[w].rows]
  BY DEF CommitValidation
<1>5. batch' \in [Imports -> Batch]
  BY <1>2, <1>3, <1>4, BatchAcceptedSet DEF TypeOK, BatchStatuses
<1>6. \A k \in Imports : /\ batch'[k].mapping = batch[k].mapping
                         /\ batch'[k].key = batch[k].key
                         /\ k # MyImport(w) => batch'[k] = batch[k]
  BY <1>2, <1>4 DEF TypeOK, Batch
<1>7. MappedBeforeUse'
  BY <1>2, <1>6 DEF Consistent, MappedBeforeUse
<1>8. worker' = MakeOthersStale(w)
  BY DEF CommitValidation
<1>9. worker' \in [Workers -> Worker]
  <2>1. IdleWorker \in Worker
    BY BoundsAssumption DEF Worker, IdleWorker, WorkerPcs
  <2>2. \A v \in Workers : /\ worker[v] \in Worker
                           /\ [worker[v] EXCEPT !.fresh = FALSE] \in Worker
    BY DEF TypeOK, Worker
  <2>. QED BY <1>8, <2>1, <2>2 DEF MakeOthersStale
<1>10. \A v \in Workers : Busy(v)' =>
          /\ Busy(v)
          /\ worker'[v].msg = worker[v].msg
          /\ worker'[v].attempt = worker[v].attempt
          /\ worker'[v].pc = "confirm" => worker[v].pc = "confirm"
  <2>1. \A v \in Workers :
           \/ worker'[v] = IdleWorker
           \/ worker'[v] = worker[v]
           \/ worker'[v] = [worker[v] EXCEPT !.fresh = FALSE]
    BY <1>8 DEF MakeOthersStale
  <2>2. ASSUME NEW v \in Workers, Busy(v)'
        PROVE  /\ worker'[v].pc = worker[v].pc
               /\ worker'[v].msg = worker[v].msg
               /\ worker'[v].attempt = worker[v].attempt
    <3>1. worker[v] \in Worker
      BY DEF TypeOK
    <3>2. worker'[v] # IdleWorker
      BY <2>2 DEF Busy, IdleWorker
    <3>. QED BY <2>1, <3>1, <3>2 DEF Worker
  <2>. QED BY <2>2 DEF Busy
<1>11. job' = [job EXCEPT ![MyJob(w)].status = "succeeded"]
       /\ AttemptEnds(w, "succeeded")
       /\ UNCHANGED <<outbox, contacts, report, queue, recon, session>>
  BY DEF CommitValidation, Succeed
<1>12. "succeeded" \in JobStatuses /\ "succeeded" \in AttemptStatuses
  BY DEF JobStatuses, AttemptStatuses
<1>13. queue' \in [Messages -> 0 .. MaxCopies]
       /\ contacts' \in [Emails -> Imports \cup {None}]
  BY <1>11 DEF TypeOK
<1>. QED
  BY <1>1, <1>5, <1>6, <1>7, <1>9, <1>10, <1>11, <1>12, <1>13,
     AttemptEndKeepsIInv

LEMMA AlreadyCompletedKeepsIInv ==
    ASSUME IInv, NEW w \in Workers, Busy(w), AlreadyCompleted(w),
           UNCHANGED <<outbox, queue, recon, session>>
    PROVE  IInv'
<1>. USE DEF IInv
<1>1. job' = [job EXCEPT ![MyJob(w)].status = "succeeded"]
      /\ AttemptEnds(w, "succeeded") /\ Release(w)
      /\ UNCHANGED <<batch, contacts, report>>
  BY DEF AlreadyCompleted, Succeed
<1>2. /\ worker' \in [Workers -> Worker]
      /\ \A v \in Workers : Busy(v)' => Busy(v) /\ worker'[v] = worker[v]
  BY <1>1, ReleaseIdles
<1>3. "succeeded" \in JobStatuses /\ "succeeded" \in AttemptStatuses
  BY DEF JobStatuses, AttemptStatuses
<1>4. /\ batch' \in [Imports -> Batch]
      /\ queue' \in [Messages -> 0 .. MaxCopies]
      /\ contacts' \in [Emails -> Imports \cup {None}]
  BY <1>1 DEF TypeOK
<1>5. MappedBeforeUse'
  BY <1>1 DEF Consistent, MappedBeforeUse
<1>. QED
  BY <1>1, <1>2, <1>3, <1>4, <1>5, AttemptEndKeepsIInv

LEMMA CommitConfirmationKeepsIInv ==
    ASSUME IInv, NEW w \in Workers, Busy(w), CommitConfirmation(w),
           UNCHANGED <<outbox, queue, recon, session>>
    PROVE  IInv'
<1>. USE DEF IInv
<1>. DEFINE i == MyImport(w)
            existing == InDirectory(batch[i].accepted)
            inserted == batch[i].accepted \ existing
<1>1. i \in Imports /\ batch[i].mapping \in Mappings
  BY RunningJob
<1>2. existing \in SUBSET Emails /\ inserted \in SUBSET Emails
  BY <1>1 DEF InDirectory, TypeOK, Batch
<1>3. batch' = [batch EXCEPT ![i].status = "completed", ![i].started = TRUE,
                             ![i].inserted = inserted, ![i].skipped = existing]
  BY DEF CommitConfirmation
<1>4. /\ InsertContacts(i, batch[i].accepted)
      /\ job' = [job EXCEPT ![MyJob(w)].status = "succeeded"]
      /\ AttemptEnds(w, "succeeded") /\ Release(w)
      /\ UNCHANGED report
  BY DEF CommitConfirmation, Succeed
<1>. HIDE DEF i, existing, inserted
<1>5. batch' \in [Imports -> Batch]
  BY <1>1, <1>2, <1>3, BatchCompletedSet DEF TypeOK, BatchStatuses
<1>6. \A k \in Imports : /\ batch'[k].mapping = batch[k].mapping
                         /\ batch'[k].key = batch[k].key
                         /\ k # i => batch'[k] = batch[k]
  BY <1>1, <1>3 DEF TypeOK, Batch
<1>7. MappedBeforeUse'
  BY <1>1, <1>6 DEF Consistent, MappedBeforeUse
<1>8. contacts' \in [Emails -> Imports \cup {None}]
  BY <1>1, <1>4 DEF InsertContacts, TypeOK
<1>9. /\ worker' \in [Workers -> Worker]
      /\ \A v \in Workers : Busy(v)' => Busy(v) /\ worker'[v] = worker[v]
  BY <1>4, ReleaseIdles
<1>10. "succeeded" \in JobStatuses /\ "succeeded" \in AttemptStatuses
  BY DEF JobStatuses, AttemptStatuses
<1>11. queue' \in [Messages -> 0 .. MaxCopies]
  BY DEF TypeOK
<1>. QED
  BY <1>4, <1>5, <1>6, <1>7, <1>8, <1>9, <1>10, <1>11, AttemptEndKeepsIInv

LEMMA RunConfirmationKeepsIInv ==
    ASSUME IInv, NEW w \in Workers, RunConfirmation(w)
    PROVE  IInv'
<1>1. Busy(w)
  BY DEF RunConfirmation, Busy
<1>. QED
  BY <1>1, CancelAttemptKeepsIInv, AlreadyCompletedKeepsIInv,
     CommitConfirmationKeepsIInv DEF RunConfirmation

LEMMA FailAttemptKeepsIInv ==
    ASSUME IInv, NEW w \in Workers, FailAttempt(w)
    PROVE  IInv'
<1>. USE DEF IInv
<1>1. Busy(w)
  BY DEF FailAttempt
<1>2. /\ worker[w].msg \in Messages
      /\ Created(MyJob(w))
      /\ MyImport(w) \in Imports /\ batch[MyImport(w)].mapping \in Mappings
  BY <1>1, RunningJob
<1>3. /\ batch' \in [Imports -> Batch]
      /\ \A k \in Imports : batch'[k].mapping = batch[k].mapping
                            /\ batch'[k].key = batch[k].key
      /\ MappedBeforeUse'
  BY <1>2, StatusWritten DEF FailAttempt, BatchStatuses
<1>4. queue' \in [Messages -> 0 .. MaxCopies]
      /\ \A m \in Messages : queue'[m] > 0 => queue[m] > 0 \/ Created(m.job)
  <2>1. CASE queue' = queue
    BY <2>1 DEF TypeOK
  <2>2. CASE queue' = Enqueued([worker[w].msg EXCEPT !.retries = @ + 1])
             /\ worker[w].msg.retries + 1 < MaxAttempts
    <3>. DEFINE m == [worker[w].msg EXCEPT !.retries = @ + 1]
    <3>1. m \in Messages /\ m.job = MyJob(w)
      BY <1>2, <2>2, BoundsAssumption DEF Messages, MyJob
    <3>2. queue' = Enqueued(m)
      BY <2>2
    <3>. HIDE DEF m
    <3>. QED
      BY <1>2, <3>1, <3>2, EnqueuedTyped, EnqueuedOnly DEF TypeOK
  <2>. QED
    BY <2>1, <2>2 DEF FailAttempt, Retried
<1>5. job' = [job EXCEPT ![MyJob(w)].status = "failed"]
      /\ AttemptEnds(w, "failed") /\ Release(w)
      /\ UNCHANGED <<outbox, contacts, report, recon, session>>
  BY DEF FailAttempt
<1>6. /\ worker' \in [Workers -> Worker]
      /\ \A v \in Workers : Busy(v)' => Busy(v) /\ worker'[v] = worker[v]
  BY <1>5, ReleaseIdles
<1>7. "failed" \in JobStatuses /\ "failed" \in AttemptStatuses
      /\ contacts' \in [Emails -> Imports \cup {None}]
  BY <1>5 DEF JobStatuses, AttemptStatuses, TypeOK
<1>. QED
  BY <1>1, <1>3, <1>4, <1>5, <1>6, <1>7, AttemptEndKeepsIInv

LEMMA CrashKeepsIInv ==
    ASSUME IInv, NEW w \in Workers, Crash(w)
    PROVE  IInv'
<1>. USE DEF IInv
<1>1. Busy(w)
  BY DEF Crash
<1>2. worker[w].msg \in Messages /\ Created(worker[w].msg.job)
  BY <1>1, RunningJob DEF MyJob
<1>3. queue' \in [Messages -> 0 .. MaxCopies]
      /\ \A m \in Messages : queue'[m] > 0 => queue[m] > 0 \/ Created(m.job)
  <2>1. CASE queue' = queue
    BY <2>1 DEF TypeOK
  <2>2. CASE queue' = Enqueued(worker[w].msg)
    BY <1>2, <2>2, EnqueuedTyped, EnqueuedOnly DEF TypeOK
  <2>. QED BY <2>1, <2>2 DEF Crash
<1>4. /\ worker' \in [Workers -> Worker]
      /\ \A v \in Workers : Busy(v)' => Busy(v) /\ worker'[v] = worker[v]
  BY ReleaseIdles DEF Crash
<1>5. TypeOK'
  BY <1>3, <1>4 DEF TypeOK, Crash, dbVars
<1>6. Kept /\ JobsAreWellFormed' /\ MappedBeforeUse'
  BY KeptTables DEF Crash, dbVars
<1>7. WorkersRunJobs'
  BY <1>4, <1>5, <1>6, KeptWorker DEF WorkersRunJobs
<1>8. MessagesNameJobs' /\ OutboxNamesJobs' /\ ReconcilersNameJobs'
      /\ SessionsNameImports'
  BY <1>3, <1>6, MessageAdded, KeptOutbox, KeptReconcilers, KeptSessions
  DEF Crash, dbVars
<1>. QED
  BY <1>5, <1>6, <1>7, <1>8 DEF Consistent

-----------------------------------------------------------------------------
(* The invariant *)

LEMMA InitIInv == Init => IInv
<1>. SUFFICES ASSUME Init PROVE IInv
  OBVIOUS
<1>1. NoBatch \in Batch /\ NoJob \in Job
  BY BoundsAssumption DEF NoBatch, NoJob, Batch, Job
<1>2. IdleWorker \in Worker /\ IdleReconciler \in Reconciler /\ IdleSession \in Session
  BY BoundsAssumption, IdleSessionTyped
  DEF IdleWorker, IdleReconciler, Worker, WorkerPcs, Reconciler
<1>3. TypeOK
  BY <1>1, <1>2, BoundsAssumption DEF Init, TypeOK
<1>4. JobsAreWellFormed /\ MappedBeforeUse
  BY DEF Init, JobsAreWellFormed, MappedBeforeUse, NoBatch
<1>5. MessagesNameJobs /\ OutboxNamesJobs /\ ReconcilersNameJobs
  BY DEF Init, MessagesNameJobs, OutboxNamesJobs, ReconcilersNameJobs, IdleReconciler
<1>6. WorkersRunJobs /\ SessionsNameImports
  BY DEF Init, WorkersRunJobs, SessionsNameImports, Busy, IdleWorker, IdleSession
<1>. QED
  BY <1>3, <1>4, <1>5, <1>6 DEF IInv, Consistent

LEMMA StutterKeepsIInv ==
    ASSUME IInv, UNCHANGED vars
    PROVE  IInv'
<1>. USE DEF IInv, vars
<1>1. TypeOK'
  BY DEF TypeOK
<1>2. Kept /\ JobsAreWellFormed' /\ MappedBeforeUse'
  BY KeptTables
<1>3. MessagesNameJobs' /\ OutboxNamesJobs' /\ ReconcilersNameJobs'
      /\ SessionsNameImports' /\ WorkersRunJobs'
  BY <1>1, <1>2, KeptMessages, KeptOutbox, KeptReconcilers, KeptSessions,
     KeptWorkers
<1>. QED BY <1>1, <1>2, <1>3 DEF Consistent

LEMMA NextIInv == IInv /\ [Next]_vars => IInv'
<1>. SUFFICES ASSUME IInv, [Next]_vars PROVE IInv'
  OBVIOUS
<1>1. CASE Request
  BY <1>1, UploadKeepsIInv, ValidateImportKeepsIInv, ConfirmImportKeepsIInv,
     SetMappingReadKeepsIInv, CancelReadKeepsIInv, RetryReadKeepsIInv,
     SetMappingCommitKeepsIInv, CancelCommitKeepsIInv, RetryCommitKeepsIInv
  DEF Request
<1>2. CASE Transport
  BY <1>2, PublishKeepsIInv, PublishUnrecordedKeepsIInv, LoseBrokerKeepsIInv
  DEF Transport
<1>3. CASE Reconcile
  BY <1>3, ReconcileSelectKeepsIInv, ReconcileCommitKeepsIInv DEF Reconcile
<1>4. CASE Work
  <2>1. ASSUME NEW w \in Workers, WorkerStep(w)
        PROVE  IInv'
    BY <2>1, BeginValidationKeepsIInv, FetchUploadKeepsIInv, ClassifyKeepsIInv,
       CommitValidationKeepsIInv, RunConfirmationKeepsIInv,
       FailAttemptKeepsIInv, CrashKeepsIInv DEF WorkerStep
  <2>. QED BY <1>4, <2>1, DeliverKeepsIInv DEF Work
<1>. QED
  BY <1>1, <1>2, <1>3, <1>4, StutterKeepsIInv DEF Next

\* Types and references together are kept by every action: the inductive
\* invariant every other theorem rests on.
THEOREM Invariance == Spec => []IInv
BY InitIInv, NextIInv, PTL DEF Spec

\* Every table, message and process memory keeps its type.
THEOREM TypeCorrect == Spec => []TypeOK
<1>1. IInv => TypeOK
  BY DEF IInv
<1>. QED BY Invariance, <1>1, PTL

\* Jobs, messages, outbox rows, workers, reconcilers and requests refer only
\* to jobs and imports that exist and are in a state that allows them.
THEOREM ReferencesHold == Spec => []Consistent
<1>1. IInv => Consistent
  BY DEF IInv
<1>. QED BY Invariance, <1>1, PTL

-----------------------------------------------------------------------------
(* The directory *)

\* A step the directory does not see.
Unseen ==
    /\ contacts' = contacts
    /\ \A i \in Imports : /\ batch'[i].key = batch[i].key
                          /\ batch'[i].started = batch[i].started

LEMMA StatusWriteUnseen ==
    ASSUME TypeOK, NEW i, NEW st, batch' = [batch EXCEPT ![i].status = st],
           contacts' = contacts
    PROVE  Unseen
BY DEF TypeOK, Batch, Unseen

LEMMA RequestUnseen ==
    ASSUME TypeOK, Request
    PROVE  \/ Unseen
           \/ \E i \in Imports, k \in Keys, j \in JobIds : ConfirmImport(i, k, j)
<1>1. ASSUME NEW i \in Imports, Upload(i) \/ \E j \in JobIds : ValidateImport(i, j)
      PROVE  Unseen
  BY <1>1, StatusWriteUnseen DEF Upload, ValidateImport
<1>2. ASSUME NEW s \in Sessions, NEW i \in Imports,
             \/ \E m \in Mappings : SetMappingRead(s, i, m)
             \/ CancelRead(s, i)
             \/ RetryRead(s, i)
      PROVE  Unseen
  BY <1>2 DEF Unseen, SetMappingRead, CancelRead, RetryRead, dbVars
<1>3. ASSUME NEW s \in Sessions, SetMappingCommit(s)
      PROVE  Unseen
  <2>. DEFINE m == Flushed(session[s].loaded, session[s].mapping,
                           batch[session[s].import].mapping)
              st == Flushed(session[s].status, "mapped",
                            batch[session[s].import].status)
  <2>1. /\ batch' = [batch EXCEPT ![session[s].import].mapping = m,
                                  ![session[s].import].status = st]
        /\ contacts' = contacts
    BY <1>3 DEF SetMappingCommit
  <2>. HIDE DEF m, st
  <2>. QED BY <2>1 DEF Unseen, TypeOK, Batch
<1>4. ASSUME NEW s \in Sessions, CancelCommit(s)
      PROVE  Unseen
  BY <1>4 DEF Unseen, CancelCommit
<1>5. ASSUME NEW s \in Sessions, RetryCommit(s)
      PROVE  Unseen
  <2>1. CASE UNCHANGED <<batch, job, outbox>>
    BY <1>5, <2>1 DEF Unseen, RetryCommit
  <2>2. ASSUME NEW failed \in JobIds, NEW j \in JobIds,
               RetryFailed(s, session[s].import, failed, j)
        PROVE  Unseen
    BY <1>5, <2>2, StatusWriteUnseen DEF RetryFailed, RetryCommit
  <2>. QED BY <1>5, <2>1, <2>2 DEF RetryCommit
<1>. QED
  BY <1>1, <1>2, <1>3, <1>4, <1>5 DEF Request

LEMMA WorkUnseen ==
    ASSUME IInv, NEW w \in Workers,
           WorkerStep(w) \/ \E m \in Messages : Deliver(w, m)
    PROVE  Unseen \/ (Busy(w) /\ worker[w].pc = "confirm" /\ CommitConfirmation(w))
<1>. USE DEF IInv
<1>1. ASSUME NEW m \in Messages, Deliver(w, m)
      PROVE  Unseen
  <2>1. CASE CancelOnDelivery(m)
    BY <1>1, <2>1, StatusWriteUnseen DEF CancelOnDelivery, Deliver
  <2>2. CASE IgnoreDelivery(m) \/ ExhaustAttempts(m) \/ StartAttempt(w, m)
    BY <1>1, <2>2 DEF IgnoreDelivery, ExhaustAttempts, StartAttempt,
                      BeginAttempt, Deliver, Unseen
  <2>. QED BY <1>1, <2>1, <2>2 DEF Deliver
<1>2. CASE BeginValidation(w)
  BY <1>2, StatusWriteUnseen DEF BeginValidation
<1>3. CASE FetchUpload(w) \/ Crash(w)
  BY <1>3 DEF FetchUpload, Crash, dbVars, Unseen
<1>4. CASE CancelAttempt(w)
  BY <1>4, StatusWriteUnseen DEF CancelAttempt
<1>5. CASE Classify(w)
  BY <1>4, <1>5 DEF Classify, PutReports, Unseen
<1>6. CASE CommitValidation(w)
  <2>1. batch' = [batch EXCEPT ![MyImport(w)].status = "validated",
                               ![MyImport(w)].accepted = worker[w].rows]
        /\ contacts' = contacts
    BY <1>6 DEF CommitValidation
  <2>. QED BY <2>1 DEF TypeOK, Batch, Unseen
<1>7. CASE RunConfirmation(w)
  BY <1>4, <1>7 DEF RunConfirmation, AlreadyCompleted, Unseen, Busy
<1>8. CASE FailAttempt(w)
  BY <1>8, StatusWriteUnseen DEF FailAttempt
<1>. QED
  BY <1>1, <1>2, <1>3, <1>5, <1>6, <1>7, <1>8 DEF WorkerStep

LEMMA StepSeen ==
    ASSUME IInv, [Next]_vars
    PROVE  \/ Unseen
           \/ \E i \in Imports, k \in Keys, j \in JobIds : ConfirmImport(i, k, j)
           \/ \E w \in Workers : /\ Busy(w) /\ worker[w].pc = "confirm"
                                 /\ CommitConfirmation(w)
<1>1. CASE Request
  BY <1>1, RequestUnseen DEF IInv
<1>2. CASE Transport \/ Reconcile
  BY <1>2 DEF Transport, Reconcile, Publish, PublishUnrecorded, LoseBroker,
              ReconcileSelect, ReconcileCommit, dbVars, Unseen
<1>3. CASE Work
  BY <1>3, WorkUnseen DEF Work
<1>4. CASE UNCHANGED vars
  BY <1>4 DEF vars, Unseen
<1>. QED
  BY <1>1, <1>2, <1>3, <1>4 DEF Next

\* What the confirmation transaction writes.
LEMMA ConfirmationWrites ==
    ASSUME IInv, NEW w \in Workers, Busy(w), CommitConfirmation(w)
    PROVE  LET i == MyImport(w) IN
           /\ i \in Imports /\ batch[i].accepted \in SUBSET Emails
           /\ InsertContacts(i, batch[i].accepted)
           /\ batch'[i].status = "completed" /\ batch'[i].started = TRUE
           /\ batch'[i].accepted = batch[i].accepted
           /\ batch'[i].key = batch[i].key
           /\ batch'[i].inserted = batch[i].accepted \ InDirectory(batch[i].accepted)
           /\ batch'[i].skipped = InDirectory(batch[i].accepted)
           /\ \A k \in Imports : k # i => batch'[k] = batch[k]
<1>. DEFINE i == MyImport(w)
            existing == InDirectory(batch[i].accepted)
            inserted == batch[i].accepted \ existing
<1>1. i \in Imports
  BY RunningJob DEF IInv
<1>2. batch' = [batch EXCEPT ![i].status = "completed", ![i].started = TRUE,
                             ![i].inserted = inserted, ![i].skipped = existing]
      /\ InsertContacts(i, batch[i].accepted)
  BY DEF CommitConfirmation
<1>. HIDE DEF i, existing, inserted
<1>3. /\ batch[i].accepted \in SUBSET Emails
      /\ batch'[i].status = "completed" /\ batch'[i].started = TRUE
      /\ batch'[i].accepted = batch[i].accepted
      /\ batch'[i].key = batch[i].key
      /\ batch'[i].inserted = inserted /\ batch'[i].skipped = existing
      /\ \A k \in Imports : k # i => batch'[k] = batch[k]
  BY <1>1, <1>2 DEF IInv, TypeOK, Batch
<1>. QED BY <1>1, <1>2, <1>3 DEF i, existing, inserted

\* A worker confirms only an import whose key was accepted.
LEMMA ConfirmsAcceptedKey ==
    ASSUME IInv, NEW w \in Workers, worker[w].pc = "confirm"
    PROVE  Busy(w) /\ batch[MyImport(w)].key # None
<1>1. Busy(w)
  BY DEF Busy
<1>2. job[MyJob(w)].kind = "confirm"
  BY <1>1 DEF IInv, Consistent, WorkersRunJobs
<1>. QED
  BY <1>1, <1>2, RunningJob, CreatedJob DEF IInv, MyImport

LEMMA DirectoryInit == Init => Promise!Init
BY DEF Init, Promise!Init, NoBatch

LEMMA DirectoryStep ==
    ASSUME IInv, [Next]_vars
    PROVE  [Promise!Next]_(Promise!vars)
<1>1. CASE Unseen
  BY <1>1 DEF Unseen, Promise!vars
<1>2. ASSUME NEW i \in Imports, NEW k \in Keys, NEW j \in JobIds,
             ConfirmImport(i, k, j)
      PROVE  Promise!Next
  <2>1. batch[i].key = None /\ batch' = [batch EXCEPT ![i].key = k]
        /\ contacts' = contacts
    BY <1>2 DEF ConfirmImport
  <2>2. /\ \A n \in Imports : batch'[n].started = batch[n].started
        /\ \A n \in Imports : batch'[n].key = IF n = i THEN k ELSE batch[n].key
    BY <2>1 DEF IInv, TypeOK, Batch
  <2>3. Promise!Accept(i, k)
    BY <2>1, <2>2 DEF Promise!Accept
  <2>. QED BY <2>3 DEF Promise!Next
<1>3. ASSUME NEW w \in Workers, worker[w].pc = "confirm", CommitConfirmation(w)
      PROVE  Promise!Next
  <2>. DEFINE i == MyImport(w)
  <2>1. Busy(w) /\ batch[i].key # None
    BY <1>3, ConfirmsAcceptedKey
  <2>2. /\ i \in Imports /\ batch[i].accepted \in SUBSET Emails
        /\ InsertContacts(i, batch[i].accepted)
        /\ batch'[i].started = TRUE
        /\ batch'[i].key = batch[i].key
        /\ \A k \in Imports : k # i => batch'[k] = batch[k]
    BY <1>3, <2>1, ConfirmationWrites
  <2>. HIDE DEF i
  <2>3. Promise!Import(i, batch[i].accepted)
    BY <2>1, <2>2 DEF Promise!Import, InsertContacts
  <2>4. \E emails \in SUBSET Emails : Promise!Import(i, emails)
    <3>. DEFINE emails == batch[i].accepted
    <3>1. emails \in SUBSET Emails /\ Promise!Import(i, emails)
      BY <2>2, <2>3
    <3>. HIDE DEF emails
    <3>. QED BY <3>1 DEF Promise!Import
  <2>. QED BY <2>2, <2>4 DEF Promise!Next
<1>. QED
  BY <1>1, <1>2, <1>3, StepSeen

\* The jobs, the queue, the retries, the crashes and the reconciliations
\* implement the directory's promise: a key is accepted once, contacts enter
\* only under an accepted key, and none is overwritten or removed.
THEOREM Refinement == Spec => ImplementsDirectory
<1>1. IInv /\ [Next]_vars => [Promise!Next]_(Promise!vars)
  BY DirectoryStep
<1>. QED
  BY Invariance, DirectoryInit, <1>1, PTL DEF Spec, ImplementsDirectory, Promise!Spec

\* Nothing reaches the directory but through a confirmation an operator sent.
THEOREM OnlyConfirmedImportsReachDirectory == Spec => []ImportedOnlyAfterConfirmation
<1>1. Init => ImportedOnlyAfterConfirmation
  BY DEF Init, ImportedOnlyAfterConfirmation
<1>2. ASSUME IInv, ImportedOnlyAfterConfirmation, [Next]_vars
      PROVE  ImportedOnlyAfterConfirmation'
  <2>1. contacts \in [Emails -> Imports \cup {None}]
    BY <1>2 DEF IInv, TypeOK
  <2>2. CASE Unseen
    BY <1>2, <2>1, <2>2 DEF Unseen, ImportedOnlyAfterConfirmation
  <2>3. ASSUME NEW i \in Imports, NEW k \in Keys, NEW j \in JobIds,
               ConfirmImport(i, k, j)
        PROVE  ImportedOnlyAfterConfirmation'
    <3>1. batch[i].key = None /\ batch' = [batch EXCEPT ![i].key = k]
          /\ contacts' = contacts
      BY <2>3 DEF ConfirmImport
    <3>2. \A n \in Imports : batch'[n].started = batch[n].started
                             /\ (n # i => batch'[n].key = batch[n].key)
      BY <1>2, <3>1 DEF IInv, TypeOK, Batch
    <3>. QED BY <1>2, <2>1, <3>1, <3>2 DEF ImportedOnlyAfterConfirmation
  <2>4. ASSUME NEW w \in Workers, worker[w].pc = "confirm", CommitConfirmation(w)
        PROVE  ImportedOnlyAfterConfirmation'
    <3>. DEFINE i == MyImport(w)
    <3>1. Busy(w) /\ batch[i].key # None
      BY <1>2, <2>4, ConfirmsAcceptedKey
    <3>2. /\ i \in Imports
          /\ InsertContacts(i, batch[i].accepted)
          /\ batch'[i].started
          /\ batch'[i].key = batch[i].key
          /\ \A k \in Imports : k # i => batch'[k] = batch[k]
      BY <1>2, <2>4, <3>1, ConfirmationWrites
    <3>. HIDE DEF i
    <3>. QED
      BY <1>2, <2>1, <3>1, <3>2 DEF ImportedOnlyAfterConfirmation, InsertContacts
  <2>. QED
    BY <1>2, <2>2, <2>3, <2>4, StepSeen
<1>. QED
  BY Invariance, <1>1, <1>2, PTL DEF Spec

-----------------------------------------------------------------------------
(* Completed imports *)

\* What a step other than a confirmation does to a completed import: it was
\* completed before, with the same rows and counts.
CompletedBefore ==
    \A i \in Imports : batch'[i].status = "completed" =>
        /\ batch[i].status = "completed"
        /\ batch'[i].accepted = batch[i].accepted
        /\ batch'[i].inserted = batch[i].inserted
        /\ batch'[i].skipped = batch[i].skipped

LEMMA StatusWriteCompletedBefore ==
    ASSUME TypeOK, NEW i \in Imports, NEW st,
           batch' = [batch EXCEPT ![i].status = st],
           st = "completed" => batch[i].status = "completed"
    PROVE  CompletedBefore
BY DEF TypeOK, Batch, CompletedBefore

LEMMA RequestCompletedBefore ==
    ASSUME IInv, Request
    PROVE  CompletedBefore
<1>. USE DEF IInv
<1>1. ASSUME NEW i \in Imports, Upload(i) \/ \E j \in JobIds : ValidateImport(i, j)
      PROVE  CompletedBefore
  BY <1>1, StatusWriteCompletedBefore DEF Upload, ValidateImport
<1>2. ASSUME NEW i \in Imports, NEW k \in Keys, NEW j \in JobIds,
             ConfirmImport(i, k, j)
      PROVE  CompletedBefore
  BY <1>2 DEF ConfirmImport, TypeOK, Batch, CompletedBefore
<1>3. ASSUME NEW s \in Sessions, NEW i \in Imports,
             \/ \E m \in Mappings : SetMappingRead(s, i, m)
             \/ CancelRead(s, i)
             \/ RetryRead(s, i)
      PROVE  CompletedBefore
  BY <1>3 DEF CompletedBefore, SetMappingRead, CancelRead, RetryRead, dbVars
<1>4. ASSUME NEW s \in Sessions, SetMappingCommit(s)
      PROVE  CompletedBefore
  <2>. DEFINE i == session[s].import
              m == Flushed(session[s].loaded, session[s].mapping, batch[i].mapping)
              st == Flushed(session[s].status, "mapped", batch[i].status)
  <2>1. batch' = [batch EXCEPT ![i].mapping = m, ![i].status = st]
    BY <1>4 DEF SetMappingCommit
  <2>2. st = "completed" => batch[i].status = "completed"
    BY DEF Flushed
  <2>. HIDE DEF m, st
  <2>. QED BY <2>1, <2>2 DEF CompletedBefore, TypeOK, Batch
<1>5. ASSUME NEW s \in Sessions, CancelCommit(s)
      PROVE  CompletedBefore
  BY <1>5 DEF CompletedBefore, CancelCommit
<1>6. ASSUME NEW s \in Sessions, RetryCommit(s)
      PROVE  CompletedBefore
  <2>. DEFINE i == session[s].import
  <2>1. CASE UNCHANGED <<batch, job, outbox>>
    BY <2>1 DEF CompletedBefore
  <2>2. ASSUME NEW failed \in JobIds, NEW j \in JobIds, RetryFailed(s, i, failed, j)
        PROVE  CompletedBefore
    <3>. DEFINE st == Flushed(session[s].status, RetryStatus(job[failed].kind),
                              batch[i].status)
    <3>1. batch' = [batch EXCEPT ![i].status = st]
          /\ (st = "completed" => batch[i].status = "completed")
      BY <2>2 DEF RetryFailed, Flushed, RetryStatus
    <3>2. i \in Imports
      BY <1>6 DEF RetryCommit, Consistent, SessionsNameImports
    <3>. HIDE DEF st, i
    <3>. QED BY <3>1, <3>2, StatusWriteCompletedBefore
  <2>. QED BY <1>6, <2>1, <2>2 DEF RetryCommit
<1>. QED
  BY <1>1, <1>2, <1>3, <1>4, <1>5, <1>6 DEF Request

LEMMA WorkCompletedBefore ==
    ASSUME IInv, NEW w \in Workers,
           WorkerStep(w) \/ \E m \in Messages : Deliver(w, m)
    PROVE  CompletedBefore \/ (Busy(w) /\ CommitConfirmation(w))
<1>. USE DEF IInv
<1>1. ASSUME NEW m \in Messages, Deliver(w, m)
      PROVE  CompletedBefore
  <2>1. CASE CancelOnDelivery(m)
    <3>1. job[m.job].import \in Imports
      BY <1>1, CreatedJob DEF Deliver, Consistent, MessagesNameJobs, Messages
    <3>. DEFINE i == job[m.job].import
                st == IF batch[i].started THEN batch[i].status ELSE "cancelled"
    <3>2. batch' = [batch EXCEPT ![i].status = st]
          /\ (st = "completed" => batch[i].status = "completed")
      BY <2>1 DEF CancelOnDelivery
    <3>. HIDE DEF st, i
    <3>. QED BY <3>1, <3>2, StatusWriteCompletedBefore DEF i
  <2>2. CASE IgnoreDelivery(m) \/ ExhaustAttempts(m) \/ StartAttempt(w, m)
    BY <2>2 DEF IgnoreDelivery, ExhaustAttempts, StartAttempt, BeginAttempt,
                CompletedBefore
  <2>. QED BY <1>1, <2>1, <2>2 DEF Deliver
<1>2. Busy(w) => MyImport(w) \in Imports
  BY RunningJob
<1>3. CASE BeginValidation(w)
  BY <1>2, <1>3, StatusWriteCompletedBefore DEF BeginValidation, Busy
<1>4. CASE FetchUpload(w) \/ Crash(w)
  BY <1>4 DEF FetchUpload, Crash, dbVars, CompletedBefore
<1>5. CASE Busy(w) /\ CancelAttempt(w)
  BY <1>2, <1>5, StatusWriteCompletedBefore DEF CancelAttempt
<1>6. CASE Classify(w)
  BY <1>5, <1>6 DEF Classify, PutReports, CompletedBefore, Busy
<1>7. CASE CommitValidation(w)
  <2>1. batch' = [batch EXCEPT ![MyImport(w)].status = "validated",
                               ![MyImport(w)].accepted = worker[w].rows]
    BY <1>7 DEF CommitValidation
  <2>. QED BY <1>2, <1>7, <2>1 DEF TypeOK, Batch, CompletedBefore, CommitValidation, Busy
<1>8. CASE RunConfirmation(w)
  BY <1>5, <1>8 DEF RunConfirmation, AlreadyCompleted, CompletedBefore, Busy
<1>9. CASE FailAttempt(w)
  BY <1>2, <1>9, StatusWriteCompletedBefore DEF FailAttempt
<1>. QED
  BY <1>1, <1>3, <1>4, <1>6, <1>7, <1>8, <1>9 DEF WorkerStep

LEMMA StepCompletedBefore ==
    ASSUME IInv, [Next]_vars
    PROVE  CompletedBefore \/ \E w \in Workers : Busy(w) /\ CommitConfirmation(w)
<1>1. CASE Request
  BY <1>1, RequestCompletedBefore
<1>2. CASE Transport \/ Reconcile
  BY <1>2 DEF Transport, Reconcile, Publish, PublishUnrecorded, LoseBroker,
              ReconcileSelect, ReconcileCommit, dbVars, CompletedBefore
<1>3. CASE Work
  BY <1>3, WorkCompletedBefore DEF Work
<1>4. CASE UNCHANGED vars
  BY <1>4 DEF vars, CompletedBefore
<1>. QED
  BY <1>1, <1>2, <1>3, <1>4 DEF Next

\* Contacts and the marks of begun confirmations only grow.
LEMMA DirectoryGrows ==
    ASSUME IInv, [Next]_vars
    PROVE  /\ \A e \in Emails : contacts[e] # None => contacts'[e] = contacts[e]
           /\ \A i \in Imports : batch[i].started => batch'[i].started
<1>1. CASE Unseen
  BY <1>1 DEF Unseen
<1>2. ASSUME NEW i \in Imports, NEW k \in Keys, NEW j \in JobIds,
             ConfirmImport(i, k, j)
      PROVE  Unseen \/ (contacts' = contacts /\ \A n \in Imports :
                          batch'[n].started = batch[n].started)
  BY <1>2 DEF ConfirmImport, IInv, TypeOK, Batch
<1>3. ASSUME NEW w \in Workers, Busy(w), CommitConfirmation(w)
      PROVE  /\ \A e \in Emails : contacts[e] # None => contacts'[e] = contacts[e]
             /\ \A i \in Imports : batch[i].started => batch'[i].started
  BY <1>3, ConfirmationWrites DEF InsertContacts
<1>. QED
  BY <1>1, <1>2, <1>3, StepSeen

\* Every accepted row of a completed import is in the directory, and the counts
\* the operator sees partition them, for ever after.
THEOREM CompletedImportsAreInDirectory == Spec => []CompletedImportIsInDirectory
<1>1. Init => CompletedImportIsInDirectory
  BY NoneAssumption DEF Init, NoBatch, BatchStatuses, CompletedImportIsInDirectory
<1>2. ASSUME IInv, CompletedImportIsInDirectory, [Next]_vars
      PROVE  CompletedImportIsInDirectory'
  <2>1. CASE CompletedBefore
    <3>1. \A i \in Imports : batch[i].accepted \in SUBSET Emails
      BY <1>2 DEF IInv, TypeOK, Batch
    <3>. QED
      BY <1>2, <2>1, <3>1, DirectoryGrows, NoneAssumption
      DEF CompletedBefore, CompletedImportIsInDirectory
  <2>2. ASSUME NEW w \in Workers, Busy(w), CommitConfirmation(w)
        PROVE  CompletedImportIsInDirectory'
    <3>. DEFINE i == MyImport(w)
    <3>1. /\ i \in Imports /\ batch[i].accepted \in SUBSET Emails
          /\ InsertContacts(i, batch[i].accepted)
          /\ batch'[i].started
          /\ batch'[i].accepted = batch[i].accepted
          /\ batch'[i].inserted = batch[i].accepted \ InDirectory(batch[i].accepted)
          /\ batch'[i].skipped = InDirectory(batch[i].accepted)
          /\ \A k \in Imports : k # i => batch'[k] = batch[k]
      BY <1>2, <2>2, ConfirmationWrites
    <3>2. \A e \in batch[i].accepted : contacts'[e] # None
      BY <3>1, NoneAssumption DEF InsertContacts
    <3>3. \A k \in Imports : batch[k].accepted \in SUBSET Emails
      BY <1>2 DEF IInv, TypeOK, Batch
    <3>. HIDE DEF i
    <3>4. /\ batch'[i].inserted \cup batch'[i].skipped = batch'[i].accepted
          /\ batch'[i].inserted \cap batch'[i].skipped = {}
      BY <3>1 DEF InDirectory
    <3>5. ASSUME NEW k \in Imports, k # i, batch'[k].status = "completed"
          PROVE  /\ batch'[k].started
                 /\ \A e \in batch'[k].accepted : contacts'[e] # None
                 /\ batch'[k].inserted \cup batch'[k].skipped = batch'[k].accepted
                 /\ batch'[k].inserted \cap batch'[k].skipped = {}
      BY <1>2, <3>1, <3>3, <3>5, DirectoryGrows DEF CompletedImportIsInDirectory
    <3>. QED
      BY <3>1, <3>2, <3>4, <3>5 DEF CompletedImportIsInDirectory
  <2>. QED BY <1>2, <2>1, <2>2, StepCompletedBefore
<1>. QED
  BY Invariance, <1>1, <1>2, PTL DEF Spec

-----------------------------------------------------------------------------
(* Attempts *)

\* What a step other than a delivery does: attempt counts stay, and only a
\* recorded attempt is written again.
HistoryKept ==
    \A j \in JobIds :
        /\ job'[j].attempts = job[j].attempts
        /\ \A n \in AttemptNumbers :
              (attempt'[j][n] # None) <=> (attempt[j][n] # None)

LEMMA AttemptEndHistory ==
    ASSUME IInv, AttemptHistory, NEW w \in Workers, Busy(w),
           NEW st, job' = [job EXCEPT ![MyJob(w)].status = st],
           NEW ast \in AttemptStatuses, AttemptEnds(w, ast)
    PROVE  HistoryKept
<1>. DEFINE j == MyJob(w)
            n == worker[w].attempt
<1>1. j \in JobIds /\ n \in AttemptNumbers
  BY RunningJob DEF IInv
<1>2. n <= job[j].attempts
  <2>1. n \in 1 .. job[j].attempts /\ job[j].attempts \in Nat
    BY <1>1, BoundsAssumption DEF IInv, Consistent, WorkersRunJobs, TypeOK, Job
  <2>. QED BY <2>1
<1>3. attempt[j][n] # None
  BY <1>1, <1>2 DEF AttemptHistory
<1>4. attempt' = [attempt EXCEPT ![j][n] = ast] /\ ast # None
  BY NoneAssumption DEF AttemptEnds
<1>. HIDE DEF j, n
<1>5. \A k \in JobIds, x \in AttemptNumbers :
         attempt'[k][x] = IF k = j /\ x = n THEN ast ELSE attempt[k][x]
  BY <1>1, <1>4 DEF IInv, TypeOK
<1>6. \A k \in JobIds : job'[k].attempts = job[k].attempts
  BY DEF IInv, TypeOK, Job
<1>. QED
  BY <1>3, <1>4, <1>5, <1>6 DEF HistoryKept

LEMMA JobStatusHistory ==
    ASSUME TypeOK, NEW j, NEW st, job' = [job EXCEPT ![j].status = st],
           attempt' = attempt
    PROVE  HistoryKept
BY DEF TypeOK, Job, HistoryKept

\* A new job has no attempts, as the row it takes had.
LEMMA EnqueueHistory ==
    ASSUME IInv, NEW j \in JobIds, NEW i \in Imports, NEW kind \in JobKinds,
           EnqueueJob(j, i, kind), attempt' = attempt
    PROVE  HistoryKept
<1>. DEFINE new == [status |-> "queued", import |-> i, kind |-> kind,
                    attempts |-> 0]
<1>1. /\ \A k \in JobIds : k # j => job'[k] = job[k]
      /\ job'[j] = new
      /\ ~Created(j)
  BY EnqueueJobTyped DEF IInv
<1>2. job[j] = NoJob
  BY <1>1, NotCreatedJob DEF IInv
<1>. QED
  BY <1>1, <1>2 DEF HistoryKept, NoJob

LEMMA RequestHistory ==
    ASSUME IInv, Request
    PROVE  HistoryKept
<1>1. ASSUME NEW i \in Imports, NEW j \in JobIds,
             ValidateImport(i, j) \/ \E k \in Keys : ConfirmImport(i, k, j)
      PROVE  HistoryKept
  BY <1>1, EnqueueHistory DEF ValidateImport, ConfirmImport, JobKinds
<1>2. ASSUME NEW s \in Sessions, CancelCommit(s)
      PROVE  HistoryKept
  BY <1>2, JobStatusHistory DEF CancelCommit, IInv, HistoryKept
<1>3. ASSUME NEW s \in Sessions, RetryCommit(s)
      PROVE  HistoryKept
  <2>. DEFINE i == session[s].import
  <2>1. i \in Imports
    BY <1>3 DEF RetryCommit, IInv, Consistent, SessionsNameImports
  <2>2. ASSUME NEW failed \in JobIds, NEW j \in JobIds, RetryFailed(s, i, failed, j)
        PROVE  HistoryKept
    <3>1. Created(failed) /\ EnqueueJob(j, i, job[failed].kind)
      BY <2>2 DEF RetryFailed, IsNewest, JobsOf
    <3>2. job[failed].kind \in JobKinds
      BY <3>1, CreatedJob DEF IInv
    <3>3. attempt' = attempt
      BY <1>3 DEF RetryCommit
    <3>. QED BY <2>1, <3>1, <3>2, <3>3, EnqueueHistory
  <2>. QED BY <1>3, <2>2 DEF RetryCommit, HistoryKept
<1>4. ASSUME UNCHANGED <<job, attempt>>
      PROVE  HistoryKept
  BY <1>4 DEF HistoryKept
<1>. QED
  BY <1>1, <1>2, <1>3, <1>4
  DEF Request, Upload, SetMappingRead, CancelRead, RetryRead, SetMappingCommit, dbVars

LEMMA WorkHistory ==
    ASSUME IInv, AttemptHistory, NEW w \in Workers,
           WorkerStep(w) \/ \E m \in Messages : Deliver(w, m)
    PROVE  HistoryKept \/ \E m \in Messages : Created(m.job) /\ StartAttempt(w, m)
<1>1. ASSUME NEW m \in Messages, Deliver(w, m)
      PROVE  HistoryKept \/ (Created(m.job) /\ StartAttempt(w, m))
  <2>1. CASE IgnoreDelivery(m)
    BY <2>1 DEF IgnoreDelivery, HistoryKept
  <2>2. CASE CancelOnDelivery(m) \/ ExhaustAttempts(m)
    BY <2>2, JobStatusHistory DEF CancelOnDelivery, ExhaustAttempts, IInv
  <2>3. Created(m.job)
    BY <1>1 DEF Deliver, IInv, Consistent, MessagesNameJobs
  <2>. QED BY <1>1, <2>1, <2>2, <2>3 DEF Deliver
<1>2. CASE BeginValidation(w) \/ FetchUpload(w) \/ Crash(w)
  BY <1>2 DEF BeginValidation, FetchUpload, Crash, dbVars, HistoryKept
<1>3. CASE Busy(w) /\ CancelAttempt(w)
  BY <1>3, AttemptEndHistory DEF CancelAttempt, AttemptStatuses
<1>4. CASE Classify(w)
  BY <1>3, <1>4 DEF Classify, PutReports, HistoryKept, Busy
<1>5. CASE Busy(w) /\ Succeed(w)
  BY <1>5, AttemptEndHistory DEF Succeed, AttemptStatuses
<1>6. CASE CommitValidation(w) \/ RunConfirmation(w)
  BY <1>3, <1>5, <1>6 DEF CommitValidation, RunConfirmation, AlreadyCompleted,
                          CommitConfirmation, Busy
<1>7. CASE FailAttempt(w)
  BY <1>7, AttemptEndHistory DEF FailAttempt, AttemptStatuses
<1>. QED
  BY <1>1, <1>2, <1>4, <1>6, <1>7 DEF WorkerStep

LEMMA StepHistory ==
    ASSUME IInv, AttemptHistory, [Next]_vars
    PROVE  HistoryKept \/ \E w \in Workers, m \in Messages :
                             Created(m.job) /\ StartAttempt(w, m)
<1>1. CASE Request
  BY <1>1, RequestHistory
<1>2. CASE Transport \/ UNCHANGED vars
  BY <1>2 DEF Transport, Publish, PublishUnrecorded, LoseBroker, dbVars, vars,
              HistoryKept
<1>3. CASE Reconcile
  <2>1. \A j \in JobIds : job'[j].attempts = job[j].attempts
    BY <1>3 DEF Reconcile, ReconcileSelect, ReconcileCommit, dbVars, IInv, TypeOK, Job
  <2>. QED
    BY <1>3, <2>1 DEF Reconcile, ReconcileSelect, ReconcileCommit, dbVars,
                      HistoryKept
<1>4. CASE Work
  BY <1>4, WorkHistory DEF Work
<1>. QED
  BY <1>1, <1>2, <1>3, <1>4 DEF Next

\* The attempts of a job are numbered 1 to attempt_count without a gap, and
\* never more than max_attempts, whatever is delivered again.
THEOREM AttemptsAreRecorded == Spec => []AttemptHistory
<1>1. Init => AttemptHistory
  BY BoundsAssumption DEF Init, AttemptHistory, NoJob, AttemptNumbers
<1>2. ASSUME IInv, AttemptHistory, [Next]_vars
      PROVE  AttemptHistory'
  <2>1. CASE HistoryKept
    BY <1>2, <2>1 DEF HistoryKept, AttemptHistory
  <2>2. ASSUME NEW w \in Workers, NEW m \in Messages, Created(m.job),
               StartAttempt(w, m)
        PROVE  AttemptHistory'
    <3>. DEFINE j == m.job
                n == job[j].attempts + 1
    <3>1. j \in JobIds
      BY DEF Messages
    <3>2. \A k \in JobIds : job[k].attempts \in Nat
      BY <1>2, BoundsAssumption DEF IInv, TypeOK, Job
    <3>3. n \in AttemptNumbers
      BY <2>2, <3>1, <3>2, BoundsAssumption DEF StartAttempt, AttemptNumbers
    <3>4. /\ job' = [job EXCEPT ![j].status = "running", ![j].attempts = n]
          /\ attempt' = [attempt EXCEPT ![j][n] = "running"]
      BY <2>2 DEF StartAttempt, BeginAttempt
    <3>. HIDE DEF j
    <3>5. \A k \in JobIds : job'[k].attempts = IF k = j THEN n ELSE job[k].attempts
      BY <1>2, <3>1, <3>4 DEF IInv, TypeOK, Job
    <3>6. \A k \in JobIds, x \in AttemptNumbers :
             attempt'[k][x] = IF k = j /\ x = n THEN "running" ELSE attempt[k][x]
      BY <1>2, <3>1, <3>3, <3>4 DEF IInv, TypeOK
    <3>7. "running" # None
      BY NoneAssumption DEF JobStatuses
    <3>8. ASSUME NEW k \in JobIds, NEW x \in AttemptNumbers
          PROVE  (attempt'[k][x] # None) <=> (x <= job'[k].attempts)
      <4>1. x \in Nat /\ ((attempt[k][x] # None) <=> (x <= job[k].attempts))
        BY <1>2 DEF AttemptHistory, AttemptNumbers
      <4>. QED BY <3>2, <3>5, <3>6, <3>7, <4>1
    <3>. QED BY <3>8 DEF AttemptHistory
  <2>. QED BY <1>2, <2>1, <2>2, StepHistory
<1>. QED
  BY Invariance, <1>1, <1>2, PTL DEF Spec

-----------------------------------------------------------------------------
(* Confirmations *)

\* A confirmation job created by this step repeats one that failed.
OnlyRetriesConfirmAgain ==
    \A i \in Imports, j \in JobIds :
        /\ ~Created(j) /\ job'[j].status # None
        /\ job'[j].import = i /\ job'[j].kind = "confirm"
        => \A k \in JobsOf(i) : job[k].kind = "confirm" =>
              \E f \in JobsOf(i) : job[f].kind = "confirm"
                                   /\ job[f].status = "failed"

LEMMA NoJobCreated ==
    ASSUME \A j \in JobIds : ~Created(j) => job'[j] = job[j]
    PROVE  OnlyRetriesConfirmAgain
BY DEF OnlyRetriesConfirmAgain, Created

\* A job's status is written only when the job exists.
LEMMA ExistingJobWritten ==
    ASSUME TypeOK, NEW j \in JobIds, Created(j), NEW st,
           job' = [job EXCEPT ![j].status = st]
    PROVE  OnlyRetriesConfirmAgain
BY NoJobCreated DEF TypeOK

LEMMA RequestConfirms ==
    ASSUME IInv, Request
    PROVE  OnlyRetriesConfirmAgain
<1>1. ASSUME NEW i \in Imports, NEW j \in JobIds, ValidateImport(i, j)
      PROVE  OnlyRetriesConfirmAgain
  <2>1. /\ \A k \in JobIds : k # j => job'[k] = job[k]
        /\ job'[j] = [status |-> "queued", import |-> i, kind |-> "validate",
                      attempts |-> 0]
    BY <1>1, EnqueueJobTyped DEF ValidateImport, IInv, JobKinds
  <2>. QED BY <2>1 DEF OnlyRetriesConfirmAgain, Created
<1>2. ASSUME NEW i \in Imports, NEW k \in Keys, NEW j \in JobIds,
             ConfirmImport(i, k, j)
      PROVE  OnlyRetriesConfirmAgain
  <2>1. /\ \A n \in JobIds : n # j => job'[n] = job[n]
        /\ job'[j] = [status |-> "queued", import |-> i, kind |-> "confirm",
                      attempts |-> 0]
    BY <1>2, EnqueueJobTyped DEF ConfirmImport, IInv, JobKinds
  <2>2. \A n \in JobsOf(i) : job[n].kind # "confirm"
    BY <1>2, CreatedJob DEF ConfirmImport, JobsOf, IInv
  <2>. QED BY <2>1, <2>2 DEF OnlyRetriesConfirmAgain, Created
<1>3. ASSUME NEW s \in Sessions, CancelCommit(s)
      PROVE  OnlyRetriesConfirmAgain
  BY <1>3, ExistingJobWritten, NoJobCreated
  DEF CancelCommit, IInv, IsNewest, JobsOf
<1>4. ASSUME NEW s \in Sessions, RetryCommit(s)
      PROVE  OnlyRetriesConfirmAgain
  <2>. DEFINE i == session[s].import
  <2>1. i \in Imports
    BY <1>4 DEF RetryCommit, IInv, Consistent, SessionsNameImports
  <2>2. ASSUME NEW failed \in JobIds, NEW j \in JobIds, RetryFailed(s, i, failed, j)
        PROVE  OnlyRetriesConfirmAgain
    <3>1. /\ failed \in JobsOf(i) /\ job[failed].status = "failed"
          /\ EnqueueJob(j, i, job[failed].kind)
      BY <2>2 DEF RetryFailed, IsNewest
    <3>2. job[failed].kind \in JobKinds
      BY <3>1, CreatedJob DEF IInv, JobsOf
    <3>. DEFINE kind == job[failed].kind
    <3>3. /\ \A n \in JobIds : n # j => job'[n] = job[n]
          /\ job'[j] = [status |-> "queued", import |-> i, kind |-> kind,
                        attempts |-> 0]
      BY <2>1, <3>1, <3>2, EnqueueJobTyped DEF IInv
    <3>4. job'[j].kind = job[failed].kind /\ job'[j].import = i
      BY <3>3
    <3>. QED BY <3>1, <3>3, <3>4 DEF OnlyRetriesConfirmAgain, Created
  <2>. QED BY <1>4, <2>2, NoJobCreated DEF RetryCommit
<1>5. ASSUME UNCHANGED job
      PROVE  OnlyRetriesConfirmAgain
  BY <1>5, NoJobCreated
<1>. QED
  BY <1>1, <1>2, <1>3, <1>4, <1>5
  DEF Request, Upload, SetMappingRead, CancelRead, RetryRead, SetMappingCommit, dbVars

LEMMA WorkConfirms ==
    ASSUME IInv, NEW w \in Workers,
           WorkerStep(w) \/ \E m \in Messages : Deliver(w, m)
    PROVE  OnlyRetriesConfirmAgain
<1>1. ASSUME NEW m \in Messages, Deliver(w, m)
      PROVE  OnlyRetriesConfirmAgain
  <2>1. m.job \in JobIds /\ Created(m.job)
    BY <1>1 DEF Deliver, IInv, Consistent, MessagesNameJobs, Messages
  <2>2. CASE IgnoreDelivery(m)
    BY <2>2, NoJobCreated DEF IgnoreDelivery
  <2>3. CASE CancelOnDelivery(m) \/ ExhaustAttempts(m)
    BY <2>1, <2>3, ExistingJobWritten DEF CancelOnDelivery, ExhaustAttempts, IInv
  <2>4. CASE StartAttempt(w, m)
    <3>1. \A k \in JobIds : k # m.job => job'[k] = job[k]
      BY <2>4 DEF StartAttempt, BeginAttempt, IInv, TypeOK
    <3>. QED BY <2>1, <3>1, NoJobCreated
  <2>. QED BY <1>1, <2>2, <2>3, <2>4 DEF Deliver
<1>2. Busy(w) => MyJob(w) \in JobIds /\ Created(MyJob(w))
  BY RunningJob DEF IInv
<1>3. ASSUME UNCHANGED job
      PROVE  OnlyRetriesConfirmAgain
  BY <1>3, NoJobCreated
<1>4. ASSUME Busy(w), NEW st, job' = [job EXCEPT ![MyJob(w)].status = st]
      PROVE  OnlyRetriesConfirmAgain
  BY <1>2, <1>4, ExistingJobWritten DEF IInv
<1>5. CASE BeginValidation(w) \/ FetchUpload(w) \/ Crash(w)
  BY <1>3, <1>5 DEF BeginValidation, FetchUpload, Crash, dbVars
<1>6. CASE Classify(w) \/ CommitValidation(w)
  BY <1>3, <1>4, <1>6
  DEF Classify, CancelAttempt, PutReports, CommitValidation, Succeed, Busy
<1>7. CASE RunConfirmation(w) \/ FailAttempt(w)
  BY <1>4, <1>7 DEF RunConfirmation, CancelAttempt, AlreadyCompleted,
                    CommitConfirmation, Succeed, FailAttempt, Busy
<1>. QED
  BY <1>1, <1>5, <1>6, <1>7 DEF WorkerStep

LEMMA StepConfirms ==
    ASSUME IInv, [Next]_vars
    PROVE  OnlyRetriesConfirmAgain
<1>1. CASE Transport \/ UNCHANGED vars
  BY <1>1, NoJobCreated
  DEF Transport, Publish, PublishUnrecorded, LoseBroker, dbVars, vars
<1>2. CASE Reconcile
  <2>1. ASSUME NEW r \in Reconcilers, ReconcileCommit(r)
        PROVE  \A j \in JobIds : ~Created(j) => job'[j] = job[j]
    <3>1. \A j \in recon[r].running : Created(j)
      BY DEF IInv, Consistent, ReconcilersNameJobs
    <3>. QED BY <2>1, <3>1 DEF ReconcileCommit
  <2>. QED BY <1>2, <2>1, NoJobCreated DEF Reconcile, ReconcileSelect, dbVars
<1>. QED
  BY <1>1, <1>2, RequestConfirms, WorkConfirms DEF Next, Work

\* However often an operator clicks, one key is accepted and one confirmation
\* is queued; another follows only a failed one.
THEOREM ConfirmationsAreUnique == Spec => OneConfirmationPerKey
<1>1. ASSUME IInv, [Next]_vars
      PROVE  \A i \in Imports : batch[i].key # None => batch'[i].key = batch[i].key
  <2>1. CASE Unseen
    BY <2>1 DEF Unseen
  <2>2. ASSUME NEW i \in Imports, NEW k \in Keys, NEW j \in JobIds,
               ConfirmImport(i, k, j)
        PROVE  \A n \in Imports : batch[n].key # None => batch'[n].key = batch[n].key
    BY <1>1, <2>2 DEF ConfirmImport, IInv, TypeOK, Batch
  <2>3. ASSUME NEW w \in Workers, Busy(w), CommitConfirmation(w)
        PROVE  \A n \in Imports : batch[n].key # None => batch'[n].key = batch[n].key
    BY <1>1, <2>3, ConfirmationWrites
  <2>. QED BY <1>1, <2>1, <2>2, <2>3, StepSeen
<1>2. IInv /\ [Next]_vars =>
        \A i \in Imports :
           /\ batch[i].key # None => batch'[i].key = batch[i].key
           /\ \A j \in JobIds :
                 /\ ~Created(j) /\ job'[j].status # None
                 /\ job'[j].import = i /\ job'[j].kind = "confirm"
                 => \A k \in JobsOf(i) : job[k].kind = "confirm" =>
                       \E f \in JobsOf(i) : job[f].kind = "confirm"
                                            /\ job[f].status = "failed"
  BY <1>1, StepConfirms DEF OnlyRetriesConfirmAgain
<1>. QED
  BY Invariance, <1>2, PTL DEF Spec, OneConfirmationPerKey

-----------------------------------------------------------------------------
(* Who may touch a job *)

\* The states of a job a worker runs, or that was selected as abandoned.
Claimed == {"running", "cancel_requested", "cancelled"}

\* One worker at most runs j, and while it does j can neither be taken up by
\* another nor be done.
Held(j) ==
    /\ \A v, w \in Workers : RunsJob(v, j) /\ RunsJob(w, j) => v = w
    /\ \A w \in Workers : RunsJob(w, j) => job[j].status \in Claimed

\* The inductive strengthening of OneWorkerPerJob.
Exclusive == \A j \in JobIds \ overtaken : Held(j)

-----------------------------------------------------------------------------
(* Steps that start nothing *)

\* No worker takes a job, and what is claimed stays so.
Calm ==
    /\ \A w \in Workers : Busy(w)' => Busy(w) /\ MyJob(w)' = MyJob(w)
    /\ \A j \in JobIds : job[j].status \in Claimed => job'[j].status \in Claimed

LEMMA CalmKeeps ==
    ASSUME Calm, NEW j \in JobIds, Held(j)
    PROVE  Held(j)'
BY DEF Calm, Held, RunsJob, MyJob, Claimed

\* Nobody runs j after the step.
LEMMA IdleHeld ==
    ASSUME NEW j, \A w \in Workers : ~RunsJob(w, j)'
    PROVE  Held(j)'
BY DEF Held

\* An attempt of w ends; no other job changes its status.
Ends(w) ==
    /\ Busy(w) /\ ~Busy(w)'
    /\ \A v \in Workers \ {w} : Busy(v)' => Busy(v) /\ MyJob(v)' = MyJob(v)
    /\ \A j \in JobIds : j # MyJob(w) => job'[j].status = job[j].status

LEMMA EndsKeeps ==
    ASSUME NEW w \in Workers, Ends(w), NEW j \in JobIds, Held(j)
    PROVE  Held(j)'
<1>1. \A v \in Workers : RunsJob(v, j)' => v # w /\ RunsJob(v, j)
  BY DEF Ends, RunsJob, MyJob
<1>2. CASE j = MyJob(w)
  <2>1. RunsJob(w, j)
    BY <1>2 DEF Ends, RunsJob, MyJob
  <2>. QED BY <1>1, <2>1, IdleHeld DEF Held
<1>3. CASE j # MyJob(w)
  <2>1. job'[j].status = job[j].status
    BY <1>3 DEF Ends
  <2>. QED BY <1>1, <2>1 DEF Held, Claimed
<1>. QED BY <1>2, <1>3

-----------------------------------------------------------------------------
(* The actions *)

\* A status written to one job.
LEMMA OneStatusWritten ==
    ASSUME TypeOK, NEW k, NEW st, job' = [job EXCEPT ![k].status = st]
    PROVE  /\ \A j \in JobIds : j # k => job'[j].status = job[j].status
           /\ k \in JobIds => job'[k].status = st
BY DEF TypeOK, Job

LEMMA EnqueueClaims ==
    ASSUME IInv, NEW j, NEW i, NEW kind, EnqueueJob(j, i, kind)
    PROVE  \A k \in JobIds : job[k].status \in Claimed => job'[k].status \in Claimed
BY NoneAssumption DEF EnqueueJob, Created, Claimed, JobStatuses, IInv, TypeOK

LEMMA RequestIsCalm ==
    ASSUME IInv, Request
    PROVE  Calm
<1>. USE DEF IInv
<1>1. worker' = worker
  BY DEF Request, Upload, ValidateImport, ConfirmImport, SetMappingRead,
         CancelRead, RetryRead, SetMappingCommit, CancelCommit, RetryCommit
<1>2. CASE job' = job
  BY <1>1, <1>2 DEF Calm, Busy, MyJob
<1>3. CASE \A k \in JobIds : job[k].status \in Claimed => job'[k].status \in Claimed
  BY <1>1, <1>3 DEF Calm, Busy, MyJob
<1>4. ASSUME NEW s \in Sessions, CancelCommit(s)
      PROVE  Calm
  <2>1. ASSUME NEW j \in JobIds, job' = [job EXCEPT ![j].status = "cancel_requested"]
        PROVE  Calm
    BY <1>3, <2>1, OneStatusWritten DEF Claimed
  <2>. QED BY <1>2, <1>4, <2>1 DEF CancelCommit
<1>5. ASSUME NEW s \in Sessions, RetryCommit(s)
      PROVE  Calm
  BY <1>2, <1>3, <1>5, EnqueueClaims DEF RetryCommit, RetryFailed
<1>6. ASSUME NEW i \in Imports, NEW j \in JobIds,
             ValidateImport(i, j) \/ \E k \in Keys : ConfirmImport(i, k, j)
      PROVE  Calm
  BY <1>3, <1>6, EnqueueClaims DEF ValidateImport, ConfirmImport
<1>7. ASSUME NEW i \in Imports, Upload(i)
      PROVE  Calm
  BY <1>2, <1>7 DEF Upload
<1>8. ASSUME NEW s \in Sessions, NEW i \in Imports,
             \/ \E m \in Mappings : SetMappingRead(s, i, m)
             \/ CancelRead(s, i)
             \/ RetryRead(s, i)
      PROVE  Calm
  BY <1>2, <1>8 DEF SetMappingRead, CancelRead, RetryRead, dbVars
<1>9. ASSUME NEW s \in Sessions, SetMappingCommit(s)
      PROVE  Calm
  BY <1>2, <1>9 DEF SetMappingCommit
<1>. QED
  BY <1>4, <1>5, <1>6, <1>7, <1>8, <1>9 DEF Request

LEMMA TransportIsCalm ==
    ASSUME Transport
    PROVE  Calm
BY DEF Transport, Publish, PublishUnrecorded, LoseBroker, dbVars, Calm, Busy, MyJob

LEMMA SelectIsCalm ==
    ASSUME NEW r \in Reconcilers, NEW running, NEW queued,
           ReconcileSelect(r, running, queued)
    PROVE  Calm
BY DEF ReconcileSelect, dbVars, Calm, Busy, MyJob

\* What a reconciler selected as running is requeued when it commits.
LEMMA CommitRequeues ==
    ASSUME IInv, NEW r \in Reconcilers, ReconcileCommit(r)
    PROVE  recon[r].running \subseteq RequeuedNow
<1>1. recon[r].pc = "selected" /\ recon'[r].pc = "idle"
  BY DEF ReconcileCommit, IdleReconciler, IInv, TypeOK
<1>. QED BY <1>1, Zenon DEF RequeuedNow

\* A requeued job is one nobody runs, or it is overtaken.
LEMMA RequeueKeeps ==
    ASSUME IInv, NEW r \in Reconcilers, ReconcileCommit(r),
           NEW j \in JobIds, Held(j), ~(j \in RequeuedNow /\ TakenUp(j))
    PROVE  Held(j)'
<1>1. /\ worker' = worker
      /\ j \notin recon[r].running => job'[j] = job[j]
  BY DEF ReconcileCommit, IInv, TypeOK
<1>2. CASE j \in recon[r].running
  <2>1. ~TakenUp(j)
    BY <1>2, CommitRequeues
  <2>2. \A w \in Workers : ~RunsJob(w, j)'
    BY <1>1, <2>1 DEF TakenUp, RunsJob, Busy
  <2>. QED BY <2>2, IdleHeld
<1>3. CASE j \notin recon[r].running
  BY <1>1, <1>3 DEF Held, RunsJob, Busy, Claimed
<1>. QED BY <1>2, <1>3

\* A job is started from a state in which nobody holds it.
LEMMA StartKeeps ==
    ASSUME IInv, NEW w \in Workers, NEW m \in Messages,
           Deliver(w, m), StartAttempt(w, m), NEW j \in JobIds, Held(j)
    PROVE  Held(j)'
<1>1. /\ m.job \in JobIds /\ job[m.job].status \notin Claimed
      /\ job'[m.job].status = "running"
      /\ \A k \in JobIds : k # m.job => job'[k].status = job[k].status
  BY DEF StartAttempt, BeginAttempt, Claimed, Messages, IInv, TypeOK, Job
<1>2. /\ worker'[w].msg = m
      /\ \A v \in Workers : v # w => worker'[v] = worker[v]
  BY DEF StartAttempt, BeginAttempt, IdleWorker, IInv, TypeOK, Worker
<1>3. \A v \in Workers : RunsJob(v, j)' =>
         \/ v = w /\ j = m.job
         \/ v # w /\ RunsJob(v, j)
  BY <1>2 DEF RunsJob, Busy
<1>4. CASE j = m.job
  <2>1. \A v \in Workers : ~RunsJob(v, j)
    BY <1>1, <1>4 DEF Held
  <2>. QED BY <1>1, <1>3, <1>4, <2>1 DEF Held, Claimed
<1>5. CASE j # m.job
  BY <1>1, <1>3, <1>5 DEF Held, Claimed
<1>. QED BY <1>4, <1>5

LEMMA DeliverKeeps ==
    ASSUME IInv, NEW w \in Workers, NEW m \in Messages, Deliver(w, m),
           NEW j \in JobIds, Held(j)
    PROVE  Held(j)'
<1>. USE DEF IInv
<1>1. CASE StartAttempt(w, m)
  BY <1>1, StartKeeps
<1>2. CASE IgnoreDelivery(m) \/ CancelOnDelivery(m) \/ ExhaustAttempts(m)
  <2>1. worker' = worker /\ m.job \in JobIds
    BY <1>2 DEF IgnoreDelivery, CancelOnDelivery, ExhaustAttempts, Messages
  <2>2. ASSUME NEW st, job' = [job EXCEPT ![m.job].status = st],
               job[m.job].status \in Claimed => st \in Claimed
        PROVE  \A k \in JobIds : job[k].status \in Claimed => job'[k].status \in Claimed
    BY <2>1, <2>2, OneStatusWritten
  <2>3. \A k \in JobIds : job[k].status \in Claimed => job'[k].status \in Claimed
    BY <1>2, <2>2 DEF IgnoreDelivery, CancelOnDelivery, ExhaustAttempts, Claimed
  <2>. QED BY <2>1, <2>3, CalmKeeps DEF Calm, Busy, MyJob
<1>. QED BY <1>1, <1>2 DEF Deliver

LEMMA ReleaseEnds ==
    ASSUME IInv, NEW w \in Workers, Busy(w), Release(w),
           NEW st, job' = [job EXCEPT ![MyJob(w)].status = st]
    PROVE  Ends(w)
<1>1. ~Busy(w)' /\ \A v \in Workers : v # w => worker'[v] = worker[v]
  BY DEF Release, Busy, IdleWorker, IInv, TypeOK
<1>2. \A j \in JobIds : j # MyJob(w) => job'[j].status = job[j].status
  BY OneStatusWritten DEF IInv
<1>. QED BY <1>1, <1>2 DEF Ends, Busy, MyJob

\* A worker goes on with the job it has, loses it, or ends it.
LEMMA WorkerStepKeeps ==
    ASSUME IInv, NEW w \in Workers, WorkerStep(w)
    PROVE  Calm \/ Ends(w)
<1>. USE DEF IInv
<1>1. CASE BeginValidation(w) \/ FetchUpload(w) \/ (Classify(w) /\ PutReports(w))
  <2>1. job' = job /\ Busy(w)
    BY <1>1 DEF BeginValidation, FetchUpload, Classify, PutReports, Busy, dbVars
  <2>2. \A v \in Workers : worker'[v].msg = worker[v].msg /\ (v # w => worker'[v] = worker[v])
    BY <1>1 DEF BeginValidation, FetchUpload, Classify, PutReports, TypeOK, Worker
  <2>. QED BY <2>1, <2>2 DEF Calm, Busy, MyJob
<1>2. CASE Crash(w)
  <2>1. /\ job' = job /\ ~Busy(w)'
        /\ \A v \in Workers : v # w => worker'[v] = worker[v]
    BY <1>2 DEF Crash, Release, Busy, IdleWorker, TypeOK, dbVars
  <2>. QED BY <2>1 DEF Calm, Busy, MyJob
<1>3. CASE CommitValidation(w)
  <2>1. job' = [job EXCEPT ![MyJob(w)].status = "succeeded"] /\ Busy(w)
    BY <1>3 DEF CommitValidation, Succeed, Busy
  <2>2. /\ worker'[w] = IdleWorker
        /\ \A v \in Workers : v # w => /\ worker'[v].pc = worker[v].pc
                                       /\ worker'[v].msg = worker[v].msg
    BY <1>3 DEF CommitValidation, MakeOthersStale, TypeOK, Worker
  <2>3. \A j \in JobIds : j # MyJob(w) => job'[j].status = job[j].status
    BY <2>1, OneStatusWritten
  <2>. QED BY <2>1, <2>2, <2>3 DEF Ends, Busy, MyJob, IdleWorker
<1>4. CASE CancelAttempt(w) /\ (Classify(w) \/ RunConfirmation(w))
  BY <1>4, ReleaseEnds DEF CancelAttempt, Classify, RunConfirmation, Busy
<1>5. CASE RunConfirmation(w) /\ ~CancelAttempt(w)
  <2>1. Release(w) /\ Succeed(w) /\ Busy(w)
    BY <1>5 DEF RunConfirmation, AlreadyCompleted, CommitConfirmation, Busy
  <2>. QED BY <2>1, ReleaseEnds DEF Succeed
<1>6. CASE FailAttempt(w)
  BY <1>6, ReleaseEnds DEF FailAttempt
<1>. QED
  BY <1>1, <1>2, <1>3, <1>4, <1>5, <1>6 DEF WorkerStep, Classify

LEMMA HeldStep ==
    ASSUME IInv, [Next]_vars, NEW j \in JobIds, Held(j),
           ~(j \in RequeuedNow /\ TakenUp(j))
    PROVE  Held(j)'
<1>1. CASE Request
  BY <1>1, RequestIsCalm, CalmKeeps
<1>2. CASE Transport
  BY <1>2, TransportIsCalm, CalmKeeps
<1>3. CASE Reconcile
  BY <1>3, SelectIsCalm, CalmKeeps, RequeueKeeps DEF Reconcile
<1>4. CASE Work
  BY <1>4, DeliverKeeps, WorkerStepKeeps, CalmKeeps, EndsKeeps DEF Work
<1>5. CASE UNCHANGED vars
  BY <1>5, CalmKeeps DEF vars, Calm, Busy, MyJob
<1>. QED
  BY <1>1, <1>2, <1>3, <1>4, <1>5 DEF Next

-----------------------------------------------------------------------------
(* The theorems *)

\* The history variable restricts nothing.
LEMMA HistoryIsSpec == HistorySpec => Spec
<1>1. HistoryInit => Init
  BY DEF HistoryInit
<1>2. [HistoryNext]_historyVars => [Next]_vars
  BY DEF HistoryNext, historyVars
<1>. QED BY <1>1, <1>2, PTL DEF HistorySpec, Spec

LEMMA ExclusiveInit == HistoryInit => Exclusive
BY DEF HistoryInit, Init, Exclusive, Held, RunsJob, Busy, IdleWorker

LEMMA ExclusiveStep ==
    ASSUME IInv, Exclusive, [HistoryNext]_historyVars
    PROVE  Exclusive'
<1>1. [Next]_vars
  BY DEF HistoryNext, historyVars
<1>2. SUFFICES ASSUME NEW j \in JobIds, j \notin overtaken'
               PROVE  Held(j)'
  BY DEF Exclusive
<1>3. CASE HistoryNext
  <2>1. j \notin overtaken /\ ~(j \in RequeuedNow /\ TakenUp(j))
    BY <1>2, <1>3 DEF HistoryNext
  <2>. QED BY <1>1, <2>1, HeldStep DEF Exclusive
<1>4. CASE UNCHANGED historyVars
  <2>1. Calm /\ j \notin overtaken
    BY <1>2, <1>4 DEF historyVars, vars, Calm, Busy, MyJob
  <2>. QED BY <2>1, CalmKeeps DEF Exclusive
<1>. QED BY <1>3, <1>4

\* For any number of workers and of overlapping reconcilers, two workers run
\* one job only if a reconciler put it back to queued after it was taken up.
THEOREM JobsHaveOneWorker == HistorySpec => []OneWorkerPerJob
<1>1. ASSUME IInv, Exclusive PROVE OneWorkerPerJob
  <2>1. \A w \in Workers : Busy(w) => MyJob(w) \in JobIds /\ RunsJob(w, MyJob(w))
    BY <1>1, RunningJob DEF IInv, RunsJob, MyJob
  <2>. QED BY <1>1, <2>1 DEF Exclusive, Held, OneWorkerPerJob
<1>2. IInv /\ Exclusive /\ [HistoryNext]_historyVars => Exclusive'
  BY ExclusiveStep
<1>3. IInv /\ Exclusive => OneWorkerPerJob
  BY <1>1
<1>. QED
  BY Invariance, HistoryIsSpec, ExclusiveInit, <1>2, <1>3, PTL DEF HistorySpec

\* A job that nobody runs leaves a cancellation only for its outcome, and a
\* success not at all, but by the write of a reconciler that selected it as
\* running.
LEMMA HeldJobStays ==
    ASSUME IInv, [Next]_vars, NEW j \in JobIds,
           job[j].status \in {"cancel_requested", "cancelled", "succeeded"},
           \A w \in Workers : ~RunsJob(w, j)
    PROVE  \/ job'[j].status = job[j].status
           \/ job[j].status # "succeeded" /\ job'[j].status = "cancelled"
           \/ \E r \in Reconcilers : ReconcileCommit(r) /\ j \in recon[r].running
<1>. USE DEF IInv
<1>1. Created(j)
  BY NoneAssumption DEF Created, JobStatuses
<1>2. \A k, i, kind : EnqueueJob(k, i, kind) => job'[j] = job[j]
  BY <1>1 DEF EnqueueJob, TypeOK
<1>3. CASE Request
  <2>1. ASSUME NEW s \in Sessions, CancelCommit(s)
        PROVE  job'[j].status = job[j].status
    <3>1. job' = job \/ \E k \in JobIds :
                          /\ job[k].status \in {"queued", "running"}
                          /\ job' = [job EXCEPT ![k].status = "cancel_requested"]
      BY <2>1 DEF CancelCommit, IsNewest, JobsOf, Cancellable
    <3>2. ASSUME NEW k \in JobIds, job[k].status \in {"queued", "running"},
                 job' = [job EXCEPT ![k].status = "cancel_requested"]
          PROVE  job'[j].status = job[j].status
      <4>1. k # j
        BY <3>2
      <4>. QED BY <3>2, <4>1, OneStatusWritten
    <3>. QED BY <3>1, <3>2
  <2>2. ASSUME NEW s \in Sessions, RetryCommit(s)
        PROVE  job'[j] = job[j]
    BY <1>2, <2>2 DEF RetryCommit, RetryFailed
  <2>. QED BY <1>2, <1>3, <2>1, <2>2
           DEF Request, Upload, ValidateImport, ConfirmImport, SetMappingRead,
               CancelRead, RetryRead, SetMappingCommit, dbVars
<1>4. CASE Transport \/ \E r \in Reconcilers, running, queued \in SUBSET JobIds :
                            ReconcileSelect(r, running, queued)
  BY <1>4 DEF Transport, Publish, PublishUnrecorded, LoseBroker, ReconcileSelect,
              dbVars
<1>8. ASSUME NEW r \in Reconcilers, ReconcileCommit(r), j \notin recon[r].running
      PROVE  job'[j].status = job[j].status
  BY <1>8 DEF ReconcileCommit, TypeOK
<1>5. ASSUME NEW w \in Workers, NEW m \in Messages, Deliver(w, m)
      PROVE  \/ job'[j].status = job[j].status
             \/ job[j].status # "succeeded" /\ job'[j].status = "cancelled"
  <2>1. CASE CancelOnDelivery(m) \/ ExhaustAttempts(m)
    <3>1. ASSUME NEW st, job' = [job EXCEPT ![m.job].status = st]
          PROVE  IF m.job = j THEN job'[j].status = st ELSE job'[j].status = job[j].status
      BY <3>1, OneStatusWritten, ZenonT(30)
    <3>. QED BY <2>1, <3>1 DEF CancelOnDelivery, ExhaustAttempts
  <2>2. CASE StartAttempt(w, m)
    <3>1. m.job \in JobIds /\ m.job # j
      BY <2>2 DEF StartAttempt, Messages
    <3>. QED BY <2>2, <3>1 DEF StartAttempt, BeginAttempt, TypeOK
  <2>. QED BY <1>5, <2>1, <2>2 DEF Deliver, IgnoreDelivery
<1>6. ASSUME NEW w \in Workers, WorkerStep(w)
      PROVE  job'[j].status = job[j].status
  <2>1. Busy(w) /\ j # MyJob(w)
    BY <1>6 DEF WorkerStep, BeginValidation, FetchUpload, Classify, CommitValidation,
                RunConfirmation, FailAttempt, Crash, Busy, RunsJob, MyJob
  <2>2. job' = job \/ \E st : job' = [job EXCEPT ![MyJob(w)].status = st]
    BY <1>6 DEF WorkerStep, BeginValidation, FetchUpload, Classify, PutReports,
                CancelAttempt, CommitValidation, RunConfirmation, AlreadyCompleted,
                CommitConfirmation, Succeed, FailAttempt, Crash, dbVars
  <2>3. ASSUME NEW st, job' = [job EXCEPT ![MyJob(w)].status = st]
        PROVE  job'[j].status = job[j].status
    BY <2>1, <2>3, OneStatusWritten
  <2>. QED BY <2>2, <2>3
<1>7. CASE UNCHANGED vars
  BY <1>7 DEF vars
<1>. QED
  BY <1>3, <1>4, <1>5, <1>6, <1>7, <1>8 DEF Next, Work, Reconcile

\* A cancellation accepted while nobody runs the job is never overridden: no
\* delivery, retry or reconciliation starts the job after it.
THEOREM CancellationsWin == Spec => CancellationWins
<1>1. IInv /\ [Next]_vars =>
        \A j \in JobIds :
            /\ job[j].status \in {"cancel_requested", "cancelled"}
            /\ \A w \in Workers : ~RunsJob(w, j)
            /\ \A r \in Reconcilers : j \notin recon[r].running
            => job'[j].status \in {job[j].status, "cancelled"}
  BY HeldJobStays
<1>. QED
  BY Invariance, <1>1, PTL DEF Spec, CancellationWins

\* A success is lost only to a reconciler that had selected the job before, or
\* to the second worker such a write brought about earlier.
THEOREM SuccessIsFinal == HistorySpec => SucceededIsFinal
<1>1. ASSUME IInv, Exclusive, HistoryNext, NEW j \in JobIds,
             job[j].status = "succeeded", j \notin overtaken'
      PROVE  job'[j].status = "succeeded"
  <2>1. j \notin overtaken /\ ~(j \in RequeuedNow /\ TakenUp(j))
    BY <1>1 DEF HistoryNext
  <2>2. \A w \in Workers : ~RunsJob(w, j)
    BY <1>1, <2>1 DEF Exclusive, Held, Claimed
  <2>3. \A r \in Reconcilers : ReconcileCommit(r) => j \notin recon[r].running
    BY <1>1, <2>1, CommitRequeues DEF TakenUp
  <2>. QED BY <1>1, <2>2, <2>3, HeldJobStays DEF HistoryNext
<1>2. IInv /\ Exclusive /\ [HistoryNext]_historyVars =>
        [\A j \in JobIds : job[j].status = "succeeded" =>
            job'[j].status = "succeeded" \/ j \in overtaken']_historyVars
  BY <1>1
<1>3. IInv /\ Exclusive /\ [HistoryNext]_historyVars => Exclusive'
  BY ExclusiveStep
<1>. QED
  BY Invariance, HistoryIsSpec, ExclusiveInit, <1>2, <1>3, PTL
  DEF HistorySpec, SucceededIsFinal

-----------------------------------------------------------------------------
(* What the state of an import promises *)

(* Writes of one column *)

LEMMA OneImportWritten ==
    ASSUME TypeOK, NEW i \in Imports, NEW st, batch' = [batch EXCEPT ![i].status = st]
    PROVE  \A k \in Imports : /\ batch'[k].started = batch[k].started
                              /\ k # i => batch'[k].status = batch[k].status
                              /\ k = i => batch'[k].status = st
BY DEF TypeOK, Batch

LEMMA OneJobWritten ==
    ASSUME TypeOK, NEW j, NEW st, job' = [job EXCEPT ![j].status = st]
    PROVE  \A k \in JobIds : /\ job'[k].import = job[k].import
                             /\ job'[k].kind = job[k].kind
                             /\ k # j => job'[k].status = job[k].status
                             /\ k = j => job'[k].status = st
BY DEF TypeOK, Job

\* Jobs that exist keep their import and kind; one that does not yet is new.
LEMMA OneJobAdded ==
    ASSUME IInv, NEW j \in JobIds, NEW i \in Imports, NEW kind \in JobKinds,
           EnqueueJob(j, i, kind)
    PROVE  /\ \A k \in JobIds : k # j => job'[k] = job[k]
           /\ ~Created(j)
           /\ job'[j].import = i /\ job'[j].kind = kind
<1>. DEFINE new == [status |-> "queued", import |-> i, kind |-> kind,
                    attempts |-> 0]
<1>1. /\ \A k \in JobIds : k # j => job'[k] = job[k]
      /\ ~Created(j) /\ job'[j] = new
  BY EnqueueJobTyped DEF IInv
<1>2. new.import = i /\ new.kind = kind
  OBVIOUS
<1>. HIDE DEF new
<1>. QED BY <1>1, <1>2

\* What a retry queues again and leaves in the import.
LEMMA RetryAdds ==
    ASSUME IInv, NEW s \in Sessions, RetryCommit(s)
    PROVE  \/ UNCHANGED <<batch, job>>
           \/ \E failed, j \in JobIds :
                 /\ Created(failed) /\ ~Created(j)
                 /\ job[failed].import \in Imports
                 /\ \A k \in JobIds : k # j => job'[k] = job[k]
                 /\ job'[j].import = job[failed].import
                 /\ job'[j].kind = job[failed].kind
                 /\ \A k \in Imports : k # job[failed].import => batch'[k] = batch[k]
                 /\ batch'[job[failed].import].status \in
                       {batch[job[failed].import].status,
                        RetryStatus(job[failed].kind)}
<1>. USE DEF IInv
<1>. DEFINE i == session[s].import
<1>1. i \in Imports
  BY DEF RetryCommit, Consistent, SessionsNameImports
<1>2. CASE UNCHANGED <<batch, job, outbox>>
  BY <1>2
<1>3. ASSUME NEW failed \in JobIds, NEW j \in JobIds, RetryFailed(s, i, failed, j)
      PROVE  /\ Created(failed) /\ ~Created(j)
             /\ job[failed].import = i
             /\ \A k \in JobIds : k # j => job'[k] = job[k]
             /\ job'[j].import = i
             /\ job'[j].kind = job[failed].kind
             /\ \A k \in Imports : k # i => batch'[k] = batch[k]
             /\ batch'[i].status \in {batch[i].status, RetryStatus(job[failed].kind)}
  <2>. DEFINE st == Flushed(session[s].status, RetryStatus(job[failed].kind),
                            batch[i].status)
  <2>1. Created(failed) /\ job[failed].import = i
        /\ EnqueueJob(j, i, job[failed].kind)
        /\ batch' = [batch EXCEPT ![i].status = st]
    BY <1>3 DEF RetryFailed, IsNewest, JobsOf
  <2>2. job[failed].kind \in JobKinds
    BY <2>1, CreatedJob
  <2>3. st \in {batch[i].status, RetryStatus(job[failed].kind)}
    BY DEF Flushed
  <2>. HIDE DEF i, st
  <2>4. batch'[i].status = st /\ \A k \in Imports : k # i => batch'[k] = batch[k]
    BY <1>1, <2>1 DEF TypeOK, Batch
  <2>. QED BY <1>1, <2>1, <2>2, <2>3, <2>4, OneJobAdded
<1>. HIDE DEF i
<1>. QED BY <1>1, <1>2, <1>3 DEF RetryCommit, i

-----------------------------------------------------------------------------
(* Failed imports *)

Live == {"failed", "queued", "running", "cancel_requested"}

\* No import fails, and no job comes to an outcome but failure.
NothingEnds ==
    /\ \A i \in Imports :
          batch'[i].status = "failed" => batch[i].status = "failed"
    /\ \A j \in JobIds : Created(j) /\ job[j].status \in Live =>
          job'[j].import = job[j].import /\ job'[j].status \in Live

\* Whatever becomes of i's jobs, i is not left as failed and unstarted; the
\* other imports and their jobs stay as they are.
EndsFor(i) ==
    /\ i \in Imports
    /\ batch'[i].status = "failed" => batch[i].started
    /\ \A k \in Imports : k # i => batch'[k].status = batch[k].status
    /\ \A j \in JobIds : Created(j) /\ job[j].import # i =>
          job'[j].import = job[j].import /\ job'[j].status = job[j].status

LEMMA LiveStays ==
    ASSUME IInv, FailedImportIsRetryable, [Next]_vars, NEW i \in Imports,
           batch[i].status = "failed", ~batch'[i].started,
           \A j \in JobsOf(i) : job[j].status \in Live =>
              job'[j].import = i /\ job'[j].status \in Live
    PROVE  (\E j \in JobsOf(i) : job[j].status \in Live)'
<1>1. ~batch[i].started
  BY DirectoryGrows
<1>2. PICK j \in JobsOf(i) : job[j].status \in Live
  BY <1>1 DEF FailedImportIsRetryable, Live
<1>3. j \in JobIds /\ job'[j].import = i /\ job'[j].status \in Live
  BY <1>2 DEF JobsOf
<1>4. job'[j].status # None
  BY <1>3, NoneAssumption DEF Live, JobStatuses
<1>. QED BY <1>3, <1>4 DEF JobsOf, Created, Live

LEMMA NothingEndsKeeps ==
    ASSUME IInv, FailedImportIsRetryable, [Next]_vars, NothingEnds
    PROVE  FailedImportIsRetryable'
<1>1. SUFFICES ASSUME NEW i \in Imports, batch'[i].status = "failed", ~batch'[i].started
               PROVE  (\E j \in JobsOf(i) : job[j].status \in Live)'
  BY DEF FailedImportIsRetryable, Live
<1>. QED BY <1>1, LiveStays DEF NothingEnds, JobsOf

LEMMA EndsForKeeps ==
    ASSUME IInv, FailedImportIsRetryable, [Next]_vars, NEW i, EndsFor(i)
    PROVE  FailedImportIsRetryable'
<1>1. SUFFICES ASSUME NEW k \in Imports, batch'[k].status = "failed", ~batch'[k].started
               PROVE  (\E j \in JobsOf(k) : job[j].status \in Live)'
  BY DEF FailedImportIsRetryable, Live
<1>2. k # i
  BY <1>1, DirectoryGrows DEF EndsFor
<1>. QED BY <1>1, <1>2, LiveStays DEF EndsFor, JobsOf

LEMMA RequestEndsNothing ==
    ASSUME IInv, Request
    PROVE  NothingEnds
<1>. USE DEF IInv
<1>1. ASSUME NEW i \in Imports, Upload(i)
      PROVE  NothingEnds
  BY <1>1, OneImportWritten DEF Upload, NothingEnds
<1>2. ASSUME NEW i \in Imports, NEW j \in JobIds, ValidateImport(i, j)
      PROVE  NothingEnds
  <2>1. \A k \in JobIds : k # j => job'[k] = job[k]
    BY <1>2, OneJobAdded DEF ValidateImport, JobKinds
  <2>. QED BY <1>2, <2>1, OneImportWritten
           DEF ValidateImport, EnqueueJob, NothingEnds
<1>3. ASSUME NEW i \in Imports, NEW k \in Keys, NEW j \in JobIds, ConfirmImport(i, k, j)
      PROVE  NothingEnds
  <2>1. \A n \in JobIds : n # j => job'[n] = job[n]
    BY <1>3, OneJobAdded DEF ConfirmImport, JobKinds
  <2>2. \A n \in Imports : batch'[n].status = batch[n].status
    BY <1>3 DEF ConfirmImport, TypeOK, Batch
  <2>. QED BY <1>3, <2>1, <2>2 DEF ConfirmImport, EnqueueJob, NothingEnds
<1>4. ASSUME NEW s \in Sessions, SetMappingCommit(s)
      PROVE  NothingEnds
  <2>. DEFINE i == session[s].import
              m == Flushed(session[s].loaded, session[s].mapping, batch[i].mapping)
              st == Flushed(session[s].status, "mapped", batch[i].status)
  <2>1. batch' = [batch EXCEPT ![i].mapping = m, ![i].status = st] /\ job' = job
    BY <1>4 DEF SetMappingCommit
  <2>2. st = "failed" => batch[i].status = "failed"
    BY DEF Flushed
  <2>. HIDE DEF m, st
  <2>. QED BY <2>1, <2>2 DEF NothingEnds, TypeOK, Batch
<1>5. ASSUME NEW s \in Sessions, CancelCommit(s)
      PROVE  NothingEnds
  <2>1. ASSUME NEW j \in JobIds, job' = [job EXCEPT ![j].status = "cancel_requested"]
        PROVE  NothingEnds
    BY <1>5, <2>1, OneJobWritten DEF CancelCommit, NothingEnds, Live
  <2>. QED BY <1>5, <2>1 DEF CancelCommit, NothingEnds
<1>6. ASSUME NEW s \in Sessions, RetryCommit(s)
      PROVE  NothingEnds
  <2>1. \A kind : RetryStatus(kind) # "failed"
    BY DEF RetryStatus
  <2>. QED BY <1>6, <2>1, RetryAdds DEF NothingEnds
<1>7. CASE UNCHANGED <<batch, job>>
  BY <1>7 DEF NothingEnds
<1>. QED
  BY <1>1, <1>2, <1>3, <1>4, <1>5, <1>6, <1>7
  DEF Request, SetMappingRead, CancelRead, RetryRead, dbVars

LEMMA WorkerEnds ==
    ASSUME IInv, NEW w \in Workers, Busy(w), NEW st,
           job' = [job EXCEPT ![MyJob(w)].status = st],
           batch'[MyImport(w)].status # "failed",
           \A k \in Imports : k # MyImport(w) => batch'[k].status = batch[k].status
    PROVE  EndsFor(MyImport(w))
BY RunningJob, OneJobWritten DEF IInv, EndsFor, MyImport

LEMMA WorkKeepsRetryable ==
    ASSUME IInv, FailedImportIsRetryable, [Next]_vars, NEW w \in Workers,
           WorkerStep(w) \/ \E m \in Messages : Deliver(w, m)
    PROVE  FailedImportIsRetryable'
<1>. USE DEF IInv
<1>1. Busy(w) => MyImport(w) \in Imports /\ MyJob(w) \in JobIds /\ Created(MyJob(w))
  BY RunningJob
<1>2. CASE NothingEnds
  BY <1>2, NothingEndsKeeps
<1>3. ASSUME NEW m \in Messages, Deliver(w, m)
      PROVE  FailedImportIsRetryable'
  <2>1. m.job \in JobIds /\ Created(m.job) /\ job[m.job].import \in Imports
    BY <1>3, CreatedJob DEF Deliver, Consistent, MessagesNameJobs, Messages
  <2>2. CASE CancelOnDelivery(m)
    <3>. DEFINE i == job[m.job].import
                st == IF batch[i].started THEN batch[i].status ELSE "cancelled"
    <3>1. /\ batch' = [batch EXCEPT ![i].status = st]
          /\ job' = [job EXCEPT ![m.job].status = "cancelled"]
          /\ st = "failed" => batch[i].started
      BY <2>2 DEF CancelOnDelivery
    <3>2. i \in Imports /\ \A j \in JobIds : job[j].import # i => j # m.job
      BY <2>1
    <3>. HIDE DEF i, st
    <3>3. /\ batch'[i].status = st
          /\ \A k \in Imports : k # i => batch'[k].status = batch[k].status
      BY <3>1, <3>2 DEF TypeOK, Batch
    <3>4. \A j \in JobIds : j # m.job =>
             job'[j].import = job[j].import /\ job'[j].status = job[j].status
      BY <3>1, OneJobWritten
    <3>5. EndsFor(i)
      BY <3>1, <3>2, <3>3, <3>4 DEF EndsFor
    <3>. QED BY <3>5, EndsForKeeps
  <2>3. CASE IgnoreDelivery(m)
    BY <1>2, <2>3 DEF IgnoreDelivery, NothingEnds
  <2>4. CASE ExhaustAttempts(m)
    BY <1>2, <2>4, OneJobWritten DEF ExhaustAttempts, NothingEnds, Live
  <2>5. CASE StartAttempt(w, m)
    <3>1. \A k \in JobIds : job'[k].import = job[k].import
                            /\ job'[k].status \in {job[k].status, "running"}
      BY <2>5 DEF StartAttempt, BeginAttempt, TypeOK, Job
    <3>. QED BY <1>2, <2>5, <3>1 DEF StartAttempt, BeginAttempt, NothingEnds, Live
  <2>. QED BY <1>3, <2>2, <2>3, <2>4, <2>5 DEF Deliver
<1>4. CASE BeginValidation(w)
  BY <1>2, <1>4, OneImportWritten DEF BeginValidation, NothingEnds
<1>5. CASE UNCHANGED <<batch, job>>
  BY <1>2, <1>5 DEF NothingEnds
<1>6. CASE Busy(w) /\ CancelAttempt(w)
  <2>1. /\ batch' = [batch EXCEPT ![MyImport(w)].status = "cancelled"]
        /\ job' = [job EXCEPT ![MyJob(w)].status = "cancelled"]
    BY <1>6 DEF CancelAttempt
  <2>2. /\ batch'[MyImport(w)].status = "cancelled"
        /\ \A k \in Imports : k # MyImport(w) => batch'[k].status = batch[k].status
    BY <1>1, <1>6, <2>1, OneImportWritten, ZenonT(30)
  <2>3. EndsFor(MyImport(w))
    BY <1>6, <2>1, <2>2, WorkerEnds
  <2>. QED BY <2>3, EndsForKeeps
<1>7. CASE CommitValidation(w)
  <2>. DEFINE i == MyImport(w)
              rows == worker[w].rows
  <2>1. /\ batch' = [batch EXCEPT ![i].status = "validated", ![i].accepted = rows]
        /\ Busy(w) /\ job' = [job EXCEPT ![MyJob(w)].status = "succeeded"]
    BY <1>7 DEF CommitValidation, Succeed, Busy
  <2>. HIDE DEF i, rows
  <2>2. i \in Imports
    BY <1>1, <2>1 DEF i
  <2>3. batch'[i].status # "failed"
        /\ \A k \in Imports : k # i => batch'[k].status = batch[k].status
    BY <2>1, <2>2 DEF TypeOK, Batch
  <2>. QED BY <2>1, <2>3, WorkerEnds, EndsForKeeps DEF i
<1>8. CASE Busy(w) /\ AlreadyCompleted(w)
  BY <1>8, WorkerEnds, EndsForKeeps DEF AlreadyCompleted, Succeed
<1>9. CASE Busy(w) /\ CommitConfirmation(w)
  <2>1. /\ batch'[MyImport(w)].status # "failed"
        /\ \A k \in Imports : k # MyImport(w) => batch'[k].status = batch[k].status
    BY <1>9, ConfirmationWrites
  <2>2. job' = [job EXCEPT ![MyJob(w)].status = "succeeded"]
    BY <1>9 DEF CommitConfirmation, Succeed
  <2>. QED BY <1>9, <2>1, <2>2, WorkerEnds, EndsForKeeps
<1>10. CASE FailAttempt(w)
  <2>1. /\ job' = [job EXCEPT ![MyJob(w)].status = "failed"]
        /\ batch' = [batch EXCEPT ![MyImport(w)].status = "failed"]
        /\ Busy(w)
    BY <1>10 DEF FailAttempt
  <2>2. SUFFICES ASSUME NEW i \in Imports, batch'[i].status = "failed",
                        ~batch'[i].started
                 PROVE  (\E j \in JobsOf(i) : job[j].status \in Live)'
    BY DEF FailedImportIsRetryable, Live
  <2>3. CASE i = MyImport(w)
    <3>1. job'[MyJob(w)].import = i /\ job'[MyJob(w)].status = "failed"
      BY <1>1, <2>1, <2>3, OneJobWritten DEF MyImport
    <3>. QED BY <1>1, <2>1, <3>1, NoneAssumption
             DEF JobsOf, Created, Live, JobStatuses
  <2>4. CASE i # MyImport(w)
    <3>1. batch[i].status = "failed"
      BY <2>1, <2>2, <2>4, OneImportWritten
    <3>2. \A j \in JobsOf(i) : job'[j].import = i /\ job'[j].status = job[j].status
      BY <2>1, <2>4, OneJobWritten DEF JobsOf, MyImport
    <3>. QED BY <2>2, <3>1, <3>2, LiveStays
  <2>. QED BY <2>3, <2>4
<1>. QED
  BY <1>3, <1>4, <1>5, <1>6, <1>7, <1>8, <1>9, <1>10
  DEF WorkerStep, FetchUpload, Classify, PutReports, RunConfirmation, Crash, dbVars, Busy

\* The retry the screen offers for an import that failed before its
\* confirmation began always finds a job to repeat, or one still on its way.
THEOREM FailuresCanBeRetried == Spec => []FailedImportIsRetryable
<1>1. Init => FailedImportIsRetryable
  BY NoneAssumption DEF Init, NoBatch, BatchStatuses, FailedImportIsRetryable
<1>2. ASSUME IInv, FailedImportIsRetryable, [Next]_vars
      PROVE  FailedImportIsRetryable'
  <2>1. CASE Request
    BY <1>2, <2>1, RequestEndsNothing, NothingEndsKeeps
  <2>2. CASE Transport \/ UNCHANGED vars
    <3>1. UNCHANGED <<batch, job>>
      BY <2>2 DEF Transport, Publish, PublishUnrecorded, LoseBroker, dbVars, vars
    <3>. QED BY <1>2, <3>1, NothingEndsKeeps DEF NothingEnds
  <2>3. CASE Reconcile
    <3>1. /\ batch' = batch
          /\ \A j \in JobIds : job'[j].import = job[j].import
                               /\ job'[j].status \in {job[j].status, "queued"}
      BY <1>2, <2>3 DEF Reconcile, ReconcileSelect, ReconcileCommit, dbVars,
                        IInv, TypeOK, Job
    <3>2. NothingEnds
      BY <3>1 DEF NothingEnds, Live
    <3>. QED BY <1>2, <3>2, NothingEndsKeeps
  <2>4. CASE Work
    BY <1>2, <2>4, WorkKeepsRetryable DEF Work
  <2>. QED BY <1>2, <2>1, <2>2, <2>3, <2>4 DEF Next
<1>. QED
  BY Invariance, <1>1, <1>2, PTL DEF Spec

-----------------------------------------------------------------------------
(* Reports *)

Downloadable == {"validated", "completed"}

\* The state of i offers its report, or a step may yet put i in such a state: a
\* worker about to commit its validation, or a retry of its confirmation.
Reportable(i) ==
    \/ batch[i].status \in Downloadable
    \/ \E j \in JobIds : job[j].kind = "confirm" /\ job[j].import = i
    \/ \E w \in Workers : worker[w].pc = "commit" /\ MyImport(w) = i

\* The inductive strengthening of DownloadableReportExists.
ReportsStored == \A i \in Imports : Reportable(i) => report[i] # None

JobsNamed ==
    \A j \in JobIds : job'[j].import = job[j].import /\ job'[j].kind = job[j].kind

\* No worker comes to the commit of a validation.
NoNewCommit ==
    \A w \in Workers : worker'[w].pc = "commit" =>
        worker[w].pc = "commit" /\ worker'[w].msg = worker[w].msg

\* A step that stores no report makes no other import reportable.
LEMMA ReportsStay ==
    ASSUME IInv, ReportsStored, report' = report, NoNewCommit,
           \A i \in Imports : batch'[i].status \in Downloadable => Reportable(i),
           \A j \in JobIds : job'[j].kind = "confirm" => Reportable(job'[j].import),
           \A j \in JobIds : Created(j) => job'[j].import = job[j].import
    PROVE  ReportsStored'
<1>1. ASSUME NEW w \in Workers, worker'[w].pc = "commit"
      PROVE  worker[w].pc = "commit" /\ MyImport(w)' = MyImport(w)
  <2>1. worker[w].pc = "commit" /\ MyJob(w)' = MyJob(w) /\ Busy(w)
    BY <1>1 DEF NoNewCommit, MyJob, Busy
  <2>. QED BY <2>1, RunningJob DEF IInv, MyImport
<1>2. ASSUME NEW i \in Imports, Reportable(i)'
      PROVE  Reportable(i)
  BY <1>1, <1>2 DEF Reportable
<1>. QED BY <1>2 DEF ReportsStored

LEMMA NamedReportsStay ==
    ASSUME IInv, ReportsStored, report' = report, NoNewCommit, JobsNamed,
           \A i \in Imports : batch'[i].status \in Downloadable => Reportable(i)
    PROVE  ReportsStored'
<1>1. \A j \in JobIds : job'[j].kind = "confirm" => Reportable(job'[j].import)
  BY DEF JobsNamed, Reportable
<1>. QED BY <1>1, ReportsStay DEF JobsNamed

LEMMA RequestReports ==
    ASSUME IInv, ReportsStored, Request
    PROVE  ReportsStored'
<1>. USE DEF IInv
<1>1. report' = report /\ NoNewCommit
  BY DEF Request, Upload, ValidateImport, ConfirmImport, SetMappingRead,
         CancelRead, RetryRead, SetMappingCommit, CancelCommit, RetryCommit, NoNewCommit
<1>2. ASSUME JobsNamed,
             \A i \in Imports : batch'[i].status \in Downloadable =>
                batch[i].status \in Downloadable
      PROVE  ReportsStored'
  BY <1>1, <1>2, NamedReportsStay DEF Reportable
<1>3. ASSUME NEW i \in Imports, Upload(i)
      PROVE  ReportsStored'
  BY <1>2, <1>3, OneImportWritten DEF Upload, JobsNamed, Downloadable
<1>4. ASSUME NEW i \in Imports, NEW j \in JobIds, ValidateImport(i, j)
      PROVE  ReportsStored'
  <2>1. /\ \A k \in JobIds : k # j => job'[k] = job[k]
        /\ ~Created(j) /\ job'[j].kind = "validate"
    BY <1>4, OneJobAdded DEF ValidateImport, JobKinds
  <2>2. \A k \in Imports : batch'[k].status \in Downloadable => Reportable(k)
    BY <1>4, OneImportWritten DEF ValidateImport, Downloadable, Reportable
  <2>. QED BY <1>1, <2>1, <2>2, ReportsStay DEF Reportable
<1>5. ASSUME NEW i \in Imports, NEW k \in Keys, NEW j \in JobIds, ConfirmImport(i, k, j)
      PROVE  ReportsStored'
  <2>1. /\ \A n \in JobIds : n # j => job'[n] = job[n]
        /\ ~Created(j) /\ job'[j].import = i
    BY <1>5, OneJobAdded DEF ConfirmImport, JobKinds
  <2>2. Reportable(i) /\ \A n \in Imports : batch'[n].status = batch[n].status
    BY <1>5 DEF ConfirmImport, TypeOK, Batch, Reportable, Downloadable
  <2>. QED BY <1>1, <2>1, <2>2, ReportsStay DEF Reportable
<1>6. ASSUME NEW s \in Sessions, SetMappingCommit(s)
      PROVE  ReportsStored'
  <2>. DEFINE i == session[s].import
              m == Flushed(session[s].loaded, session[s].mapping, batch[i].mapping)
              st == Flushed(session[s].status, "mapped", batch[i].status)
  <2>1. batch' = [batch EXCEPT ![i].mapping = m, ![i].status = st] /\ job' = job
    BY <1>6 DEF SetMappingCommit
  <2>2. st \in Downloadable => batch[i].status \in Downloadable
    BY DEF Flushed, Downloadable
  <2>. HIDE DEF m, st
  <2>3. \A k \in Imports : batch'[k].status \in Downloadable => batch[k].status \in Downloadable
    BY <2>1, <2>2 DEF TypeOK, Batch
  <2>. QED BY <1>2, <2>1, <2>3 DEF JobsNamed
<1>7. ASSUME NEW s \in Sessions, CancelCommit(s)
      PROVE  ReportsStored'
  <2>1. job' = job \/ \E j : job' = [job EXCEPT ![j].status = "cancel_requested"]
    BY <1>7 DEF CancelCommit
  <2>2. JobsNamed
    BY <2>1, OneJobWritten DEF JobsNamed
  <2>. QED BY <1>2, <1>7, <2>2 DEF CancelCommit
<1>8. ASSUME NEW s \in Sessions, RetryCommit(s)
      PROVE  ReportsStored'
  <2>1. CASE UNCHANGED <<batch, job>>
    BY <1>2, <2>1 DEF JobsNamed
  <2>2. ASSUME NEW failed \in JobIds, NEW j \in JobIds, ~Created(j),
               \A k \in JobIds : k # j => job'[k] = job[k],
               job'[j].import = job[failed].import, job'[j].kind = job[failed].kind,
               \A k \in Imports : k # job[failed].import => batch'[k] = batch[k],
               batch'[job[failed].import].status \in
                  {batch[job[failed].import].status, RetryStatus(job[failed].kind)}
        PROVE  ReportsStored'
    <3>1. job[failed].kind = "confirm" => Reportable(job[failed].import)
      BY DEF Reportable
    <3>2. \A i \in Imports : batch'[i].status \in Downloadable => Reportable(i)
      BY <2>2, <3>1 DEF RetryStatus, Downloadable, Reportable
    <3>3. \A k \in JobIds : job'[k].kind = "confirm" => Reportable(job'[k].import)
      BY <2>2, <3>1 DEF Reportable
    <3>. QED BY <1>1, <2>2, <3>2, <3>3, ReportsStay
  <2>. QED BY <1>8, <2>1, <2>2, RetryAdds
<1>9. CASE UNCHANGED <<batch, job>>
  BY <1>2, <1>9 DEF JobsNamed
<1>. QED
  BY <1>3, <1>4, <1>5, <1>6, <1>7, <1>8, <1>9
  DEF Request, SetMappingRead, CancelRead, RetryRead, dbVars

LEMMA DeliverReports ==
    ASSUME IInv, ReportsStored, NEW w \in Workers, NEW m \in Messages, Deliver(w, m)
    PROVE  ReportsStored'
<1>. USE DEF IInv
<1>1. m.job \in JobIds /\ Created(m.job) /\ job[m.job].kind \in JobKinds
  BY CreatedJob DEF Deliver, Consistent, MessagesNameJobs, Messages
<1>2. report' = report
  BY DEF Deliver
<1>3. CASE IgnoreDelivery(m) \/ CancelOnDelivery(m) \/ ExhaustAttempts(m)
  <2>1. NoNewCommit
    BY <1>3 DEF IgnoreDelivery, CancelOnDelivery, ExhaustAttempts, NoNewCommit
  <2>2. job' = job \/ \E st : job' = [job EXCEPT ![m.job].status = st]
    BY <1>3 DEF IgnoreDelivery, CancelOnDelivery, ExhaustAttempts
  <2>3. JobsNamed
    BY <2>2, OneJobWritten DEF JobsNamed
  <2>4. \A i \in Imports : batch'[i].status \in {batch[i].status, "cancelled"}
    BY <1>3 DEF IgnoreDelivery, CancelOnDelivery, ExhaustAttempts, TypeOK, Batch
  <2>5. \A i \in Imports : batch'[i].status \in Downloadable => Reportable(i)
    BY <2>4 DEF Downloadable, Reportable
  <2>. QED BY <1>2, <2>1, <2>3, <2>5, NamedReportsStay
<1>4. CASE StartAttempt(w, m)
  <2>1. worker'[w].pc # "commit" /\ \A v \in Workers : v # w => worker'[v] = worker[v]
    BY <1>1, <1>4 DEF StartAttempt, BeginAttempt, IdleWorker, TypeOK, JobKinds
  <2>2. NoNewCommit
    BY <2>1 DEF NoNewCommit
  <2>3. JobsNamed
    BY <1>4 DEF StartAttempt, BeginAttempt, TypeOK, Job, JobsNamed
  <2>4. \A i \in Imports : batch'[i].status \in Downloadable => Reportable(i)
    BY <1>4 DEF StartAttempt, BeginAttempt, Reportable
  <2>. QED BY <1>2, <2>2, <2>3, <2>4, NamedReportsStay
<1>. QED BY <1>3, <1>4 DEF Deliver

LEMMA WorkerReports ==
    ASSUME IInv, ReportsStored, NEW w \in Workers, WorkerStep(w)
    PROVE  ReportsStored'
<1>. USE DEF IInv
<1>1. Busy(w) => MyImport(w) \in Imports
  BY RunningJob
<1>2. ASSUME report' = report, NoNewCommit,
             job' = job \/ \E st : job' = [job EXCEPT ![MyJob(w)].status = st],
             \A i \in Imports : batch'[i].status \in Downloadable => Reportable(i)
      PROVE  ReportsStored'
  <2>1. JobsNamed
    BY <1>2, OneJobWritten DEF JobsNamed
  <2>. QED BY <1>2, <2>1, NamedReportsStay
<1>3. Release(w) => NoNewCommit
  BY DEF Release, IdleWorker, NoNewCommit, TypeOK
<1>4. ASSUME Busy(w), NEW st \in {"validating", "failed", "cancelled"},
             batch' = [batch EXCEPT ![MyImport(w)].status = st]
      PROVE  \A i \in Imports : batch'[i].status \in Downloadable => Reportable(i)
  BY <1>1, <1>4, OneImportWritten DEF Downloadable, Reportable
<1>5. CASE BeginValidation(w)
  <2>1. NoNewCommit
    BY <1>5 DEF BeginValidation, TypeOK, NoNewCommit
  <2>2. \A i \in Imports : batch'[i].status \in Downloadable => Reportable(i)
    BY <1>4, <1>5 DEF BeginValidation, Busy
  <2>. QED BY <1>2, <1>5, <2>1, <2>2 DEF BeginValidation
<1>6. CASE FetchUpload(w)
  <2>1. NoNewCommit
    BY <1>6 DEF FetchUpload, TypeOK, NoNewCommit
  <2>. QED BY <1>2, <1>6, <2>1 DEF FetchUpload, dbVars, Reportable
<1>7. CASE Busy(w) /\ CancelAttempt(w)
  <2>1. \A i \in Imports : batch'[i].status \in Downloadable => Reportable(i)
    BY <1>4, <1>7 DEF CancelAttempt
  <2>2. report' = report /\ Release(w)
        /\ job' = [job EXCEPT ![MyJob(w)].status = "cancelled"]
    BY <1>7 DEF CancelAttempt
  <2>. QED BY <1>2, <1>3, <2>1, <2>2
<1>8. CASE Classify(w) /\ PutReports(w)
  <2>. DEFINE i == MyImport(w)
              accepted == FileEmails(i) \ worker[w].existing
  <2>1. i \in Imports /\ MyJob(w) \in JobIds /\ batch[i].mapping \in Mappings
    BY <1>8, RunningJob DEF Classify, Busy
  <2>2. accepted \in SUBSET Emails
    BY <2>1, ValidEmailsAssumption DEF FileEmails
  <2>3. report' = [report EXCEPT ![i] = accepted]
    BY <1>8 DEF PutReports
  <2>. HIDE DEF accepted
  <2>4. report'[i] # None /\ \A k \in Imports : k # i => report'[k] = report[k]
    BY <2>1, <2>2, <2>3, NoneAssumption DEF TypeOK
  <2>5. /\ batch' = batch /\ job' = job
        /\ \A v \in Workers : worker'[v].msg = worker[v].msg
                              /\ (v # w => worker'[v].pc = worker[v].pc)
    BY <1>8 DEF PutReports, TypeOK, Worker
  <2>6. \A k \in Imports : k # i /\ Reportable(k)' => Reportable(k)
    BY <2>5 DEF Reportable, MyImport, MyJob
  <2>. HIDE DEF i
  <2>. QED BY <2>4, <2>6 DEF ReportsStored
<1>9. CASE CommitValidation(w)
  <2>. DEFINE i == MyImport(w)
              rows == worker[w].rows
  <2>1. /\ batch' = [batch EXCEPT ![i].status = "validated", ![i].accepted = rows]
        /\ Reportable(i) /\ Busy(w)
    BY <1>1, <1>9 DEF CommitValidation, Reportable, Busy
  <2>2. NoNewCommit
    BY <1>9 DEF CommitValidation, MakeOthersStale, IdleWorker, TypeOK, Worker, NoNewCommit
  <2>. HIDE DEF i, rows
  <2>3. i \in Imports
    BY <1>1, <2>1 DEF i
  <2>4. \A k \in Imports : k # i => batch'[k].status = batch[k].status
    BY <2>1, <2>3 DEF TypeOK, Batch
  <2>5. \A k \in Imports : batch'[k].status \in Downloadable => Reportable(k)
    BY <2>1, <2>4 DEF Reportable
  <2>. QED BY <1>2, <1>9, <2>2, <2>5 DEF CommitValidation, Succeed
<1>10. CASE AlreadyCompleted(w)
  BY <1>2, <1>3, <1>10 DEF AlreadyCompleted, Succeed, Reportable
<1>11. CASE Busy(w) /\ CommitConfirmation(w)
  <2>1. Reportable(MyImport(w))
    BY <1>11 DEF CommitConfirmation, Reportable, Downloadable
  <2>2. \A k \in Imports : k # MyImport(w) => batch'[k] = batch[k]
    BY <1>11, ConfirmationWrites
  <2>3. \A k \in Imports : batch'[k].status \in Downloadable => Reportable(k)
    BY <2>1, <2>2 DEF Reportable
  <2>. QED BY <1>2, <1>3, <1>11, <2>3 DEF CommitConfirmation, Succeed
<1>12. CASE FailAttempt(w)
  <2>1. \A i \in Imports : batch'[i].status \in Downloadable => Reportable(i)
    BY <1>4, <1>12 DEF FailAttempt
  <2>2. report' = report /\ Release(w)
        /\ job' = [job EXCEPT ![MyJob(w)].status = "failed"]
    BY <1>12 DEF FailAttempt
  <2>. QED BY <1>2, <1>3, <2>1, <2>2
<1>13. CASE Crash(w)
  BY <1>2, <1>3, <1>13 DEF Crash, dbVars, Reportable
<1>. QED
  BY <1>5, <1>6, <1>7, <1>8, <1>9, <1>10, <1>11, <1>12, <1>13
  DEF WorkerStep, Classify, RunConfirmation, Busy

\* The report the screen offers for a validated or completed import is in
\* storage, by whatever way the import came to that state.
THEOREM OfferedReportsExist == Spec => []DownloadableReportExists
<1>1. Init => ReportsStored
  <2>1. SUFFICES ASSUME Init, NEW i \in Imports, Reportable(i)
                 PROVE  FALSE
    BY DEF ReportsStored
  <2>2. batch[i].status = None /\ \A j \in JobIds : job[j].kind = None
    BY <2>1 DEF Init, NoBatch, NoJob
  <2>3. \A w \in Workers : worker[w].pc # "commit"
    BY <2>1 DEF Init, IdleWorker
  <2>. QED BY <2>1, <2>2, <2>3, NoneAssumption
           DEF Reportable, Downloadable, BatchStatuses, JobKinds
<1>2. ASSUME IInv, ReportsStored, [Next]_vars
      PROVE  ReportsStored'
  <2>1. CASE Transport \/ UNCHANGED vars
    <3>1. UNCHANGED <<batch, job, report, worker>>
      BY <2>1 DEF Transport, Publish, PublishUnrecorded, LoseBroker, dbVars, vars
    <3>. QED BY <1>2, <3>1, NamedReportsStay DEF JobsNamed, NoNewCommit, Reportable
  <2>2. CASE Reconcile
    <3>1. UNCHANGED <<batch, report, worker>>
      BY <2>2 DEF Reconcile, ReconcileSelect, ReconcileCommit, dbVars
    <3>2. JobsNamed
      BY <1>2, <2>2 DEF Reconcile, ReconcileSelect, ReconcileCommit, dbVars,
                        IInv, TypeOK, Job, JobsNamed
    <3>. QED BY <1>2, <3>1, <3>2, NamedReportsStay DEF NoNewCommit, Reportable
  <2>. QED
    BY <1>2, <2>1, <2>2, RequestReports, DeliverReports, WorkerReports DEF Next, Work
<1>3. ReportsStored => DownloadableReportExists
  BY DEF ReportsStored, Reportable, DownloadableReportExists, Downloadable
<1>. QED
  BY Invariance, <1>1, <1>2, <1>3, PTL DEF Spec
===============================================================================
