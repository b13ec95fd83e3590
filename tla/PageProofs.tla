----------------------------- MODULE PageProofs -----------------------------
(* The import's page for any files, columns, fields and number of jobs: the  *)
(* key of its confirmation, the buttons it offers again, and the types.      *)
EXTENDS ImportPage, TLAPS

\* The confirmation on its way carries the key localStorage has.
KeySent ==
    /\ DOMAIN pending = Kinds
    /\ storedKey \in Nat
    /\ IsSent("confirm") => pending["confirm"].body = storedKey /\ storedKey # 0

KeyInv == KeySent /\ OwnConfirmationIsRecognised

\* A mutation the page is behind waits for the import, or the import could not
\* be read and the page shows that instead of its buttons.
Waits(k) == pending[k] # None /\ pending[k].state = "refreshing"

Shaped ==
    /\ DOMAIN query = Queries
    /\ \A q \in Queries : DOMAIN query[q] = {"data", "error", "fetch"}
    /\ DOMAIN pending = Kinds

BehindWaits == \A k \in behind : k \in Kinds /\ (Waits(k) \/ query["import"].error)

BehindInv == Shaped /\ BehindWaits

\* Mutations leave the page without a new one.
LEMMA NobodySent ==
    ASSUME KeyInv, UNCHANGED <<key, storedKey>>, DOMAIN pending' = Kinds,
           pending'["confirm"] = pending["confirm"] \/ ~IsSent("confirm")'
    PROVE  KeyInv'
BY DEF KeyInv, KeySent, OwnConfirmationIsRecognised, IsSent

LEMMA RefreshedIsShaped ==
    ASSUME NEW new, DOMAIN pending = Kinds
    PROVE  /\ DOMAIN Refreshed(new) = Kinds
           /\ \A k \in Kinds : Refreshed(new)[k] \in {pending[k], None}
BY DEF Refreshed

\* What the tab does by itself.
LEMMA TabKeepsKey ==
    ASSUME KeyInv,
           \/ \E q \in Queries : ServeFetch(q)
           \/ ImportArrives \/ ImportFails \/ JobArrives \/ JobFails
           \/ Focus \/ Poll
           \/ GoElsewhere \/ GoNew \/ OpenImport \/ OpenJob
           \/ \E f \in Files : ChooseFile(f)
           \/ Upload \/ UploadAnswered \/ UploadFailed
           \/ \E f \in Fields, h \in Headers \cup {Blank} : Select(f, h)
           \/ \E k \in Kinds : Answered(k) \/ MutationFailed(k)
    PROVE  KeyInv'
<1>1. DOMAIN pending = Kinds
  BY DEF KeyInv, KeySent
<1>2. CASE ImportArrives \/ ImportFails
  <2>1. /\ UNCHANGED <<key, storedKey>>
        /\ pending' = pending \/ \E new : pending' = Refreshed(new)
    BY <1>2 DEF ImportArrives, ImportFails, Settle, server
  <2>2. DOMAIN pending' = Kinds /\ pending'["confirm"] \in {pending["confirm"], None}
    BY <1>1, <2>1, RefreshedIsShaped DEF Kinds
  <2>. QED BY <2>1, <2>2, NobodySent DEF IsSent
<1>3. CASE \/ \E q \in Queries : ServeFetch(q)
           \/ JobArrives \/ JobFails \/ Focus \/ Poll
           \/ \E f \in Files : ChooseFile(f)
           \/ Upload \/ UploadFailed
           \/ \E f \in Fields, h \in Headers \cup {Blank} : Select(f, h)
  <2>1. UNCHANGED <<key, storedKey, pending>>
    BY <1>3 DEF ServeFetch, JobArrives, JobFails, Focus, Poll, ChooseFile, Upload,
                UploadFailed, Select, server
  <2>. QED BY <1>1, <2>1, NobodySent
<1>4. CASE GoElsewhere \/ GoNew \/ OpenImport \/ OpenJob \/ UploadAnswered
  <2>1. UNCHANGED <<key, storedKey>> /\ pending' = NoMutations
    BY <1>4 DEF GoElsewhere, GoNew, OpenImport, OpenJob, UploadAnswered, Leave, Mount,
                server
  <2>2. DOMAIN pending' = Kinds /\ pending'["confirm"] = None
    BY <2>1 DEF NoMutations, Kinds
  <2>. QED BY <2>1, <2>2, NobodySent DEF IsSent
<1>5. ASSUME NEW k \in Kinds, Answered(k) \/ MutationFailed(k)
      PROVE  KeyInv'
  <2>1. UNCHANGED <<key, storedKey>>
    BY <1>5 DEF Answered, MutationFailed, server
  <2>2. /\ DOMAIN pending' = Kinds
        /\ pending'["confirm"] = pending["confirm"] \/ ~IsSent("confirm")'
    <3>1. \E a : pending' = [pending EXCEPT ![k] = a] /\ (a = None \/ a.state = "refreshing")
      BY <1>5 DEF Answered, MutationFailed
    <3>. QED BY <1>1, <3>1 DEF IsSent, Kinds
  <2>. QED BY <2>1, <2>2, NobodySent
<1>. QED BY <1>2, <1>3, <1>4, <1>5

LEMMA ClickKeepsKey ==
    ASSUME KeyInv, NEW k \in Kinds, Click(k)
    PROVE  KeyInv'
<1>1. key' = key /\ DOMAIN pending' = Kinds
  BY DEF Click, server, KeyInv, KeySent
<1>2. CASE k = "confirm"
  <2>1. storedKey' = ConfirmKey /\ ConfirmKey \in Nat \ {0}
    BY <1>2 DEF Click, ConfirmKey, KeyInv, KeySent
  <2>2. pending'["confirm"].body = ConfirmKey
    BY <1>2 DEF Click, KeyInv, KeySent
  <2>3. key \notin {None, 0} => storedKey' = storedKey
    BY <2>1 DEF ConfirmKey, KeyInv, OwnConfirmationIsRecognised
  <2>. QED
    BY <1>1, <2>1, <2>2, <2>3 DEF KeyInv, KeySent, OwnConfirmationIsRecognised
<1>3. CASE k # "confirm"
  <2>1. storedKey' = storedKey /\ pending'["confirm"] = pending["confirm"]
    BY <1>3 DEF Click, KeyInv, KeySent, Kinds
  <2>. QED BY <1>1, <2>1, NobodySent
<1>. QED BY <1>2, <1>3

\* The server takes over no key but that of the confirmation it is asked for.
LEMMA ServerKeepsKey ==
    ASSUME KeyInv, Serve \/ Elsewhere \/ Worker
    PROVE  KeyInv'
<1>1. DOMAIN pending = Kinds
  BY DEF KeyInv, KeySent
<1>2. ASSUME NEW k \in Kinds, NEW a, Answer(k, a), a.state # "sent"
      PROVE  /\ storedKey' = storedKey /\ DOMAIN pending' = Kinds
             /\ pending'["confirm"] = pending["confirm"] \/ ~IsSent("confirm")'
  BY <1>1, <1>2 DEF Answer, IsSent
<1>3. ASSUME NEW k \in Kinds, NEW a, Answer(k, a), a.state # "sent", key' = key
      PROVE  KeyInv'
  BY <1>2, <1>3, NobodySent
<1>4. CASE ServeUpload
  <2>1. UNCHANGED <<key, storedKey, pending>>
    BY <1>4 DEF ServeUpload, UploadImport, server
  <2>. QED BY <1>1, <2>1, NobodySent
<1>5. CASE ServeSave
  <2>1. key' = key /\ \E a : Answer("save", a) /\ a.state # "sent"
    BY <1>5 DEF ServeSave, SetMapping, server, Ok
  <2>. QED BY <1>3, <2>1 DEF Kinds
<1>6. CASE ServeStart
  <2>1. ASSUME NEW k \in {"validate", "confirm", "retry"}, NEW j, Answer(k, Ok(j))
        PROVE  /\ storedKey' = storedKey /\ DOMAIN pending' = Kinds
               /\ pending'["confirm"] = pending["confirm"] \/ ~IsSent("confirm")'
    <3>1. k \in Kinds /\ Ok(j).state # "sent"
      BY DEF Kinds, Ok
    <3>. QED BY <1>2, <2>1, <3>1
  <2>2. CASE IsSent("validate") /\ ValidateImport /\ Answer("validate", Ok(Len(jobs')))
    BY <2>1, <2>2, NobodySent DEF ValidateImport
  <2>3. CASE IsSent("retry") /\ RetryImport /\ Answer("retry", Ok(Len(jobs')))
    BY <2>1, <2>3, NobodySent DEF RetryImport
  <2>4. ASSUME NEW j, IsSent("confirm"), ConfirmImport(pending["confirm"].body),
               Answer("confirm", Ok(j))
        PROVE  KeyInv'
    <3>1. key' = key \/ key' = storedKey
      BY <2>4 DEF ConfirmImport, server, KeyInv, KeySent
    <3>2. /\ storedKey' = storedKey /\ DOMAIN pending' = Kinds
          /\ pending'["confirm"] = pending["confirm"] \/ ~IsSent("confirm")'
      BY <2>1, <2>4
    <3>. QED
      BY <3>1, <3>2 DEF KeyInv, KeySent, OwnConfirmationIsRecognised, IsSent
  <2>. QED BY <1>6, <2>2, <2>3, <2>4 DEF ServeStart
<1>7. CASE ServeCancel
  <2>1. key' = key /\ Answer("cancel", Ok(0)) /\ Ok(0).state # "sent"
    BY <1>7 DEF ServeCancel, CancelImport, Ok
  <2>. QED BY <1>3, <2>1 DEF Kinds
<1>8. ASSUME NEW k \in Kinds, Refuse(k)
      PROVE  KeyInv'
  <2>1. key' = key /\ \E a : Answer(k, a) /\ a.state # "sent"
    BY <1>8 DEF Refuse, server
  <2>. QED BY <1>3, <2>1
<1>9. CASE Elsewhere
  <2>1. key' \in {key, 0, storedKey} /\ UNCHANGED <<storedKey, pending>>
    BY <1>9 DEF Elsewhere, SetMapping, ValidateImport, RetryImport, CancelImport,
                ConfirmImport, server, tab
  <2>. QED BY <2>1 DEF KeyInv, KeySent, OwnConfirmationIsRecognised, IsSent
<1>10. CASE Worker
  <2>1. UNCHANGED <<key, storedKey, pending>>
    BY <1>10 DEF Worker, Work, StartJob, ExhaustJob, SucceedJob, FailJob, CancelJob,
                 RequeueJob, Write, tab
  <2>. QED BY <1>1, <2>1, NobodySent
<1>. QED BY <1>4, <1>5, <1>6, <1>7, <1>8, <1>9, <1>10 DEF Serve

\* However answers are lost, pages reloaded and confirmations repeated, the
\* server knows this browser's confirmation by the key localStorage has.
THEOREM ConfirmationIsRecognised == Spec => []OwnConfirmationIsRecognised
<1>1. Init => KeyInv
  BY DEF Init, ServiceInit, NoMutations, Kinds, KeyInv, KeySent,
         OwnConfirmationIsRecognised, IsSent
<1>2. KeyInv /\ UNCHANGED vars => KeyInv'
  BY DEF vars, server, tab, KeyInv, KeySent, OwnConfirmationIsRecognised, IsSent
<1>3. KeyInv /\ [Next]_vars => KeyInv'
  BY <1>2, TabKeepsKey, ClickKeepsKey, ServerKeepsKey DEF Next
<1>4. KeyInv => OwnConfirmationIsRecognised
  BY DEF KeyInv
<1>. QED
  BY <1>1, <1>3, <1>4, PTL DEF Spec
---------------------------------------------------------------------------
\* The import's error shows until it is read again or another page is opened.
LEMMA ErrorStays ==
    ASSUME BehindInv, UNCHANGED <<behind, pending>>,
           /\ DOMAIN query' = Queries
           /\ \A q \in Queries : DOMAIN query'[q] = {"data", "error", "fetch"},
           query["import"].error => query'["import"].error
    PROVE  BehindInv'
BY DEF BehindInv, Shaped, BehindWaits, Waits

\* No mutation waits any longer than the page is behind it.
LEMMA NoneLeft ==
    ASSUME behind' = {}, DOMAIN pending' = Kinds,
           /\ DOMAIN query' = Queries
           /\ \A q \in Queries : DOMAIN query'[q] = {"data", "error", "fetch"}
    PROVE  BehindInv'
BY DEF BehindInv, Shaped, BehindWaits

LEMMA QueryStepsWait ==
    ASSUME BehindInv,
           \/ \E q \in Queries : ServeFetch(q)
           \/ ImportArrives \/ ImportFails \/ JobArrives \/ JobFails
           \/ Focus \/ Poll
    PROVE  BehindInv'
<1>1. /\ DOMAIN query = Queries
      /\ \A q \in Queries : DOMAIN query[q] = {"data", "error", "fetch"}
      /\ DOMAIN pending = Kinds
      /\ "import" \in Queries /\ "job" \in Queries
  BY DEF BehindInv, Shaped, Queries
<1>2. CASE ImportArrives
  <2>1. behind' = {} /\ DOMAIN pending' = Kinds
    BY <1>1, <1>2, RefreshedIsShaped DEF ImportArrives, Settle
  <2>2. query' = [query EXCEPT !["import"] =
                     [data |-> query["import"].fetch, error |-> FALSE, fetch |-> None]]
    BY <1>2 DEF ImportArrives, Settle
  <2>. QED BY <1>1, <2>1, <2>2, NoneLeft
<1>3. CASE ImportFails
  <2>1. query' = [query EXCEPT !["import"] =
                     [query["import"] EXCEPT !.error = TRUE, !.fetch = None]]
    BY <1>3 DEF ImportFails, Settle
  <2>2. query'["import"].error
    BY <1>1, <2>1
  <2>3. behind' = behind /\ DOMAIN pending' = Kinds
    BY <1>1, <1>3, RefreshedIsShaped DEF ImportFails, Settle
  <2>. QED BY <1>1, <2>1, <2>2, <2>3 DEF BehindInv, Shaped, BehindWaits
<1>4. ASSUME NEW q \in Queries, ServeFetch(q)
      PROVE  BehindInv'
  <2>1. UNCHANGED <<behind, pending>>
    BY <1>4 DEF ServeFetch
  <2>2. \E f : query' = [query EXCEPT ![q].fetch = f]
    BY <1>4 DEF ServeFetch
  <2>. QED BY <1>1, <2>1, <2>2, ErrorStays
<1>5. CASE JobArrives \/ JobFails
  <2>1. UNCHANGED <<behind, pending>>
    BY <1>5 DEF JobArrives, JobFails
  <2>2. /\ DOMAIN query' = Queries
        /\ \A q \in Queries : DOMAIN query'[q] = {"data", "error", "fetch"}
        /\ query'["import"] = query["import"]
    BY <1>1, <1>5 DEF JobArrives, JobFails
  <2>. QED BY <2>1, <2>2, ErrorStays
<1>6. CASE Focus \/ Poll
  <2>1. UNCHANGED <<behind, pending>>
    BY <1>6 DEF Focus, Poll
  <2>2. \E q \in Queries : query' = Fetching(q)
    BY <1>1, <1>6 DEF Focus, Poll
  <2>. QED BY <1>1, <2>1, <2>2, ErrorStays DEF Fetching
<1>. QED BY <1>2, <1>3, <1>4, <1>5, <1>6

LEMMA PageStepsWait ==
    ASSUME BehindInv,
           \/ GoElsewhere \/ GoNew \/ OpenImport \/ OpenJob \/ UploadAnswered
           \/ \E f \in Files : ChooseFile(f)
           \/ Upload \/ UploadFailed
           \/ \E f \in Fields, h \in Headers \cup {Blank} : Select(f, h)
    PROVE  BehindInv'
<1>1. /\ DOMAIN query = Queries
      /\ \A q \in Queries : DOMAIN query[q] = {"data", "error", "fetch"}
      /\ "import" \in Queries /\ "job" \in Queries
  BY DEF BehindInv, Shaped, Queries
<1>2. /\ DOMAIN NoMutations = Kinds
      /\ DOMAIN NoQuery = {"data", "error", "fetch"}
      /\ DOMAIN [q \in Queries |-> NoQuery] = Queries
      /\ \A q \in Queries : [p \in Queries |-> NoQuery][q] = NoQuery
  BY DEF NoMutations, NoQuery
<1>3. CASE GoElsewhere \/ GoNew \/ OpenJob
  <2>1. behind' = {} /\ DOMAIN pending' = Kinds
    BY <1>2, <1>3 DEF GoElsewhere, GoNew, OpenJob, Leave
  <2>2. DOMAIN [NoQuery EXCEPT !.fetch = Sent] = {"data", "error", "fetch"}
    BY <1>2
  <2>3. /\ DOMAIN query' = Queries
        /\ \A q \in Queries : DOMAIN query'[q] = {"data", "error", "fetch"}
    BY <1>1, <1>2, <1>3, <2>2 DEF GoElsewhere, GoNew, OpenJob
  <2>. QED BY <2>1, <2>3, NoneLeft
<1>4. ASSUME NEW q, Mount(q), q \in {query, [p \in Queries |-> NoQuery]}
      PROVE  BehindInv'
  <2>1. behind' = {} /\ DOMAIN pending' = Kinds
    BY <1>2, <1>4 DEF Mount
  <2>2. \E f : query' = [q EXCEPT !["import"].fetch = f, !["job"] = NoQuery]
    BY <1>4 DEF Mount
  <2>3. DOMAIN q = Queries /\ \A p \in Queries : DOMAIN q[p] = {"data", "error", "fetch"}
    BY <1>1, <1>2, <1>4
  <2>. QED BY <1>1, <1>2, <2>1, <2>2, <2>3, NoneLeft
<1>5. CASE OpenImport \/ UploadAnswered
  BY <1>4, <1>5 DEF OpenImport, UploadAnswered
<1>6. CASE \/ \E f \in Files : ChooseFile(f)
           \/ Upload \/ UploadFailed
           \/ \E f \in Fields, h \in Headers \cup {Blank} : Select(f, h)
  <2>1. UNCHANGED <<behind, pending, query>>
    BY <1>6 DEF ChooseFile, Upload, UploadFailed, Select
  <2>. QED BY <1>1, <2>1, ErrorStays
<1>. QED BY <1>3, <1>5, <1>6

\* A mutation that waits is let go by the query alone.
LEMMA MutationStepsWait ==
    ASSUME BehindInv, NEW k \in Kinds, Click(k) \/ Answered(k) \/ MutationFailed(k)
    PROVE  BehindInv'
<1>1. DOMAIN query = Queries /\ DOMAIN pending = Kinds /\ "import" \in Queries
      /\ \A q \in Queries : DOMAIN query[q] = {"data", "error", "fetch"}
  BY DEF BehindInv, Shaped, Queries
<1>2. CASE Answered(k)
  <2>1. /\ query' = [query EXCEPT !["import"].fetch = Sent]
        /\ behind' = behind \cup {k}
        /\ pending' = [pending EXCEPT ![k] = [state |-> "refreshing"]]
    BY <1>2 DEF Answered, Invalidated
  <2>2. [state |-> "refreshing"] # None
    BY NoneIsNoMutation DEF Mutation
  <2>3. Waits(k)' /\ \A j \in Kinds \ {k} : pending'[j] = pending[j]
    BY <1>1, <2>1, <2>2 DEF Waits
  <2>4. /\ DOMAIN query' = Queries /\ query'["import"].error = query["import"].error
        /\ \A q \in Queries : DOMAIN query'[q] = {"data", "error", "fetch"}
    BY <1>1, <2>1
  <2>5. BehindWaits'
    BY <2>1, <2>3, <2>4 DEF BehindInv, BehindWaits, Waits
  <2>. QED BY <1>1, <2>1, <2>4, <2>5 DEF BehindInv, Shaped
<1>3. CASE Click(k) \/ MutationFailed(k)
  <2>1. UNCHANGED <<behind, query>> /\ ~Waits(k)
    BY <1>3 DEF Click, MutationFailed, Waits
  <2>2. DOMAIN pending' = Kinds /\ \A j \in Kinds \ {k} : pending'[j] = pending[j]
    BY <1>1, <1>3 DEF Click, MutationFailed
  <2>. QED BY <1>1, <2>1, <2>2 DEF BehindInv, Shaped, BehindWaits, Waits
<1>. QED BY <1>2, <1>3

LEMMA ServerStepsWait ==
    ASSUME BehindInv, Serve \/ Elsewhere \/ Worker
    PROVE  BehindInv'
<1>1. UNCHANGED <<behind, query>>
  BY DEF Serve, ServeUpload, ServeSave, ServeStart, ServeCancel, Refuse, Answer,
         Elsewhere, Worker, tab
<1>2. \/ pending' = pending
      \/ \E k \in Kinds : \E a : IsSent(k) /\ pending' = [pending EXCEPT ![k] = a]
  BY DEF Serve, ServeUpload, ServeSave, ServeStart, ServeCancel, Refuse, Answer,
         Elsewhere, Worker, tab, Kinds
<1>. QED BY <1>1, <1>2 DEF BehindInv, Shaped, BehindWaits, Waits, IsSent

\* No button the page offers repeats what it was told is done, however its
\* reads fail or come late.
THEOREM DoneIsNotOffered == Spec => NothingDoneIsOffered
<1>1. Init => BehindInv
  BY DEF Init, NoMutations, NoQuery, BehindInv, Shaped, BehindWaits
<1>2. BehindInv /\ UNCHANGED vars => BehindInv'
  BY DEF vars, tab, BehindInv, Shaped, BehindWaits, Waits
<1>3. BehindInv /\ [Next]_vars => BehindInv'
  BY <1>2, QueryStepsWait, PageStepsWait, MutationStepsWait, ServerStepsWait DEF Next
<1>4. BehindInv => \A k \in Kinds : Click(k) => k \notin behind
  BY DEF BehindInv, BehindWaits, Waits, Click, Rendered
<1>. QED
  BY <1>1, <1>3, <1>4, PTL DEF Spec, NothingDoneIsOffered
---------------------------------------------------------------------------
(* Types                                                                    *)

\* The requests on their way are such as the page sends, and the jobs that
\* answers name are jobs of the import.
PendingOK ==
    \A k \in Kinds : pending[k] # None =>
        /\ pending[k].state \in {"sent", "ok", "invalid", "conflict", "refreshing"}
        /\ pending[k].state = "ok" => pending[k].job \in 0..Len(jobs)
        /\ pending[k].state = "sent" /\ k = "save" => pending[k].body \in Mappings
        /\ pending[k].state = "sent" /\ k = "confirm" => pending[k].body \in Nat

\* What NewImportPage, ImportDetailPage and JobDetailPage hold.
HeldOK ==
    /\ role \in {"operator", "viewer"}
    /\ route \in Routes
    /\ file \in Files \cup {None}
    /\ upload = None \/ upload \in [state : {"sent", "created", "refused"}, file : Files]
    /\ jobId \in 0..Len(jobs)
    /\ watched \in 0..Len(jobs)
    /\ behind \subseteq Kinds
    /\ storedKey \in Nat

QueriesOK == IsQuery(query["import"], Items) /\ IsQuery(query["job"], JobStatuses)

\* There is a form where there is a panel.
FormOK ==
    /\ form # None => form \in Mappings
    /\ form # None <=> route = "import" /\ Paneled(query["import"])

TInv == ServiceTypeOK /\ Shaped /\ PendingOK /\ HeldOK /\ QueriesOK /\ FormOK

\* A mapping is a function from some of the fields.
LEMMA MappingIs ==
    ASSUME NEW m
    PROVE  m \in Mappings <=> \E D \in SUBSET Fields : m \in [D -> Headers \cup {Blank}]
BY DEF Mappings

\* The empty mapping, and one with one more column chosen.
LEMMA MappingsMade ==
    /\ [f \in {} |-> Blank] \in Mappings
    /\ \A m \in Mappings, f \in Fields, h \in Headers \cup {Blank} :
          [g \in DOMAIN m \cup {f} |-> IF g = f THEN h ELSE m[g]] \in Mappings
<1>1. [f \in {} |-> Blank] \in Mappings
  <2>1. {} \in SUBSET Fields /\ [f \in {} |-> Blank] \in [{} -> Headers \cup {Blank}]
    OBVIOUS
  <2>. QED BY <2>1, MappingIs
<1>2. ASSUME NEW m \in Mappings, NEW f \in Fields, NEW h \in Headers \cup {Blank}
      PROVE  [g \in DOMAIN m \cup {f} |-> IF g = f THEN h ELSE m[g]] \in Mappings
  <2>1. PICK D \in SUBSET Fields : m \in [D -> Headers \cup {Blank}]
    BY MappingIs
  <2>. DEFINE n == [g \in DOMAIN m \cup {f} |-> IF g = f THEN h ELSE m[g]]
  <2>2. D \cup {f} \in SUBSET Fields /\ n \in [D \cup {f} -> Headers \cup {Blank}]
    BY <2>1
  <2>. HIDE DEF n
  <2>3. n \in Mappings
    BY <2>2, MappingIs
  <2>. QED BY <2>3 DEF n
<1>. QED BY <1>1, <1>2

\* A job more, of those that the worker or the API knows.
LEMMA EnqueueTyped ==
    ASSUME jobs \in Seq(Jobs), Len(jobs) <= MaxJobs,
           NEW kind \in {"validate", "confirm"}, Enqueue(kind)
    PROVE  jobs' \in Seq(Jobs) /\ Len(jobs') = Len(jobs) + 1 /\ Len(jobs') <= MaxJobs
<1>1. [kind |-> kind, status |-> "queued", taken |-> FALSE] \in Jobs
  BY DEF Jobs, JobStatuses
<1>2. Len(jobs') = Len(jobs) + 1 /\ Len(jobs) \in Nat /\ Len(jobs) < MaxJobs
  BY <1>1 DEF Enqueue
<1>3. jobs' \in Seq(Jobs)
  BY <1>1 DEF Enqueue
<1>. QED BY <1>2, <1>3, JobBound

\* A job's status changes, and it is taken up.
LEMMA JobChanged ==
    ASSUME jobs \in Seq(Jobs), NEW j \in DOMAIN jobs, NEW s \in JobStatuses,
           \/ jobs' = [jobs EXCEPT ![j].status = s]
           \/ jobs' = [jobs EXCEPT ![j].status = s, ![j].taken = TRUE]
    PROVE  jobs' \in Seq(Jobs) /\ Len(jobs') = Len(jobs)
<1>1. jobs[j] \in Jobs /\ Len(jobs) \in Nat
  OBVIOUS
<1>2. /\ [jobs[j] EXCEPT !.status = s] \in Jobs
      /\ [jobs[j] EXCEPT !.status = s, !.taken = TRUE] \in Jobs
  BY <1>1 DEF Jobs
<1>3. \/ jobs' = [jobs EXCEPT ![j] = [jobs[j] EXCEPT !.status = s]]
      \/ jobs' = [jobs EXCEPT ![j] = [jobs[j] EXCEPT !.status = s, !.taken = TRUE]]
  OBVIOUS
<1>. QED BY <1>1, <1>2, <1>3

\* The server, whoever asks.
ServerStep ==
    \/ UNCHANGED server \/ UploadImport \/ ValidateImport \/ RetryImport \/ CancelImport
    \/ \E m \in Mappings : SetMapping(m)
    \/ \E k \in Nat : ConfirmImport(k)
    \/ \E j \in DOMAIN jobs : Work(j)

LEMMA ServerTyped ==
    ASSUME ServiceTypeOK, ServerStep
    PROVE  ServiceTypeOK' /\ Len(jobs) \in Nat /\ Len(jobs') \in Nat /\ Len(jobs) <= Len(jobs')
<1>1. jobs \in Seq(Jobs) /\ Len(jobs) \in Nat /\ Len(jobs) <= MaxJobs
  BY DEF ServiceTypeOK
<1>2. CASE UNCHANGED server \/ UploadImport \/ \E m \in Mappings : SetMapping(m)
  BY <1>1, <1>2 DEF server, UploadImport, SetMapping, ServiceTypeOK, Statuses
<1>3. CASE ValidateImport
  BY <1>1, <1>3, EnqueueTyped DEF ValidateImport, ServiceTypeOK, Statuses
<1>4. CASE RetryImport
  <2>1. PICK j \in DOMAIN jobs :
           /\ Enqueue(jobs[j].kind)
           /\ status' = IF jobs[j].kind = "confirm" THEN "validated" ELSE "mapped"
           /\ UNCHANGED <<mapping, key, started, again>>
    BY <1>4 DEF RetryImport, Newest, JobsIn
  <2>2. jobs[j] \in Jobs
    BY <1>1
  <2>3. jobs[j].kind \in {"validate", "confirm"}
    BY <2>2 DEF Jobs
  <2>. QED BY <1>1, <2>1, <2>3, EnqueueTyped DEF ServiceTypeOK, Statuses
<1>5. CASE CancelImport
  <2>1. PICK j \in DOMAIN jobs : jobs' = [jobs EXCEPT ![j].status = "cancel_requested"]
    BY <1>5 DEF CancelImport, Newest, JobsIn
  <2>2. "cancel_requested" \in JobStatuses
    BY DEF JobStatuses
  <2>3. jobs' \in Seq(Jobs) /\ Len(jobs') = Len(jobs)
    BY <1>1, <2>1, <2>2, JobChanged
  <2>. QED BY <1>1, <1>5, <2>3 DEF CancelImport, ServiceTypeOK
<1>6. ASSUME NEW k \in Nat, ConfirmImport(k)
      PROVE  ServiceTypeOK' /\ Len(jobs') \in Nat /\ Len(jobs) <= Len(jobs')
  BY <1>1, <1>6, EnqueueTyped DEF ConfirmImport, ServiceTypeOK, server
<1>7. ASSUME NEW j \in DOMAIN jobs, Work(j)
      PROVE  ServiceTypeOK' /\ Len(jobs') \in Nat /\ Len(jobs) <= Len(jobs')
  <2>1. \E s \in JobStatuses :
           \/ jobs' = [jobs EXCEPT ![j].status = s]
           \/ jobs' = [jobs EXCEPT ![j].status = s, ![j].taken = TRUE]
    BY <1>7 DEF Work, StartJob, ExhaustJob, SucceedJob, FailJob, CancelJob, RequeueJob, Write,
                JobStatuses
  <2>2. jobs' \in Seq(Jobs) /\ Len(jobs') = Len(jobs)
    BY <1>1, <2>1, JobChanged
  <2>3. status' \in Statuses /\ UNCHANGED <<mapping, key>> /\ started' \in BOOLEAN
    BY <1>7 DEF Work, StartJob, ExhaustJob, SucceedJob, FailJob, CancelJob, RequeueJob, Write,
                ServiceTypeOK, Statuses
  <2>4. again' = again \/ Again
    BY <1>7 DEF Work, StartJob, ExhaustJob, SucceedJob, FailJob, CancelJob, RequeueJob, Runs
  <2>5. again' \in 0 .. MaxAgain
    BY <2>4, JobBound DEF Again, ServiceTypeOK
  <2>. QED BY <1>1, <2>2, <2>3, <2>5 DEF ServiceTypeOK
<1>. QED BY <1>1, <1>2, <1>3, <1>4, <1>5, <1>6, <1>7 DEF ServerStep

\* What is held stays right while jobs are added.
LEMMA HeldKept ==
    ASSUME TInv, ServiceTypeOK', Len(jobs) \in Nat, Len(jobs') \in Nat, Len(jobs) <= Len(jobs'),
           UNCHANGED <<role, route, file, query, jobId, watched, form, behind, storedKey>>,
           upload' = upload \/ upload' \in [state : {"sent", "created", "refused"}, file : Files],
           \/ pending' = pending
           \/ \E k \in Kinds : \E a :
                 /\ pending' = [pending EXCEPT ![k] = a]
                 /\ a.state \in {"ok", "invalid", "conflict"}
                 /\ a.state = "ok" => a.job \in 0..Len(jobs')
    PROVE  TInv'
<1>1. \A j \in 0..Len(jobs) : j \in 0..Len(jobs')
  OBVIOUS
<1>2. HeldOK'
  BY <1>1 DEF TInv, HeldOK
<1>3. Shaped' /\ QueriesOK' /\ FormOK'
  BY DEF TInv, Shaped, QueriesOK, IsQuery, FormOK, Paneled
<1>4. PendingOK'
  BY <1>1 DEF TInv, Shaped, PendingOK
<1>. QED BY <1>2, <1>3, <1>4 DEF TInv

\* The server's answers are of its types, and name its jobs.
LEMMA ServeTyped ==
    ASSUME TInv, Serve \/ Elsewhere \/ Worker
    PROVE  TInv'
<1>1. ServiceTypeOK /\ DOMAIN pending = Kinds
  BY DEF TInv, Shaped
<1>2. ServerStep
  <2>1. CASE Elsewhere
    BY <2>1 DEF Elsewhere, ServerStep, TInv, HeldOK
  <2>2. CASE Worker
    BY <2>2 DEF Worker, ServerStep
  <2>3. CASE ServeUpload
    BY <2>3 DEF ServeUpload, ServerStep
  <2>4. CASE ServeSave
    BY <2>4 DEF ServeSave, ServerStep, IsSent, TInv, PendingOK, Kinds
  <2>5. CASE ServeStart
    BY <2>5 DEF ServeStart, ServerStep, IsSent, TInv, PendingOK, Kinds
  <2>6. CASE ServeCancel
    BY <2>6 DEF ServeCancel, ServerStep
  <2>7. ASSUME NEW k \in Kinds, Refuse(k)
        PROVE  ServerStep
    BY <2>7 DEF Refuse, ServerStep
  <2>. QED BY <2>1, <2>2, <2>3, <2>4, <2>5, <2>6, <2>7 DEF Serve
<1>3. ServiceTypeOK' /\ Len(jobs) \in Nat /\ Len(jobs') \in Nat /\ Len(jobs) <= Len(jobs')
  BY <1>1, <1>2, ServerTyped
<1>4. CASE Elsewhere \/ Worker
  BY <1>3, <1>4, HeldKept DEF Elsewhere, Worker, tab
<1>5. CASE ServeUpload
  <2>1. upload' \in [state : {"sent", "created", "refused"}, file : Files]
    BY <1>5 DEF ServeUpload, TInv, HeldOK
  <2>. QED BY <1>3, <1>5, <2>1, HeldKept DEF ServeUpload
<1>6. ASSUME NEW k \in Kinds, NEW a, Answer(k, a),
             a.state \in {"ok", "invalid", "conflict"},
             a.state = "ok" => a.job \in 0..Len(jobs')
      PROVE  TInv'
  BY <1>3, <1>6, HeldKept DEF Answer
<1>7. ASSUME NEW k \in Kinds, NEW j \in 0..Len(jobs'), Answer(k, Ok(j))
      PROVE  TInv'
  <2>1. Ok(j).state = "ok" /\ Ok(j).job = j
    BY DEF Ok
  <2>. QED BY <1>6, <1>7, <2>1
<1>8. 0 \in 0..Len(jobs') /\ Len(jobs') \in 0..Len(jobs')
  BY <1>3
<1>9. CASE ServeSave
  <2>1. ASSUME NEW m, Answer("save", [state |-> "invalid", body |-> m])
        PROVE  TInv'
    <3>. DEFINE a == [state |-> "invalid", body |-> m]
    <3>1. a.state = "invalid"
      OBVIOUS
    <3>. HIDE DEF a
    <3>2. Answer("save", a)
      BY <2>1 DEF a
    <3>. QED BY <1>6, <3>1, <3>2 DEF Kinds
  <2>. QED BY <1>7, <1>8, <1>9, <2>1 DEF ServeSave, Kinds
<1>10. CASE ServeStart
  <2>1. ASSUME NEW j \in Newest({i \in DOMAIN jobs' : jobs'[i].kind = "confirm"}),
               Answer("confirm", Ok(j))
        PROVE  TInv'
    <3>1. j \in DOMAIN jobs'
      BY DEF Newest
    <3>2. j \in 0..Len(jobs')
      BY <1>3, <3>1 DEF ServiceTypeOK
    <3>. QED BY <1>7, <2>1, <3>2 DEF Kinds
  <2>. QED BY <1>7, <1>8, <1>10, <2>1 DEF ServeStart, Kinds
<1>11. CASE ServeCancel
  BY <1>7, <1>8, <1>11 DEF ServeCancel, Kinds
<1>12. ASSUME NEW k \in Kinds, Refuse(k)
       PROVE  TInv'
  <2>. DEFINE a == [state |-> "conflict"]
  <2>1. a.state = "conflict" /\ Answer(k, a)
    BY <1>12 DEF Refuse
  <2>. HIDE DEF a
  <2>. QED BY <1>6, <2>1
<1>. QED BY <1>4, <1>5, <1>9, <1>10, <1>11, <1>12 DEF Serve

\* Queries: what they bring is of the server's types, and the panel comes and
\* goes with what they brought.
LEMMA QueriesTyped ==
    ASSUME TInv,
           \/ \E q \in Queries : ServeFetch(q)
           \/ ImportArrives \/ ImportFails \/ JobArrives \/ JobFails
           \/ Focus \/ Poll
    PROVE  TInv'
<1>1. /\ ServiceTypeOK /\ DOMAIN query = Queries /\ DOMAIN pending = Kinds
      /\ \A q \in Queries : DOMAIN query[q] = {"data", "error", "fetch"}
      /\ IsQuery(query["import"], Items) /\ IsQuery(query["job"], JobStatuses)
      /\ Queries = {"import", "job"}
  BY DEF TInv, Shaped, QueriesOK, Queries
<1>2. UNCHANGED server /\ ServiceTypeOK'
  BY <1>1 DEF ServeFetch, ImportArrives, ImportFails, JobArrives, JobFails, Focus, Poll,
              server, ServiceTypeOK
<1>3. HeldOK'
  BY <1>2 DEF ServeFetch, ImportArrives, ImportFails, JobArrives, JobFails, Focus, Poll,
              TInv, HeldOK, server
<1>4. PendingOK'
  <2>1. CASE pending' = pending
    BY <1>2, <2>1 DEF TInv, PendingOK, server
  <2>2. ASSUME NEW new, pending' = Refreshed(new)
        PROVE  PendingOK'
    <3>1. \A k \in Kinds : pending'[k] \in {pending[k], None}
      BY <1>1, <2>2, RefreshedIsShaped
    <3>. QED BY <1>2, <3>1 DEF TInv, PendingOK, server
  <2>. QED BY <2>1, <2>2 DEF ServeFetch, ImportArrives, ImportFails, JobArrives, JobFails,
                             Focus, Poll, Settle
<1>5. DOMAIN pending' = Kinds
  BY <1>1, RefreshedIsShaped DEF ServeFetch, ImportArrives, ImportFails, JobArrives,
                                 JobFails, Focus, Poll, Settle
\* Only a fetch changes.
<1>6. ASSUME NEW q \in Queries, NEW f, query' = [query EXCEPT ![q].fetch = f],
             f \in (IF q = "import" THEN Items ELSE JobStatuses) \cup {None, Sent},
             UNCHANGED <<route, form>>
      PROVE  TInv'
  <2>1. /\ DOMAIN query' = Queries
        /\ \A p \in Queries : /\ DOMAIN query'[p] = {"data", "error", "fetch"}
                              /\ query'[p].data = query[p].data
                              /\ query'[p].error = query[p].error
                              /\ query'[p].fetch = IF p = q THEN f ELSE query[p].fetch
    BY <1>1, <1>6
  <2>2. Shaped' /\ QueriesOK'
    BY <1>1, <1>5, <1>6, <2>1 DEF Shaped, QueriesOK, IsQuery
  <2>3. FormOK'
    BY <1>1, <1>6, <2>1 DEF TInv, FormOK, Paneled
  <2>. QED BY <1>2, <1>3, <1>4, <2>2, <2>3 DEF TInv
<1>7. CASE Focus \/ Poll
  <2>1. PICK q \in Queries : query' = Fetching(q)
    BY <1>1, <1>7 DEF Focus, Poll
  <2>2. query' = [query EXCEPT ![q].fetch = IF query[q].fetch = None THEN Sent ELSE query[q].fetch]
    BY <2>1 DEF Fetching
  <2>3. UNCHANGED <<route, form>>
    BY <1>7 DEF Focus, Poll
  <2>4. (IF query[q].fetch = None THEN Sent ELSE query[q].fetch)
           \in (IF q = "import" THEN Items ELSE JobStatuses) \cup {None, Sent}
    BY <1>1 DEF IsQuery
  <2>. QED BY <1>6, <2>2, <2>3, <2>4
<1>8. ASSUME NEW q \in Queries, ServeFetch(q)
      PROVE  TInv'
  <2>. DEFINE f == IF q = "import" THEN [status |-> status, mapping |-> mapping]
                   ELSE jobs[watched].status
  <2>1. query' = [query EXCEPT ![q].fetch = f] /\ UNCHANGED <<route, form>>
    BY <1>8 DEF ServeFetch
  <2>2. q = "import" => f \in Items
    BY <1>1 DEF ServiceTypeOK, Items
  <2>3. q # "import" => f \in JobStatuses
    <3>1. ASSUME q # "import" PROVE watched \in DOMAIN jobs
      <4>1. watched # 0 /\ watched \in 0..Len(jobs)
        BY <1>8, <3>1 DEF ServeFetch, TInv, HeldOK
      <4>2. jobs \in Seq(Jobs)
        BY <1>1 DEF ServiceTypeOK
      <4>. QED BY <4>1, <4>2
    <3>2. \A i \in DOMAIN jobs : jobs[i] \in Jobs
      BY <1>1 DEF ServiceTypeOK
    <3>. QED BY <3>1, <3>2 DEF Jobs
  <2>. HIDE DEF f
  <2>. QED BY <1>6, <2>1, <2>2, <2>3
<1>9. CASE JobArrives \/ JobFails
  <2>1. /\ query'["import"] = query["import"] /\ DOMAIN query' = Queries
        /\ DOMAIN query'["job"] = {"data", "error", "fetch"}
        /\ query'["job"].data \in JobStatuses \cup {None}
        /\ query'["job"].error \in BOOLEAN /\ query'["job"].fetch = None
    <3>1. CASE JobArrives
      <4>. DEFINE new == [data |-> query["job"].fetch, error |-> FALSE, fetch |-> None]
      <4>1. query' = [query EXCEPT !["job"] = new] /\ new.data \in JobStatuses
        BY <1>1, <3>1 DEF JobArrives, IsQuery
      <4>. QED BY <1>1, <4>1
    <3>2. CASE JobFails
      <4>. DEFINE new == [query["job"] EXCEPT !.error = TRUE, !.fetch = None]
      <4>1. /\ query' = [query EXCEPT !["job"] = new]
            /\ new.data = query["job"].data /\ new.error = TRUE /\ new.fetch = None
            /\ DOMAIN new = {"data", "error", "fetch"}
        BY <1>1, <3>2 DEF JobFails
      <4>. HIDE DEF new
      <4>. QED BY <1>1, <4>1 DEF IsQuery
    <3>. QED BY <1>9, <3>1, <3>2
  <2>2. UNCHANGED <<route, form>>
    BY <1>9 DEF JobArrives, JobFails
  <2>3. Shaped' /\ QueriesOK'
    BY <1>1, <1>5, <2>1 DEF Shaped, QueriesOK, IsQuery
  <2>4. FormOK'
    BY <2>1, <2>2 DEF TInv, FormOK
  <2>. QED BY <1>2, <1>3, <1>4, <2>3, <2>4 DEF TInv
<1>10. ASSUME NEW new, DOMAIN new = {"data", "error", "fetch"}, IsQuery(new, Items),
              Settle(new), route' = route
       PROVE  TInv'
  <2>1. /\ query'["import"] = new /\ query'["job"] = query["job"] /\ DOMAIN query' = Queries
    BY <1>1, <1>10 DEF Settle
  <2>2. Shaped' /\ QueriesOK'
    BY <1>1, <1>5, <1>10, <2>1 DEF Shaped, QueriesOK, IsQuery
  <2>3. CASE route = "import"
    <3>1. form' = FormAfter(new)
      BY <1>10, <2>3 DEF Settle
    <3>2. Paneled(new) => new.data \in Items /\ new.data.mapping \in Mappings \cup {None}
      <4>1. Paneled(new) => new.data \in Items
        BY <1>10 DEF Paneled, IsQuery
      <4>. QED BY <4>1 DEF Items
    <3>3. Paneled(new) => form' \in Mappings
      BY <3>1, <3>2, MappingsMade DEF FormAfter, TInv, FormOK
    <3>4. ~Paneled(new) => form' = None
      BY <3>1 DEF FormAfter
    <3>5. Paneled(query["import"])' <=> Paneled(new)
      BY <2>1 DEF Paneled
    <3>. QED BY <1>10, <2>2, <2>3, <3>3, <3>4, <3>5, <1>2, <1>3, <1>4, NoneIsNoMapping
             DEF TInv, FormOK
  <2>4. CASE route # "import"
    BY <1>2, <1>3, <1>4, <1>10, <2>2, <2>4 DEF Settle, TInv, FormOK
  <2>. QED BY <2>3, <2>4
<1>11. CASE ImportArrives
  <2>. DEFINE new == [data |-> query["import"].fetch, error |-> FALSE, fetch |-> None]
  <2>1. DOMAIN new = {"data", "error", "fetch"} /\ IsQuery(new, Items)
    BY <1>1, <1>11 DEF ImportArrives, IsQuery
  <2>2. Settle(new) /\ route' = route
    BY <1>11 DEF ImportArrives
  <2>. HIDE DEF new
  <2>. QED BY <1>10, <2>1, <2>2
<1>12. CASE ImportFails
  <2>. DEFINE new == [query["import"] EXCEPT !.error = TRUE, !.fetch = None]
  <2>1. DOMAIN new = {"data", "error", "fetch"} /\ IsQuery(new, Items)
    BY <1>1, <1>12 DEF ImportFails, IsQuery
  <2>2. Settle(new) /\ route' = route
    BY <1>12 DEF ImportFails
  <2>. HIDE DEF new
  <2>. QED BY <1>10, <2>1, <2>2
<1>. QED BY <1>7, <1>8, <1>9, <1>11, <1>12

\* Pages open with nothing held, and with the panel of what was read before.
LEMMA PagesTyped ==
    ASSUME TInv, GoElsewhere \/ GoNew \/ OpenImport \/ OpenJob \/ UploadAnswered
    PROVE  TInv'
<1>1. /\ ServiceTypeOK /\ DOMAIN query = Queries
      /\ \A q \in Queries : DOMAIN query[q] = {"data", "error", "fetch"}
      /\ IsQuery(query["import"], Items) /\ IsQuery(query["job"], JobStatuses)
      /\ Queries = {"import", "job"} /\ Len(jobs) \in Nat
  BY DEF TInv, Shaped, QueriesOK, Queries, ServiceTypeOK
<1>2. /\ DOMAIN NoQuery = {"data", "error", "fetch"}
      /\ IsQuery(NoQuery, Items) /\ IsQuery(NoQuery, JobStatuses) /\ ~Paneled(NoQuery)
  BY DEF NoQuery, IsQuery, Paneled
<1>3. UNCHANGED server /\ ServiceTypeOK'
  BY <1>1 DEF GoElsewhere, GoNew, OpenImport, OpenJob, UploadAnswered, Leave, Mount,
              server, ServiceTypeOK
<1>4. pending' = NoMutations /\ PendingOK' /\ DOMAIN pending' = Kinds
  <2>1. pending' = NoMutations
    BY DEF GoElsewhere, GoNew, OpenImport, OpenJob, UploadAnswered, Leave, Mount
  <2>. QED BY <2>1 DEF NoMutations, PendingOK
<1>5. HeldOK'
  <2>1. /\ role' = role /\ storedKey' = storedKey /\ jobs' = jobs
        /\ route' \in Routes /\ file' = None /\ upload' = None /\ jobId' = 0 /\ behind' = {}
    BY DEF GoElsewhere, GoNew, OpenImport, OpenJob, UploadAnswered, Leave, Mount, server,
           Routes
  <2>2. watched' \in {0, watched, jobId}
    BY DEF GoElsewhere, GoNew, OpenImport, OpenJob, UploadAnswered, Mount
  <2>3. watched' \in 0..Len(jobs') /\ 0 \in 0..Len(jobs')
    BY <1>1, <2>1, <2>2 DEF TInv, HeldOK
  <2>. QED BY <2>1, <2>3 DEF TInv, HeldOK
<1>6. CASE GoElsewhere \/ GoNew \/ OpenJob
  <2>1. form' = None /\ route' # "import" /\ FormOK'
    BY <1>6 DEF GoElsewhere, GoNew, OpenJob, Leave, FormOK
  <2>2. DOMAIN [NoQuery EXCEPT !.fetch = Sent] = {"data", "error", "fetch"}
        /\ IsQuery([NoQuery EXCEPT !.fetch = Sent], JobStatuses)
    BY <1>2 DEF IsQuery
  <2>3. /\ DOMAIN query' = Queries
        /\ query'["import"] \in {query["import"], NoQuery}
        /\ query'["job"] \in {query["job"], NoQuery, [NoQuery EXCEPT !.fetch = Sent]}
    BY <1>1, <1>6 DEF GoElsewhere, GoNew, OpenJob
  <2>4. Shaped' /\ QueriesOK'
    BY <1>1, <1>2, <1>4, <2>2, <2>3 DEF Shaped, QueriesOK, IsQuery
  <2>. QED BY <1>3, <1>4, <1>5, <2>1, <2>4 DEF TInv
<1>7. ASSUME NEW q, Mount(q), DOMAIN q = Queries,
             DOMAIN q["import"] = {"data", "error", "fetch"}, IsQuery(q["import"], Items)
      PROVE  TInv'
  <2>1. /\ DOMAIN query' = Queries /\ query'["job"] = NoQuery
        /\ DOMAIN query'["import"] = {"data", "error", "fetch"}
        /\ query'["import"].data = q["import"].data
        /\ query'["import"].error = q["import"].error
        /\ query'["import"].fetch \in {q["import"].fetch, Sent}
    BY <1>1, <1>7 DEF Mount
  <2>2. Shaped' /\ QueriesOK'
    BY <1>1, <1>2, <1>4, <1>7, <2>1 DEF Shaped, QueriesOK, IsQuery
  <2>3. Paneled(query["import"])' <=> Paneled(q["import"])
    BY <2>1 DEF Paneled
  <2>4. Paneled(q["import"]) => q["import"].data.mapping \in Mappings \cup {None}
    <3>1. Paneled(q["import"]) => q["import"].data \in Items
      BY <1>7 DEF Paneled, IsQuery
    <3>. QED BY <3>1 DEF Items
  <2>5. Paneled(q["import"]) => form' \in Mappings
    BY <1>7, <2>4, MappingsMade DEF Mount
  <2>6. ~Paneled(q["import"]) => form' = None
    BY <1>7 DEF Mount
  <2>7. FormOK'
    BY <1>7, <2>3, <2>5, <2>6, NoneIsNoMapping DEF Mount, FormOK
  <2>. QED BY <1>3, <1>4, <1>5, <2>2, <2>7 DEF TInv
<1>8. CASE OpenImport \/ UploadAnswered
  <2>1. Mount(query) => TInv'
    BY <1>1, <1>7
  <2>2. Mount([p \in Queries |-> NoQuery]) => TInv'
    <3>. DEFINE q == [p \in Queries |-> NoQuery]
    <3>1. DOMAIN q = Queries /\ q["import"] = NoQuery
      BY <1>1
    <3>. HIDE DEF q
    <3>2. Mount(q) => TInv'
      BY <1>2, <1>7, <3>1
    <3>. QED BY <3>2 DEF q
  <2>. QED BY <1>8, <2>1, <2>2 DEF OpenImport, UploadAnswered
<1>. QED BY <1>6, <1>8

\* The upload page, the panel and the buttons.
LEMMA ActionsTyped ==
    ASSUME TInv,
           \/ \E f \in Files : ChooseFile(f)
           \/ Upload \/ UploadFailed
           \/ \E f \in Fields, h \in Headers \cup {Blank} : Select(f, h)
           \/ \E k \in Kinds : Click(k) \/ Answered(k) \/ MutationFailed(k)
    PROVE  TInv'
<1>1. /\ DOMAIN query = Queries /\ DOMAIN pending = Kinds /\ "import" \in Queries
      /\ \A q \in Queries : DOMAIN query[q] = {"data", "error", "fetch"}
  BY DEF TInv, Shaped, Queries
<1>2. UNCHANGED server /\ ServiceTypeOK' /\ UNCHANGED <<role, route, watched>>
  BY DEF ChooseFile, Upload, UploadFailed, Select, Click, Answered, MutationFailed,
         server, TInv, ServiceTypeOK
<1>3. CASE (\E f \in Files : ChooseFile(f)) \/ Upload \/ UploadFailed
  <2>1. /\ UNCHANGED <<query, jobId, form, pending, behind, storedKey>>
        /\ file' \in Files \cup {None}
        /\ upload' = None \/ upload' \in [state : {"sent", "created", "refused"}, file : Files]
    BY <1>3 DEF ChooseFile, Upload, UploadFailed, TInv, HeldOK
  <2>. QED BY <1>2, <2>1 DEF TInv, HeldOK, Shaped, PendingOK, QueriesOK, IsQuery, FormOK,
                             Paneled, server
<1>4. ASSUME NEW f \in Fields, NEW h \in Headers \cup {Blank}, Select(f, h)
      PROVE  TInv'
  <2>1. form # None /\ form \in Mappings
    BY <1>4 DEF Select, TInv, FormOK
  <2>2. form' \in Mappings
    BY <1>4, <2>1, MappingsMade DEF Select
  <2>3. form' # None
    BY <2>2, NoneIsNoMapping
  <2>4. UNCHANGED <<file, upload, query, jobId, pending, behind, storedKey>>
    BY <1>4 DEF Select
  <2>5. FormOK'
    BY <1>2, <2>1, <2>2, <2>3, <2>4 DEF TInv, FormOK, Paneled
  <2>. QED BY <1>2, <2>4, <2>5 DEF TInv, HeldOK, Shaped, PendingOK, QueriesOK, IsQuery, server
<1>5. ASSUME NEW k \in Kinds, Click(k)
      PROVE  TInv'
  <2>1. /\ UNCHANGED <<file, upload, query, jobId, form, behind>>
        /\ storedKey' = IF k = "confirm" THEN ConfirmKey ELSE storedKey
    BY <1>5 DEF Click
  <2>2. ConfirmKey \in Nat
    BY DEF ConfirmKey, TInv, HeldOK
  <2>3. PendingOK'
    <3>. DEFINE b == IF k = "save" THEN form ELSE IF k = "confirm" THEN ConfirmKey ELSE None
                a == [state |-> "sent", body |-> b]
    <3>1. k = "save" => b \in Mappings
      BY <1>5 DEF Click, Offered, TInv, FormOK
    <3>2. k = "confirm" => b \in Nat
      BY <2>2
    <3>3. pending' = [pending EXCEPT ![k] = a]
      BY <1>5 DEF Click
    <3>. HIDE DEF b
    <3>4. a.state = "sent" /\ a.body = b
      OBVIOUS
    <3>. HIDE DEF a
    <3>. QED BY <1>1, <1>2, <3>1, <3>2, <3>3, <3>4 DEF TInv, PendingOK, server
  <2>4. DOMAIN pending' = Kinds
    BY <1>1, <1>5 DEF Click
  <2>. QED BY <1>2, <2>1, <2>2, <2>3, <2>4 DEF TInv, HeldOK, Shaped, QueriesOK, IsQuery,
                                               FormOK, Paneled, server
<1>6. ASSUME NEW k \in Kinds, Answered(k)
      PROVE  TInv'
  <2>. DEFINE a == [state |-> "refreshing"]
  <2>1. /\ UNCHANGED <<file, upload, form, storedKey>>
        /\ behind' = behind \cup {k}
        /\ jobId' \in {jobId, pending[k].job}
        /\ query' = [query EXCEPT !["import"].fetch = Sent]
        /\ pending' = [pending EXCEPT ![k] = a]
        /\ pending[k] # None /\ pending[k].state = "ok"
    BY <1>6 DEF Answered, Invalidated
  <2>2. jobId' \in 0..Len(jobs')
    BY <1>2, <2>1 DEF TInv, HeldOK, PendingOK, server
  <2>3. a.state = "refreshing"
    OBVIOUS
  <2>. HIDE DEF a
  <2>4. PendingOK' /\ DOMAIN pending' = Kinds
    BY <1>1, <1>2, <2>1, <2>3 DEF TInv, PendingOK, server
  <2>5. /\ DOMAIN query' = Queries
        /\ \A p \in Queries : /\ DOMAIN query'[p] = {"data", "error", "fetch"}
                              /\ query'[p].data = query[p].data
                              /\ query'[p].error = query[p].error
                              /\ query'[p].fetch \in {query[p].fetch, Sent}
    BY <1>1, <2>1
  <2>6. Shaped' /\ QueriesOK' /\ FormOK'
    BY <1>2, <2>1, <2>4, <2>5 DEF TInv, Shaped, QueriesOK, IsQuery, FormOK, Paneled, Queries
  <2>7. HeldOK'
    <3>1. /\ role' = role /\ route' = route /\ watched' = watched /\ jobs' = jobs
          /\ file' = file /\ upload' = upload /\ storedKey' = storedKey
      BY <1>2, <2>1 DEF server
    <3>2. behind' \subseteq Kinds
      BY <2>1 DEF TInv, HeldOK
    <3>. QED BY <2>2, <3>1, <3>2 DEF TInv, HeldOK
  <2>. QED BY <1>2, <2>4, <2>6, <2>7 DEF TInv
<1>7. ASSUME NEW k \in Kinds, MutationFailed(k)
      PROVE  TInv'
  <2>1. /\ UNCHANGED <<file, upload, query, jobId, form, behind, storedKey>>
        /\ pending' = [pending EXCEPT ![k] = None]
    BY <1>7 DEF MutationFailed
  <2>2. PendingOK' /\ DOMAIN pending' = Kinds
    BY <1>1, <1>2, <2>1 DEF TInv, PendingOK, server
  <2>. QED BY <1>2, <2>1, <2>2 DEF TInv, HeldOK, Shaped, QueriesOK, IsQuery, FormOK,
                                   Paneled, server
<1>. QED BY <1>3, <1>4, <1>5, <1>6, <1>7

\* The types of the tab and of the server, and with them that there is a form
\* exactly while the page shows the mapping panel.
THEOREM PageTypes == Spec => []TypeOK
<1>1. Init => TInv
  <2>1. SUFFICES ASSUME Init PROVE TInv
    OBVIOUS
  <2>2. jobs = <<>> /\ jobs \in Seq(Jobs) /\ Len(jobs) = 0 /\ 0 \in 0..Len(jobs)
    BY <2>1 DEF Init, ServiceInit
  <2>3. ServiceTypeOK
    <3>1. 0 \in 0 .. MaxAgain /\ Len(jobs) <= MaxJobs
      BY <2>2, JobBound
    <3>. QED BY <2>1, <2>2, <3>1 DEF Init, ServiceInit, ServiceTypeOK, Statuses
  <2>4. Shaped /\ PendingOK
    BY <2>1 DEF Init, Shaped, PendingOK, NoMutations, NoQuery
  <2>5. HeldOK
    BY <2>1, <2>2 DEF Init, HeldOK, Routes
  <2>6. query["import"] = NoQuery /\ query["job"] = NoQuery /\ IsQuery(NoQuery, Items)
        /\ IsQuery(NoQuery, JobStatuses)
    BY <2>1 DEF Init, Queries, NoQuery, IsQuery
  <2>. QED BY <2>1, <2>3, <2>4, <2>5, <2>6 DEF TInv, Init, QueriesOK, FormOK
<1>2. TInv /\ UNCHANGED vars => TInv'
  BY DEF vars, server, tab, TInv, ServiceTypeOK, Shaped, PendingOK, HeldOK, QueriesOK, IsQuery,
         FormOK, Paneled
<1>3. TInv /\ [Next]_vars => TInv'
  BY <1>2, ServeTyped, QueriesTyped, PagesTyped, ActionsTyped DEF Next
<1>4. TInv => TypeOK
  BY DEF TInv, PendingOK, HeldOK, QueriesOK, FormOK, TypeOK
<1>. QED BY <1>1, <1>3, <1>4, PTL DEF Spec
=============================================================================
