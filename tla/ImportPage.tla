----------------------------- MODULE ImportPage -----------------------------
(* A tab on its way through an import: the upload page, the import's page    *)
(* with the mapping panel, and the page of a background job, over the API of *)
(* ImportService.  frontend/src/routes/_layout/imports/new.tsx,              *)
(* imports/$importId.tsx, jobs/$jobId.tsx and features/api/fdeApi.ts.        *)
(* Other tabs and users are modelled by what they ask of the server.         *)
EXTENDS ImportService

CONSTANTS
    Files,       \* files at hand, [csv, large, readable : BOOLEAN]
    MaxPending,  \* bound: mutations of the page under way at a time
    Sent         \* a fetch the server has not answered

VARIABLES
    role,        \* user.role
    route,       \* the page the tab shows
    file,        \* NewImportPage: the file chosen
    upload,      \* NewImportPage: the upload mutation
    query,       \* cache entries ["import", importId] and ["job", jobId]
    jobId,       \* ImportDetailPage: the job its last action started; 0: none
    watched,     \* JobDetailPage: the job of the URL
    form,        \* MappingPanel: the mapping edited; None: no panel is mounted
    pending,     \* the mutations of the import's page
    behind,      \* mutations answered whose outcome the page has not read yet
    storedKey    \* localStorage "fde-confirm-<importId>"; 0: no such entry

tab == <<role, file, upload, query, jobId, watched, form, pending, behind, storedKey>>
vars == <<server, route, tab>>

Kinds == {"save", "validate", "confirm", "retry", "cancel"}
Routes == {"new", "import", "job", "elsewhere"}

Items == [status : Statuses, mapping : Mappings \cup {None}]
Queries == {"import", "job"}

\* A query: its data, whether its last fetch failed, and the fetch under way,
\* Sent until the server has answered with what it will bring.
NoQuery == [data |-> None, error |-> FALSE, fetch |-> None]

\* A mutation: "sent" until the server has acted, "refreshing" while onSuccess
\* waits for the import to be read again.
Mutation == [state : {"sent"}, body : Mappings \cup Nat \cup {None}]
            \cup [state : {"ok"}, job : Nat]
            \cup [state : {"invalid"}, body : Mappings]
            \cup [state : {"conflict", "refreshing"}]

IsQuery(q, Data) ==
    /\ q.data \in Data \cup {None}
    /\ q.error \in BOOLEAN
    /\ q.fetch \in Data \cup {None, Sent}

\* The query new lets the page render the mapping panel.
Paneled(new) == new.data # None /\ ~new.error /\ new.data.status \in {"uploaded", "mapped"}

TypeOK ==
    /\ ServiceTypeOK
    /\ role \in {"operator", "viewer"}
    /\ route \in Routes
    /\ file \in Files \cup {None}
    /\ upload = None \/ upload \in [state : {"sent", "created", "refused"}, file : Files]
    /\ IsQuery(query["import"], Items)
    /\ IsQuery(query["job"], JobStatuses)
    /\ jobId \in 0..Len(jobs)
    /\ watched \in 0..Len(jobs)
    /\ form # None => form \in Mappings
    /\ form # None <=> route = "import" /\ Paneled(query["import"])
    /\ \A k \in Kinds : pending[k] = None \/ pending[k].state \in
          {"sent", "ok", "invalid", "conflict", "refreshing"}
    /\ behind \subseteq Kinds
    /\ storedKey \in Nat

ASSUMPTION NoneIsNoMutation == None \notin Mutation
ASSUMPTION NoneIsNoMapping == None \notin Mappings

NoMutations == [k \in Kinds |-> None]

Init ==
    /\ ServiceInit
    /\ role \in {"operator", "viewer"}
    /\ route = "elsewhere"
    /\ file = None /\ upload = None
    /\ query = [q \in Queries |-> NoQuery]
    /\ jobId = 0 /\ watched = 0
    /\ form = None
    /\ pending = NoMutations
    /\ behind = {}
    /\ storedKey = 0

canMutate == role = "operator"
item == query["import"].data

\* The page renders the import, not the error or the loading state.
Rendered == route = "import" /\ item # None /\ ~query["import"].error
---------------------------------------------------------------------------
(* React Query                                                              *)

\* A second caller joins the fetch under way.
Fetching(q) == [query EXCEPT ![q].fetch = IF @ = None THEN Sent ELSE @]

\* invalidateQueries cancels it instead; only a mounted query is read again.
Invalidated == [query EXCEPT !["import"].fetch = Sent]

\* The panel's state starts from the mapping of the import.
\* Mutant: the panel's state outlives the panel.
FormAfterKept(new) ==
    IF form # None THEN form
    ELSE IF ~Paneled(new) THEN None
    ELSE IF new.data.mapping = None THEN [f \in {} |-> Blank] ELSE new.data.mapping
FormAfter(new) ==
    IF ~Paneled(new) THEN None
    ELSE IF form # None THEN form
    ELSE IF new.data.mapping = None THEN [f \in {} |-> Blank] ELSE new.data.mapping

\* The fetch of the import has ended: mutations waiting for it are done, and
\* the mutation of a panel that is no longer there is nobody's.
Refreshed(new) ==
    [k \in Kinds |-> IF pending[k] = None THEN None
                     ELSE IF pending[k].state = "refreshing" THEN None
                     ELSE IF k = "save" /\ ~Paneled(new) THEN None
                     ELSE pending[k]]

ServeFetch(q) ==
    /\ query[q].fetch = Sent
    /\ IF q = "import" THEN status # "none" ELSE watched # 0
    /\ query' = [query EXCEPT ![q].fetch =
          IF q = "import" THEN [status |-> status, mapping |-> mapping]
          ELSE jobs[watched].status]
    /\ UNCHANGED <<server, route, role, file, upload, jobId, watched, form,
                   pending, behind, storedKey>>

Settle(new) ==
    /\ query' = [query EXCEPT !["import"] = new]
    /\ IF route = "import"
       THEN form' = FormAfter(new) /\ pending' = Refreshed(new)
       ELSE UNCHANGED <<form, pending>>

ImportArrives ==
    /\ query["import"].fetch \notin {None, Sent}
    /\ Settle([data |-> query["import"].fetch, error |-> FALSE, fetch |-> None])
    /\ behind' = {}
    /\ UNCHANGED <<server, route, role, file, upload, jobId, watched, storedKey>>

\* All attempts of a fetch failed; data fetched before is kept.
ImportFails ==
    /\ query["import"].fetch # None
    /\ Settle([query["import"] EXCEPT !.error = TRUE, !.fetch = None])
    /\ UNCHANGED <<server, route, role, file, upload, jobId, watched, behind, storedKey>>

JobArrives ==
    /\ query["job"].fetch \notin {None, Sent}
    /\ query' = [query EXCEPT !["job"] =
                    [data |-> query["job"].fetch, error |-> FALSE, fetch |-> None]]
    /\ UNCHANGED <<server, route, role, file, upload, jobId, watched, form,
                   pending, behind, storedKey>>

JobFails ==
    /\ query["job"].fetch # None
    /\ query' = [query EXCEPT !["job"].error = TRUE, !["job"].fetch = None]
    /\ UNCHANGED <<server, route, role, file, upload, jobId, watched, form,
                   pending, behind, storedKey>>

\* The window regains the focus, or the Retry button of the job's page.
Focus ==
    /\ route \in Queries
    /\ query' = Fetching(route)
    /\ UNCHANGED <<server, route, role, file, upload, jobId, watched, form,
                   pending, behind, storedKey>>

\* Mutant: the started job is forgotten.
ImportPollsValidating ==
    /\ item # None
    /\ item.status = "validating"

\* refetchInterval, while the tab is visible; an error does not stop it.
ImportPolls ==
    /\ item # None
    /\ item.status \notin {"completed", "failed", "cancelled"}
    /\ jobId # 0 \/ item.status = "validating"

JobPolls == query["job"].data \in {"queued", "running", "cancel_requested"}

Poll ==
    /\ \/ route = "import" /\ ImportPolls
       \/ route = "job" /\ JobPolls
    /\ query' = Fetching(route)
    /\ UNCHANGED <<server, route, role, file, upload, jobId, watched, form,
                   pending, behind, storedKey>>
---------------------------------------------------------------------------
(* Coming and going.  What a page's component holds ends with it; requests   *)
(* it has sent may still reach the server, see Elsewhere.                    *)

Leave(to) ==
    /\ route' = to
    /\ file' = None /\ upload' = None
    /\ jobId' = 0
    /\ form' = None
    /\ pending' = NoMutations
    /\ behind' = {}
    /\ UNCHANGED <<server, role, storedKey>>

\* A link to another page; the cache of the import stays for a while.
GoElsewhere ==
    /\ route # "elsewhere"
    /\ Leave("elsewhere")
    /\ watched' = 0
    /\ query' \in {[query EXCEPT !["job"] = NoQuery], [q \in Queries |-> NoQuery]}

\* Bound: once the import is there, the page would only make others.
GoNew ==
    /\ route = "elsewhere" /\ status = "none"
    /\ Leave("new")
    /\ UNCHANGED <<query, watched>>

\* From the list of imports, the upload page or a job's page, or by loading
\* the URL anew.
Mount(q) ==
    /\ route' = "import"
    /\ file' = None /\ upload' = None /\ jobId' = 0 /\ watched' = 0
    /\ pending' = NoMutations /\ behind' = {}
    /\ query' = [q EXCEPT !["import"].fetch = IF @ = None THEN Sent ELSE @,
                          !["job"] = NoQuery]
    /\ form' = IF ~Paneled(q["import"]) THEN None
               ELSE IF q["import"].data.mapping = None THEN [f \in {} |-> Blank]
               ELSE q["import"].data.mapping
    /\ UNCHANGED <<server, role, storedKey>>

OpenImport ==
    \/ route = "elsewhere" /\ status # "none" /\ Mount(query)
    \/ route = "job" /\ query["job"].data # None /\ ~query["job"].error /\ Mount(query)
    \/ route = "import" /\ Mount([q \in Queries |-> NoQuery])

\* "View job status".
OpenJob ==
    /\ Rendered /\ jobId # 0
    /\ Leave("job")
    /\ watched' = jobId
    /\ query' = [query EXCEPT !["job"] = [NoQuery EXCEPT !.fetch = Sent]]
---------------------------------------------------------------------------
(* NewImportPage                                                            *)

\* chooseFile; a name that does not end in ".csv" or a size above
\* MAX_FILE_BYTES leaves no file chosen.
ChooseFile(f) ==
    /\ route = "new" /\ canMutate
    /\ file' = IF f.csv /\ ~f.large THEN f ELSE None
    /\ UNCHANGED <<server, route, role, upload, query, jobId, watched, form,
                   pending, behind, storedKey>>

\* One import is followed: further uploads make others.
Upload ==
    /\ route = "new" /\ file # None /\ upload = None
    /\ upload' = [state |-> "sent", file |-> file]
    /\ UNCHANGED <<server, route, role, file, query, jobId, watched, form,
                   pending, behind, storedKey>>

\* upload_import: the name, UPLOAD_MAX_BYTES, inspect_csv.
Acceptable(f) == f.csv /\ ~f.large /\ f.readable

ServeUpload ==
    /\ upload # None /\ upload.state = "sent"
    /\ \/ /\ Acceptable(upload.file) /\ status = "none"
          /\ UploadImport
          /\ upload' = [upload EXCEPT !.state = "created"]
       \/ /\ ~Acceptable(upload.file)
          /\ upload' = [upload EXCEPT !.state = "refused"]
          /\ UNCHANGED server
    /\ UNCHANGED <<route, role, file, query, jobId, watched, form, pending,
                   behind, storedKey>>

\* onSuccess navigates to the import.
UploadAnswered ==
    /\ upload # None /\ upload.state = "created"
    /\ Mount(query)

\* An error, an answer that got lost included, is shown; the file stays.
UploadFailed ==
    /\ upload # None
    /\ upload' = None
    /\ UNCHANGED <<server, route, role, file, query, jobId, watched, form,
                   pending, behind, storedKey>>
---------------------------------------------------------------------------
(* MappingPanel                                                             *)

\* Columns another field has are disabled in the list; "Do not import" gives
\* the field an empty column, it does not remove the field.
Select(f, h) ==
    /\ Rendered /\ form # None /\ canMutate
    /\ h = Blank \/ \A g \in DOMAIN form \ {f} : form[g] # h
    /\ form' = [g \in DOMAIN form \cup {f} |-> IF g = f THEN h ELSE form[g]]
    /\ UNCHANGED <<server, route, role, file, upload, query, jobId, watched,
                   pending, behind, storedKey>>

isComplete == \A f \in Required : f \in DOMAIN form /\ form[f] # Blank
---------------------------------------------------------------------------
(* The actions of the import's page                                         *)

\* The buttons, by the import the page shows, some of whose rows are accepted.
Offered(k) ==
    CASE k = "save" -> form # None /\ isComplete
      [] k = "validate" -> item.status = "mapped"
      [] k = "confirm" -> item.status = "validated"
      [] k = "retry" -> item.status = "failed"
      [] k = "cancel" -> item.status \in {"uploaded", "mapped", "validating", "validated"}

\* Mutant: every confirmation has a key of its own.
ConfirmKeyAnew == storedKey + 1

\* The key of the confirmation is made once and kept in localStorage.
ConfirmKey == IF storedKey = 0 THEN 1 ELSE storedKey

\* Bounds: so many mutations at a time, and none once a job has gone on again,
\* which happens beside none.
Room == again = 0 /\ Cardinality({k \in Kinds : pending[k] # None}) < MaxPending

Click(k) ==
    /\ Rendered /\ canMutate
    /\ Offered(k)
    /\ pending[k] = None /\ Room
    /\ pending' = [pending EXCEPT ![k] = [state |-> "sent", body |->
          IF k = "save" THEN form ELSE IF k = "confirm" THEN ConfirmKey ELSE None]]
    /\ storedKey' = IF k = "confirm" THEN ConfirmKey ELSE storedKey
    /\ UNCHANGED <<server, route, role, file, upload, query, jobId, watched,
                   form, behind>>

\* The server acts on a mutation and answers.
Answer(k, a) ==
    /\ pending' = [pending EXCEPT ![k] = a]
    /\ UNCHANGED <<route, role, file, upload, query, jobId, watched, form,
                   behind, storedKey>>

IsSent(k) == pending[k] # None /\ pending[k].state = "sent"
Ok(job) == [state |-> "ok", job |-> job]

ServeSave ==
    /\ IsSent("save")
    /\ \/ SetMapping(pending["save"].body) /\ Answer("save", Ok(0))
       \/ /\ Mappable /\ ~ValidMapping(pending["save"].body)
          /\ Answer("save", [state |-> "invalid", body |-> pending["save"].body])
          /\ UNCHANGED server

\* validate, confirm and retry answer with the id of the job.
ServeStart ==
    \/ /\ IsSent("validate") /\ ValidateImport
       /\ Answer("validate", Ok(Len(jobs')))
    \/ /\ IsSent("confirm") /\ ConfirmImport(pending["confirm"].body)
       /\ \E j \in Newest({i \in DOMAIN jobs' : jobs'[i].kind = "confirm"}) :
             Answer("confirm", Ok(j))
    \/ /\ IsSent("retry") /\ RetryImport
       /\ Answer("retry", Ok(Len(jobs')))

ServeCancel ==
    /\ IsSent("cancel")
    /\ CancelImport
    /\ Answer("cancel", Ok(0))

Refuse(k) ==
    /\ IsSent(k)
    /\ Conflict(k, pending[k].body)
    /\ Answer(k, [state |-> "conflict"])
    /\ UNCHANGED server

\* Mutant: the mutation does not wait for the refresh.
AnsweredAtOnce(k) ==
    /\ pending[k] # None /\ pending[k].state = "ok"
    /\ pending' = [pending EXCEPT ![k] = None]
    /\ jobId' = IF k \in {"validate", "confirm", "retry"} THEN pending[k].job ELSE jobId
    /\ query' = Invalidated
    /\ behind' = behind \cup {k}
    /\ UNCHANGED <<server, route, role, file, upload, watched, form, storedKey>>

\* onSuccess: setJobId, then refreshImport, for which the mutation waits.
Answered(k) ==
    /\ pending[k] # None /\ pending[k].state = "ok"
    /\ pending' = [pending EXCEPT ![k] = [state |-> "refreshing"]]
    /\ jobId' = IF k \in {"validate", "confirm", "retry"} THEN pending[k].job ELSE jobId
    /\ query' = Invalidated
    /\ behind' = behind \cup {k}
    /\ UNCHANGED <<server, route, role, file, upload, watched, form, storedKey>>

\* A refusal, or a request or an answer that got lost: the error is shown.
MutationFailed(k) ==
    /\ pending[k] # None /\ pending[k].state # "refreshing"
    /\ pending' = [pending EXCEPT ![k] = None]
    /\ UNCHANGED <<server, route, role, file, upload, query, jobId, watched,
                   form, behind, storedKey>>
---------------------------------------------------------------------------
\* Another user's requests, and those of this browser that arrive after their
\* page was left: a confirmation of it carries the stored key.
Elsewhere ==
    /\ status # "none"
    /\ \/ \E m \in Mappings : SetMapping(m)
       \/ ValidateImport \/ RetryImport \/ CancelImport
       \/ \E k \in {0, storedKey} : ConfirmImport(k)
    /\ UNCHANGED <<route, tab>>

Worker ==
    /\ \E j \in DOMAIN jobs : Work(j)
    /\ again' = again \/ pending = NoMutations
    /\ UNCHANGED <<route, tab>>

Serve == ServeUpload \/ ServeSave \/ ServeStart \/ ServeCancel \/ \E k \in Kinds : Refuse(k)

Next ==
    \/ \E q \in Queries : ServeFetch(q)
    \/ ImportArrives \/ ImportFails \/ JobArrives \/ JobFails
    \/ Focus \/ Poll
    \/ GoElsewhere \/ GoNew \/ OpenImport \/ OpenJob
    \/ \E f \in Files : ChooseFile(f)
    \/ Upload \/ UploadAnswered \/ UploadFailed
    \/ \E f \in Fields, h \in Headers \cup {Blank} : Select(f, h)
    \/ \E k \in Kinds : Click(k) \/ Answered(k) \/ MutationFailed(k)
    \/ Serve \/ Elsewhere \/ Worker

Spec == Init /\ [][Next]_vars

\* A visible tab polls; every request ends; a request made again and again is
\* answered in the end.
Fairness ==
    /\ WF_vars(Poll)
    /\ \A q \in Queries : SF_vars(ServeFetch(q))
    /\ SF_vars(ImportArrives)
    /\ SF_vars(JobArrives)

FairSpec == Spec /\ Fairness
---------------------------------------------------------------------------
(* Properties                                                               *)

\* A confirmation this browser brought through is recognised as its own for
\* ever: asked again after a lost answer, a reload or in another tab, the
\* server does not speak of another key ($importId.tsx:103-108).
OwnConfirmationIsRecognised == key \notin {None, 0} => key = storedKey

\* The user is not offered to repeat what the page has been told is done: a
\* button comes back only after the import has been read again, although the
\* buttons are drawn from the cache ($importId.tsx:87-124).
NothingDoneIsOffered ==
    [][\A k \in Kinds : Click(k) => k \notin behind]_vars

\* The page shows work under way that has gone on: the import's page, which
\* started the work or shows a validation, a status the import no longer has
\* ($importId.tsx:70-76), or the job's page one its job no longer has
\* (jobs/$jobId.tsx:22-27).
Outdated ==
    \/ /\ route = "import" /\ item # None
       /\ item.status \notin {status, "completed", "failed", "cancelled"}
       /\ jobId # 0 \/ item.status = "validating"
    \/ route = "job" /\ JobPolls /\ query["job"].data # jobs[watched].status

\* No page is left showing work under way that has gone on.  An end that was
\* shown stops the polling, although a failed job may be started again by the
\* retry of its message, or a job be queued again (worker.py:50, jobs.py:95,
\* 409): what becomes of it then is seen only when the page is looked at again.
\* Without a job of its own the import's page follows a validation only.
WorkIsFollowed == []<>~Outdated
=============================================================================
