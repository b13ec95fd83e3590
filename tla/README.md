# TLA+ verification of the contact import service

The repository is a template for a deployable service: an operator uploads a
CSV file, maps its columns, has it validated in the background, confirms it
with an idempotency key, and the accepted rows enter a contact directory. The
interesting part is everything between the click and the directory: two
background jobs per import, a transactional outbox, a Celery queue in Redis
that redelivers, workers that die, a reconciler that requeues, and requests
that read and write without a lock. These modules model that part, the accounts of
the people who use it, and the browser application in front of them, whose pages
act on answers that are late and on caches that are behind. They model-check
all of it on small instances and prove central properties for every instance.

## Inventory

| Part | State | Operations | Interacts with |
|---|---|---|---|
| Import API, `backend/app/api/routes/imports.py` | rows of `import_batch` | upload, set mapping, validate, confirm, cancel, retry | writes `job` and `job_outbox` rows through `enqueue_job`; reads in one statement and writes in a later one where no `FOR UPDATE` is taken |
| Job worker, `worker.py`, `services/jobs.py` | `job`, `job_attempt`, `validation_row`, `contact`, report objects | `_start_attempt`, `_cancel_if_requested`, `_fail_attempt`, `run_validation`, `run_confirmation` | takes messages from Redis, acknowledges late, is retried for `OSError` |
| Outbox publisher, `outbox_publisher.py` | `job_outbox.published_at` | `publish_batch`, the loop that also reconciles | sends messages, reads committed rows |
| Reconciler, `reconcile_stalled_jobs` | none of its own | select stale jobs, requeue them | run by the publisher's loop and by every starting worker |
| Broker (Redis) | waiting messages | deliver, redeliver, lose | external |
| CSV parsing, `services/csv_import.py` | none | parse, validate and classify rows, build reports | called by the worker and by upload |
| Object storage, `services/storage.py`, `cleanup_storage.py` | uploads and reports | put, get, delete by age | API and worker |
| Users, login, tokens, `routes/users.py`, `routes/login.py`, `deps.py`, `crud.py` | `user` rows, token versions | create, update, disable, change and reset passwords | every request |
| Login limiter, `services/login_rate_limit.py` | one Redis counter per identity | `INCR`, `EXPIRE` | login |
| Audit rows and keyset pagination, `services/audit.py`, `api/pagination.py` | `audit_event` rows | insert with the change, read pages below a cursor | the lists of the frontend |
| Browser session, `main.tsx`, `useAuth.ts`, `login.tsx`, `_layout.tsx`, `settings.tsx` | the token in `localStorage`, which all tabs share; the identity in each tab's query cache | sign in, sign out, guard routes, end the session at 401 or 403 | every request carries the stored token |
| Import pages, `imports/new.tsx`, `imports/$importId.tsx`, `jobs/$jobId.tsx` | the cached import and job, the mapping being edited, mutations under way, the confirmation key in `localStorage` | choose a file, upload, map, validate, confirm, retry, cancel, poll | Import API |
| Users page and lists, `admin.tsx`, `audit.tsx`, `directory.tsx` | the cached users, dialogs, temporary passwords on display; cached pages of a list | create, update, reset; filter, refresh, load more | Users, audit, contacts |
| Generated API client, `client/` | configuration, event streams | build a URL, headers and a body; settle; read a stream and reconnect | every page; the application opens no stream |
| Frame of the pages, `theme-provider.tsx`, `sidebar.tsx`, `useMobile.ts` | theme in `localStorage`, sidebar in a cookie, what each tab rendered | choose, toggle, follow media queries | tabs share cookie and storage |
| Health checks, dashboard, worker metrics, logging | none | read | none that feeds back |
| Operations CLI, `tooling/fde` | release and bootstrap files, cloud resources | deploy, gate, bootstrap | cloud tools |
| Expiry workflow, `infra/terraform/modules/expiry` | cloud resources | sentinel, cleanup, recovery | cloud APIs |
| Styled components, Helm, Terraform, CI | none that the service's behaviour depends on | | |

What is hard: two deliveries of one message at once; a job that is cancelled,
retried or reconciled while a worker runs it; a message lost after the outbox
row says it was published; a worker that dies between two commits; two jobs of
one import alive together; two imports with the same emails; and requests that
decide on a row they read without a lock. In the browser: a token another tab
replaced while a page was shown; a button drawn from data that an action has
just made old; an answer that is lost after the server acted; pages of a list
read at different times; a page that stops polling before the work has ended.
`PROJECT.json` lists each hazard at
its line, with the properties that cover it.

What makes each part correct:

* API: one key and one confirmation per import however often it is clicked;
  an import that failed can be retried; a cancellation that is accepted wins.
* Worker: attempts are bounded and recorded; one worker runs a job at a time;
  a status never promises a report or contacts that are not there.
* Publisher and reconciler: every committed job comes to an outcome. Reconcilers are
  not serialised, so one worker per job and final success are promised of the jobs no
  late write of a reconciler has put back after they were taken up.
* Directory: contacts enter only under an accepted key, none is overwritten.
* Accounts: a change or a reset of a password ends the sessions begun before; a
  generated password has to be changed; what was refused stays refused. Requests that
  change an account are not serialised either: this is promised of the users whose row
  no request has written over a change it had not read.
* Browser session: a refused session ends; the identity shown becomes that of the
  requests; what the identity in use offers is allowed.
* Import pages: what is done is not offered again; work in progress is followed;
  a confirmation repeated is recognised.
* Lists: no row twice, none left out, and what a change has told the page shows.
* API client: a URL says what was meant, unless an id is made of dots; the token goes
  where it is declared; an event arrives once.
* Frame: a tab shows the latest choice and follows its window and system.

## Modules

| Module | What it models |
|---|---|
| `ImportState` | constants and their assumptions, the tables, the broker, what each process holds between two transactions, `Init`, `TypeOK` |
| `ImportApi` | the mutating handlers of `imports.py` and `enqueue_job` |
| `JobWorker` | `process_job`: delivery, `run_validation`, `run_confirmation`, failure, Celery's retry, crash |
| `JobDelivery` | publishing an outbox row, losing the broker, selecting and requeueing stale jobs |
| `ImportSystem` | the composition; invariants, action properties, fairness, liveness |
| `Directory` | the abstract specification: what imports promise the contact table |
| `DeliveryHistory` | `ImportSystem` with a history variable, the jobs a reconciler put back although they had been taken up; one worker per job, and success that is final, of the others |
| `ImportProofs` | the inductive invariant `IInv` and its proof, action by action; the refinement; attempts, confirmations, one worker per job, cancellations that win, failures that can be retried, reports that exist |
| `MCImport`, `MCDelivery`, `MCAccounts` | the definitions the TLC instances need |
| `Accounts` | users, passwords and tokens: login, password changes, the administrator's updates; its properties, with history variables for the users they except |
| `AccountsProofs` | its types, its inductive invariant and its safety theorems, for any number of requests |
| `BrowserSession` | one tab over the shared token: sign-ins, guards, queries with their retries, password change and upload, and what other tabs and the server do meanwhile |
| `BrowserProofs` | the upload that is offered, and the types, proved |
| `ImportService` | the import API, its workers and reconcilers as a browser sees them: accepted requests, refusals, statuses |
| `ImportPage`, `MCImportPage` | the pages of an import over `ImportService`, their cache, polling and mutations |
| `PageProofs` | the confirmation key, the buttons of the page and the types, proved |
| `PagedList` | a filtered list read page by page below a cursor, over rows committed out of order |
| `AdminConsole` | the users page and, as a `PagedList`, the audit activity its changes leave |
| `ConsoleProofs` | the list of users, proved current; the list read page by page, proved to have every row once and in order |
| `Serialization` | the styles of OpenAPI parameters, percent-encoding, dot segments, and how a server reads them back |
| `ApiClient` | overlapping requests: configuration, token, URL, headers, body, outcome |
| `EventStream` | the reader of server-sent events: line ends, parsing line by line, reconnection, back-off, abort |
| `GeneratedClient`, `MCGeneratedClient` | the client as a whole: requests, a stream, or a sample of a parameter |
| `ClientProofs` | events that come once and in order, tokens where they are declared, parameters, paths, queries and forms that are read as they were meant, and the types, proved |
| `SequenceLemmas` | induction, sequences end to end, mapped and flattened, and folds: the facts `ConsoleProofs` and `ClientProofs` share |
| `Shell` | theme and sidebar of several tabs: storage, cookie, media queries, effects after renders |
| `ShellProofs` | its inductive invariant and theorems |

### How state and actions correspond to the code

A step is a database transaction, or a stretch between two of them that other
processes can observe or fall into.

* `batch[i]` is the `import_batch` row with the accepted `validation_row`s
  folded in: `mapping`, `key` (the accepted `Idempotency-Key`), `started`
  (`confirmation_started_at` is set), `accepted`, and the emails counted as
  `inserted` and `skipped`. Status `importing` is written and overwritten in
  one transaction and never seen.
* `job`, `attempt`, `outbox`, `contacts` are the tables. A job id is its
  creation order, which is what `ORDER BY created_at DESC` looks at.
* `report[i]` is the accepted report object. It is stored before the
  transaction commits, so it has a step of its own.
* `queue[m]` counts the copies of a message in Redis; a message is a job and
  its Celery retry number.
* `worker[w]` is what a child holds: `validate` → `fetch` → `classify` →
  `commit` for a validation, `confirm` for a confirmation. Between `classify`
  and `CommitValidation` the worker holds the job row's lock (`Locked`);
  everything that needs that row waits.
* `session[s]` is a request that has read and not yet written:
  `set_mapping`, `cancel_import` and `retry_import` read the import without a
  lock. `validate_import` and `confirm_import` lock it and are one step.
  `Flushed` is SQLAlchemy's unit of work: an UPDATE writes only the columns
  whose value differs from the one loaded.
* `recon[r]` is a reconciler between its `SELECT` and its writes.

A CSV file is the set of valid normalized emails it yields under a mapping
(`ValidEmails`); rows, names and error texts do not influence the control.
Time is not modelled. A queued job may count as stale as soon as its row is
published. A running job may count as stale only when no worker runs it: an
attempt refreshes the heartbeat when it starts, is killed after
`CELERY_TASK_TIME_LIMIT_SECONDS` (600), and a heartbeat is stale after
`JOB_STALE_SECONDS` (900). The broker's visibility timeout (1200 s) exceeds the
time limit, so a delivery is not repeated while its worker lives; a killed
child's message is returned (`task_reject_on_worker_lost`), the message of a
child that hit the hard limit is acknowledged, and `Crash` admits both.

In `Accounts` no statement locks a user row, so a request is a read and a later
write. `request[r]` is what its session has loaded, `account[u]` the row,
`tokens` every access token handed out. `LoginRead`, `LoginRehash`,
`LoginRefresh` and `LoginIssue` are `login_access_token` cut at its statements
and its commit; `ChangeRead` and `AdminRead` are the dependencies `CurrentUser`
and `AdminUser`, `TargetRead` is `get_user`, and the `...Commit` actions are the
rest of each handler. A password is the number, among its user's passwords, in
which it was set, and whether the server generated it; a token also remembers
which password obtained it, which no code looks at. Names, emails, expiry and
the roles other than administrator are left out, and migrated users start
enabled.

One simplification of the worker: its writes to `import_batch.status` always
happen. Where the session had loaded the very value it writes, SQLAlchemy would
leave the column out of the UPDATE.

In `BrowserSession` a step is a callback, an answer, or something another tab or
the server does. `stored` is the token in `localStorage`; `shown` is the data of
`["currentUser"]`; `query[q]` is a fetch under way with the token its last attempt
carried and the attempts left; `mutation` the password change or upload. The
answer of an unanswered fetch is decided when it arrives: a refused token stays
refused, which `RefusedTokensStayRefused` of `Accounts` says, so a refusal may come
late and an acceptance may not. `EndSession` is `handleApiError` of `main.tsx`:
it removes whatever token is stored by then. One token version stands for what
`Accounts` has in full. Who is at the keyboard is not part of the state: whether the
password typed is that of the account whose token is sent is open.

In `ImportPage` `query["import"]` and `query["job"]` are the two cache entries with
the fetch under way, `Sent` until the server read its rows; `pending[k]` is a
mutation: sent, answered, waiting for the import to be read again. `behind` is a
ghost: the actions answered whose outcome the page has not yet read. Keys are
numbers, 0 another user's. `Elsewhere` is any other operator, and any request
of this browser whose page was left before it arrived. The workers of
`ImportService` are reduced to the statuses they leave: a queued job is started, or
failed because its attempts are exhausted, and ends in a step. A job that was taken up
may go on `again`: a failed one is started by the retry of its message, a running one is
put back to `queued` by a reconciler, and a worker that still runs a job that was put
back or cancelled writes its outcome. Their inner interleavings are those of
`ImportSystem`.

`PagedList` numbers the rows of a table in the order of `(created_at, id)`; a row
has its number before its transaction commits, which is why a page read earlier
may lack it. `reading[f]` is the infinite query's fetch for a filter: the pages
from the first on, or one more. `AdminConsole` gives every change of a user an
event, committed with it; `told` is a ghost, the changes the page has been
answered about.

In `Serialization` a text is a sequence of tokens: a separator, an escape (`"%2F"`),
or a run of characters that no encoding touches. A text that was not encoded has no
escape as a token: its `%` is the character, which `Encoded` escapes (`PlainTexts`). The `...Read` operators are the reference definition, what a
server that follows OpenAPI reads. `ApiClient` prepares a request, sends it and
settles it in three steps, between which the token may change; headers are
functions whose `Null` entries delete. Before a server reads a
path, the browser that sends it resolves its dot segments (`Resolved`). What a URL says is
meant by RFC 3986: uvicorn, outside of `src/`, decodes the path before FastAPI chooses a
route, so that an id with a slash in it finds none, however well it was encoded.
`SerializedBody` writes a form as `encodeURIComponent` would; `URLSearchParams` writes a
space as `+`, which is read back as the same. In `EventStream` `wire` is what the server
has still to send on this connection, line by line, `buffer` what was read and
not yet parsed, `chunks` the events parsed in one read and not yet handled. The end of a
line is a CR, a LF or both, which the code makes one `\n` of in what has been read so far
(`Normalised`). A read may end between a CR and its LF: the LF is then read as a second end
(`Lf`), and `torn` remembers it. The application calls neither the event streams nor the
styles of arrays and objects; they are the generated client's own promises.

In `Shell` a tab is a record of what it rendered and of what its media queries last
reported; `dark` and `narrow` are the world's side. A render and its effects are
two steps. One boolean, `narrow`, stands for the media query `(max-width: 767px)` and for
`innerWidth < 768`, which differ where a width is a fraction. `latest` and `behind` are ghosts: the latest choices and the tabs that
rendered before them.

## Runs

The import runs instantiate `MCImport` (`Delivery` instantiates `MCDelivery`), where `Faults` chooses the faults of an
instance, so that each question is asked with the faults that bear on it.

| Run | Instance | What it shows |
|---|---|---|
| `Failures` | 1 import, 2 mappings, 2 workers, 2 jobs, 2 attempts; storage errors and other exceptions | `TypeOK`, `Consistent` (every reference holds), `AttemptHistory`, `DownloadableReportExists`, `FailedImportIsRetryable` |
| `Delivery` | 1 import, validated, 3 workers, 2 reconcilers, 2 jobs, 4 attempts, 2 copies; crashes, broker loss, duplicate sends | `OneWorkerPerJob`, `CancellationWins`, `SucceededIsFinal` |
| `TwoImports` | 2 imports sharing emails, 4 jobs, 1 worker; no faults | `ImportedOnlyAfterConfirmation`, `CompletedImportIsInDirectory`, `OneConfirmationPerKey`, `ImplementsDirectory` |
| `JobsSettle` | 1 import, 1 worker, 2 jobs; crashes, broker loss; fairness | every queued or running job settles |
| `CancellationSettles` | 1 import, 2 workers, 1 job; storage errors, duplicates; fairness | every requested cancellation comes to an outcome |
| `Sessions` | a migrated user, administrator or not, and a user created later; 2 requests of any kind; 3 passwords, 3 tokens, 2 version increments | `TypeOK`, `AcceptedTokensAreCurrent`, `TemporaryMustBeChanged`, `RefusedTokensStayRefused` |
| `Browser` | 2 accounts, one new and a viewer; 1 revocation, 2 sign-ins, 1 retry; fairness | `TypeOK`, `OfferedIsAllowed`, `RefusedSessionEnds`, `IdentityCatchesUp` |
| `ImportPage` | an import, 2 fields, 1 column and the empty one, 2 jobs, one of which goes on again once; 2 mutations at a time until then; fairness | `TypeOK`, `OwnConfirmationIsRecognised`, `NothingDoneIsOffered`, `WorkIsFollowed` |
| `AdminConsole` | 2 users, 2 changes; 3 events, 2 filters, pages of 1 row | `TypeOK`, `UsersListIsCurrent`, `RowsOnceInOrder`, `NothingSkipped` |
| `Requests` | 2 overlapping requests of any kind, ids of separators and of dots; every style with three texts; 3 events and 4 attempts; fairness of the stream | `TypeOK`, `TokenWhereDeclared`, `UrlsSayWhatWasMeant`, `SamplesAreReadBack`, `EventsOnceInOrder`, `NoEventSkipped`, `AbortEnds` |
| `Shell` | 2 tabs whose windows change their width | `TypeOK`, `MediaAreFollowed`, `LatestChoiceIsShown` |
| `ReplayAfterCompletion` | 1 import, a storage error and its Celery retry | `ReplayLeavesCompletedImports` is violated, see below |

Four properties except what a history variable has noted, because the code does not
serialise the steps in question. In `Delivery` `overtaken` is the jobs a reconciler wrote
back to `queued` although a worker had taken them up since they were selected:
`OneWorkerPerJob` and `SucceededIsFinal` are of the other jobs. In `Sessions`
`overwritten` is the users whose row a request wrote on the strength of an outdated
read, `outrun` those whose hash a login replaced so, or whose row it read again:
`AcceptedTokensAreCurrent` is of users in neither, `TemporaryMustBeChanged` and
`RefusedTokensStayRefused` are of users not in the first. These variables are written
only and never read, so they change nothing of what the system does; without the
exceptions each of the properties is violated. `NoEventSkipped` excepts streams that
are `torn`, `UrlsSayWhatWasMeant` requests with an id of one or two dots, for the same reason.

Why the bounds are enough. In `Delivery` one reconciler puts an abandoned job back, a
worker takes it, the other reconciler, which had selected it before, writes late, and
another worker takes it again: with the worker that was lost these are three workers, two
reconcilers, and three attempts, and a fourth goes on from there. The run
starts from an import that was validated without disturbance; the job there is left
is its confirmation, or a second validation after its mapping was saved again.
Elsewhere two workers and two copies of a message are the smallest instance in which two
deliveries of one job overlap. Two jobs are a validation and its retry, or a
validation and its confirmation; two attempts are the first and the last. Two
mappings with different emails let a mapping change between two reads. Two
imports sharing an email are what a conflict on insert needs. `MaxJobs`,
`MaxCopies` and `MaxAttempts` are the only counters; above `MaxCopies` another
copy is dropped, which the bound of each instance keeps harmless since a third
copy can only be delivered where a second can. Deadlock is not checked: an
instance stops when its jobs are used up, its imports completed or its messages
lost, as the real system rests when nobody sends a request. Workers are
symmetric wherever no liveness is checked, and the imports of `TwoImports` too
(their files are alike). In `Sessions` a
user needs three passwords to be given one, change it and be given another, and
two version increments for the change and the reset; the second user is created,
disabled and enabled by the first while a login of either is under way.
`MaxPasswords`, `MaxTokens` and `MaxVersion` are bounds of the instance: a request that would
pass them does not commit.

In `Browser` two accounts are one whose session a page shows and one that signs in
elsewhere; one revocation is what a refused session needs, one retry what a
repeated query needs. In `ImportPage` one required and one optional field can be
given the same column, an empty one or none; two jobs are again a validation with
its retry or a confirmation; two mutations overlap. A job that was taken up goes on again
once (`MaxAgain`), beside no mutation under way, and none is begun after it (`Room`): what the
page shows of such a job, read before or after, does not depend on its own mutations.
`AdminConsole` needs pages
of one row so that three rows are three pages, one of them committed late; two
changes overlap with each other and with a refetch. In `Requests` the words are
chosen so that every separator of every style occurs in a value; four attempts
take the delay past its cap. `Shell` has a tab that chooses and one that shows.
Deadlock is not checked in `Requests`, whose calls, events and attempts end.

Fairness (`FairSpec`). The publisher polls for ever, and reconciles at an
interval: strong fairness of `Publish`, of a selection that covers a stale job,
and of the reconciler's write, strong because a row lock may come and go before
it is granted. A worker child ends: weak fairness of `WorkerStep`, which
includes its failure, since a time limit bounds it. A message waiting in the
broker again and again is delivered some time: strong fairness per message.
Requests, faults and storage errors are never assumed to happen or to stop.
In the browser: a query that failed is repeated or given up, the timer of a visible tab
ticks (both weak), and a server that is asked again and again answers some time (strong,
be it a refusal); in `Browser` nothing is assumed of sign-ins and mutations. That the user returns to the tab is not
fairness but the premise of `IdentityCatchesUp`. A stream's reader is given its
bytes, timers and the consumer's next call (weak), never a connection that stays.

### What the code does and its documentation denies

`ReplayAfterCompletion` checks one documented statement and finds it violated:
`PLAN.md:80` has it that replayed messages are harmless; the Celery retry of a
failed validation, delivered after the import was retried and completed, takes
it back to `validating`.

Further behaviour that the models reach, and that a reader of the documents would
not expect; the properties above are stated so as to be true beside it:

* `docs/architecture.md:40` has a duplicate delivery observe `cancelled`. It turns
  a running job's `cancel_requested` into `cancelled`, but the worker that runs it
  checks only for `cancel_requested` and later writes `succeeded`.
* `docs/architecture.md:26` has a bounded worker failure fail the import. A delivery
  that finds no attempt left fails the job and leaves the import `validating`.
* Two reconciling processes may select the same stale job; the second write puts
  a job that a worker has restarted, or even brought to success, back to `queued`, and
  another runs it too (`overtaken`).
* `PLAN.md:148` has no job stranded. A cancellation requested after the worker died
  is neither delivered nor reconciled.
* `PLAN.md:70` has a temporary password changed before anything else. A reset that
  loaded `must_change_password` while it was true, while the user changed the
  password, leaves the column out of its UPDATE (`overwritten`). Two changes that read the
  same token version both write the next, and a session of the first outlives the second.
* After signing out the query cache keeps the identity (`useAuth.ts:43-46`): a person who
  signs in next sees the profile of the one before until it is read again, and
  the password changed there is that of the account signed in (`settings.tsx:20-21`).
* A job that failed may be started again by the retry of its message (`worker.py:50`,
  `jobs.py:95`) and succeed; the pages of the import and the job stopped polling at
  `failed` and show it until they are looked at again.
* A job id of `.` or `..` typed into the jobs page (`jobs/index.tsx:31`) is not escaped, and
  the browser takes it for a step in the path: another URL is asked.
* A server of events that ends lines with CR and LF, and a read that ends between the two:
  the line ends twice (`serverSentEvents.gen.ts:158`), an `id:` becomes an event of its own,
  and a connection that breaks before the data of the event skips it.
* `docs/architecture.md:27-28` has uploaded and mapped imports cancelled. The page
  offers it; without a job the server answers `job_not_cancellable`.
* A page that is reloaded during a confirmation does not poll: the status stays
  `validated` until the one transaction that makes it `completed`.
* "Do not import", chosen for a field that had a column, sends an empty column,
  which the server finds invalid.
* A session's banner about the temporary password stays after the change until the
  identity is read again; a second temporary password replaces one on display.
* A sheet that is open when the window grows is kept open, and covers the page
  when the window shrinks again.

## Proofs

All for every value of the constants that satisfies the named assumptions of
`ImportState` (`ValidEmailsAssumption`, `BoundsAssumption`, `FaultsAssumption`,
`NoneAssumption`), so for any number of imports, workers, reconcilers,
requests and faults.

* `Invariance`: `IInv == TypeOK /\ Consistent` is inductive. `TypeOK` alone is
  not: that `attempt[j][n]` is written inside its domain needs a worker's
  attempt number to be one its job counts, that a worker's import exists needs
  messages, outbox rows and reconcilers to name created jobs, and that a
  session never unsets a mapping needs what it loaded to be related to the
  row. `Consistent` says exactly this. The proof has one lemma per action;
  `Kept` (jobs, mappings and keys are never undone) carries the conjuncts an
  action does not disturb.
* `TypeCorrect`, `ReferencesHold`: its two parts.
* `AttemptsAreRecorded`, `OnlyConfirmedImportsReachDirectory`,
  `CompletedImportsAreInDirectory`: invariants that are inductive relative to
  `IInv`.
* `ConfirmationsAreUnique`: the action property `OneConfirmationPerKey`, from a
  stronger invariant that ties confirmation jobs to the accepted key.
* `Refinement`: every step of the system is a step of `Directory` or leaves its
  variables alone, under the mapping `Promise`.

* `JobsHaveOneWorker`, `SuccessIsFinal`: of `DeliveryHistory`, for any number of workers and
  overlapping reconcilers. The invariant `Exclusive` says of each job that was not
  overtaken that one worker at most runs it and that it is then `Claimed` (running, to be
  cancelled or cancelled, never `queued`, from where it could be started again).
  A reconciler's write is the only step that takes a job out of these states beside
  its worker, and a job it meets so is overtaken from then on.
* `CancellationsWin`: the action property, for any number of reconcilers. It excepts
  the jobs a worker runs and those selected as abandoned; of the others no step
  but a delivery touches a cancelled job or one to be cancelled, and a delivery
  finds the request before it starts an attempt.
* `FailuresCanBeRetried`: `FailedImportIsRetryable` is inductive relative to `IInv`;
  the proof splits the steps into those that end no job and the failures, each
  of which leaves a failed job of its import.
* `OfferedReportsExist`: `DownloadableReportExists` is not inductive. A confirmation
  completes an import, and its retry makes one `validated` again, whatever status
  other requests gave it meanwhile; a validation commits after it stored. `ReportsStored` demands a report of every
  import that is validated or completed, has a confirmation job, or has a
  worker at `commit`.

For `Accounts`, from `UsersAssumption`, `AccountBoundsAssumption`,
`NoAccountAssumption` and `NoPasswordAssumption`, for any number of users and of
requests that log in, change and reset passwords at the same time:

* `AccountTypes`, from an invariant that says of each request what its kind of handler has
  loaded by then (`Shaped`).
* `AccountsInvariance`: `IInv` is inductive. `TemporaryMustBeChanged` alone is
  not: a reset that is not overwriting keeps it because what its session loaded of the
  flag is what the row holds. `HeldRowsAreBehind` says so of every request and every user
  not `overwritten`: what was loaded has a version no newer than the row's, and if the
  versions are equal it has the row's flag and, of a login, the row's password unless it was
  `outrun`. `TokensAreBehind` says the same of tokens, `LegacyIsChosen` that only chosen
  passwords have a bcrypt hash, which a login replaces.
* `TemporaryPasswordsAreChanged`, `ResetsEndSessions`, `RefusalsAreFinal`: the properties
  of `Accounts`. A token that was refused can be accepted again only if a version is set
  back, which a request does that read the row before its last change.

For the browser:

* `BrowserInvariance`, for any accounts, sign-ins elsewhere and retries: `TypeOK`,
  `IdentityIsCurrent`, `FreshUploadIsAllowed` and `OfferedIsAllowed` together are
  inductive. `OfferedIsAllowed` alone is not: what is shown may have been answered
  before the account changed. `IdentityIsCurrent` says that no identity the cache
  holds, or a fetch under way will bring, is ahead of its account or knows another
  role than the account has at that version; `FreshUploadIsAllowed` that an upload on
  its way, offered by such an identity, is one its token allows. `OffersAreAllowed` follows.
* `ShellInvariance`, from `ResizableTabs` and `NoneIsNoChoice`, for any number of tabs:
  `TypeOK`, `AsReported`, `ChoicesKept` and `LatestChoiceIsShown` together are
  inductive. A tab is painted as its media query last reported, not as the system
  prefers now (`AsReported`), and cookie and storage hold the latest choices
  (`ChoicesKept`), which is what makes a tab that renders next show them.
  `TabsFollowTheirMedia`, `ChoicesAreShown` and `ShellTypes` follow.
* `ListIsCurrent`, from `AnswersAreSome`, for any users, roles and number of changes.
  `UsersListIsCurrent` says nothing of a list that is being read; `ReadIsCurrent` says
  what such a read will bring, `ToldIsMade` that the page is told of no change that
  has not been made, and `Readable` and `Requested` type what is read and sent.
  `ConsoleTypes` adds what a page that was left keeps (`NothingLeft`).
* `RowsComeOnceInOrder`, `NoRowIsSkipped`, from `PageSizeIsPositive` and `FiltersMatch`,
  for any page size and any rows, committed in any order. The pages of a fetch were
  read at different times, so `NothingSkipped` of what is shown needs an invariant of
  what is being read: `PagesOf` says of pages, end to end, that they fall, and
  that each matching row there was at first is among them or below the last. That the
  rows of a page can be put in order at all, that is, that `NewestFirst` is some
  sequence, is an induction on the greatest row.
* `ConfirmationIsRecognised`, for any columns, fields, jobs and users: with
  `OwnConfirmationIsRecognised` the invariant `KeySent` says that a confirmation
  on its way carries the stored key, which is therefore made once.
* `DoneIsNotOffered`, from `NoneIsNoMutation`: an action the page is behind is still
  waiting for the import to be read, or the page shows an error instead of its
  buttons (`BehindWaits`), whichever way a read ends.
* `PageTypes`, from `NoneIsNoMapping` too: that a cached job is one of the import needs
  the jobs of the server to be only ever added to.
* `EventsComeOnce`, from `StreamBounds`, for any number of events, broken connections and
  cuts but those within the end of a line: `NoEventSkipped`, and `EventsOnceInOrder` of
  a stream that is not `torn`. Neither is inductive by far: the next event is the right one
  because of what is still in the buffer. `StreamInv` is `Typed` and, unless the stream is
  `torn`, `InOrder`: `Progress` (what was yielded
  and what was refused make up the events up to `lastEventId`), `AsSent` (the events
  cut off and not handled are those that follow it; the buffer and what is on the
  wire are, end to end, the rest of the stream after them). That `Read`
  keeps it is the correctness of the parser: whatever was read, the parts `Cut`
  makes of it are events of the stream in full, and a beginning of the next one
  (`CutOk`, by induction over the tokens read); that `Handle` does is that the lines
  of an event say its number.
* `TokensWhereDeclared`, from `CallBound`: by `ApiInv` the configuration, which every call
  copies, holds nobody's token, no caller sets one, and so a call has none before it
  is sent and its own afterwards. `ClientTypes` joins the two invariants; that the
  delay of a reconnection is within its cap needs a connection to be an attempt.

* `SamplesComeBack`, from `SamplesAreNotEncoded`, and the two theorems it follows from,
  `ArraysAreReadBack` and `ObjectsAreReadBack`, of arrays and objects of any length and
  of texts of any length. `Encoded` takes each token to a token (`Code`) that no
  separator is, except "." and, as `"%20"`, the one of `spaceDelimited`, and `Decoded`
  takes it back (`Meant`). Cutting what was joined gives the parts again if none has
  the separator (`SplitJoined`, by induction over the parts; `Split` is a fold, and
  `SplitAppend` is its step). What is left is a case for each style; an object that is not
  exploded is cut into keys and values in turn (`TurnRead`).
* `WhatWasMeantIsRead`, from `TextsAreNotEncoded` and `NoBodyIsNone`, for any ids that are
  not `Dotted`, search words, cursors, user names and passwords. The invariant `ApiInv` says that a call's url and
  body are those its own request is written to (`IsWritten`), whatever other requests
  did meanwhile; that what is written is read back is `CallIsRead`. A path is cut at the
  slashes of its template and no other, each part replaced on its own (`PathIsSplit`); a
  url has a question mark only before its query (`UrlIsRead`); the parameters that are
  left out are the absent ones (`QueryMeant`); a query and a form are cut into as many
  fields as were written (`FieldsAreReadBack`). Nothing that is not an id of
  dots alone becomes a dot segment by being encoded (`DotsAreNotMade`), so the browser
  resolves none (`NothingResolved`). That the paths of `Operations` are
  of this kind is `OperationsOk`, and that the application's requests name only
  what their operation has, `RequestsOk`.

`TextsAreNotEncoded`, `SamplesAreNotEncoded` and `NoBodyIsNone` state how values are
represented, not what the code is given: any text of a program is a sequence of
tokens without escapes, and `None` and `Absent` stand for what is no text and no body.
The provers do not know a literal such as `"/"` to be a string; `AllTokens` therefore
names the literals of the model beside `STRING`.

Values that a recursive definition or a fold computes are reached by induction over
a set: the set of the numbers of which something holds contains every number if it
contains 0 and, with each, the next (`SetInduction` in `SequenceLemmas`, from the well-foundedness
of `<` on the numbers). A fold is the function its definition chooses, once there
is one (`FoldExists`, `JoinExists`, `SplitIs`).

Every invariant and every action property of the passing runs is stated by a
theorem, `EventsOnceInOrder` of a stream that is not `torn`. Only model-checked:

* `EventsOnceInOrder` of a stream that is.
* What needs fairness: `WorkIsFollowed`, `RefusedSessionEnds`, `IdentityCatchesUp`, `AbortEnds`
  and the runs `JobsSettle` and `CancellationSettles`. The prover cannot reason about
  `ENABLED`, which fairness is made of.

The bounds of the runs are what these rest on.

## Plan

Done, in the order it was made: the import system with its refinement of `Directory`
and its theorems; accounts; the browser's session, import pages, users page and
lists, API client and frame; theorems about jobs, outcomes and each part of the
browser.

Left, in the order of what it would add:

1. `OutboxPublisher`: a batch under `SKIP LOCKED` that fails in the middle, refining
   `Publish`.
2. `UploadStorage`: uploads, the rows that name them, and the cleanup by age, which
   deletes what an import may still need.
3. `CsvRows`: the classification of rows against `docs/data-contract.md`.
4. `LoginRateLimit`: `INCR` and `EXPIRE` as two commands, one of which may be lost.
5. The expiry workflow and the release gate of the operations CLI.

## Not modelled

* Dashboard counts, health checks, metrics and logging change nothing the program
  reads. Of the reading routes only the pages below a cursor are modelled.
* The table of validation rows and the downloads of the import's page: they read
  and show.
* Emails and their uniqueness. `create_user` checks an email and inserts later; the
  unique index makes an error of the race.
* Row by row classification of a CSV file: `ValidEmails` is its result.
* The publisher's batch: each row is published on its own, which admits every
  outcome of a batch but not its lock.
* The cleanup of storage by age, the login limiter, the operations CLI and the expiry
  workflow, as planned above. The last two are sequences of external commands whose
  effects lie outside of the repository.
* `params.gen.ts` and `queryKeySerializer.gen.ts`, which nothing calls; `types.gen.ts`,
  which declares types; styled components, which have no state of their own.
* Helm charts, Terraform, CI workflows and migrations are configuration; the
  settings the model relies on are quoted above.
* Isolation below `READ COMMITTED`, failures of PostgreSQL itself and the contents of
  files.
