# FastAPI Plus in TLA+

A verification development for FastAPI Plus, an asynchronous web service
(FastAPI, SQLAlchemy, optional Redis and Celery). Modules are checked with TLC
on small instances and, where said so below, proved with TLAPS for every value
of their constants. Paths are relative to `src/app/` unless they begin with
`src/`; definitions are mapped to source lines in `PROJECT.json`.

## 1. The system

One web process (or several behind a balancer) serves requests on an event
loop; blocking work runs in threads. State that outlives a request lives in the
database (SQLite, PostgreSQL or MySQL), in the object storage (local directory,
Aliyun OSS, Tencent COS), in Redis (login rate limit) and with the Celery broker.

| Component | State | Operations | Works with | What is hard | What makes it correct |
|---|---|---|---|---|---|
| **Files** `modules/file/` | rows of `files`, objects | upload, delete, download, metadata | storage threads, request session, actor snapshot | no transaction over row and object; cancellation at every await; lost commits; reused ids | an acknowledged upload survives; rows only over complete objects; orphans logged; access follows the row |
| **Local storage** `infrastructure/storage/` | files in two trees | put, exists, delete, access | threads started by `storage_io` | a file is visible from its first byte; threads outlive their request | streams stay open while read; delete is idempotent |
| **Cloud storage** `infrastructure/storage/aliyun_oss.py`, `tencent_cos.py` | remote objects | the same | SDK calls in threads | a call whose answer is lost may have worked | errors become 503; signed URLs are short |
| **Storage registry** `providers/storage.py` | backend name -> provider | register, get | every file operation | a default that changes while rows name older backends | a missing backend fails, it never falls back |
| **Database access** `database/` | engine, pool, sessions | session scope, repository calls | every service | SQLite lock upgrades, reads that pin a transaction, pool exhaustion | one session per request, nothing committed implicitly |
| **Users** `modules/user/` | rows of `users` | create, update, delete, list, create superuser | authentication, files (`created_by`) | uniqueness races, partial updates, mutual deletion of administrators | unique names and e-mails, no id given twice, 409 for the loser |
| **Authentication** `modules/auth/`, `core/security/` | tokens held by clients, secret, null token store | login, refresh, logout, current user | users, every protected route | snapshots that go stale, tokens that outlive their account | a token opens only the account it was issued for, while it is active |
| **Login rate limit** `infrastructure/redis/rate_limit.py` | one bucket per address in Redis | one script call per login | several processes share Redis | expiry against refill, rounding, timeout after the token was taken | at most capacity + rate * time logins; Retry-After is enough |
| **Lifespan** `bootstrap/lifespan.py`, `infrastructure/redis/client.py` | engine, Redis client, Celery app | startup, shutdown | everything above | partial startup, failing shutdown steps | whatever was opened is closed |
| **Celery tasks** `infrastructure/celery/`, `modules/user/tasks.py` | log context, retry count | run, retry | user service on an event loop of its own | retries, redelivery, nested contexts | bounded retries, the caller's context restored |
| **HTTP pipeline** `core/exceptions/`, `core/security/body_limit.py`, `core/logging/context.py`, `infrastructure/metrics.py` | per-request flags | wrapped `send` and `receive` | every request | failures after the response has started | one response head per request |
| **Paging** `database/repository.py` | none | count, list by offset | user list | the list changes between two pages and between count and list | nobody listed twice or skipped without a cause |
| **Configuration and assembly** `core/config/`, `main.py`, `bootstrap/` | settings, registry, clients | load, create_app, create_worker | everything | validators in six classes, assertions that trust them elsewhere | accepted settings suffice |
| **Diagnostics** `cli/doctor.py`, `database/diagnostics.py` | report | one check after the other | every backend | one check of several fails; a look at SQLite may create the file | complete report, true exit code, nothing left open |
| **Migrations** `cli/db.py`, `src/alembic/` | schema, version | upgrade, downgrade | database | several at once, a death between DDL and version | tables and version agree |
| Redaction, log handlers, error descriptors, UTC timestamps, CLI wiring | none | pure functions, declarations | - | - | see section 7 |

`PROJECT.json` lists every component with its status, every hazard found, at its
line, with the properties that cover it, and the source lines behind every
definition.

## 2. The modules

| Module | Role | Code |
|---|---|---|
| `FileRequests` | the requests of one run, the faults allowed, the bound on cancellations | `modules/file/router.py` |
| `ObjectStorage` | objects; the worker threads and the calls in them | `infrastructure/storage/local.py`, `common.py` |
| `Database` | `users` and `files`; transactions and locks of two dialect families; accounts that come and go | `database/`, `modules/*/model.py`, `modules/user/service.py` |
| `FileService` | `upload`, `delete_file`, `download` as coroutines over the two, with except clauses, cancellation and crashes | `modules/file/service.py`, `router.py` |
| `FileLifecycle` | the abstract specification of files: one life per key | - |
| `FileGuarantees` | the properties of the file component, and its refinement mapping to `FileLifecycle` | - |
| `Accounts` | `create_user`, `create_superuser`, `update_user`, `delete_user` over their sessions | `modules/user/service.py`, `database/` |
| `UserPages` | a walk through the user list | `database/repository.py` |
| `Tokens` | login, refresh, logout, current user, the key of a start | `modules/auth/`, `core/security/token.py` |
| `LoginRateLimit` | the script and the middleware around it | `infrastructure/redis/rate_limit.py` |
| `LoginQuota` | the abstract specification of the limit: a bucket that never forgets | - |
| `ResponsePipeline` | the layers around a route, from body limit to metrics | `core/exceptions/`, `core/security/body_limit.py`, `core/logging/context.py`, `infrastructure/metrics.py` |
| `ConnectionPool` | who holds which connection when | `database/engine.py`, `session.py` and the handlers that use them |
| `Lifespan` | startup and shutdown | `bootstrap/lifespan.py`, `infrastructure/redis/client.py` |
| `TaskRuns` | publication, delivery, execution and retries of tasks | `infrastructure/celery/`, `modules/user/tasks.py` |
| `StorageBackends` | the registry and the three adapters over changing configurations | `providers/storage.py`, `infrastructure/storage/` |
| `Doctor` | `fastplus doctor` | `cli/doctor.py`, `database/diagnostics.py` |
| `Migrations` | `fastplus db upgrade` and `downgrade` | `cli/db.py`, `src/alembic/` |
| `Assembly` | from the environment to a process that serves | `core/config/`, `bootstrap/` |
| `Requests` | `Tokens`, `LoginRateLimit`, `ResponsePipeline`, `ConnectionPool` and `UserPages` as one specification, with the properties of each | - |
| `Processes` | `Lifespan`, `TaskRuns`, `StorageBackends`, `Doctor`, `Migrations`, `Assembly`, likewise | - |
| `MCFileService`, `MCFileLiveness`, `MCAccounts`, `MCRequests`, `MCProcesses`, `MCProgress` | the instances for TLC | - |
| `FileServiceProofs` | the theorems about files, and the refinement of `FileLifecycle` | - |
| `AccountsProofs`, `MCAccountsProofs` | the theorems about accounts, and the same for each instance of the run | - |
| `UserPagesProofs`, `TaskRunsProofs`, `MigrationsProofs` | the invariants of components that have several instances in a composite | - |
| `RequestsProofs`, `ProcessesProofs` | the theorems about the two composites | - |

The file component is composed of modules that share state (`FileService` over
`ObjectStorage` and `Database`). The others are one module each: what they need
of their neighbours (an account that changes, a clock, a broker, a bucket) is in
the module itself, as the little of it the component can see. `Requests`,
`Processes`, `MCAccounts` and `MCProgress` put several of them side by side, in
one specification: the variable `part`, set by `Init` and never changed, names the
component a behaviour is of, and the variables of the others stay 0. Nothing
flows between parts, so each part is checked exactly as if it had a run of its
own. `MCFileLiveness` has the file component on both dialects in the same way,
over one set of variables. `MCRequests` and `MCProcesses` only add the values of
the constants.

## 3. State and actions

### The file component

`pc[r]` is the await at which the coroutine of request `r` stands; everything a
handler does between two awaits is one action. `io[r]` is the state of each
blocking call the request has handed to a thread (`validate`, `put`, `remove`).
A thread is a process of its own (`Thread`): it goes on when its request has
stopped waiting for it. `objects[k]` is `absent`, `partial` (opened, being
written) or `full`. `tx[r]` is what the session's transaction has done; it
decides who may write and commit (`MayWrite`, `MayCommit`).

* **upload**: `StartUpload` (authentication's snapshot, `_validate` handed to a
  thread), `ValidateReturns`, `PutReturns`, `Insert` (add, flush, refresh),
  `Commit`. The except clause is `Handle`, `Rollback`, `CompensateReturns`.
* **delete_file**: `StartRead`, `ReadRow` (load, both authorizations, delete
  handed to a thread), `RemoveReturns`, `DeleteRow`, `Commit`.
* **download**: `StartRead`, `ReadRow`, `Check` (`exists`), `Serve` (the
  response opens the path; when the object went since the check, it fails).
* **Cancellation** may arrive at any await (`Cancel`). At a storage call the
  first one only starts the drain of the thread (`Drains`); a second one ends
  the wait (`Detach`). At a database call, the statement or the commit took
  effect or did not.
* **Failures** (`Faults`): storage calls that fail with or without effect,
  statements that fail, commits whose answer is lost, processes that die.
  Without any fault SQLite's BUSY and the foreign key still refuse statements.
  A crash takes one request at a time: a process that dies with several is a
  sequence of `Crash` steps, and the runs also see what happens in between.
* **Accounts** (`UserChange`) are created and deleted between any two steps.

The backend is the local one: `Serve` is the `FileResponse` branch of the
router; the redirect to a cloud URL is `Download` in `StorageBackends`. Names,
MIME types, sizes and the response are abstracted to "accepted or rejected": no
property depends on them. `uuid4().hex` keys never collide, so a
key is named after its upload. Validation and authentication run before the
request has touched any state, hence one step each.

### Accounts

`pc[r]` is the await of a request or its answer. A request is authenticated in a
session that is closed before its own begins, so `actor[r]` is a snapshot that
may be stale. `ArriveCreate`, `ArriveUpdate`, `ArriveDelete` choose the body;
then `Load` (404), `CheckUnique` for the name and for the address, one statement
(`Insert`, or `Change` for an UPDATE and a DELETE), and `Commit`. The rule against
deleting oneself is part of the arrival. SQLite's locks and BUSY, the row and
index locks of a server at READ COMMITTED, and the constraints are part of these
steps; a PATCH that changes nothing (`Silent`) issues no UPDATE and meets no lock; `Fail` is a statement or commit that fails, a cancellation, or a commit
whose answer is lost.

Which promise holds on which dialect is part of the result. On SQLite a PATCH
that was answered 200 is what the table then holds, and a 409 names an account
that has the value. At READ COMMITTED neither is so: a value equal to the loaded
one is not written and may have been overwritten meanwhile, and a 409 may be
about a name the request did not provide, because the row had it when it was
loaded. There a PATCH of a row deleted since
its load answers 500, and a DELETE of such a row 200. What holds on both is that
a field not provided is never changed (`OnlyProvided`).

### User list

`Count` and `ListPage` are two statements of one request, which on SQLite see
one snapshot; `Create` and `Delete` happen at any time. Ids ascend on SQLite
(`AUTOINCREMENT`); a server may commit a smaller id later. A page is the set of
users whose rank (how many come before) lies at its offsets, which is what
`ORDER BY id OFFSET LIMIT` selects; the order within a page is that of the ids.
The walk is bounded by `MaxId`, the ids there are.

### Tokens

A token carries an id, the account's random `auth_id`, a type, its times and the
start whose key signed it. `LoginReads` reads the row before the password is
verified in a thread, `LoginAnswers` issues from that snapshot. `Present` decodes
(key, type, expiry), `Authenticate` looks the account up by `id`, compares
`auth_id`, and then asks `active`; a refresh issues a new pair. `Administer` creates, disables and
deletes accounts, giving ids again; `Tick` moves the clock; `Restart` forgets
requests under way and, without a configured secret, the key.

### Login rate limit

`Send`, `Script` (the whole Lua script, which Redis runs in one piece), `Reply`,
and `GiveUp` when the timeout or an error comes first: the script may run before
or after that, or never. `Expire` removes the key, `Tick` moves Redis's clock.
One address is modelled, as buckets share nothing. Fractions are exact; the
rounding of floating-point numbers is left out.

### Response pipeline

`layer` is the layer that runs, `exc` the exception on its way out, `started`
the layers that have noted a response head, `wire` what the server was given. One
action per layer (`Limit`, `Limiter`, `Route`, `Raise`, `Handlers`, `Safe`,
`Metrics`, `Context`, `Errors`), in the order `bootstrap/middleware.py` stacks
them. The route may fail before, in or after its response with an exception of
each kind, the server's send and the log of the request's completion may fail,
the client may leave. A log call that fails inside the last handlers (`Safe`,
`Errors`) is not modelled.

### Connection pool

Each kind of request is a program of statements, awaits (threads, Argon2, PING,
the client's reading), commits and closes over its two sessions. `Checkout` takes
a pooled connection, which the ping replaces when it is dead (`Pinged`), or opens
one; `Execute`,
`Proceed`, `CloseSession`; `PoolTimeout`, `ReadyTimeout`, `Cancel`; `Stall` lets an
await hang; `Restart` kills every connection. The session a route depends on
closes after the response has been sent (so FastAPI does at the version that is
locked): a slow download keeps its connection while it lasts.

### Lifespan

`Startup`, `Redis`, `Ping`, `Celery`, `Broker` open and note resources in
`app.state`; each may fail or be cancelled, `Unping` closes the client a failed
ping leaves. `Stop` begins the way down, `CloseCelery`, `CloseRedis`, `Dispose`.
One application object may live several times, and `state` is what it carries
from one life into the next.

### Tasks

`Publish` puts a message with the publisher's log context into the broker,
`CallDirectly` runs a task without one. A worker's `Take` may leave the message
to be delivered again; `Begin`, `Handle`, `Dispose`, `Autoretry`, `End` are
`BaseTask.__call__`, the bridge with its engine, and Celery's retry. `Terminate`
is a revoke that raises `SystemExit` in the task, `Kill` a process that dies with
it (messages are acknowledged before the run, so the task is lost). A terminated
task logs `task.finished` with outcome `success`, because only `Exception` is
caught (`infrastructure/celery/base.py` 54): `SuccessReturned` is therefore
checked without the fault `terminate`.

### Storage backends

A row keeps the backend it was written to. `Restart` changes which backends are
configured and which is the default, `Fault` a backend's health; `Upload`,
`Download` and `Delete` are the operations with the answers of each adapter.
`Told` is what the service answers to the question for an object, `Exists` what
the adapter makes of it. The HEAD of COS has no body, so its 404 may come without
a name of what is missing (`bodiless`, the codes `""` and `"Unknown"`); the adapter
takes it for a missing object, although a missing bucket answers the same. Only a
bucket that is named, a refusal and a lost answer are errors. OSS names the cause
in a header; that its SDK's `is_object_exist` raises for a missing bucket is
assumed of the SDK, which is not in the repository. The check of COS by `doctor`
asks the same question, so a missing bucket may pass there too; `Doctor` leaves the
result of each check open.

### Doctor, migrations, assembly

`Doctor` has one action for each step of `doctor` (`Load`, `Find`, `Connect`,
`ReadHeads`, `Dispose`, then `Disabled`, `BeginCheck`, `EndCheck` for each
backend, `Finish`), while `Environment` lets the database file come and go.
`OpenedFile` is what connecting does to the file: with `mode=ro`, nothing.
`Migrations` runs commands side by side: `ReadHeads`, then Alembic's steps
(`EnsureVersionTable`, `CreateTable`, `DropTable`, `Stamp`, `Commit`), with each
dialect's DDL; `Error` and `Kill` end a command anywhere. Columns are abstracted
to tables. `Assembly` chooses any environment (`Init`), rejects what the
validators reject (`Load`) and then builds what `create_app`, `startup` and
`create_worker` build, each optional package or service being there or not, up
to a first login or upload.

## 4. Runs

| Run | Instance | Shows |
|---|---|---|
| `files_faults` | SQLite; 1 upload, 1 DELETE, 1 download; storage and database faults; 1 cancellation each | `AckedSurvives`, `OrphanHasCause`, `NeverServesPartial`, `StreamOpenWhileRead`, and `ImplementsLifecycle` (refinement) |
| `files_ids` | SQLite; 2 uploads, 2 DELETEs; no faults | a reused id never makes a DELETE remove another row or object: `DeletesAuthorizedRow`, `AckedSurvives` |
| `files_accounts` | server dialect; a private and a public upload, 1 download; an account is deleted, another created | `OwnerIsUploader`, `OnlyForOwner`, `TypeOK` |
| `files_crash` | server dialect; 1 upload, 2 DELETEs; crash, storage and database faults | what survives the death of a process: `AckedSurvives`, `RemovedIsGone`, `ImplementsLifecycle` |
| `files_liveness` | `MCFileLiveness`: both dialects; 1 upload, 2 DELETEs; storage faults; 1 cancellation each | `RequestsEnd`, under `FairSpec` |
| `files_delete_log` | 1 upload, 1 DELETE, 1 cancellation | violated: the object is removed, the row stays, nothing is logged |
| `files_second_cancel` | 1 upload, 2 cancellations | violated: the stream is closed under the thread |
| `storage_missing_bucket` | `StorageBackends`: 1 file, the local backend and COS, 1 change of health | violated: a missing bucket is answered as a missing file (`MissingIsExplicit`) |
| `accounts` | `Accounts` in six mixes: creation, PATCH and DELETE (both dialects), two PATCHes (both), two creations with failing commits, three DELETEs by two administrators | `AccountsDistinct`, `AnswersAreTrue`, `OnlyProvided`, `LastByStale` |
| `requests` | `Tokens`, `LoginRateLimit`, `ResponsePipeline`, `ConnectionPool`, `UserPages` on both dialects | see below |
| `processes` | `Lifespan`, `TaskRuns` twice, `StorageBackends`, `Doctor`, `Migrations` on three dialects, `Assembly` | see below |
| `progress` | `Accounts` and `ConnectionPool` twice each, `TaskRuns`, `Migrations`, under fairness | `RequestsAnswered`, `WorkSettles` |

Deadlock is not checked: a behaviour ends when its requests, commands or bounds
have.

**`accounts`.** Names and e-mails stay unique whatever races; what a request was
told is true (a 201 stays until a DELETE of its id; on SQLite also 200 and 409 of
a PATCH); a PATCH never touches a field it was not given; and the last
administrator can only go by the request of one who was itself deleted after it
was authenticated. That last one is what is left of "an operator may not delete
itself" when requests overlap: two administrators can delete each other.
Disabling administrators by PATCH is not counted as removing them.

**`requests`.**
- `OnlyOwner`, `TokensExpire`: a token opens only for the very account it was
  issued to, while that exists and is active, even if its id belongs to somebody
  else now; a refresh token opens no route; a restart without a configured secret
  ends every earlier token.
- `RetryIsExact`, `ImplementsQuota`: who waits for Retry-After finds a token, and
  a second less would not do; no window of time lets more logins through than the
  bucket pays for; and with the bucket read as the script would read it now, the
  code implements `LoginQuota`, although its key expires, replies are lost and
  the middleware gives up on scripts that then run.
- `OneResponse`, `StatusIsSent`, `FailureLoggedOnce`: wherever something fails, one
  response head leaves, a client that stays gets a whole response or a broken
  connection, log and metrics name the status that was sent, and a failure is
  logged once, a request counted once.
- `NoHoldAndWait`, `NothingLeaks`: no request waits for a connection while it
  holds one, each ended request has given its own back, and nobody who arrives
  after a restart of the database works on a dead one.
- `PagesExplained`: the walk ends with the first page the ids there are cannot
  fill, a page fits its total (SQLite), a user is listed twice only for an id
  that appeared late, skipped only for a deletion before it.

**`processes`.**
- `ClosedOnce`: what a startup opened is closed once, however far it came and
  whatever failed, and no later life serves with an earlier one's resources.
- `RunsInItsContext`, `RetryIsTold`: a task logs under the request that published
  it, on whichever worker, retry or redelivery; each retry follows a transient
  failure whose event said `retry`; no engine outlives its run.
- `NotFoundIsTrue`: 404 is the truth about the bucket the row names, whatever is
  the default now: the bucket is there and lacks the object, or it is a COS bucket
  that is missing and was not named. And a file whose DELETE was acknowledged is
  in no bucket.
- `DoctorIsTrue`: every line is reported, 0 only when all are well, nothing left
  open, no database file created.
- `SchemaIsStamped`: version and tables persist together; on MySQL they are one
  revision apart at most, and only after a failure; a command that says done has
  left its target. MySQL's instance runs upgrades only: its DDL commits at once,
  and downgrades beside upgrades can leave the tables two revisions off.
- `AcceptedSuffices`: settings the validators accept fail no assertion and no
  lookup later; what keeps a process from starting is a package or service that
  is missing. It does not speak of the size of a body: the validator lets
  `request_max_body_size` exceed `file_max_size` by one byte, and the form around
  a file of the largest size needs more.

**`progress`.** `RequestsAnswered`: every account request is answered (waits for
locks end in a commit or in BUSY), a creation, which writes before it reads, is
even served; a request that does not hang is answered although others keep every
connection, a readiness probe even if it hangs itself; and if nobody hangs, all
are served without any timeout. `WorkSettles`: a published task is at last
neither in the broker nor being run, whatever is retried, terminated or killed;
and of upgrades that refuse each other's locks one brings the database to the
head.

### Why the bounds are enough

*Files.* A property speaks of one key and the requests that touch it: its upload,
a DELETE, and a second DELETE or a download as the rival. `files_ids` needs two
uploads, because an id must be freed and given again, and two DELETEs, one to
free it and one that still holds it. `MaxAccounts = 3` lets one account go and
one come. `MaxFiles` is the number of uploads, so it never stops an INSERT
(`FileIdsSuffice`). One cancellation is what a disconnecting client causes; two
are explored where it matters.

*Accounts.* A race for a name or an address is between two writers; a third
request frees or takes the value in between. Three names let both rivals keep
theirs, exchange them or meet at a new one. Two PATCHes are symmetric. Purging
administrators takes two of them and three DELETEs: one each, and a third whose
identity is stale.

*Requests.* One id given twice and two accounts show reuse; one access life and a
refresh life twice as long separate the two kinds. Capacity 2, a period of 3
seconds and 2 ticks a second make refills fractional and Retry-After round up;
the clock passes a full expiry and the timeout of one tick lets a script run
late. Three chunks are a first, a middle and a last. A pool of one connection
and one more, with three requests, is exhausted and overflows. Five users and
pages of two give three pages and a change in each.

*Processes.* Three lives let a life inherit from one whose shutdown failed and be
followed by another. `max_retries` is the code's 3 for one task on two workers; a
second task on one worker shows what the first leaves behind. Two files, three
backends, two restarts and two changes of health move a default away from a row
and back. Three commands are a writer, a rival and one more that refuses or waits
for both. Settings are complete: every combination.

### Fairness

`FairSpec` of `MCFileLiveness` asks that a coroutine whose await is over is resumed
(the event loop is a FIFO of ready callbacks) and that a submitted call runs and
returns (the executor's queue). `FairSpec` of `MCProgress` is weak fairness of
`Go(x)` for every request, worker and command: a coroutine goes on when its
statement has its lock or its connection, the pool's and the probe's timeouts
pass, an idle worker takes messages and goes on with what it took, a migration
goes on. Nothing is asked of arrivals, cancellations, crashes, faults, hanging
threads, account changes, terminations or redeliveries. SQLite's busy timeout is
part of the actions (`Busy`), not a fairness assumption; where no timeout should
be needed (`Waits`), the instance has none.

### Findings

* **`files_delete_log`.** `delete_file` sets `object_deleted` after the await of
  `provider.delete` (service.py 172). A cancellation during that await is
  delivered once the thread has removed the object, so the handler runs with the
  flag still False: the row stays without its object, and the inconsistency the
  comment at service.py 176 says is logged is not.
* **`files_second_cancel`.** `storage_io` promises (common.py 45) that a
  cancellation leaves only after the thread has exited. The wait in its except
  clause is not shielded: a second cancellation ends it, and the router closes
  the stream the thread is reading.
* **`storage_missing_bucket`.** `exists` of the COS adapter says that only an
  explicit absence of the object counts (tencent_cos.py 43), told apart from a
  failure of the bucket (47). It also takes a 404 without a body, whose code is
  `""` or `"Unknown"`, for the object's (53). When the bucket is what is missing,
  downloads answer 404 instead of 503, and the outage looks like lost files.

## 5. What is proved

Every safety property of the passing runs, the action properties and both
refinements among them, is also a theorem, for every value of the constants that
meets the assumptions named below. All theorems follow one plan: an
inductive invariant, that `Init` gives it, that each action keeps it (one step
per action, or one lemma where several theorems need it), and that it gives the
property.

### Files (`FileServiceProofs`)

For any sets of requests, faults and numbers of cancellations, and both dialects.
The assumptions are those `FileRequests`, `Database` and `FileService` state of
their constants: the three kinds of request are disjoint, `NoKey` is no key, the
bounds are numbers.

1. `TypeCorrect`: each helper keeps the type of what it assigns; one lemma per
   action combines them.
2. `AuthorizedRow` (`DeletesAuthorizedRow`): whether the row under an id can
   change depends on who else may commit. `Locked` says a request between its
   load and its commit has its transaction open. On SQLite that keeps every other
   commit out (`MayCommit`); elsewhere ids only grow, and `RowInv` carries that
   the id of a loaded row is never the id of a pending INSERT.
3. `AcknowledgedSurvives` (`AckedSurvives`): `CallsInv` ties the await at which a
   request stands to the calls it has made (nobody compensates after a commit, a
   DELETE commits only after its remove returned). `WholeInv`: an object nobody
   has finished removing is complete once its put returned. `RowKept`: the row
   goes only at the commit of a DELETE, which by `RowInv` had loaded that very
   row.
4. `NoPartialServed`, `RemovalIsFinal`, `OrphansExplained`, `RowsKeepTheirOwner`,
   `OnlyOwnersAct` and `StreamStaysOpen` rest on `FileInv`, which adds to these:
   `KeyInv` (a row, and a row that was read, is that of an upload past its
   commit), `EndsInv` (how an upload comes to its end, with how many
   cancellations), `GoneInv` (what was removed stays away, except for a put nobody
   waits for), `WithdrawnInv` (a removed row does not come back) and `OwnerInv`
   (the id of an actor is never given to another account). `StreamStaysOpen`
   assumes `MaxCancels <= 1`: with two it is false, as `files_second_cancel` shows.
5. `LifecycleRefined` (`ImplementsLifecycle`): `MovesStep`, `RowsChange` and
   `ObjectsStep` say what one step of `FileService` does to requests, rows and
   objects, and each maps to one step of the life of a key, or to none.

### Accounts (`AccountsProofs`, `MCAccountsProofs`)

For any requests of the three kinds, names, addresses and bounds (`Parameters`:
kinds disjoint, the bounds numbers with room for the first accounts). The heart is
`WritersInv`: what open transactions have written may be committed at any time
(`Committable`), and two of them do not clash (`Apart`), because the statement of
one waits for the other's lock. The constraints alone judge only committed rows.
`IdsInv` says ids are given once; `LoadedInv`, that a DELETE is not of its own
account; `SnapshotInv`, that on SQLite nobody commits while another has read.
Then `AccountsDistinct` and `CreatedIsKept` are invariants that follow, and
`OnlyProvided`, `PatchIsExact`, `ConflictIsReal` (the latter two on SQLite) and
`LastByStale` hold of each step. `MCAccountsProofs` brings them to the six mixes of
the run, whose properties conjoin them by instance.

### Requests (`RequestsProofs`, `UserPagesProofs`)

Assumptions: `AuthBounds`, `LimitBounds`, `ResponseBounds`, `PoolBounds`,
`PageBounds` in `Requests`: numbers, positive where the settings ask for it, finite
sets of attempts and requests, each request of a kind there is.

* Tokens (`OwnersHold`, `ExpiryHolds`): `TokensInv`, each token was signed with its
  full life, and what a request looks up was decoded under the present key.
* Login rate limit (`RetryHolds`, `QuotaRefined`): `LoginInv` counts the logins let
  through since any moment (`LetThrough`) against what the bucket has paid. The
  bucket is read as the script would read it now, so that the expiry of its key
  changes nothing; the same reading is the refinement mapping to `LoginQuota`.
* Response (`ResponseIsOne`, `StatusHolds`, `LoggedOnce`): `Noted`, that a layer
  that has noted a head has sent it unless the send failed; `Ways`, which
  exceptions can still be under way in which layer; `Told`, what log and metrics
  were given.
* Pool (`NobodyHoldsAndWaits`, `AllGivenBack`): `PoolInv`, a connection is out only
  in the session the next step of its request belongs to. That rests on a fact
  about each program (`Tidy`, with the steps `FreeAt` at which it holds nothing):
  it never crosses from one session to the other without a close or a commit.
* User list (`WalkHolds`; `WalkExplained` for one dialect): three facts about ranks
  (`RankGrows`, `RankOrders`, `RanksAreOffsets`: the ranks of a table are the
  numbers below its size, each once), from which `CutCounts` has the length of a
  page. `WalkInv`: who was listed stays below the next offset unless pushed on by
  a creation (`Passed`), who was not stays beyond it unless pulled back by a
  deletion (`Ahead`), and what the view of SQLite's transaction and the table
  differ by (`Views`).

### Processes (`ProcessesProofs`, `TaskRunsProofs`, `MigrationsProofs`)

Assumptions: `LifespanBounds`, `TaskBounds`, `StorageBounds` in `Processes`: numbers;
the ids of tasks and workers are none of the model's own words; there is a local
backend.

* Lifespan (`ClosedHolds`): what was opened and not closed is in `app.state` or in
  the hand of `create_redis_client` (`InHand`), and what is left there from an
  earlier life is so because its dispose failed (`Stale`).
* Tasks (`ContextHolds`, `RetryHolds`): every message carries the context its task
  was published in (`Traced`), a worker runs a message there was in the context
  it bound (`Bindings`), a direct call's context is kept until it is given back
  (`GivenBack`); a message with retries comes from a run that met a transient
  failure and said so (`Retried`, `Glitches`).
* Storage (`NotFoundHolds`): an object is where its row says (`WhereWritten`), and
  nowhere once its DELETE was acknowledged (`Gone`); what each answer to a HEAD can
  mean is the lemma `Telling`.
* Doctor (`DoctorTellsTrue`): the lines behind the step are reported (`Reported`),
  and what is open is what the step will close (`OpenNow`).
* Migrations (`StampHolds`): with transactional DDL the table locks let one command
  alter the schema at a time (`OneAlters`), and what it sees is the schema of the
  revision it has reached (`InStep`). On MySQL, for upgrades (`Upgrades`), the
  tables are those of the version or the next (`OneAhead`), the next only midway
  in a command or after a failure (`Excused`).
* Assembly (`AcceptedHolds`): what the validators accept is enough for every step
  of the start (`Sufficient`).

`TypesHold` of both composites says that all of them keep their types and bounds.

### What is not proved

* `RequestsEnd`, `RequestsAnswered`, `WorkSettles`: liveness under fairness, which
  the prover does not reach. Their runs show it for the instances of section 4.
* What the three violated runs refute is false: `DanglingDeleteLogged`,
  `StreamOpenWhileRead` with a second cancellation, and `MissingIsExplicit`.

## 6. Plan

Nothing of the plan is left open. What would extend it: invariants of the
composites' liveness (a request that waits for a lock waits for one that moves),
from which the fairness arguments of `progress` could be read off; MySQL
downgrades, whose promise is weaker and would need a property of its own; the
account changes of `Database` as a refinement of `Accounts`.

## 7. Not modelled, and why

* **Error descriptors, response schema**: constants and layout; no behaviour.
* **Redaction, log handlers, rotation**: redaction is pattern matching on text.
  Handlers are declared, rotation is the standard library's and assumes one
  writing process per path, which no code of the repository checks.
* **UTC timestamps**: a conversion at the database boundary; nothing compares or
  orders the stored times.
* **Paths and keys of the local storage** (`object_key`, `_path`): syntax of one
  value. The same holds for the single settings in `core/config`; the rules that
  relate them are in `Assembly`.
* **CORS and trusted hosts**: Starlette's middleware, without state. The labels of
  the counters and the scrape are layout.
* **CLI wiring** (help, `version`, `db current`, and `db revision`, which writes a
  new script): it changes no state of the service. Several addresses at the rate limit, several pools: they share nothing.
* **Metadata GET of a file**: reads one row, as `ReadRow` does, and changes nothing.
* **Passwords and JWT encoding** are abstracted to their results.
