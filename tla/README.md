# Verification of the document processing pipeline

TLA+ models of the service in `src/`: a FastAPI process takes PDF uploads, stores
them, registers a row in PostgreSQL and pushes a job on a Redis list; worker
processes pop the jobs, extract text and write the result. Everything here can be
checked with `tlc -config X.cfg MCY.tla` and `tlapm ZProofs.tla`.

## 1. The system

| Component | State it keeps | Operations | Modelled in |
|---|---|---|---|
| Upload handler, `app/api/routes.py:191-267` | the request in flight | validate, store, commit the row, push the job or schedule the fallback | `Upload` |
| Job queue, `app/services/queue.py` | Redis list `docpipeline:jobs` | `enqueue_job` (LPUSH), `dequeue_job` (BRPOP), `queue_length` | `Upload`, `Worker` |
| Redis client, `app/core/redis.py` | `_redis_client`, one per process | `init_redis` once, `close_redis` | `PipelineState` |
| Worker, `app/worker.py` | `_shutdown`, the job in hand, a session | poll loop, `process_job`, signal handler | `Worker`, `Processing` |
| Inline task, `app/api/routes.py:67-140` | the same, inside an API process | twin of `process_job` | `Processing` |
| Tables, `app/models/document.py`, `app/db/database.py` | `documents.status`, `error_message`, `extracted_records` | commits by primary key, no status check | `PipelineState`, `DocumentLifecycle` |
| Storage, `app/services/storage.py` | files or S3 objects | `save`; nothing calls `load`, `delete`, `exists` | `Upload`, `Processing` |
| Rate limiter, `app/core/security.py:56-121` | a Redis counter with expiry, or a list of time stamps | `rate_limit`, `is_rate_limited` | `RateLimiter` |
| Extractor, `app/services/pdf_extractor.py` | none between calls | retry loop, detection, native/OCR, page count, parsing | `Extractor` |
| Export and download, `routes.py:443-536`, `services/excel_exporter.py` | files in `EXPORT_DIR` | build a workbook, serve it | `Export` |
| Metrics, `app/core/metrics.py` | counters, histograms, gauge per process | `inc`, `observe`, `collect`, middleware | `Metrics`, `Service`; gauge and job counter in `Processing` |
| Listing and status, `routes.py:270-440` | none | paging by offset; one document with its records | `Listing`, `Page` |
| Test page, `frontend/index.html` | poll timer, current document, what is shown | upload, poll, export | `Page` |
| Application and sessions, `app/main.py`, `app/db/database.py` | engine, tables created at start | `lifespan`, `get_db`, `init_db`, `close_db` | `Startup`, composed with requests in `Service`; what they mean for a job in `Upload`, `Worker` |
| Configuration, logging, API key, file name cleaning, deployment files, tests | | | not modelled (section 7) |

How they interact. A client talks to one API process. API and worker share only
the database, the Redis list and the file store; there is no message from a worker
back to the API, the client polls the row. The fallback task runs in the event loop
of the API process. Metrics and the Redis client are per process.

What makes it hard. A job moves by a destructive pop with no acknowledgement. Every
call to Redis or PostgreSQL can fail before or after it took effect, and the code
treats both alike. Processes are killed between any two awaits. The session writes
statuses unconditionally. Nothing ever looks for documents that were left behind.

## 2. The core: `Pipeline`

`PipelineState` holds constants, variables and the environment; `Upload`,
`Processing` and `Worker` the actions; `Pipeline` composes them and states the
properties; `PipelineInv` the inductive invariants; `MCPipeline` instantiates.

One action is the stretch of a coroutine between two awaits that touch shared state.

| Variable | In the code |
|---|---|
| `file` | the bytes under `storage_key` |
| `status`, `recs`, `err` | the committed row: status, number of record sets, error message (`none`, `not_found`, `extraction`) |
| `queue` | the Redis list; LPUSH/BRPOP is first in, first out, so the next job is the head of a sequence |
| `upload`, `host` | how far a `POST /upload` has come and which API process serves it, none if that one was killed before it had handed the job to the queue; `dispatched` is pushed or scheduled and not answered yet, `accepted` a 202, `error` a 500 or a cut connection, `rejected` a 400 or 413 |
| `pc`, `job`, `view` | per slot: where it is, its document, the status its session has loaded. A slot is a worker's one job or a document's inline task; `task` is a background task scheduled behind a response that has not been sent |
| `client`, `up`, `stop` | `_redis_client is not None`, the API runs, `_shutdown` |
| `gauge`, `processed` | `active_jobs_gauge`, `documents_processed_total`, per process |
| `budget`, `struck` | faults left; history: the kinds that have struck, which properties are conditional on |

| Action | In the code |
|---|---|
| `StartApi`, `StopApi`, `CrashApi` | `lifespan`; a kill cuts off requests and inline tasks |
| `UploadReject`, `UploadSave(Fails)`, `UploadCommit(Fails)`, `UploadEnqueue`, `UploadFallback`, `UploadAnswer` | `upload_document` in its order, each await with its failures; the process may be killed between any two of them, also between the push and the 202. `UploadAnswer` starts the background task |
| `Select(Fails)`, `Mark(Fails)`, `Extract`, `Finish(Fails)`, `Fail(Fails)` | `process_job` / `_process_document_inline`, one per commit |
| `WorkerStart`, `WorkerPoll`, `WorkerDequeue`, `WorkerTimeout`, `DequeueFails`, `WorkerExit`, `Signal`, `CrashWorker` | `main`, `dequeue_job`, `_handle_signal` |
| `RedisLoss` | Redis restarts without the list |

Two details of SQLAlchemy shape the failures. A session whose commit raised needs
`rollback()` before the next; the generic handler does not call it, so its second
commit always raises and is swallowed: `MarkFails` and `FinishFails` persist no
`FAILED`. The `PDFExtractionError` handler commits outside any guard, so
`FailFails` ends the worker process. And an UPDATE is sent only when the new value
differs from the loaded one, which is why `view` is state.

The gauge goes up where the code calls `inc()`, before the query for the row
(`worker.py:53`, `routes.py:75`), which is in `WorkerDequeue` and `UploadAnswer`, and
down in the action that leaves `process_job`, also for a row that is missing and
for a query that raises. A commit that takes effect, its answer, and the counter or
`finally` behind it are one action; what lies between them shows to nobody but
`/metrics`. A commit whose answer is lost, and a process that is killed at it, are
actions of their own.

Faults. `FaultKinds` says what the environment may do, `MaxFaults` how often. A
kind ending in `_reply` is a call that took effect and whose reply was lost.

### Runs

| Run | Instance | Shows |
|---|---|---|
| `settled` | 2 documents, 3 workers, 1 API; no Redis at start-up, failing pushes, pops and saves, signals; 2 faults; fairness | `AcceptedIsSettled`: every accepted document ends completed or failed |
| `crashes` | 2 documents, 2 workers, 2 APIs; every kind of fault, 2 of them | `RowHasFile`, `JobHasRow`, and with them `FaultInv`, the inductive invariant of section 3; `SingleOwner` and `ResultMatchesStatus` until a push is heard of wrongly, `CompletedHasRecords` for what survives that; `RowsAreTracked`: until a lossy fault strikes no row is without a job, a task or a request about to dispatch it, in particular a signal between pop and job loses nothing, and a killed API process strands none but the rows whose request it had not dispatched or whose task it ran, wherever in the request it dies; what it had pushed lives on, answered by 202 or not; `LossBoundedByFaults`: apart from those one fault costs at most one row; `GaugeMatchesActive` and `CountersMatchDocs` on every path out of a job; the refinement `RefinesLifecycle` |
| `brpop_reply`, `s3_backend` | 1 document, 1 worker | statements of the documentation the code does not keep (section 6) |

Bounds. Two documents and two workers are the least at which jobs compete for a
worker, workers for a job, and one document's failure could take another's job
along. Two faults allow a fault during the recovery from another, and a document
delivered twice by the first to fail in one of its deliveries. `settled` has one
worker more than faults, because a worker that finds no Redis when it starts stays
blind (section 6): with as many blind workers as there are workers the queue is
never emptied. Documents are uploaded once: the code shares no state between two
uploads (fresh uuid and key). Symmetry over documents, workers and API processes is
used in `crashes`, which has no liveness property; the abstract specification is
symmetric, too.

Fairness. asyncio runs every ready coroutine, so each slot, upload and poll loop
is weakly fair in its own steps; `restart: unless-stopped` in `docker-compose.yml`
makes `WorkerStart` weakly fair. Clients need not upload, API processes need not
restart, no fault is ever due.

### The abstract specification

`DocumentLifecycle` is what a client may rely on: a row appears pending, is taken
up once, and ends completed with one set of records or failed with a reason, for
good. Once a job has been delivered twice (`twice`) a document may be processed
again over whatever it is, but its row, its records and its reason are never taken
away. `Pipeline` implements this under every fault; the mapping is the identity on
the three columns a client can read, sets `twice` when an LPUSH that reported
failure has pushed, and hides everything else.

## 3. What is proved

With TLAPS, each safety property the passing runs check, for every value of the
constants. What is assumed of these are the `ASSUME`s of the modules, which TLC
evaluates on the instances: the sets are disjoint where they must be, numbers are
natural, the bounds of the buckets ascend, and there are finitely many
processes, which what is added up over all of them needs.

`PipelineProofs`, for any number of documents, workers, API processes and faults:

* `BaseInvariant`, and from it `TypeOK`, `RowHasFile` and `JobHasRow`. `TypeOK` alone
  is not inductive, because a slot reads `status[job[s]]`: that `job[s]` is a document
  when `pc[s]` is busy is `JobInv`, and that its row is there follows from
  `RequestInv` (a dispatched upload has a row) and from jobs existing only for
  requests that have dispatched them.
* `FaultInvariant`: `BaseInv` and `CountInv`, and from them `CompletedHasRecords` and
  `GaugeMatchesActive`. That a document has two sets of records at most needs its
  deliveries counted over the whole system: `QueueInv` says that the job pushed
  is in the queue once or in the hands of one worker; `RunsInv` adds up the records a
  document has, the job pushed and the task of its request to two at most.
  `GaugeInv` counts the calls of `process_job` in a process, from before their first
  query on, for which `HostInv` knows the process a task is scheduled in.
* `NothingIsLost` (`RowsAreTracked`) holds with double deliveries too. No constant
  is assumed to exclude a fault: the history variable `struck` is in the property. The
  rows a killed API process strands are `Orphaned`: those of `RunsOnlyIn`, its requests
  before dispatch and its tasks. That they are the only ones is what the property says
  of `api_crash`.
* `LossIsBounded` (`LossBoundedByFaults`): a step that spends no fault adds nothing to
  the lost rows, orphans apart, one that spends a fault adds the row of one slot or
  one request at most. That they are finitely many (`LossInv`) is proved with it, as
  the documents need not be.
* `CountersMatch` (`CountersMatchDocs`): only the step that changes a status to
  completed or failed moves the counter of that label, in the process that takes it.
  Before the first fault no process ends (`CalmInv`), and equality is kept. After it
  the inequality needs `DeliveryInv`: with one owner a status once counted is not
  counted again, and a process that ends only takes its counts away.
* `DeliveryInvariant`, which is `OwnerInv` until `lpush_reply` has struck, and from it
  `SingleOwner`, `ResultMatchesStatus` and, for every fault, `ImplementsLifecycle`:
  `Spec => RefinesLifecycle`, initial states to initial states and each action to a
  step of `DocumentLifecycle` or a stutter. `OwnerInv` adds where the job is to the
  status: queued means pending, `task`, `select` and `mark` mean pending, later steps
  processing. Only with a single owner does a status stay what its owner last wrote,
  and only with that is the transition legal. A second delivery needs less: whoever
  writes has found a row (`BaseInv`), which is what `Redo` asks for.

About the modules of section 4:

* `RateProofs`, from `RateAssumption` alone, so for every combination of faults:
  `RetryAfterHonest` rests on `QuietEmpties`: a key without expiry has its EXPIRE still
  to come from a connection, and what is left of an expiry plus the client's silence
  fits in one window. `GrantsBounded` rests on `GrantsByKey`, which splits the grants
  of the last window by the key they were made under: the leftovers of an earlier key
  are at most `Limit - 1`, because the first grant under a key is older than its
  expiry and has left the window when the key is gone. `AdmissionsBounded` adds what
  the memories of the processes let through. A kill erases a process's list, so what
  passed is kept for each life of a process in `letin`, and the invariant says that
  the present life remembers what it let through (`Remembered`), that a life which
  has not begun let nothing through (`LivesBegin`), so that a killed process comes
  back with a list as empty as its count, and that no life exceeds one budget
  (`MemoryFits`). The sum runs over the lives that let something through.
* `ListingProofs`: `ListInv`, which is `ReadInv` and `WalkInv`. `CompletedWithRecords`
  is inductive with the types: records come only with the completion of a document,
  so those that are there when an answer is given were there when it was looked for
  them, or came with a second completion (`redone`). No document is assumed to keep
  the status in which it was read. `WalkInv` is the
  argument about offsets: a document has a place, the number of those before it, and
  one change of the listing moves every place by one at most. So the documents that
  should have been seen by now and were not (`Missed`) grow by one only where one left
  before the offset, those that will be seen again (`Ahead`) only where one came in,
  and a page read adds to neither, because places are without gaps and without
  repetition. On the last page nothing is ahead that is not shown, which gives
  `SkipsHaveCause`; `RepeatsHaveCause` and `TotalFitsPage` follow in the same way.
* `PageProofs`: `PageInv`, which is `TimerInv` and `CalmInv`. `UploadsCounted` bounds the
  intervals and unanswered uploads together, as each answer turns one of these into one
  of those; with it `OneTimer` holds whatever comes late or is lost. `CalmInv` is what
  answers in time buy: one upload at a time, and nothing else during it; then one
  interval, one poll of it, and an export of the document shown. `PageIsCurrent` and
  `SavedUnderItsName` are not inductive without it, for they say nothing of the polls
  and exports that have still to be answered.
* `ExportProofs`: `ExportInv`, and from it `AcknowledgedIsThere`, `BreakageHasCause` and
  `OwnNameOwnDownload`, for any documents, names, API processes, downloads and faults.
  `WriterOwnsFile` says that a file being written is its only writer's, or marked as
  mixed, and unacknowledged; `NamesKept` that under a name lie only bytes of documents
  with that name, also in what was sent.
* `ExtractorProofs`: `ExtractInv`, and from it `WholeOrError` and `MissingHasCause`, for
  files of any length, any number of attempts and failures. `ReadSoFar` says how much
  has been read in the middle of a loop, `NativeHasText` why a file is read natively: a
  page with text was seen, or detection failed (`blind`).
* `ServiceProofs`: `StartInv` and `RaceIsLostOnce` for any number of processes, requests
  and faults. `RaceInv` says who can still lose: those that looked before the tables
  were there; whoever committed them looked too, and did not. `MetricsMatchAnswers`
  rests on `ObserveAdds`: a value observed goes into the first bucket it fits in
  (`FirstFit`), so that what `Collect` adds up from below is what `Summary` counts
  directly, for ascending bounds (`BucketsRise`) and any number of them. `MetricsInv`
  adds the state of each request: who has been answered is counted, once and in one
  process.

Each proof goes action by action: lemmas say what one group of actions does to
each part of the invariant, the last step is propositional temporal logic.

`Counting` has the lemmas these proofs share: induction over the naturals and over
the subsets of a finite set, and from these what happens to a cardinality, a union
or a sum over a finite set when one member or one value changes. The library's own
induction theorems take an operator as parameter, which the provers cannot
instantiate; here the property proved is a set, and the induction comes from the
library's well-foundedness of `<` on the naturals.

Only model-checked: liveness (`AcceptedIsSettled`, `Ends`, `FollowedToTheEnd`,
`PollingStops`, `AllServe`), which is out of the prover's reach; and that the
properties of section 6 fail, of which a run shows a behaviour.

## 4. The other modules

### `RateLimiter`

| In the model | In the code |
|---|---|
| `counter`, `ttl` | the key `rl:<ip>` and what is left of its expiry |
| `hits` | `_limiter._hits` of each process, a stamp being its age and its rank among those of the same tick |
| `at` | per connection: the Redis command `rate_limit` awaits |
| `ArriveRedis`, `Incr`, `Expire` and their failures | `rate_limit` with a Redis client, command by command |
| `ArriveMemory`, `CheckMemory` | `is_rate_limited`, one stretch without an await |
| `Tick`, `RedisLoss`, `CrashApi` | the clock, Redis without its keys, a process killed and restarted |
| `granted`, `letin`, `life`, `quiet`, `struck` | history, for the properties only: when Redis, and when the memory of each life of a process, let a client through; a life is named by the faults left when it began |

Run `rate`: one client on two processes, `Limit` 2, `Window` 3, all faults, two of
them. Clients share nothing but the code, so one is enough. `Limit` 2 is the least
at which the first request of a key, which sends EXPIRE, and the others differ;
`Window` 3 leaves ticks before, in and after the middle of a window. A process has
one connection there; the proofs hold for any number. `GrantsBounded` is tight:
Redis does let `2 * Limit - 1` requests through. `AdmissionsBounded` adds one
`Limit` for each life of a process that let requests through from memory, and no
more: a process that is killed and started again within a window is two lives and
gives two budgets (`security.py:114`). A fault
counts towards `RetryAfterHonest` only if it cannot come between an INCR and its
EXPIRE: after the others the promise of the 429 is broken (section 6).

### `Export`

`file` is what lies in `EXPORT_DIR` under a name: whose records, and whether whole,
half-written (`partial`) or written by two processes at once (`mixed`). A process in
`ExportStart`..`ExportDone` does nothing else, since the exporter never awaits;
`FileResponse`, which reads the file in a thread, may run in the middle of it
(`DownloadCheck`, then `DownloadRead`). Run `export`: three documents of which two
have the same name, two processes, exports that fail or are killed. Two processes
are the least that can write one file at once; one download is enough, downloads
change nothing. `acked` is the document of the last export answered with 200, until
another of that name begins.

### `Extractor`

`extract` on a file that is there, page by page: `DetectPage` looks for embedded
text, `Import` for the OCR packages, `ReadPage` adds one page, `CountPages` and `Parse`
end it, `Wake` is the next attempt after `time.sleep`. Whether the file is there at
all is in `Processing` (`Readable`). A page shows embedded text, an image of text, or
nothing; of the parser only matters that it makes one record of any text and none
of blank text. `blind` is history: detection raised, and the file was taken for native.
Run `extract`: every three-page file, so that a page to read may come
before, at and after the one that raises; three attempts, as configured; two
failures. Fairness: a running thread keeps running.

### `Page`

One action is the JavaScript between two awaits. `running` are the documents whose
interval is set, `pollTimer` the one the variable holds, `page.meta` and `alert` the
documents that `docMeta` and `statusAlert` speak of, which the 202 of the next upload
leaves alone (`index.html:467-477`), `polls` the fetches in
flight, each with the status the server read for it, so answers overtake each
other. `Choose` and `Drop` are the two ways to a file, `Click` and `UploadAnswered` the
two halves of `uploadFile`, `Tick`, `PollServed` and `PollHandled` those of
`pollStatus`, `ExportClick` and `ExportSaved` those of `exportDocument`; `Accept` and
`Progress` stand for the service. A row that is processing is pending there, which
the page treats alike. Run `page`: two documents, uploaded one after the other or at
once, a poll limit of 2 instead of 60, requests that fail. Two documents are what an
answer can be mistaken about; at a limit of 2 the last poll can be in flight when
the interval gives up. Fairness: intervals fire, fetches are settled.

`overlaps` counts the uploads started during another. Each may leave one interval
that `pollTimer` no longer holds, no more than that (`OneTimer`); without an overlap
all polling stops (`PollingStops`). The other properties say `calm`: each poll is
answered before the next turn of the interval or click, each upload and export
before the next upload. Without it they fail (section 6). Even then `PageIsCurrent`
speaks of the ends of documents only: between the 202 and the first answered poll
the card has the new badge, pending, beside the previous document's ID, file name
and message.

### `Listing`

A walk through `GET ""` page by page: `ListFirst`, then for each page `ListCount`,
`ListRows`, `ListRecords`, three queries with the snapshot of their own moment (READ
COMMITTED, the default of PostgreSQL), and `ListNext`. Between any two of them
documents appear and change status. They are numbered by `created_at`, which is the
start of their transaction, so they become visible in any order; two with the same
`created_at` are left out, for which the database promises no order at all. `Mark`,
`Complete` and `Fail` check no status, as the code does not (`worker.py:67`): each
document has its job once, those in `Again` twice (section 6, `FallbackMeansNotQueued`),
so a completed or failed document may go back to processing, or be completed again
with further records, while a client reads. `toCome` and `marked` count the jobs that
have not begun and those that are under way. Run `listing`: three documents, one of
them delivered twice, two on a page, every filter: a document can leave before, on and
behind the page last read, and come back. `walk` and `redone` are history; `redone` are
the documents that were completed once more after they had been read as completed:
their further records may be missing from that answer, no others.

### `Startup`, `Metrics`, `Service`

`Startup` is what API processes and workers do before they serve: `init_db` in one
transaction, that is `CheckTables`, then `CreateTables` or, when somebody else has
committed in between, `TablesExist`, which ends the process; then `CommitTables`.
`creator` is the open transaction that has created them; a second CREATE waits for
it. `Dies` and `Stop` are the two ends of a process that has not lost this race.

`Metrics` is `metrics.py` as operators on values: a counter by label, a histogram
whose `Observe` increments one bucket and whose `Collect` adds them up from below.

`Service` composes both with requests: `Arrive` and `Handle`, `Raise` or `Scrape`, then
`Answer`, which is the second half of `MetricsMiddleware.dispatch`, on one of the
processes, whose memory goes with it (`Cut`). Durations are in units of which the
bounds of the buckets are multiples.

Run `service`: two API processes and a worker, two requests, two faults; buckets up to
1 and 3 and durations 1, 2 and 4, so that a value is on a bound, within a bucket and
beyond the last one. Three processes are a winner, a loser and one that comes later.
`MetricsMatchAnswers` compares what a process shows with `Summary`, which counts the
answers directly; `RaceIsLostOnce` and `AllServe` say that restarting is all the race
needs. Fairness: uvicorn's supervisor (`--workers 4`) replaces a process that ended,
the container runtime a container (`restart: unless-stopped`), and a step that can be
taken is. The run may stop when all serve and all requests are over, hence no
deadlock check.

## 5. Plan

Every safety property of the passing runs is a theorem. What is left, in this order:

1. Abstract specifications for `Export` and `Extractor`, as `DocumentLifecycle` is for
   the pipeline: an export that is replaced as a whole, an extraction in one step.
2. Variants for `Ends` and `PollingStops`: not the liveness itself, but that every step
   of the loop decreases what it has left.

## 6. Where documentation and code disagree

Each of these is a run that must find a counterexample:

| Run | What it shows |
|---|---|
| `brpop_reply` | `docs/deployment.md:195` promises exactly-once delivery by BRPOP. It is at most once: a reply that is lost takes the job with it, and nothing acknowledges or re-queues (`queue.py:70`) |
| `s3_backend` | `docs/architecture.md:99` shows `storage.load` before `extract`. No code calls it: with S3 the extractor gets an `s3://` URL, and every document fails as not found (`pdf_extractor.py:56`) |
| `export_files` | `routes.py:493` says that the download is the document's export. Its name comes from the original file name alone, so two documents called alike share it (`routes.py:470`) |
| `errors_counted` | `docs/deployment.md:217` takes the error rate from `http_requests_total`, and `metrics.py:151` counts every request. The middleware has no `finally`, so an exception passes it uncounted, and no route returns a 5xx (`metrics.py:155`) |

The following have no run of their own. Each is seen by changing the configuration
as said and checking the property named, which the module defines:

| Configuration | Property | What happens |
|---|---|---|
| `settled.cfg`, 1 document, 1 worker, `{"lpush_reply"}` | `FallbackMeansNotQueued` | a push that took effect and raised counts as not queued (`queue.py:28-29`, `:50`): the document is processed twice |
| the same with `{"no_redis"}` | `AcceptedIsSettled` | a worker that cannot PING at start never tries again (`redis.py:36`), though Redis is back: `docs/deployment.md:285` explains a document stuck in pending by a worker that is down or a Redis out of reach only |
| the same with `{}` | `MetricsSeeEveryDocument` | `/metrics` of the API shows nothing of what the workers count (`worker.py:92`; `docs/deployment.md:203,209`) |
| `rate.cfg`, no faults | `SlidingWindow` | `security.py:6` says sliding window; the Redis limiter is a fixed window, and around a boundary more than `Limit` requests pass within one (`:99`) |
| `rate.cfg`, `{"expire"}` | `BudgetIsBack` | a key whose EXPIRE failed never expires (`security.py:101`): the client that waits as the 429 tells it is turned away again |
| `export.cfg`, no faults | `AcknowledgedIsWhole` | two processes write one file at once (`excel_exporter.py:77`; `Dockerfile:71` starts four) |
| `extract.cfg`, `MaxFaults = 0` | `TextIsFull` | one page of embedded text makes a file native, and its scanned pages are dropped (`pdf_extractor.py:113`, against `:51`) |
| `extract.cfg` | `RetriesFailures` | the retry loop lets `PDFExtractionError` through, which is what library failures have become by then (`:92`, against `:6`) |
| `page.cfg`, `Habits = {"overlap"}` | `PollingStops`, without its condition | of two overlapping uploads one interval can no longer be cleared (`index.html:490`, against `:489`) |
| `page.cfg`, `Files = {f1, f2}`, 1 document | `UploadsWhatIsNamed` | a dropped file is named but the selected one is sent (`index.html:430`, against `:302`) |
| `page.cfg`, without `calm` | `PageIsCurrent`, `FollowedToTheEnd`, `SavedUnderItsName` | a late answer about the previous document is shown, clears the interval of the current one (`:506`), or lends its name to a saved file (`:599`) |
| `service.cfg`, `MaxFaults = 0`, 3 requests | `ScrapesGrow` | four processes answer at one port, each with counters of its own (`Dockerfile:71`): what Prometheus reads falls without a restart, against `docs/deployment.md:215`, which takes its `rate()` |
| `listing.cfg`, `N = 3`, `Size = 1` | `CursorSkipsNothing` | the pagination is by offset, not by cursor (`routes.py:336`): a document that leaves the listing hides another |

## 7. Not modelled

* What a function of one request computes: `verify_api_key`, `sanitize_filename`, the
  checks of an upload (one rejection in `Upload`), URLs of databases, response schemas, the layout of
  the workbook, the rendering of the page, `/health`, CORS.
* Configuration. Its values are CONSTANTs; `RATE_LIMIT_REQUESTS` of 0 or less, which
  switches the limiter off, and `MAX_RETRIES` of 0 are excluded by assumption.
* Clocks that jump: Redis and the processes share one clock that ticks evenly.
* Time. Extraction in the inline task blocks the event loop of its API process; the
  model knows no durations, so only the order of events is there.
* `load`, `delete` and `exists` of the storage backends, which nothing calls.
* Logging, deployment files, tests: read, and quoted where they say what
  the program should do.
