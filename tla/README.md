# AI-SOC-Brain in TLA+

This directory is a verification project for the repository it sits beside: a
local security operations backend (FastAPI, one process, asyncio with a thread
pool) that collects telemetry, stores it in DuckDB, SQLite and Chroma, matches
it against threat intelligence and Sigma rules, opens cases in TheHive,
recommends containment and carries it out on a firewall.

The modules are translated from the Python source. Paths below are relative to
the repository's root; `PROJECT.json` maps every definition to its lines.

Contents: [the system](#the-system), [the modules](#the-modules),
[the runs](#the-runs), [fairness](#fairness), [the proofs](#the-proofs),
[divergences](#divergences), [what is not modelled](#what-is-not-modelled),
[the plan](#the-plan), [running it](#running-it).

## The system

One process holds everything: HTTP handlers and background tasks are coroutines
of one event loop, blocking work goes to a thread pool (`asyncio.to_thread`),
and a scheduler runs interval jobs in threads too. So the interleavings
that matter are those **between two awaits of a coroutine**, **between threads
on a shared connection**, and **with external systems** (OpenSearch, SpiderFoot,
TheHive, the firewall, the feeds) that fail or answer late. Nearly all state is
in two databases that are not written in one transaction, and the process may
stop anywhere.

### How the parts interact

```
 log file, OpenSearch,       Ubuntu archive         feeds (Feodo, CISA,
 Windows channels            UbuntuPipeline         ThreatFox, MISP)
   | Collectors, MalcolmPoll    |                       | IocIntel: sync, decay
   v                            v                       v
 uploads ----------> IngestionLoader.ingest_events <-- ioc_store (SQLite)
  IngestJobs          | Ingestion             |            ^
      DuckWriteQueue  v                       |            |
                    DuckDB <-- retroactive scan, backfill  |
                      |                       `--> graph (SQLite): ThreatGraph, Chroma
                      v
   Sigma rules: SigmaConditions -> Detections -> triage by the model
                      |                  `--> TheHive case, retry queue, closure sync (TheHive)
                      |        agentic investigation, its stream (AgentRun)
                      v
         recommendations: draft, approve, dispatch (Recommendations)
                      |            firewall executor (external)
                      v                   |
         receipts, case state, notifications (Receipts)
         PlaybookLibrary -> playbook runs -> policy gates -> IPFire over ssh (Playbooks)
         investigations --> SpiderFoot (OsintInvestigation)

         under all of it: the tables and their migrations (Schema), and the SQLite
         connection that threads share (SharedConnection)
```

### Inventory

Each entry: the state it keeps, its operations, what makes it hard, and what
makes it correct. Components without a module are listed under
[what is not modelled](#what-is-not-modelled), and all of them in
`PROJECT.json`.

**DuckDB store, the write queue** (`backend/stores/duckdb_store.py`).
State: an `asyncio.Queue` of write operations, each with a Future; one worker
task; the write connection. Operations: `execute_write` (put, await the Future),
`write_worker` (get, run `_execute_sync` in a thread, resolve the Future),
`close`. Hard: callers that block on a full queue and are overtaken, callers
cancelled in `put` or on the Future, statements that raise, shutdown while a
thread commits. Correct when every answer agrees with the database, writes
happen at most once and in queue order, and calls come back.

**Ingestion pipeline** (`ingestion/loader.py`). State: no state of its own
besides jobs; it writes three stores. Operations: `ingest_events` (enrich,
deduplicate, insert in batches, embed in a background task, write the graph,
correlate). Hard: overlapping calls, stores
that fail between others, a crash in between. Correct when the counts are not
larger than what is stored, nothing is stored unmatched and unscored, and the
three stores speak of the same events.

**Threat intelligence** (`backend/services/intel/`, matching in
`ingestion/loader.py`). State: `ioc_store` with status and confidence,
`ioc_hits`, the `ioc_matched` column of events, one worker per feed. Operations:
`upsert_ioc`, `decay_confidence`, `check_ioc_match` with `_record_hit`,
`retroactive_ioc_scan`. Hard: two syncs of one indicator, an indicator that
expires and returns, an event that is matched while the indicator arrives.
Correct when each indicator is scanned for once, the two columns agree, and an
event on record as matched has its hit.

**Collectors** (`ingestion/jobs/`). State: a cursor each (an offset in memory, a
timestamp in `system_kv`). Operations: poll, ingest, save the cursor, heartbeat.
Hard: the order of ingest and cursor, page limits, equal timestamps, records
that arrive late, restarts. Correct when nothing is read twice and nothing lies
unread behind the cursor.

**SQLite store** (`backend/stores/sqlite_store.py`). State: one `sqlite3`
connection with its open transaction and an RLock. Operations: some hundred
methods wrapped by `_synchronized` (lock, rollback on error), and raw sections
under `conn_lock` or `locked_conn` (lock, no rollback). Hard: a transaction
belongs to the connection, not to the thread that began it. Correct when methods
are atomic and no thread commits or rolls back another's rows.

**Recommendations** (`backend/api/recommendations.py`, ADR-030). State: one row
per artifact. Operations: create, approve (read, gate, write), dispatch. Hard:
the gate decides on what it read before an await. Correct when nothing is
approved around the gate, nothing unapproved is dispatched, and an approved
artifact does not change.

**Receipts** (`backend/api/receipts.py`, ADR-032). State: `execution_receipts`
(DuckDB), the case status and `notifications` (SQLite). Operation:
`ingest_receipt`, three writes, the last two best-effort. Hard: repeated and
concurrent deliveries, failures between the writes. Correct when the audit trail
comes first and each receipt has one effect.

**TheHive** (`backend/services/thehive_client.py`, `thehive_sync.py`). State: the
case id and status of a detection, the retry queue with its attempts. Operations:
create a case in a thread, drain the queue, sync closures. Hard: a call that
fails after it took effect, a retry beside the first attempt, five attempts.
Correct when no failure loses a case, cases are not made twice without one, and
closures come back.

**OSINT investigations** (`backend/api/osint_api.py`,
`backend/services/osint_poller.py`). State: the investigation's row, its
findings, the scan at SpiderFoot. Operations: start, poll, harvest, time out,
cancel, stream. Hard: four writers of one status column, each a few awaits long.
Correct when a finished investigation has its findings, a timeout stops the scan,
and every investigation and stream ends.

**Playbook runs and enforcement** (`backend/api/playbooks.py`,
`backend/enforcement/`). State: the run's status and steps, the firewall's rules.
Operations: start, advance (with policy gates and ssh commands), cancel. Hard: a
row read before the ssh commands and written after them, commands that go on
after their timeout. Correct when the firewall drops only what passed the gates,
and what is reported and recorded is true and kept.

**Uploads and ingestion jobs** (`backend/api/ingest.py`, `ingestion/loader.py`,
`ingestion/parsers/`). State: a table of jobs in memory, the uploaded file, two
tables of scanned files, provenance. Operations: `POST /ingest/file`, the background
job (parse, normalise, ingest, hash, provenance), the Hayabusa and Chainsaw scans.
Hard: errors of every step, two jobs of one file, scanners that fail or say nothing,
restarts. Correct when a job tells the truth about its file and a file that is marked
as scanned has left its findings.

**Malcolm poll, normalisers, Ubuntu pipeline** (`ingestion/jobs/malcolm_collector.py`,
`ubuntu/`). State: 28 cursors and a line count in `system_kv`; an archive per day; a
line offset in memory. Operations: one poll over all datasets, page by page; 28
normalisers; archive, normalise, serve, fetch. Hard: a document that raises in the
middle of a page, filters over one index, files that change with the day. Correct when
nothing is taken twice and nothing but the damaged part is given up.

**Threat graph** (`ingestion/entity_extractor.py`, `backend/api/graph.py`,
`_write_graph`). State: `entities` and `edges`. Operations: extraction, the loader's rows,
a backfill from DuckDB, requests that create and delete. Hard: a commit for every row,
foreign keys, several writers. Correct when edges have their ends and a backfill leaves
the graph whole.

**Sigma compiler and detection runs** (`detections/matcher.py`, `backend/api/detect.py`).
State: `detections` with tags, CAR analytics and provenance; a cache of clauses per
request. Operations: compile a condition, run every rule, save, hand over to TheHive.
Hard: a compiler that cuts text, NULLs, a cache keyed by rule id, saves of several
commits. Correct when a condition combines detections as Sigma does, a detection names events
that match its rule, and what is answered is stored.

**Auto-triage** (`backend/api/triage.py`, `backend/startup/workers.py`). State: the result
of each batch, the mark on each detection. Operations: fetch untriaged, ask the model,
save, mark, by a worker and by a route. Hard: both at once, new detections meanwhile,
batches of twenty, errors. Correct when a marked detection is in a saved result and every
detection is reached.

**Agentic investigation** (`backend/services/agent/runner.py`,
`backend/api/investigate.py`). State: a semaphore, a thread, a queue, the stream.
Operations: admit, build, take steps, end by answer, deadline, limit, error, disconnect.
Hard: a thread that cannot be stopped, answers that race the deadline. Correct when the
stream has its order and always ends.

**Playbook library and coverage** (`backend/data/builtin_playbooks.py`,
`backend/api/playbooks.py`, `coverage.py`, `analytics.py`). State: `playbooks` and their
runs. Operations: seeding at every start, analysts' playbooks, the coverage matrix. Hard: thirty
commits, databases of earlier versions, a start that gives up in the middle. Correct when a
seeding that ended leaves the library whole, and when a playbook that the matrix names can be run.

**Schema** (`backend/stores/`, `backend/startup/stores.py`, `backend/services/attack/`,
`car/`, `atomics/`). State: the tables and columns there are, the version of the graph.
Operations: the statements of a start, each with an error that is swallowed. Hard:
interrupted starts, databases of earlier phases. Correct when every statement of the
program finds its columns.

### Hazards

`PROJECT.json` lists forty, each at its line, with the properties that
would catch it; one of them (an event that is matched before an indicator comes and
stored after its scan) no property covers. Further weak points of the code that no property can hold of, or
that involve no order of events, are under [divergences](#divergences) and
[what is not modelled](#what-is-not-modelled).

## The modules

| Module | Models | Composition |
|---|---|---|
| `SerialStore` | what `execute_write` promises: a serial log and truthful answers | abstract specification |
| `DuckWriteQueue` | the queue, its worker, threads, cancellation, shutdown | implements `SerialStore` |
| `Subsequences` | what a sequence has at some of its places | pure; used by `Ingestion`, `MalcolmPoll`, `UbuntuPipeline` |
| `Ingestion` | `ingest_events` over three stores | a row insert is one step, by `SerialStore` |
| `IocIntel` | syncs, decay, matching, scans | the rest of an ingest is two steps, see `Ingestion` |
| `IngestJobs` | uploads, jobs, parsers, EVTX scans | the ingest of events is one step with its outcomes, see `Ingestion` |
| `ThreatGraph` | extraction, loader's rows, backfill, requests | each row is one step, by `SerialTransactions` |
| `Collectors` | one source of each of three collectors | `ingest_events` is one step that may fail in three ways, see `Ingestion` |
| `MalcolmNormalisers` | the 28 normalisers as tables of keys, columns and conversions | pure; used by `MalcolmPoll` |
| `MalcolmPoll` | one poll over all datasets | extends `MalcolmNormalisers`; `Collectors` has the pages and times of one dataset |
| `UbuntuPipeline` | archiver, writer, and the collector's line count | three programs over files |
| `Schema` | tables, migrations, statements of both stores | every other module presupposes `SchemaIsWhole` |
| `SerialTransactions` | what `SQLiteStore` promises: a call's rows come in one step or not at all | abstract specification |
| `SharedConnection` | the lock and the transaction of the SQLite connection | implements `SerialTransactions`; each SQLite write elsewhere is one step |
| `Recommendations` | create, approve, dispatch | a write is one step, by `SerialStore` |
| `AuditTrail` | what the receipt endpoint promises of each receipt, however often it is sent | abstract specification |
| `Receipts` | the three writes of a receipt | implements `AuditTrail`; a write is one step |
| `TheHive` | case threads, queue drain, closure sync | SQLite writes are one step |
| `OsintInvestigation` | request, poller, cancellation, stream | SQLite writes are one step |
| `SigmaConditions` | compiled conditions against Sigma's | recursive functions over conditions; a reference definition beside the code's |
| `Detections` | detection runs and triage | the clauses are a table, as `SigmaConditions` evaluates them; hands over to `TheHive` |
| `AgentRun` | route, generator, thread, queue | the agent is open |
| `BuiltinPlaybooks` | the thirty playbooks | data |
| `PlaybookLibrary` | seeding, analysts' playbooks, the playbooks the matrix names | extends `BuiltinPlaybooks` |
| `Playbooks` | runs, gates, ssh commands | SQLite writes are one step |

The rule that joins them: where a component calls `execute_write` or a method of
`SQLiteStore`, its module has one atomic step that succeeds or fails, and the
refinements `QueueImplementsStore` and `ConnectionImplementsTransactions` are the
theorems that allow this. (Code that
writes SQLite in a raw section is given several steps where it matters:
`DrainUpdate` and `DrainDelete` of `TheHive`.)

Six modules `MC...` hold the small instances of several modules each: `MCStores`,
`MCSqlite`, `MCIntel`, `MCResponse`, `MCPlatform` and `MCDetection`. Each EXTENDS its
modules. A variable
`part`, chosen at the start and never changed, says which of them runs; the others'
variables keep one initial value. A behaviour of such a module is therefore a behaviour
of exactly one of its parts, the states add up instead of multiplying, and one run
answers the questions of several modules. Modules in one composite therefore have no
variable or definition of one name; where the code has the same name twice, one has a prefix
(`LoadNext`, `HiveTypeOK`). The modules `...Proofs` hold [theorems](#the-proofs). Definitions keep the source's names where they can (`WorkerGet`,
`DrainStart` and the like name the part of a function between two awaits).
Definitions introduced by `\* Mutant:` are faulty variants of the definition below
them: putting one in place of it must break a property, which is how a property
is known to say something about the code.

### State and actions

**DuckWriteQueue.** `call` is where each `execute_write` is (`putting` in a full
queue, `waiting` on its Future); `future` its Future; `enqueued` everything ever
put, of which the worker has got the first `taken`; `worker`, `cur` and `thread`
the loop, the operation in hand and the thread running `_execute_sync`; `db` the
writes in the order of their commits. `PutResumes` may be overtaken by
`ExecuteWrite`. `CancelCall` leaves a queued operation in the queue. `ExecuteSync`
commits or raises. `WorkerForward` respects `future.done()`. `CancelWorker` stops
the loop but not a running thread, and `CloseConnection` closes what it writes to.

**Ingestion.** For each call its `events`, what deduplication left (`fresh`), how
many rows were tried (`row`) and counted (`loaded`), and its background task
(`embed`); globally the sets of events enriched, in DuckDB, in the graph and in
Chroma. A failed row skips the rest of its batch without counting the rows before
it, and the loop goes on, as `_batch_insert_duckdb` does. `StoredEvents` is the
prefix that the code hands on. `NewEvents` is what deduplication leaves, given by the places
it keeps (`NewAt`): a form that the provers can reason about.

**IocIntel.** `sync` is one per feed or manual sync: a fetched batch is saved
indicator by indicator, stamped, then the scans are triggered. `iocScan` and `rows`
follow a scan from its query to its hits. An event goes `idle`, `hit`, `enriched`
and is stored with `ioc_matched`; it may come in again. `Guarded` are the workers
that catch an error of the save.

**Collectors.** `kind` says which collector the behaviour is about. Records are
numbered; `time` gives their timestamps in half seconds (the channel's filter
takes whole seconds). `copies` counts the events each record has become, up to
two. `skipped` records whether a query passed over a record for good, or DuckDB
refused one: properties exclude what the code does not attempt.

**IngestJobs.** `job` is the table in memory, `stage` where each task is; `tool` and `putOut`
follow a scan. `ownEvents` are the events a job has parsed, `stored` and `traced` the rows in
DuckDB and their provenance, `inserted` and `scanned` the findings and the marks. A file is
its suffix, its layout and its records: what each of the three parsers makes of a layout
that is not its own is in `Parser` and the operators after it. `hurt` and `silent` are
history: steps whose error was only logged.

**ThreatGraph.** `entities`, `edges`, `cases` and `investigations` are tables; `batch` is what
the loader has still to write, `fill` the backfill with its rows. `RowsOf` is an event's rows in
the loader's order, `FillRowsOf` in the backfill's. `Refused` is the foreign key of `case_id`. The
loader gives up the rest of one event (`GiveUp`), the backfill ends (`AfterError`). `raced` and
`restored` are history.

**MalcolmNormalisers, MalcolmPoll.** A normaliser is a set of columns, each with the keys it is
taken from in their order and the conversion; `Outcome` says whether a document is dropped,
raises or becomes an event. `place` and `page` are the poll's loop over the datasets; the cursor
moves when the page has been fetched, before it is normalised as a whole.

**UbuntuPipeline.** A line is its number; `raw`, `normal` and `sealed` are files by day;
`archDay` and `scanDay` the dates that archiver and writer believe in; `offset` the writer's
place, `lineCount` the collector's count, which is not reset at midnight. What the writer cannot read is
`Unreadable`, what is no JSON for the collector `Garbled`, and `Raising` is a line that parses and
then makes `int` or `NormalizedEvent` raise: `MayAdvance` lets no poll pass that meets one, because
the count is saved behind the loop. A transfer of the file is taken as whole (the writer appends a gzip member
a line; how many of them the HTTP client decodes is outside of `src/`). `fetchedLines` and
`eventsMade` (up to two) are history.

**Schema.** `lacks` are the columns the database has not got; `place` the step of the start,
`STEPS` the start itself in the order of the code: create tables, add columns one by one, seed
and raise the version of the graph. `StoreStatements` are the stores' statements with the columns
they name, `DirectStatements` those of a job and of routes. A version is the phase that the code's comments
give a column.

**SigmaConditions.** `cond` is the condition, which grows by tokens. `SqlValue` is
compiling and evaluating in one recursion, `SigmaValue` the reference with Sigma's
precedence. What a single detection selects is `DetectionSql` in both, NULLs apart: lists of nothing but wildcards,
modifiers that are not supported and fields that are dropped are the compiler's reading, and are not
compared with Sigma's. Both have three values, for NULL. Each is a recursive function on the conditions, one
`...Step` that gives the value of a condition by those of shorter ones: that, unlike a
RECURSIVE operator, can be reasoned about.

**Detections.** `run` is each request's loop over the rules with its `cache` and what it found;
`order` and `row` the table; `triage` where the worker and the route are; `saved` the results'
batches. `hurt` are detections that an error or a crash kept from being whole.

**AgentRun.** `at` is where a generator is, `out` the stream it has sent; `queue` and
`thread` join it with the agent; `overdue` and `limited` the deadline and the limit; `holder`
has the semaphore. What the agent does, and whether it answers, is open.

**PlaybookLibrary.** `playbooks` and `used` are the tables; `seed` where the start is, with the
names it has read. An initial database is empty, or one of two earlier versions.

**SharedConnection.** `inside` are the calls in possession of the lock (a set, so
that a lock that fails to exclude can be told); `open` the rows of the
transaction; `db` the committed ones. `Methods` roll back when they raise, the
other calls (sections) do not. For `SerialTransactions` a commit is the step in which
the rows come in, and `ReplyOf` is what a call has been told.

**Recommendations.** A row has the columns the gate, the schema and the ADR speak
of. `ApproveRead` is the SELECT, the guards and the gate, `ApproveWrite` the
UPDATE: other requests and the clock run in between. `dispatched` records what was
dispatched, as it was read.

**Receipts.** `handler` is where each request is: `store`, `case` or `notify`. The
executor may deliver any receipt at any time again.

**TheHive.** `remote` counts the cases a detection has in TheHive, `linked` says
which the detection's row names. `todo` and `draining` are the drain in progress,
which goes row by row with two commits each. `answers` chooses the client of the
jobs: one that answers, as in the unit tests, or the deployed one, whose coroutine
is never awaited.

**OsintInvestigation.** Every variable is one actor's place or one column. A
cancellation has two steps, the calls to SpiderFoot and the UPDATE; it may come at
any time, also before the placeholder id has been replaced.

**Playbooks.** `run` is the row; `req` where each handler is, with the row it read
(`snap`) and the result of its enforcement; `rules` how many of the three iptables
rules the firewall has for an address, in order; `late` the addresses whose
command nobody waits for any longer. `mode` stands for the settings, which may be
different after a restart. `Overlap` says whether requests for one run may overlap:
the dashboard keeps its advances apart, but not a cancellation.

## The runs

Six runs must pass, six must find a violation. A passing run takes one to two and a half minutes
with two workers.

| Run | Part | Instance | Checks |
|---|---|---|---|
| `stores` | queue | 3 calls, a queue of 1 | `CallsReturn`, `ImplementsSerialStore` |
| | loader | 3 events, 2 calls, batches of up to 3 with DuckDB batches of 2, 2 failures or crashes | `LoadedIsStored`, `StoredIsIndexed` |
| `sqlite` | connection | 2 methods and 2 sections of 2 rows, 2 errors or crashes, a close | `MethodsAreAtomic`, `ImplementsTransactions` |
| | indicators | 1 indicator, 2 events, a guarded and an unguarded sync, 1 failure or restart | `FlaggedIsHit`, `NewIocIsScanned` |
| `intel` | recommendation | 1 artifact, 2 operators and a blank name, 2 requests, 3 times | `ApprovedPassedGate` |
| | osint | 2 findings, 2 polls, 1 failure or crash | `FinishedIsHarvested`, `InvestigationEnds` |
| | collector | 3 collectors in turn, 3 records, 4 half seconds, pages of 2, 2 failures, restarts or rotations | `NoGap`, `WrittenIsIngested` |
| | malcolm | each pair of neighbouring datasets, 2 documents, 1 failure or restart | `NoDoubleIngestion`, `OthersAreIngested` |
| | ubuntu | 5 lines, one the writer cannot read, one that is no JSON for the collector, one on which it raises; 2 days, 1 failure or restart | `LinesAreIngested` |
| `response` | receipts | 3 receipts of 2 cases, 2 handlers, 2 failures or crashes | `AuditFirst`, `ImplementsAuditTrail`, `StoredIsNotified` |
| | thehive | 3 detections (2 eligible), both clients, 2 failures or crashes | `OneFailureLosesNothing`, `PendingIsRetriedIfAnswered`, `ClosureIsSynced` |
| | threats | 3 events in 2 batches, the first one with an event of a case, a backfill of 2, 1 request, 1 error or crash | `EdgesHaveEnds`, `BackfillIsWhole` |
| `platform` | runs | 2 runs of 2 steps, 5 requests, `Overlap = FALSE` | `EnforcedPassedGates`, `BlockedIsBlocked`, `RecordedIsKept`, `OverIsOver` |
| | library | 30 playbooks, 2 starters, a playbook of an analyst with a built-in's name, a starter that may have a run | `LibraryIsWhole`, `NamedCanBeRun` |
| | uploads | 2 uploads, each of any of 7 files, 2 and 1 findings, 2 errors or restarts | `UploadsAreTrue` |
| | schema | no database or those of six phases, 1 error or crash | `SchemaIsWhole`, `GraphVersionIsTrue` |
| | agent | 2 requests, a conclusive tool result, a limit of 1 call, 2 calls in a step | `StreamIsWellFormed`, `StreamEnds` |
| `detection` | detections | 3 rules, 2 events, 1 request, 1 entry by hand, 2 who triage, batches of 1, 1 error or crash | `DetectionIsTrue`, `AnsweredIsWhole`, `TriagedIsSaved`, `StoredIsTriaged` |
| | conditions | 6 detections, 16 events, conditions of up to 5 tokens | `CompilesAsSigma` |
| `recommendations_race` | recommendation | as in `intel` | violated: `ImmutableAfterApproval` |
| `direct_statements` | schema | as in `platform` | violated: `DirectStatementsRun` |
| `case_graph` | threats | as in `response` | violated: `CaseGraphIsStored` |
| `playbooks_overlap` | runs | as in `platform`, `Overlap = TRUE` | violated: `OverIsOver` |
| `evtx_record_numbers` | uploads | as in `platform` | violated: `RecordsAreStored` |
| `sigma_all_conditions` | conditions | as in `detection` | violated: `OperatorsBindAsSigma` |

What they show, and why the bounds suffice:

- **queue.** With three calls and one place, one operation is in hand, one
  queued and one blocked in `put`: overtaking, cancellation in every position and
  shutdown with a commit in flight all occur. A longer queue adds copies of the
  middle position. The proofs hold for any number and size.
- **loader.** The batches overlap, repeat an event, are empty, and span two DuckDB
  batches, so that a first batch can fail and a second succeed; two failures let
  that coincide with a failing query or embedding of the other call.
  `StoredIsIndexed` includes the case that the second call drops an event while the
  first has not indexed it yet.
- **connection.** Two rows make "half of a call" possible; two sections and
  two methods make every pairing of what fails with what commits next.
- **osint.** Investigations share no rows, so one is enough; two polls separate a
  first look, a last look and the deadline. Cancellations are not bounded.
- **agent.** Two requests compete for the semaphore. With a limit of one call and steps
  of two, the limit fires within a step, while the answer is on its way. The deadline and the
  disconnection may come at any moment.
- **recommendation.** Two requests are what it takes to race; confidence,
  inspection, validity and expiry take all their values. `ApprovedPassedGate` is
  about the row the UPDATE leaves behind, whoever wrote last.
- **indicators.** One indicator: every condition in the code is per indicator, and
  two would only interleave. Of the two events one has it as its source, one as
  its destination. `MaxConf = 1` puts decay at its boundary at every step.
- **schema.** All steps of the start and all tables are those of the code. The six phases are the
  first one, the last one, and some of those at which several columns came; each start may be
  interrupted at any step and be followed by another.
- **receipts.** Three of the five taxonomies (the other two have the case status of
  one of these and differ from it in no guard), two receipts of one case, and two
  handlers, so each receipt can meet its own duplicate at every step.
- **thehive.** Attempts run to their limit of five with the deployed client.
  `OneFailureLosesNothing` allows one failure of the two. The two liveness properties are about the
  client of the unit tests; with the deployed one they are false (divergences).
- **threats.** A process, a line of the firewall and a logon share a host; the logon is of a case
  and shares a batch with the line, whose rows must not suffer when the logon's are refused. One error or crash can hit the loader, the backfill or neither, and one
  request deletes, draws an edge or opens a case in between.
- **runs.** Two requests compete to block one address from two runs, one asks
  for an address of the safelist, one lifts a block, one cancels. Failing and late
  commands and restarts with other settings are not bounded. Two steps
  suffice: the code tells only the last one from those before it.
- **library.** The playbooks are all of the code's, with their sources, categories and
  techniques; the seeding goes entry by entry and may end at each. Restarts are not bounded.
- **collector.** Three records are a page of two and one left over; four half
  seconds are two whole ones, so that equal timestamps, late documents and a cursor
  inside a second all occur.
- **malcolm.** Each pair of neighbours in the dispatch covers all 28 datasets and their
  order. A document has text, a numeral or a list under one key and what the normaliser expects under the
  others, or lacks its address.
- **ubuntu.** Two days make one midnight; the writer and the archiver notice it
  independently. Of five lines the first is one that the writer cannot read, the third is no
  JSON and the fourth raises; the second and the last are ordinary, one taken and one held up. `LinesAreIngested` is about the first day (divergences).
- **uploads.** A file for each parser, one that cannot be parsed, one of a layout that its parser
  reads as nothing, one of another suffix, two logs of one computer, and a timestamp that cannot be
  moved to UTC; the two uploads may be the same file.
- **detections.** One request is enough: matcher and cache are its own. Its rules are one that is tagged and
  high, one that does not convert, one without either. A batch of one makes the worker
  choose. Fairness to the worker alone gives `StoredIsTriaged`.
- **conditions.** Five tokens hold two operators, a negated group, or a quantifier
  with an operator. `CompilesAsSigma` is about conditions that Sigma and the compiler
  read alike (`Plain`); the run `sigma_all_conditions` is about all of them.

The six violations are findings. `recommendations_race`: two approvals that both
read the draft are both answered, and the second replaces the first one's approver
and override log in a row that ADR-030 calls immutable
(`docs/ADR-030-ai-recommendation-governance.md:62`). `playbooks_overlap`: a step
that is advanced while its run is cancelled writes back the status it had read, so
the cancelled run is running again. `sigma_all_conditions`: `not a and b` is compiled to
NOT (a AND b), and `a and b or c` to a AND (b OR c). `evtx_record_numbers`: the
event id of an EVTX record is the computer and the number of the record, which counts in one log; the
second log of a computer loses the records whose numbers the first one had, and its job is
complete. `direct_statements`: the purge and the Parquet copy name a table `events`, and the score
and parts of three reports name columns or tables that no start creates. `case_graph`: `entities.case_id`
refers to `cases`, investigation cases are opened in another table, so every entity of an
event of an opened case is refused.

Some properties are stated in their module and are in no run, because a theorem says that they hold
([the proofs](#the-proofs)): most type invariants, `DispatchedWasApproved`, `IndexedIsStored`,
`StoredWasEnriched`, `TimeoutStopsScan`, `ScannedOnce`, `ActiveIffPositive`, `AtMostOnce`,
`ExtraCasesAreFaults`, `LearningObserves`, `NothingElseLeftOpen`, `ReturnedIsCommitted`,
`AnswerMatchesStore`, `AppliedInOrder`, `VerdictIsGrounded`, `HandledOnce`, `SlotIsHeld`,
`AttemptsAreFailures`, `ResolvedIsClosed`, `UncasedIsDrawn`, `NoEntityHasCase`, `LinesAreOnce`,
`NewIsRemembered`, `ScanMissesNothing` (an action property), and what holds at a standstill:
`SettledIsDone`, `SettledIsIndexed`, `WaitersAreServed`, `PassedIsTaken`, `LinesAreTaken`,
`RunningIsAttended` and `PassedIsStored`. They can be put under INVARIANTS (PROPERTIES) of
the composite as well, where they hold: each was checked in this way before it was proved. Three more are there because they state what
a comment says and are false of the code, each for a reason under [divergences](#divergences):
`OneAgentRuns`, `OldRunsDoNotMatter` and `SkippedIsSeen`.

`CHECK_DEADLOCK FALSE` is set throughout: each of these systems may come to rest
(every call made and answered, the process shut down, the bound on failures or
records used up), which is not a deadlock. That nobody waits for ever is stated as
liveness where it could be false (`CallsReturn`, `InvestigationEnds`).

Every bound is a CONSTANT. `MaxConf`, `ScanLimit`, `PageSize`, `Polls`, `Steps`, `RateLimit`,
`QueueMax`, `DuckBatch`, `MAX_STEPS`, `BatchSize` and `Limit` exist in the code, most of them
with larger values; `MaxFaults` with its kin, `MaxTime`, `MaxRecords`, `MaxDocs`, `MaxLines`, `MaxDays`, `MaxCalls`,
`MaxRequests` and `MaxTokens` bound the environment only.

## Fairness

Fairness is weak and only on what the runtime schedules by itself. Nobody is
obliged to call, cancel, connect, fail or shut down.

- `DuckWriteQueue`: the worker, its thread, and callers whose `put` or Future can
  proceed. The event loop resumes ready tasks; the pool runs submitted jobs. `put`
  is not served in order in the model (a later caller may overtake), and weak
  fairness of `PutResumes` is enough because every caller comes only once.
- `Ingestion`: steps of a call that has begun and its background embedding.
- `Receipts`: the steps of a request that has begun. The executor owes nothing.
- `TheHive`: threads run to their end; the scheduler fires both interval jobs for
  ever (`backend/startup/stores.py:322-340`; by default it runs one instance of a job
  at a time).
- `OsintInvestigation`: the request, the poller, the second half of a cancellation,
  the stream. SpiderFoot need not end a scan: the deadline does.
- `IocIntel`: a save that has begun, a scan, an ingest. No feed has to answer.
- `Collectors`: the loop polls for ever.
- `Detections`: the worker's turn every 60 seconds; no request, and not the model's success.
- `AgentRun`: admission, the generator and the clock; the agent may never answer.
- `MalcolmPoll`: the loop polls for ever, whatever a poll met.
- `UbuntuPipeline`: the writer's and the collector's loops.
- `Recommendations`, `SharedConnection`, `Playbooks`, `PlaybookLibrary`, `IngestJobs`, `ThreatGraph`,
  `Schema`, `SigmaConditions`: none; only safety is stated.

A composite's fairness is `WF_allVars(FairN)`, each `FairN` a disjunction of one fair action of
each part. As only one part ever runs, the disjunction is enabled exactly when the action of that
part is, so this is the fairness of that part's own specification, with fewer conjuncts for TLC.

## The proofs

Each theorem is of a component's specification, for every value of the constants that
the named assumption in its module allows: any sets of calls, events, detections or
requests, any sizes of batches, queues and pages, any number of failures. An invariant that is not
inductive by itself is conjoined to the ones it needs; three facts are proved, that the initial
states satisfy it, that every step keeps it (a lemma per action) and that it implies the
property; PTL joins them. Each inductive invariant was checked by TLC on the instance of the run
before it was proved. What liveness says of a system that stands still is a matter of safety:
if nothing failed and nobody is at work on an item, then it was done. These halves of the liveness
properties (*standstill* in the table) are theorems; that the work goes on is left to TLC.

| Theorem | States |
|---|---|
| *StoresProofs* | |
| `TypeCorrect` | `TypeOK` of `DuckWriteQueue` |
| `AnswersAreTrue` | `AnswerMatchesStore`: any calls, cancellation, overtaking, shutdown |
| `WritesAreSerial` | `AppliedInOrder` |
| `QueueImplementsStore` | `ImplementsSerialStore`, a refinement |
| `LoaderIsTyped` | `LoadTypeOK` |
| `CountsAreHonest` | `LoadedIsStored`, both bounds of the count, however calls overlap, fail and end |
| `EnrichmentComesFirst` | `StoredWasEnriched` |
| `IndexFollowsStore` | `IndexedIsStored` |
| `DeduplicationIsExact` | of `NewEvents`: it drops the stored events and no other, and keeps the order |
| `NobodyWaitsForNothing` | `WaitersAreServed`: the standstill of `CallsReturn` |
| `NothingFallsBetween` | `SettledIsIndexed`: the standstill of `StoredIsIndexed` |
| `LinesBecomeOneEvent` | `LinesAreOnce` of `UbuntuPipeline`, over midnight too |
| `PassedLinesArrive` | `LinesAreTaken`: the standstill of `LinesAreIngested`, within the first day: what the count has passed is an event or no JSON |
| *SharedConnectionProofs* | |
| `TypeCorrect` | `TypeOK` |
| `Atomicity` | `MethodsAreAtomic`, any threads and row counts |
| `NothingIsLost` | `ReturnedIsCommitted` |
| `CleanWhenFree` | `NothingElseLeftOpen` |
| `ConnectionImplementsTransactions` | `ImplementsTransactions`, a refinement |
| *SourcesProofs* | |
| `IndicatorsAreTrue` | `IocTypeOK`, `FlaggedIsHit`, `ScannedOnce`, `ActiveIffPositive` |
| `InvestigationsAreTrue` | `OsintTypeOK`, `FinishedIsHarvested`, `TimeoutStopsScan` |
| `CollectorsAreTrue` | `SourceTypeOK`, `NoGap`, `AtMostOnce`, for all three collectors |
| `NewIndicatorsAreRemembered` | `NewIsRemembered`: the standstill of `NewIocIsScanned` |
| `ScansMissNothing` | `ScanMissesNothing`, within the LIMIT of the query |
| `InvestigationsAreAttended` | `RunningIsAttended`: the standstill of `InvestigationEnds` |
| `PassedRecordsAreStored` | `PassedIsStored`: the standstill of `WrittenIsIngested` |
| `DocumentsAreOnce` | `NoDoubleIngestion` of `MalcolmPoll` |
| `PassedDocumentsAreTaken` | `PassedIsTaken`: the standstill of `OthersAreIngested` |
| `PollIsTyped` | `MalcolmTypeOK` |
| *RecommendationsProofs* | |
| `TypeCorrect` | `TypeOK` |
| `GateHolds` | `ApprovedPassedGate`, however many approvals race |
| `DispatchIsApproved` | `DispatchedWasApproved` |
| `ImmutableIfSerial` | `ImmutableAfterApproval`, **assuming** one approval request at a time |
| *ResponseProofs* | |
| `TypeCorrect` | `TypeOK` of `Receipts` |
| `AuditComesFirst` | `AuditFirst` |
| `OneEffect` | `HandledOnce` |
| `ReceiptsImplementTrail` | `ImplementsAuditTrail`, a refinement |
| `SettledReceiptsAreDone` | `SettledIsDone`: the standstill of `StoredIsNotified` |
| `CasesAreKept` | `HiveTypeOK`, `ExtraCasesAreFaults`, `OneFailureLosesNothing`, for both clients |
| `SyncsAreTrue` | `AttemptsAreFailures`, `ResolvedIsClosed` |
| `EdgesStandOnEntities` | `EdgesHaveEnds` of `ThreatGraph` |
| `BackfillRepairs` | `BackfillIsWhole` |
| `OnlyUncasedIsDrawn` | `UncasedIsDrawn`, `NoEntityHasCase` |
| *PlaybooksProofs* | |
| `TypeCorrect` | `TypeOK` |
| `Gates` | `EnforcedPassedGates`, with overlapping requests too |
| `ReportsAreTrue` | `BlockedIsBlocked`, with overlapping requests too |
| `LearningIsPassive` | `LearningObserves` |
| `RecordsAreKept` | `RecordedIsKept`, **assuming** requests for one run do not overlap |
| `OverForGood` | `OverIsOver`, under the same assumption |
| `SeedingIsIdempotent` | `LibraryIsWhole` |
| `NamedPlaybooksAreThere` | `NamedCanBeRun` |
| *PlatformProofs* | |
| `UploadsAreAccountedFor` | `UploadsAreTrue` |
| `OwnNumbersAreStored` | `RecordsAreStored`, **assuming** that no record number is in two logs |
| `StreamsAreWellFormed` | `StreamIsWellFormed`, any limit, whatever the agent does |
| `VerdictsAreGrounded` | `VerdictIsGrounded` |
| `AgentIsTyped` | `AgentTypeOK` |
| `OneStreamRuns` | `SlotIsHeld` |
| `StatementsFind` | `SchemaIsWhole`, from any earlier version |
| `VersionIsEarned` | `GraphVersionIsTrue` |
| *DetectionsProofs* | |
| `TypeCorrect` | `TypeOK`, and that loop variables point at something (`Positions`) |
| `DetectionsAreTrue` | `DetectionIsTrue`, **assuming** that no two rules have one id |
| `AnswersAreWhole` | `AnsweredIsWhole` |
| `TriageIsTrue` | `TriagedIsSaved` |
| `PlainRulesCompile` | `CompilesAsSigma`, for conditions of any length and depth |
| `ConditionsAreWellFormed` | the cuts of the compiler fall between whole operands |

The assumptions in bold are what the code lacks. `ImmutableIfSerial`, `RecordsAreKept`,
`OverForGood` and `OwnNumbersAreStored` say under which condition the findings `recommendations_race`,
`playbooks_overlap` and `evtx_record_numbers` would not arise, and `OnlyUncasedIsDrawn` how far
`case_graph` reaches: to every event of a case, and to no other; unique ids hold of the rules of the repository and not of every rule
that can be loaded (divergences). `SchemaIsWhole` and the theorems about the library rest on facts about
tables of the program text: `StepsAreWhole` and `StatementsAreKnown` in `Schema`, `LibraryIsGiven` in
`PlaybookLibrary`. These name no state: they are about the thirty playbooks and the columns of the
statements, are stated as ASSUME, and TLC evaluates them in full in every run of `MCPlatform`.

### Why the invariants are needed

- *DuckWriteQueue.* That an "ok" is in the database needs the way of an operation
  written down: `PutOnce` (it is enqueued at most once, and only after its call),
  `InHand` (the operation in the worker's hands is the last taken, and the thread's
  state tells whether it is in `db`), `WrittenFromQueue` (`db` is a subsequence of
  the queue's taken part) and `FutureTellsTruth` (a resolved Future agrees with
  `db`). The refinement maps `log` to `db` and a call's outcome to `reply`; every
  step then maps to an `Apply`, a `Reply` or a stutter.
- *Ingestion.* `loaded` counts finished batches and a failed row voids its whole batch, so the
  count is compared with the stored rows among those tried (`Counted`), while within a batch every
  row up to the next one is stored (`InBatch`). What is fresh was enriched (`FreshIsEnriched`) because
  deduplication only removes. `ShortIsStored` is what `StoredEvents` relies on: with one batch, what is
  counted is a prefix of what was inserted; with more it need not be, and `IndexedIsStored` excludes that.
  The standstill rests on `AllCounted`: without failures all that was inserted is counted, so
  that all of it is handed on to the graph and the vector store. For the other bound of `LoadedIsStored`,
`Explained` gives each failure the one batch of rows that are stored and not counted.
- *UbuntuPipeline.* Lines are numbered as they come, one day after the other (`ReceivedInOrder`), and the writer's
  offset lies inside the archive of its day (`WriterFollows`), so that what it reads is new. `Faultless` ties
  the files to the archive (`WrittenOnce`, `ScannedIsWritten`) and the events to the lines that the
  collector has counted (`MadeOfPassed`, `PassedIsMade`).
- *SharedConnection.* At most one call is inside, and its place says so (`LockHeld`);
  the rows it has written are open and not yet committed (`WritingIsOpen`); whatever
  else is open is of sections that raised (`OpenRows`); the rows of a call that
  committed stay (`CommittedIsKept`), and those of a method come together
  (`AllOrNothing`). In the refinement a commit is an `Apply` that brings the rows of its call
  and perhaps leftovers of raised sections, returning and raising are `Reply`, and everything else,
  the lock, the single rows, rollback, close and crash, is a stutter.
- *IocIntel.* An event that comes to the insert as matched has its hit already (`MatchedIsHit`),
  and an indicator that is new to a sync or scanned is in the store (`NewIsStored`), so that it cannot be
  new again. That no new indicator is forgotten needs besides that a scan has rows in hand
  only while it records them (`RowsAreRecorded`), as starting one empties them.
- *OsintInvestigation.* The findings are followed from SpiderFoot to the table (`HarvestIsWhole`,
  `TimeoutIsStopped`), and before the poller starts there is nothing of it (`NotLaunched`). Nobody goes on after a final status
  (`SeenIsFinal`), so that an open investigation still has its request or its poller.
- *Collectors.* A batch of a Windows channel is in the stores before the cursor moves
  (`BatchIsStored`). That nothing is taken twice needs the opposite for the others: what was ingested is behind
  the cursor, and what is in the page is not yet (`OnceInv`). A record is copied, in
  the page or will be found by a query (`InReach`), and only the page's own records move the cursor.
- *MalcolmPoll.* `OnceReturned`: of what a query can still return there is no event, because each document belongs
  to one dataset whose cursor never goes back. What became of the documents below a
  cursor (`PassedIsTaken`) is inductive once cursors end at the newest document (`CursorsInside`): a page is cut
  at its end, so that a cursor passes over nothing that the query has found.
- *Recommendations.* A request that has passed the gate is about to write what makes
  the row valid (`RequestPassedGate`), and a row's status agrees with its flag
  (`StatusAgrees`), so an overwriting UPDATE still leaves a row that passed. With
  one request nobody else writes between its read and its UPDATE
  (`WritesDraft`): that is the condition that immutability lacks.
- *Receipts.* A handler past the insert carries a stored receipt
  (`CarriedIsStored`), and no other handler carries it, which the primary key
  establishes. For the refinement `PhaseOf` reads off a receipt's place in `AuditTrail`
  from the tables and from its one carrier.
- *TheHive.* `CasesAreCounted` keeps the account: a case beyond the first needs a fault of its own, and where one
  may still be made, one fewer has been made than the faults allow. `CaseIsKept` says that a row comes into
  the queue by a fault, so that with one failure the drain can lose nothing. The sync works on closed cases
  only (`SyncInv`), and a retry that links a new case starts it at a status of its own.
- *ThreatGraph.* The rows that are still to be written are `Grounded`: each edge has its ends in the
  table or before it among the rows (the extractor's order), or they were deleted.
  `FillProgress` divides what a backfill has read into written, in hand and to come; it excludes what a
  request has spoiled meanwhile. `BatchProgress` does the same for the loader; it needs `RowsAreOfOne`, that the rows
  at hand are of one event with one case, so that a refusal (`CasesAreNone`) costs no other event its rows.
- *Playbooks.* `Gated` says that a handler that has come to the firewall got through
  the gates, and so did whatever is late; `Reported` that a success in a handler or in
  a row stands for rules that are there, which only grow. For `RecordsAreKept` and `OverForGood`
  `Alone` says that one handler at a time holds a run's row and `Kept` that the row it
  holds is the row as stored.
- *PlaybookLibrary.* `RowsAreKnown` must hold of every database on which a seeding broke off;
  `SeedIsAt` says what the seeding has behind it, name by name: a name that it skips is there because it was
  read, and none of a starter can be among those once the starters are gone. `GiveUpIsTold`: a seeding gives up
only when a fault was logged or a starter has a run.
- *IngestJobs.* A job's place tells what is on record: its events, then their provenance, then findings up to the
  number it has counted, then the scanners before the present one (`EventsAreIn`, `ScansAreMade`), each
  unless its error was logged. That records only grow (`RecordsGrow`) keeps this while other uploads run.
  For the records themselves `StoredIsRead` names the upload of each row.
- *AgentRun.* `StreamSoFar` ties the stream to the place of the generator, `AnswerIsFixed` the
  verdict to the thread's end: once its message is in the queue, the answer does not change any more. `SlotIsHeld` is
  inductive by itself.
- *Schema.* `IsMade`: what a start has behind it is there, or was refused in that start; `TablesAreWhole`: a table
  lacks only what an ALTER adds.
- *Detections.* Detections are found in the order of the rules (`FoundInOrder`), so that their ids differ, and saved
  up to the loop's position (`SavedBefore`, `ProvenBefore`). `CacheIsOwn` needs unique ids. `MarkIsSaved`: who marks
  a batch has saved it.

- *SigmaConditions.* A condition is a flat list of tokens. Its shape (operators between operands,
  parentheses in pairs) is carried along while it is built; the agreement of the compiler and of Sigma is
  proved for conditions of length *n* from all shorter ones. The library's induction theorems cannot be
  instantiated here, so the induction is done by hand: a counterexample of least length is
  taken from the set of the lengths of counterexamples, and refuted.

### What stays with TLC

- **That something happens at last**: the liveness properties themselves, because fairness and ENABLED are out of
  the prover's reach. Of `CallsReturn`, `StoredIsIndexed`, `StoredIsNotified`, `NewIocIsScanned`,
  `InvestigationEnds`, `WrittenIsIngested`, `OthersAreIngested`, `LinesAreIngested` and
  `PendingIsRetriedIfAnswered` the safety half is a theorem; of `StreamEnds` that the slot is held by nobody
  who has ended. `ClosureIsSynced` and `StoredIsTriaged` are checked only as they are.

Everything that a passing run checks of safety, the refinements included, is a theorem above.

## Divergences

Where the code does something else than its docs, comments or tests say, met while
modelling. The six that a run shows are findings in `PROJECT.json`; the others
are left as they are in the models, which follow the code, and are excluded from
properties only where that is stated.

Write queue
- A caller whose worker is cancelled while its operation is queued or executing is
  never answered: nothing resolves its Future (`duckdb_store.py:576`, against the
  docstring at 375 that a result or exception is always forwarded).

Ingestion
- `stored_events` takes the first `loaded` of the new events
  (`loader.py:706`); when an earlier DuckDB batch failed and a later one did not,
  those are not the events that were stored, as its comment (705) says.
- The retroactive scan passes `execute_write`, a coroutine function, to
  `asyncio.to_thread`: the UPDATE never runs and old events are never marked
  `ioc_matched`, though their hits are recorded (docstring at `loader.py:167`).
- A hit at ingest names the source address also when the destination matched
  (`loader.py:143`).
- An event given up for a foreign key, and one that was refused in its first row,
  are only logged (`loader.py:954`).
- `POST /ingest/event` and the osquery collector give an INSERT of 29 columns a row
  of 79 values (`backend/api/ingest.py:93`): nothing is stored.

Uploads
- Record numbers of several logs: see run `evtx_record_numbers`.
- A JSON object over several lines yields no event (it is read line by line), though the
  parser's docstring speaks of a single event. JSON and CSV parsers know different keys; in JSON an
  empty value of the first key hides those of the later ones.
- Records of JSON and CSV files get a new id at each upload: the same file twice is
  stored twice.
- A job is complete although rows of its events could not be inserted (the errors are in its
  result).
- The loader of `/ingest/file` has no asset store, anomaly scorer and correlation: its events
  are stored without what the other loader adds.

Malcolm and the Ubuntu pipeline
- A document that raises takes the rest of its page with it, and the later datasets wait
  for the next poll. The cursor has passed the page.
- The normalisers for tls, dns and fileinfo of Suricata are never called.
- A normalised line on which `int(src_port)`, `int(dst_port)` or `NormalizedEvent` raises ends the poll of
  the normaliser before its count is saved (`malcolm_collector.py:1346-1366`, only `JSONDecodeError` is
  caught): the same happens at each later poll, nothing behind the line is ingested while the day lasts,
  and at midnight all of it is lost.
- The line count is not reset when the day's file changes: the first lines of a day are taken
  for seen (`malcolm_collector.py:1299`, "Skips already-seen lines (file is append-only)").
  Lines that the writer had not yet read at midnight are never normalised, and after a restart
  the archive of the day before is never sealed.

Threat graph
- Investigation cases and the foreign key: see run `case_graph`. `cases` is never written outside of
  tests; the KPIs of open cases, MTTR and MTTC that read it are always empty.
- One refused row ends a backfill with a 500; what it had written stays (`graph.py:508-546`).
- An entity stored without attributes makes `GET /graph/global` fail: the model's field
  is not optional.

Schema
- Statements that name what is not there: see run `direct_statements`.

Detection and triage
- Precedence of operators: see run `sigma_all_conditions`. NOT over a missing field is NULL and selects
  nothing, where Sigma would select the event; fields that are not mapped are dropped from
  the condition.
- Rules without an id share the cache key "unknown": the second one runs the clause of
  the first (`matcher.py:820`). The model has unique ids.
- A technique tag like `attack.t1059.001` is stored as T1059.
- Detections that could not be saved are handed to TheHive all the same, and are in the answer.
- The worker and the route may both triage the same detections. An error text of the model
  is saved as the result, and the detections are marked.

Agent
- The semaphore is released when the stream ends, while the thread may still drive the model
  (`OneAgentRuns`; comment at `backend/api/investigate.py:27`).

Playbook library
- A starter that has a run cannot be deleted (foreign key): the seeding ends there at every
  start, the library is never there, and only a warning tells (`playbooks.py:113`, against the
  docstring that old runs remain as historical records). The coverage matrix, which reads the source, names
  its playbooks all the same.
- The matrix trims and upper-cases a technique (`coverage.py:164`), its summary only trims it (238-242): an
  event tagged `t1036` is detected in one and a gap in the other. They read 500 and 1000 values.
  `mitre-coverage` takes what begins with T and four digits (`analytics.py:47`).

Threat intelligence
- `MispWorker` saves outside of its try (`feed_sync.py:463`): one SQLite error ends
  its loop, against "main loop with exponential backoff on failure".
- An indicator inserted by a save that fails later is not new to the next sync, and
  is never scanned for. One that expired and returns is not scanned for either.
- An event matched before an indicator is inserted and stored after the scan's query
  gets no hit.

Collectors
- Events get a new `uuid4` at each read, so the loader's deduplication never
  recognises a record that is read again.
- The Windows collector's filter takes whole seconds: the newest second is ingested
  again at every poll. Of a backlog beyond `MaxEvents` the newest are read and the
  rest is passed over.
- Malcolm's cursor is saved before the ingest, and passes over documents that share
  the last timestamp of a full page or arrive late.
- No collector looks at `result.errors`: rows that DuckDB refused are passed over.
- The firewall collector's offset is in memory: a restart reads the file again, and
  after a rotation lines are lost until the file has outgrown the old offset.

SQLite
- Sections under `locked_conn` and `conn_lock` have no rollback: what one has
  written before it raised is committed by whoever commits next (e.g.
  `backend/api/graph.py:577`).

Recommendations and receipts
- Approval race: see run `recommendations_race`.
- `dispatch` never looks at `expires_at` (`recommendations.py:294`), which ADR-030
  (66-76) asks for.
- A notification that failed, or that a crash came before, is never made up: the
  retry is answered 409 (`receipts.py:92`, against ADR-032:56-58). The state
  `pending_human_review` of ADR-032 is never entered, and `recommendation_dispatch_log`
  never written.

TheHive
- The drain calls `create_case`, a coroutine function, without awaiting it: every
  retry fails, and after five the row is abandoned (`thehive_sync.py:210`, against
  the module's docstring, line 12).
- The closure sync iterates a coroutine in the same way and never syncs anything
  (`thehive_sync.py:122`, against line 9).

OSINT
- The poller's last UPDATE erases the counts that the harvest has just written
  (`osint_poller.py:57` after 143), and overwrites an ABORTED that a cancellation has
  written meanwhile (`osint_api.py:230`).
- The stream reads findings, then the status: findings written in between are never
  sent when that status ends it (`osint_api.py:182`).

Playbooks and enforcement
- Overlapping requests: see run `playbooks_overlap`. Two overlapping advances also
  lose an entry (`playbooks.py:547-551`).
- The policy object, whose deque counts the rate, is built anew for every request
  (`playbooks.py:479`): the rate limit of `policy.py:8` never applies. The model has
  the gate with its empty deque (`BlockTimes`).
- `unblock_ip` deletes rules without the comment that `block_ip`'s rules carry: it
  removes nothing and reports success (`ipfire.py:193`).
- A block that stopped after its first rule is reported as "already blocked" by the
  next one; rules are not persisted over a restart of the firewall
  (`ipfire.py:28-31`); `enforcement_audit_log` (`policy.py:23`) does not exist.
- Provenance is recorded under an id that no run has (`playbooks.py:395`).

Elsewhere
- The correlation engine indexes tuples by column name
  (`correlation_engine.py:117`): its first row raises, and the ingest goes on.
- `POST /detect/run` over the same events stores every detection again
  (`matcher.py:774`).

## What is not modelled

Inside the modelled components: parsing and normalisation, the SQL of single
statements, payloads and wording, lengths of time (deadlines and backoffs are an
order of steps), real-time delays of a blocked event loop, the DNSTwist and MISP
additions of a harvest, the provenance rows, the status endpoints.

Components without a module, and why:

- *Pure text or numbers*: the values that parsers and normalisers make (which keys they look at is in
  `MalcolmNormalisers`), anomaly models of an external library, the evaluation of LIKE and
  regular expressions, scoring, clustering and causality over the rows of one query. The correlation engine
  raises at its first row and computes nothing.
- *Single-row state under the lock that `SharedConnection` models*: cases,
  investigations, hunting, timeline, and the upserts of assets, ATT&CK, CAR and Atomic stores (their
  tables are in `Schema`); operators and their keys.
- *Fire and forget*: analyst feedback, whose two updates nobody waits for and no answer
  depends on.
- *A connection of its own*: the block list of the privacy monitoring.
- *Read-only or external*: reports, exports, maps, health, chat and retrieval (requests to language
  models), OSINT enrichment of addresses (a cache around services), the dashboard, the executor
  between a recommendation and its receipt.
- *No behaviour*: deployment, tests, evaluation data, the offline graph builder (tests only).

Weak points that are known and that no property covers: jobs lost by a restart
(`loader.py:328`); a triage task that nobody holds (`workers.py:153`);
feedback tasks that overtake each other (`feedback.py:124`) and learn without a lock
(`classifier.py:73`); two admins who deactivate each other (`operators.py:137`); a
block list with a connection of its own (`privacy_blocklist.py:113`); receipts of one
case whose order is not kept (`receipts.py:71`); a raw section that raises between its
statements (`graph.py:577`), whose rows the next commit takes along; the text search of the block check
(`ipfire.py:136`), which the model excludes by its choice of addresses; lines read
while they are written (`firewall_collector.py:66`); tasks that nobody holds at
shutdown (`main.py:122`).

## The plan

The order was: the write queue and its abstraction first, because everything
else relies on it; then ingestion, which most events pass; then the chain from
recommendation to firewall, which acts on the world; then the collectors, feeds,
TheHive and OSINT, which fail most; then the shared connection; then what surrounds
them: uploads, the polls over all datasets, the graph, detection and triage, the agent, the
library and the schema.

With that all safety properties that the passing runs check are proved. Left, in this order:

1. An abstract specification of a job's outcome that `IngestJobs` implements; it would follow from
   `UploadsAreAccountedFor`.
2. The standstill of the remaining liveness properties (`ClosureIsSynced`, the triage).
3. Feedback and operators, if the code comes to make promises about them.

## Running it

In this directory, with TLA+ tools, the community modules and TLAPS:

```
tlc -workers 2 -config MCStores.cfg MCStores.tla
tlapm StoresProofs.tla
```

A run needs its `.cfg` and its `MC` module. `MCIntelRace.cfg`, `MCPlatformStatements.cfg`,
`MCResponseCase.cfg`, `MCPlatformOverlap.cfg`, `MCPlatformRecords.cfg` and `MCDetectionAll.cfg` are
the runs that must find a violation.
