# A TLA+ model of the Sui crawler

The crawler ingests ranges of Sui checkpoints into ClickHouse.  A range is a
*job*, a document in MongoDB; users create and retry jobs over a REST API.
This directory holds a TLA+ model of the code, the TLC configurations that
check it on small instances, and proofs, checked by TLAPS, of its main safety
properties for every instance.  `PROJECT.json` maps every definition to the
lines it models.

## 1. The system

| Component | Source | State | Operations | Modelled in |
|---|---|---|---|---|
| Job repository | `internal/repository/job_repository.go`, `internal/models/job.go` | collection `crawler_jobs`: status, range, `last_checkpoint`, error, completion time | create, find pending, claim, update progress, complete, requeue, reset stalled, retry | `JobRepository` |
| Orchestrator | `internal/orchestrator` | `workerBusy`, the jobs found and not tried yet | reset at start, poll, claim, assign, apply a report | `Crawler` |
| Worker, job loop | `internal/worker/worker.go` (`Run` .. `processBatchesSequential`) | job in hand, chunk, position | connect, start a chunk, flush, report, end the run | `Crawler` |
| Pipeline of a chunk | `worker.go` (`processCheckpointRange`, `writeCheckpointStream`) | five kinds of goroutines, four data channels, an error channel, a context, the writer's buffers | dispatch, fetch, batch, hydrate, write, fail, cancel | `CheckpointPipeline` |
| REST job endpoints | `internal/api/handler.go`, `request.go` | none | create, retry; list and get only read | `Crawler` |
| Process | `cmd/crawler/main.go` | context, channels | start, signal, exit | `Crawler` |
| ClickHouse storage | `internal/storage/clickhouse.go`, `schema/cloud` | three tables | batched inserts with retries | `ClickHouseStorage`; as one step per table in `CheckpointPipeline` |
| RPC client | `internal/client/sui_client.go`, `sui_client_degrade.go` | two semaphores | batch fetch, split, isolate, degrade, retry | `Hydration` |
| Degraded ledger | `internal/worker/degraded.go`, `internal/repository/degraded_repository.go` | registry of reasons, ledger collection | record, take, persist | `Hydration` |
| Mapper, assembly and validation of counts | `sui_mapper.go`, `sui_client.go`, `worker.go` (`BuildResult`, `hydrateCheckpointBatch`, `validateCheckpointTransactionCount`) | the writer's previous total | list digests, find each transaction by its digest, check the count against the totals | `Assembly` (columns and JSON of a row are not modelled) |
| Configuration and sizes | `config.go`, `main.go`, `worker.go` (`checkpointFetchConcurrency` ..) | none | load, validate, derive pools, channels and limiter | `Settings`, `RunArithmetic` |
| Arithmetic of a run | `worker.go`, `sui_client.go` | start of the chunk and of the fetch batch, in int64 | resume, cut into chunks and batches | `RunArithmetic` |
| Router, docs, MongoDB connection, probe | `router.go`, `docs/`, `storage/mongodb.go`, `test_grpc.go` | none | start-up | not modelled |

How they interact.  The API and the orchestrator share the MongoDB collection
and nothing else: a retry can hit a job at any moment of its run.  The
orchestrator hands a job to the worker over an unbuffered channel
(`assignCh`), the worker answers over a buffered one (`reportCh`, 100
reports), and the orchestrator alone applies the answers to MongoDB.  The
worker alone writes to ClickHouse.  No transaction spans the two stores.  A
signal cancels the context everybody shares, and `main` exits without waiting
for the goroutines.

What is hard, and what makes each part correct:

- *orchestrator and worker*: one run at a time through a busy flag and two
  channels, both of which block; snapshots of jobs used long after they were
  read; calls that fail or whose reply is lost, after which a job is in
  nobody's hand; retries in the middle of a run; a restart at any point.
- *position and data*: the position in MongoDB must never lead the rows in
  ClickHouse, and completion must mean that everything is ingested, although a
  cancelled pipeline can end in a way that looks like success.
- *pipeline*: no checkpoint lost or written twice between stages, no error
  lost between the error channel, the cancellation and the closing of the
  channels, no goroutine left behind, results put back in order.
- *hydration*: a batch is cut up, recursively, around answers that are too large
  and transactions the archive cannot render; every transaction must end up in
  its place, only the malformed ones without a body, and those on record, while
  the slots of two nested semaphores are taken and given back on every path.
- *storage*: a send that fails may have stored some of its rows, it is repeated
  ten times, and a flush whose position was not persisted is made again; nothing
  may be missing afterwards, and nothing be there oftener than that explains.
- *assembly*: the archive answers for many checkpoints at once, in any order, and
  may leave something out; the only control is a count, over totals that do not
  fit into their column for ever.
- *arithmetic*: the API accepts every int64 range and the environment every
  float64 rate; sums near the largest integer wrap around.

`PROJECT.json` lists the hazards one by one, each at its line, with the
properties that cover it or the reason why none does yet.

## 2. The modules

| Module | What it is |
|---|---|
| `JobRepository` | the queries of the repository as operators on the value of the collection |
| `Crawler` | API, orchestrator, worker, channels, process, MongoDB and ClickHouse as one system |
| `JobContract` | the abstract life of a job; `Crawler` implements it (`ImplementsContract`) |
| `CheckpointPipeline` | the goroutines and channels of one chunk |
| `ChunkContract` | a chunk seen from outside; `CheckpointPipeline` implements it (`ImplementsChunk`) |
| `Hydration` | how a hydrator turns a batch of digests into transactions: slices, calls, slots, halves, isolation, degradation, registry and ledger |
| `HydrationContract` | a batch seen from the pipeline: its transactions come in and stay, it is passed on complete or given up; `Hydration` implements it (`ImplementsHydration`) |
| `Assembly` | what is in the results of a chunk: digests, transactions of batches put together in any order, totals, and the writer's check of the count |
| `ClickHouseStorage` | one flush on its way into the tables: row batches, sends, retries, crashes, repetitions, merges |
| `InsertContract` | what a write of the tables promises; `ClickHouseStorage` implements it (`ImplementsInsert`) |
| `Settings` | the numbers of the configuration and what is derived from them, as operators |
| `RunArithmetic` | start, chunks and fetch batches of one run in integers that wrap around |
| `MCCrawler`, `MCPipeline`, `MCHydration`, `MCAssembly`, `MCStorage`, `MCArithmetic` | the instances for TLC |
| `CrawlerProofs`, `DispatchProofs` | theorems about `Crawler`: data and documents; one run at a time, fresh snapshots, orphans, the job contract |
| `PipelineProofs` | theorems about `CheckpointPipeline`: types and the order of the rows; nothing lost, no error lost, the chunk contract; the size of batches |
| `HydrationProofs` | theorems about `Hydration`, its contract included |
| `AssemblyProofs`, `StorageProofs`, `RunProofs` | theorems about `Assembly`, `ClickHouseStorage` and `RunArithmetic` |
| `Sums` | facts about sums over finite sets as the folds of the library compute them, for `PipelineProofs` and `HydrationProofs`, and the least-number principle |

The two levels fit together through `ChunkContract`: its steps are the steps
`Crawler`'s worker takes inside a chunk (`Flush`, `ReportProgress`,
`ChunkDone`, `ChunkAbandoned`, `ChunkFails`).  So the big model can treat a
chunk as a series of flushes, and the run `pipeline_safety` shows that the
goroutines do just that.  `Hydration` opens up one step of the pipeline, a
hydrator at work (`HydratorMoves`): it either passes on a whole batch
(pc "done") or fails (pc "failed"), and it always does one of the
two (`EveryBatchEnds`), which is all that the pipeline assumes of it;
`HydrationContract` is this promise as a specification.

`ClickHouseStorage` opens up another, the writer's (`Insert`, `InsertFails`),
through `InsertContract`: a table is left behind with all its rows, a failure
leaves any part of the table it hit and of the tables before it everything.
`Assembly` looks into the results that the pipeline and hydration only move
about, and `RunArithmetic` into the integers that `Crawler` takes to be
unbounded: on the range, `Crawler` is right because `FetchedInOrder` holds.

How the state corresponds to the code:

- `jobs` is the collection, a function from identifiers to documents.
  Identifiers are numbered by `created_at`, so "oldest first" is "smallest
  first".  Of the texts and times only their presence is kept.
- `ingested` is the set of checkpoints whose rows are in all three tables.
- `orch.pc`, `worker.pc` say where the goroutine is; `orch.queue` holds the
  snapshots `dispatchPendingJob` has not tried yet, and while a job is being
  handed over, its snapshot alone.  `worker.next`, `pos`, `to` are
  `batchStart`, the last position flushed, `batchEnd`.
- `process` is "stopping" from the cancellation of the context to the exit.
- In `CheckpointPipeline` a checkpoint is its number, a channel is a sequence
  with the capacity the code gives it, a channel is closed when its senders
  have returned, and `rows` says for each table which checkpoints it has.
- In `Hydration` a transaction is its position in the batch; the recursion of
  `batchGetTransactionsChunk` and `isolateUnparseableTransaction` is the stack
  `todo` of segments still to ask for; the semaphores are counters.
- In `ClickHouseStorage` `copies` says how often each row is in its table;
  `writer` is the call of `writeToClickHouse`: its table, the first row of the
  batch to send, the failed attempts.
- In `Assembly` `data` holds the `CheckpointData`, `results` the rows of the
  `CheckpointResult`s, `pending` and `flushUntil` are the writer's; a total is
  the number of transactions up to and including the checkpoint.
- In `RunArithmetic` `batchStart`, `to` and `start` are the loop variables of
  `processBatchesSequential` and the dispatcher, `fetched` is what was asked of
  the archive, in order, and `pools` what was derived from the settings.

Choices that shape the model:

- A MongoDB call of the orchestrator is applied and acknowledged, not applied,
  or applied with its reply lost (`Call`).  A call on a cancelled context is
  refused: this is how the driver behaves, and `CompletedMeansIngested` rests
  on it, because a cancelled run may report itself done (`ChunkAbandoned`:
  `worker.go:561-566` returns nil when the stages upstream saw the cancellation
  first).
- An insert or retry of the API that fails changes nothing, and one whose reply
  is lost looks the same to the database, so neither is a case of its own.
- A find that fails is `PollInVain`: it changes nothing but takes a turn.
- A flush that completes after the context was cancelled is the same as one
  that completed just before.
- Waiting (poll interval, ticker, back-off) takes no time: a ticker may fire
  whenever its select is reached.
- Failures of RPC calls, of the validation of transaction totals and of
  inserts are choices; an insert that fails may have been applied to any part
  of its rows.
- `Doomed` jobs are those whose runs can fail again and again (a checkpoint the
  archive refuses for good); the failures of the other jobs are counted.
- Rows are identified by their number.  The tables of `schema/cloud`, whose
  columns are those the code inserts, are ReplacingMergeTrees ordered by what
  identifies a row: two copies become one some time later (`Merge`).
- A float64 rate is a multiple of one half, or NaN, or out of range; converting
  the latter two gives what the platform gives, so it is a choice (`Undefined`).
- The archive's wrong answers (a digest or transaction missing, no summary) are
  choices counted as `lies`; putting an answer in another order is free.

## 3. The runs

| Run | Instance | What it shows |
|---|---|---|
| `crawler_faults` | 2 jobs, ranges 0..3 and 2..2 and an invalid one, the second job doomed, chunk 2, 2 report slots, 2 lost calls, 1 failed run of another job, 2 retries, 2 signals or crashes | the safety properties below and the job contract |
| `crawler_live` | 1 report slot, 1 lost call, 1 failed run, 1 retry, 1 stop | `PendingJobsComplete`, `WorkerIsFreed` |
| `crawler_doomed` | 1 report slot, the second job doomed, 1 failed run of another job, 2 retries, 1 stop, no lost call | `PendingJobsComplete` where some jobs never succeed |
| `crawler_range` | no failure of any kind | violation of `RangeIngested` |
| `crawler_replay` | chunk of 1, 3 report slots, no failure | violation of `ReplayBoundedByChunk` |
| `pipeline_safety` | 4 checkpoints with 1, 2, 0 and 3 digests, 2 fetchers, 2 hydrators, fetch batches of 3, hydration and write batches of 2, symmetric pools | the safety properties below and the chunk contract |
| `pipeline_live` | 1 fetcher, 2 hydrators, fetch batches of 1 | `EverythingReturns` |
| `hydration_safety` | 2 hydrators with 4 and 3 digests, slices of 3, one malformed in each batch, 1 batch slot, 2 call slots, 2 attempts, 2 failures | the safety properties below |
| `hydration_live` | 2 batch slots, 1 call slot shared with a fetcher, a transaction too large by itself, 1 failure | `EveryBatchEnds` |
| `storage` | 2, 0 and 3 rows, row batches of 2, 2 retries, 3 runs, 2 failed sends that stored something | contract, duplicates and end of a write |
| `arithmetic` | 5-bit integers, every range, chunks of 4, fetch batches of 2, archive up to 11, rates from -2.5 to 12.5 by halves, NaN and both overflows | order, chunks and end of the fetches, sizes of the pools |
| `assembly` | 4 checkpoints of 2, 0, 1 and 2 transactions, batches of 2 digests, totals stored up to 8, networks of 0, 4 and 9 earlier transactions, 2 lies | rows under the right checkpoint, and the count |

Safety of the crawler:

- `DurableProgress`, `CompletedMeansIngested`: position and completion never
  lead the data.
- `OneRunAtATime`: busy flag, blocking send and channels keep to one run, whose
  end is its last word.
- `OrphansBoundedByFaults`: a job in progressing that nobody works on has cost
  a MongoDB call of its own; no interleaving strands one for free.
- `SnapshotIsCurrent`: a run never works from a stale copy of its job.
- `DocumentsConsistent`: error and completion time agree with the status.
- `ProgressAccounted`: no flush gets lost on its way to MongoDB.
- `ImplementsContract`: positions only advance, over ingested data; a retry is
  never swallowed by the run it interrupts.

Safety of the pipeline: `NilMeansWritten` (no error is lost), `NothingLost`
(each checkpoint is in exactly one place), `BatchesFit`, `TablesInOrder` and
`ImplementsChunk`.

Safety of hydration: `SlotsAccounted` (each slot is given back once),
`NothingSkipped` (each position is owed by one place, or has its row for good),
`GapsOnRecord` (the malformed ones are in the ledger), `BadDataKeepsJobAlive` (bad data alone
never fails a batch, except a transaction too large by itself),
`CallsBounded` (n digests cost at most 2n answers), `ImplementsHydration`
(step by step: what has come in is never overwritten or lost; a batch that is
passed on is complete, lacks the bodies of exactly the malformed transactions and
is left alone; the ledger forgets nothing).

Storage: `DuplicatesAccounted` (copies beyond the first are owed to a repeated
run or to a failed send that had stored something, wherever the failures fell;
the property speaks of what queries without FINAL see), `ImplementsInsert`
(rows behind the writer are all there and none goes away), `WriteEnds`.

Arithmetic: `FetchedInOrder` (from the position on, each checkpoint once, none
beyond the end, all of them when the run is done, no endless list),
`ChunkBounded` (what is fetched belongs to the open chunk, which is all that
limits the writer's pending map),
`RunEndsRightly` (a run ends, and as done exactly when the archive has the rest of
the range), `PoolsSized` (whatever the rate, at least one fetcher and two
hydrators, no channel of negative capacity, a limiter that lets something
through).

Assembly: `OwnTransactions` (the rows of a checkpoint are those of its list, in
its order, whichever way the answer came), `LossCaught` (nothing the archive left
out is written where the totals can tell), `HonestNeverFails` (an archive that
leaves nothing out is never refused).

Bounds.  Two jobs are enough for every interaction of jobs: they only share the
worker, the channels and the oldest-first order.  The range 0..3 has three
checkpoints to ingest, which is two chunks, the last one short; the range 2..2
has nothing left to ingest.  Two report slots let reports queue up and the
channel fill.  Two lost calls, retries and stops let each happen again after
its recovery.  In the pipeline, the digests make a batch that is flushed before
a checkpoint that does not fit, one flushed because it is full, a checkpoint
over the limit by itself and one with none; the last fetch batch is short, and a
checkpoint that arrives last may be left over; two goroutines per pool are what
puts results out of order.  In hydration, a slice is too large and so is its
second half, so halves are halved again; a malformed transaction stands alone,
and another has neighbours on both sides; errors name it or not.  In storage
there is a table of one batch, an empty one and one whose last batch is short;
three runs and two retries let a batch fail for good, be cut off, be repeated
and fail again.  Five-bit integers leave room for every position of the range
relative to the tip of the archive and to the largest integer; the tip stays
one chunk below the largest integer, as it does by far in reality.  In assembly
the totals stay below, reach, cross or start beyond the largest storable one.
The bounds are the constants `MaxJobs`, `MaxFaults`, `MaxFailures`,
`MaxRetries`, `MaxStops` of `Crawler`, `MaxFaults` of `Hydration`, `MaxRuns`
and `MaxCutOff` of `ClickHouseStorage` (where `MaxRetries` is the code's) and
`MaxLies` of `Assembly`; they appear only in guards.

Deadlock is checked for the crawler, the pipeline and hydration.  Only two kinds
of step change nothing there: an idle poll (`PollInVain`) and the rest of a
pipeline or of hydrators that are all over (`Rest`).  A flush, a run and a chunk
of `Assembly` really come to their end, so their runs do not check it; that the
end is not an early one is what `WriteEnds`, `RunEndsRightly` and
`HonestNeverFails` are for.

Fairness.  Weak fairness on the orchestrator, on the worker and on every
goroutine of the pipeline: the Go scheduler runs what can run, and every call
has a deadline or fails.  Weak fairness on `Exit` (the shutdown of the API
server has a timeout of ten seconds and `main` waits for nothing else) and on
`Start`: the repository restarts its databases (`docker-compose.yml`) but leaves
the crawler to whoever runs it, and the property is about a crawler that is
started again.  The API, signals, crashes and failures owe nothing.  In
`Hydration`, taking a slot has strong fairness, since blocked senders on a Go
channel are served in order; the fetcher that competes for the slots returns
each of them but need not stop asking.  The steps of a write, and those of a
run of `RunArithmetic`, are weakly fair: the ClickHouse driver and
the RPC client give each call a timeout.

`PendingJobsComplete` promises a job its completion with two exceptions, and
both are the code's: when `CompleteJob` or `RequeueJob` fails, the job is
stranded in progressing until the next start (`spent.faults > 0`; what a lost
call can cost is stated precisely by `OrphansBoundedByFaults`), and a doomed job
that is older keeps the younger ones waiting, for only the oldest pending job is
tried and a failed one goes back to its place.

### Where the code and its documentation differ

- `crawler_range`: a job stores `last_checkpoint = fromCheckpoint` and runs
  start one after it, so the first checkpoint of a range is never ingested, and
  a job of one checkpoint is completed with nothing ingested.
- `crawler_replay`: the comment on `processingChunkSize` says that it bounds
  the replay after a failure.  Progress is reported at every flush and applied
  by another goroutine, and the worker does not wait for it: what may be
  replayed is bounded by the capacity of the report channel instead.

### Worth knowing

These are consequences of the code that contradict no document:

- The count of transactions is not checked for the first checkpoint of a chunk,
  nor from the checkpoint on whose total reaches 2^32 - 1 (`CountValid`): that is
  why `LossCaught` is restricted as it is.
- A job whose only checkpoint is the largest int64 fails with nothing to fetch,
  since the position after it wraps around (`Feasible`).
- The loop that lists the numbers of a fetch batch would be endless for a batch
  that ends at the largest int64.  The run gets there only after a batch the
  archive does not have, and fails on that one first (`NoEndlessBatch`).  The
  dispatcher runs ahead of the fetchers by at most 17 of the 50 batches of a
  chunk, so it does not get there earlier either.
- A query of ClickHouse that does not ask for FINAL may see a row several times.

## 4. The proofs

Eight modules hold the proofs.  Apart from the liveness properties, every
property of the passing runs is a theorem.

`CrawlerProofs` proves, for every number of jobs, every set of requests, chunk
size, channel capacity and budget that satisfies the named assumptions of
`JobRepository` and `Crawler`:

- `TypeCorrect`: `Spec => []TypeOK`;
- `DataIntegrity`: `Spec => []DataInv`;
- `ProgressIsDurable` and `CompletionIsSound`, its two consequences;
- `DocumentsAgree`: `Spec => []DocumentsConsistent`.

`DurableProgress` is not inductive: a position reaches a document through a
snapshot, the worker and a report, and each of them has to be covered by the
data on the way.  `DataInv` says so (`QueueCovered`, `WorkerCovered`,
`ReportsCovered`), with one exception, which is the interesting part: once the
context is cancelled a run may end as done with checkpoints missing.  It does
no harm, because from then on the calls of the orchestrator fail.

The argument has two halves.  The lemmas on stability (`CoveredStable`,
`QueueStable`, `WorkerStable`, `ReportsStable`, `JobsStable`) say that the
cover of a position survives any step in which documents keep their range and
`ingested` grows, and `UpdatesMove` that every query of the repository keeps
the range of every document.  `DataOutside`, `DataOrchestrator` and `DataWorker`
then look, action by action, only at what the action itself puts somewhere.
The only induction needed is over the steps of the system.

`DispatchProofs` proves, from the same assumptions, what the busy flag and the
two channels are worth:

- `OneRun`: `Spec => []OneRunAtATime`;
- `SnapshotsCurrent`: `Spec => []SnapshotIsCurrent`;
- `OrphansBounded`: `Spec => []OrphansBoundedByFaults`.

The inductive invariant `DispatchInv` relates the program counters of
orchestrator and worker, the flag and the reports: it says at each point of the
code whether a run is under way and which reports may still come (`PhaseOK`,
`RunOK`).  Snapshots stay current because the steps that move a position, the
application of a report, happen only while the flag is up and the queue
has been given up; a retry may hit a queued job, but it keeps its range and
position.  For the orphans, `OrphanInv` adds that at any time, a shutdown included,
at most one job more is progressing than calls were lost: the one in hand
(`OneInHand`), or the one whose last call the cancelled context refused.

On top of it are the positions:

- `CrawlerImplementsContract`: `Spec => ImplementsContract`, each step of the
  crawler is a step of the life of a job or leaves it alone;
- `FlushesAccounted`: `Spec => []ProgressAccounted`.

The hard step is a report of progress that is applied late: the contract wants
positions to advance over ingested data and a retry never to be swallowed, so
the positions waiting in the channel have to be in order, above the document and
below the worker, and belong to the run that is still the only one.

`PipelineProofs` is about every set of fetchers, hydrators and checkpoints, and
every batch size and capacity that satisfies the assumptions of
`CheckpointPipeline`:

- `TypeCorrect`: `Spec => []TypeOK`, together with the shape of the channels
  (`ShapeInv`: capacities hold, batches are not empty);
- `RowsInOrder`: `Spec => []TablesInOrder`.  `WriterInv` follows the writer through
  its three tables: the buffer is the stretch between the last report and the last
  result queued, and is in the tables that the flush has passed;
- `ExactlyOnce`: `Spec => []NothingLost`.  `Held` says which checkpoints each
  holder has (a goroutine, a channel, a buffer of the writer), `CountInv` that until
  something goes wrong each checkpoint has exactly one holder and no sequence
  repeats one.  An action moves a set from one holder to another, which is what
  the lemma `Moved` is about;
- `NilMeansWhole`: `Spec => []NilMeansWritten`.  As long as no error waits in the
  channel or was taken, nobody has cancelled (`QuietInv`); a stage that
  has returned without a cancellation left nothing in its hands or in its channel,
  and those before it have returned too (`DrainedInv`, `ClosingInv`).  With
  `CountInv` nothing but the tables is left to hold a checkpoint when the writer
  returns (`NilInv`);
- `PipelineImplementsChunk`: `Spec => ImplementsChunk`, from these;
- `BatchesInSize`: `Spec => []BatchesFit`.  `FitInv` says that the number of
  digests the batcher counts is the sum over its batch, and that this batch and
  those that wait for the hydrators have the right size.

`HydrationProofs` is about every set of hydrators, batch, archive, number of slots
and of attempts that satisfies the assumptions of `Hydration`:

- `Invariance`: `Spec => []HydrationInv`, the inductive invariant;
- `HydrationTyped`, `SlotsReturned` and `EachOnce`: `TypeOK`, `SlotsAccounted`,
  `NothingSkipped`;
- `GapsVisible` and `BadDataHarmless`: `GapsOnRecord`, `BadDataKeepsJobAlive`;
- `HydrationImplementsContract`: `Spec => ImplementsHydration`;
- `AnswersBounded`: `Spec => []CallsBounded`.

`HydrationInv` has five parts.  `TasksInv`: the segments on the stack of a
hydrator are in order and do not overlap, so a position is owed by one of them at
most, and the positions that nobody owes have their row.  It is what makes
cutting sound: `HalvesCut` and `SidesCut` say that the two halves, or the two sides
and the transaction between them, are the segment, in order.  `SlotsInv`: the
semaphores hold as many slots as there are tasks at the points of the code that
hold one.  `FaultsInv`: while the process goes on, no call has been tried again
oftener than there were failures, and a batch that failed has seen the last
attempt of a call fail or has a transaction too large by itself.  `LedgerInv`: the
registry holds nothing but degraded transactions, and all of them that are not
persisted yet; those that were persisted without getting into the ledger have
cost a failure each.  From `TasksInv` follows that the control in `Hydrated`,
which looks for positions without a transaction, never finds one.  `CostInv` is
the bound on the answers: a segment of k digests may cost 2k - 1, so what a
stack may cost is twice the positions it owes, less one for each segment
(`StackSum`), and every answer is paid for by the segment it is about, whether
that goes, is halved or loses one transaction (`CostOfHalves`, `CostOfSides`).

`Sums` is what the two theorems about sums rest on.  The library computes a sum
by a fold, which is a recursive definition over finite sets.  Induction over
them, which would need an operator as a parameter, is replaced by the least
number (`Least`): among the finite sets that are exceptions to a claim one has
the fewest elements (`OneByOne`).  `SumIs` says that the fold agrees with any
function that adds up one element at a time, `SumCounts` that a sum of naturals
is the size of a disjoint union, where the facts about cardinalities apply.

`AssemblyProofs` proves, for every list of transactions of each checkpoint (empty
ones and repeated digests included), every batch size, largest total and set of
totals before the chunk that satisfies `AssemblyAssumption`:

- `AssemblyTyped`: `Spec => []TypeOK`;
- `OwnRows`: `Spec => []OwnTransactions`;
- `LossesCaught`: `Spec => []LossCaught`;
- `HonestPasses`: `Spec => []HonestNeverFails`.

`AssemblyInv` adds to the first two that what is listed for a checkpoint is its
transactions less some (`ListedInv`), that everything queued for the tables has
passed the check (`CountedInv`), and that without a lie all lists and totals are
what they should be (`HonestInv`).  `OwnRows` rests on `Flattened` (what is in
one list is in all of them put together), so that a complete answer has every
digest of every list; `LossesCaught` on `Listed` (a list as long as it should be is
the whole list) and `ExecutedCounts`; the writer's contiguous stretch is an
interval by `Contiguous`.  The three definitions by recursion are shown to
exist by `Recursion`, and reasoned about upwards from their first value
(`Upwards`), again from the least exception.

`StorageProofs` proves, for every list of row counts, batch size, number of
retries and bound that satisfies `StorageAssumption`:

- `StorageTyped`: `Spec => []TypeOK`, which bounds the attempts of a batch;
- `StorageDuplicates`: `Spec => []DuplicatesAccounted`.  It is inductive with
  the types; the lemmas `StoreAdds`, `CutOffAdds` and `MergeTakes` say what a
  send and a merge do to the copies of one row;
- `StorageImplementsInsert`: `Spec => ImplementsInsert`.  A step to the next
  table is a step of the contract only if the rows before it are in place, so the
  proof rests on the invariant `InPlace` (every acknowledged row of this run is
  stored), and on `StoredGrows` (no step, not even a merge, takes away the last
  copy of a row).

`RunProofs` proves, for integers of every width and every chunk size, batch size
and set of environments that satisfy `SettingsAssumption` and
`ArithmeticAssumption`:

- `RunChunks`: `Spec => ChunkBounded`.  Where a loop is not about to fail, the
  dispatcher is not behind the beginning of its chunk (`StartInv`), and the batch
  it asks for ends with the chunk at the latest (`ChunkTo`);
- `RunOutcome`: `Spec => []EndsRightly`, the half of `RunEndsRightly` that is safety: a
  run that is done could be, and one that failed could not.  `EndsInv` says that what was fetched
  is in the archive, and that wherever a loop stands at a number the archive does
  not have, or skips a chunk whose end has overflown, there is a checkpoint left
  in the range that the archive does not have (`Beyond`);
- `RunPoolsSized`: `Spec => []PoolsSized`, by cases on the rate and on what its
  conversions can give;
- `RunFetchesInOrder`: `Spec => []FetchedInOrder`.  Its invariant `RunInv` relates
  the loop variables to `fetched`; what makes it hold near the largest integer
  are `ChunkInv` and `DispatchInv`: each loop is over, or at the number after
  the last one fetched, or it has work left and its next number is one the archive
  does not have, so that the run is going to fail with what was fetched in order.
  `HopelessInv` says where such a loop can stand, which keeps it from a batch
  that ends at the largest integer (`NoEndlessBatch`).  This is what the
  assumptions are for that the tip is at least a chunk below the largest integer
  and a fetch batch smaller than a chunk.

Only model-checked: all liveness (`PendingJobsComplete`, `WorkerIsFreed`,
`EverythingReturns`, `EveryBatchEnds`, `WriteEnds`, `RunEndsRightly`), which is beyond
this prover (fairness and ENABLED).

## 5. Not modelled, and the plan

Not modelled by choice: the conversion of a transaction into columns and JSON,
the router and its generated documentation, the MongoDB connection, the schema
files apart from their table engine, `test_grpc.go`.  They hold no state of
their own.  Nor are the client's fallback endpoint, which the program never
configures, and the rate limit, which only delays.  Three hazards have no
property: which of two error texts a cancelled run leaves in its job, the
transaction too large by itself, whose batch fails on every run
(`BadDataKeepsJobAlive` excepts it), and the ledger entry that a failed `Record`
loses (`GapsOnRecord` bounds how many); `PROJECT.json` says why.

What is left to do: measures.  The liveness properties of the pipeline, of
hydration, of a write and of a run say that something ends.  That each step
lowers a measure, a natural number, is an action property, within reach of the
prover; with it only the fairness of the last step is left to TLC.
