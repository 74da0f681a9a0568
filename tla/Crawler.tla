------------------------------ MODULE Crawler ------------------------------
(***************************************************************************)
(* The crawler process as one system: the REST API, the orchestrator and   *)
(* the worker, the two channels between the last two, the MongoDB          *)
(* collection of jobs and the ClickHouse tables.                           *)
(*                                                                         *)
(*   API           inserts jobs and sends jobs back to pending, at any time*)
(*   orchestrator  finds pending jobs, claims one, hands it to the worker  *)
(*                 over an unbuffered channel, and applies the worker's    *)
(*                 reports to MongoDB (internal/orchestrator)              *)
(*   worker        processes the range of a job chunk by chunk, writes the *)
(*                 checkpoints to ClickHouse in order, and reports its     *)
(*                 position and the end of the run over a buffered channel *)
(*                 (internal/worker)                                       *)
(*   main          starts both, cancels their context on a signal and      *)
(*                 exits without waiting for them (cmd/crawler)            *)
(*                                                                         *)
(* The pipeline inside a chunk is abstracted to the flushes of its writer: *)
(* each makes one more contiguous stretch of checkpoints complete in every *)
(* table.  Waiting (the poll interval, the retries) takes no model time.   *)
(***************************************************************************)
EXTENDS JobRepository, Sequences, FiniteSets, Functions

CONSTANTS
  Requests,             \* the bodies of POST /jobs, valid or not
  ProcessingChunkSize,  \* worker.go: processingChunkSize (500)
  ReportCap,            \* main.go: capacity of reportCh (100)
  Doomed,               \* jobs whose runs may fail for ever, for a reason
                        \* of their own (bad data, a missing checkpoint)
  \* bounds of the environment, consumed in the guards
  MaxFaults,            \* MongoDB calls that fail or lose their reply
  MaxFailures,          \* runs that fail (RPC node, ClickHouse, bad data)
  MaxRetries,           \* POST /jobs/{id}/retry
  MaxStops              \* signals and crashes

ASSUME RequestsAssumption == Requests \subseteq [from : Nat, end : Nat]
ASSUME CapacityAssumption == /\ ProcessingChunkSize \in Nat \ {0}
                             /\ ReportCap \in Nat \ {0}
ASSUME DoomedAssumption == Doomed \subseteq JobIds
ASSUME BudgetAssumption == /\ MaxFaults \in Nat /\ MaxFailures \in Nat
                           /\ MaxRetries \in Nat /\ MaxStops \in Nat

VARIABLES
  jobs,       \* MongoDB: the collection of JobRepository
  ingested,   \* ClickHouse: checkpoints whose rows are in all three tables
  process,    \* "down", "up", or "stopping" once the context is cancelled
  orch,       \* the orchestrator goroutine
  worker,     \* the worker goroutine
  reportCh,   \* the reports between them, oldest first
  spent       \* what the environment has done so far

vars == <<jobs, ingested, process, orch, worker, reportCh, spent>>

Checkpoints == UNION {r.from .. r.end : r \in Requests}

-----------------------------------------------------------------------------
(***************************************************************************)
(* The state of the goroutines.                                            *)
(*                                                                         *)
(* orch.pc   start   before ResetStalledJobs                               *)
(*           loop    at the top of the loop of Run                         *)
(*           scan    in dispatchPendingJob; queue: snapshots not tried yet *)
(*           finish  claimed a job with nothing left to do                 *)
(*           send    claimed a job, blocked on workerCh                    *)
(*           stopped, off (no process)                                     *)
(* In finish and send, queue holds the snapshot of the claimed job alone.  *)
(*                                                                         *)
(* worker.pc idle    waiting on assignCh                                   *)
(*           setup   connecting to the RPC node and to ClickHouse          *)
(*           chunk   at the top of the loop over chunks, at next           *)
(*           stream  in the writer of the chunk next .. to; everything up  *)
(*                   to pos is flushed and reported                        *)
(*           report  pos is flushed, its report is not in reportCh yet     *)
(*           final   the run is over with outcome, not reported yet        *)
(*           stopped, off                                                  *)
(***************************************************************************)
OrchPC   == {"off", "start", "loop", "scan", "finish", "send", "stopped"}
WorkerPC == {"off", "idle", "setup", "chunk", "stream", "report", "final",
             "stopped"}
Outcome  == {"none", "done", "failed"}

Orchestrator == [pc : OrchPC, busy : BOOLEAN, queue : SUBSET JobSnapshot]
Worker       == [pc : WorkerPC, id : JobIds \cup {0}, end : Nat, next : Nat,
                 pos : Nat, to : Nat, outcome : Outcome]
JobReport    == [id : JobIds, type : {"batch", "done", "failed"}, position : Nat]

Spent        == [faults : Nat, failures : Nat, retries : Nat, stops : Nat]

OrchAt(pc)   == [pc |-> pc, busy |-> FALSE, queue |-> {}]
WorkerAt(pc) == [pc |-> pc, id |-> 0, end |-> 0, next |-> 0, pos |-> 0,
                 to |-> 0, outcome |-> "none"]

Cancelled == process = "stopping"       \* ctx.Done() is ready

\* Mistake: a run starts at the last checkpoint, not after it.
StartAtLast(s) == IF s.last < s.from THEN s.from ELSE s.last

\* processJob and resolveStartCheckpoint compute the same start.
StartCheckpoint(s) == IF s.last + 1 < s.from THEN s.from ELSE s.last + 1

Init ==
  /\ jobs = [j \in JobIds |-> AbsentJob]
  /\ ingested = {}
  /\ process = "down"
  /\ orch = OrchAt("off")
  /\ worker = WorkerAt("off")
  /\ reportCh = <<>>
  /\ spent = [faults |-> 0, failures |-> 0, retries |-> 0, stops |-> 0]

-----------------------------------------------------------------------------
(***************************************************************************)
(* A MongoDB call of the orchestrator ends in one of three ways: applied   *)
(* and acknowledged, not applied, or applied with the reply lost.  The     *)
(* driver refuses a call whose context is cancelled, at no cost to the     *)
(* fault budget.                                                           *)
(***************************************************************************)
CallResult == {"ok", "failed", "lost"}

Call(result) ==
  \/ /\ Cancelled /\ result = "failed"
     /\ UNCHANGED spent
  \/ /\ ~Cancelled /\ result = "ok"
     /\ UNCHANGED spent
  \/ /\ ~Cancelled /\ result # "ok"
     /\ spent.faults < MaxFaults
     /\ spent' = [spent EXCEPT !.faults = @ + 1]

Effect(result, updated) == jobs' = IF result = "failed" THEN jobs ELSE updated

-----------------------------------------------------------------------------
\* The API.  Its handlers use the context of the request, so they still work
\* while the process is stopping.  An insert or a retry that fails changes
\* nothing, and one whose reply is lost looks the same to the database.

PostJob(r) ==
  /\ process # "down"
  /\ r.from <= r.end                              \* Validate
  /\ \E j \in InStatus(jobs, "none") :
       /\ \A i \in InStatus(jobs, "none") : j <= i
       /\ jobs' = CreateJob(jobs, j, r.from, r.from, r.end)
  /\ UNCHANGED <<ingested, process, orch, worker, reportCh, spent>>

PostRetry(j) ==
  /\ process # "down"
  /\ spent.retries < MaxRetries
  /\ jobs[j].status # "none"
  /\ jobs' = RetryJob(jobs, j)
  /\ spent' = [spent EXCEPT !.retries = @ + 1]
  /\ UNCHANGED <<ingested, process, orch, worker, reportCh>>

-----------------------------------------------------------------------------
\* The process.  Nothing in memory survives it.

Start ==
  /\ process = "down"
  /\ process' = "up"
  /\ orch' = OrchAt("start")
  /\ worker' = WorkerAt("idle")
  /\ UNCHANGED <<jobs, ingested, reportCh, spent>>

Signal ==
  /\ process = "up"
  /\ spent.stops < MaxStops
  /\ process' = "stopping"
  /\ spent' = [spent EXCEPT !.stops = @ + 1]
  /\ UNCHANGED <<jobs, ingested, orch, worker, reportCh>>

Vanish ==
  /\ process' = "down"
  /\ orch' = OrchAt("off")
  /\ worker' = WorkerAt("off")
  /\ reportCh' = <<>>

\* main returns after the API server has shut down, whatever the goroutines do.
Exit ==
  /\ process = "stopping"
  /\ Vanish
  /\ UNCHANGED <<jobs, ingested, spent>>

Crash ==
  /\ process # "down"
  /\ spent.stops < MaxStops
  /\ Vanish
  /\ spent' = [spent EXCEPT !.stops = @ + 1]
  /\ UNCHANGED <<jobs, ingested>>

-----------------------------------------------------------------------------
(***************************************************************************)
(* The orchestrator.  A select with several ready cases takes any of them; *)
(* its default branch needs all of them not ready.                         *)
(***************************************************************************)

\* A failure to reset is logged, and the loop starts all the same.
ResetStalled(result) ==
  /\ orch.pc = "start"
  /\ Call(result)
  /\ Effect(result, ResetStalledJobs(jobs))
  /\ orch' = [orch EXCEPT !.pc = "loop"]
  /\ UNCHANGED <<ingested, process, worker, reportCh>>

OrchestratorStop ==
  /\ orch.pc = "loop"
  /\ Cancelled
  /\ orch' = [orch EXCEPT !.pc = "stopped"]
  /\ UNCHANGED <<jobs, ingested, process, worker, reportCh, spent>>

Poll ==
  /\ orch.pc = "loop" /\ ~orch.busy
  /\ ~Cancelled /\ reportCh = <<>>
  /\ FindPendingJobs(jobs) # {}
  /\ orch' = [orch EXCEPT !.pc = "scan", !.queue = FindPendingJobs(jobs)]
  /\ UNCHANGED <<jobs, ingested, process, worker, reportCh, spent>>

\* Nothing is pending, or the find failed: sleep for the poll interval.
PollInVain ==
  /\ orch.pc = "loop" /\ ~orch.busy
  /\ ~Cancelled /\ reportCh = <<>>
  /\ UNCHANGED vars

\* The loop of dispatchPendingJob after a claim that returned an error.
NextCandidate(s) ==
  [orch EXCEPT !.pc = IF orch.queue = {s} THEN "loop" ELSE "scan",
               !.queue = @ \ {s}]

\* Mistake: >= for >.
ClaimedEarly(s) ==
  IF StartCheckpoint(s) >= s.end
  THEN [orch EXCEPT !.pc = "finish", !.queue = {s}]
  ELSE [orch EXCEPT !.pc = "send", !.queue = {s}, !.busy = TRUE]

\* The loop of dispatchPendingJob after a claim that succeeded.
Claimed(s) ==
  IF StartCheckpoint(s) > s.end
  THEN [orch EXCEPT !.pc = "finish", !.queue = {s}]
  ELSE [orch EXCEPT !.pc = "send", !.queue = {s}, !.busy = TRUE]

Claim(s, result) ==
  /\ orch.pc = "scan"
  /\ OldestFirst(s, orch.queue)
  /\ Call(result)
  /\ Effect(result, ClaimJob(jobs, s.id))
  /\ orch' = IF result = "ok" /\ jobs[s.id].status = "pending"
             THEN Claimed(s) ELSE NextCandidate(s)
  /\ UNCHANGED <<ingested, process, worker, reportCh>>

\* The job had nothing left to ingest: it is completed on the spot.
FinishClaimed(s, result) ==
  /\ orch.pc = "finish"
  /\ s \in orch.queue
  /\ Call(result)
  /\ Effect(result, CompleteJob(jobs, s.id))
  /\ orch' = OrchAt("loop")
  /\ UNCHANGED <<ingested, process, worker, reportCh>>

\* The rendezvous on assignCh.  The send does not watch the context; the
\* receiver does, but may still choose the assignment.
Assign(s) ==
  /\ orch.pc = "send"
  /\ s \in orch.queue
  /\ worker.pc = "idle"
  /\ orch' = [orch EXCEPT !.pc = "loop", !.queue = {}]
  /\ worker' = [WorkerAt("setup") EXCEPT !.id = s.id, !.end = s.end,
                                         !.next = StartCheckpoint(s)]
  /\ UNCHANGED <<jobs, ingested, process, reportCh, spent>>

\* What handleReport asks of MongoDB.
Applied(report) ==
  CASE report.type = "batch"  -> UpdateProgress(jobs, report.id, report.position)
    [] report.type = "done"   -> CompleteJob(jobs, report.id)
    [] report.type = "failed" -> RequeueJob(jobs, report.id)

\* Mistake: every report frees the worker.
HandleReportFrees(result) ==
  /\ orch.pc = "loop" /\ reportCh # <<>>
  /\ Effect(result, Applied(Head(reportCh)))
  /\ orch' = [orch EXCEPT !.busy = FALSE]
  /\ reportCh' = Tail(reportCh)
  /\ Call(result)
  /\ UNCHANGED <<ingested, process, worker>>

HandleReport(result) ==
  /\ orch.pc = "loop"
  /\ reportCh # <<>>
  /\ LET report == Head(reportCh) IN
       /\ Effect(result, Applied(report))
       /\ orch' = [orch EXCEPT !.busy = IF report.type = "batch" THEN @ ELSE FALSE]
  /\ reportCh' = Tail(reportCh)
  /\ Call(result)
  /\ UNCHANGED <<ingested, process, worker>>

-----------------------------------------------------------------------------
\* The worker.

WorkerStop ==
  /\ worker.pc = "idle"
  /\ Cancelled
  /\ worker' = WorkerAt("stopped")
  /\ UNCHANGED <<jobs, ingested, process, orch, reportCh, spent>>

\* A run fails for a reason of its job, because its context is cancelled, or
\* for a passing reason.
Failure ==
  \/ /\ Cancelled \/ worker.id \in Doomed
     /\ UNCHANGED spent
  \/ /\ ~Cancelled
     /\ spent.failures < MaxFailures
     /\ spent' = [spent EXCEPT !.failures = @ + 1]

EndRun(outcome) == worker' = [worker EXCEPT !.pc = "final", !.outcome = outcome]

Setup ==
  /\ worker.pc = "setup"
  /\ worker' = [worker EXCEPT !.pc = "chunk"]
  /\ UNCHANGED <<jobs, ingested, process, orch, reportCh, spent>>

\* Mistake: a failed connection returns without a report.
SetupFailsSilently ==
  /\ worker.pc = "setup" /\ Failure
  /\ worker' = WorkerAt("idle")
  /\ UNCHANGED <<jobs, ingested, process, orch, reportCh>>

SetupFails ==
  /\ worker.pc = "setup"
  /\ Failure
  /\ EndRun("failed")
  /\ UNCHANGED <<jobs, ingested, process, orch, reportCh>>

ChunkEnd ==
  IF worker.next + ProcessingChunkSize - 1 > worker.end
  THEN worker.end ELSE worker.next + ProcessingChunkSize - 1

StartChunk ==
  /\ worker.pc = "chunk" /\ worker.next <= worker.end
  /\ ~Cancelled
  /\ worker' = [worker EXCEPT !.pc = "stream", !.pos = worker.next - 1,
                              !.to = ChunkEnd]
  /\ UNCHANGED <<jobs, ingested, process, orch, reportCh, spent>>

ChunkCancelled ==
  /\ worker.pc = "chunk" /\ worker.next <= worker.end
  /\ Cancelled
  /\ EndRun("failed")
  /\ UNCHANGED <<jobs, ingested, process, orch, reportCh, spent>>

\* The loop condition comes before the look at the context.
AllChunksDone ==
  /\ worker.pc = "chunk" /\ worker.next > worker.end
  /\ EndRun("done")
  /\ UNCHANGED <<jobs, ingested, process, orch, reportCh, spent>>

\* Mistake: the error of an insert is ignored.
FlushUnchecked(q) ==
  /\ worker.pc = "stream" /\ ~Cancelled
  /\ q \in worker.pos + 1 .. worker.to
  /\ ingested' \in {ingested, ingested \cup (worker.pos + 1 .. q)}
  /\ worker' = [worker EXCEPT !.pc = "report", !.pos = q]
  /\ UNCHANGED <<jobs, process, orch, reportCh, spent>>

\* flush: the rows of pos + 1 .. q are in the three tables, acknowledged.
Flush(q) ==
  /\ worker.pc = "stream"
  /\ ~Cancelled
  /\ q \in worker.pos + 1 .. worker.to
  /\ ingested' = ingested \cup (worker.pos + 1 .. q)
  /\ worker' = [worker EXCEPT !.pc = "report", !.pos = q]
  /\ UNCHANGED <<jobs, process, orch, reportCh, spent>>

Send(type, position) ==
  /\ Len(reportCh) < ReportCap
  /\ reportCh' = Append(reportCh, [id |-> worker.id, type |-> type,
                                   position |-> position])

\* Mistake: a report that does not fit in the channel is dropped.
ReportProgressOrDrop ==
  /\ worker.pc = "report"
  /\ \/ Send("batch", worker.pos)
     \/ Len(reportCh) = ReportCap /\ UNCHANGED reportCh
  /\ worker' = [worker EXCEPT !.pc = "stream"]
  /\ UNCHANGED <<jobs, ingested, process, orch, spent>>

ReportProgress ==
  /\ worker.pc = "report"
  /\ Send("batch", worker.pos)
  /\ worker' = [worker EXCEPT !.pc = "stream"]
  /\ UNCHANGED <<jobs, ingested, process, orch, spent>>

NextChunk == [worker EXCEPT !.pc = "chunk", !.next = @ + ProcessingChunkSize]

ChunkDone ==
  /\ worker.pc = "stream" /\ worker.pos = worker.to
  /\ worker' = NextChunk
  /\ UNCHANGED <<jobs, ingested, process, orch, reportCh, spent>>

\* Mistake: the end of the stream of results is always the end of the chunk.
ChunkAbandonedSilently ==
  /\ worker.pc = "stream" /\ worker.pos < worker.to
  /\ worker' = NextChunk
  /\ UNCHANGED <<jobs, ingested, process, orch, reportCh, spent>>

\* The stages upstream saw the context first, closed the stream of results,
\* and the writer took its end for the end of the chunk: the chunk returns
\* nil with checkpoints missing.
ChunkAbandoned ==
  /\ worker.pc = "stream" /\ worker.pos < worker.to
  /\ Cancelled
  /\ worker' = NextChunk
  /\ UNCHANGED <<jobs, ingested, process, orch, reportCh, spent>>

\* The chunk returns an error; its last insert may have been applied in part.
ChunkFails(S) ==
  /\ worker.pc = "stream"
  /\ worker.pos < worker.to \/ Cancelled
  /\ S \subseteq worker.pos + 1 .. worker.to
  /\ Failure
  /\ ingested' = ingested \cup S
  /\ EndRun("failed")
  /\ UNCHANGED <<jobs, process, orch, reportCh>>

ReportEnd ==
  /\ worker.pc = "final"
  /\ Send(worker.outcome, 0)
  /\ worker' = WorkerAt("idle")
  /\ UNCHANGED <<jobs, ingested, process, orch, spent>>

-----------------------------------------------------------------------------
OrchestratorStep ==
  \/ OrchestratorStop \/ Poll \/ PollInVain
  \/ \E result \in CallResult :
       \/ ResetStalled(result)
       \/ HandleReport(result)
       \/ \E s \in orch.queue : Claim(s, result) \/ FinishClaimed(s, result)

WorkerStep ==
  \/ WorkerStop \/ Setup \/ SetupFails
  \/ StartChunk \/ ChunkCancelled \/ AllChunksDone
  \/ ReportProgress \/ ChunkDone \/ ChunkAbandoned \/ ReportEnd
  \/ \E s \in orch.queue : Assign(s)
  \/ \E q \in Checkpoints : Flush(q)
  \/ \E S \in SUBSET Checkpoints : ChunkFails(S)

Next ==
  \/ \E r \in Requests : PostJob(r)
  \/ \E j \in JobIds : PostRetry(j)
  \/ Start \/ Signal \/ Exit \/ Crash
  \/ OrchestratorStep
  \/ WorkerStep

Spec == Init /\ [][Next]_vars

\* Goroutines that can run do run, and a stopping process exits; a crawler that
\* is down is started again.  The API and the failures owe nothing.
Fairness ==
  /\ WF_vars(OrchestratorStep)
  /\ WF_vars(WorkerStep)
  /\ WF_vars(Exit)
  /\ WF_vars(Start)

FairSpec == Spec /\ Fairness

-----------------------------------------------------------------------------
(***************************************************************************)
(* Properties.                                                             *)
(***************************************************************************)

WorkerActive == worker.pc \notin {"off", "idle", "stopped"}

\* Between runs the fields of the worker mean nothing; in a run they do.
WorkerOK ==
  /\ worker \in Worker
  /\ WorkerActive => worker.id \in JobIds /\ worker.next > 0
  /\ worker.pc = "final" => worker.outcome # "none"

\* Every variable has its type.
TypeOK ==
  /\ jobs \in [JobIds -> CrawlerJob]
  /\ ingested \subseteq Nat
  /\ process \in {"down", "up", "stopping"}
  /\ orch \in Orchestrator
  /\ WorkerOK
  /\ reportCh \in Seq(JobReport)
  /\ spent \in Spent

Exists(j)     == jobs[j].status # "none"
Covered(j, p) == jobs[j].from + 1 .. p \subseteq ingested

\* The position a job resumes from never runs ahead of the data: whatever
\* crashes, failed inserts and lost calls came before, everything between the
\* first checkpoint of a job and its last_checkpoint is in all three tables.
DurableProgress == \A j \in JobIds : Exists(j) => Covered(j, jobs[j].last)

\* A job shown as completed is ingested to its end.  The worker can report a
\* run as done whose last chunk was abandoned (ChunkAbandoned); it must never
\* come to count, even with a restart or a retry in between.
CompletedMeansIngested ==
  \A j \in JobIds : jobs[j].status = "completed" => Covered(j, jobs[j].end)

\* workerBusy, the blocking send and the two channels keep to one run at a
\* time: when the orchestrator is free to dispatch, the worker has nothing to
\* do and has nothing left to say; an end of run is the last word of its run;
\* every report is about the job that is running.
OneRunAtATime ==
  LET ended == {i \in DOMAIN reportCh : reportCh[i].type # "batch"} IN
  /\ WorkerActive => orch.busy /\ orch.pc # "send" /\ ended = {}
  /\ ~orch.busy \/ orch.pc = "send" => reportCh = <<>>
  /\ ended \subseteq {Len(reportCh)}
  /\ \A i, k \in DOMAIN reportCh : reportCh[i].id = reportCh[k].id
  /\ WorkerActive => \A i \in DOMAIN reportCh : reportCh[i].id = worker.id
  /\ orch.busy /\ orch.pc = "loop" => WorkerActive \/ ended # {}

\* The jobs that somebody is going to move out of progressing.
InHand ==
  (IF orch.pc \in {"finish", "send"} THEN {s.id : s \in orch.queue} ELSE {})
  \cup (IF WorkerActive THEN {worker.id} ELSE {})
  \cup {r.id : r \in {r \in Range(reportCh) : r.type # "batch"}}

Orphans == InStatus(jobs, "progressing") \ InHand

\* A job left in progressing with nobody working on it stays there until the
\* next start.  While the process is up, each such job has cost a MongoDB call
\* of its own: no interleaving of runs, retries and restarts strands one.
OrphansBoundedByFaults ==
  process = "up" /\ orch.pc # "start" => Cardinality(Orphans) <= spent.faults

\* What a run works from is what MongoDB holds: between the find and the
\* rendezvous nobody moves the position of a job in the queue, so a run never
\* redoes or skips checkpoints because its copy of the job was stale.
SnapshotIsCurrent == \A s \in orch.queue : s = Snapshot(jobs, s.id)

\* error and completed_at agree with the status over every path a document
\* can take: only completed jobs have a completion time, and a job that is
\* being worked on or completed shows no error of an earlier run.
DocumentsConsistent ==
  \A j \in JobIds :
    /\ jobs[j].completedAt <=> jobs[j].status = "completed"
    /\ jobs[j].error => jobs[j].status = "pending"

\* The position the job will have once the reports on their way are applied.
ReportedPosition ==
  IF reportCh = <<>> THEN jobs[worker.id].last
                     ELSE reportCh[Len(reportCh)].position

\* Where the worker is between two chunks: next overshoots after the last one.
Reached == IF worker.next > worker.end THEN worker.end ELSE worker.next - 1

\* As long as no call fails and no retry interferes, no flush goes
\* unaccounted: what the running worker has written is in MongoDB or on its
\* way there, whatever the size of the chunks and of the channel.
ProgressAccounted ==
  process = "up" /\ spent.faults = 0 /\ spent.retries = 0 =>
    /\ worker.pc = "stream" => ReportedPosition = worker.pos
    /\ worker.pc \in {"setup", "chunk"} => ReportedPosition = Reached

\* The crawler implements the contract of a job.
Contract ==
  INSTANCE JobContract WITH
    Ids <- JobIds,
    Positions <- Checkpoints,
    job <- [j \in JobIds |-> [status |-> jobs[j].status, from |-> jobs[j].from,
                              last |-> jobs[j].last, end |-> jobs[j].end]]

\* Every step of the whole system is a step of the contract or invisible to
\* it: positions only advance, over ingested checkpoints, jobs complete only
\* with everything ingested, and a retry is never swallowed by the run it
\* interrupts (a pending job has to be taken again).
ImplementsContract == Contract!ContractSpec

\* Every submitted job is completed in the end, through failed runs, retries, a
\* crash or a shutdown, unless a MongoDB call fails or an older job is doomed.
\* Only the oldest pending job is tried and a failed one keeps its place, so a
\* doomed job holds up the younger ones, but it must hold up no older one.
PendingJobsComplete ==
  \A j \in JobIds :
    Doomed \cap 1 .. j = {} =>
      (jobs[j].status = "pending" ~>
         jobs[j].status = "completed" \/ spent.faults > 0)

\* The worker is never lost: every dispatch is followed by a report that frees
\* it (or by the end of the process), even when MongoDB calls fail.
WorkerIsFreed == orch.busy ~> ~orch.busy

-----------------------------------------------------------------------------
(***************************************************************************)
(* What the documentation says and the code does not do.                   *)
(***************************************************************************)

\* README.md:95-96: a job covers its range, both ends included.
RangeIngested ==
  \A j \in JobIds :
    jobs[j].status = "completed" => jobs[j].from .. jobs[j].end \subseteq ingested

\* worker.go:20-22: after a failure, at most a chunk is replayed.
ReplayBoundedByChunk ==
  worker.pc \in {"stream", "report"} =>
    worker.pos - jobs[worker.id].last <= ProcessingChunkSize

-----------------------------------------------------------------------------
(***************************************************************************)
(* The inductive invariant behind DurableProgress and                      *)
(* CompletedMeansIngested: wherever a position is kept (a snapshot, the    *)
(* worker, a report), the checkpoints up to it are ingested.  Once the     *)
(* context is cancelled a run may end as done without it; then the calls   *)
(* of the orchestrator fail.                                               *)
(***************************************************************************)
QueueCovered ==
  \A s \in orch.queue :
    /\ Exists(s.id)
    /\ s.from = jobs[s.id].from /\ s.end = jobs[s.id].end
    /\ Covered(s.id, s.last)
    /\ orch.pc = "finish" => Covered(s.id, s.end)

WorkerCovered ==
  WorkerActive =>
    /\ Exists(worker.id)
    /\ worker.end = jobs[worker.id].end
    /\ worker.pc \in {"setup", "chunk"} /\ ~Cancelled =>
         Covered(worker.id, Reached)
    /\ worker.pc \in {"stream", "report"} =>
         /\ Covered(worker.id, worker.pos)
         /\ worker.pos <= worker.to
         /\ worker.to = ChunkEnd
    /\ worker.pc = "final" /\ worker.outcome = "done" /\ ~Cancelled =>
         Covered(worker.id, worker.end)

ReportsCovered ==
  \A i \in DOMAIN reportCh :
    LET r == reportCh[i] IN
    /\ Exists(r.id)
    /\ r.type = "batch" => Covered(r.id, r.position)
    /\ r.type = "done" /\ ~Cancelled => Covered(r.id, jobs[r.id].end)

DataInv ==
  /\ DurableProgress /\ CompletedMeansIngested
  /\ QueueCovered /\ WorkerCovered /\ ReportsCovered

=============================================================================
