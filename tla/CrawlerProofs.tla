--------------------------- MODULE CrawlerProofs ---------------------------
(***************************************************************************)
(* Theorems about Crawler, for every number of jobs, every set of requests,*)
(* every chunk size and channel capacity, and every budget of faults.      *)
(***************************************************************************)
EXTENDS Crawler, TLAPS

-----------------------------------------------------------------------------
(***************************************************************************)
(* The updates of the collection of jobs.                                  *)
(***************************************************************************)

\* What an update may do to one document.
LEMMA DocumentTyped ==
  ASSUME NEW d \in CrawlerJob, NEW status \in JobStatus
  PROVE  /\ \A e \in BOOLEAN :
              /\ [d EXCEPT !.status = status, !.error = e] \in CrawlerJob
              /\ \A c \in BOOLEAN :
                   [d EXCEPT !.status = status, !.error = e, !.completedAt = c]
                     \in CrawlerJob
         /\ \A p \in Nat : [d EXCEPT !.last = p] \in CrawlerJob
BY DEF CrawlerJob

\* Every update yields documents again.
LEMMA UpdatesTyped ==
  ASSUME NEW db \in [JobIds -> CrawlerJob], NEW j \in JobIds
  PROVE  /\ ClaimJob(db, j) \in [JobIds -> CrawlerJob]
         /\ CompleteJob(db, j) \in [JobIds -> CrawlerJob]
         /\ RequeueJob(db, j) \in [JobIds -> CrawlerJob]
         /\ RetryJob(db, j) \in [JobIds -> CrawlerJob]
         /\ ResetStalledJobs(db) \in [JobIds -> CrawlerJob]
         /\ \A p \in Nat : UpdateProgress(db, j, p) \in [JobIds -> CrawlerJob]
<1>1. \A d \in CrawlerJob : [db EXCEPT ![j] = d] \in [JobIds -> CrawlerJob]
  OBVIOUS
<1>2. \A i \in JobIds : db[i] \in CrawlerJob
  OBVIOUS
<1>3. ClaimJob(db, j) \in [JobIds -> CrawlerJob]
  BY <1>1, <1>2, DocumentTyped DEF ClaimJob, JobStatus
<1>4. CompleteJob(db, j) \in [JobIds -> CrawlerJob]
  BY <1>1, <1>2, DocumentTyped DEF CompleteJob, JobStatus
<1>5. RequeueJob(db, j) \in [JobIds -> CrawlerJob]
  BY <1>1, <1>2, DocumentTyped DEF RequeueJob, JobStatus
<1>6. RetryJob(db, j) \in [JobIds -> CrawlerJob]
  BY <1>1, <1>2, DocumentTyped DEF RetryJob, JobStatus
<1>7. ResetStalledJobs(db) \in [JobIds -> CrawlerJob]
  BY <1>2, DocumentTyped DEF ResetStalledJobs, JobStatus
<1>8. \A p \in Nat : UpdateProgress(db, j, p) \in [JobIds -> CrawlerJob]
  BY <1>1, <1>2, DocumentTyped DEF UpdateProgress, JobStatus
<1> QED
  BY <1>3, <1>4, <1>5, <1>6, <1>7, <1>8

\* The document that CreateJob inserts is one.
LEMMA CreateTyped ==
  ASSUME NEW db \in [JobIds -> CrawlerJob], NEW j \in JobIds,
         NEW from \in Nat, NEW last \in Nat, NEW end \in Nat
  PROVE  CreateJob(db, j, from, last, end) \in [JobIds -> CrawlerJob]
BY DEF CreateJob, CrawlerJob, JobStatus, AbsentJob

\* A snapshot of a stored document is one.
LEMMA SnapshotTyped ==
  ASSUME NEW db \in [JobIds -> CrawlerJob]
  PROVE  FindPendingJobs(db) \in SUBSET JobSnapshot
<1>1. ASSUME NEW j \in JobIds PROVE Snapshot(db, j) \in JobSnapshot
  BY <1>1 DEF Snapshot, JobSnapshot, CrawlerJob
<1> QED
  BY <1>1 DEF FindPendingJobs, InStatus

-----------------------------------------------------------------------------
(***************************************************************************)
(* Type correctness.                                                       *)
(***************************************************************************)

\* What the environment spends is counted.
LEMMA SpentTyped ==
  ASSUME spent \in Spent
  PROVE  /\ [spent EXCEPT !.faults = @ + 1] \in Spent
         /\ [spent EXCEPT !.failures = @ + 1] \in Spent
         /\ [spent EXCEPT !.retries = @ + 1] \in Spent
         /\ [spent EXCEPT !.stops = @ + 1] \in Spent
BY DEF Spent

\* A call of the orchestrator leaves the counters what they are.
LEMMA CallTyped ==
  ASSUME spent \in Spent, NEW result \in CallResult, Call(result)
  PROVE  spent' \in Spent
BY SpentTyped DEF Call

\* So does a failure of the worker.
LEMMA FailureTyped ==
  ASSUME spent \in Spent, Failure
  PROVE  spent' \in Spent
BY SpentTyped DEF Failure

\* The goroutines start, and are gone, in a state of theirs.
LEMMA IdleTyped ==
  /\ \A pc \in OrchPC : OrchAt(pc) \in Orchestrator
  /\ "off" \in OrchPC /\ "start" \in OrchPC /\ "loop" \in OrchPC
  /\ \A pc \in {"off", "idle", "stopped"} :
       /\ worker = WorkerAt(pc) => WorkerOK
       /\ worker' = WorkerAt(pc) => WorkerOK'
<1>1. ASSUME NEW pc \in {"off", "idle", "stopped"}
      PROVE  WorkerAt(pc) \in Worker /\ WorkerAt(pc).pc = pc
  BY <1>1 DEF WorkerAt, Worker, WorkerPC, Outcome
<1>2. \A pc \in OrchPC : OrchAt(pc) \in Orchestrator
  BY DEF OrchAt, Orchestrator
<1> QED
  BY <1>1, <1>2 DEF WorkerOK, WorkerActive, OrchPC

\* A run starts at a checkpoint number.
LEMMA StartTyped ==
  ASSUME NEW s \in JobSnapshot
  PROVE  /\ StartCheckpoint(s) \in Nat /\ s.last + 1 <= StartCheckpoint(s)
         /\ s.from <= StartCheckpoint(s)
         /\ StartCheckpoint(s) = s.last + 1 \/ StartCheckpoint(s) = s.from
BY DEF StartCheckpoint, JobSnapshot

\* The end of a chunk is a checkpoint number, at most a chunk away.
LEMMA ChunkEndTyped ==
  ASSUME TypeOK, worker.next <= worker.end
  PROVE  /\ ChunkEnd \in Nat /\ worker.next <= ChunkEnd /\ ChunkEnd <= worker.end
         /\ ChunkEnd <= worker.next + ProcessingChunkSize - 1
BY CapacityAssumption DEF TypeOK, WorkerOK, Worker, ChunkEnd

\* Every step keeps the types.
LEMMA TypeInductive == TypeOK /\ [Next]_vars => TypeOK'
<1> SUFFICES ASSUME TypeOK, [Next]_vars PROVE TypeOK'
  OBVIOUS
<1> USE DEF TypeOK
<1>1. CASE UNCHANGED vars
  BY <1>1 DEF vars, WorkerOK, WorkerActive
<1>2. ASSUME NEW r \in Requests, PostJob(r) PROVE TypeOK'
  BY <1>2, CreateTyped, RequestsAssumption DEF PostJob, InStatus, WorkerOK, WorkerActive
<1>3. ASSUME NEW j \in JobIds, PostRetry(j) PROVE TypeOK'
  BY <1>3, UpdatesTyped, SpentTyped DEF PostRetry, WorkerOK, WorkerActive
<1>4. CASE Start
  BY <1>4, IdleTyped DEF Start
<1>5. CASE Signal
  BY <1>5, SpentTyped DEF Signal, WorkerOK, WorkerActive
<1>6. ASSUME Vanish PROVE /\ process' = "down" /\ orch' \in Orchestrator
                          /\ WorkerOK' /\ reportCh' \in Seq(JobReport)
  BY <1>6, IdleTyped DEF Vanish
<1>7. CASE Exit
  BY <1>6, <1>7 DEF Exit
<1>8. CASE Crash
  BY <1>6, <1>8, SpentTyped DEF Crash
<1>9. CASE OrchestratorStep
  <2> USE DEF WorkerOK, WorkerActive
  <2>1. CASE OrchestratorStop
    BY <2>1 DEF OrchestratorStop, Orchestrator, OrchPC
  <2>2. CASE Poll
    BY <2>2, SnapshotTyped DEF Poll, Orchestrator, OrchPC
  <2>3. CASE PollInVain
    BY <2>3 DEF PollInVain, vars
  <2>4. ASSUME NEW result \in CallResult, ResetStalled(result) PROVE TypeOK'
    <3>1. jobs' \in [JobIds -> CrawlerJob]
      <4>1. ResetStalledJobs(jobs) \in [JobIds -> CrawlerJob]
        BY DocumentTyped DEF ResetStalledJobs, JobStatus
      <4> QED
        BY <2>4, <4>1 DEF ResetStalled, Effect
    <3>2. orch' \in Orchestrator
      BY <2>4 DEF ResetStalled, Orchestrator, OrchPC
    <3> QED
      BY <2>4, <3>1, <3>2, CallTyped DEF ResetStalled
  <2>5. ASSUME NEW result \in CallResult, HandleReport(result) PROVE TypeOK'
    <3>1. /\ Head(reportCh) \in JobReport /\ Tail(reportCh) \in Seq(JobReport)
          /\ reportCh' = Tail(reportCh)
      BY <2>5 DEF HandleReport
    <3>2. Applied(Head(reportCh)) \in [JobIds -> CrawlerJob]
      BY <3>1, UpdatesTyped DEF Applied, JobReport
    <3>3. jobs' \in [JobIds -> CrawlerJob]
      BY <2>5, <3>2 DEF HandleReport, Effect
    <3>4. orch' \in Orchestrator
      BY <2>5 DEF HandleReport, Orchestrator
    <3> QED
      BY <2>5, <3>1, <3>3, <3>4, CallTyped DEF HandleReport
  <2>6. ASSUME NEW result \in CallResult, NEW s \in orch.queue, Claim(s, result)
        PROVE  TypeOK'
    <3>1. s \in JobSnapshot /\ s.id \in JobIds
      BY DEF Orchestrator, JobSnapshot
    <3>2. jobs' \in [JobIds -> CrawlerJob]
      BY <2>6, <3>1, UpdatesTyped DEF Claim, Effect
    <3>3. NextCandidate(s) \in Orchestrator
      BY DEF NextCandidate, Orchestrator, OrchPC
    <3>4. Claimed(s) \in Orchestrator
      BY <3>1 DEF Claimed, Orchestrator, OrchPC
    <3> QED
      BY <2>6, <3>2, <3>3, <3>4, CallTyped DEF Claim
  <2>7. ASSUME NEW result \in CallResult, NEW s \in orch.queue,
               FinishClaimed(s, result)
        PROVE  TypeOK'
    <3>1. s.id \in JobIds
      BY DEF Orchestrator, JobSnapshot
    <3>2. jobs' \in [JobIds -> CrawlerJob]
      BY <2>7, <3>1, UpdatesTyped DEF FinishClaimed, Effect
    <3>3. orch' \in Orchestrator
      BY <2>7 DEF FinishClaimed, OrchAt, Orchestrator, OrchPC
    <3> QED
      BY <2>7, <3>2, <3>3, CallTyped DEF FinishClaimed
  <2> QED
    BY <1>9, <2>1, <2>2, <2>3, <2>4, <2>5, <2>6, <2>7 DEF OrchestratorStep
<1>10. CASE WorkerStep
  <2>1. /\ worker \in Worker /\ worker.pc \in WorkerPC /\ worker.end \in Nat
        /\ worker.next \in Nat /\ worker.pos \in Nat /\ worker.to \in Nat
        /\ worker.outcome \in Outcome /\ worker.id \in JobIds \cup {0}
    BY DEF WorkerOK, Worker
  <2>2. CASE WorkerStop
    BY <2>2, IdleTyped DEF WorkerStop
  <2>3. CASE Setup
    <3>1. WorkerOK'
      BY <2>1, <2>3 DEF Setup, WorkerOK, WorkerActive, Worker, WorkerPC
    <3> QED
      BY <2>3, <3>1 DEF Setup
  <2>4. ASSUME WorkerActive, NEW outcome \in {"done", "failed"}, EndRun(outcome)
        PROVE  WorkerOK'
    BY <2>1, <2>4 DEF EndRun, WorkerOK, WorkerActive, Worker, WorkerPC, Outcome
  <2>5. CASE SetupFails
    <3>1. WorkerOK'
      BY <2>4, <2>5 DEF SetupFails, WorkerActive
    <3> QED
      BY <2>5, <3>1, FailureTyped DEF SetupFails
  <2>6. CASE StartChunk
    <3>1. worker.next - 1 \in Nat /\ WorkerActive
      BY <2>1, <2>6 DEF StartChunk, WorkerOK, WorkerActive
    <3>2. ChunkEnd \in Nat
      BY <2>6, ChunkEndTyped DEF StartChunk
    <3>3. WorkerOK'
      BY <2>1, <2>6, <3>1, <3>2
      DEF StartChunk, WorkerOK, WorkerActive, Worker, WorkerPC
    <3> QED
      BY <2>6, <3>3 DEF StartChunk
  <2>7. CASE ChunkCancelled
    <3>1. WorkerOK'
      BY <2>4, <2>7 DEF ChunkCancelled, WorkerActive
    <3> QED
      BY <2>7, <3>1 DEF ChunkCancelled
  <2>8. CASE AllChunksDone
    <3>1. WorkerOK'
      BY <2>4, <2>8 DEF AllChunksDone, WorkerActive
    <3> QED
      BY <2>8, <3>1 DEF AllChunksDone
  <2>9. ASSUME WorkerActive, NEW type \in {"batch", "done", "failed"},
               NEW position \in Nat, Send(type, position)
        PROVE  reportCh' \in Seq(JobReport)
    <3>1. worker.id \in JobIds
      BY <2>9 DEF WorkerOK
    <3>2. [id |-> worker.id, type |-> type, position |-> position] \in JobReport
      BY <3>1 DEF JobReport
    <3> QED
      BY <2>9, <3>2 DEF Send
  <2>10. CASE ReportProgress
    <3>1. WorkerActive
      BY <2>10 DEF ReportProgress, WorkerActive
    <3>2. WorkerOK'
      BY <2>1, <2>10 DEF ReportProgress, WorkerOK, WorkerActive, Worker, WorkerPC
    <3> QED
      BY <2>1, <2>9, <2>10, <3>1, <3>2 DEF ReportProgress
  <2>11. ASSUME worker.pc = "stream", worker' = NextChunk PROVE WorkerOK'
    <3>1. /\ worker.next + ProcessingChunkSize \in Nat
          /\ worker.next + ProcessingChunkSize > 0
      BY <2>1, CapacityAssumption
    <3> QED
      BY <2>1, <2>11, <3>1
      DEF NextChunk, WorkerOK, WorkerActive, Worker, WorkerPC
  <2>12. CASE ChunkDone
    BY <2>11, <2>12 DEF ChunkDone
  <2>13. CASE ChunkAbandoned
    BY <2>11, <2>13 DEF ChunkAbandoned
  <2>14. CASE ReportEnd
    <3>1. WorkerActive /\ worker.outcome \in {"batch", "done", "failed"}
      BY <2>1, <2>14 DEF ReportEnd, WorkerActive, WorkerOK, Outcome
    <3> QED
      BY <2>9, <2>14, <3>1, IdleTyped DEF ReportEnd
  <2>15. ASSUME NEW s \in orch.queue, Assign(s) PROVE TypeOK'
    <3>1. s \in JobSnapshot
      BY DEF Orchestrator
    <3>2. orch' \in Orchestrator
      BY <2>15 DEF Assign, Orchestrator, OrchPC
    <3>3. /\ StartCheckpoint(s) \in Nat /\ StartCheckpoint(s) > 0
          /\ s.id \in JobIds /\ s.end \in Nat
      BY <3>1, StartTyped DEF JobSnapshot
    <3>4. WorkerOK'
      BY <2>15, <3>3
      DEF Assign, WorkerAt, WorkerOK, WorkerActive, Worker, WorkerPC, Outcome
    <3> QED
      BY <2>15, <3>2, <3>4 DEF Assign
  <2>16. ASSUME NEW q \in Checkpoints, Flush(q) PROVE TypeOK'
    <3>1. worker.pos + 1 .. q \subseteq Nat /\ q \in Nat
      BY <2>1, <2>16 DEF Flush
    <3>2. WorkerOK'
      BY <2>1, <2>16, <3>1 DEF Flush, WorkerOK, WorkerActive, Worker, WorkerPC
    <3> QED
      BY <2>16, <3>1, <3>2 DEF Flush
  <2>17. ASSUME NEW S \in SUBSET Checkpoints, ChunkFails(S)
         PROVE  TypeOK'
    <3>1. S \subseteq Nat
      BY <2>1, <2>17 DEF ChunkFails
    <3>2. WorkerOK'
      BY <2>4, <2>17 DEF ChunkFails, WorkerActive
    <3> QED
      BY <2>17, <3>1, <3>2, FailureTyped DEF ChunkFails
  <2> QED
    BY <1>10, <2>2, <2>3, <2>5, <2>6, <2>7, <2>8, <2>10, <2>12, <2>13, <2>14,
       <2>15, <2>16, <2>17 DEF WorkerStep
<1> QED
  BY <1>1, <1>2, <1>3, <1>4, <1>5, <1>7, <1>8, <1>9, <1>10 DEF Next

\* Every variable keeps its type.
THEOREM TypeCorrect == Spec => []TypeOK
<1>1. Init => TypeOK
  BY IdleTyped DEF Init, TypeOK, AbsentJob, CrawlerJob, JobStatus, Spent
<1> QED
  BY <1>1, TypeInductive, PTL DEF Spec

-----------------------------------------------------------------------------
(***************************************************************************)
(* Data integrity: DurableProgress and CompletedMeansIngested.             *)
(***************************************************************************)

\* Existing jobs go on existing, over the same range.
Keeps(db, new) ==
  \A j \in JobIds : db[j].status # "none" =>
    /\ new[j].status # "none"
    /\ new[j].from = db[j].from /\ new[j].end = db[j].end

\* Moreover, no position moves and only the jobs of S may become completed.
Moves(db, new, S) ==
  /\ Keeps(db, new)
  /\ \A j \in JobIds : new[j].status # "none" =>
       db[j].status # "none" /\ new[j].last = db[j].last
  /\ \A j \in JobIds : new[j].status = "completed" =>
       db[j].status = "completed" \/ j \in S

\* The updates of a status move nothing but the status.
LEMMA UpdatesMove ==
  ASSUME NEW db \in [JobIds -> CrawlerJob], NEW j \in JobIds
  PROVE  /\ Moves(db, ClaimJob(db, j), {})
         /\ Moves(db, RequeueJob(db, j), {})
         /\ Moves(db, RetryJob(db, j), {})
         /\ Moves(db, ResetStalledJobs(db), {})
         /\ Moves(db, CompleteJob(db, j), {j})
         /\ Moves(db, db, {})
<1> USE DEF Moves, Keeps, CrawlerJob
<1>1. Moves(db, ClaimJob(db, j), {})
  BY DEF ClaimJob
<1>2. Moves(db, RequeueJob(db, j), {})
  BY DEF RequeueJob
<1>3. Moves(db, RetryJob(db, j), {})
  BY DEF RetryJob
<1>4. Moves(db, ResetStalledJobs(db), {})
  BY DEF ResetStalledJobs
<1>5. Moves(db, CompleteJob(db, j), {j})
  BY DEF CompleteJob
<1>6. Moves(db, db, {})
  OBVIOUS
<1> QED
  BY <1>1, <1>2, <1>3, <1>4, <1>5, <1>6

\* What is covered stays covered while jobs keep their range and the tables
\* only grow.
LEMMA CoveredStable ==
  ASSUME Keeps(jobs, jobs'), ingested \subseteq ingested',
         NEW j \in JobIds, Exists(j)
  PROVE  /\ Exists(j)' /\ jobs'[j].from = jobs[j].from /\ jobs'[j].end = jobs[j].end
         /\ \A p \in Nat : Covered(j, p) => jobs'[j].from + 1 .. p \subseteq ingested'
BY DEF Keeps, Exists, Covered

\* So a step that leaves the queue, the worker or the reports alone leaves
\* alone what the invariant says of them.
LEMMA QueueStable ==
  ASSUME TypeOK, QueueCovered, Keeps(jobs, jobs'), ingested \subseteq ingested',
         orch'.queue \subseteq orch.queue, orch'.pc = "finish" => orch.pc = "finish"
  PROVE  QueueCovered'
<1> SUFFICES ASSUME NEW s \in orch'.queue
             PROVE  /\ Exists(s.id)'
                    /\ s.from = jobs'[s.id].from /\ s.end = jobs'[s.id].end
                    /\ Covered(s.id, s.last)'
                    /\ orch'.pc = "finish" => Covered(s.id, s.end)'
  BY DEF QueueCovered
<1>1. s \in orch.queue /\ s.id \in JobIds /\ s.last \in Nat /\ s.end \in Nat
  BY DEF TypeOK, Orchestrator, JobSnapshot
<1> QED
  BY <1>1, CoveredStable DEF QueueCovered, Covered

LEMMA WorkerStable ==
  ASSUME TypeOK, WorkerCovered, Keeps(jobs, jobs'), ingested \subseteq ingested',
         worker' = worker, Cancelled => Cancelled'
  PROVE  WorkerCovered'
<1> SUFFICES ASSUME WorkerActive PROVE WorkerCovered'
  BY DEF WorkerCovered, WorkerActive
<1>1. /\ worker.id \in JobIds /\ Exists(worker.id)
      /\ worker.pos \in Nat /\ worker.end \in Nat /\ Reached \in Nat
  BY DEF TypeOK, WorkerOK, Worker, WorkerCovered, Reached
<1>2. /\ ChunkEnd' = ChunkEnd /\ Reached' = Reached
  BY DEF ChunkEnd, Reached
<1> QED
  BY <1>1, <1>2, CoveredStable DEF WorkerCovered, WorkerActive, Covered

LEMMA ReportsStable ==
  ASSUME TypeOK, ReportsCovered, Keeps(jobs, jobs'), ingested \subseteq ingested',
         Cancelled => Cancelled',
         \A i \in DOMAIN reportCh' :
           \E k \in DOMAIN reportCh : reportCh'[i] = reportCh[k]
  PROVE  ReportsCovered'
<1> SUFFICES ASSUME NEW i \in DOMAIN reportCh', NEW r, r = reportCh'[i]
             PROVE  /\ Exists(r.id)'
                    /\ r.type = "batch" => Covered(r.id, r.position)'
                    /\ r.type = "done" /\ ~Cancelled' =>
                         Covered(r.id, jobs[r.id].end)'
  BY DEF ReportsCovered
<1>1. PICK k \in DOMAIN reportCh : r = reportCh[k]
  OBVIOUS
<1>2. r \in JobReport
  BY <1>1 DEF TypeOK
<1>3. r.id \in JobIds /\ r.position \in Nat /\ jobs[r.id].end \in Nat
  BY <1>2 DEF TypeOK, JobReport, CrawlerJob
<1>4. /\ Exists(r.id)
      /\ r.type = "batch" => Covered(r.id, r.position)
      /\ r.type = "done" /\ ~Cancelled => Covered(r.id, jobs[r.id].end)
  BY <1>1 DEF ReportsCovered
<1> QED
  BY <1>3, <1>4, CoveredStable DEF Covered

\* A step that moves no position keeps DurableProgress, and
\* CompletedMeansIngested too if what it completes is covered.
LEMMA JobsStable ==
  ASSUME TypeOK, DurableProgress, CompletedMeansIngested, ingested \subseteq ingested',
         NEW S, Moves(jobs, jobs', S),
         \A j \in JobIds \cap S : Exists(j) => Covered(j, jobs[j].end)
  PROVE  DurableProgress' /\ CompletedMeansIngested'
<1>1. \A j \in JobIds : jobs[j].last \in Nat /\ jobs[j].end \in Nat
  BY DEF TypeOK, CrawlerJob
<1>2. Keeps(jobs, jobs')
  BY DEF Moves
<1>3. DurableProgress'
  BY <1>1, <1>2, CoveredStable DEF DurableProgress, Moves, Exists, Covered
<1>4. CompletedMeansIngested'
  <2> SUFFICES ASSUME NEW j \in JobIds, jobs'[j].status = "completed"
               PROVE  Covered(j, jobs[j].end)'
    BY DEF CompletedMeansIngested
  <2>1. Exists(j) /\ (jobs[j].status = "completed" \/ j \in S)
    BY DEF Moves, Exists
  <2>2. Covered(j, jobs[j].end)
    BY <2>1 DEF CompletedMeansIngested
  <2> QED
    BY <1>1, <1>2, <2>1, <2>2, CoveredStable DEF Covered
<1> QED
  BY <1>3, <1>4

\* A call that may not be applied moves no more than its update.
LEMMA EffectMoves ==
  ASSUME TypeOK, NEW S, NEW updated, Moves(jobs, updated, S),
         NEW result, Effect(result, updated)
  PROVE  Moves(jobs, jobs', S)
<1>1. CASE result = "failed"
  BY <1>1 DEF Effect, Moves, Keeps
<1>2. CASE result # "failed"
  BY <1>2 DEF Effect
<1> QED
  BY <1>1, <1>2

\* A stretch of checkpoints that is ingested includes the shorter ones.
LEMMA CoveredShorter ==
  ASSUME NEW j \in JobIds, NEW p \in Int, NEW q \in Int, jobs[j].from \in Nat,
         q <= p \/ q <= jobs[j].from, q <= jobs[j].from \/ Covered(j, p)
  PROVE  Covered(j, q)
BY DEF Covered

\* The steps that touch nothing but the jobs' status, and those that touch
\* neither the jobs nor the tables, keep the data invariant when they keep its
\* parts about the goroutines.
LEMMA StatusStep ==
  ASSUME TypeOK, DataInv, NEW S, Moves(jobs, jobs', S),
         \A j \in JobIds \cap S : Exists(j) => Covered(j, jobs[j].end),
         ingested' = ingested, worker' = worker, reportCh' = reportCh,
         process' = process, QueueCovered'
  PROVE  DataInv'
<1>1. Keeps(jobs, jobs')
  BY DEF Moves
<1>2. DurableProgress' /\ CompletedMeansIngested'
  BY JobsStable DEF DataInv
<1>3. WorkerCovered'
  BY <1>1, WorkerStable DEF DataInv, Cancelled
<1>4. ReportsCovered'
  BY <1>1, ReportsStable DEF DataInv, Cancelled
<1> QED
  BY <1>2, <1>3, <1>4 DEF DataInv

\* The same for the steps of the worker.
LEMMA WorkerOnlyStep ==
  ASSUME TypeOK, DataInv, jobs' = jobs, ingested \subseteq ingested',
         orch'.queue \subseteq orch.queue, orch'.pc = "finish" => orch.pc = "finish",
         WorkerCovered', ReportsCovered'
  PROVE  DataInv'
<1>1. Moves(jobs, jobs', {}) /\ Keeps(jobs, jobs')
  BY DEF Moves, Keeps
<1>2. DurableProgress' /\ CompletedMeansIngested'
  BY <1>1, JobsStable DEF DataInv
<1>3. QueueCovered'
  BY <1>1, QueueStable DEF DataInv
<1> QED
  BY <1>2, <1>3 DEF DataInv

\* The API and the process.
LEMMA DataOutside ==
  ASSUME TypeOK, DataInv,
         \/ \E r \in Requests : PostJob(r)
         \/ \E j \in JobIds : PostRetry(j)
         \/ Start \/ Signal \/ Exit \/ Crash
  PROVE  DataInv'
<1> USE DEF TypeOK
<1>1. ASSUME NEW r \in Requests, PostJob(r) PROVE DataInv'
  <2>1. PICK j \in JobIds : /\ jobs[j].status = "none"
                            /\ jobs' = CreateJob(jobs, j, r.from, r.from, r.end)
    BY <1>1 DEF PostJob, InStatus
  <2>2. /\ jobs'[j].status = "pending"
        /\ jobs'[j].from = r.from /\ jobs'[j].last = r.from
        /\ \A k \in JobIds \ {j} : jobs'[k] = jobs[k]
    BY <2>1 DEF CreateJob, AbsentJob, CrawlerJob
  <2>3. Keeps(jobs, jobs')
    BY <2>1, <2>2 DEF Keeps
  <2>4. ingested' = ingested /\ process' = process /\ worker' = worker
        /\ orch' = orch /\ reportCh' = reportCh
    BY <1>1 DEF PostJob
  <2>5. DurableProgress'
    <3> SUFFICES ASSUME NEW k \in JobIds, Exists(k)'
                 PROVE  Covered(k, jobs[k].last)'
      BY DEF DurableProgress
    <3>1. CASE k = j
      BY <3>1, <2>2, RequestsAssumption DEF Covered
    <3>2. CASE k # j
      BY <3>2, <2>2, <2>4 DEF Covered, Exists, DataInv, DurableProgress
    <3> QED
      BY <3>1, <3>2
  <2>6. CompletedMeansIngested'
    BY <2>2, <2>4 DEF Covered, DataInv, CompletedMeansIngested
  <2>7. QueueCovered' /\ WorkerCovered' /\ ReportsCovered'
    BY <2>3, <2>4, QueueStable, WorkerStable, ReportsStable DEF DataInv, Cancelled
  <2> QED
    BY <2>5, <2>6, <2>7 DEF DataInv
<1>2. ASSUME NEW j \in JobIds, PostRetry(j) PROVE DataInv'
  <2>1. Moves(jobs, jobs', {})
    BY <1>2, UpdatesMove DEF PostRetry
  <2>2. QueueCovered'
    BY <1>2, <2>1, QueueStable DEF PostRetry, DataInv, Moves
  <2> QED
    BY <1>2, <2>1, <2>2, StatusStep DEF PostRetry
<1>3. Moves(jobs, jobs, {}) /\ Keeps(jobs, jobs)
  BY DEF Moves, Keeps
<1>4. CASE Start
  <2>1. WorkerCovered'
    BY <1>4 DEF Start, WorkerCovered, WorkerActive, WorkerAt
  <2>2. ReportsCovered'
    BY <1>3, <1>4, ReportsStable DEF Start, DataInv, Cancelled
  <2> QED
    BY <1>4, <2>1, <2>2, WorkerOnlyStep DEF Start, OrchAt
<1>5. CASE Signal
  <2>1. WorkerCovered' /\ ReportsCovered'
    BY <1>3, <1>5, WorkerStable, ReportsStable DEF Signal, DataInv, Cancelled
  <2> QED
    BY <1>5, <2>1, WorkerOnlyStep DEF Signal
<1>6. ASSUME Vanish, jobs' = jobs, ingested' = ingested PROVE DataInv'
  <2>1. WorkerCovered' /\ ReportsCovered'
    BY <1>6 DEF Vanish, WorkerCovered, ReportsCovered, WorkerActive, WorkerAt
  <2> QED
    BY <1>6, <2>1, WorkerOnlyStep DEF Vanish, OrchAt
<1> QED
  BY <1>1, <1>2, <1>4, <1>5, <1>6 DEF Exit, Crash

\* The orchestrator.
LEMMA DataOrchestrator ==
  ASSUME TypeOK, DataInv, OrchestratorStep
  PROVE  DataInv'
<1> USE DEF TypeOK
<1>1. Moves(jobs, jobs, {})
  BY DEF Moves, Keeps
<1>2. CASE OrchestratorStop
  <2>1. QueueCovered'
    BY <1>1, <1>2, QueueStable DEF OrchestratorStop, DataInv, Moves, Orchestrator
  <2> QED
    BY <1>1, <1>2, <2>1, StatusStep DEF OrchestratorStop
<1>3. CASE Poll
  <2>1. orch'.pc = "scan" /\ orch'.queue = FindPendingJobs(jobs)
    BY <1>3 DEF Poll, Orchestrator
  <2>2. ASSUME NEW s \in orch'.queue
        PROVE  s.id \in JobIds /\ jobs[s.id].status = "pending"
               /\ s = Snapshot(jobs, s.id)
    BY <2>1 DEF FindPendingJobs, InStatus, Snapshot
  <2>3. QueueCovered'
    BY <1>3, <2>1, <2>2
    DEF Poll, QueueCovered, Snapshot, Exists, Covered, DataInv, DurableProgress
  <2> QED
    BY <1>1, <1>3, <2>3, StatusStep DEF Poll
<1>4. CASE PollInVain
  BY <1>1, <1>4, StatusStep DEF PollInVain, vars, DataInv, QueueCovered, Exists, Covered
<1>5. ASSUME NEW result \in CallResult, ResetStalled(result) PROVE DataInv'
  <2>1. Moves(jobs, jobs', {})
    <3>1. CASE JobIds = {}
      BY <1>5, <3>1 DEF Moves, Keeps
    <3>2. CASE JobIds # {}
      <4>1. PICK j \in JobIds : TRUE
        BY <3>2
      <4>2. Moves(jobs, ResetStalledJobs(jobs), {})
        BY <4>1, UpdatesMove
      <4> QED
        BY <1>5, <4>2, EffectMoves DEF ResetStalled
    <3> QED
      BY <3>1, <3>2
  <2>2. QueueCovered'
    BY <1>5, <2>1, QueueStable DEF ResetStalled, DataInv, Moves, Orchestrator
  <2> QED
    BY <1>5, <2>1, <2>2, StatusStep DEF ResetStalled
<1>6. ASSUME NEW s \in orch.queue
      PROVE  /\ s.id \in JobIds /\ s.from \in Nat /\ s.last \in Nat /\ s.end \in Nat
             /\ s \in JobSnapshot
             /\ Exists(s.id) /\ Covered(s.id, s.last)
             /\ s.from = jobs[s.id].from /\ s.end = jobs[s.id].end
             /\ orch.pc = "finish" => Covered(s.id, s.end)
  BY DEF Orchestrator, JobSnapshot, DataInv, QueueCovered
<1>7. ASSUME NEW result \in CallResult, NEW s \in orch.queue, Claim(s, result)
      PROVE  DataInv'
  <2>1. Moves(jobs, jobs', {})
    BY <1>6, <1>7, UpdatesMove, EffectMoves DEF Claim
  <2>2. CASE orch' = NextCandidate(s)
    <3>1. QueueCovered'
      BY <1>7, <2>1, <2>2, QueueStable
      DEF Claim, NextCandidate, DataInv, Moves, Orchestrator
    <3> QED
      BY <1>7, <2>1, <3>1, StatusStep DEF Claim
  <2>3. CASE orch' = Claimed(s)
    <3>1. orch'.queue = {s} /\ (orch'.pc = "finish" => StartCheckpoint(s) > s.end)
      BY <2>3 DEF Claimed, Orchestrator
    <3>2. StartCheckpoint(s) > s.end => Covered(s.id, s.end)
      BY <1>6, CoveredShorter DEF StartCheckpoint
    <3>3. Keeps(jobs, jobs') /\ ingested' = ingested
      BY <1>7, <2>1 DEF Claim, Moves
    <3>4. /\ Exists(s.id)' /\ jobs'[s.id].from = s.from /\ jobs'[s.id].end = s.end
          /\ Covered(s.id, s.last)'
          /\ Covered(s.id, s.end) => Covered(s.id, s.end)'
      BY <1>6, <3>3, CoveredStable DEF Covered
    <3>5. QueueCovered'
      BY <3>1, <3>2, <3>4 DEF QueueCovered
    <3> QED
      BY <1>7, <2>1, <3>5, StatusStep DEF Claim
  <2> QED
    BY <1>7, <2>2, <2>3 DEF Claim
<1>8. ASSUME NEW result \in CallResult, NEW s \in orch.queue,
             FinishClaimed(s, result)
      PROVE  DataInv'
  <2>1. Moves(jobs, jobs', {s.id})
    BY <1>6, <1>8, UpdatesMove, EffectMoves DEF FinishClaimed
  <2>2. Covered(s.id, jobs[s.id].end)
    BY <1>6, <1>8 DEF FinishClaimed
  <2>3. QueueCovered'
    BY <1>8 DEF FinishClaimed, OrchAt, QueueCovered
  <2> QED
    BY <1>8, <2>1, <2>2, <2>3, StatusStep DEF FinishClaimed
<1>9. ASSUME NEW result \in CallResult, HandleReport(result) PROVE DataInv'
  <2> DEFINE r == Head(reportCh)
  <2>1. /\ r \in JobReport /\ r = reportCh[1] /\ 1 \in DOMAIN reportCh
        /\ reportCh' = Tail(reportCh)
        /\ \A i \in DOMAIN reportCh' :
             \E k \in DOMAIN reportCh : reportCh'[i] = reportCh[k]
    <3>1. reportCh # <<>> /\ reportCh' = Tail(reportCh)
      BY <1>9 DEF HandleReport
    <3>2. \A i \in DOMAIN Tail(reportCh) :
            i + 1 \in DOMAIN reportCh /\ Tail(reportCh)[i] = reportCh[i + 1]
      BY <3>1
    <3> QED
      BY <3>1, <3>2
  <2>2. /\ r.id \in JobIds /\ r.position \in Nat
        /\ r.type \in {"batch", "done", "failed"} /\ Exists(r.id)
        /\ r.type = "batch" => Covered(r.id, r.position)
        /\ r.type = "done" /\ ~Cancelled => Covered(r.id, jobs[r.id].end)
    BY <2>1 DEF JobReport, DataInv, ReportsCovered
  <2>3. /\ Effect(result, Applied(r)) /\ orch'.queue = orch.queue
        /\ orch'.pc = orch.pc /\ ingested' = ingested /\ process' = process
        /\ worker' = worker
    BY <1>9 DEF HandleReport, Orchestrator
  <2> HIDE DEF r
  <2>4. ASSUME Keeps(jobs, jobs'), DurableProgress', CompletedMeansIngested'
        PROVE  DataInv'
    BY <2>1, <2>3, <2>4, QueueStable, WorkerStable, ReportsStable
    DEF DataInv, Cancelled
  <2>5. ASSUME NEW S, Moves(jobs, Applied(r), S),
               \A j \in JobIds \cap S : Exists(j) => Covered(j, jobs[j].end)
        PROVE  DataInv'
    <3>1. Moves(jobs, jobs', S)
      BY <2>3, <2>5, EffectMoves
    <3>2. DurableProgress' /\ CompletedMeansIngested'
      BY <2>3, <2>5, <3>1, JobsStable DEF DataInv
    <3> QED
      BY <2>4, <3>1, <3>2 DEF Moves
  <2>6. CASE jobs' = jobs
    <3>1. Moves(jobs, jobs', {})
      BY <1>1, <2>6
    <3>2. DurableProgress' /\ CompletedMeansIngested'
      BY <2>3, <3>1, JobsStable DEF DataInv
    <3> QED
      BY <2>4, <3>1, <3>2 DEF Moves
  <2>7. CASE r.type = "batch"
    <3>1. Applied(r) = UpdateProgress(jobs, r.id, r.position)
      BY <2>7 DEF Applied
    <3>2. \A j \in JobIds :
            /\ Applied(r)[j].status = jobs[j].status
            /\ Applied(r)[j].from = jobs[j].from /\ Applied(r)[j].end = jobs[j].end
            /\ \/ Applied(r)[j].last = jobs[j].last
               \/ j = r.id /\ Applied(r)[j].last = r.position
      BY <2>2, <3>1 DEF UpdateProgress, CrawlerJob
    <3>3. CASE jobs' = Applied(r)
      <4>1. Keeps(jobs, jobs')
        BY <3>2, <3>3 DEF Keeps
      <4>2. DurableProgress'
        <5> SUFFICES ASSUME NEW j \in JobIds, Exists(j)'
                     PROVE  Covered(j, jobs[j].last)'
          BY DEF DurableProgress
        <5>1. Exists(j) /\ Covered(j, jobs[j].last)
          BY <3>2, <3>3 DEF DataInv, DurableProgress, Exists
        <5>2. CASE jobs'[j].last = jobs[j].last
          BY <2>3, <3>2, <3>3, <5>1, <5>2 DEF Covered
        <5>3. CASE j = r.id /\ jobs'[j].last = r.position
          BY <2>2, <2>3, <2>7, <3>2, <3>3, <5>3 DEF Covered
        <5> QED
          BY <3>2, <3>3, <5>2, <5>3
      <4>3. CompletedMeansIngested'
        BY <2>3, <3>2, <3>3 DEF DataInv, CompletedMeansIngested, Covered
      <4> QED
        BY <2>4, <4>1, <4>2, <4>3
    <3> QED
      BY <2>3, <2>6, <3>3 DEF Effect
  <2>8. CASE r.type = "done"
    <3>1. CASE Cancelled
      <4>1. result = "failed"
        BY <1>9, <3>1 DEF HandleReport, Call
      <4> QED
        BY <2>3, <2>6, <4>1 DEF Effect
    <3>2. CASE ~Cancelled
      <4>1. Moves(jobs, Applied(r), {r.id})
        BY <2>2, <2>8, UpdatesMove DEF Applied
      <4> QED
        BY <2>2, <2>5, <2>8, <3>2, <4>1
    <3> QED
      BY <3>1, <3>2
  <2>9. CASE r.type = "failed"
    <3>1. Moves(jobs, Applied(r), {})
      BY <2>2, <2>9, UpdatesMove DEF Applied
    <3> QED
      BY <2>5, <3>1
  <2> QED
    BY <2>2, <2>7, <2>8, <2>9
<1> QED
  BY <1>2, <1>3, <1>4, <1>5, <1>7, <1>8, <1>9 DEF OrchestratorStep

\* The worker.
LEMMA DataWorker ==
  ASSUME TypeOK, DataInv, WorkerStep
  PROVE  DataInv'
<1>1. /\ worker \in Worker /\ worker.next \in Nat /\ worker.end \in Nat
      /\ worker.pos \in Nat /\ worker.to \in Nat
      /\ orch \in Orchestrator /\ reportCh \in Seq(JobReport)
      /\ WorkerActive => worker.id \in JobIds /\ worker.next > 0
  BY DEF TypeOK, WorkerOK, Worker
<1>2. WorkerActive => /\ Exists(worker.id) /\ worker.end = jobs[worker.id].end
                      /\ jobs[worker.id].from \in Nat
  BY <1>1 DEF DataInv, WorkerCovered, TypeOK, CrawlerJob
<1>3. Keeps(jobs, jobs)
  BY DEF Keeps
\* While the reports and the queue stay, only WorkerCovered' is left to show.
<1>4. ASSUME jobs' = jobs, ingested \subseteq ingested', process' = process,
             orch' = orch, reportCh' = reportCh, WorkerCovered'
      PROVE  DataInv'
  <2>1. ReportsCovered'
    BY <1>3, <1>4, ReportsStable DEF DataInv, Cancelled
  <2> QED
    BY <1>4, <2>1, WorkerOnlyStep
\* A run that ends as failed claims nothing.
<1>5. ASSUME WorkerActive, EndRun("failed"), jobs' = jobs,
             ingested \subseteq ingested'
      PROVE  WorkerCovered'
  BY <1>1, <1>2, <1>5 DEF EndRun, WorkerCovered, WorkerActive, Worker, Exists
<1>6. CASE WorkerStop
  BY <1>4, <1>6 DEF WorkerStop, WorkerCovered, WorkerActive, WorkerAt
<1>7. CASE Setup
  <2>1. WorkerCovered'
    BY <1>1, <1>7
    DEF Setup, DataInv, WorkerCovered, WorkerActive, Worker, Exists, Covered,
        Reached, Cancelled
  <2> QED
    BY <1>4, <1>7, <2>1 DEF Setup
<1>8. CASE SetupFails
  <2>1. WorkerCovered'
    BY <1>5, <1>8 DEF SetupFails, WorkerActive
  <2> QED
    BY <1>4, <1>8, <2>1 DEF SetupFails
<1>9. CASE ChunkCancelled
  <2>1. WorkerCovered'
    BY <1>5, <1>9 DEF ChunkCancelled, WorkerActive
  <2> QED
    BY <1>4, <1>9, <2>1 DEF ChunkCancelled
<1>10. CASE StartChunk
  <2>1. /\ Covered(worker.id, worker.next - 1) /\ WorkerActive
        /\ worker.next - 1 <= ChunkEnd /\ worker.next - 1 \in Nat /\ ChunkEnd \in Nat
    BY <1>1, <1>10, ChunkEndTyped
    DEF StartChunk, DataInv, WorkerCovered, WorkerActive, Reached
  <2>2. WorkerCovered'
    BY <1>1, <1>2, <1>10, <2>1
    DEF StartChunk, WorkerCovered, WorkerActive, Worker, Exists, Covered, ChunkEnd
  <2> QED
    BY <1>4, <1>10, <2>2 DEF StartChunk
<1>11. CASE AllChunksDone
  <2>1. ~Cancelled => Covered(worker.id, worker.end)
    BY <1>11 DEF AllChunksDone, DataInv, WorkerCovered, WorkerActive, Reached
  <2>2. WorkerCovered'
    BY <1>1, <1>2, <1>11, <2>1
    DEF AllChunksDone, EndRun, WorkerCovered, WorkerActive, Worker, Exists,
        Covered, Cancelled
  <2> QED
    BY <1>4, <1>11, <2>2 DEF AllChunksDone
<1>12. ASSUME worker.pc \in {"stream", "report"}
       PROVE  /\ Covered(worker.id, worker.pos) /\ worker.pos <= worker.to
              /\ worker.to = ChunkEnd /\ WorkerActive
  BY <1>12 DEF DataInv, WorkerCovered, WorkerActive
<1>13. ASSUME worker.pc = "stream", worker' = NextChunk, jobs' = jobs,
              ingested' = ingested, process' = process,
              worker.pos = worker.to \/ Cancelled
       PROVE  WorkerCovered'
  <2>1. ~Cancelled => Reached' = worker.pos
    BY <1>1, <1>12, <1>13, CapacityAssumption
    DEF Reached, NextChunk, ChunkEnd, Worker
  <2> QED
    BY <1>1, <1>2, <1>12, <1>13, <2>1
    DEF NextChunk, WorkerCovered, WorkerActive, Worker, Exists, Covered, Cancelled
<1>14. CASE ChunkDone
  BY <1>4, <1>13, <1>14 DEF ChunkDone
<1>15. CASE ChunkAbandoned
  BY <1>4, <1>13, <1>15 DEF ChunkAbandoned
<1>16. ASSUME NEW q \in Checkpoints, Flush(q) PROVE DataInv'
  <2>1. /\ q \in Int /\ worker.pos < q /\ q <= worker.to
        /\ jobs[worker.id].from + 1 .. q \subseteq ingested'
    BY <1>1, <1>2, <1>12, <1>16 DEF Flush, Covered
  <2>2. WorkerCovered'
    BY <1>1, <1>2, <1>12, <1>16, <2>1
    DEF Flush, WorkerCovered, WorkerActive, Worker, Exists, Covered, ChunkEnd
  <2> QED
    BY <1>4, <1>16, <2>2 DEF Flush
<1>17. ASSUME NEW S \in SUBSET Checkpoints, ChunkFails(S) PROVE DataInv'
  <2>1. WorkerCovered'
    BY <1>5, <1>17 DEF ChunkFails, WorkerActive
  <2> QED
    BY <1>4, <1>17, <2>1 DEF ChunkFails
\* Sending appends a report whose claim the worker already holds.
<1>18. ASSUME WorkerActive, NEW type, NEW position, Send(type, position),
              jobs' = jobs, ingested' = ingested, process' = process,
              type = "batch" => Covered(worker.id, position),
              type = "done" /\ ~Cancelled => Covered(worker.id, worker.end)
       PROVE  ReportsCovered'
  <2> DEFINE r == [id |-> worker.id, type |-> type, position |-> position]
  <2>1. reportCh' = Append(reportCh, r)
    BY <1>18 DEF Send
  <2>2. \A i \in DOMAIN reportCh' :
          reportCh'[i] = r \/ (i \in DOMAIN reportCh /\ reportCh'[i] = reportCh[i])
    BY <1>1, <2>1
  <2>3. r.id = worker.id /\ r.type = type /\ r.position = position
    OBVIOUS
  <2> HIDE DEF r
  <2>4. ReportsCovered
    BY DEF DataInv
  <2> QED
    BY <1>2, <1>18, <2>2, <2>3, <2>4 DEF ReportsCovered, Exists, Covered, Cancelled
<1>19. CASE ReportProgress
  <2>1. WorkerCovered'
    BY <1>1, <1>2, <1>12, <1>19
    DEF ReportProgress, WorkerCovered, WorkerActive, Worker, Exists, Covered, ChunkEnd
  <2>2. ReportsCovered'
    BY <1>12, <1>18, <1>19 DEF ReportProgress
  <2> QED
    BY <1>19, <2>1, <2>2, WorkerOnlyStep DEF ReportProgress
<1>20. CASE ReportEnd
  <2>1. WorkerCovered'
    BY <1>20 DEF ReportEnd, WorkerCovered, WorkerActive, WorkerAt
  <2>2. /\ worker.outcome # "batch" /\ WorkerActive
        /\ worker.outcome = "done" /\ ~Cancelled => Covered(worker.id, worker.end)
    BY <1>1, <1>20
    DEF ReportEnd, DataInv, WorkerCovered, WorkerActive, Worker, Outcome
  <2>3. ReportsCovered'
    BY <1>18, <1>20, <2>2 DEF ReportEnd
  <2> QED
    BY <1>20, <2>1, <2>3, WorkerOnlyStep DEF ReportEnd
<1>21. ASSUME NEW s \in orch.queue, Assign(s) PROVE DataInv'
  <2>1. /\ s.id \in JobIds /\ s \in JobSnapshot /\ s.last \in Nat /\ s.end \in Nat
        /\ s.from \in Nat /\ Exists(s.id) /\ s.from = jobs[s.id].from
        /\ s.end = jobs[s.id].end /\ Covered(s.id, s.last)
    BY <1>1 DEF Orchestrator, JobSnapshot, DataInv, QueueCovered
  <2>2. /\ worker'.pc = "setup" /\ worker'.id = s.id /\ worker'.end = s.end
        /\ worker'.next = StartCheckpoint(s)
    BY <1>21 DEF Assign, WorkerAt
  <2>3. Covered(s.id, Reached')
    BY <2>1, <2>2, CoveredShorter DEF Reached, StartCheckpoint
  <2>4. WorkerCovered'
    BY <1>21, <2>1, <2>2, <2>3 DEF Assign, WorkerCovered, Exists, Covered
  <2>5. ReportsCovered'
    BY <1>3, <1>21, ReportsStable DEF Assign, DataInv, Cancelled
  <2> QED
    BY <1>1, <1>21, <2>4, <2>5, WorkerOnlyStep DEF Assign, Orchestrator
<1> QED
  BY <1>6, <1>7, <1>8, <1>9, <1>10, <1>11, <1>14, <1>15, <1>16, <1>17, <1>19,
     <1>20, <1>21 DEF WorkerStep

\* Every step keeps the data invariant.
LEMMA DataInductive == TypeOK /\ DataInv /\ [Next]_vars => DataInv'
<1> SUFFICES ASSUME TypeOK, DataInv, [Next]_vars PROVE DataInv'
  OBVIOUS
<1>1. CASE UNCHANGED vars
  <2>1. Moves(jobs, jobs', {})
    BY <1>1 DEF Moves, Keeps, vars
  <2>2. QueueCovered'
    BY <1>1, <2>1, QueueStable DEF Moves, vars, DataInv
  <2> QED
    BY <1>1, <2>1, <2>2, StatusStep DEF vars
<1>2. CASE Next
  BY <1>2, DataOutside, DataOrchestrator, DataWorker DEF Next
<1> QED
  BY <1>1, <1>2

\* The data invariant holds throughout: every position kept anywhere in the
\* system (a document, a snapshot, the worker, a report) is backed by rows.
THEOREM DataIntegrity == Spec => []DataInv
<1>1. Init => DataInv
  BY DEF Init, DataInv, DurableProgress, CompletedMeansIngested, QueueCovered,
         WorkerCovered, ReportsCovered, Exists, AbsentJob, OrchAt, WorkerAt,
         WorkerActive
<1> QED
  BY <1>1, DataInductive, TypeCorrect, PTL DEF Spec

\* last_checkpoint of a job never runs ahead of the tables.
THEOREM ProgressIsDurable == Spec => []DurableProgress
<1>1. DataInv => DurableProgress
  BY DEF DataInv
<1> QED
  BY <1>1, DataIntegrity, PTL

\* A completed job is ingested to its end.
THEOREM CompletionIsSound == Spec => []CompletedMeansIngested
<1>1. DataInv => CompletedMeansIngested
  BY DEF DataInv
<1> QED
  BY <1>1, DataIntegrity, PTL

-----------------------------------------------------------------------------
(***************************************************************************)
(* Documents: status, error and completed_at.                              *)
(***************************************************************************)
Consistent(db) ==
  \A j \in JobIds :
    /\ db[j].completedAt <=> db[j].status = "completed"
    /\ db[j].error => db[j].status = "pending"

\* Each update keeps documents consistent by itself, whatever the order.
LEMMA UpdatesConsistent ==
  ASSUME NEW db \in [JobIds -> CrawlerJob], NEW j \in JobIds, Consistent(db)
  PROVE  /\ Consistent(ClaimJob(db, j))
         /\ Consistent(CompleteJob(db, j))
         /\ Consistent(RequeueJob(db, j))
         /\ Consistent(RetryJob(db, j))
         /\ \A p \in Nat : Consistent(UpdateProgress(db, j, p))
         /\ \A r \in Requests :
              Consistent(CreateJob(db, j, r.from, r.from, r.end))
<1> USE DEF Consistent, CrawlerJob
<1>1. Consistent(ClaimJob(db, j))
  BY DEF ClaimJob
<1>2. Consistent(CompleteJob(db, j))
  BY DEF CompleteJob
<1>3. Consistent(RequeueJob(db, j))
  BY DEF RequeueJob
<1>4. Consistent(RetryJob(db, j))
  BY DEF RetryJob
<1>5. ASSUME NEW p \in Nat PROVE Consistent(UpdateProgress(db, j, p))
  BY <1>5 DEF UpdateProgress
<1>6. ASSUME NEW r \in Requests
      PROVE  Consistent(CreateJob(db, j, r.from, r.from, r.end))
  BY <1>6 DEF CreateJob, AbsentJob
<1> QED
  BY <1>1, <1>2, <1>3, <1>4, <1>5, <1>6

\* Only the API, the start of the orchestrator, its claims and its reports
\* write documents, each through one of the updates.
LEMMA ConsistentStep ==
  ASSUME TypeOK, Consistent(jobs), [Next]_vars
  PROVE  Consistent(jobs')
<1> USE DEF TypeOK
<1>1. CASE jobs' = jobs
  BY <1>1
<1>2. ASSUME NEW r \in Requests, PostJob(r) PROVE Consistent(jobs')
  BY <1>2, UpdatesConsistent DEF PostJob, InStatus
<1>3. ASSUME NEW j \in JobIds, PostRetry(j) PROVE Consistent(jobs')
  BY <1>3, UpdatesConsistent DEF PostRetry
<1>4. ASSUME NEW result \in CallResult, ResetStalled(result) PROVE Consistent(jobs')
  <2>1. Consistent(ResetStalledJobs(jobs))
    BY DEF Consistent, ResetStalledJobs, CrawlerJob
  <2> QED
    BY <1>1, <1>4, <2>1 DEF ResetStalled, Effect
<1>5. ASSUME NEW result \in CallResult, HandleReport(result) PROVE Consistent(jobs')
  <2>1. Head(reportCh) \in JobReport
    BY <1>5 DEF HandleReport
  <2>2. Consistent(Applied(Head(reportCh)))
    BY <2>1, UpdatesConsistent DEF Applied, JobReport
  <2> QED
    BY <1>1, <1>5, <2>2 DEF HandleReport, Effect
<1>6. ASSUME NEW result \in CallResult, NEW s \in orch.queue,
             Claim(s, result) \/ FinishClaimed(s, result)
      PROVE  Consistent(jobs')
  <2>1. s.id \in JobIds
    BY DEF Orchestrator, JobSnapshot
  <2> QED
    BY <1>1, <1>6, <2>1, UpdatesConsistent DEF Claim, FinishClaimed, Effect
<1>7. ASSUME WorkerStep PROVE jobs' = jobs
  BY <1>7
  DEF WorkerStep, WorkerStop, Setup, SetupFails, StartChunk, ChunkCancelled,
      AllChunksDone, ReportProgress, ChunkDone, ChunkAbandoned, ReportEnd, Assign,
      Flush, ChunkFails
<1>8. ASSUME Start \/ Signal \/ Exit \/ Crash \/ OrchestratorStop \/ Poll
               \/ PollInVain \/ UNCHANGED vars
      PROVE  jobs' = jobs
  BY <1>8 DEF Start, Signal, Exit, Crash, OrchestratorStop, Poll, PollInVain, vars
<1> QED
  BY <1>1, <1>2, <1>3, <1>4, <1>5, <1>6, <1>7, <1>8 DEF Next, OrchestratorStep

\* The fields of a document agree over every path it can take.
THEOREM DocumentsAgree == Spec => []DocumentsConsistent
<1>1. DocumentsConsistent <=> Consistent(jobs)
  BY DEF DocumentsConsistent, Consistent
<1>2. Init => Consistent(jobs)
  BY DEF Init, Consistent, AbsentJob
<1>3. TypeOK /\ Consistent(jobs) /\ [Next]_vars => Consistent(jobs)'
  BY ConsistentStep
<1> QED
  BY <1>1, <1>2, <1>3, TypeCorrect, PTL DEF Spec

=============================================================================
