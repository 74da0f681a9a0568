--------------------------- MODULE DispatchProofs ---------------------------
(***************************************************************************)
(* Theorems about how Crawler hands a job from MongoDB to the worker and   *)
(* its reports back: one run at a time, from a current snapshot, and no    *)
(* job stranded but by a lost call; the positions of a job only advance,   *)
(* no flush goes unaccounted, and the crawler implements JobContract.      *)
(***************************************************************************)
EXTENDS CrawlerProofs, FiniteSetTheorems

-----------------------------------------------------------------------------
(***************************************************************************)
(* The inductive invariant.                                                *)
(***************************************************************************)

\* Where the orchestrator is says whether it waits for a run and what its
\* queue holds; without a process there is neither a run nor a report.
PhaseOK ==
  /\ process = "down" => orch.pc = "off" /\ ~WorkerActive
  /\ orch.pc \in {"off", "start", "scan", "finish"} => ~orch.busy
  /\ orch.pc = "send" => orch.busy
  /\ orch.queue # {} => orch.pc \in {"scan", "finish", "send"}
  /\ orch.pc \in {"finish", "send"} => \A s, t \in orch.queue : s = t
  /\ orch.pc = "send" => \A s \in orch.queue : StartCheckpoint(s) <= s.end

\* OneRunAtATime, with the last word of a run as the last report.
RunOK ==
  /\ WorkerActive =>
       /\ orch.busy /\ orch.pc # "send"
       /\ \A i \in DOMAIN reportCh :
            reportCh[i].type = "batch" /\ reportCh[i].id = worker.id
  /\ ~orch.busy \/ orch.pc = "send" => reportCh = <<>>
  /\ \A i \in DOMAIN reportCh : reportCh[i].type # "batch" => i = Len(reportCh)
  /\ \A i, k \in DOMAIN reportCh : reportCh[i].id = reportCh[k].id
  /\ orch.busy /\ orch.pc = "loop" =>
       \/ WorkerActive
       \/ reportCh # <<>> /\ reportCh[Len(reportCh)].type # "batch"

DispatchInv == PhaseOK /\ RunOK /\ SnapshotIsCurrent

\* RunOK is OneRunAtATime.
LEMMA RunOKMeansOneRun ==
  ASSUME TypeOK, RunOK
  PROVE  OneRunAtATime
<1> DEFINE ended == {i \in DOMAIN reportCh : reportCh[i].type # "batch"}
<1>1. reportCh # <<>> => Len(reportCh) \in DOMAIN reportCh
  BY DEF TypeOK
<1>2. WorkerActive => orch.busy /\ orch.pc # "send" /\ ended = {}
  BY DEF RunOK
<1>3. ended \subseteq {Len(reportCh)}
  BY DEF RunOK
<1>4. orch.busy /\ orch.pc = "loop" => WorkerActive \/ ended # {}
  BY <1>1 DEF RunOK
<1> QED
  BY <1>2, <1>3, <1>4 DEF OneRunAtATime, RunOK

\* The channel after a receive and after a send.
LEMMA Received ==
  ASSUME TypeOK, reportCh # <<>>, reportCh' = Tail(reportCh)
  PROVE  /\ Len(reportCh) \in Nat /\ Len(reportCh) >= 1
         /\ Head(reportCh) = reportCh[1] /\ reportCh[1] \in JobReport
         /\ DOMAIN reportCh = 1 .. Len(reportCh)
         /\ Len(reportCh') = Len(reportCh) - 1
         /\ DOMAIN reportCh' = 1 .. Len(reportCh) - 1
         /\ \A i \in DOMAIN reportCh' : reportCh'[i] = reportCh[i + 1]
BY DEF TypeOK

LEMMA Sent ==
  ASSUME TypeOK, NEW type, NEW position, Send(type, position)
  PROVE  /\ Len(reportCh) \in Nat
         /\ DOMAIN reportCh = 1 .. Len(reportCh)
         /\ Len(reportCh') = Len(reportCh) + 1
         /\ DOMAIN reportCh' = 1 .. Len(reportCh) + 1
         /\ \A i \in DOMAIN reportCh :
              i \in DOMAIN reportCh' /\ reportCh'[i] = reportCh[i]
         /\ reportCh'[Len(reportCh) + 1] =
              [id |-> worker.id, type |-> type, position |-> position]
         /\ reportCh' # <<>> /\ Len(reportCh') \in DOMAIN reportCh'
         /\ \A i \in DOMAIN reportCh' :
              i \in DOMAIN reportCh \/ i = Len(reportCh')
         /\ \A i, k \in DOMAIN reportCh' :
              k < i => k \in DOMAIN reportCh /\ reportCh'[k] = reportCh[k]
         /\ reportCh'[Len(reportCh')].id = worker.id
         /\ reportCh'[Len(reportCh')].type = type
         /\ reportCh'[Len(reportCh')].position = position
BY DEF TypeOK, Send

\* The snapshots in the queue stay current while their jobs keep range and
\* position.
LEMMA SnapshotKept ==
  ASSUME TypeOK, DataInv, SnapshotIsCurrent, NEW S, Moves(jobs, jobs', S),
         orch'.queue \subseteq orch.queue
  PROVE  SnapshotIsCurrent'
<1> SUFFICES ASSUME NEW s \in orch'.queue PROVE s = Snapshot(jobs', s.id)
  BY DEF SnapshotIsCurrent
<1>1. s \in orch.queue /\ s.id \in JobIds /\ Exists(s.id) /\ s = Snapshot(jobs, s.id)
  BY DEF TypeOK, Orchestrator, JobSnapshot, DataInv, QueueCovered, SnapshotIsCurrent
<1>2. /\ jobs'[s.id].from = jobs[s.id].from /\ jobs'[s.id].end = jobs[s.id].end
      /\ jobs'[s.id].last = jobs[s.id].last
  BY <1>1 DEF Moves, Keeps, Exists
<1> QED
  BY <1>1, <1>2 DEF Snapshot

\* A step that leaves orchestrator and channel alone, and the worker in the
\* same run or out of one, keeps the invariant.
LEMMA DispatchStable ==
  ASSUME DispatchInv, SnapshotIsCurrent', orch' = orch, reportCh' = reportCh,
         WorkerActive' = WorkerActive, WorkerActive => worker'.id = worker.id,
         process' = "down" => process = "down"
  PROVE  DispatchInv'
<1>1. PhaseOK'
  BY DEF DispatchInv, PhaseOK, StartCheckpoint
<1>2. RunOK'
  BY DEF DispatchInv, RunOK
<1> QED
  BY <1>1, <1>2 DEF DispatchInv

\* A step that also keeps the documents as they are.
LEMMA DispatchWorker ==
  ASSUME TypeOK, DataInv, DispatchInv, jobs' = jobs, orch' = orch,
         reportCh' = reportCh, process' = process,
         WorkerActive' = WorkerActive, WorkerActive => worker'.id = worker.id
  PROVE  DispatchInv'
<1>1. SnapshotIsCurrent'
  BY DEF DispatchInv, SnapshotIsCurrent, Snapshot
<1> QED
  BY <1>1, DispatchStable

\* The API and the process.
LEMMA DispatchOutside ==
  ASSUME TypeOK, DataInv, DispatchInv,
         \/ \E r \in Requests : PostJob(r)
         \/ \E j \in JobIds : PostRetry(j)
         \/ Start \/ Signal \/ Exit \/ Crash
  PROVE  DispatchInv'
<1>1. ASSUME NEW r \in Requests, PostJob(r) PROVE DispatchInv'
  <2>1. PICK j \in JobIds : /\ jobs[j].status = "none"
                            /\ jobs' = CreateJob(jobs, j, r.from, r.from, r.end)
    BY <1>1 DEF PostJob, InStatus
  <2>2. \A k \in JobIds \ {j} : jobs'[k] = jobs[k]
    BY <2>1 DEF CreateJob, TypeOK
  <2>3. \A s \in orch.queue : s.id \in JobIds \ {j}
    BY <2>1 DEF TypeOK, Orchestrator, JobSnapshot, DataInv, QueueCovered, Exists
  <2>4. SnapshotIsCurrent'
    BY <1>1, <2>2, <2>3 DEF PostJob, DispatchInv, SnapshotIsCurrent, Snapshot
  <2> QED
    BY <1>1, <2>4, DispatchStable DEF PostJob, WorkerActive
<1>2. ASSUME NEW j \in JobIds, PostRetry(j) PROVE DispatchInv'
  <2>1. Moves(jobs, jobs', {})
    BY <1>2, UpdatesMove DEF PostRetry, TypeOK
  <2>2. SnapshotIsCurrent'
    BY <1>2, <2>1, SnapshotKept DEF PostRetry, DispatchInv
  <2> QED
    BY <1>2, <2>2, DispatchStable DEF PostRetry, WorkerActive
<1>3. CASE Start
  <2>1. orch' = OrchAt("start") /\ worker' = WorkerAt("idle") /\ reportCh' = <<>>
    BY <1>3 DEF Start, DispatchInv, PhaseOK, RunOK
  <2>2. /\ orch'.pc = "start" /\ ~orch'.busy /\ orch'.queue = {}
        /\ ~WorkerActive' /\ process' = "up"
    BY <1>3, <2>1 DEF Start, OrchAt, WorkerAt, WorkerActive
  <2> QED
    BY <2>1, <2>2 DEF DispatchInv, PhaseOK, RunOK, SnapshotIsCurrent
<1>4. CASE Signal
  BY <1>4, DispatchStable
  DEF Signal, WorkerActive, DispatchInv, SnapshotIsCurrent, Snapshot
<1>5. ASSUME Vanish PROVE DispatchInv'
  <2>1. orch' = OrchAt("off") /\ worker' = WorkerAt("off") /\ reportCh' = <<>>
    BY <1>5 DEF Vanish
  <2>2. /\ orch'.pc = "off" /\ ~orch'.busy /\ orch'.queue = {} /\ ~WorkerActive'
    BY <2>1 DEF OrchAt, WorkerAt, WorkerActive
  <2> QED
    BY <2>1, <2>2 DEF DispatchInv, PhaseOK, RunOK, SnapshotIsCurrent
<1> QED
  BY <1>1, <1>2, <1>3, <1>4, <1>5 DEF Exit, Crash

\* The orchestrator.
LEMMA DispatchOrchestrator ==
  ASSUME TypeOK, DataInv, DispatchInv, OrchestratorStep
  PROVE  DispatchInv'
<1>1. orch \in Orchestrator /\ Moves(jobs, jobs, {})
  BY DEF TypeOK, Moves, Keeps
<1>2. CASE OrchestratorStop
  BY <1>1, <1>2
  DEF OrchestratorStop, DispatchInv, PhaseOK, RunOK, SnapshotIsCurrent, Snapshot,
      Orchestrator, WorkerActive
<1>3. CASE Poll
  <2>1. /\ orch'.pc = "scan" /\ ~orch'.busy /\ orch'.queue = FindPendingJobs(jobs)
        /\ reportCh' = <<>> /\ jobs' = jobs /\ worker' = worker /\ process' = process
    BY <1>1, <1>3 DEF Poll, Orchestrator
  <2>2. ~WorkerActive /\ process # "down"
    BY <1>3 DEF Poll, DispatchInv, RunOK, PhaseOK
  <2>3. SnapshotIsCurrent'
    BY <2>1 DEF SnapshotIsCurrent, FindPendingJobs, Snapshot
  <2> QED
    BY <2>1, <2>2, <2>3 DEF DispatchInv, PhaseOK, RunOK, WorkerActive
<1>4. CASE PollInVain
  BY <1>4, DispatchWorker DEF PollInVain, vars, WorkerActive
<1>5. ASSUME NEW result \in CallResult, ResetStalled(result) PROVE DispatchInv'
  <2>1. /\ orch'.pc = "loop" /\ ~orch'.busy /\ orch'.queue = {} /\ reportCh' = <<>>
        /\ ~WorkerActive' /\ process' # "down"
    BY <1>1, <1>5
    DEF ResetStalled, DispatchInv, PhaseOK, RunOK, Orchestrator, WorkerActive
  <2> QED
    BY <2>1 DEF DispatchInv, PhaseOK, RunOK, SnapshotIsCurrent
<1>6. ASSUME NEW result \in CallResult, HandleReport(result) PROVE DispatchInv'
  <2>1. /\ orch.pc = "loop" /\ orch'.pc = "loop" /\ orch'.queue = {}
        /\ orch'.busy = IF Head(reportCh).type = "batch" THEN orch.busy ELSE FALSE
        /\ reportCh # <<>> /\ reportCh' = Tail(reportCh)
        /\ worker' = worker /\ process' = process /\ (WorkerActive' <=> WorkerActive)
    BY <1>1, <1>6 DEF HandleReport, DispatchInv, PhaseOK, Orchestrator, WorkerActive
  <2>2. orch.busy
    BY <2>1 DEF DispatchInv, RunOK
  <2>3. PhaseOK' /\ SnapshotIsCurrent'
    BY <2>1 DEF DispatchInv, PhaseOK, SnapshotIsCurrent
  <2>4. CASE Head(reportCh).type = "batch"
    <3>1. reportCh[1].type = "batch"
      BY <2>1, <2>4, Received
    <3>2. orch'.busy /\ orch'.pc = "loop"
      BY <2>1, <2>2, <2>4
    <3>3. WorkerActive \/ reportCh[Len(reportCh)].type # "batch"
      BY <2>1, <2>2 DEF DispatchInv, RunOK
    <3>4. \/ WorkerActive'
          \/ reportCh' # <<>> /\ reportCh'[Len(reportCh')].type # "batch"
      <4>1. CASE WorkerActive
        BY <2>1, <4>1
      <4>2. CASE ~WorkerActive
        <5>1. Len(reportCh) >= 2
          BY <2>1, <3>1, <3>3, <4>2, Received
        <5>2. /\ Len(reportCh') \in DOMAIN reportCh'
              /\ Len(reportCh') + 1 = Len(reportCh)
          BY <2>1, <5>1, Received
        <5>3. reportCh'[Len(reportCh')] = reportCh[Len(reportCh)]
          BY <2>1, <5>2, Received
        <5>4. reportCh' # <<>>
          BY <5>2
        <5> QED
          BY <3>3, <4>2, <5>3, <5>4
      <4> QED
        BY <4>1, <4>2
    <3>5. \A i \in DOMAIN reportCh' :
            i + 1 \in DOMAIN reportCh /\ reportCh'[i] = reportCh[i + 1]
      BY <2>1, Received
    <3>6. \A i \in DOMAIN reportCh' : reportCh'[i].type # "batch" => i = Len(reportCh')
      BY <2>1, <3>5, Received DEF DispatchInv, RunOK
    <3>7. RunOK'
      BY <2>1, <3>2, <3>4, <3>5, <3>6 DEF DispatchInv, RunOK
    <3> QED
      BY <2>3, <3>7 DEF DispatchInv
  <2>5. CASE Head(reportCh).type # "batch"
    <3>1. 1 \in DOMAIN reportCh /\ reportCh[1].type # "batch"
      BY <2>1, <2>5, Received
    <3>2. Len(reportCh) = 1 /\ ~WorkerActive
      BY <3>1 DEF DispatchInv, RunOK
    <3>3. reportCh' = <<>>
      BY <2>1, <3>2, Received DEF TypeOK
    <3>4. RunOK'
      BY <2>1, <2>5, <3>2, <3>3 DEF RunOK
    <3> QED
      BY <2>3, <3>4 DEF DispatchInv
  <2> QED
    BY <2>4, <2>5
<1>7. ASSUME NEW result \in CallResult, NEW s \in orch.queue, Claim(s, result)
      PROVE  DispatchInv'
  <2>1. /\ orch.pc = "scan" /\ ~orch.busy /\ ~WorkerActive /\ reportCh = <<>>
        /\ reportCh' = <<>> /\ process' = process /\ process # "down"
        /\ ~WorkerActive' /\ s.id \in JobIds
    BY <1>1, <1>7
    DEF Claim, DispatchInv, PhaseOK, RunOK, WorkerActive, Orchestrator, JobSnapshot
  <2>2. Moves(jobs, jobs', {})
    BY <1>7, <2>1, UpdatesMove, EffectMoves DEF Claim, TypeOK
  <2>3. \/ /\ orch'.pc \in {"loop", "scan"} /\ ~orch'.busy
           /\ orch'.queue = orch.queue \ {s}
           /\ orch'.queue # {} => orch'.pc = "scan"
        \/ orch'.pc = "finish" /\ ~orch'.busy /\ orch'.queue = {s}
        \/ /\ orch'.pc = "send" /\ orch'.busy /\ orch'.queue = {s}
           /\ StartCheckpoint(s) <= s.end
    <3>1. s \in JobSnapshot
      BY <1>1 DEF Orchestrator
    <3>2. StartCheckpoint(s) \in Nat /\ s.end \in Nat
      BY <3>1, StartTyped DEF JobSnapshot
    <3> QED
      BY <1>1, <1>7, <2>1, <3>2 DEF Claim, NextCandidate, Claimed, Orchestrator
  <2>4. SnapshotIsCurrent'
    BY <2>2, <2>3, SnapshotKept DEF DispatchInv
  <2>5. PhaseOK'
    BY <2>1, <2>3 DEF PhaseOK, StartCheckpoint
  <2>6. RunOK'
    BY <2>1, <2>3 DEF RunOK
  <2> QED
    BY <2>4, <2>5, <2>6 DEF DispatchInv
<1>8. ASSUME NEW result \in CallResult, NEW s \in orch.queue, FinishClaimed(s, result)
      PROVE  DispatchInv'
  <2>1. /\ orch'.pc = "loop" /\ ~orch'.busy /\ orch'.queue = {} /\ reportCh' = <<>>
        /\ ~WorkerActive' /\ process' # "down"
    BY <1>8 DEF FinishClaimed, OrchAt, DispatchInv, PhaseOK, RunOK, WorkerActive
  <2> QED
    BY <2>1 DEF DispatchInv, PhaseOK, RunOK, SnapshotIsCurrent
<1> QED
  BY <1>2, <1>3, <1>4, <1>5, <1>6, <1>7, <1>8 DEF OrchestratorStep

\* The worker.
LEMMA DispatchSteps ==
  ASSUME TypeOK, DataInv, DispatchInv, WorkerStep
  PROVE  DispatchInv'
<1>1. orch \in Orchestrator /\ worker \in Worker
  BY DEF TypeOK, WorkerOK
<1>2. CASE WorkerStop
  BY <1>2, DispatchWorker DEF WorkerStop, WorkerActive, WorkerAt
<1>3. ASSUME NEW pc \in {"chunk", "stream", "report", "final"}, WorkerActive,
             worker'.pc = pc, worker'.id = worker.id,
             UNCHANGED <<jobs, process, orch, reportCh>>
      PROVE  DispatchInv'
  BY <1>3, DispatchWorker DEF WorkerActive
<1>4. CASE \/ Setup \/ SetupFails \/ StartChunk \/ ChunkCancelled \/ AllChunksDone
           \/ ChunkDone \/ ChunkAbandoned
           \/ \E q \in Checkpoints : Flush(q)
           \/ \E S \in SUBSET Checkpoints : ChunkFails(S)
  <2>1. WorkerActive /\ UNCHANGED <<jobs, process, orch, reportCh>>
    BY <1>4
    DEF Setup, SetupFails, StartChunk, ChunkCancelled, AllChunksDone, ChunkDone,
        ChunkAbandoned, Flush, ChunkFails, WorkerActive
  <2>2. worker'.pc \in {"chunk", "stream", "report", "final"} /\ worker'.id = worker.id
    BY <1>1, <1>4
    DEF Setup, SetupFails, StartChunk, ChunkCancelled, AllChunksDone, ChunkDone,
        ChunkAbandoned, Flush, ChunkFails, EndRun, NextChunk, Worker
  <2> QED
    BY <1>3, <2>1, <2>2
<1>5. CASE ReportProgress
  <2>1. /\ WorkerActive /\ WorkerActive' /\ worker'.id = worker.id
        /\ Send("batch", worker.pos) /\ UNCHANGED <<jobs, process, orch>>
    BY <1>1, <1>5 DEF ReportProgress, WorkerActive, Worker
  <2>2. PhaseOK' /\ SnapshotIsCurrent'
    BY <2>1 DEF DispatchInv, PhaseOK, SnapshotIsCurrent, Snapshot, StartCheckpoint
  <2>3. \A i \in DOMAIN reportCh' :
          reportCh'[i].type = "batch" /\ reportCh'[i].id = worker.id
    <3>1. \A i \in DOMAIN reportCh :
            reportCh[i].type = "batch" /\ reportCh[i].id = worker.id
      BY <2>1 DEF DispatchInv, RunOK
    <3>2. /\ \A i \in DOMAIN reportCh' : i \in DOMAIN reportCh \/ i = Len(reportCh) + 1
          /\ \A i \in DOMAIN reportCh : reportCh'[i] = reportCh[i]
          /\ reportCh'[Len(reportCh) + 1] =
               [id |-> worker.id, type |-> "batch", position |-> worker.pos]
      BY <2>1, Sent DEF DispatchInv
    <3> QED
      BY <3>1, <3>2
  <2>4. RunOK'
    BY <2>1, <2>3 DEF DispatchInv, RunOK
  <2> QED
    BY <2>2, <2>4 DEF DispatchInv
<1>6. CASE ReportEnd
  <2>1. /\ WorkerActive /\ ~WorkerActive' /\ Send(worker.outcome, 0)
        /\ worker.outcome # "batch" /\ UNCHANGED <<jobs, process, orch>>
    BY <1>1, <1>6 DEF ReportEnd, WorkerActive, WorkerAt, Worker, Outcome
  <2>2. PhaseOK' /\ SnapshotIsCurrent'
    BY <2>1 DEF DispatchInv, PhaseOK, SnapshotIsCurrent, Snapshot, StartCheckpoint
  <2>3. \A i \in DOMAIN reportCh' :
          /\ reportCh'[i].id = worker.id
          /\ reportCh'[i].type # "batch" => i = Len(reportCh')
    <3>1. \A i \in DOMAIN reportCh :
            reportCh[i].type = "batch" /\ reportCh[i].id = worker.id
      BY <2>1 DEF DispatchInv, RunOK
    <3>2. \A i \in DOMAIN reportCh :
            reportCh'[i].type = "batch" /\ reportCh'[i].id = worker.id
      BY <2>1, <3>1, Sent
    <3>3. \A i \in DOMAIN reportCh' : i \in DOMAIN reportCh \/ i = Len(reportCh')
      BY <2>1, Sent
    <3>4. reportCh'[Len(reportCh')].id = worker.id
      BY <2>1, Sent
    <3> QED
      BY <3>2, <3>3, <3>4
  <2>4. reportCh' # <<>> /\ reportCh'[Len(reportCh')].type # "batch"
    BY <2>1, Sent
  <2>5. RunOK'
    BY <2>1, <2>3, <2>4 DEF DispatchInv, RunOK
  <2> QED
    BY <2>2, <2>5 DEF DispatchInv
<1>7. ASSUME NEW s \in orch.queue, Assign(s) PROVE DispatchInv'
  <2>1. /\ orch'.pc = "loop" /\ orch'.busy /\ orch'.queue = {} /\ reportCh' = <<>>
        /\ WorkerActive' /\ process' # "down"
    BY <1>1, <1>7
    DEF Assign, DispatchInv, PhaseOK, RunOK, Orchestrator, WorkerActive, WorkerAt
  <2> QED
    BY <2>1 DEF DispatchInv, PhaseOK, RunOK, SnapshotIsCurrent
<1> QED
  BY <1>2, <1>4, <1>5, <1>6, <1>7 DEF WorkerStep

\* Every step keeps the invariant.
LEMMA DispatchInductive == TypeOK /\ DataInv /\ DispatchInv /\ [Next]_vars => DispatchInv'
<1> SUFFICES ASSUME TypeOK, DataInv, DispatchInv, [Next]_vars PROVE DispatchInv'
  OBVIOUS
<1>1. CASE UNCHANGED vars
  BY <1>1, DispatchWorker DEF vars, WorkerActive
<1>2. CASE Next
  BY <1>2, DispatchOutside, DispatchOrchestrator, DispatchSteps DEF Next
<1> QED
  BY <1>1, <1>2

\* The invariant holds throughout.
LEMMA Dispatch == Spec => []DispatchInv
<1>1. Init => DispatchInv
  BY DEF Init, DispatchInv, PhaseOK, RunOK, SnapshotIsCurrent, OrchAt, WorkerAt,
         WorkerActive
<1> QED
  BY <1>1, DispatchInductive, TypeCorrect, DataIntegrity, PTL DEF Spec

\* However reports, claims, signals and restarts interleave, the busy flag, the
\* rendezvous and the two channels keep to one run at a time.
THEOREM OneRun == Spec => []OneRunAtATime
<1>1. TypeOK /\ DispatchInv => OneRunAtATime
  BY RunOKMeansOneRun DEF DispatchInv
<1> QED
  BY <1>1, Dispatch, TypeCorrect, PTL

\* The copy of a job that a run starts from is what MongoDB holds.
THEOREM SnapshotsCurrent == Spec => []SnapshotIsCurrent
<1>1. DispatchInv => SnapshotIsCurrent
  BY DEF DispatchInv
<1> QED
  BY <1>1, Dispatch, PTL

-----------------------------------------------------------------------------
(***************************************************************************)
(* Jobs left in progressing with nobody working on them.                   *)
(***************************************************************************)

Progressing == InStatus(jobs, "progressing")

AtHand(x) ==
  \/ orch.pc \in {"finish", "send"} /\ \E s \in orch.queue : x = s.id
  \/ WorkerActive /\ x = worker.id
  \/ \E i \in DOMAIN reportCh : reportCh[i].type # "batch" /\ x = reportCh[i].id

Dispatching == process = "up" /\ orch.pc # "start"

\* One job more may be progressing than calls were lost: the one in hand, or,
\* after a shutdown, the one whose last call the cancelled context refused.
OrphanInv ==
  /\ Cardinality(Progressing) <= spent.faults + 1
  /\ Dispatching => Cardinality(Orphans) <= spent.faults

LEMMA InHandIs ==
  /\ \A x : x \in InHand <=> AtHand(x)
  /\ \A x : x \in InHand' <=> AtHand(x)'
  /\ \A x : x \in Orphans <=> x \in Progressing /\ ~AtHand(x)
  /\ \A x : x \in Orphans' <=> x \in Progressing' /\ ~AtHand(x)'
<1>1. \A x : x \in InHand <=> AtHand(x)
  BY DEF InHand, AtHand, Range
<1>2. \A x : x \in InHand' <=> AtHand(x)'
  BY DEF InHand, AtHand, Range
<1> QED
  BY <1>1, <1>2 DEF Orphans, Progressing

\* There is only one job in hand.
LEMMA OneInHand ==
  ASSUME TypeOK, DispatchInv
  PROVE  /\ \A x, y : AtHand(x) /\ AtHand(y) => x = y
         /\ \A s \in orch.queue :
              orch.pc \in {"finish", "send"} => \A x : AtHand(x) <=> x = s.id
         /\ WorkerActive => \A x : AtHand(x) <=> x = worker.id
         /\ ~orch.busy /\ orch.pc # "finish" => \A x : ~AtHand(x)
<1>1. CASE WorkerActive
  <2>1. /\ orch.pc \notin {"finish", "send"} /\ orch.busy
        /\ \A i \in DOMAIN reportCh : reportCh[i].type = "batch"
    BY <1>1 DEF DispatchInv, RunOK, PhaseOK
  <2> QED
    BY <1>1, <2>1 DEF AtHand
<1>2. CASE orch.pc \in {"finish", "send"}
  <2>1. ~WorkerActive /\ reportCh = <<>> /\ \A s, t \in orch.queue : s = t
    BY <1>2 DEF DispatchInv, RunOK, PhaseOK
  <2>2. \A i \in DOMAIN reportCh : FALSE
    BY <2>1
  <2>3. orch.pc = "send" => orch.busy
    BY DEF DispatchInv, PhaseOK
  <2> QED
    BY <1>2, <2>1, <2>2, <2>3 DEF AtHand
<1>3. CASE ~WorkerActive /\ orch.pc \notin {"finish", "send"}
  <2>1. ~orch.busy => \A i \in DOMAIN reportCh : FALSE
    BY DEF DispatchInv, RunOK
  <2>2. \A i, k \in DOMAIN reportCh : reportCh[i].id = reportCh[k].id
    BY DEF DispatchInv, RunOK
  <2> QED
    BY <1>3, <2>1, <2>2 DEF AtHand
<1> QED
  BY <1>1, <1>2, <1>3

\* So it is after a step.
LEMMA OneInHandNext ==
  TypeOK' /\ DispatchInv' => \A x, y : AtHand(x)' /\ AtHand(y)' => x = y
<1> DEFINE F == \A x, y : AtHand(x) /\ AtHand(y) => x = y
<1>1. TypeOK /\ DispatchInv => F
  BY OneInHand
<1> HIDE DEF F
<1>2. TypeOK' /\ DispatchInv' => F'
  BY <1>1, PTL
<1> QED
  BY <1>2 DEF F

\* What the updates do to the set of progressing jobs.
LEMMA UpdatesProgressing ==
  ASSUME NEW db \in [JobIds -> CrawlerJob], NEW j \in JobIds
  PROVE  /\ InStatus(ClaimJob(db, j), "progressing") \subseteq
              InStatus(db, "progressing") \cup {j}
         /\ InStatus(CompleteJob(db, j), "progressing") =
              InStatus(db, "progressing") \ {j}
         /\ InStatus(RequeueJob(db, j), "progressing") =
              InStatus(db, "progressing") \ {j}
         /\ InStatus(RetryJob(db, j), "progressing") =
              InStatus(db, "progressing") \ {j}
         /\ \A p : InStatus(UpdateProgress(db, j, p), "progressing") =
                     InStatus(db, "progressing")
         /\ db[j].status # "pending" => ClaimJob(db, j) = db
<1> USE DEF InStatus, CrawlerJob
<1>1. InStatus(ClaimJob(db, j), "progressing") \subseteq
        InStatus(db, "progressing") \cup {j}
  BY DEF ClaimJob
<1>2. InStatus(CompleteJob(db, j), "progressing") = InStatus(db, "progressing") \ {j}
  BY DEF CompleteJob
<1>3. InStatus(RequeueJob(db, j), "progressing") = InStatus(db, "progressing") \ {j}
  BY DEF RequeueJob
<1>4. InStatus(RetryJob(db, j), "progressing") = InStatus(db, "progressing") \ {j}
  BY DEF RetryJob
<1>5. \A p : InStatus(UpdateProgress(db, j, p), "progressing") =
               InStatus(db, "progressing")
  BY DEF UpdateProgress
<1> QED
  BY <1>1, <1>2, <1>3, <1>4, <1>5 DEF ClaimJob

\* Sets of jobs are finite, and one job counts for one.
LEMMA JobsCounted ==
  ASSUME NEW S, S \subseteq JobIds, NEW T, T \subseteq JobIds
  PROVE  /\ Cardinality(S) \in Nat /\ Cardinality({}) = 0
         /\ S \subseteq T => Cardinality(S) <= Cardinality(T)
         /\ \A x : S \subseteq T \cup {x} => Cardinality(S) <= Cardinality(T) + 1
<1>1. IsFiniteSet(JobIds)
  BY FS_Interval, MaxJobsAssumption DEF JobIds
<1>2. IsFiniteSet(S) /\ IsFiniteSet(T)
  BY <1>1, FS_Subset
<1>3. Cardinality(S) \in Nat /\ Cardinality(T) \in Nat /\ Cardinality({}) = 0
  BY <1>2, FS_CardinalityType, FS_EmptySet
<1>4. S \subseteq T => Cardinality(S) <= Cardinality(T)
  BY <1>2, FS_Subset
<1>5. ASSUME NEW x, S \subseteq T \cup {x}
      PROVE  Cardinality(S) <= Cardinality(T) + 1
  <2>1. /\ IsFiniteSet(T \cup {x})
        /\ Cardinality(T \cup {x}) = IF x \in T THEN Cardinality(T) ELSE Cardinality(T) + 1
    BY <1>2, FS_AddElement
  <2>2. Cardinality(S) <= Cardinality(T \cup {x})
    BY <1>5, <2>1, FS_Subset
  <2> QED
    BY <1>3, <2>1, <2>2
<1> QED
  BY <1>3, <1>4, <1>5

\* The two ways a step keeps OrphanInv.  Before the loop, in a shutdown and
\* without a process no job becomes progressing.
LEMMA OrphansIdle ==
  ASSUME TypeOK, TypeOK', OrphanInv, ~Dispatching',
         Progressing' \subseteq Progressing, spent'.faults >= spent.faults
  PROVE  OrphanInv'
<1>1. /\ Progressing \subseteq JobIds /\ Progressing' \subseteq JobIds
      /\ spent.faults \in Nat /\ spent'.faults \in Nat
  BY DEF Progressing, InStatus, TypeOK, Spent
<1>2. /\ Cardinality(Progressing') <= Cardinality(Progressing)
      /\ Cardinality(Progressing) \in Nat /\ Cardinality(Progressing') \in Nat
  BY <1>1, JobsCounted
<1> QED
  BY <1>1, <1>2 DEF OrphanInv

\* While the orchestrator is dispatching, an orphan more is a fault more.
LEMMA OrphansDispatching ==
  ASSUME TypeOK, TypeOK', DispatchInv', OrphanInv, Dispatching,
         \/ Orphans' \subseteq Orphans /\ spent'.faults >= spent.faults
         \/ \E x : Orphans' \subseteq Orphans \cup {x}
                   /\ spent'.faults = spent.faults + 1
  PROVE  OrphanInv'
<1>1. /\ Progressing' \subseteq JobIds
      /\ Orphans \subseteq JobIds /\ Orphans' \subseteq JobIds
      /\ spent.faults \in Nat /\ spent'.faults \in Nat
  BY DEF Progressing, Orphans, InStatus, TypeOK, Spent
<1>2. Cardinality(Orphans) <= spent.faults
  BY DEF OrphanInv
<1>3. Cardinality(Orphans) \in Nat /\ Cardinality(Orphans') \in Nat
  BY <1>1, JobsCounted
<1>4. Cardinality(Orphans') <= spent'.faults
  <2>1. CASE Orphans' \subseteq Orphans /\ spent'.faults >= spent.faults
    <3>1. Cardinality(Orphans') <= Cardinality(Orphans)
      BY <1>1, <2>1, JobsCounted
    <3> QED
      BY <1>1, <1>2, <1>3, <2>1, <3>1
  <2>2. ASSUME NEW x, Orphans' \subseteq Orphans \cup {x},
               spent'.faults = spent.faults + 1
        PROVE  Cardinality(Orphans') <= spent'.faults
    <3>1. Cardinality(Orphans') <= Cardinality(Orphans) + 1
      BY <1>1, <2>2, JobsCounted
    <3> QED
      BY <1>1, <1>2, <1>3, <2>2, <3>1
  <2> QED
    BY <2>1, <2>2
<1>5. \E x : Progressing' \subseteq Orphans' \cup {x}
  <2>1. \A x, y : AtHand(x)' /\ AtHand(y)' => x = y
    BY OneInHandNext
  <2>2. CASE \E x : AtHand(x)'
    BY <2>1, <2>2, InHandIs
  <2>3. CASE \A x : ~AtHand(x)'
    BY <2>3, InHandIs
  <2> QED
    BY <2>2, <2>3
<1>6. Cardinality(Progressing') <= Cardinality(Orphans') + 1
      /\ Cardinality(Progressing') \in Nat
  BY <1>1, <1>5, JobsCounted
<1> QED
  BY <1>1, <1>3, <1>4, <1>6 DEF OrphanInv

\* A step that makes no job progressing and lets go of none.
LEMMA OrphansQuiet ==
  ASSUME TypeOK, TypeOK', DispatchInv', OrphanInv,
         Progressing' \subseteq Progressing, spent'.faults >= spent.faults,
         Dispatching' => Dispatching /\ \A x : AtHand(x) => AtHand(x)'
  PROVE  OrphanInv'
<1>1. CASE ~Dispatching'
  BY <1>1, OrphansIdle
<1>2. CASE Dispatching'
  <2>1. Orphans' \subseteq Orphans
    BY <1>2, InHandIs
  <2> QED
    BY <1>2, <2>1, OrphansDispatching
<1> QED
  BY <1>1, <1>2

\* What a call costs: nothing once the context is cancelled, when it does
\* nothing either.
LEMMA CallCosts ==
  ASSUME TypeOK, NEW result \in CallResult, Call(result)
  PROVE  /\ Cancelled => result = "failed" /\ spent' = spent
         /\ ~Cancelled /\ result = "ok" =>
              spent'.faults \in {spent.faults, spent.faults + 1}
         /\ ~Cancelled /\ result # "ok" => spent'.faults = spent.faults + 1
         /\ spent'.faults >= spent.faults
BY DEF Call, TypeOK, Spent

\* The API and the process.
LEMMA OrphansOutside ==
  ASSUME TypeOK, TypeOK', DispatchInv, DispatchInv', OrphanInv,
         \/ \E r \in Requests : PostJob(r)
         \/ \E j \in JobIds : PostRetry(j)
         \/ Start \/ Signal \/ Exit \/ Crash
  PROVE  OrphanInv'
<1>1. spent \in Spent /\ spent.faults \in Nat
  BY DEF TypeOK, Spent
<1>2. ASSUME NEW r \in Requests, PostJob(r) PROVE OrphanInv'
  <2>1. Progressing' \subseteq Progressing
    BY <1>2 DEF PostJob, CreateJob, AbsentJob, Progressing, InStatus, TypeOK
  <2> QED
    BY <1>1, <1>2, <2>1, OrphansQuiet DEF PostJob, Dispatching, AtHand, WorkerActive
<1>3. ASSUME NEW j \in JobIds, PostRetry(j) PROVE OrphanInv'
  <2>1. Progressing' \subseteq Progressing
    BY <1>3, UpdatesProgressing DEF PostRetry, Progressing, InStatus, TypeOK
  <2>2. spent'.faults = spent.faults
    BY <1>1, <1>3 DEF PostRetry, Spent
  <2> QED
    BY <1>1, <1>3, <2>1, <2>2, OrphansQuiet DEF PostRetry, Dispatching, AtHand, WorkerActive
<1>4. CASE Start \/ Signal \/ Exit \/ Crash
  <2>1. jobs' = jobs /\ ~Dispatching' /\ spent'.faults = spent.faults
    BY <1>1, <1>4 DEF Start, Signal, Exit, Crash, Vanish, OrchAt, Dispatching, Spent
  <2> QED
    BY <1>1, <2>1, OrphansIdle DEF Progressing, InStatus
<1> QED
  BY <1>2, <1>3, <1>4

\* The worker: the job in hand goes from its queue to it, and from it to the
\* last report.
LEMMA OrphansWorker ==
  ASSUME TypeOK, TypeOK', DispatchInv, DispatchInv', OrphanInv, WorkerStep
  PROVE  OrphanInv'
<1>1. /\ worker \in Worker /\ orch \in Orchestrator
      /\ spent \in Spent /\ spent.faults \in Nat
  BY DEF TypeOK, WorkerOK, Spent
<1>2. /\ jobs' = jobs /\ process' = process /\ spent'.faults = spent.faults
      /\ orch'.pc = "start" <=> orch.pc = "start"
  BY <1>1
  DEF WorkerStep, WorkerStop, Setup, SetupFails, StartChunk, ChunkCancelled,
      AllChunksDone, ReportProgress, ChunkDone, ChunkAbandoned, ReportEnd, Assign,
      Flush, ChunkFails, Failure, Spent, Orchestrator
<1>3. (\A x : AtHand(x) => AtHand(x)') => OrphanInv'
  BY <1>1, <1>2, OrphansQuiet DEF Progressing, InStatus, Dispatching
<1>4. CASE WorkerStop
  BY <1>3, <1>4 DEF WorkerStop, AtHand, WorkerActive
<1>5. CASE \/ Setup \/ SetupFails \/ StartChunk \/ ChunkCancelled \/ AllChunksDone
           \/ ChunkDone \/ ChunkAbandoned
           \/ \E q \in Checkpoints : Flush(q)
           \/ \E S \in SUBSET Checkpoints : ChunkFails(S)
  <2>1. /\ worker'.pc \in {"chunk", "stream", "report", "final"}
        /\ worker'.id = worker.id /\ orch' = orch /\ reportCh' = reportCh
    BY <1>1, <1>5
    DEF Setup, SetupFails, StartChunk, ChunkCancelled, AllChunksDone, ChunkDone,
        ChunkAbandoned, Flush, ChunkFails, EndRun, NextChunk, Worker
  <2> QED
    BY <1>3, <2>1 DEF AtHand, WorkerActive
<1>6. CASE ReportProgress
  <2>1. /\ worker'.pc = "stream" /\ worker'.id = worker.id /\ orch' = orch
        /\ \A i \in DOMAIN reportCh : i \in DOMAIN reportCh' /\ reportCh'[i] = reportCh[i]
    <3>1. \A i \in DOMAIN reportCh :
            i \in DOMAIN reportCh' /\ reportCh'[i] = reportCh[i]
      BY <1>6, Sent DEF ReportProgress
    <3> QED
      BY <1>1, <1>6, <3>1 DEF ReportProgress, Worker
  <2> QED
    BY <1>3, <2>1 DEF AtHand, WorkerActive
<1>7. CASE ReportEnd
  <2>1. WorkerActive /\ worker.outcome # "batch" /\ Send(worker.outcome, 0)
    BY <1>1, <1>7 DEF ReportEnd, WorkerActive, Worker, Outcome
  <2>2. \A x : AtHand(x) => x = worker.id
    BY <2>1, OneInHand
  <2>3. ASSUME NEW CONSTANT x, x = worker.id PROVE AtHand(x)'
    <3>1. /\ Len(reportCh') \in DOMAIN reportCh'
          /\ reportCh'[Len(reportCh')].type # "batch"
          /\ reportCh'[Len(reportCh')].id = worker.id
      BY <2>1, Sent
    <3> QED
      BY <2>3, <3>1 DEF AtHand
  <2>4. \A x : AtHand(x) => AtHand(x)'
    BY <2>2, <2>3
  <2> QED
    BY <1>3, <2>4
<1>8. ASSUME NEW s \in orch.queue, Assign(s) PROVE OrphanInv'
  <2>1. \A x : AtHand(x) => x = s.id
    BY <1>8, OneInHand DEF Assign
  <2>2. worker'.id = s.id /\ worker'.pc = "setup"
    BY <1>8 DEF Assign, WorkerAt
  <2> QED
    BY <1>3, <2>1, <2>2 DEF AtHand, WorkerActive
<1> QED
  BY <1>4, <1>5, <1>6, <1>7, <1>8 DEF WorkerStep

\* The orchestrator.  A job leaves its hands completed or requeued, or at the
\* cost of a call.
LEMMA OrphansOrchestrator ==
  ASSUME TypeOK, TypeOK', DispatchInv, DispatchInv', OrphanInv, OrchestratorStep
  PROVE  OrphanInv'
<1>1. /\ orch \in Orchestrator /\ jobs \in [JobIds -> CrawlerJob]
      /\ spent \in Spent /\ spent.faults \in Nat
      /\ worker' = worker /\ process' = process
  BY DEF TypeOK, Spent, OrchestratorStep, OrchestratorStop, Poll, PollInVain,
         ResetStalled, HandleReport, Claim, FinishClaimed, vars
<1>2. (WorkerActive' <=> WorkerActive) /\ worker'.id = worker.id
  BY <1>1 DEF WorkerActive
<1>3. CASE OrchestratorStop
  BY <1>1, <1>3, OrphansIdle
  DEF OrchestratorStop, Cancelled, Dispatching, Progressing, InStatus
<1>4. CASE Poll
  <2>1. \A x : AtHand(x) => AtHand(x)'
    BY <1>2, <1>4 DEF Poll, AtHand
  <2> QED
    BY <1>1, <1>4, <2>1, OrphansQuiet
    DEF Poll, Dispatching, Progressing, InStatus
<1>5. CASE PollInVain
  BY <1>1, <1>2, <1>5, OrphansQuiet
  DEF PollInVain, vars, Dispatching, Progressing, InStatus, AtHand
<1>6. ASSUME NEW result \in CallResult, ResetStalled(result) PROVE OrphanInv'
  <2>1. CASE Cancelled
    BY <1>1, <1>6, <2>1, CallCosts, OrphansIdle
    DEF ResetStalled, Effect, Cancelled, Dispatching, Progressing, InStatus
  <2>2. CASE ~Cancelled /\ result = "failed"
    <3>1. Progressing' = Progressing /\ spent'.faults = spent.faults + 1
      BY <1>6, <2>2, CallCosts DEF ResetStalled, Effect, Progressing, InStatus
    <3>2. /\ Progressing \subseteq JobIds /\ Orphans' \subseteq JobIds
          /\ Orphans' \subseteq Progressing
      BY <3>1, InHandIs DEF Progressing, InStatus
    <3>3. /\ Cardinality(Progressing) \in Nat /\ Cardinality(Orphans') \in Nat
          /\ Cardinality(Orphans') <= Cardinality(Progressing)
          /\ Cardinality(Progressing) <= spent.faults + 1
      BY <3>2, JobsCounted DEF OrphanInv
    <3> QED
      BY <1>1, <3>1, <3>3 DEF OrphanInv
  <2>3. CASE ~Cancelled /\ result # "failed"
    <3>1. jobs' = ResetStalledJobs(jobs)
      BY <1>6, <2>3 DEF ResetStalled, Effect
    <3>2. Progressing' = {}
      BY <1>1, <3>1 DEF Progressing, InStatus, ResetStalledJobs, CrawlerJob
    <3>3. Orphans' = {}
      BY <3>2, InHandIs
    <3>4. Cardinality(Progressing') = 0 /\ Cardinality(Orphans') = 0
      BY <3>2, <3>3, JobsCounted
    <3>5. spent'.faults \in Nat
      BY DEF TypeOK, Spent
    <3> QED
      BY <3>4, <3>5 DEF OrphanInv
  <2> QED
    BY <2>1, <2>2, <2>3
<1>7. ASSUME NEW result \in CallResult, Call(result), NEW updated,
             Effect(result, updated), Cancelled
      PROVE  OrphanInv'
  BY <1>1, <1>7, CallCosts, OrphansIdle
  DEF Effect, Cancelled, Dispatching, Progressing, InStatus
<1>8. ASSUME NEW result \in CallResult, HandleReport(result), ~Cancelled
      PROVE  OrphanInv'
  <2>1. /\ orch.pc = "loop" /\ orch'.pc = "loop" /\ reportCh # <<>>
        /\ reportCh' = Tail(reportCh) /\ Call(result)
        /\ Effect(result, Applied(Head(reportCh)))
    BY <1>1, <1>8 DEF HandleReport, Orchestrator
  <2>2. Dispatching
    BY <1>1, <1>8, <2>1 DEF Dispatching, Cancelled, DispatchInv, PhaseOK, TypeOK
  <2>3. spent'.faults >= spent.faults /\ (result = "ok" \/ spent'.faults = spent.faults + 1)
    BY <1>8, <2>1, CallCosts
  <2>4. PICK r \in JobReport : r = Head(reportCh) /\ r = reportCh[1]
    BY <2>1, Received
  <2>5. Applied(r) = CASE r.type = "batch"  -> UpdateProgress(jobs, r.id, r.position)
                       [] r.type = "done"   -> CompleteJob(jobs, r.id)
                       [] r.type = "failed" -> RequeueJob(jobs, r.id)
    BY DEF Applied
  <2>6. r.id \in JobIds /\ r.type \in {"batch", "done", "failed"} /\ r.position \in Nat
    BY DEF JobReport
  <2>7. /\ Progressing' \subseteq Progressing
        /\ r.type # "batch" /\ result = "ok" => r.id \notin Progressing'
    BY <1>1, <2>1, <2>4, <2>5, <2>6, UpdatesProgressing DEF Effect, Progressing
  <2>8. \A x : AtHand(x) => AtHand(x)' \/ (r.type # "batch" /\ x = r.id)
    <3> SUFFICES ASSUME NEW CONSTANT x, AtHand(x)
                 PROVE  AtHand(x)' \/ (r.type # "batch" /\ x = r.id)
      OBVIOUS
    <3>1. CASE WorkerActive /\ x = worker.id
      BY <1>2, <3>1 DEF AtHand
    <3>2. ASSUME NEW i \in DOMAIN reportCh, reportCh[i].type # "batch",
                 x = reportCh[i].id
          PROVE  AtHand(x)' \/ (r.type # "batch" /\ x = r.id)
      <4>1. CASE i = 1
        BY <2>4, <3>2, <4>1
      <4>2. CASE i # 1
        <5>1. i - 1 \in DOMAIN reportCh' /\ reportCh'[i - 1] = reportCh[i]
          BY <2>1, <4>2, Received
        <5> QED
          BY <3>2, <5>1 DEF AtHand
      <4> QED
        BY <4>1, <4>2
    <3> QED
      BY <2>1, <3>1, <3>2 DEF AtHand
  <2>9. \/ Orphans' \subseteq Orphans
        \/ Orphans' \subseteq Orphans \cup {r.id} /\ spent'.faults = spent.faults + 1
    BY <2>3, <2>7, <2>8, InHandIs
  <2> QED
    BY <2>2, <2>3, <2>9, OrphansDispatching
<1>9. ASSUME NEW result \in CallResult, NEW s \in orch.queue, Claim(s, result),
             ~Cancelled
      PROVE  OrphanInv'
  <2>1. /\ orch.pc = "scan" /\ ~orch.busy /\ Call(result) /\ s.id \in JobIds
        /\ Effect(result, ClaimJob(jobs, s.id))
    BY <1>1, <1>9
    DEF Claim, DispatchInv, PhaseOK, Orchestrator, JobSnapshot
  <2>2. Dispatching
    BY <1>1, <1>9, <2>1 DEF Dispatching, Cancelled, DispatchInv, PhaseOK, TypeOK
  <2>3. spent'.faults >= spent.faults /\ (result = "ok" \/ spent'.faults = spent.faults + 1)
    BY <1>9, <2>1, CallCosts
  <2>4. \A x : ~AtHand(x)
    BY <2>1, OneInHand
  <2>5. Progressing' \subseteq Progressing \cup {s.id}
    BY <1>1, <2>1, UpdatesProgressing DEF Effect, Progressing
  <2>6. CASE result = "ok" /\ jobs[s.id].status = "pending"
    <3>1. orch'.pc \in {"finish", "send"} /\ s \in orch'.queue
      BY <1>1, <1>9, <2>6 DEF Claim, Claimed, Orchestrator
    <3>2. ASSUME NEW CONSTANT x, x = s.id PROVE AtHand(x)'
      BY <3>1, <3>2 DEF AtHand
    <3>3. Orphans' \subseteq Orphans
      BY <2>4, <2>5, <3>2, InHandIs
    <3> QED
      BY <2>2, <2>3, <3>3, OrphansDispatching
  <2>7. CASE result = "ok" /\ jobs[s.id].status # "pending"
    <3>1. Progressing' = Progressing
      BY <1>1, <2>1, <2>7, UpdatesProgressing DEF Effect, Progressing
    <3>2. Orphans' \subseteq Orphans
      BY <2>4, <3>1, InHandIs
    <3> QED
      BY <2>2, <2>3, <3>2, OrphansDispatching
  <2>8. CASE result # "ok"
    <3>1. Orphans' \subseteq Orphans \cup {s.id}
      BY <2>4, <2>5, InHandIs
    <3> QED
      BY <2>2, <2>3, <2>8, <3>1, OrphansDispatching
  <2> QED
    BY <2>6, <2>7, <2>8
<1>10. ASSUME NEW result \in CallResult, NEW s \in orch.queue,
              FinishClaimed(s, result), ~Cancelled
       PROVE  OrphanInv'
  <2>1. /\ orch.pc = "finish" /\ Call(result) /\ s.id \in JobIds
        /\ Effect(result, CompleteJob(jobs, s.id))
    BY <1>1, <1>10 DEF FinishClaimed, Orchestrator, JobSnapshot
  <2>2. Dispatching
    BY <1>1, <1>10, <2>1 DEF Dispatching, Cancelled, DispatchInv, PhaseOK, TypeOK
  <2>3. spent'.faults >= spent.faults /\ (result = "ok" \/ spent'.faults = spent.faults + 1)
    BY <1>10, <2>1, CallCosts
  <2>4. \A x : AtHand(x) => x = s.id
    BY <2>1, OneInHand
  <2>5. /\ Progressing' \subseteq Progressing
        /\ result = "ok" => s.id \notin Progressing'
    BY <1>1, <2>1, UpdatesProgressing DEF Effect, Progressing
  <2>6. \/ Orphans' \subseteq Orphans
        \/ Orphans' \subseteq Orphans \cup {s.id} /\ spent'.faults = spent.faults + 1
    BY <2>3, <2>4, <2>5, InHandIs
  <2> QED
    BY <2>2, <2>3, <2>6, OrphansDispatching
<1>11. ASSUME NEW result \in CallResult,
              \/ HandleReport(result)
              \/ \E s \in orch.queue : Claim(s, result) \/ FinishClaimed(s, result)
       PROVE  OrphanInv'
  <2>1. CASE Cancelled
    BY <1>7, <1>11, <2>1 DEF HandleReport, Claim, FinishClaimed
  <2>2. CASE ~Cancelled
    BY <1>8, <1>9, <1>10, <1>11, <2>2
  <2> QED
    BY <2>1, <2>2
<1> QED
  BY <1>3, <1>4, <1>5, <1>6, <1>11 DEF OrchestratorStep

\* No interleaving of runs, retries, crashes and restarts strands a job in
\* progressing: while the process is up each stranded job has cost a MongoDB
\* call of its own.
THEOREM OrphansBounded == Spec => []OrphansBoundedByFaults
<1>1. Init => OrphanInv
  <2> SUFFICES ASSUME Init PROVE OrphanInv
    OBVIOUS
  <2>1. Progressing = {} /\ spent.faults = 0 /\ ~Dispatching
    BY DEF Init, Progressing, InStatus, AbsentJob, Dispatching
  <2> QED
    BY <2>1, JobsCounted DEF OrphanInv
<1>2. TypeOK /\ TypeOK' /\ DispatchInv /\ DispatchInv' /\ OrphanInv /\ [Next]_vars
        => OrphanInv'
  <2> SUFFICES ASSUME TypeOK, TypeOK', DispatchInv, DispatchInv', OrphanInv, [Next]_vars
               PROVE  OrphanInv'
    OBVIOUS
  <2>1. CASE UNCHANGED vars
    BY <2>1, OrphansQuiet
    DEF vars, Progressing, InStatus, Dispatching, AtHand, WorkerActive, TypeOK, Spent
  <2>2. CASE Next
    BY <2>2, OrphansOutside, OrphansWorker, OrphansOrchestrator DEF Next
  <2> QED
    BY <2>1, <2>2
<1>3. OrphanInv => OrphansBoundedByFaults
  BY DEF OrphanInv, OrphansBoundedByFaults, Dispatching
<1> QED
  BY <1>1, <1>2, <1>3, TypeCorrect, Dispatch, PTL DEF Spec

-----------------------------------------------------------------------------
(***************************************************************************)
(* The inductive invariant: along the way of a position, from the worker   *)
(* over the channel into the document, it only grows.                      *)
(***************************************************************************)

\* Everything said of the run so far, stored or on its way, is at most p.
Told(p) ==
  /\ jobs[worker.id].last <= p
  /\ \A i \in DOMAIN reportCh : reportCh[i].position <= p

DocumentsAhead == \A j \in JobIds : Exists(j) => jobs[j].from <= jobs[j].last

ReportsAhead ==
  \A i \in DOMAIN reportCh :
    LET r == reportCh[i] IN
      r.type = "batch" =>
        /\ r.position \in Checkpoints
        /\ jobs[r.id].last < r.position /\ r.position <= jobs[r.id].end
        /\ \A k \in DOMAIN reportCh : k < i => reportCh[k].position < r.position

WorkerAhead ==
  /\ worker.pc \in {"setup", "chunk"} => Told(worker.next - 1)
  /\ worker.pc = "stream" => Told(worker.pos)
  /\ worker.pc = "report" => worker.pos \in Checkpoints /\ Told(worker.pos - 1)

PositionInv == DocumentsAhead /\ ReportsAhead /\ WorkerAhead

\* A report is about a job that exists.
LEMMA ReportTyped ==
  ASSUME TypeOK, DataInv
  PROVE  \A i \in DOMAIN reportCh :
           /\ reportCh[i] \in JobReport
           /\ reportCh[i].id \in JobIds /\ Exists(reportCh[i].id)
           /\ reportCh[i].position \in Nat
           /\ reportCh[i].type \in {"batch", "done", "failed"}
<1>1. \A i \in DOMAIN reportCh : reportCh[i] \in JobReport
  BY DEF TypeOK
<1>2. \A i \in DOMAIN reportCh : Exists(reportCh[i].id)
  BY DEF DataInv, ReportsCovered
<1> QED
  BY <1>1, <1>2 DEF JobReport

\* A step that moves no position and leaves channel and worker alone.
LEMMA PositionStable ==
  ASSUME TypeOK, DataInv, PositionInv, NEW S, Moves(jobs, jobs', S),
         reportCh' = reportCh, worker' = worker
  PROVE  PositionInv'
<1>1. ASSUME NEW j \in JobIds, Exists(j)
      PROVE  /\ jobs'[j].from = jobs[j].from /\ jobs'[j].end = jobs[j].end
             /\ jobs'[j].last = jobs[j].last
  BY <1>1 DEF Moves, Keeps, Exists
<1>2. DocumentsAhead'
  BY <1>1 DEF PositionInv, DocumentsAhead, Moves, Exists
<1>3. \A i \in DOMAIN reportCh : reportCh[i].id \in JobIds /\ Exists(reportCh[i].id)
  BY ReportTyped
<1>4. ReportsAhead'
  BY <1>1, <1>3 DEF PositionInv, ReportsAhead
<1>5. WorkerActive => worker.id \in JobIds /\ Exists(worker.id)
  BY DEF TypeOK, WorkerOK, DataInv, WorkerCovered
<1>6. WorkerAhead'
  BY <1>1, <1>5 DEF PositionInv, WorkerAhead, Told, WorkerActive
<1> QED
  BY <1>2, <1>4, <1>6 DEF PositionInv

\* A step of the worker that leaves documents and channel alone.
LEMMA PositionWorker ==
  ASSUME PositionInv, jobs' = jobs, reportCh' = reportCh, WorkerAhead'
  PROVE  PositionInv'
BY DEF PositionInv, DocumentsAhead, ReportsAhead, Exists

\* The API and the process.
LEMMA PositionOutside ==
  ASSUME TypeOK, DataInv, DispatchInv, PositionInv,
         \/ \E r \in Requests : PostJob(r)
         \/ \E j \in JobIds : PostRetry(j)
         \/ Start \/ Signal \/ Exit \/ Crash
  PROVE  PositionInv'
<1>1. ASSUME NEW r \in Requests, PostJob(r) PROVE PositionInv'
  <2>1. PICK j \in JobIds : /\ jobs[j].status = "none"
                            /\ jobs' = CreateJob(jobs, j, r.from, r.from, r.end)
    BY <1>1 DEF PostJob, InStatus
  <2>2. /\ jobs'[j].from = r.from /\ jobs'[j].last = r.from /\ r.from \in Nat
        /\ \A k \in JobIds \ {j} : jobs'[k] = jobs[k]
    BY <2>1, RequestsAssumption DEF CreateJob, AbsentJob, TypeOK, CrawlerJob
  <2>3. reportCh' = reportCh /\ worker' = worker
    BY <1>1 DEF PostJob
  <2>4. DocumentsAhead'
    BY <2>1, <2>2 DEF PositionInv, DocumentsAhead, Exists
  <2>5. \A i \in DOMAIN reportCh : reportCh[i].id \in JobIds \ {j}
    BY <2>1, ReportTyped DEF Exists
  <2>6. ReportsAhead'
    BY <2>2, <2>3, <2>5 DEF PositionInv, ReportsAhead
  <2>7. WorkerActive => worker.id \in JobIds \ {j}
    BY <2>1 DEF TypeOK, WorkerOK, DataInv, WorkerCovered, Exists
  <2>8. WorkerAhead'
    BY <2>2, <2>3, <2>7 DEF PositionInv, WorkerAhead, Told, WorkerActive
  <2> QED
    BY <2>4, <2>6, <2>8 DEF PositionInv
<1>2. ASSUME NEW j \in JobIds, PostRetry(j) PROVE PositionInv'
  <2>1. Moves(jobs, jobs', {})
    BY <1>2, UpdatesMove DEF PostRetry, TypeOK
  <2> QED
    BY <1>2, <2>1, PositionStable DEF PostRetry
<1>3. CASE Start \/ Exit \/ Crash
  <2>1. /\ jobs' = jobs /\ worker'.pc \in {"idle", "off"}
        /\ reportCh' = reportCh \/ reportCh' = <<>>
    BY <1>3 DEF Start, Exit, Crash, Vanish, WorkerAt
  <2>2. DocumentsAhead' /\ ReportsAhead'
    BY <2>1 DEF PositionInv, DocumentsAhead, ReportsAhead, Exists
  <2> QED
    BY <2>1, <2>2 DEF PositionInv, WorkerAhead
<1>4. CASE Signal
  BY <1>4, PositionStable DEF Signal, Moves, Keeps
<1> QED
  BY <1>1, <1>2, <1>3, <1>4

\* The orchestrator.
LEMMA PositionOrchestrator ==
  ASSUME TypeOK, DataInv, DispatchInv, PositionInv, OrchestratorStep
  PROVE  PositionInv'
<1>1. orch \in Orchestrator /\ jobs \in [JobIds -> CrawlerJob]
  BY DEF TypeOK
<1>2. CASE OrchestratorStop \/ Poll \/ PollInVain
  BY <1>2, PositionStable DEF OrchestratorStop, Poll, PollInVain, vars, Moves, Keeps
<1>3. ASSUME NEW result \in CallResult, ResetStalled(result) PROVE PositionInv'
  <2>1. Moves(jobs, ResetStalledJobs(jobs), {})
    BY <1>1 DEF Moves, Keeps, ResetStalledJobs, CrawlerJob
  <2> QED
    BY <1>3, <2>1, EffectMoves, PositionStable DEF ResetStalled
<1>4. ASSUME NEW result \in CallResult, NEW s \in orch.queue,
             Claim(s, result) \/ FinishClaimed(s, result)
      PROVE  PositionInv'
  <2>1. s.id \in JobIds
    BY <1>1 DEF Orchestrator, JobSnapshot
  <2>2. Moves(jobs, ClaimJob(jobs, s.id), {}) /\ Moves(jobs, CompleteJob(jobs, s.id), {s.id})
    BY <1>1, <2>1, UpdatesMove
  <2>3. \E S : Moves(jobs, jobs', S)
    BY <1>4, <2>2, EffectMoves DEF Claim, FinishClaimed
  <2> QED
    BY <1>4, <2>3, PositionStable DEF Claim, FinishClaimed
<1>5. ASSUME NEW result \in CallResult, HandleReport(result) PROVE PositionInv'
  <2>1. /\ reportCh # <<>> /\ reportCh' = Tail(reportCh) /\ worker' = worker
        /\ Effect(result, Applied(Head(reportCh)))
    BY <1>5 DEF HandleReport
  <2>2. PICK r \in JobReport : r = Head(reportCh) /\ r = reportCh[1]
    BY <2>1, Received
  <2>3. r.id \in JobIds /\ r.type \in {"batch", "done", "failed"} /\ r.position \in Nat
    BY DEF JobReport
  <2>4. 1 \in DOMAIN reportCh
        /\ \A i \in DOMAIN reportCh' :
             /\ i + 1 \in DOMAIN reportCh /\ i \in Nat /\ 1 < i + 1
             /\ reportCh'[i] = reportCh[i + 1]
    BY <2>1, Received
  <2>5. /\ DocumentsAhead'
        /\ \A j \in JobIds : Exists(j) =>
             /\ jobs'[j].end = jobs[j].end
             /\ \/ jobs'[j].last = jobs[j].last
                \/ r.type = "batch" /\ j = r.id /\ jobs'[j].last = r.position
    <3>1. CASE r.type # "batch"
      <4>1. \E S : Moves(jobs, Applied(r), S)
        BY <1>1, <2>3, <3>1, UpdatesMove DEF Applied
      <4>2. \E S : Moves(jobs, jobs', S)
        BY <2>1, <2>2, <4>1, EffectMoves
      <4> QED
        BY <4>2 DEF Moves, Keeps, Exists, PositionInv, DocumentsAhead
    <3>2. CASE r.type = "batch"
      <4>1. jobs[r.id].last < r.position
        BY <2>2, <2>4, <3>2 DEF PositionInv, ReportsAhead
      <4>2. jobs' \in {jobs, UpdateProgress(jobs, r.id, r.position)}
        BY <2>1, <2>2, <3>2 DEF Effect, Applied
      <4>3. /\ \A j \in JobIds : /\ jobs'[j].end = jobs[j].end
                                 /\ jobs'[j].from = jobs[j].from
                                 /\ jobs'[j].status = jobs[j].status
            /\ \A j \in JobIds \ {r.id} : jobs'[j].last = jobs[j].last
            /\ jobs'[r.id].last \in {jobs[r.id].last, r.position}
        BY <1>1, <2>3, <4>2 DEF UpdateProgress, CrawlerJob
      <4>4. \A j \in JobIds : jobs[j].from \in Nat /\ jobs[j].last \in Nat
        BY <1>1 DEF CrawlerJob
      <4>5. DocumentsAhead'
        BY <2>3, <4>1, <4>3, <4>4 DEF PositionInv, DocumentsAhead, Exists
      <4> QED
        BY <3>2, <4>3, <4>5
    <3> QED
      BY <3>1, <3>2
  <2>6. \A i \in DOMAIN reportCh : /\ reportCh[i].id = r.id /\ Exists(r.id)
                                   /\ reportCh[i].position \in Nat
    BY <2>2, <2>4, ReportTyped DEF DispatchInv, RunOK
  <2>7. ReportsAhead'
    <3> SUFFICES ASSUME NEW i \in DOMAIN reportCh', reportCh'[i].type = "batch"
                 PROVE  LET q == reportCh'[i] IN
                        /\ q.position \in Checkpoints
                        /\ jobs'[q.id].last < q.position
                        /\ q.position <= jobs'[q.id].end
                        /\ \A k \in DOMAIN reportCh' : k < i =>
                             reportCh'[k].position < q.position
      BY DEF ReportsAhead
    <3>1. PICK n \in DOMAIN reportCh : n = i + 1 /\ 1 < n /\ reportCh'[i] = reportCh[n]
      BY <2>4
    <3>2. /\ reportCh[n].position \in Checkpoints
          /\ jobs[r.id].last < reportCh[n].position
          /\ reportCh[n].position <= jobs[r.id].end
          /\ \A k \in DOMAIN reportCh : k < n =>
               reportCh[k].position < reportCh[n].position
      BY <2>6, <3>1 DEF PositionInv, ReportsAhead
    <3>3. r.position < reportCh[n].position
      BY <2>2, <2>4, <3>1, <3>2
    <3>4. jobs'[r.id].last < reportCh[n].position /\ jobs'[r.id].end = jobs[r.id].end
      BY <2>3, <2>5, <2>6, <3>2, <3>3
    <3>5. \A k \in DOMAIN reportCh' : k < i => reportCh'[k].position < reportCh[n].position
      BY <2>4, <3>1, <3>2
    <3> QED
      BY <2>6, <3>1, <3>2, <3>4, <3>5
  <2>8. WorkerAhead'
    <3>1. ASSUME WorkerActive, NEW p, Told(p)
          PROVE  jobs'[worker.id].last <= p
                 /\ \A i \in DOMAIN reportCh' : reportCh'[i].position <= p
      <4>1. worker.id \in JobIds /\ Exists(worker.id)
        BY <3>1 DEF TypeOK, WorkerOK, DataInv, WorkerCovered
      <4> QED
        BY <2>2, <2>4, <2>5, <3>1, <4>1 DEF Told
    <3> QED
      BY <2>1, <3>1 DEF PositionInv, WorkerAhead, WorkerActive, Told
  <2> QED
    BY <2>5, <2>7, <2>8 DEF PositionInv
<1> QED
  BY <1>2, <1>3, <1>4, <1>5 DEF OrchestratorStep

\* The worker.
LEMMA PositionSteps ==
  ASSUME TypeOK, DataInv, DispatchInv, PositionInv, WorkerStep
  PROVE  PositionInv'
<1>1. /\ worker \in Worker /\ worker.id \in JobIds \cup {0} /\ worker.next \in Nat
      /\ worker.pos \in Nat /\ worker.to \in Nat /\ worker.end \in Nat
      /\ worker.outcome \in Outcome
      /\ ProcessingChunkSize \in Nat /\ ProcessingChunkSize > 0
  BY CapacityAssumption DEF TypeOK, WorkerOK, Worker
<1>2. CASE \/ WorkerStop \/ SetupFails \/ ChunkCancelled \/ AllChunksDone
           \/ \E S \in SUBSET Checkpoints : ChunkFails(S)
  <2>1. /\ jobs' = jobs /\ reportCh' = reportCh
        /\ \/ worker' = WorkerAt("stopped")
           \/ EndRun("done") \/ EndRun("failed")
    BY <1>2 DEF WorkerStop, SetupFails, ChunkCancelled, AllChunksDone, ChunkFails
  <2>2. worker'.pc \in {"stopped", "final"}
    <3>1. CASE worker' = WorkerAt("stopped")
      BY <3>1 DEF WorkerAt
    <3>2. CASE EndRun("done") \/ EndRun("failed")
      BY <1>1, <3>2 DEF EndRun, Worker
    <3> QED
      BY <2>1, <3>1, <3>2
  <2> QED
    BY <2>1, <2>2, PositionWorker DEF WorkerAhead
<1>3. ASSUME WorkerActive, NEW p \in Int, Told(p), NEW q \in Int, p <= q
      PROVE  Told(q)
  <2>1. worker.id \in JobIds /\ jobs[worker.id].last \in Nat
    BY <1>3 DEF TypeOK, WorkerOK, CrawlerJob
  <2>2. \A i \in DOMAIN reportCh : reportCh[i].position \in Nat
    BY ReportTyped
  <2> QED
    BY <1>3, <2>1, <2>2 DEF Told
<1>4. CASE Setup
  <2>1. /\ worker' = [worker EXCEPT !.pc = "chunk"]
        /\ jobs' = jobs /\ reportCh' = reportCh /\ worker.pc = "setup"
    BY <1>4 DEF Setup
  <2>2. /\ worker'.pc = "chunk" /\ worker'.id = worker.id /\ worker'.next = worker.next
    BY <1>1, <2>1 DEF Worker
  <2>3. Told(worker.next - 1)
    BY <2>1 DEF PositionInv, WorkerAhead
  <2>4. WorkerAhead'
    BY <2>1, <2>2, <2>3 DEF WorkerAhead, Told
  <2> QED
    BY <2>1, <2>4, PositionWorker
<1>5. CASE StartChunk
  <2>1. /\ worker.pc = "chunk" /\ worker'.pc = "stream" /\ worker'.id = worker.id
        /\ worker'.pos = worker.next - 1 /\ jobs' = jobs /\ reportCh' = reportCh
    BY <1>1, <1>5 DEF StartChunk, Worker
  <2>2. Told(worker.next - 1)
    BY <2>1 DEF PositionInv, WorkerAhead
  <2>3. WorkerAhead'
    BY <2>1, <2>2 DEF WorkerAhead, Told
  <2> QED
    BY <2>1, <2>3, PositionWorker
<1>6. ASSUME NEW q \in Checkpoints, Flush(q) PROVE PositionInv'
  <2>1. /\ worker.pc = "stream" /\ worker'.pc = "report" /\ worker'.id = worker.id
        /\ worker'.pos = q /\ q \in Nat /\ worker.pos <= q - 1
        /\ jobs' = jobs /\ reportCh' = reportCh
    BY <1>1, <1>6 DEF Flush, Worker
  <2>2. Told(worker.pos) /\ WorkerActive
    BY <2>1 DEF PositionInv, WorkerAhead, WorkerActive
  <2>3. Told(q - 1)
    BY <1>1, <1>3, <2>1, <2>2
  <2>4. WorkerAhead'
    BY <2>1, <2>3 DEF WorkerAhead, Told
  <2> QED
    BY <2>1, <2>4, PositionWorker
<1>7. CASE ReportProgress
  <2>1. /\ worker.pc = "report" /\ worker'.pc = "stream" /\ worker'.id = worker.id
        /\ worker'.pos = worker.pos /\ jobs' = jobs /\ Send("batch", worker.pos)
        /\ WorkerActive
    BY <1>1, <1>7 DEF ReportProgress, Worker, WorkerActive
  <2>2. worker.pos \in Checkpoints /\ Told(worker.pos - 1)
    BY <2>1 DEF PositionInv, WorkerAhead
  <2>3. worker.id \in JobIds /\ jobs[worker.id].last \in Nat
    BY <2>1 DEF TypeOK, WorkerOK, CrawlerJob
  <2>4. jobs[worker.id].last < worker.pos
    BY <1>1, <2>2, <2>3 DEF Told
  <2>5. \A i \in DOMAIN reportCh : reportCh[i].position < worker.pos
    <3>1. \A i \in DOMAIN reportCh : reportCh[i].position \in Nat
      BY ReportTyped
    <3> QED
      BY <1>1, <2>2, <3>1 DEF Told
  <2>6. worker.pos <= jobs[worker.id].end
    <3>1. worker.pos <= worker.to /\ worker.to = ChunkEnd /\ worker.end = jobs[worker.id].end
      BY <2>1 DEF DataInv, WorkerCovered, WorkerActive
    <3>2. ChunkEnd <= worker.end /\ ChunkEnd \in Int
      BY <1>1 DEF ChunkEnd
    <3> QED
      BY <1>1, <3>1, <3>2
  <2>7. ReportsAhead'
    <3> SUFFICES ASSUME NEW i \in DOMAIN reportCh', reportCh'[i].type = "batch"
                 PROVE  LET r == reportCh'[i] IN
                        /\ r.position \in Checkpoints
                        /\ jobs'[r.id].last < r.position
                        /\ r.position <= jobs'[r.id].end
                        /\ \A k \in DOMAIN reportCh' : k < i =>
                             reportCh'[k].position < r.position
      BY DEF ReportsAhead
    <3>1. \A k \in DOMAIN reportCh' :
            k < i => k \in DOMAIN reportCh /\ reportCh'[k] = reportCh[k]
      BY <2>1, Sent
    <3>2. CASE i \in DOMAIN reportCh
      <4>1. reportCh'[i] = reportCh[i]
        BY <2>1, <3>2, Sent
      <4> QED
        BY <2>1, <3>1, <3>2, <4>1 DEF PositionInv, ReportsAhead
    <3>3. CASE i = Len(reportCh')
      <4>1. reportCh'[i].id = worker.id /\ reportCh'[i].position = worker.pos
        BY <2>1, <3>3, Sent
      <4> QED
        BY <2>1, <2>2, <2>4, <2>5, <2>6, <3>1, <4>1
    <3> QED
      BY <2>1, <3>2, <3>3, Sent
  <2>8. WorkerAhead'
    <3>1. \A i \in DOMAIN reportCh' : reportCh'[i].position <= worker.pos
      <4>1. \A i \in DOMAIN reportCh : reportCh[i].position <= worker.pos
        BY <1>1, <2>5, ReportTyped
      <4>2. ASSUME NEW i \in DOMAIN reportCh' PROVE reportCh'[i].position <= worker.pos
        <5>1. CASE i \in DOMAIN reportCh
          BY <2>1, <4>1, <5>1, Sent
        <5>2. CASE i = Len(reportCh')
          <6>1. reportCh'[i].position = worker.pos
            BY <2>1, <5>2, Sent
          <6> QED
            BY <1>1, <6>1
        <5> QED
          BY <2>1, <5>1, <5>2, Sent
      <4> QED
        BY <4>2
    <3> QED
      BY <1>1, <2>1, <2>3, <2>4, <3>1 DEF WorkerAhead, Told
  <2> QED
    BY <2>1, <2>7, <2>8 DEF PositionInv, DocumentsAhead, Exists
<1>8. CASE ChunkDone \/ ChunkAbandoned
  <2>1. /\ worker.pc = "stream" /\ worker'.pc = "chunk" /\ worker'.id = worker.id
        /\ worker'.next = worker.next + ProcessingChunkSize
        /\ jobs' = jobs /\ reportCh' = reportCh
    BY <1>1, <1>8 DEF ChunkDone, ChunkAbandoned, NextChunk, Worker
  <2>2. Told(worker.pos) /\ WorkerActive
    BY <2>1 DEF PositionInv, WorkerAhead, WorkerActive
  <2>3. worker.pos <= worker.to /\ worker.to = ChunkEnd
    BY <2>1, <2>2 DEF DataInv, WorkerCovered
  <2>4. worker.pos <= worker.next + ProcessingChunkSize - 1
    BY <1>1, <2>3 DEF ChunkEnd
  <2>5. Told(worker.next + ProcessingChunkSize - 1)
    BY <1>1, <1>3, <2>2, <2>4
  <2>6. worker'.next - 1 = worker.next + ProcessingChunkSize - 1
    BY <1>1, <2>1
  <2>7. WorkerAhead'
    BY <2>1, <2>5, <2>6 DEF WorkerAhead, Told
  <2> QED
    BY <2>1, <2>7, PositionWorker
<1>9. CASE ReportEnd
  <2>1. /\ jobs' = jobs /\ worker'.pc = "idle" /\ Send(worker.outcome, 0)
        /\ worker.outcome # "batch"
    BY <1>1, <1>9 DEF ReportEnd, WorkerAt, Outcome
  <2>2. \A i \in DOMAIN reportCh' : reportCh'[i].type = "batch" =>
          i \in DOMAIN reportCh /\ reportCh'[i] = reportCh[i]
    BY <2>1, Sent
  <2>3. \A i, k \in DOMAIN reportCh' : reportCh'[i].type = "batch" /\ k < i =>
          k \in DOMAIN reportCh /\ reportCh'[k] = reportCh[k]
    <3>1. \A i, k \in DOMAIN reportCh' : k < i =>
            k \in DOMAIN reportCh /\ reportCh'[k] = reportCh[k]
      BY <2>1, Sent
    <3> QED
      BY <3>1
  <2>4. ReportsAhead'
    BY <2>1, <2>2, <2>3 DEF PositionInv, ReportsAhead
  <2> QED
    BY <2>1, <2>4 DEF PositionInv, DocumentsAhead, Exists, WorkerAhead
<1>10. ASSUME NEW s \in orch.queue, Assign(s) PROVE PositionInv'
  <2>1. /\ jobs' = jobs /\ reportCh' = reportCh /\ worker'.pc = "setup"
        /\ worker'.id = s.id /\ worker'.next = StartCheckpoint(s)
    BY <1>10 DEF Assign, WorkerAt
  <2>2. reportCh = <<>> /\ s = Snapshot(jobs, s.id)
    BY <1>10 DEF Assign, DispatchInv, RunOK, SnapshotIsCurrent
  <2>3. s \in JobSnapshot
    BY DEF TypeOK, Orchestrator
  <2>4. jobs[s.id].last <= StartCheckpoint(s) - 1
    BY <2>2, <2>3, StartTyped DEF Snapshot, JobSnapshot
  <2>5. WorkerAhead'
    BY <2>1, <2>2, <2>4 DEF WorkerAhead, Told
  <2> QED
    BY <2>1, <2>5, PositionWorker
<1> QED
  BY <1>2, <1>4, <1>5, <1>6, <1>7, <1>8, <1>9, <1>10 DEF WorkerStep

\* Every step keeps the invariant.
LEMMA PositionInductive ==
  TypeOK /\ DataInv /\ DispatchInv /\ PositionInv /\ [Next]_vars => PositionInv'
<1> SUFFICES ASSUME TypeOK, DataInv, DispatchInv, PositionInv, [Next]_vars
             PROVE  PositionInv'
  OBVIOUS
<1>1. CASE UNCHANGED vars
  BY <1>1, PositionStable DEF vars, Moves, Keeps
<1>2. CASE Next
  BY <1>2, PositionOutside, PositionOrchestrator, PositionSteps DEF Next
<1> QED
  BY <1>1, <1>2

\* The invariant holds throughout.
LEMMA Positions == Spec => []PositionInv
<1>1. Init => PositionInv
  BY DEF Init, PositionInv, DocumentsAhead, ReportsAhead, WorkerAhead, Exists,
         AbsentJob, WorkerAt
<1> QED
  BY <1>1, PositionInductive, TypeCorrect, DataIntegrity, Dispatch, PTL DEF Spec

-----------------------------------------------------------------------------
(***************************************************************************)
(* The refinement of JobContract.                                          *)
(***************************************************************************)

\* The documents as the contract sees them.
Seen(db) == [j \in JobIds |-> [status |-> db[j].status, from |-> db[j].from,
                               last |-> db[j].last, end |-> db[j].end]]

ContractStep == Contract!ContractNext \/ UNCHANGED <<Seen(jobs), ingested>>

\* How each update looks to the contract.
LEMMA UpdatesSeen ==
  ASSUME NEW db \in [JobIds -> CrawlerJob], NEW j \in JobIds
  PROVE  /\ Seen(ClaimJob(db, j)) =
              IF db[j].status = "pending"
              THEN [Seen(db) EXCEPT ![j].status = "progressing"] ELSE Seen(db)
         /\ Seen(RequeueJob(db, j)) =
              IF db[j].status = "progressing"
              THEN [Seen(db) EXCEPT ![j].status = "pending"] ELSE Seen(db)
         /\ Seen(CompleteJob(db, j)) =
              IF db[j].status = "progressing"
              THEN [Seen(db) EXCEPT ![j].status = "completed"] ELSE Seen(db)
         /\ Seen(RetryJob(db, j)) =
              IF db[j].status # "none"
              THEN [Seen(db) EXCEPT ![j].status = "pending"] ELSE Seen(db)
         /\ \A p \in Nat :
              Seen(UpdateProgress(db, j, p)) =
                IF db[j].status = "progressing"
                THEN [Seen(db) EXCEPT ![j].last = p] ELSE Seen(db)
         /\ \A from, last, end \in Nat :
              Seen(CreateJob(db, j, from, last, end)) =
                [Seen(db) EXCEPT ![j] = [status |-> "pending", from |-> from,
                                         last |-> last, end |-> end]]
<1> USE DEF Seen, CrawlerJob
<1>1. Seen(ClaimJob(db, j)) =
        IF db[j].status = "pending"
        THEN [Seen(db) EXCEPT ![j].status = "progressing"] ELSE Seen(db)
  BY DEF ClaimJob
<1>2. Seen(RequeueJob(db, j)) =
        IF db[j].status = "progressing"
        THEN [Seen(db) EXCEPT ![j].status = "pending"] ELSE Seen(db)
  BY DEF RequeueJob
<1>3. Seen(CompleteJob(db, j)) =
        IF db[j].status = "progressing"
        THEN [Seen(db) EXCEPT ![j].status = "completed"] ELSE Seen(db)
  BY DEF CompleteJob
<1>4. Seen(RetryJob(db, j)) =
        IF db[j].status # "none"
        THEN [Seen(db) EXCEPT ![j].status = "pending"] ELSE Seen(db)
  BY DEF RetryJob
<1>5. ASSUME NEW p \in Nat
      PROVE  Seen(UpdateProgress(db, j, p)) =
               IF db[j].status = "progressing"
               THEN [Seen(db) EXCEPT ![j].last = p] ELSE Seen(db)
  BY <1>5 DEF UpdateProgress
<1>6. ASSUME NEW from \in Nat, NEW last \in Nat, NEW end \in Nat
      PROVE  Seen(CreateJob(db, j, from, last, end)) =
               [Seen(db) EXCEPT ![j] = [status |-> "pending", from |-> from,
                                        last |-> last, end |-> end]]
  BY <1>6 DEF CreateJob, AbsentJob
<1> QED
  BY <1>1, <1>2, <1>3, <1>4, <1>5, <1>6

\* So every update of one job is a step of the contract or invisible to it.
LEMMA UpdatesContract ==
  ASSUME TypeOK, ingested' = ingested, NEW j \in JobIds
  PROVE  /\ jobs' = ClaimJob(jobs, j) => ContractStep
         /\ jobs' = RequeueJob(jobs, j) => ContractStep
         /\ jobs' = RetryJob(jobs, j) => ContractStep
         /\ jobs' = CompleteJob(jobs, j) /\ Covered(j, jobs[j].end) => ContractStep
         /\ jobs' = jobs => ContractStep
<1>1. jobs \in [JobIds -> CrawlerJob] /\ jobs[j].status = Seen(jobs)[j].status
      /\ jobs[j].from = Seen(jobs)[j].from /\ jobs[j].end = Seen(jobs)[j].end
  BY DEF TypeOK, Seen
<1>2. Seen(jobs') = Seen(jobs) => ContractStep
  BY DEF ContractStep
<1>3. ASSUME jobs' = ClaimJob(jobs, j) PROVE ContractStep
  <2>1. CASE jobs[j].status = "pending"
    <3>1. Seen(jobs') = [Seen(jobs) EXCEPT ![j].status = "progressing"]
      BY <1>1, <1>3, <2>1, UpdatesSeen
    <3>2. Contract!Take(j)
      BY <2>1, <3>1 DEF Contract!Take, Seen
    <3> QED
      BY <3>2 DEF ContractStep, Contract!ContractNext
  <2>2. CASE jobs[j].status # "pending"
    BY <1>1, <1>2, <1>3, <2>2, UpdatesSeen
  <2> QED
    BY <2>1, <2>2
<1>4. ASSUME jobs' = RequeueJob(jobs, j) PROVE ContractStep
  <2>1. CASE jobs[j].status = "progressing"
    <3>1. Seen(jobs') = [i \in JobIds |-> IF i \in {j}
                                          THEN [Seen(jobs)[i] EXCEPT !.status = "pending"]
                                          ELSE Seen(jobs)[i]]
      <4>1. Seen(jobs') = [Seen(jobs) EXCEPT ![j].status = "pending"]
        BY <1>1, <1>4, <2>1, UpdatesSeen
      <4> QED
        BY <4>1 DEF Seen
    <3>2. {j} \in SUBSET {i \in JobIds : Seen(jobs)[i].status = "progressing"}
      BY <1>1, <2>1
    <3>3. Contract!GiveBack
      BY <3>1, <3>2 DEF Contract!GiveBack, Seen
    <3> QED
      BY <3>3 DEF ContractStep, Contract!ContractNext
  <2>2. CASE jobs[j].status # "progressing"
    BY <1>1, <1>2, <1>4, <2>2, UpdatesSeen
  <2> QED
    BY <2>1, <2>2
<1>5. ASSUME jobs' = RetryJob(jobs, j) PROVE ContractStep
  <2>1. CASE jobs[j].status # "none"
    <3>1. Seen(jobs') = [Seen(jobs) EXCEPT ![j].status = "pending"]
      BY <1>1, <1>5, <2>1, UpdatesSeen
    <3>2. Contract!Resubmit(j)
      BY <2>1, <3>1 DEF Contract!Resubmit, Seen
    <3> QED
      BY <3>2 DEF ContractStep, Contract!ContractNext
  <2>2. CASE jobs[j].status = "none"
    BY <1>1, <1>2, <1>5, <2>2, UpdatesSeen
  <2> QED
    BY <2>1, <2>2
<1>6. ASSUME jobs' = CompleteJob(jobs, j), Covered(j, jobs[j].end) PROVE ContractStep
  <2>1. CASE jobs[j].status = "progressing"
    <3>1. Seen(jobs') = [Seen(jobs) EXCEPT ![j].status = "completed"]
      BY <1>1, <1>6, <2>1, UpdatesSeen
    <3>2. Contract!Finish(j)
      BY <1>6, <2>1, <3>1 DEF Contract!Finish, Contract!Behind, Covered, Seen
    <3> QED
      BY <3>2 DEF ContractStep, Contract!ContractNext
  <2>2. CASE jobs[j].status # "progressing"
    BY <1>1, <1>2, <1>6, <2>2, UpdatesSeen
  <2> QED
    BY <2>1, <2>2
<1> QED
  BY <1>2, <1>3, <1>4, <1>5, <1>6

\* The API.
LEMMA ContractAPI ==
  ASSUME TypeOK,
         \/ \E r \in Requests : PostJob(r)
         \/ \E j \in JobIds : PostRetry(j)
  PROVE  ContractStep
<1>1. ASSUME NEW r \in Requests, PostJob(r) PROVE ContractStep
  <2>1. PICK j \in JobIds : /\ jobs[j].status = "none"
                            /\ jobs' = CreateJob(jobs, j, r.from, r.from, r.end)
    BY <1>1 DEF PostJob, InStatus
  <2>2. r.from \in Nat /\ r.end \in Nat /\ r.from <= r.end /\ ingested' = ingested
    BY <1>1, RequestsAssumption DEF PostJob
  <2>3. Seen(jobs') = [Seen(jobs) EXCEPT ![j] = [status |-> "pending", from |-> r.from,
                                                 last |-> r.from, end |-> r.end]]
    <3>1. jobs \in [JobIds -> CrawlerJob]
      BY DEF TypeOK
    <3>2. \A from, last, end \in Nat :
            Seen(CreateJob(jobs, j, from, last, end)) =
              [Seen(jobs) EXCEPT ![j] = [status |-> "pending", from |-> from,
                                         last |-> last, end |-> end]]
      BY <3>1, UpdatesSeen
    <3> QED
      BY <2>1, <2>2, <3>2
  <2>4. r.from \in Checkpoints /\ r.end \in Checkpoints
    BY <2>2 DEF Checkpoints
  <2>5. Contract!Submit(j)
    BY <2>1, <2>2, <2>3, <2>4 DEF Contract!Submit, Seen
  <2> QED
    BY <2>5 DEF ContractStep, Contract!ContractNext
<1>2. ASSUME NEW j \in JobIds, PostRetry(j) PROVE ContractStep
  BY <1>2, UpdatesContract DEF PostRetry
<1> QED
  BY <1>1, <1>2

\* The orchestrator.
LEMMA ContractOrchestrator ==
  ASSUME TypeOK, DataInv, PositionInv, OrchestratorStep
  PROVE  ContractStep
<1>1. /\ orch \in Orchestrator /\ jobs \in [JobIds -> CrawlerJob]
      /\ ingested' = ingested
  BY DEF TypeOK, OrchestratorStep, OrchestratorStop, Poll, PollInVain, ResetStalled,
         HandleReport, Claim, FinishClaimed, vars
<1>2. jobs' = jobs => ContractStep
  BY <1>1 DEF ContractStep, Seen
<1>3. CASE OrchestratorStop \/ Poll \/ PollInVain
  BY <1>2, <1>3 DEF OrchestratorStop, Poll, PollInVain, vars
<1>4. ASSUME NEW result \in CallResult, ResetStalled(result) PROVE ContractStep
  <2>1. CASE jobs' = ResetStalledJobs(jobs)
    <3> DEFINE stalled == {i \in JobIds : Seen(jobs)[i].status = "progressing"}
    <3>1. Seen(jobs') = [i \in JobIds |-> IF i \in stalled
                                          THEN [Seen(jobs)[i] EXCEPT !.status = "pending"]
                                          ELSE Seen(jobs)[i]]
      BY <1>1, <2>1 DEF ResetStalledJobs, Seen, CrawlerJob
    <3>2. Contract!GiveBack
      BY <1>1, <3>1 DEF Contract!GiveBack, Seen
    <3> QED
      BY <3>2 DEF ContractStep, Contract!ContractNext
  <2> QED
    BY <1>2, <1>4, <2>1 DEF ResetStalled, Effect
<1>5. ASSUME NEW result \in CallResult, HandleReport(result) PROVE ContractStep
  <2>1. PICK r \in JobReport : r = Head(reportCh) /\ r = reportCh[1] /\ 1 \in DOMAIN reportCh
    BY <1>5, Received DEF HandleReport
  <2>2. jobs' = jobs \/ jobs' = Applied(r)
    BY <1>5, <2>1 DEF HandleReport, Effect
  <2>3. r.id \in JobIds /\ r.type \in {"batch", "done", "failed"} /\ r.position \in Nat
    BY DEF JobReport
  <2>4. CASE r.type = "batch" /\ jobs' = UpdateProgress(jobs, r.id, r.position)
    <3>1. CASE jobs[r.id].status = "progressing"
      <4>1. Seen(jobs') = [Seen(jobs) EXCEPT ![r.id].last = r.position]
        BY <1>1, <2>3, <2>4, <3>1, UpdatesSeen
      <4>2. /\ r.position \in Checkpoints
            /\ jobs[r.id].last < r.position /\ r.position <= jobs[r.id].end
        BY <2>1, <2>4 DEF PositionInv, ReportsAhead
      <4>3. Covered(r.id, r.position)
        BY <2>1, <2>4 DEF DataInv, ReportsCovered
      <4>4. Contract!Advance(r.id)
        BY <1>1, <2>3, <3>1, <4>1, <4>2, <4>3
        DEF Contract!Advance, Contract!Behind, Covered, Seen
      <4> QED
        BY <2>3, <4>4 DEF ContractStep, Contract!ContractNext
    <3>2. CASE jobs[r.id].status # "progressing"
      BY <1>2, <2>4, <3>2 DEF UpdateProgress
    <3> QED
      BY <3>1, <3>2
  <2>5. CASE r.type = "done" /\ jobs' = CompleteJob(jobs, r.id)
    <3>1. Cancelled => jobs' = jobs
      BY <1>5, CallCosts DEF HandleReport, Effect
    <3>2. ~Cancelled => Covered(r.id, jobs[r.id].end)
      BY <2>1, <2>5 DEF DataInv, ReportsCovered
    <3> QED
      BY <1>1, <1>2, <2>3, <2>5, <3>1, <3>2, UpdatesContract
  <2>6. CASE r.type = "failed" /\ jobs' = RequeueJob(jobs, r.id)
    BY <1>1, <2>3, <2>6, UpdatesContract
  <2> QED
    BY <1>2, <2>2, <2>3, <2>4, <2>5, <2>6 DEF Applied
<1>6. ASSUME NEW result \in CallResult, NEW s \in orch.queue,
             Claim(s, result) \/ FinishClaimed(s, result)
      PROVE  ContractStep
  <2>1. s.id \in JobIds
    BY <1>1 DEF Orchestrator, JobSnapshot
  <2>2. CASE Claim(s, result)
    BY <1>1, <1>2, <2>1, <2>2, UpdatesContract DEF Claim, Effect
  <2>3. CASE FinishClaimed(s, result)
    <3>1. Covered(s.id, jobs[s.id].end)
      BY <2>3 DEF FinishClaimed, DataInv, QueueCovered
    <3> QED
      BY <1>1, <1>2, <2>1, <2>3, <3>1, UpdatesContract DEF FinishClaimed, Effect
  <2> QED
    BY <1>6, <2>2, <2>3
<1> QED
  BY <1>3, <1>4, <1>5, <1>6 DEF OrchestratorStep

\* The steps of the worker and of the process only add rows.
LEMMA ContractRows ==
  ASSUME TypeOK, \/ WorkerStep \/ Start \/ Signal \/ Exit \/ Crash \/ UNCHANGED vars
  PROVE  ContractStep
<1>1. jobs' = jobs /\ ingested \subseteq ingested'
  BY DEF WorkerStep, WorkerStop, Setup, SetupFails, StartChunk, ChunkCancelled,
         AllChunksDone, ReportProgress, ChunkDone, ChunkAbandoned, ReportEnd, Assign,
         Flush, ChunkFails, Start, Signal, Exit, Crash, vars
<1>2. Contract!Ingest
  BY <1>1 DEF Contract!Ingest
<1> QED
  BY <1>2 DEF ContractStep, Contract!ContractNext

\* Whatever crashes, retries and lost calls come between, positions only
\* advance, and only over rows that are in the tables, and a job is completed
\* only with all of its rows: the crawler implements the contract of a job.
THEOREM CrawlerImplementsContract == Spec => ImplementsContract
<1>1. Init => Contract!ContractInit
  BY DEF Init, Contract!ContractInit, AbsentJob
<1>2. TypeOK /\ DataInv /\ PositionInv /\ [Next]_vars
        => [Contract!ContractNext]_(Contract!contractVars)
  <2> SUFFICES ASSUME TypeOK, DataInv, PositionInv, [Next]_vars
               PROVE  [Contract!ContractNext]_(Contract!contractVars)
    OBVIOUS
  <2>1. ContractStep
    BY ContractAPI, ContractOrchestrator, ContractRows DEF Next
  <2> QED
    BY <2>1 DEF ContractStep, Contract!contractVars, Seen
<1> QED
  BY <1>1, <1>2, TypeCorrect, DataIntegrity, Positions, PTL
  DEF Spec, ImplementsContract, Contract!ContractSpec

-----------------------------------------------------------------------------
(***************************************************************************)
(* Without lost calls and retries, no flush goes unaccounted.              *)
(***************************************************************************)

Calm == process = "up" /\ spent.faults = 0 /\ spent.retries = 0

\* The job in hand is progressing, so that no update of its position misses.
HandProgressing == \A x : AtHand(x) => jobs[x].status = "progressing"

Accounted ==
  /\ worker.pc = "stream" => ReportedPosition = worker.pos
  /\ worker.pc \in {"setup", "chunk"} => ReportedPosition = Reached

CalmInv == Calm => HandProgressing /\ Accounted

\* With nobody in hand and no run there is nothing to account for.
LEMMA CalmIdle ==
  ASSUME \A x : ~AtHand(x)', ~WorkerActive'
  PROVE  CalmInv'
BY DEF CalmInv, HandProgressing, Accounted, WorkerActive

\* A calm step was calm before, unless it is the start.
LEMMA CalmBefore ==
  ASSUME TypeOK, [Next]_vars, Calm'
  PROVE  Calm \/ Start
<1>1. spent \in Spent /\ spent.faults \in Nat /\ spent.retries \in Nat
  BY DEF TypeOK, Spent
<1>2. CASE UNCHANGED vars
  BY <1>2 DEF vars, Calm
<1>3. CASE \/ \E r \in Requests : PostJob(r)
           \/ Signal \/ Exit \/ Crash
  BY <1>3 DEF PostJob, Signal, Exit, Crash, Vanish, Calm
<1>4. ASSUME NEW j \in JobIds, PostRetry(j) PROVE Calm
  BY <1>1, <1>4 DEF PostRetry, Calm, Spent
<1>5. ASSUME NEW result \in CallResult, Call(result)
      PROVE  spent'.faults = 0 /\ spent'.retries = 0 =>
               spent.faults = 0 /\ spent.retries = 0
  BY <1>1, <1>5 DEF Call, Spent
<1>6. CASE OrchestratorStep
  BY <1>5, <1>6
  DEF OrchestratorStep, OrchestratorStop, Poll, PollInVain, ResetStalled,
      HandleReport, Claim, FinishClaimed, vars, Calm
<1>7. CASE WorkerStep
  <2>1. Failure => spent'.faults = spent.faults /\ spent'.retries = spent.retries
    BY <1>1 DEF Failure, Spent
  <2> QED
    BY <1>7, <2>1
    DEF WorkerStep, WorkerStop, Setup, SetupFails, StartChunk, ChunkCancelled,
        AllChunksDone, ReportProgress, ChunkDone, ChunkAbandoned, ReportEnd, Assign,
        Flush, ChunkFails, Calm
<1> QED
  BY <1>2, <1>3, <1>4, <1>6, <1>7 DEF Next

\* In calm every call is acknowledged.
LEMMA CalmCall ==
  ASSUME TypeOK, Calm', Calm, NEW result \in CallResult, Call(result),
         process' = process
  PROVE  result = "ok"
BY CallCosts DEF Calm, Cancelled

\* The API and the orchestrator.
LEMMA CalmOutside ==
  ASSUME TypeOK, DataInv, DispatchInv, PositionInv, CalmInv, Calm, Calm',
         \/ \E r \in Requests : PostJob(r)
         \/ \E j \in JobIds : PostRetry(j)
         \/ Signal \/ Exit \/ Crash \/ UNCHANGED vars
  PROVE  CalmInv'
<1>1. ASSUME NEW r \in Requests, PostJob(r) PROVE CalmInv'
  <2>1. PICK j \in JobIds : /\ jobs[j].status = "none"
                            /\ jobs' = CreateJob(jobs, j, r.from, r.from, r.end)
    BY <1>1 DEF PostJob, InStatus
  <2>2. \A k : k # j => jobs'[k] = jobs[k]
    BY <2>1 DEF CreateJob, TypeOK
  <2>3. orch' = orch /\ worker' = worker /\ reportCh' = reportCh
    BY <1>1 DEF PostJob
  <2>4. \A x : AtHand(x)' => AtHand(x)
    BY <2>3 DEF AtHand, WorkerActive
  <2>5. HandProgressing'
    BY <2>1, <2>2, <2>4 DEF CalmInv, HandProgressing
  <2>6. WorkerActive => worker.id # j
    BY <2>1 DEF DataInv, WorkerCovered, Exists
  <2>7. Accounted'
    BY <2>2, <2>3, <2>6
    DEF CalmInv, Accounted, ReportedPosition, Reached, WorkerActive
  <2> QED
    BY <2>5, <2>7 DEF CalmInv
<1>2. ASSUME NEW j \in JobIds, PostRetry(j) PROVE FALSE
  BY <1>2 DEF PostRetry, Calm, TypeOK, Spent
<1>3. CASE Signal \/ Exit \/ Crash
  BY <1>3 DEF Signal, Exit, Crash, Vanish, Calm
<1>4. CASE UNCHANGED vars
  BY <1>4 DEF vars, CalmInv, HandProgressing, Accounted, AtHand, WorkerActive,
              ReportedPosition, Reached
<1> QED
  BY <1>1, <1>2, <1>3, <1>4

LEMMA CalmOrchestrator ==
  ASSUME TypeOK, DataInv, DispatchInv, DispatchInv', PositionInv, CalmInv, Calm,
         Calm', OrchestratorStep
  PROVE  CalmInv'
<1>1. /\ orch \in Orchestrator /\ jobs \in [JobIds -> CrawlerJob]
      /\ worker' = worker /\ process' = process
  BY DEF TypeOK, OrchestratorStep, OrchestratorStop, Poll, PollInVain, ResetStalled,
         HandleReport, Claim, FinishClaimed, vars
<1>2. WorkerActive' <=> WorkerActive
  BY <1>1 DEF WorkerActive
<1>3. HandProgressing /\ Accounted
  BY DEF CalmInv
<1>4. CASE OrchestratorStop \/ PollInVain
  <2>1. /\ jobs' = jobs /\ reportCh' = reportCh
        /\ orch'.queue = orch.queue /\ (orch'.pc = orch.pc \/ orch'.pc = "stopped")
    BY <1>1, <1>4 DEF OrchestratorStop, PollInVain, vars, Orchestrator
  <2>2. \A x : AtHand(x)' => AtHand(x)
    BY <1>1, <2>1 DEF AtHand, WorkerActive
  <2> QED
    BY <1>1, <1>3, <2>1, <2>2
    DEF CalmInv, HandProgressing, Accounted, ReportedPosition, Reached
<1>5. ASSUME ~orch'.busy, orch'.pc # "finish", ~WorkerActive PROVE CalmInv'
  <2>1. orch'.pc # "send" /\ \A i \in DOMAIN reportCh' : FALSE
    BY <1>5 DEF DispatchInv, PhaseOK, RunOK
  <2> QED
    BY <1>2, <1>5, <2>1, CalmIdle DEF AtHand
<1>6. CASE Poll
  BY <1>1, <1>5, <1>6 DEF Poll, Orchestrator, DispatchInv, RunOK
<1>7. ASSUME NEW result \in CallResult, ResetStalled(result) PROVE CalmInv'
  BY <1>1, <1>5, <1>7 DEF ResetStalled, Orchestrator, DispatchInv, PhaseOK, RunOK
<1>8. ASSUME NEW result \in CallResult, NEW s \in orch.queue, FinishClaimed(s, result)
      PROVE  CalmInv'
  BY <1>1, <1>5, <1>8 DEF FinishClaimed, OrchAt, DispatchInv, PhaseOK, RunOK
<1>9. ASSUME NEW result \in CallResult, NEW s \in orch.queue, Claim(s, result)
      PROVE  CalmInv'
  <2>1. /\ orch.pc = "scan" /\ ~orch.busy /\ ~WorkerActive /\ reportCh' = <<>>
        /\ result = "ok" /\ s.id \in JobIds
    BY <1>1, <1>9, CalmCall
    DEF Claim, DispatchInv, PhaseOK, RunOK, Orchestrator, JobSnapshot
  <2>2. CASE jobs[s.id].status # "pending"
    <3>1. orch'.pc \in {"loop", "scan"} /\ ~orch'.busy
      BY <1>1, <1>9, <2>1, <2>2 DEF Claim, NextCandidate, Orchestrator
    <3> QED
      BY <1>5, <2>1, <3>1
  <2>3. CASE jobs[s.id].status = "pending"
    <3>1. jobs'[s.id].status = "progressing"
      BY <1>1, <1>9, <2>1, <2>3 DEF Claim, Effect, ClaimJob, CrawlerJob
    <3>2. orch'.queue = {s}
      BY <1>1, <1>9, <2>1, <2>3 DEF Claim, Claimed, Orchestrator
    <3>3. \A x : AtHand(x)' => x = s.id
      BY <1>2, <2>1, <3>2 DEF AtHand
    <3> QED
      BY <1>2, <2>1, <3>1, <3>3 DEF CalmInv, HandProgressing, Accounted, WorkerActive
  <2> QED
    BY <2>2, <2>3
<1>10. ASSUME NEW result \in CallResult, HandleReport(result) PROVE CalmInv'
  <2>1. /\ orch.pc = "loop" /\ orch'.pc = "loop"
        /\ orch'.busy = IF Head(reportCh).type = "batch" THEN orch.busy ELSE FALSE
        /\ reportCh # <<>> /\ reportCh' = Tail(reportCh)
    BY <1>1, <1>10 DEF HandleReport, Orchestrator
  <2>2. result = "ok"
    BY <1>1, <1>10, CalmCall DEF HandleReport
  <2>3. PICK r \in JobReport : r = Head(reportCh) /\ r = reportCh[1] /\ 1 \in DOMAIN reportCh
    BY <2>1, Received
  <2>4. jobs' = Applied(r) /\ r.id \in JobIds /\ r.position \in Nat
    BY <1>10, <2>2, <2>3 DEF HandleReport, Effect, JobReport
  <2>5. CASE r.type # "batch"
    BY <1>5, <2>1, <2>3, <2>5 DEF DispatchInv, RunOK
  <2>6. CASE r.type = "batch"
    <3>1. \A x : AtHand(x)' => AtHand(x)
      <4>1. \A i \in DOMAIN reportCh' :
              i + 1 \in DOMAIN reportCh /\ reportCh'[i] = reportCh[i + 1]
        BY <2>1, Received
      <4> QED
        BY <1>1, <1>2, <2>1, <4>1 DEF AtHand
    <3>2. jobs' = UpdateProgress(jobs, r.id, r.position)
      BY <2>4, <2>6 DEF Applied
    <3>3. \A x : jobs[x].status = "progressing" => jobs'[x].status = "progressing"
      BY <1>1, <2>4, <3>2 DEF UpdateProgress, CrawlerJob
    <3>4. HandProgressing'
      BY <1>3, <3>1, <3>3 DEF HandProgressing
    <3>5. ASSUME WorkerActive PROVE ReportedPosition' = ReportedPosition
      <4>1. r.id = worker.id
        BY <2>3, <3>5 DEF DispatchInv, RunOK
      <4>2. jobs[worker.id].status = "progressing"
        BY <1>3, <3>5 DEF HandProgressing, AtHand
      <4>3. jobs'[worker.id].last = r.position
        BY <1>1, <2>4, <3>2, <4>1, <4>2 DEF UpdateProgress, CrawlerJob
      <4>4. CASE reportCh' = <<>>
        <5>1. Len(reportCh) = 1
          <6>1. Len(reportCh') = 0
            BY <4>4
          <6> QED
            BY <2>1, <6>1, Received
        <5> QED
          BY <1>1, <2>1, <2>3, <4>3, <4>4, <5>1 DEF ReportedPosition
      <4>5. CASE reportCh' # <<>>
        <5>1. reportCh'[Len(reportCh')] = reportCh[Len(reportCh)]
          <6>1. Len(reportCh') \in DOMAIN reportCh' /\ Len(reportCh') + 1 = Len(reportCh)
            BY <2>1, <4>5, Received DEF TypeOK
          <6> QED
            BY <2>1, <6>1, Received
        <5> QED
          BY <2>1, <4>5, <5>1 DEF ReportedPosition
      <4> QED
        BY <4>4, <4>5
    <3>6. Accounted'
      BY <1>1, <1>3, <3>5 DEF Accounted, Reached, WorkerActive
    <3> QED
      BY <3>4, <3>6 DEF CalmInv
  <2> QED
    BY <2>5, <2>6
<1> QED
  BY <1>4, <1>6, <1>7, <1>8, <1>9, <1>10 DEF OrchestratorStep

\* The worker.
LEMMA CalmWorker ==
  ASSUME TypeOK, DataInv, DispatchInv, PositionInv, CalmInv, Calm, Calm', WorkerStep
  PROVE  CalmInv'
<1>1. /\ worker \in Worker /\ orch \in Orchestrator /\ worker.next \in Nat
      /\ worker.pos \in Nat /\ worker.to \in Nat /\ worker.end \in Nat
      /\ ProcessingChunkSize \in Nat /\ ProcessingChunkSize > 0
  BY CapacityAssumption DEF TypeOK, WorkerOK, Worker
<1>2. HandProgressing /\ Accounted /\ ~Cancelled
  BY DEF CalmInv, Calm, Cancelled
<1>3. jobs' = jobs
  BY DEF WorkerStep, WorkerStop, Setup, SetupFails, StartChunk, ChunkCancelled,
         AllChunksDone, ReportProgress, ChunkDone, ChunkAbandoned, ReportEnd, Assign,
         Flush, ChunkFails
<1>4. ASSUME \A x : AtHand(x)' => AtHand(x) PROVE HandProgressing'
  BY <1>2, <1>3, <1>4 DEF HandProgressing
<1>5. ASSUME WorkerActive, orch' = orch, worker'.id = worker.id,
             reportCh' = reportCh
      PROVE  HandProgressing' /\ ReportedPosition' = ReportedPosition
  <2>1. \A x : AtHand(x)' => AtHand(x)
    BY <1>5 DEF AtHand
  <2> QED
    BY <1>3, <1>4, <1>5, <2>1 DEF ReportedPosition
<1>6. CASE WorkerStop \/ ChunkCancelled \/ ChunkAbandoned
  BY <1>2, <1>6 DEF WorkerStop, ChunkCancelled, ChunkAbandoned
<1>7. CASE \/ SetupFails \/ AllChunksDone
           \/ \E S \in SUBSET Checkpoints : ChunkFails(S)
  <2>1. /\ WorkerActive /\ orch' = orch /\ reportCh' = reportCh
        /\ EndRun("failed") \/ EndRun("done")
    BY <1>7 DEF SetupFails, AllChunksDone, ChunkFails, WorkerActive
  <2>2. worker'.pc = "final" /\ worker'.id = worker.id
    BY <1>1, <2>1 DEF EndRun, Worker
  <2> QED
    BY <1>5, <2>1, <2>2 DEF CalmInv, Accounted
<1>8. CASE Setup
  <2>1. /\ worker.pc = "setup" /\ WorkerActive /\ orch' = orch /\ reportCh' = reportCh
        /\ worker' = [worker EXCEPT !.pc = "chunk"]
    BY <1>8 DEF Setup, WorkerActive
  <2>2. /\ worker'.pc = "chunk" /\ worker'.id = worker.id /\ worker'.next = worker.next
        /\ worker'.end = worker.end
    BY <1>1, <2>1 DEF Worker
  <2> QED
    BY <1>2, <1>5, <2>1, <2>2 DEF CalmInv, Accounted, Reached
<1>9. CASE StartChunk
  <2>1. /\ worker.pc = "chunk" /\ WorkerActive /\ orch' = orch /\ reportCh' = reportCh
        /\ worker.next <= worker.end
        /\ worker'.pc = "stream" /\ worker'.id = worker.id
        /\ worker'.pos = worker.next - 1
    BY <1>1, <1>9 DEF StartChunk, WorkerActive, Worker
  <2>2. Reached = worker.next - 1
    BY <1>1, <2>1 DEF Reached
  <2> QED
    BY <1>2, <1>5, <2>1, <2>2 DEF CalmInv, Accounted
<1>10. ASSUME NEW q \in Checkpoints, Flush(q) PROVE CalmInv'
  <2>1. /\ WorkerActive /\ orch' = orch /\ reportCh' = reportCh
        /\ worker'.pc = "report" /\ worker'.id = worker.id
    BY <1>1, <1>10 DEF Flush, WorkerActive, Worker
  <2> QED
    BY <1>5, <2>1 DEF CalmInv, Accounted
<1>11. CASE ReportProgress
  <2>1. /\ WorkerActive /\ orch' = orch /\ Send("batch", worker.pos)
        /\ worker'.pc = "stream" /\ worker'.id = worker.id /\ worker'.pos = worker.pos
    BY <1>1, <1>11 DEF ReportProgress, WorkerActive, Worker
  <2>2. /\ reportCh' # <<>> /\ reportCh'[Len(reportCh')].position = worker.pos
        /\ reportCh'[Len(reportCh')].type = "batch"
    BY <2>1, Sent
  <2>3. \A i \in DOMAIN reportCh' : reportCh'[i].type # "batch" =>
          i \in DOMAIN reportCh /\ reportCh'[i] = reportCh[i]
    BY <2>1, <2>2, Sent
  <2>4. \A x : AtHand(x)' => AtHand(x)
    BY <2>1, <2>3 DEF AtHand
  <2>5. ReportedPosition' = worker.pos
    BY <2>2 DEF ReportedPosition
  <2> QED
    BY <1>4, <2>1, <2>4, <2>5 DEF CalmInv, Accounted
<1>12. CASE ChunkDone
  <2>1. /\ WorkerActive /\ orch' = orch /\ reportCh' = reportCh /\ worker.pc = "stream"
        /\ worker.pos = worker.to /\ worker'.pc = "chunk" /\ worker'.id = worker.id
        /\ worker'.next = worker.next + ProcessingChunkSize
        /\ worker'.end = worker.end
    BY <1>1, <1>12 DEF ChunkDone, NextChunk, WorkerActive, Worker
  <2>2. worker.to = ChunkEnd
    BY <2>1 DEF DataInv, WorkerCovered
  <2>3. Reached' = worker.pos
    BY <1>1, <2>1, <2>2 DEF Reached, ChunkEnd
  <2> QED
    BY <1>2, <1>5, <2>1, <2>3 DEF CalmInv, Accounted
<1>13. CASE ReportEnd
  <2>1. /\ WorkerActive /\ orch' = orch /\ Send(worker.outcome, 0) /\ worker'.pc = "idle"
    BY <1>1, <1>13 DEF ReportEnd, WorkerActive, WorkerAt
  <2>2. ASSUME NEW CONSTANT x, AtHand(x)' PROVE AtHand(x)
    <3>1. CASE \E s \in orch.queue : orch.pc \in {"finish", "send"} /\ x = s.id
      BY <3>1 DEF AtHand
    <3>2. ASSUME NEW i \in DOMAIN reportCh', reportCh'[i].type # "batch",
                 x = reportCh'[i].id
          PROVE  AtHand(x)
      <4>1. CASE i \in DOMAIN reportCh
        <5>1. reportCh'[i] = reportCh[i]
          BY <2>1, <4>1, Sent
        <5> QED
          BY <3>2, <4>1, <5>1 DEF AtHand
      <4>2. CASE i = Len(reportCh')
        <5>1. x = worker.id
          BY <2>1, <3>2, <4>2, Sent
        <5> QED
          BY <2>1, <5>1 DEF AtHand
      <4> QED
        BY <2>1, <4>1, <4>2, Sent
    <3> QED
      BY <2>1, <2>2, <3>1, <3>2 DEF AtHand, WorkerActive
  <2> QED
    BY <1>4, <2>1, <2>2 DEF CalmInv, Accounted
<1>14. ASSUME NEW s \in orch.queue, Assign(s) PROVE CalmInv'
  <2>1. /\ orch.pc = "send" /\ orch'.pc = "loop" /\ reportCh' = reportCh
        /\ worker'.pc = "setup" /\ worker'.id = s.id /\ worker'.end = s.end
        /\ worker'.next = StartCheckpoint(s)
    BY <1>1, <1>14 DEF Assign, WorkerAt, Orchestrator
  <2>2. /\ reportCh = <<>> /\ s = Snapshot(jobs, s.id) /\ StartCheckpoint(s) <= s.end
    BY <1>14, <2>1 DEF DispatchInv, PhaseOK, RunOK, SnapshotIsCurrent
  <2>3. \A x : AtHand(x)' => AtHand(x)
    BY <2>1 DEF AtHand
  <2>4. /\ s.id \in JobIds /\ s.last \in Nat /\ s.from \in Nat /\ s.end \in Nat
        /\ s.last = jobs[s.id].last /\ s.from = jobs[s.id].from /\ Exists(s.id)
    BY <1>1, <2>2 DEF Orchestrator, JobSnapshot, Snapshot, DataInv, QueueCovered
  <2>5. s.from <= s.last
    BY <2>4 DEF PositionInv, DocumentsAhead
  <2>6. Reached' = s.last
    BY <2>1, <2>2, <2>4, <2>5 DEF Reached, StartCheckpoint
  <2>7. ReportedPosition' = s.last
    BY <1>3, <2>1, <2>2, <2>4 DEF ReportedPosition
  <2> QED
    BY <1>4, <2>1, <2>3, <2>6, <2>7 DEF CalmInv, Accounted
<1> QED
  BY <1>6, <1>7, <1>8, <1>9, <1>10, <1>11, <1>12, <1>13, <1>14 DEF WorkerStep

\* As long as no call fails and no retry interferes, what the running worker has
\* flushed is in MongoDB or on its way there, for every size of the chunks and
\* every capacity of the channel.
THEOREM FlushesAccounted == Spec => []ProgressAccounted
<1>1. Init => CalmInv
  BY DEF Init, CalmInv, Calm
<1>2. TypeOK /\ DataInv /\ DispatchInv /\ DispatchInv' /\ PositionInv /\ CalmInv
        /\ [Next]_vars => CalmInv'
  <2> SUFFICES ASSUME TypeOK, DataInv, DispatchInv, DispatchInv', PositionInv,
                      CalmInv, [Next]_vars
               PROVE  CalmInv'
    OBVIOUS
  <2>1. CASE ~Calm'
    BY <2>1 DEF CalmInv
  <2>2. CASE Start
    <3>1. /\ orch'.pc = "start" /\ ~orch'.busy /\ worker'.pc = "idle"
      BY <2>2 DEF Start, OrchAt, WorkerAt
    <3>2. ~WorkerActive' /\ \A i \in DOMAIN reportCh' : FALSE
      BY <3>1 DEF WorkerActive, DispatchInv, RunOK
    <3> QED
      BY <3>1, <3>2, CalmIdle DEF AtHand
  <2>3. CASE Calm' /\ Calm /\ ~Start
    BY <2>3, CalmOutside, CalmOrchestrator, CalmWorker DEF Next
  <2> QED
    BY <2>1, <2>2, <2>3, CalmBefore
<1>3. CalmInv => ProgressAccounted
  BY DEF CalmInv, Calm, Accounted, ProgressAccounted
<1> QED
  BY <1>1, <1>2, <1>3, TypeCorrect, DataIntegrity, Dispatch, Positions, PTL DEF Spec

=============================================================================
