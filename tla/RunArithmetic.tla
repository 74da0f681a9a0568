--------------------------- MODULE RunArithmetic ---------------------------
(***************************************************************************)
(* The arithmetic of one run, in integers that wrap around: the settings   *)
(* it starts from, where it resumes its job, how it cuts the range into    *)
(* chunks and the chunks into fetch batches, and what the archive says to  *)
(* a number it does not have.  The API takes any range of int64 numbers,   *)
(* so the sums near the largest of them overflow.                          *)
(*                                                                         *)
(* The batches are fetched in the order in which they are dispatched here; *)
(* what the goroutines of a chunk do to the order is CheckpointPipeline's. *)
(* (The dispatcher can be 2 * 8 + 1 batches ahead of a fetch that fails, of *)
(* the 50 of a chunk: it does not get to the last one either.)             *)
(***************************************************************************)
EXTENDS Settings, Sequences

CONSTANTS
  ProcessingChunkSize,   \* processingChunkSize (500)
  CheckpointBatchSize,   \* the client's checkpointBatchSize (10)
  Tip,                   \* the last checkpoint of the archive
  Environments           \* the settings of the environment: rps and timeout

ASSUME ArithmeticAssumption ==
  /\ ProcessingChunkSize \in 1 .. MaxInt
  /\ CheckpointFetchBatchSize < ProcessingChunkSize
  /\ CheckpointFetchBatchSize <= CheckpointBatchSize /\ CheckpointBatchSize \in Nat
  /\ Tip \in Nat /\ Tip + ProcessingChunkSize <= MaxInt
  /\ Environments \subseteq [rps : Float, timeout : Int]

VARIABLES
  env,          \* the settings of the environment
  pc,           \* where the program is
  pools,        \* the numbers derived from the settings
  job,          \* the range and the position of the job
  batchStart,   \* the variable of processBatchesSequential
  to,           \* the last checkpoint of the chunk
  start,        \* the variable of the dispatcher
  fetched       \* the checkpoints fetched, in order

vars == <<env, pc, pools, job, batchStart, to, start, fetched>>

Int64 == MinInt .. MaxInt
Width == MaxInt - MinInt + 1

\* Two's complement, for a sum of two numbers.
Wrap(n) == CASE n > MaxInt -> n - Width
             [] n < MinInt -> n + Width
             [] OTHER      -> n

\* uint64(seq)
Unsigned(n) == IF n < 0 THEN n + Width ELSE n

NoPools == [fetchers |-> 0, hydrators |-> 0, dataCap |-> 0, resultCap |-> 0,
            burst |-> NoLimiter]

\* A job as CreateJob stores it, or with a position that was ingested.
Init ==
  /\ env \in Environments
  /\ pc = "load" /\ pools = NoPools
  /\ \E from, end \in 0 .. MaxInt : \E last \in from .. end :
       /\ last = from \/ last <= Tip
       /\ job = [from |-> from, last |-> last, end |-> end]
  /\ batchStart = 0 /\ to = 0 /\ start = 0 /\ fetched = <<>>

-----------------------------------------------------------------------------
Load ==
  /\ pc = "load"
  /\ IF ~Loads(env) THEN pc' = "exit" /\ UNCHANGED pools
     ELSE /\ pc' = "claim"
          /\ \E whole \in IntOf(env.rps), ceil \in CeilOf(env.rps) :
               pools' = Pools(env.rps, whole, ceil)
  /\ UNCHANGED <<env, job, batchStart, to, start, fetched>>

\* resolveStartCheckpoint, and again processJob
StartCheckpoint == AtLeast(job.from, Wrap(job.last + 1))

Claim ==
  /\ pc = "claim"
  /\ pc' = IF StartCheckpoint > job.end THEN "done" ELSE "chunk"
  /\ batchStart' = StartCheckpoint
  /\ UNCHANGED <<env, pools, job, to, start, fetched>>

\* Mistake: no clamp to the end of the job.
BatchEndUnclamped == Wrap(batchStart + ProcessingChunkSize - 1)

\* Mistake: one checkpoint too many.
BatchEndBeyond == AtMost(job.end, Wrap(batchStart + ProcessingChunkSize))

BatchEnd == AtMost(job.end, Wrap(batchStart + ProcessingChunkSize - 1))

Chunk ==
  /\ pc = "chunk"
  /\ IF batchStart > job.end THEN pc' = "done" /\ UNCHANGED <<to, start>>
     ELSE pc' = "dispatch" /\ to' = BatchEnd /\ start' = batchStart
  /\ UNCHANGED <<env, pools, job, batchStart, fetched>>

\* The loop of the dispatcher is over, and with it the chunk.
ChunkDone ==
  /\ pc = "dispatch" /\ start > to
  /\ pc' = "chunk"
  /\ batchStart' = Wrap(batchStart + ProcessingChunkSize)
  /\ UNCHANGED <<env, pools, job, to, start, fetched>>

LastOfBatch == AtMost(to, Wrap(start + CheckpointFetchBatchSize - 1))

\* Empty when the last number of the batch has overflown.
SeqNums == [i \in 1 .. LastOfBatch - start + 1 |-> start + i - 1]

\* Mistake: the sign is lost, and with it the numbers that do not exist.
InArchiveSigned(seq) == seq <= Tip

\* GetCheckpoint, for any number that fits into uint64.
InArchive(seq) == Unsigned(seq) <= Tip

\* A batch is fetched whole; a checkpoint that is not there fails the run.  The
\* loop that lists the numbers of a batch would not end if the last of them were
\* the largest of all.
FetchBatch ==
  /\ pc = "dispatch" /\ start <= to
  /\ IF LastOfBatch = MaxInt THEN pc' = "endless" /\ UNCHANGED <<start, fetched>>
     ELSE IF /\ Len(SeqNums) <= CheckpointBatchSize
             /\ \A i \in DOMAIN SeqNums : InArchive(SeqNums[i])
     THEN /\ fetched' = fetched \o SeqNums
          /\ start' = Wrap(start + CheckpointFetchBatchSize)
          /\ UNCHANGED pc
     ELSE pc' = "failed" /\ UNCHANGED <<start, fetched>>
  /\ UNCHANGED <<env, pools, job, batchStart, to>>

Next == Load \/ Claim \/ Chunk \/ ChunkDone \/ FetchBatch

Spec == Init /\ [][Next]_vars

\* The program runs and each call returns.
FairSpec == Spec /\ WF_vars(Next)

-----------------------------------------------------------------------------
(***************************************************************************)
(* Properties.                                                             *)
(***************************************************************************)

\* A run fetches its range from the position on, each checkpoint once and in
\* order, none twice where two batches or two chunks meet, none beyond the
\* end, none skipped by an overflow; it is done with all of them, and no list
\* of numbers to fetch grows for ever.
FetchedInOrder ==
  /\ \A i \in DOMAIN fetched : fetched[i] = job.last + i /\ fetched[i] <= job.end
  /\ pc = "done" => Len(fetched) = job.end - job.last
  /\ pc # "endless"

\* What is fetched belongs to the chunk that is open: the loop of the dispatcher
\* neither runs past the end of its chunk nor falls back behind its beginning,
\* be it by an overflow.  So no more than one chunk of results can pile up in
\* the writer's pending map behind a checkpoint that is slow to arrive.
ChunkBounded ==
  [][\A i \in DOMAIN fetched' \ DOMAIN fetched :
       fetched'[i] - batchStart \in 0 .. ProcessingChunkSize - 1]_vars

\* Every run ends, and well exactly when the archive has what is left of its
\* range: no overflow makes a loop endless, or fails a run that could succeed,
\* or passes over checkpoints that do not exist yet.  (Only a job whose single
\* checkpoint is the largest number of all fails with nothing left to fetch.)
Feasible == job.end <= Tip \/ (job.last = job.end /\ job.end # MaxInt)

RunEndsRightly ==
  pc = "claim" ~> IF Feasible THEN pc = "done" ELSE pc = "failed"

\* Whatever rate is configured (none, negative, a fraction, Inf, NaN), there is
\* at least one fetcher and two hydrators and at most the allowed number, no
\* channel is made with a negative or zero capacity, and a limiter is there
\* exactly for a positive rate and lets at least one call through at a time.
PoolsSized ==
  pc \notin {"load", "exit"} =>
    /\ pools.fetchers \in 1 .. MaxCheckpointFetchParallelism
    /\ pools.hydrators \in 2 .. MaxTransactionHydrationWorkers
    /\ pools.dataCap >= 1 /\ pools.resultCap >= 1
    /\ IF Positive(env.rps) THEN pools.burst >= 1 ELSE pools.burst = NoLimiter
=============================================================================
