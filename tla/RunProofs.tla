----------------------------- MODULE RunProofs -----------------------------
(***************************************************************************)
(* Theorems about RunArithmetic, for integers of every width and for every *)
(* chunk size, batch size, tip and setting: the pools are sized, and a run *)
(* fetches its range in order, chunk by chunk, and ends rightly whatever   *)
(* overflows on the way.                                                   *)
(***************************************************************************)
EXTENDS RunArithmetic, TLAPS

LEMMA ConstantsTyped ==
  /\ MaxInt \in Nat /\ MinInt = -MaxInt - 1 /\ Width = MaxInt + MaxInt + 2
  /\ ProcessingChunkSize \in Nat /\ ProcessingChunkSize >= 1
  /\ ProcessingChunkSize <= MaxInt
  /\ CheckpointFetchBatchSize \in Nat /\ CheckpointFetchBatchSize >= 1
  /\ CheckpointFetchBatchSize < ProcessingChunkSize
  /\ Tip \in Nat /\ Tip + ProcessingChunkSize <= MaxInt
BY SettingsAssumption, ArithmeticAssumption DEF Width

\* A sum that wraps around comes out negative, any other as it is.
LEMMA WrapSum ==
  ASSUME NEW a \in Int64, NEW b \in 0 .. MaxInt
  PROVE  /\ Wrap(a + b) \in Int64 /\ Wrap(a + b) \in Int /\ a + b \in Int
         /\ a + b <= MaxInt => Wrap(a + b) = a + b
         /\ a + b > MaxInt => Wrap(a + b) = a + b - Width /\ Wrap(a + b) < 0
BY ConstantsTyped DEF Wrap, Int64

LEMMA ClampTyped ==
  ASSUME NEW a \in Int, NEW b \in Int
  PROVE  /\ AtMost(a, b) = IF b > a THEN a ELSE b
         /\ AtLeast(a, b) = IF b < a THEN a ELSE b
BY DEF AtMost, AtLeast

-----------------------------------------------------------------------------
(***************************************************************************)
(* The pools.                                                              *)
(***************************************************************************)

LEMMA Conversions ==
  ASSUME NEW x \in Float
  PROVE  IntOf(x) \subseteq Int /\ CeilOf(x) \subseteq Int
<1>1. MinInt \in Int /\ MaxInt \in Int
  BY SettingsAssumption
<1>2. x.halves \in Int
  BY DEF Float
<1>3. CASE x.class # "number"
  BY <1>1, <1>3 DEF IntOf, CeilOf, Undefined
<1>4. CASE x.class = "number"
  BY <1>2, <1>4 DEF IntOf, CeilOf
<1> QED
  BY <1>3, <1>4

LEMMA ProductPositive ==
  \A a, b \in Int : a >= 1 /\ b >= 1 => a * b \in Int /\ a * b >= 1
OBVIOUS

LEMMA PoolsTyped ==
  ASSUME NEW rps \in Float, NEW whole \in Int, NEW ceil \in Int
  PROVE  LET p == Pools(rps, whole, ceil)
         IN  /\ \A f \in DOMAIN p : p[f] \in Int
             /\ p.fetchers \in 1 .. MaxCheckpointFetchParallelism
             /\ p.hydrators \in 2 .. MaxTransactionHydrationWorkers
             /\ p.dataCap >= 1 /\ p.resultCap >= 1
             /\ IF Positive(rps) THEN p.burst >= 1 ELSE p.burst = NoLimiter
<1> DEFINE fetchers  == FetchConcurrency(rps, ceil)
           hydrators == HydrationConcurrency(ceil, fetchers)
<1>1. /\ MaxCheckpointFetchParallelism \in Int /\ MaxCheckpointFetchParallelism >= 1
      /\ MaxTransactionHydrationWorkers \in Int /\ MaxTransactionHydrationWorkers >= 2
      /\ CheckpointFetchBatchSize \in Int /\ CheckpointFetchBatchSize >= 1
  BY SettingsAssumption
<1>2. fetchers \in 1 .. MaxCheckpointFetchParallelism
  BY <1>1 DEF FetchConcurrency, AtMost, AtLeast
<1>3. hydrators \in 2 .. MaxTransactionHydrationWorkers
  <2>1. fetchers * 2 \in Int
    BY <1>1, <1>2
  <2> HIDE DEF fetchers
  <2> QED
    BY <1>1, <2>1 DEF HydrationConcurrency, AtMost, AtLeast
<1>4. Burst(rps, whole) \in Int
      /\ IF Positive(rps) THEN Burst(rps, whole) >= 1 ELSE Burst(rps, whole) = NoLimiter
  BY DEF Burst, AtLeast, NoLimiter
<1> HIDE DEF fetchers, hydrators
<1>5. /\ fetchers * CheckpointFetchBatchSize \in Int
      /\ hydrators * CheckpointFetchBatchSize \in Int
      /\ fetchers * CheckpointFetchBatchSize >= 1
      /\ hydrators * CheckpointFetchBatchSize >= 1
  BY <1>1, <1>2, <1>3, ProductPositive
<1>6. Pools(rps, whole, ceil) =
        [fetchers |-> fetchers, hydrators |-> hydrators,
         dataCap |-> fetchers * CheckpointFetchBatchSize,
         resultCap |-> hydrators * CheckpointFetchBatchSize,
         burst |-> Burst(rps, whole)]
  BY DEF Pools, fetchers, hydrators
<1> QED
  BY <1>1, <1>2, <1>3, <1>4, <1>5, <1>6

LEMMA LoadPools ==
  ASSUME env \in Environments, Load, pc' = "claim"
  PROVE  PoolsSized' /\ \A f \in DOMAIN pools' : pools'[f] \in Int
<1>1. env.rps \in Float
  BY ArithmeticAssumption
<1>2. PICK whole \in IntOf(env.rps), ceil \in CeilOf(env.rps) :
        pools' = Pools(env.rps, whole, ceil)
  BY DEF Load
<1>3. whole \in Int /\ ceil \in Int
  BY <1>1, <1>2, Conversions
<1>4. env' = env
  BY DEF Load
<1> QED
  BY <1>1, <1>2, <1>3, <1>4, PoolsTyped DEF PoolsSized

-----------------------------------------------------------------------------
(***************************************************************************)
(* Types.                                                                  *)
(***************************************************************************)

TypeOK ==
  /\ pc \in {"load", "exit", "claim", "chunk", "dispatch", "done", "failed",
            "endless"}
  /\ env \in Environments
  /\ \A f \in DOMAIN pools : pools[f] \in Int
  /\ job \in [from : Int64, last : Int64, end : Int64]
  /\ batchStart \in Int64 /\ to \in Int64 /\ start \in Int64
  /\ fetched \in Seq(Int64)

LEMMA TypeInit == Init => TypeOK
<1> SUFFICES ASSUME Init PROVE TypeOK
  OBVIOUS
<1>1. \A f \in DOMAIN pools : pools[f] \in Int
  BY DEF Init, NoPools, NoLimiter
<1>2. job \in [from : Int64, last : Int64, end : Int64]
  BY ConstantsTyped DEF Init, Int64
<1>3. fetched \in Seq(Int64)
  BY DEF Init
<1> QED
  BY <1>1, <1>2, <1>3, ConstantsTyped DEF Init, TypeOK, Int64

\* The numbers of a batch, from its first.
LEMMA SeqNumsTyped ==
  ASSUME TypeOK
  PROVE  /\ LastOfBatch \in Int64
         /\ LastOfBatch >= start =>
              /\ Len(SeqNums) = LastOfBatch - start + 1
              /\ SeqNums \in Seq(Int64)
              /\ \A i \in 1 .. LastOfBatch - start + 1 : SeqNums[i] = start + i - 1
         /\ LastOfBatch < start => SeqNums = <<>>
<1>1. start \in Int64 /\ to \in Int64 /\ start \in Int /\ to \in Int
  BY ConstantsTyped DEF TypeOK, Int64
<1>2. Wrap(start + CheckpointFetchBatchSize - 1) \in Int64
  <2>1. CheckpointFetchBatchSize - 1 \in 0 .. MaxInt
        /\ start + CheckpointFetchBatchSize - 1 = start + (CheckpointFetchBatchSize - 1)
    BY <1>1, ConstantsTyped
  <2> QED
    BY <1>1, <2>1, WrapSum
<1>3. LastOfBatch \in Int64 /\ LastOfBatch \in Int
  BY <1>1, <1>2, ConstantsTyped DEF LastOfBatch, AtMost, Int64
<1> DEFINE n == LastOfBatch - start + 1
<1>4. n \in Int
  BY <1>1, <1>3
<1>5. ASSUME LastOfBatch >= start
      PROVE  /\ Len(SeqNums) = n /\ SeqNums \in Seq(Int64)
             /\ \A i \in 1 .. n : SeqNums[i] = start + i - 1
  <2>1. n \in Nat /\ \A i \in 1 .. n : start + i - 1 \in Int64
    BY <1>1, <1>3, <1>5, ConstantsTyped DEF Int64
  <2>2. SeqNums = [i \in 1 .. n |-> start + i - 1]
    BY DEF SeqNums
  <2> HIDE DEF n
  <2>3. SeqNums \in [1 .. n -> Int64]
    BY <2>1, <2>2
  <2> QED
    BY <2>1, <2>2, <2>3
<1>6. ASSUME LastOfBatch < start PROVE SeqNums = <<>>
  <2>1. 1 .. n = {}
    BY <1>1, <1>3, <1>6
  <2> QED
    BY <2>1 DEF SeqNums
<1> QED
  BY <1>3, <1>5, <1>6

LEMMA TypeNext == TypeOK /\ [Next]_vars => TypeOK'
<1> SUFFICES ASSUME TypeOK, [Next]_vars PROVE TypeOK'
  OBVIOUS
<1>1. CASE Load
  <2>1. \A f \in DOMAIN pools' : pools'[f] \in Int
    BY <1>1, LoadPools DEF Load, TypeOK
  <2> QED
    BY <1>1, <2>1 DEF Load, TypeOK
<1>2. CASE Claim
  <2>1. job.last \in Int64 /\ job.from \in Int64 /\ 1 \in 0 .. MaxInt
    BY ConstantsTyped DEF TypeOK
  <2>2. Wrap(job.last + 1) \in Int64
    BY <2>1, WrapSum
  <2>3. StartCheckpoint \in Int64
    BY <2>1, <2>2 DEF StartCheckpoint, AtLeast
  <2> QED
    BY <1>2, <2>3 DEF Claim, TypeOK
<1>3. CASE Chunk
  <2>1. batchStart \in Int64 /\ job.end \in Int64 /\ batchStart \in Int
    BY ConstantsTyped DEF TypeOK, Int64
  <2>2. Wrap(batchStart + ProcessingChunkSize - 1) \in Int64
    <3>1. /\ ProcessingChunkSize - 1 \in 0 .. MaxInt
          /\ batchStart + ProcessingChunkSize - 1 = batchStart + (ProcessingChunkSize - 1)
      BY <2>1, ConstantsTyped
    <3> QED
      BY <2>1, <3>1, WrapSum
  <2>3. BatchEnd \in Int64
    BY <2>1, <2>2 DEF BatchEnd, AtMost
  <2> QED
    BY <1>3, <2>1, <2>3 DEF Chunk, TypeOK
<1>4. CASE ChunkDone
  <2>1. Wrap(batchStart + ProcessingChunkSize) \in Int64
    BY ConstantsTyped, WrapSum DEF TypeOK
  <2> QED
    BY <1>4, <2>1 DEF ChunkDone, TypeOK
<1>5. CASE FetchBatch
  <2>1. Wrap(start + CheckpointFetchBatchSize) \in Int64
    BY ConstantsTyped, WrapSum DEF TypeOK
  <2>2. SeqNums \in Seq(Int64)
    <3>1. start \in Int /\ LastOfBatch \in Int
      BY SeqNumsTyped, ConstantsTyped DEF TypeOK, Int64
    <3>2. CASE LastOfBatch >= start
      BY <3>2, SeqNumsTyped
    <3>3. CASE LastOfBatch < start
      BY <3>3, SeqNumsTyped
    <3> QED
      BY <3>1, <3>2, <3>3
  <2>3. fetched \o SeqNums \in Seq(Int64)
    BY <2>2 DEF TypeOK
  <2> QED
    BY <1>5, <2>1, <2>3 DEF FetchBatch, TypeOK
<1>6. CASE UNCHANGED vars
  BY <1>6 DEF vars, TypeOK
<1> QED
  BY <1>1, <1>2, <1>3, <1>4, <1>5, <1>6 DEF Next

\* The types that the other proofs start from.
LEMMA RunTyped == Spec => []TypeOK
BY TypeInit, TypeNext, PTL DEF Spec

\* Whatever rate is configured, the goroutines, channels and the limiter of a
\* chunk get legal sizes (checkpointFetchConcurrency and its siblings).
THEOREM RunPoolsSized == Spec => []PoolsSized
<1>1. Init => PoolsSized
  BY DEF Init, PoolsSized
<1>2. TypeOK /\ PoolsSized /\ [Next]_vars => PoolsSized'
  <2> SUFFICES ASSUME TypeOK, PoolsSized, [Next]_vars PROVE PoolsSized'
    OBVIOUS
  <2>1. CASE Load
    <3>1. CASE pc' = "claim"
      BY <2>1, <3>1, LoadPools DEF TypeOK
    <3>2. CASE pc' # "claim"
      BY <2>1, <3>2 DEF Load, PoolsSized
    <3> QED
      BY <3>1, <3>2
  <2>2. CASE Claim \/ Chunk \/ ChunkDone \/ FetchBatch \/ UNCHANGED vars
    <3>1. pools' = pools /\ env' = env /\ (pc' \in {"load", "exit"} <=> pc \in {"load", "exit"})
      BY <2>2 DEF Claim, Chunk, ChunkDone, FetchBatch, vars
    <3> QED
      BY <3>1 DEF PoolsSized
  <2> QED
    BY <2>1, <2>2 DEF Next
<1> QED
  BY <1>1, <1>2, RunTyped, PTL DEF Spec

-----------------------------------------------------------------------------
(***************************************************************************)
(* The order of the fetches.                                               *)
(***************************************************************************)

\* A number the archive does not have, from below or from above.
Hopeless(n) == n < 0 \/ n > Tip

JobOK ==
  /\ job.from \in 0 .. MaxInt /\ job.last \in 0 .. MaxInt /\ job.end \in 0 .. MaxInt
  /\ job.from <= job.last /\ job.last <= job.end
  /\ job.last = job.from \/ job.last <= Tip

\* The last checkpoint fetched, or the position of the job.
Last == job.last + Len(fetched)

InOrder ==
  /\ \A i \in DOMAIN fetched : fetched[i] = job.last + i
  /\ Last <= job.end
  /\ pc \in {"load", "exit", "claim"} => fetched = <<>>
  /\ pc = "done" => Last = job.end
  /\ pc # "endless"

\* Between two chunks: the next one follows, or all is fetched, or the sum has
\* overflown or left the archive and the run is about to fail.
ChunkInv ==
  pc = "chunk" =>
    \/ batchStart <= job.end /\ Hopeless(batchStart)
    \/ batchStart <= job.end /\ batchStart = Last + 1
    \/ batchStart > job.end /\ Last = job.end

\* The end of the chunk, where nothing overflows.
ChunkTo ==
  /\ batchStart + ProcessingChunkSize <= MaxInt
  /\ to = IF batchStart + ProcessingChunkSize - 1 > job.end THEN job.end
          ELSE batchStart + ProcessingChunkSize - 1

\* Within a chunk: the next batch follows, or the chunk is fetched, or the next
\* batch cannot be fetched, or the chunk is empty because its end has overflown.
DispatchInv ==
  pc = "dispatch" =>
    \/ start <= to /\ start = Last + 1 /\ start <= Tip /\ ChunkTo
    \/ start > to /\ Last = to /\ ChunkTo
    \/ start <= to /\ Hopeless(start)
    \/ start > to /\ batchStart + ProcessingChunkSize > MaxInt

\* A batch that cannot be fetched begins its chunk, or comes right after the last
\* checkpoint of the archive, or its numbers are negative: none of them ends
\* with the largest number.
HopelessInv ==
  pc = "dispatch" /\ start <= to /\ Hopeless(start) =>
    \/ start <= Tip + 1
    \/ start = batchStart /\ (to = MaxInt => batchStart + ProcessingChunkSize - 1 = MaxInt)

RunInv == TypeOK /\ JobOK /\ InOrder /\ ChunkInv /\ DispatchInv /\ HopelessInv

LEMMA RunInvInit == Init => RunInv
<1> SUFFICES ASSUME Init PROVE RunInv
  OBVIOUS
<1>1. JobOK
  BY ConstantsTyped DEF Init, JobOK
<1>2. fetched = <<>> /\ pc = "load"
  BY DEF Init
<1>3. InOrder
  BY <1>1, <1>2 DEF InOrder, JobOK, Last
<1> QED
  BY <1>1, <1>2, <1>3, TypeInit DEF RunInv, ChunkInv, DispatchInv, HopelessInv

\* The facts about a state that the steps below start from.
LEMMA Facts ==
  ASSUME RunInv
  PROVE  /\ batchStart \in Int /\ batchStart <= MaxInt /\ batchStart >= MinInt
         /\ start \in Int /\ start <= MaxInt /\ start >= MinInt
         /\ to \in Int /\ to <= MaxInt /\ to >= MinInt
         /\ batchStart \in Int64 /\ start \in Int64 /\ to \in Int64
         /\ job.from \in Nat /\ job.last \in Nat /\ job.end \in Nat
         /\ job.end <= MaxInt /\ job.from <= job.last /\ job.last <= job.end
         /\ job.last = job.from \/ job.last <= Tip
         /\ fetched \in Seq(Int64) /\ Len(fetched) \in Nat /\ Last \in Nat
         /\ Last = job.last + Len(fetched)
         /\ Last <= job.end
<1>1. fetched \in Seq(Int64) /\ Len(fetched) \in Nat
  BY DEF RunInv, TypeOK
<1> QED
  BY <1>1, ConstantsTyped DEF RunInv, TypeOK, Int64, JobOK, InOrder, Last

LEMMA ClaimInOrder ==
  ASSUME RunInv, Claim
  PROVE  InOrder' /\ ChunkInv' /\ DispatchInv' /\ HopelessInv'
<1>0. /\ Wrap(job.last + 1) \in Int
      /\ job.last + 1 <= MaxInt => Wrap(job.last + 1) = job.last + 1
      /\ job.last + 1 > MaxInt => Wrap(job.last + 1) < 0
  <2>1. job.last \in Int64 /\ 1 \in 0 .. MaxInt
    BY ConstantsTyped DEF RunInv, TypeOK
  <2> QED
    BY <2>1, WrapSum
<1>1. fetched = <<>> /\ fetched' = fetched /\ job' = job /\ Last' = Last
  BY DEF Claim, RunInv, InOrder, Last
<1>2. Last = job.last
  BY <1>1, Facts
<1>3. CASE job.last < MaxInt
  <2>1. StartCheckpoint = job.last + 1
    <3>1. Wrap(job.last + 1) = job.last + 1
      BY <1>0, <1>3, Facts, ConstantsTyped
    <3> QED
      BY <3>1, Facts DEF StartCheckpoint, AtLeast
  <2>2. CASE StartCheckpoint > job.end
    <3>1. pc' = "done" /\ job.last = job.end
      BY <2>1, <2>2, Facts DEF Claim
    <3> QED
      BY <1>1, <1>2, <3>1, Facts DEF InOrder, ChunkInv, DispatchInv, HopelessInv, RunInv
  <2>3. CASE StartCheckpoint <= job.end
    <3>1. pc' = "chunk" /\ batchStart' = Last + 1 /\ batchStart' <= job.end
      BY <1>2, <2>1, <2>3, Facts DEF Claim
    <3> QED
      BY <1>1, <3>1, Facts DEF InOrder, ChunkInv, DispatchInv, HopelessInv, RunInv
  <2> QED
    BY <2>1, <2>2, <2>3, Facts
<1>4. CASE job.last = MaxInt
  <2>1. Wrap(job.last + 1) < 0 /\ Wrap(job.last + 1) \in Int
    BY <1>0, <1>4, Facts, ConstantsTyped
  <2>2. StartCheckpoint = job.from /\ job.from = MaxInt /\ job.end = MaxInt
    BY <1>4, <2>1, Facts, ConstantsTyped DEF StartCheckpoint, AtLeast
  <2>3. pc' = "chunk" /\ batchStart' = MaxInt /\ Hopeless(MaxInt)
    BY <2>2, Facts, ConstantsTyped DEF Claim, Hopeless
  <2> QED
    BY <1>1, <2>2, <2>3, Facts DEF InOrder, ChunkInv, DispatchInv, HopelessInv, RunInv, Hopeless
<1> QED
  BY <1>3, <1>4, Facts, ConstantsTyped

LEMMA ChunkInOrder ==
  ASSUME RunInv, Chunk
  PROVE  InOrder' /\ ChunkInv' /\ DispatchInv' /\ HopelessInv'
<1>1. fetched' = fetched /\ job' = job /\ batchStart' = batchStart /\ Last' = Last
      /\ pc = "chunk"
  BY DEF Chunk, Last
<1>2. CASE batchStart > job.end
  <2>1. pc' = "done" /\ Last = job.end
    BY <1>1, <1>2, Facts DEF Chunk, RunInv, ChunkInv
  <2> QED
    BY <1>1, <2>1 DEF InOrder, ChunkInv, DispatchInv, HopelessInv, RunInv
<1>3. CASE batchStart <= job.end
  <2>1. pc' = "dispatch" /\ to' = BatchEnd /\ start' = batchStart
    BY <1>3, Facts DEF Chunk
  <2>2. InOrder' /\ ChunkInv'
    BY <1>1, <2>1 DEF InOrder, ChunkInv, RunInv
  <2> DEFINE sum == batchStart + (ProcessingChunkSize - 1)
  <2>3. /\ Wrap(sum) \in Int
        /\ sum <= MaxInt => Wrap(sum) = sum
        /\ sum > MaxInt => Wrap(sum) < 0
        /\ batchStart + ProcessingChunkSize - 1 = sum /\ sum \in Int
    <3>1. ProcessingChunkSize - 1 \in 0 .. MaxInt /\ batchStart \in Int64
      BY ConstantsTyped, Facts
    <3>2. batchStart + ProcessingChunkSize - 1 = sum
      BY Facts, ConstantsTyped
    <3> QED
      BY <3>1, <3>2, WrapSum
  <2>4. BatchEnd = IF Wrap(sum) > job.end THEN job.end ELSE Wrap(sum)
    BY <2>3 DEF BatchEnd, AtMost
  <2> HIDE DEF sum
  <2>h. HopelessInv'
    <3>1. start' = batchStart' /\ (to' = MaxInt => batchStart' + ProcessingChunkSize - 1 = MaxInt)
      <4>1. ASSUME BatchEnd = MaxInt PROVE sum = MaxInt
        BY <2>3, <2>4, <4>1, Facts, ConstantsTyped
      <4> QED
        BY <1>1, <2>1, <2>3, <4>1
    <3> QED
      BY <3>1 DEF HopelessInv
  <2>5. ASSUME Hopeless(batchStart) PROVE DispatchInv'
    <3>1. CASE sum <= MaxInt
      <4>1. BatchEnd >= batchStart
        BY <1>3, <2>3, <2>4, <3>1, Facts, ConstantsTyped DEF sum
      <4> QED
        BY <2>1, <2>2, <2>5, <4>1, Facts DEF DispatchInv, Hopeless
    <3>2. CASE sum > MaxInt
      <4>1. BatchEnd < 0 /\ BatchEnd \in Int
        BY <2>3, <2>4, <3>2, Facts
      <4>2. batchStart + ProcessingChunkSize > MaxInt /\ batchStart > 0
        BY <2>3, <3>2, Facts, ConstantsTyped DEF sum
      <4> QED
        BY <1>1, <2>1, <2>2, <4>1, <4>2, Facts DEF DispatchInv
    <3> QED
      BY <2>3, <3>1, <3>2, Facts, ConstantsTyped
  <2>6. ASSUME ~Hopeless(batchStart) PROVE DispatchInv'
    <3>1. batchStart = Last + 1 /\ batchStart <= Tip
      BY <1>1, <1>3, <2>6, Facts, ConstantsTyped DEF RunInv, ChunkInv, Hopeless
    <3>2. batchStart + ProcessingChunkSize <= MaxInt /\ Wrap(sum) = sum
      <4>1. batchStart + ProcessingChunkSize <= MaxInt
        BY <3>1, Facts, ConstantsTyped
      <4>2. sum <= MaxInt
        BY <4>1, Facts, ConstantsTyped DEF sum
      <4> QED
        BY <2>3, <4>1, <4>2
    <3>3. ChunkTo'
      BY <1>1, <2>1, <2>3, <2>4, <3>2, Facts DEF ChunkTo
    <3>4. BatchEnd >= batchStart
      BY <1>3, <2>3, <2>4, <3>2, Facts, ConstantsTyped DEF sum
    <3> QED
      BY <1>1, <2>1, <2>2, <3>1, <3>3, <3>4, Facts DEF DispatchInv
  <2> QED
    BY <2>2, <2>h, <2>5, <2>6
<1> QED
  BY <1>2, <1>3, Facts

LEMMA ChunkDoneInOrder ==
  ASSUME RunInv, ChunkDone
  PROVE  InOrder' /\ ChunkInv' /\ DispatchInv' /\ HopelessInv'
<1>1. /\ fetched' = fetched /\ job' = job /\ Last' = Last
      /\ pc = "dispatch" /\ start > to /\ pc' = "chunk"
      /\ batchStart' = Wrap(batchStart + ProcessingChunkSize)
  BY DEF ChunkDone, Last
<1>2. InOrder' /\ DispatchInv' /\ HopelessInv'
  BY <1>1 DEF InOrder, DispatchInv, HopelessInv, RunInv
<1>3. /\ Wrap(batchStart + ProcessingChunkSize) \in Int
      /\ batchStart + ProcessingChunkSize <= MaxInt =>
           batchStart' = batchStart + ProcessingChunkSize
      /\ batchStart + ProcessingChunkSize > MaxInt => batchStart' < 0
  <2>1. batchStart \in Int64 /\ ProcessingChunkSize \in 0 .. MaxInt
    BY ConstantsTyped, Facts
  <2> QED
    BY <1>1, <2>1, WrapSum
<1>4. CASE batchStart + ProcessingChunkSize > MaxInt
  BY <1>1, <1>2, <1>3, <1>4, Facts DEF ChunkInv, Hopeless
<1>5. CASE batchStart + ProcessingChunkSize <= MaxInt
  <2>1. Last = to /\ ChunkTo
    BY <1>1, <1>5, Facts, ConstantsTyped DEF RunInv, DispatchInv
  <2>2. CASE batchStart + ProcessingChunkSize - 1 >= job.end
    <3>1. batchStart' > job.end /\ Last = job.end
      BY <1>3, <1>5, <2>1, <2>2, Facts, ConstantsTyped DEF ChunkTo
    <3> QED
      BY <1>1, <1>2, <3>1 DEF ChunkInv
  <2>3. CASE batchStart + ProcessingChunkSize - 1 < job.end
    <3>1. to = batchStart + ProcessingChunkSize - 1
      BY <2>1, <2>3, Facts, ConstantsTyped DEF ChunkTo
    <3>2. batchStart' = batchStart + ProcessingChunkSize
      BY <1>3, <1>5
    <3>3. batchStart' = Last + 1 /\ batchStart' <= job.end
      BY <2>1, <2>3, <3>1, <3>2, Facts, ConstantsTyped
    <3> QED
      BY <1>1, <1>2, <3>3 DEF ChunkInv
  <2> QED
    BY <2>2, <2>3, Facts, ConstantsTyped
<1> QED
  BY <1>4, <1>5, Facts, ConstantsTyped

\* A batch whose first number is not in the archive is not fetched, and if its
\* end overflows, the batch after it will not be either.
LEMMA HopelessBatch ==
  ASSUME RunInv, pc = "dispatch", FetchBatch, Hopeless(start), pc' = "dispatch"
  PROVE  fetched' = fetched /\ start' \in Int /\ start' < 0 /\ start' <= to
<1>1. /\ start <= to /\ fetched' = fetched \o SeqNums
      /\ start' = Wrap(start + CheckpointFetchBatchSize)
      /\ \A i \in DOMAIN SeqNums : InArchive(SeqNums[i])
  BY DEF FetchBatch
<1>2. LastOfBatch \in Int
  BY SeqNumsTyped, ConstantsTyped DEF RunInv, Int64
<1>3. LastOfBatch < start
  <2> SUFFICES ASSUME LastOfBatch >= start PROVE FALSE
    BY <1>2, Facts
  <2>1. SeqNums[1] = start /\ 1 \in DOMAIN SeqNums
    BY <1>2, SeqNumsTyped, Facts DEF RunInv
  <2>2. InArchive(start)
    BY <1>1, <2>1
  <2> QED
    BY <2>2, Facts, ConstantsTyped DEF InArchive, Unsigned, Hopeless
<1>4. fetched' = fetched
  <2>1. SeqNums = <<>>
    BY <1>3, SeqNumsTyped DEF RunInv
  <2> QED
    BY <1>1, <2>1, Facts
<1>5. start + CheckpointFetchBatchSize > MaxInt
  <2>1. /\ CheckpointFetchBatchSize - 1 \in 0 .. MaxInt
        /\ start + CheckpointFetchBatchSize - 1 = start + (CheckpointFetchBatchSize - 1)
    BY Facts, ConstantsTyped
  <2>2. start + CheckpointFetchBatchSize - 1 <= MaxInt =>
          Wrap(start + CheckpointFetchBatchSize - 1) = start + CheckpointFetchBatchSize - 1
    <3>1. start \in Int64
      BY Facts
    <3> QED
      BY <2>1, <3>1, WrapSum
  <2>3. LastOfBatch = IF Wrap(start + CheckpointFetchBatchSize - 1) > to THEN to
                      ELSE Wrap(start + CheckpointFetchBatchSize - 1)
    BY DEF LastOfBatch, AtMost
  <2>4. /\ start \in Int /\ start <= to /\ to \in Int /\ MaxInt \in Int
        /\ CheckpointFetchBatchSize \in Int /\ CheckpointFetchBatchSize >= 1
    BY <1>1, Facts, ConstantsTyped
  <2> SUFFICES ASSUME start + CheckpointFetchBatchSize - 1 <= MaxInt PROVE FALSE
    BY <2>4
  <2>5. LastOfBatch = IF start + CheckpointFetchBatchSize - 1 > to THEN to
                      ELSE start + CheckpointFetchBatchSize - 1
    BY <2>2, <2>3
  <2> QED
    BY <1>3, <2>4, <2>5
<1>6. start' < 0 /\ start' \in Int
  <2>1. start \in Int64 /\ CheckpointFetchBatchSize \in 0 .. MaxInt
    BY Facts, ConstantsTyped
  <2> QED
    BY <1>1, <1>5, <2>1, WrapSum
<1>7. start > 0
  BY <1>5, Facts, ConstantsTyped
<1> QED
  BY <1>1, <1>4, <1>6, <1>7, Facts

\* Where any other batch ends; nothing overflows.
LEMMA BatchBounds ==
  ASSUME RunInv, pc = "dispatch", start <= to, ~Hopeless(start)
  PROVE  /\ start = Last + 1 /\ start <= Tip /\ ChunkTo
         /\ start + CheckpointFetchBatchSize <= MaxInt
         /\ LastOfBatch = IF start + CheckpointFetchBatchSize - 1 > to THEN to
                          ELSE start + CheckpointFetchBatchSize - 1
         /\ LastOfBatch \in Int /\ LastOfBatch >= start
<1>1. start = Last + 1 /\ start <= Tip /\ ChunkTo
  BY Facts DEF RunInv, DispatchInv
<1>2. start + CheckpointFetchBatchSize <= MaxInt
  BY <1>1, Facts, ConstantsTyped
<1>3. Wrap(start + CheckpointFetchBatchSize - 1) = start + CheckpointFetchBatchSize - 1
  <2>1. start \in Int64 /\ CheckpointFetchBatchSize - 1 \in 0 .. MaxInt
    BY Facts, ConstantsTyped
  <2>2. /\ start + CheckpointFetchBatchSize - 1 = start + (CheckpointFetchBatchSize - 1)
        /\ start + CheckpointFetchBatchSize - 1 <= MaxInt
    BY <1>2, Facts, ConstantsTyped
  <2> QED
    BY <2>1, <2>2, WrapSum
<1>4. LastOfBatch = IF start + CheckpointFetchBatchSize - 1 > to THEN to
                    ELSE start + CheckpointFetchBatchSize - 1
  BY <1>3 DEF LastOfBatch, AtMost
<1>5. LastOfBatch \in Int /\ LastOfBatch >= start
  BY <1>4, Facts, ConstantsTyped
<1> QED
  BY <1>1, <1>2, <1>4, <1>5

\* Any other batch is the next one.
LEMMA NextBatch ==
  ASSUME RunInv, pc = "dispatch", FetchBatch, ~Hopeless(start), pc' = "dispatch"
  PROVE  /\ LastOfBatch = IF start + CheckpointFetchBatchSize - 1 > to THEN to
                          ELSE start + CheckpointFetchBatchSize - 1
         /\ fetched' \in Seq(Int64)
         /\ Len(fetched') = Len(fetched) + (LastOfBatch - start + 1)
         /\ \A i \in DOMAIN fetched' : fetched'[i] = job.last + i
         /\ LastOfBatch <= Tip
         /\ start' = start + CheckpointFetchBatchSize
         /\ start = Last + 1 /\ ChunkTo /\ LastOfBatch >= start
<1>1. /\ start <= to /\ fetched' = fetched \o SeqNums
      /\ start' = Wrap(start + CheckpointFetchBatchSize)
      /\ \A i \in DOMAIN SeqNums : InArchive(SeqNums[i])
  BY DEF FetchBatch
<1>2. /\ start = Last + 1 /\ start <= Tip /\ ChunkTo
      /\ start + CheckpointFetchBatchSize <= MaxInt
      /\ LastOfBatch = IF start + CheckpointFetchBatchSize - 1 > to THEN to
                       ELSE start + CheckpointFetchBatchSize - 1
  BY <1>1, BatchBounds
<1>4. Wrap(start + CheckpointFetchBatchSize) = start + CheckpointFetchBatchSize
  <2>1. start \in Int64 /\ CheckpointFetchBatchSize \in 0 .. MaxInt
    BY Facts, ConstantsTyped
  <2> QED
    BY <1>2, <2>1, WrapSum
<1>7. LastOfBatch \in Int /\ LastOfBatch >= start
  BY <1>1, BatchBounds
<1> DEFINE n == LastOfBatch - start + 1
<1>8. /\ n \in Nat /\ n >= 1 /\ Len(SeqNums) = n /\ SeqNums \in Seq(Int64)
      /\ \A i \in 1 .. n : SeqNums[i] = start + i - 1
  BY <1>7, SeqNumsTyped, Facts DEF RunInv
<1> HIDE DEF n
<1>9. fetched' \in Seq(Int64) /\ Len(fetched') = Len(fetched) + n
  <2>1. fetched \in Seq(Int64)
    BY Facts
  <2> QED
    BY <1>1, <1>8, <2>1
<1>10. ASSUME NEW i \in DOMAIN fetched' PROVE fetched'[i] = job.last + i
  <2>1. i \in 1 .. Len(fetched) + n
    BY <1>9
  <2>2. CASE i <= Len(fetched)
    <3>1. fetched'[i] = fetched[i] /\ i \in DOMAIN fetched
      BY <1>1, <1>8, <2>1, <2>2, Facts
    <3> QED
      BY <3>1 DEF RunInv, InOrder
  <2>3. CASE i > Len(fetched)
    <3>1. i - Len(fetched) \in 1 .. n
      BY <1>8, <2>1, <2>3, Facts
    <3>2. fetched'[i] = SeqNums[i - Len(fetched)]
      BY <1>1, <1>8, <2>1, <2>3, Facts
    <3>3. fetched'[i] = start + (i - Len(fetched)) - 1
      BY <1>8, <3>1, <3>2
    <3> QED
      BY <1>2, <2>1, <3>3, Facts
  <2> QED
    BY <1>8, <2>1, <2>2, <2>3, Facts
<1>11. LastOfBatch <= Tip
  <2>1. SeqNums[n] = LastOfBatch /\ n \in DOMAIN SeqNums
    BY <1>7, <1>8, Facts DEF n
  <2>2. InArchive(LastOfBatch)
    BY <1>1, <2>1
  <2>3. start \in Int /\ start >= 0
    BY <1>2, Facts
  <2>4. LastOfBatch \in Int /\ LastOfBatch >= 0
    BY <1>7, <2>3
  <2> QED
    BY <2>2, <2>4 DEF InArchive, Unsigned
<1> QED
  BY <1>1, <1>2, <1>4, <1>7, <1>9, <1>10, <1>11 DEF n

\* With it the run has got to its end.
LEMMA LastFetched ==
  ASSUME RunInv, pc = "dispatch", FetchBatch, ~Hopeless(start), pc' = "dispatch"
  PROVE  Last' = LastOfBatch
<1> DEFINE last == job.last
           len  == Len(fetched)
           end  == LastOfBatch
<1>1. start <= to /\ job' = job
  BY DEF FetchBatch
<1>2. /\ last \in Int /\ len \in Int /\ end \in Int /\ start \in Int
      /\ start = last + len + 1
  BY <1>1, BatchBounds, Facts
<1>3. Last' = last + Len(fetched')
  BY <1>1 DEF Last
<1>4. Len(fetched') = len + (end - start + 1)
  BY NextBatch
<1>5. Last' = last + (len + (end - start + 1))
  BY <1>3, <1>4
<1> HIDE DEF last, len, end
<1>6. Last' = end
  BY <1>2, <1>5
<1> QED
  BY <1>6 DEF end

\* No batch ends with the largest number: the loop over its numbers ends.
LEMMA NoEndlessBatch ==
  ASSUME RunInv, FetchBatch
  PROVE  LastOfBatch # MaxInt
<1> SUFFICES ASSUME LastOfBatch = MaxInt PROVE FALSE
  OBVIOUS
<1> DEFINE sum == start + (CheckpointFetchBatchSize - 1)
<1>1. pc = "dispatch" /\ start <= to
  BY DEF FetchBatch
<1>2. /\ Wrap(sum) \in Int /\ sum \in Int
      /\ sum <= MaxInt => Wrap(sum) = sum
      /\ sum > MaxInt => Wrap(sum) < 0
  <2>1. start \in Int64 /\ CheckpointFetchBatchSize - 1 \in 0 .. MaxInt
    BY Facts, ConstantsTyped
  <2> QED
    BY <2>1, WrapSum
<1>3. LastOfBatch = IF Wrap(sum) > to THEN to ELSE Wrap(sum)
  <2>1. start + CheckpointFetchBatchSize - 1 = sum
    BY Facts, ConstantsTyped
  <2> QED
    BY <2>1 DEF LastOfBatch, AtMost
<1> HIDE DEF sum
<1>4. sum = MaxInt /\ to = MaxInt
  <2>1. MaxInt \in Nat /\ to \in Int /\ to <= MaxInt
    BY Facts, ConstantsTyped
  <2>2. Wrap(sum) >= MaxInt /\ to >= MaxInt
    BY <1>2, <1>3, <2>1
  <2> QED
    BY <1>2, <2>1, <2>2
<1>5. start + CheckpointFetchBatchSize - 1 = MaxInt
  BY <1>4, Facts, ConstantsTyped DEF sum
<1>6. start > Tip + 1
  BY <1>5, Facts, ConstantsTyped
<1>7. Hopeless(start)
  BY <1>6, Facts, ConstantsTyped DEF Hopeless
<1>8. start = batchStart /\ batchStart + ProcessingChunkSize - 1 = MaxInt
  BY <1>1, <1>4, <1>6, <1>7, Facts, ConstantsTyped DEF RunInv, HopelessInv
<1> QED
  BY <1>5, <1>8, Facts, ConstantsTyped

LEMMA FetchInOrder ==
  ASSUME RunInv, FetchBatch
  PROVE  InOrder' /\ ChunkInv' /\ DispatchInv' /\ HopelessInv'
<1>0. LastOfBatch # MaxInt
  BY NoEndlessBatch
<1>1. /\ pc = "dispatch" /\ pc' \in {"dispatch", "failed"} /\ start <= to
      /\ job' = job /\ to' = to /\ batchStart' = batchStart
  BY <1>0 DEF FetchBatch
<1>2. ChunkInv'
  BY <1>1 DEF ChunkInv
<1>3. CASE pc' = "failed"
  <2>1. fetched' = fetched /\ Last' = Last
    BY <1>0, <1>1, <1>3 DEF FetchBatch, Last
  <2> QED
    BY <1>1, <1>2, <1>3, <2>1 DEF InOrder, DispatchInv, HopelessInv, RunInv
<1>4. CASE pc' # "failed" /\ Hopeless(start)
  <2>1. fetched' = fetched /\ start' < 0 /\ start' <= to
    BY <1>1, <1>4, HopelessBatch
  <2>2. Last' = Last
    BY <1>1, <2>1 DEF Last
  <2>3. HopelessInv'
    <3>1. start' \in Int
      BY <1>4, HopelessBatch, <1>1
    <3>2. start' <= Tip + 1
      BY <2>1, <3>1, ConstantsTyped
    <3> QED
      BY <3>2, ConstantsTyped DEF HopelessInv
  <2> QED
    BY <1>1, <1>2, <2>1, <2>2, <2>3 DEF InOrder, DispatchInv, RunInv, Hopeless
<1>5. CASE pc' # "failed" /\ ~Hopeless(start)
  <2>1. /\ LastOfBatch = IF start + CheckpointFetchBatchSize - 1 > to THEN to
                         ELSE start + CheckpointFetchBatchSize - 1
        /\ fetched' \in Seq(Int64)
        /\ Len(fetched') = Len(fetched) + (LastOfBatch - start + 1)
        /\ \A i \in DOMAIN fetched' : fetched'[i] = job.last + i
        /\ LastOfBatch <= Tip
        /\ start' = start + CheckpointFetchBatchSize
        /\ start = Last + 1 /\ ChunkTo /\ LastOfBatch >= start
    BY <1>1, <1>5, NextBatch
  <2>2. /\ LastOfBatch \in Int /\ LastOfBatch <= to
        /\ to \in Int /\ job.end \in Int /\ start \in Int
        /\ CheckpointFetchBatchSize \in Int /\ CheckpointFetchBatchSize >= 1
        /\ start + CheckpointFetchBatchSize - 1 > to => LastOfBatch = to
        /\ start + CheckpointFetchBatchSize - 1 <= to =>
             LastOfBatch = start + CheckpointFetchBatchSize - 1
    <3>1. /\ to \in Int /\ job.end \in Int /\ start \in Int
          /\ CheckpointFetchBatchSize \in Int /\ CheckpointFetchBatchSize >= 1
      BY Facts, ConstantsTyped
    <3>2. LastOfBatch = IF start + CheckpointFetchBatchSize - 1 > to THEN to
                        ELSE start + CheckpointFetchBatchSize - 1
      BY <2>1
    <3> QED
      BY <3>1, <3>2
  <2>3. Last' = LastOfBatch
    BY <1>1, <1>5, LastFetched
  <2>4. start' = start + CheckpointFetchBatchSize /\ ChunkTo'
    BY <1>1, <2>1 DEF ChunkTo
  <2>5. to <= job.end
    <3>1. ChunkTo
      BY <2>1
    <3>2. batchStart \in Int /\ ProcessingChunkSize \in Int
      BY Facts, ConstantsTyped
    <3> QED
      BY <2>2, <3>1, <3>2 DEF ChunkTo
  <2>6. InOrder'
    <3>1. Last' <= job.end
      BY <2>2, <2>3, <2>5
    <3>2. pc' = "dispatch"
      BY <1>1, <1>5
    <3> QED
      BY <1>1, <2>1, <3>1, <3>2 DEF InOrder
  <2>h. HopelessInv'
    <3>1. ASSUME start' <= to PROVE start' <= Tip + 1
      <4>1. start + CheckpointFetchBatchSize - 1 <= to
        BY <2>2, <2>4, <3>1
      <4>2. LastOfBatch = start + CheckpointFetchBatchSize - 1 /\ LastOfBatch <= Tip
        BY <2>1, <2>2, <4>1
      <4> QED
        BY <2>2, <2>4, <4>2, ConstantsTyped
    <3> QED
      BY <1>1, <3>1, ConstantsTyped DEF HopelessInv
  <2>7. CASE start + CheckpointFetchBatchSize - 1 < to
    <3>1. start' <= to /\ start' = Last' + 1 /\ start' \in Int
      BY <2>2, <2>3, <2>4, <2>7
    <3>2. start' <= Tip \/ Hopeless(start')
      BY <3>1, ConstantsTyped DEF Hopeless
    <3> QED
      BY <1>1, <1>2, <2>4, <2>6, <2>h, <3>1, <3>2 DEF DispatchInv
  <2>8. CASE start + CheckpointFetchBatchSize - 1 >= to
    <3>1. start' > to /\ Last' = to
      BY <2>2, <2>3, <2>4, <2>8
    <3> QED
      BY <1>1, <1>2, <2>4, <2>6, <2>h, <3>1 DEF DispatchInv
  <2> QED
    BY <2>2, <2>7, <2>8
<1> QED
  BY <1>1, <1>3, <1>4, <1>5

LEMMA RunInvNext == RunInv /\ [Next]_vars => RunInv'
<1> SUFFICES ASSUME RunInv, [Next]_vars PROVE RunInv'
  OBVIOUS
<1>1. TypeOK'
  BY TypeNext DEF RunInv
<1>2. JobOK'
  <2>1. job' = job
    BY DEF Next, Load, Claim, Chunk, ChunkDone, FetchBatch, vars
  <2> QED
    BY <2>1 DEF RunInv, JobOK
<1>3. InOrder' /\ ChunkInv' /\ DispatchInv' /\ HopelessInv'
  <2>1. CASE Load
    <3>1. pc' \in {"exit", "claim"} /\ fetched' = fetched /\ job' = job /\ pc = "load"
      BY <2>1 DEF Load
    <3> QED
      BY <3>1 DEF RunInv, InOrder, ChunkInv, DispatchInv, HopelessInv, Last
  <2>2. CASE UNCHANGED vars
    BY <2>2 DEF vars, RunInv, InOrder, ChunkInv, DispatchInv, HopelessInv, Last, ChunkTo
  <2> QED
    BY <2>1, <2>2, ClaimInOrder, ChunkInOrder, ChunkDoneInOrder, FetchInOrder DEF Next
<1> QED
  BY <1>1, <1>2, <1>3 DEF RunInv

\* A run fetches its range once and in order, and is done with all of it,
\* whatever overflows in the loops over chunks and batches.
THEOREM RunFetchesInOrder == Spec => []FetchedInOrder
<1>1. RunInv => FetchedInOrder
  <2> SUFFICES ASSUME RunInv PROVE FetchedInOrder
    OBVIOUS
  <2>1. ASSUME NEW i \in DOMAIN fetched
        PROVE  fetched[i] = job.last + i /\ fetched[i] <= job.end
    <3>1. i \in 1 .. Len(fetched) /\ fetched[i] = job.last + i
      BY Facts DEF RunInv, InOrder
    <3> QED
      BY <3>1, Facts
  <2>2. pc = "done" => Len(fetched) = job.end - job.last
    BY Facts DEF RunInv, InOrder
  <2>3. pc # "endless"
    BY DEF RunInv, InOrder
  <2> QED
    BY <2>1, <2>2, <2>3 DEF FetchedInOrder
<1> QED
  BY <1>1, RunInvInit, RunInvNext, PTL DEF Spec

-----------------------------------------------------------------------------
(***************************************************************************)
(* The chunks.                                                             *)
(***************************************************************************)

\* The dispatcher is not behind the beginning of its chunk, or it is about to
\* ask for a number that does not exist.
StartInv == pc = "dispatch" => start >= batchStart \/ Hopeless(start)

LEMMA StartInvNext == RunInv /\ StartInv /\ [Next]_vars => StartInv'
<1> SUFFICES ASSUME RunInv, StartInv, [Next]_vars PROVE StartInv'
  OBVIOUS
<1>1. CASE Load \/ Claim \/ ChunkDone
  BY <1>1 DEF Load, Claim, ChunkDone, StartInv
<1>2. CASE Chunk
  <2>1. pc' = "dispatch" => start' = batchStart /\ batchStart' = batchStart
    BY <1>2 DEF Chunk
  <2> QED
    BY <2>1, Facts DEF StartInv
<1>3. CASE FetchBatch
  <2>1. pc = "dispatch" /\ batchStart' = batchStart
    BY <1>3 DEF FetchBatch
  <2>2. CASE pc' = "dispatch" /\ Hopeless(start)
    BY <1>3, <2>1, <2>2, HopelessBatch DEF StartInv, Hopeless
  <2>3. CASE pc' = "dispatch" /\ ~Hopeless(start)
    <3>1. start' = start + CheckpointFetchBatchSize /\ start >= batchStart
      BY <1>3, <2>1, <2>3, NextBatch DEF StartInv
    <3>2. /\ start \in Int /\ batchStart \in Int
          /\ CheckpointFetchBatchSize \in Int /\ CheckpointFetchBatchSize >= 1
      BY Facts, ConstantsTyped
    <3>3. start' >= batchStart
      BY <3>1, <3>2
    <3> QED
      BY <2>1, <3>3 DEF StartInv
  <2> QED
    BY <2>2, <2>3 DEF StartInv
<1>4. CASE UNCHANGED vars
  BY <1>4 DEF vars, StartInv, Hopeless
<1> QED
  BY <1>1, <1>2, <1>3, <1>4 DEF Next

\* A batch that has been fetched lies in its chunk.
LEMMA BatchInChunk ==
  ASSUME RunInv, StartInv, FetchBatch, fetched' # fetched,
         NEW i \in DOMAIN fetched' \ DOMAIN fetched
  PROVE  fetched'[i] - batchStart \in 0 .. ProcessingChunkSize - 1
<1> DEFINE last == job.last
           len  == Len(fetched)
           end  == LastOfBatch
           size == ProcessingChunkSize
<1>1. pc = "dispatch" /\ pc' = "dispatch" /\ start <= to
  BY DEF FetchBatch
<1>2. ~Hopeless(start)
  BY <1>1, HopelessBatch
<1>3. /\ start = Last + 1 /\ ChunkTo /\ end >= start
      /\ end = IF start + CheckpointFetchBatchSize - 1 > to THEN to
               ELSE start + CheckpointFetchBatchSize - 1
      /\ fetched' \in Seq(Int64) /\ Len(fetched') = len + (end - start + 1)
      /\ fetched'[i] = last + i
  BY <1>1, <1>2, NextBatch
<1>4. /\ last \in Int /\ len \in Int /\ end \in Int /\ start \in Int /\ to \in Int
      /\ batchStart \in Int /\ size \in Int /\ job.end \in Int
      /\ CheckpointFetchBatchSize \in Int
      /\ start = last + len + 1
  <2>1. end \in Int
    BY <1>1, <1>2, BatchBounds
  <2>2. /\ last \in Int /\ len \in Int /\ start \in Int /\ to \in Int
        /\ batchStart \in Int /\ job.end \in Int /\ Last = last + len
    BY Facts
  <2>3. size \in Int /\ CheckpointFetchBatchSize \in Int
    BY ConstantsTyped
  <2>4. start = Last + 1
    BY <1>3
  <2> HIDE DEF last, len, end, size
  <2> QED
    BY <2>1, <2>2, <2>3, <2>4
<1>5. i \in Int /\ i > len /\ i <= len + (end - start + 1)
  <2>1. DOMAIN fetched = 1 .. len /\ DOMAIN fetched' = 1 .. Len(fetched')
    BY <1>3, Facts
  <2> HIDE DEF len, end
  <2>2. Len(fetched') \in Int /\ Len(fetched') = len + (end - start + 1)
    BY <1>3, <1>4
  <2> QED
    BY <1>4, <2>1, <2>2
<1>6. end <= to
  <2> HIDE DEF end
  <2> QED
    BY <1>3, <1>4
<1>7. to <= batchStart + size - 1
  <2>1. to = IF batchStart + size - 1 > job.end THEN job.end ELSE batchStart + size - 1
    BY <1>3 DEF ChunkTo
  <2> HIDE DEF size
  <2> QED
    BY <1>4, <2>1
<1>8. start >= batchStart
  BY <1>1, <1>2 DEF StartInv
<1>9. fetched'[i] = last + i
  BY <1>3
<1> HIDE DEF last, len, end, size
<1>10. last + i >= batchStart /\ last + i <= batchStart + size - 1 /\ last + i \in Int
  BY <1>4, <1>5, <1>6, <1>7, <1>8
<1>11. last + i - batchStart \in 0 .. size - 1
  BY <1>4, <1>5, <1>10
<1> QED
  BY <1>4, <1>5, <1>9, <1>11 DEF size

\* Whatever the dispatcher asks for belongs to the open chunk, so the writer
\* never holds back more than one chunk of results.
THEOREM RunChunks == Spec => ChunkBounded
<1>1. Init => StartInv
  BY DEF Init, StartInv
<1>2. RunInv /\ StartInv /\ [Next]_vars =>
        [\A i \in DOMAIN fetched' \ DOMAIN fetched :
           fetched'[i] - batchStart \in 0 .. ProcessingChunkSize - 1]_vars
  <2> SUFFICES ASSUME RunInv, StartInv, [Next]_vars,
                      NEW i \in DOMAIN fetched' \ DOMAIN fetched
               PROVE  fetched'[i] - batchStart \in 0 .. ProcessingChunkSize - 1
    OBVIOUS
  <2>1. fetched' # fetched
    OBVIOUS
  <2>2. FetchBatch
    BY <2>1 DEF Next, Load, Claim, Chunk, ChunkDone, vars
  <2> QED
    BY <2>1, <2>2, BatchInChunk
<1> QED
  BY <1>1, <1>2, RunInvInit, RunInvNext, StartInvNext, PTL DEF Spec, ChunkBounded

-----------------------------------------------------------------------------
(***************************************************************************)
(* The outcome.                                                            *)
(***************************************************************************)

\* What RunEndsRightly says of the end, without saying that there is one.
EndsRightly == (pc = "done" => Feasible) /\ (pc = "failed" => ~Feasible)

\* What has been fetched is in the archive; a run that is about to fail, be it
\* in an empty chunk whose end has overflown, has checkpoints left that are not.
EndsInv ==
  /\ Len(fetched) = 0 \/ Last <= Tip
  /\ pc = "chunk" /\ batchStart <= job.end /\ Hopeless(batchStart) => ~Feasible
  /\ pc = "dispatch" /\ start <= to /\ Hopeless(start) => ~Feasible
  /\ pc = "dispatch" /\ start > to /\ batchStart + ProcessingChunkSize > MaxInt => ~Feasible
  /\ EndsRightly

\* A checkpoint still to be fetched that the archive does not have.
LEMMA Beyond ==
  ASSUME RunInv, NEW n \in Int, n > Tip, n > job.last, n <= job.end
  PROVE  ~Feasible
BY Facts, ConstantsTyped DEF Feasible

LEMMA ClaimEnds ==
  ASSUME RunInv, EndsInv, Claim
  PROVE  EndsInv'
<1>1. /\ fetched = <<>> /\ fetched' = fetched /\ job' = job
      /\ pc' = IF StartCheckpoint > job.end THEN "done" ELSE "chunk"
      /\ batchStart' = StartCheckpoint
  BY DEF Claim, RunInv, InOrder
<1>2. Len(fetched') = 0
  BY <1>1
<1>3. /\ Wrap(job.last + 1) \in Int
      /\ job.last + 1 <= MaxInt => Wrap(job.last + 1) = job.last + 1
      /\ job.last + 1 > MaxInt => Wrap(job.last + 1) < 0
  <2>1. job.last \in Int64 /\ 1 \in 0 .. MaxInt
    BY ConstantsTyped DEF RunInv, TypeOK
  <2> QED
    BY <2>1, WrapSum
<1>4. CASE job.last < MaxInt
  <2>1. StartCheckpoint = job.last + 1
    <3>1. Wrap(job.last + 1) = job.last + 1
      BY <1>3, <1>4, Facts, ConstantsTyped
    <3> QED
      BY <3>1, Facts DEF StartCheckpoint, AtLeast
  <2>2. StartCheckpoint > job.end => Feasible
    BY <1>4, <2>1, Facts, ConstantsTyped DEF Feasible
  <2>3. ASSUME StartCheckpoint <= job.end, Hopeless(StartCheckpoint) PROVE ~Feasible
    <3>1. StartCheckpoint \in Int /\ StartCheckpoint > job.last /\ StartCheckpoint > Tip
      BY <2>1, <2>3, Facts, ConstantsTyped DEF Hopeless
    <3> QED
      BY <2>3, <3>1, Beyond
  <2> QED
    BY <1>1, <1>2, <2>2, <2>3 DEF EndsInv, EndsRightly, Feasible, Hopeless
<1>5. CASE job.last = MaxInt
  <2>1. Wrap(job.last + 1) < 0 /\ Wrap(job.last + 1) \in Int
    BY <1>3, <1>5, Facts, ConstantsTyped
  <2>2. StartCheckpoint = job.from /\ job.end = MaxInt /\ job.last = MaxInt
    BY <1>5, <2>1, Facts, ConstantsTyped DEF StartCheckpoint, AtLeast
  <2>3. pc' = "chunk" /\ ~Feasible
    BY <1>1, <2>2, Facts, ConstantsTyped DEF Feasible
  <2> QED
    BY <1>1, <1>2, <2>3 DEF EndsInv, EndsRightly, Feasible, Hopeless
<1> QED
  BY <1>4, <1>5, Facts, ConstantsTyped

LEMMA ChunkEnds ==
  ASSUME RunInv, EndsInv, Chunk
  PROVE  EndsInv'
<1>1. fetched' = fetched /\ job' = job /\ batchStart' = batchStart /\ Last' = Last
      /\ pc = "chunk"
  BY DEF Chunk, Last
<1>2. Len(fetched') = 0 \/ Last' <= Tip
  BY <1>1 DEF EndsInv
<1>3. CASE batchStart > job.end
  <2>1. pc' = "done" /\ Last = job.end /\ job.end # MaxInt
    BY <1>1, <1>3, Facts DEF Chunk, RunInv, ChunkInv
  <2>2. Feasible
    BY <2>1, Facts DEF EndsInv, Feasible
  <2> QED
    BY <1>1, <1>2, <2>1, <2>2 DEF EndsInv, EndsRightly, Feasible
<1>4. CASE batchStart <= job.end
  <2>1. pc' = "dispatch" /\ start' = batchStart
    BY <1>4, Facts DEF Chunk
  <2>2. Hopeless(batchStart) => ~Feasible
    BY <1>1, <1>4 DEF EndsInv
  <2>3. batchStart + ProcessingChunkSize > MaxInt => Hopeless(batchStart)
    BY Facts, ConstantsTyped DEF Hopeless
  <2> QED
    BY <1>1, <1>2, <2>1, <2>2, <2>3 DEF EndsInv, EndsRightly, Feasible, Hopeless
<1> QED
  BY <1>3, <1>4, Facts

LEMMA ChunkDoneEnds ==
  ASSUME RunInv, EndsInv, ChunkDone
  PROVE  EndsInv'
<1>1. /\ fetched' = fetched /\ job' = job /\ Last' = Last
      /\ pc = "dispatch" /\ start > to /\ pc' = "chunk"
      /\ batchStart' = Wrap(batchStart + ProcessingChunkSize)
  BY DEF ChunkDone, Last
<1>2. Len(fetched') = 0 \/ Last' <= Tip
  BY <1>1 DEF EndsInv
<1>3. ASSUME batchStart' <= job.end, Hopeless(batchStart') PROVE ~Feasible
  <2>1. CASE batchStart + ProcessingChunkSize > MaxInt
    BY <1>1, <2>1 DEF EndsInv
  <2>2. CASE batchStart + ProcessingChunkSize <= MaxInt
    <3>1. batchStart' = batchStart + ProcessingChunkSize
      <4>1. batchStart \in Int64 /\ ProcessingChunkSize \in 0 .. MaxInt
        BY ConstantsTyped, Facts
      <4> QED
        BY <1>1, <2>2, <4>1, WrapSum
    <3>2. Last = to /\ ChunkTo
      BY <1>1, <2>2, Facts, ConstantsTyped DEF RunInv, DispatchInv
    <3>3. batchStart' = Last + 1
      BY <1>3, <3>1, <3>2, Facts, ConstantsTyped DEF ChunkTo
    <3>4. batchStart' \in Int /\ batchStart' > job.last /\ batchStart' > Tip
      <4>1. batchStart' \in Int /\ batchStart' > job.last /\ batchStart' > 0
        BY <3>3, Facts
      <4>2. Tip \in Int /\ (batchStart' < 0 \/ batchStart' > Tip)
        BY <1>3, ConstantsTyped DEF Hopeless
      <4> QED
        BY <4>1, <4>2
    <3> QED
      BY <1>3, <3>4, Beyond
  <2> QED
    BY <2>1, <2>2, Facts, ConstantsTyped
<1> QED
  BY <1>1, <1>2, <1>3 DEF EndsInv, EndsRightly, Feasible, Hopeless

LEMMA FetchEnds ==
  ASSUME RunInv, EndsInv, FetchBatch
  PROVE  EndsInv'
<1>1. /\ pc = "dispatch" /\ pc' \in {"dispatch", "failed"} /\ start <= to
      /\ job' = job /\ to' = to /\ batchStart' = batchStart
  BY NoEndlessBatch DEF FetchBatch
<1>2. pc' = "failed" =>
        /\ fetched' = fetched
        /\ \/ Len(SeqNums) > CheckpointBatchSize
           \/ \E i \in DOMAIN SeqNums : ~InArchive(SeqNums[i])
  <2>1. Len(SeqNums) \in Nat /\ CheckpointBatchSize \in Nat
    <3>1. SeqNums \in Seq(Int64)
      <4>1. start \in Int /\ LastOfBatch \in Int
        BY SeqNumsTyped, Facts, ConstantsTyped DEF RunInv, Int64
      <4>2. CASE LastOfBatch >= start
        BY <4>2, SeqNumsTyped DEF RunInv
      <4>3. CASE LastOfBatch < start
        BY <4>3, SeqNumsTyped DEF RunInv
      <4> QED
        BY <4>1, <4>2, <4>3
    <3> QED
      BY <3>1, ArithmeticAssumption
  <2> QED
    BY <1>1, <2>1, NoEndlessBatch DEF FetchBatch
<1>3. CASE Hopeless(start)
  <2>1. ~Feasible
    BY <1>1, <1>3 DEF EndsInv
  <2>2. fetched' = fetched
    BY <1>1, <1>2, <1>3, HopelessBatch
  <2> QED
    BY <1>1, <2>1, <2>2 DEF EndsInv, EndsRightly, Feasible, Last
<1>4. CASE ~Hopeless(start)
  <2>1. /\ start = Last + 1 /\ start <= Tip /\ ChunkTo
        /\ LastOfBatch = IF start + CheckpointFetchBatchSize - 1 > to THEN to
                         ELSE start + CheckpointFetchBatchSize - 1
        /\ LastOfBatch \in Int /\ LastOfBatch >= start
    BY <1>1, <1>4, BatchBounds
  <2>2. start \in Int /\ start > job.last /\ start >= 0 /\ to <= job.end /\ LastOfBatch <= to
    <3>1. start \in Int /\ start > job.last /\ start >= 0
      BY <2>1, Facts
    <3>2. ChunkTo
      BY <2>1
    <3>3. to <= job.end
      BY <3>2, Facts, ConstantsTyped DEF ChunkTo
    <3>4. LastOfBatch <= to
      <4>1. start \in Int /\ to \in Int /\ CheckpointFetchBatchSize \in Int
        BY Facts, ConstantsTyped
      <4>2. LastOfBatch = IF start + CheckpointFetchBatchSize - 1 > to THEN to
                         ELSE start + CheckpointFetchBatchSize - 1
        BY <2>1
      <4> QED
        BY <4>1, <4>2
    <3> QED
      BY <3>1, <3>3, <3>4
  <2>3. CASE pc' = "failed"
    <3>1. /\ Len(SeqNums) = LastOfBatch - start + 1
          /\ DOMAIN SeqNums = 1 .. LastOfBatch - start + 1
          /\ \A i \in 1 .. LastOfBatch - start + 1 : SeqNums[i] = start + i - 1
      BY <2>1, SeqNumsTyped DEF RunInv
    <3>2. Len(SeqNums) <= CheckpointBatchSize
      <4>1. /\ CheckpointFetchBatchSize \in Int /\ CheckpointBatchSize \in Int
            /\ CheckpointFetchBatchSize <= CheckpointBatchSize /\ to \in Int
        BY Facts, ConstantsTyped, ArithmeticAssumption
      <4>2. /\ LastOfBatch = IF start + CheckpointFetchBatchSize - 1 > to THEN to
                             ELSE start + CheckpointFetchBatchSize - 1
            /\ LastOfBatch \in Int /\ start \in Int
        BY <2>1, <2>2
      <4>3. LastOfBatch <= start + CheckpointFetchBatchSize - 1
        BY <4>1, <4>2
      <4>4. Len(SeqNums) = LastOfBatch - start + 1
        BY <3>1
      <4> QED
        BY <4>1, <4>2, <4>3, <4>4
    <3>3. PICK i \in 1 .. LastOfBatch - start + 1 : ~InArchive(SeqNums[i])
      <4>1. Len(SeqNums) \in Int /\ CheckpointBatchSize \in Int
        BY <2>1, <2>2, <3>1, ArithmeticAssumption
      <4> QED
        BY <1>2, <2>3, <3>1, <3>2, <4>1
    <3> DEFINE n == start + i - 1
    <3>4. SeqNums[i] = n /\ n \in Int /\ n >= start /\ n <= LastOfBatch
      BY <2>1, <2>2, <3>1
    <3> HIDE DEF n
    <3>5. n > Tip
      BY <2>2, <3>3, <3>4, ConstantsTyped DEF InArchive, Unsigned
    <3>6. n > job.last /\ n <= job.end
      <4>1. to \in Int /\ job.last \in Int /\ job.end \in Int
        BY Facts
      <4>2. /\ LastOfBatch \in Int /\ start \in Int /\ start > job.last
            /\ to <= job.end /\ LastOfBatch <= to
        BY <2>1, <2>2
      <4> QED
        BY <3>4, <4>1, <4>2
    <3>7. ~Feasible
      BY <3>4, <3>5, <3>6, Beyond
    <3> QED
      BY <1>1, <1>2, <2>3, <3>7 DEF EndsInv, EndsRightly, Feasible, Last
  <2>4. CASE pc' = "dispatch"
    <3>1. Last' = LastOfBatch /\ LastOfBatch <= Tip /\ start' = start + CheckpointFetchBatchSize
      BY <1>4, <1>1, <2>4, LastFetched, NextBatch
    <3>2. ASSUME start' <= to, Hopeless(start') PROVE ~Feasible
      <4>1. start' \in Int /\ start' > Tip /\ start' > job.last /\ start' <= job.end
        BY <2>2, <3>1, <3>2, Facts, ConstantsTyped DEF Hopeless
      <4> QED
        BY <4>1, Beyond
    <3>3. ~(batchStart + ProcessingChunkSize > MaxInt)
      BY <2>1, Facts, ConstantsTyped DEF ChunkTo
    <3> QED
      BY <1>1, <2>4, <3>1, <3>2, <3>3 DEF EndsInv, EndsRightly, Feasible, Hopeless
  <2> QED
    BY <1>1, <2>3, <2>4
<1> QED
  BY <1>3, <1>4

\* A run that is done found the archive to have all that was left of its range,
\* and one that fails could not have succeeded, whatever overflows.
THEOREM RunOutcome == Spec => []EndsRightly
<1>1. Init => EndsInv
  <2> SUFFICES ASSUME Init PROVE EndsInv
    OBVIOUS
  <2>1. Len(fetched) = 0 /\ pc = "load"
    BY DEF Init
  <2> QED
    BY <2>1 DEF EndsInv, EndsRightly
<1>2. RunInv /\ EndsInv /\ [Next]_vars => EndsInv'
  <2> SUFFICES ASSUME RunInv, EndsInv, [Next]_vars PROVE EndsInv'
    OBVIOUS
  <2>1. CASE Load
    <3>1. pc' \in {"exit", "claim"} /\ fetched' = fetched /\ job' = job
      BY <2>1 DEF Load
    <3> QED
      BY <3>1 DEF EndsInv, EndsRightly, Last
  <2>2. CASE UNCHANGED vars
    BY <2>2 DEF vars, EndsInv, EndsRightly, Last, Feasible, Hopeless
  <2> QED
    BY <2>1, <2>2, ClaimEnds, ChunkEnds, ChunkDoneEnds, FetchEnds DEF Next
<1>3. EndsInv => EndsRightly
  BY DEF EndsInv
<1> QED
  BY <1>1, <1>2, <1>3, RunInvInit, RunInvNext, PTL DEF Spec
=============================================================================
