--------------------------- MODULE PipelineProofs ---------------------------
(***************************************************************************)
(* Theorems about CheckpointPipeline, for every chunk, every number of     *)
(* fetchers and hydrators and all batch sizes: the type invariant, the     *)
(* order in which rows reach the tables, the flow of checkpoints (none is  *)
(* lost or processed twice, a chunk that returns nil is written whole, and *)
(* the pipeline implements ChunkContract), and the size of the batches.    *)
(***************************************************************************)
EXTENDS CheckpointPipeline, Sums, FiniteSetTheorems, SequenceTheorems, TLAPS

-----------------------------------------------------------------------------
(***************************************************************************)
(* The shape of what is in hand: a goroutine that waits holds nothing, one *)
(* that works or sends holds something, and no batch is empty.             *)
(***************************************************************************)

HandOK(g) ==
  /\ g \in Goroutine
  /\ g.pc = "recv" => g.items = <<>>
  /\ g.pc \in {"work", "push"} => g.items # <<>>

BatchesOK(ch) == \A i \in DOMAIN ch : ch[i] # <<>>

BatcherOK ==
  /\ batcher.pc \in {"before", "after", "final"} => batcher.batch # <<>>
  /\ batcher.pc = "before" => batcher.task \in Chunk

ShapeInv ==
  /\ \A f \in Fetchers : HandOK(fetcher[f])
  /\ \A h \in Hydrators : HandOK(hydrator[h])
  /\ BatchesOK(batchCh) /\ BatchesOK(hydrationCh)
  /\ BatcherOK

TypeInv == TypeOK /\ ShapeInv

LEMMA SizesTyped ==
  /\ From \in Nat /\ To \in Nat /\ From <= To
  /\ Fetchers # {} /\ Hydrators # {}
  /\ FetchBatchSize \in Nat /\ FetchBatchSize >= 1
  /\ HydrationBatchSize \in Nat /\ HydrationBatchSize >= 1
  /\ WriteBatchSize \in Nat /\ WriteBatchSize >= 1
  /\ \A c \in Chunk : Digests[c] \in Nat
  /\ BatchCap \in Nat /\ DataCap \in Nat /\ HydrationCap \in Nat /\ ResultCap \in Nat
<1>1. \A c \in Chunk : Digests[c] \in Nat
  BY DataAssumption
<1>2. Cardinality(Fetchers) \in Nat /\ Cardinality(Hydrators) \in Nat
  BY PoolAssumption, FS_CardinalityType
<1>3. \A m, n \in Nat : m * n \in Nat
  OBVIOUS
<1> QED
  BY <1>1, <1>2, <1>3, ChunkAssumption, PoolAssumption, SizeAssumption
     DEF BatchCap, DataCap, HydrationCap, ResultCap

\* The chunk is a finite set of numbers, and so is any part of it.
LEMMA ChunkFinite ==
  /\ IsFiniteSet(Chunk) /\ Chunk \subseteq Nat
  /\ \A S \in SUBSET Chunk : IsFiniteSet(S) /\ Cardinality(S) \in Nat
<1>1. IsFiniteSet(Chunk) /\ Chunk \subseteq Nat
  BY ChunkAssumption, FS_Interval DEF Chunk
<1> QED
  BY <1>1, FS_Subset, FS_CardinalityType

\* The first task of a channel, and what it leaves behind.
LEMMA TakeBatch ==
  ASSUME NEW ch \in Seq(Seq(Chunk)), BatchesOK(ch), ch # <<>>
  PROVE  /\ Head(ch) \in Seq(Chunk) /\ Head(ch) # <<>>
         /\ Tail(ch) \in Seq(Seq(Chunk)) /\ BatchesOK(Tail(ch))
         /\ Len(Tail(ch)) = Len(ch) - 1 /\ Len(Tail(ch)) \in Nat
<1>1. /\ Head(ch) \in Seq(Chunk) /\ Tail(ch) \in Seq(Seq(Chunk))
      /\ Len(Tail(ch)) = Len(ch) - 1 /\ Len(ch) \in Nat /\ Len(Tail(ch)) \in Nat
      /\ \A i \in 1 .. Len(Tail(ch)) : Tail(ch)[i] = ch[i + 1]
  BY HeadTailProperties, LenProperties, EmptySeq
<1>2. DOMAIN Tail(ch) = 1 .. Len(Tail(ch)) /\ DOMAIN ch = 1 .. Len(ch) /\ Len(ch) >= 1
  BY <1>1
<1>3. Head(ch) = ch[1]
  BY <1>1
<1> QED
  BY <1>1, <1>2, <1>3 DEF BatchesOK

LEMMA PutBatch ==
  ASSUME NEW ch \in Seq(Seq(Chunk)), BatchesOK(ch), NEW b \in Seq(Chunk), b # <<>>
  PROVE  /\ Append(ch, b) \in Seq(Seq(Chunk)) /\ BatchesOK(Append(ch, b))
         /\ Len(Append(ch, b)) = Len(ch) + 1 /\ Len(ch) \in Nat
<1>1. /\ Append(ch, b) \in Seq(Seq(Chunk)) /\ Len(Append(ch, b)) = Len(ch) + 1
      /\ \A i \in 1 .. Len(ch) : Append(ch, b)[i] = ch[i]
      /\ Append(ch, b)[Len(ch) + 1] = b /\ Len(ch) \in Nat
  BY AppendProperties, LenProperties
<1>2. DOMAIN Append(ch, b) = 1 .. Len(ch) + 1 /\ DOMAIN ch = 1 .. Len(ch)
  BY <1>1
<1> QED
  BY <1>1, <1>2 DEF BatchesOK

\* A goroutine that takes a task, and one that sends its first checkpoint.
LEMMA WorksOK ==
  ASSUME NEW g, HandOK(g), NEW b \in Seq(Chunk), b # <<>>
  PROVE  HandOK(Works(g, b)) /\ Works(g, b).items = b /\ Works(g, b).pc = "work"
BY DEF HandOK, Works, Goroutine, PoolPC

LEMMA SentOK ==
  ASSUME NEW g, HandOK(g), g.pc = "push"
  PROVE  /\ HandOK(Sent(g)) /\ Head(g.items) \in Chunk
         /\ g.items # <<>> /\ Sent(g).items = Tail(g.items)
         /\ Sent(g).pc \in {"recv", "push"}
<1>1. g \in Goroutine /\ g.items \in Seq(Chunk) /\ g.items # <<>>
  BY DEF HandOK, Goroutine
<1>2. /\ Head(g.items) \in Chunk /\ Tail(g.items) \in Seq(Chunk)
      /\ Len(Tail(g.items)) = Len(g.items) - 1 /\ Len(g.items) \in Nat
  BY <1>1, HeadTailProperties, LenProperties
<1> DEFINE s == g.items
           t == Tail(s)
<1>3. t = <<>> <=> Len(s) = 1
  <2>1. t \in Seq(Chunk) /\ Len(t) = Len(s) - 1 /\ Len(s) \in Nat
    BY <1>2
  <2> HIDE DEF t, s
  <2>2. Len(t) = 0 <=> t = <<>>
    BY <2>1, EmptySeq
  <2> QED
    BY <2>1, <2>2
<1> DEFINE p == IF Len(g.items) = 1 THEN "recv" ELSE "push"
           q == Tail(g.items)
<1>4. p \in PoolPC /\ q \in Seq(Chunk)
  BY <1>2 DEF PoolPC
<1>5. Sent(g) = [g EXCEPT !.pc = p, !.items = q]
  BY DEF Sent
<1> HIDE DEF p, q
<1>6. Sent(g) \in Goroutine /\ Sent(g).pc = p /\ Sent(g).items = q
  BY <1>1, <1>4, <1>5 DEF Goroutine
<1> USE DEF p, q
<1> QED
  BY <1>1, <1>2, <1>3, <1>6 DEF HandOK

-----------------------------------------------------------------------------
(***************************************************************************)
(* The type invariant, action by action.                                   *)
(***************************************************************************)

\* The batch of the n checkpoints from a on.
LEMMA Consecutive ==
  ASSUME NEW n \in Nat, n >= 1, NEW a \in Nat, a .. a + n - 1 \subseteq Chunk,
         NEW b, b = [k \in 1 .. n |-> a + k - 1]
  PROVE  b \in Seq(Chunk) /\ b # <<>> /\ Len(b) = n
<1>1. \A k \in 1 .. n : a + k - 1 \in Chunk
  OBVIOUS
<1>2. b \in [1 .. n -> Chunk]
  BY <1>1
<1>3. b \in Seq(Chunk) /\ Len(b) = n
  BY <1>2
<1> QED
  BY <1>3, EmptySeq

LEMMA BatchDispatched ==
  ASSUME TypeInv, dispatched <= To, NEW b,
         b = [k \in 1 .. LastOfBatch - dispatched + 1 |-> dispatched + k - 1]
  PROVE  /\ LastOfBatch \in dispatched .. To
         /\ b \in Seq(Chunk) /\ b # <<>>
         /\ DOMAIN b = 1 .. LastOfBatch - dispatched + 1
         /\ \A k \in DOMAIN b : b[k] = dispatched + k - 1
<1>1. dispatched \in From .. To
  BY SizesTyped DEF TypeInv, TypeOK
<1>2. LastOfBatch \in dispatched .. To
  BY <1>1, SizesTyped DEF LastOfBatch
<1>3. /\ LastOfBatch - dispatched + 1 \in Nat /\ LastOfBatch - dispatched + 1 >= 1
      /\ dispatched .. dispatched + (LastOfBatch - dispatched + 1) - 1 \subseteq Chunk
  BY <1>1, <1>2, SizesTyped DEF Chunk
<1>4. dispatched \in Nat
  BY <1>1, SizesTyped
<1>5. b \in Seq(Chunk) /\ b # <<>>
  BY <1>3, <1>4, Consecutive
<1> QED
  BY <1>2, <1>5

LEMMA TypeInit == Init => TypeInv
<1> SUFFICES ASSUME Init PROVE TypeInv
  OBVIOUS
<1> USE SizesTyped DEF Init
<1>1. Ready \in Goroutine /\ HandOK(Ready)
  BY EmptySeq DEF Ready, Goroutine, PoolPC, HandOK
<1>2. batcher \in Batcher /\ BatcherOK
  BY EmptySeq DEF Batcher, BatcherPC, BatcherOK
<1>3. writer \in Writer
  BY DEF Writer, WriterPC
<1>4. /\ batchCh \in Seq(Seq(Chunk)) /\ hydrationCh \in Seq(Seq(Chunk))
      /\ dataCh \in Seq(Chunk) /\ resultCh \in Seq(Chunk)
      /\ Len(batchCh) = 0 /\ Len(hydrationCh) = 0 /\ Len(dataCh) = 0 /\ Len(resultCh) = 0
  BY EmptySeq
<1>5. TypeOK
  <2>0. dispatched \in From .. To + 1
    OBVIOUS
  <2>1. /\ stopping \in BOOLEAN /\ cancelled \in BOOLEAN
        /\ errCh \in {0, 1} /\ main \in {"wait", "join", "check", "nil", "error"}
    OBVIOUS
  <2>2. fetcher \in [Fetchers -> Goroutine] /\ hydrator \in [Hydrators -> Goroutine]
    BY <1>1
  <2>3. rows \in [Tables -> SUBSET Chunk]
    OBVIOUS
  <2>4. /\ Len(batchCh) <= BatchCap /\ Len(hydrationCh) <= HydrationCap
        /\ Len(dataCh) <= DataCap /\ Len(resultCh) <= ResultCap
    BY <1>4
  <2> QED
    BY <1>2, <1>3, <1>4, <2>0, <2>1, <2>2, <2>3, <2>4 DEF TypeOK
<1>6. ShapeInv
  BY <1>1, <1>2, <1>4 DEF ShapeInv, BatchesOK
<1> QED
  BY <1>5, <1>6 DEF TypeInv

LEMMA TypeDispatcher ==
  ASSUME TypeInv, Dispatcher
  PROVE  TypeInv'
<1>1. CASE Dispatch
  <2> DEFINE b == [k \in 1 .. LastOfBatch - dispatched + 1 |-> dispatched + k - 1]
  <2>1. LastOfBatch \in dispatched .. To /\ b \in Seq(Chunk) /\ b # <<>>
    BY <1>1, BatchDispatched DEF Dispatch
  <2> HIDE DEF b
  <2>2. batchCh' = Append(batchCh, b) /\ Len(batchCh) < BatchCap
    BY <1>1 DEF Dispatch, b
  <2>3. /\ batchCh' \in Seq(Seq(Chunk)) /\ BatchesOK(batchCh')
        /\ Len(batchCh') <= BatchCap
    BY <2>1, <2>2, PutBatch, SizesTyped DEF TypeInv, TypeOK, ShapeInv
  <2>4. dispatched' \in From .. To + 1
    BY <1>1, <2>1, SizesTyped DEF Dispatch, TypeInv, TypeOK
  <2> QED
    BY <1>1, <2>3, <2>4 DEF Dispatch, TypeInv, TypeOK, ShapeInv, BatcherOK
<1>2. CASE DispatcherStops
  BY <1>2, SizesTyped DEF DispatcherStops, TypeInv, TypeOK, ShapeInv, BatcherOK
<1> QED
  BY <1>1, <1>2 DEF Dispatcher

LEMMA TypeFetcher ==
  ASSUME TypeInv, NEW f \in Fetchers, Fetcher(f)
  PROVE  TypeInv'
<1>1. /\ fetcher \in [Fetchers -> Goroutine] /\ HandOK(fetcher[f])
      /\ batchCh \in Seq(Seq(Chunk)) /\ BatchesOK(batchCh) /\ Len(batchCh) <= BatchCap
      /\ dataCh \in Seq(Chunk) /\ Len(dataCh) <= DataCap
      /\ Len(batchCh) \in Nat /\ Len(dataCh) \in Nat
  BY LenProperties DEF TypeInv, TypeOK, ShapeInv
\* Only the goroutine and the channels it uses change.
<1>2. SUFFICES ASSUME NEW g, fetcher' = [fetcher EXCEPT ![f] = g], HandOK(g),
                      batchCh' \in Seq(Seq(Chunk)), BatchesOK(batchCh'),
                      Len(batchCh') <= BatchCap,
                      dataCh' \in Seq(Chunk), Len(dataCh') <= DataCap,
                      cancelled' \in BOOLEAN, errCh' \in {0, 1},
                      UNCHANGED <<stopping, dispatched, batcher, hydrationCh,
                                  hydrator, resultCh, writer, rows, main>>
               PROVE  TypeInv'
  <2>1. CASE FetcherTakes(f)
    <3>1. HandOK(Works(fetcher[f], Head(batchCh)))
      BY <1>1, <2>1, TakeBatch, WorksOK DEF FetcherTakes
    <3>2. fetcher' = [fetcher EXCEPT ![f] = Works(fetcher[f], Head(batchCh))]
      BY <2>1 DEF FetcherTakes
    <3>3. /\ batchCh' \in Seq(Seq(Chunk)) /\ BatchesOK(batchCh')
          /\ Len(batchCh') <= BatchCap
      BY <1>1, <2>1, TakeBatch, SizesTyped DEF FetcherTakes
    <3> QED
      BY <1>1, <1>2, <2>1, <3>1, <3>2, <3>3 DEF FetcherTakes, TypeInv, TypeOK
  <2>2. CASE FetcherMoves(f)
    <3>1. PICK p \in PoolPC :
            /\ fetcher' = [fetcher EXCEPT ![f] = [fetcher[f] EXCEPT !.pc = p]]
            /\ HandOK([fetcher[f] EXCEPT !.pc = p])
      BY <1>1, <2>2 DEF FetcherMoves, HandOK, Goroutine, PoolPC
    <3> QED
      BY <1>1, <1>2, <2>2, <3>1 DEF FetcherMoves, TypeInv, TypeOK
  <2>3. CASE FetcherSends(f)
    <3>1. HandOK(Sent(fetcher[f])) /\ Head(fetcher[f].items) \in Chunk
      BY <1>1, <2>3, SentOK DEF FetcherSends
    <3>2. fetcher' = [fetcher EXCEPT ![f] = Sent(fetcher[f])]
      BY <2>3 DEF FetcherSends
    <3>3. dataCh' \in Seq(Chunk) /\ Len(dataCh') <= DataCap
      BY <1>1, <2>3, <3>1, AppendProperties, SizesTyped DEF FetcherSends
    <3> QED
      BY <1>1, <1>2, <2>3, <3>1, <3>2, <3>3 DEF FetcherSends, TypeInv, TypeOK
  <2>4. CASE FetcherFails(f)
    <3>1. PICK p \in PoolPC :
            /\ fetcher' = [fetcher EXCEPT ![f] = [fetcher[f] EXCEPT !.pc = p]]
            /\ HandOK([fetcher[f] EXCEPT !.pc = p])
      BY <1>1, <2>4 DEF FetcherFails, HandOK, Goroutine, PoolPC
    <3>2. cancelled' \in BOOLEAN /\ errCh' \in {0, 1}
      BY <2>4 DEF FetcherFails, PushError, CancelPipeline, TypeInv, TypeOK
    <3> QED
      BY <1>1, <1>2, <2>4, <3>1, <3>2 DEF FetcherFails, TypeInv, TypeOK
  <2> QED
    BY <2>1, <2>2, <2>3, <2>4 DEF Fetcher
<1>3. g \in Goroutine
  BY <1>2 DEF HandOK
<1>4. fetcher' \in [Fetchers -> Goroutine] /\ \A e \in Fetchers : HandOK(fetcher'[e])
  BY <1>1, <1>2, <1>3 DEF TypeInv, ShapeInv
<1>5. TypeOK'
  BY <1>2, <1>4 DEF TypeInv, TypeOK
<1>6. ShapeInv'
  BY <1>2, <1>4 DEF TypeInv, ShapeInv, BatcherOK
<1> QED
  BY <1>5, <1>6 DEF TypeInv

LEMMA TypeBatcher ==
  ASSUME TypeInv, BatcherStep
  PROVE  TypeInv'
<1>1. /\ batcher \in Batcher /\ BatcherOK
      /\ dataCh \in Seq(Chunk) /\ Len(dataCh) <= DataCap /\ Len(dataCh) \in Nat
      /\ hydrationCh \in Seq(Seq(Chunk)) /\ BatchesOK(hydrationCh)
      /\ Len(hydrationCh) <= HydrationCap /\ Len(hydrationCh) \in Nat
  BY LenProperties DEF TypeInv, TypeOK, ShapeInv
<1>2. ASSUME NEW b \in Seq(Chunk), NEW n \in Nat, NEW c \in Chunk
      PROVE  /\ Grown(b, n, c) \in Batcher
             /\ Grown(b, n, c).batch # <<>> /\ Grown(b, n, c).pc \in {"after", "recv"}
  <2>1. Append(b, c) \in Seq(Chunk) /\ Append(b, c) # <<>>
    BY AppendProperties
  <2> QED
    BY <2>1, SizesTyped DEF Grown, Batcher, BatcherPC
\* Only the batcher and the channels it uses change.
<1>3. SUFFICES ASSUME batcher' \in Batcher, BatcherOK',
                      dataCh' \in Seq(Chunk), Len(dataCh') <= DataCap,
                      hydrationCh' \in Seq(Seq(Chunk)), BatchesOK(hydrationCh'),
                      Len(hydrationCh') <= HydrationCap,
                      UNCHANGED <<stopping, cancelled, dispatched, batchCh, fetcher,
                                  hydrator, resultCh, writer, rows, errCh, main>>
               PROVE  TypeInv'
  <2>1. CASE BatcherTakes
    <3> DEFINE c == Head(dataCh)
    <3>1. c \in Chunk /\ dataCh' \in Seq(Chunk) /\ Len(dataCh') <= DataCap
      BY <1>1, <2>1, HeadTailProperties, SizesTyped DEF BatcherTakes
    <3>2. batcher' \in Batcher /\ BatcherOK'
      <4>1. CASE TooBig(c)
        BY <1>1, <2>1, <3>1, <4>1 DEF BatcherTakes, TooBig, Batcher, BatcherPC, BatcherOK
      <4>2. CASE ~TooBig(c)
        <5>1. batcher' = Grown(batcher.batch, batcher.digests, c)
          BY <2>1, <4>2 DEF BatcherTakes
        <5> HIDE DEF c
        <5>2. batcher.batch \in Seq(Chunk) /\ batcher.digests \in Nat
          BY <1>1 DEF Batcher
        <5> QED
          BY <1>2, <3>1, <5>1, <5>2 DEF BatcherOK
      <4> QED
        BY <4>1, <4>2
    <3> QED
      BY <1>1, <1>3, <2>1, <3>1, <3>2 DEF BatcherTakes
  <2>2. CASE BatcherFlushes
    <3>1. /\ batcher.batch \in Seq(Chunk) /\ batcher.batch # <<>>
          /\ batcher.pc = "before" => batcher.task \in Chunk
      BY <1>1, <2>2 DEF BatcherFlushes, BatcherOK, Batcher
    <3>2. /\ hydrationCh' \in Seq(Seq(Chunk)) /\ BatchesOK(hydrationCh')
          /\ Len(hydrationCh') <= HydrationCap
      BY <1>1, <2>2, <3>1, PutBatch, SizesTyped DEF BatcherFlushes
    <3>3. batcher' \in Batcher /\ BatcherOK'
      <4>1. CASE batcher.pc = "before"
        <5>1. batcher' = Grown(<<>>, 0, batcher.task)
          BY <2>2, <4>1 DEF BatcherFlushes
        <5> QED
          BY <1>2, <3>1, <4>1, <5>1, EmptySeq DEF BatcherOK
      <4>2. CASE batcher.pc # "before"
        BY <1>1, <2>2, <4>2, EmptySeq DEF BatcherFlushes, Batcher, BatcherPC, BatcherOK
      <4> QED
        BY <4>1, <4>2
    <3> QED
      BY <1>1, <1>3, <2>2, <3>2, <3>3 DEF BatcherFlushes
  <2>3. CASE BatcherEnds
    <3>1. batcher' \in Batcher /\ BatcherOK'
      BY <1>1, <2>3 DEF BatcherEnds, Batcher, BatcherPC, BatcherOK
    <3> QED
      BY <1>1, <1>3, <2>3, <3>1 DEF BatcherEnds
  <2> QED
    BY <2>1, <2>2, <2>3 DEF BatcherStep
<1>4. TypeOK'
  BY <1>3 DEF TypeInv, TypeOK
<1>5. ShapeInv'
  BY <1>3 DEF TypeInv, ShapeInv
<1> QED
  BY <1>4, <1>5 DEF TypeInv

LEMMA TypeHydrator ==
  ASSUME TypeInv, NEW h \in Hydrators, Hydrator(h)
  PROVE  TypeInv'
<1>1. /\ hydrator \in [Hydrators -> Goroutine] /\ HandOK(hydrator[h])
      /\ hydrationCh \in Seq(Seq(Chunk)) /\ BatchesOK(hydrationCh)
      /\ Len(hydrationCh) <= HydrationCap
      /\ resultCh \in Seq(Chunk) /\ Len(resultCh) <= ResultCap
      /\ Len(hydrationCh) \in Nat /\ Len(resultCh) \in Nat
  BY LenProperties DEF TypeInv, TypeOK, ShapeInv
\* Only the goroutine and the channels it uses change.
<1>2. SUFFICES ASSUME NEW g, hydrator' = [hydrator EXCEPT ![h] = g], HandOK(g),
                      hydrationCh' \in Seq(Seq(Chunk)), BatchesOK(hydrationCh'),
                      Len(hydrationCh') <= HydrationCap,
                      resultCh' \in Seq(Chunk), Len(resultCh') <= ResultCap,
                      cancelled' \in BOOLEAN, errCh' \in {0, 1},
                      UNCHANGED <<stopping, dispatched, batchCh, fetcher, dataCh,
                                  batcher, writer, rows, main>>
               PROVE  TypeInv'
  <2>1. CASE HydratorTakes(h)
    <3>1. HandOK(Works(hydrator[h], Head(hydrationCh)))
      BY <1>1, <2>1, TakeBatch, WorksOK DEF HydratorTakes
    <3>2. hydrator' = [hydrator EXCEPT ![h] = Works(hydrator[h], Head(hydrationCh))]
      BY <2>1 DEF HydratorTakes
    <3>3. /\ hydrationCh' \in Seq(Seq(Chunk)) /\ BatchesOK(hydrationCh')
          /\ Len(hydrationCh') <= HydrationCap
      BY <1>1, <2>1, TakeBatch, SizesTyped DEF HydratorTakes
    <3> QED
      BY <1>1, <1>2, <2>1, <3>1, <3>2, <3>3 DEF HydratorTakes, TypeInv, TypeOK
  <2>2. CASE HydratorMoves(h)
    <3>1. PICK p \in PoolPC :
            /\ hydrator' = [hydrator EXCEPT ![h] = [hydrator[h] EXCEPT !.pc = p]]
            /\ HandOK([hydrator[h] EXCEPT !.pc = p])
      BY <1>1, <2>2 DEF HydratorMoves, HandOK, Goroutine, PoolPC
    <3> QED
      BY <1>1, <1>2, <2>2, <3>1 DEF HydratorMoves, TypeInv, TypeOK
  <2>3. CASE HydratorSends(h)
    <3>1. HandOK(Sent(hydrator[h])) /\ Head(hydrator[h].items) \in Chunk
      BY <1>1, <2>3, SentOK DEF HydratorSends
    <3>2. hydrator' = [hydrator EXCEPT ![h] = Sent(hydrator[h])]
      BY <2>3 DEF HydratorSends
    <3>3. resultCh' \in Seq(Chunk) /\ Len(resultCh') <= ResultCap
      BY <1>1, <2>3, <3>1, AppendProperties, SizesTyped DEF HydratorSends
    <3> QED
      BY <1>1, <1>2, <2>3, <3>1, <3>2, <3>3 DEF HydratorSends, TypeInv, TypeOK
  <2>4. CASE HydratorFails(h)
    <3>1. PICK p \in PoolPC :
            /\ hydrator' = [hydrator EXCEPT ![h] = [hydrator[h] EXCEPT !.pc = p]]
            /\ HandOK([hydrator[h] EXCEPT !.pc = p])
      BY <1>1, <2>4 DEF HydratorFails, HandOK, Goroutine, PoolPC
    <3>2. cancelled' \in BOOLEAN /\ errCh' \in {0, 1}
      BY <2>4 DEF HydratorFails, PushError, CancelPipeline, TypeInv, TypeOK
    <3> QED
      BY <1>1, <1>2, <2>4, <3>1, <3>2 DEF HydratorFails, TypeInv, TypeOK
  <2> QED
    BY <2>1, <2>2, <2>3, <2>4 DEF Hydrator
<1>3. g \in Goroutine
  BY <1>2 DEF HandOK
<1>4. hydrator' \in [Hydrators -> Goroutine] /\ \A e \in Hydrators : HandOK(hydrator'[e])
  BY <1>1, <1>2, <1>3 DEF TypeInv, ShapeInv
<1>5. TypeOK'
  BY <1>2, <1>4 DEF TypeInv, TypeOK
<1>6. ShapeInv'
  BY <1>2, <1>4 DEF TypeInv, ShapeInv, BatcherOK
<1> QED
  BY <1>5, <1>6 DEF TypeInv

LEMMA IntervalSize ==
  ASSUME NEW p \in Int, NEW k \in Nat
  PROVE  IsFiniteSet(p + 1 .. p + k) /\ Cardinality(p + 1 .. p + k) = k
<1>1. \A a, b \in Int : /\ IsFiniteSet(a .. b)
                         /\ Cardinality(a .. b) = IF a > b THEN 0 ELSE b - a + 1
  BY FS_Interval
<1>2. p + 1 \in Int /\ p + k \in Int
  OBVIOUS
<1>3. /\ IsFiniteSet(p + 1 .. p + k)
      /\ Cardinality(p + 1 .. p + k) = IF p + 1 > p + k THEN 0 ELSE (p + k) - (p + 1) + 1
  BY <1>1, <1>2
<1> QED
  BY <1>3

\* The stretch of results that follows position p is an interval: its number
\* of elements says how far it reaches, and the next result is not there.
LEMMA Stretch ==
  ASSUME NEW pending \in SUBSET Chunk, NEW p \in Int, writer.flushUntil = p,
         NEW k, k = Cardinality(Contiguous(pending))
  PROVE  /\ k \in Nat /\ Contiguous(pending) = p + 1 .. p + k
         /\ Contiguous(pending) \subseteq pending
         /\ p + k + 1 \notin pending
<1> DEFINE S == Contiguous(pending)
<1>1. S = {n \in pending : n > p /\ p + 1 .. n \subseteq pending}
  BY DEF Contiguous
<1>2. S \subseteq pending /\ S \subseteq Nat /\ IsFiniteSet(S) /\ k \in Nat
  BY <1>1, ChunkFinite, FS_Subset
<1> HIDE DEF S
<1>3. ASSUME NEW n \in S PROVE n <= p + k /\ n > p
  <2>1. n \in Nat /\ n > p /\ p + 1 .. n \subseteq pending
    BY <1>1, <1>2
  <2>2. ASSUME NEW m \in p + 1 .. n PROVE m \in S
    <3>1. m \in pending /\ m > p
      BY <2>1, <2>2
    <3>2. p + 1 .. m \subseteq p + 1 .. n
      BY <2>1, <2>2
    <3> QED
      BY <1>1, <2>1, <3>1, <3>2
  <2>3. p + 1 .. n \in SUBSET S
    BY <2>2
  <2>4. Cardinality(p + 1 .. n) = n - p
    BY <2>1, FS_Interval
  <2>5. Cardinality(p + 1 .. n) <= Cardinality(S)
    BY <1>2, <2>3, FS_Subset
  <2> QED
    BY <1>2, <2>1, <2>4, <2>5 DEF S
<1> DEFINE I == p + 1 .. p + k
<1>4. S \in SUBSET I
  BY <1>2, <1>3
<1>5. IsFiniteSet(I) /\ Cardinality(I) = k
  BY <1>2, IntervalSize
<1>6. Cardinality(S) = k
  BY DEF S
<1>7. S = I
  <2> HIDE DEF I
  <2> QED
    BY <1>4, <1>5, <1>6, FS_Subset
<1>8. ASSUME p + k + 1 \in pending PROVE FALSE
  <2>1. p + 1 .. p + k + 1 \subseteq pending
    BY <1>2, <1>7, <1>8
  <2>2. p + k + 1 \in S
    BY <1>1, <1>2, <1>8, <2>1
  <2> QED
    BY <1>2, <1>7, <2>2
<1> QED
  BY <1>2, <1>7, <1>8 DEF S

LEMMA TypeWriter ==
  ASSUME TypeInv, WriterStep
  PROVE  TypeInv'
<1>1. /\ writer \in Writer /\ rows \in [Tables -> SUBSET Chunk]
      /\ resultCh \in Seq(Chunk) /\ Len(resultCh) <= ResultCap /\ Len(resultCh) \in Nat
  BY LenProperties DEF TypeInv, TypeOK
\* Only the writer, the channel it reads and the tables change.
<1>2. SUFFICES ASSUME writer' \in Writer, rows' \in [Tables -> SUBSET Chunk],
                      resultCh' \in Seq(Chunk), Len(resultCh') <= ResultCap,
                      UNCHANGED <<stopping, cancelled, dispatched, batchCh, fetcher,
                                  dataCh, batcher, hydrationCh, hydrator, errCh, main>>
               PROVE  TypeInv'
  <2>1. CASE WriterTakes
    <3> DEFINE pending == writer.pending \cup {Head(resultCh)}
    <3>1. /\ resultCh' \in Seq(Chunk) /\ Len(resultCh') <= ResultCap
          /\ Head(resultCh) \in Chunk
      BY <1>1, <2>1, HeadTailProperties, SizesTyped DEF WriterTakes
    <3>2. pending \in SUBSET Chunk
      BY <1>1, <3>1 DEF Writer
    <3> HIDE DEF pending
    <3>3. /\ Contiguous(pending) \in SUBSET Chunk
          /\ Cardinality(Contiguous(pending)) \in Nat
      BY <3>2, ChunkFinite DEF Contiguous
    <3>4. Queued(pending) \in Writer
      <4> DEFINE S == Contiguous(pending)
                 k == Cardinality(S)
                 p == IF Cardinality(writer.buffer \cup S) >= WriteBatchSize
                      THEN "checkpoints" ELSE "select"
      <4>1. Queued(pending) =
              [writer EXCEPT !.pc = p, !.pending = pending \ S,
                             !.buffer = writer.buffer \cup S,
                             !.flushUntil = writer.flushUntil + k]
        BY DEF Queued
      <4>2. p \in WriterPC /\ S \in SUBSET Chunk /\ k \in Nat
        BY <3>3 DEF WriterPC, Tables
      <4> HIDE DEF S, k, p
      <4>3. /\ pending \ S \in SUBSET Chunk
            /\ writer.buffer \cup S \in SUBSET Chunk
            /\ writer.flushUntil + k \in Int
        BY <1>1, <3>2, <4>2 DEF Writer
      <4> QED
        BY <1>1, <4>1, <4>2, <4>3 DEF Writer
    <3>5. writer' = Queued(pending) \/ writer' = [writer EXCEPT !.pc = "done", !.err = TRUE]
      BY <2>1 DEF WriterTakes, pending
    <3>6. writer' \in Writer
      BY <1>1, <3>4, <3>5 DEF Writer, WriterPC
    <3> QED
      BY <1>1, <1>2, <2>1, <3>1, <3>6 DEF WriterTakes
  <2>2. CASE WriterMoves
    <3>1. writer' \in Writer
      BY <1>1, <2>2 DEF WriterMoves, Writer, WriterPC, Tables
    <3> QED
      BY <1>1, <1>2, <2>2, <3>1 DEF WriterMoves
  <2>3. CASE Insert
    <3>1. NextTable(writer.pc) \in WriterPC
      BY <2>3 DEF Insert, NextTable, WriterPC, Tables
    <3>2. writer' \in Writer
      BY <1>1, <2>3, <3>1 DEF Insert, Writer
    <3>3. rows' \in [Tables -> SUBSET Chunk]
      BY <1>1, <2>3 DEF Insert, Writer
    <3> QED
      BY <1>1, <1>2, <2>3, <3>2, <3>3 DEF Insert
  <2>4. CASE InsertFails
    <3>1. writer' \in Writer
      BY <1>1, <2>4 DEF InsertFails, Writer, WriterPC
    <3>2. rows' \in [Tables -> SUBSET Chunk]
      BY <1>1, <2>4 DEF InsertFails, Writer
    <3> QED
      BY <1>1, <1>2, <2>4, <3>1, <3>2 DEF InsertFails
  <2>5. CASE ReportBatch
    <3>1. writer' \in Writer
      BY <1>1, <2>5 DEF ReportBatch, Writer, WriterPC
    <3> QED
      BY <1>1, <1>2, <2>5, <3>1 DEF ReportBatch
  <2> QED
    BY <2>1, <2>2, <2>3, <2>4, <2>5 DEF WriterStep
<1>3. TypeOK'
  BY <1>2 DEF TypeInv, TypeOK
<1>4. ShapeInv'
  BY <1>2 DEF TypeInv, ShapeInv, BatcherOK
<1> QED
  BY <1>3, <1>4 DEF TypeInv

LEMMA TypeMain ==
  ASSUME TypeInv, Main \/ CancelJob
  PROVE  TypeInv'
<1>1. /\ stopping' \in BOOLEAN /\ cancelled' \in BOOLEAN /\ errCh' \in {0, 1}
      /\ main' \in {"wait", "join", "check", "nil", "error"}
      /\ UNCHANGED <<dispatched, batchCh, fetcher, dataCh, batcher, hydrationCh,
                     hydrator, resultCh, writer, rows>>
  BY DEF Main, MainSeesWriter, MainSeesError, MainJoins, MainChecks, CancelJob, Return,
         TypeInv, TypeOK
<1> QED
  BY <1>1 DEF TypeInv, TypeOK, ShapeInv, BatcherOK

LEMMA TypeStutter == TypeInv /\ UNCHANGED vars => TypeInv'
BY DEF vars, TypeInv, TypeOK, ShapeInv, BatcherOK

LEMMA TypeSteps == TypeInv /\ [Next]_vars => TypeInv'
<1> SUFFICES ASSUME TypeInv, [Next]_vars PROVE TypeInv'
  OBVIOUS
<1>1. CASE Dispatcher
  BY <1>1, TypeDispatcher
<1>2. CASE BatcherStep
  BY <1>2, TypeBatcher
<1>3. CASE WriterStep
  BY <1>3, TypeWriter
<1>4. CASE Main \/ CancelJob
  BY <1>4, TypeMain
<1>5. CASE \E f \in Fetchers : Fetcher(f)
  BY <1>5, TypeFetcher
<1>6. CASE \E h \in Hydrators : Hydrator(h)
  BY <1>6, TypeHydrator
<1>7. CASE UNCHANGED vars
  BY <1>7, TypeStutter
<1> QED
  BY <1>1, <1>2, <1>3, <1>4, <1>5, <1>6, <1>7 DEF Next, Rest

LEMMA Types == Spec => []TypeInv
BY TypeInit, TypeSteps, PTL DEF Spec

\* The variables of the pipeline keep their types and no channel ever holds
\* more than its capacity, for every chunk, pool and batch size.
THEOREM TypeCorrect == Spec => []TypeOK
<1>1. TypeInv => TypeOK
  BY DEF TypeInv
<1> QED
  BY <1>1, Types, PTL

-----------------------------------------------------------------------------
(***************************************************************************)
(* The invariant of the writer: the buffer is the stretch between the last *)
(* report and the last result queued, the result after it is not pending,  *)
(* and the buffer is in the tables the flush has passed.                   *)
(***************************************************************************)

Positions ==
  /\ From - 1 <= writer.reportedUntil /\ writer.reportedUntil <= writer.flushUntil
  /\ writer.flushUntil <= To
  /\ writer.buffer = writer.reportedUntil + 1 .. writer.flushUntil
  /\ writer.flushUntil + 1 \notin writer.pending
  /\ writer.pc \in Tables \cup {"report"} => writer.buffer # {}

\* What the flush under way has written.
Flushed ==
  /\ writer.pc \in {"transactions", "transaction_objects", "report"} =>
       writer.buffer \subseteq rows["checkpoints"]
  /\ writer.pc \in {"transaction_objects", "report"} =>
       writer.buffer \subseteq rows["transactions"]
  /\ writer.pc = "report" => writer.buffer \subseteq rows["transaction_objects"]

Endings ==
  /\ writer.err => writer.pc = "done"
  /\ writer.pc = "done" /\ ~writer.err => writer.closing /\ writer.buffer = {}
  /\ writer.closing => writer.pc # "select"

Reported == From .. writer.reportedUntil \subseteq Written

WriterInv == Positions /\ Flushed /\ Endings /\ Reported /\ TablesInOrder

LEMMA WriterTyped ==
  ASSUME TypeInv
  PROVE  /\ writer \in Writer /\ writer.pc \in WriterPC
         /\ writer.flushUntil \in Int /\ writer.reportedUntil \in Int
         /\ writer.pending \in SUBSET Chunk /\ writer.buffer \in SUBSET Chunk
         /\ writer.closing \in BOOLEAN /\ writer.err \in BOOLEAN
         /\ rows \in [Tables -> SUBSET Chunk]
BY DEF TypeInv, TypeOK, Writer

LEMMA WriterStart == Init => WriterInv
<1> SUFFICES ASSUME Init PROVE WriterInv
  OBVIOUS
<1>1. Positions
  BY SizesTyped DEF Init, Positions, Tables
<1>2. Flushed /\ Endings /\ TablesInOrder
  BY DEF Init, Flushed, Endings, TablesInOrder, Tables
<1>3. Reported
  BY SizesTyped DEF Init, Reported
<1> QED
  BY <1>1, <1>2, <1>3 DEF WriterInv

LEMMA WriterStable ==
  ASSUME WriterInv, writer' = writer, rows' = rows
  PROVE  WriterInv'
BY DEF WriterInv, Positions, Flushed, Endings, Reported, Written, TablesInOrder

\* Results queue behind the buffer.
LEMMA WriterQueues ==
  ASSUME TypeInv, WriterInv, writer.pc = "select", NEW pending \in SUBSET Chunk,
         writer' = Queued(pending), rows' = rows
  PROVE  /\ WriterInv' /\ writer'.reportedUntil = writer.reportedUntil
         /\ writer'.pc \in {"select", "checkpoints"}
         /\ writer'.err = writer.err /\ writer'.closing = writer.closing
         /\ writer'.pending \cup (From .. writer'.flushUntil)
              = pending \cup (From .. writer.flushUntil)
         /\ writer'.pending \in SUBSET pending
         /\ writer.flushUntil <= writer'.flushUntil
         /\ \A c \in pending : c > writer.flushUntil =>
              (c \in writer'.pending <=> c > writer'.flushUntil)
<1> DEFINE S == Contiguous(pending)
           k == Cardinality(S)
           f == writer.flushUntil
           r == writer.reportedUntil
<1>1. /\ f \in Int /\ r \in Int /\ From - 1 <= r /\ r <= f /\ f <= To
      /\ writer.buffer = r + 1 .. f
  BY WriterTyped DEF WriterInv, Positions
<1>2. k \in Nat /\ S = f + 1 .. f + k /\ S \subseteq pending /\ f + k + 1 \notin pending
  BY <1>1, Stretch
<1>3. /\ writer'.pending = pending \ S /\ writer'.buffer = writer.buffer \cup S
      /\ writer'.flushUntil = f + k /\ writer'.reportedUntil = r
      /\ writer'.pc = IF Cardinality(writer.buffer \cup S) >= WriteBatchSize
                      THEN "checkpoints" ELSE "select"
      /\ writer'.closing = writer.closing /\ writer'.err = writer.err
  BY WriterTyped DEF Queued, Writer
<1> HIDE DEF S, k, f, r
<1>4. f + k <= To
  <2>1. CASE k = 0
    BY <1>1, <1>2, <2>1, SizesTyped
  <2>2. CASE k > 0
    <3>1. f + k \in S
      BY <1>1, <1>2, <2>2
    <3> QED
      BY <1>2, <3>1, SizesTyped DEF Chunk
  <2> QED
    BY <1>2, <2>1, <2>2
<1>5. writer'.buffer = r + 1 .. f + k
  BY <1>1, <1>2, <1>3
<1>6. writer'.pc = "checkpoints" => writer'.buffer # {}
  <2>1. Cardinality({}) = 0
    BY FS_EmptySet
  <2>2. ~(0 >= WriteBatchSize)
    BY SizesTyped
  <2> QED
    BY <1>3, <2>1, <2>2
<1>7. writer'.pc \in {"select", "checkpoints"}
  BY <1>3
<1>8. Positions'
  BY <1>1, <1>2, <1>3, <1>4, <1>5, <1>6, <1>7 DEF Positions, Tables
<1>9. Flushed' /\ Endings'
  BY <1>3, <1>7 DEF Flushed, Endings, WriterInv
<1>10. Reported' /\ TablesInOrder'
  BY <1>3 DEF Reported, Written, TablesInOrder, WriterInv, r
<1>11. \A c \in pending : c \in Int /\ (c \in S <=> f < c /\ c <= f + k)
  <2>1. \A c \in pending : c \in Int
    BY ChunkFinite
  <2> QED
    BY <1>1, <1>2, <2>1
<1>12. (pending \ S) \cup (From .. f + k) = pending \cup (From .. f)
  <2>1. From .. f + k \subseteq (From .. f) \cup S
    BY <1>1, <1>2, SizesTyped
  <2>2. S \cup (From .. f) \subseteq From .. f + k
    BY <1>1, <1>2, SizesTyped
  <2> QED
    BY <1>2, <2>1, <2>2
<1>13. \A c \in pending : c > f => (c \in pending \ S <=> c > f + k)
  BY <1>1, <1>2, <1>11
<1>14. f <= f + k
  BY <1>1, <1>2
<1>15. WriterInv'
  BY <1>8, <1>9, <1>10 DEF WriterInv
<1> USE DEF f, r
<1> QED
  BY <1>3, <1>7, <1>12, <1>13, <1>14, <1>15

\* A part of the buffer, or all of it, goes into the table of the flush.
LEMMA TablesGrow ==
  ASSUME TypeInv, WriterInv, writer.pc \in Tables, NEW S \in SUBSET writer.buffer,
         rows' = [rows EXCEPT ![writer.pc] = @ \cup S]
  PROVE  /\ TablesInOrder' /\ Written \subseteq Written'
         /\ \A t \in Tables : rows[t] \subseteq rows'[t]
         /\ rows'[writer.pc] = rows[writer.pc] \cup S
         /\ Written' = IF writer.pc = "transaction_objects" THEN Written \cup S
                                                          ELSE Written
<1>1. rows' \in [Tables -> SUBSET Chunk]
  BY WriterTyped
<1>2. \A t \in Tables : rows'[t] = IF t = writer.pc THEN rows[t] \cup S ELSE rows[t]
  BY WriterTyped
<1>3. TablesInOrder'
  BY <1>2, WriterTyped DEF TablesInOrder, WriterInv, Flushed, Tables
<1>4. /\ Written = rows["transaction_objects"]
      /\ Written' = rows'["transaction_objects"]
  BY <1>1, <1>3, WriterTyped DEF Written, TablesInOrder, WriterInv, Tables
<1> QED
  BY <1>2, <1>3, <1>4 DEF Tables

LEMMA WriterFlushes ==
  ASSUME TypeInv, WriterInv, WriterStep
  PROVE  WriterInv'
<1>1. CASE WriterTakes
  <2> DEFINE pending == writer.pending \cup {Head(resultCh)}
  <2>1. pending \in SUBSET Chunk /\ writer.pc = "select" /\ rows' = rows
    BY <1>1, WriterTyped, HeadTailProperties DEF WriterTakes, TypeInv, TypeOK
  <2>2. CASE writer' = Queued(pending)
    BY <2>1, <2>2, WriterQueues
  <2>3. CASE writer' = [writer EXCEPT !.pc = "done", !.err = TRUE]
    BY <2>1, <2>3, WriterTyped
    DEF WriterInv, Writer, Positions, Flushed, Endings, Reported, Written, TablesInOrder, Tables
  <2> QED
    BY <1>1, <2>2, <2>3 DEF WriterTakes
<1>2. CASE WriterMoves
  BY <1>2, WriterTyped DEF WriterMoves,
     WriterInv, Writer, Positions, Flushed, Endings, Reported, Written, TablesInOrder, Tables
<1>3. CASE Insert
  <2>1. /\ TablesInOrder' /\ Written \subseteq Written'
        /\ \A t \in Tables : rows[t] \subseteq rows'[t]
        /\ rows'[writer.pc] = rows[writer.pc] \cup writer.buffer
    BY <1>3, TablesGrow DEF Insert
  <2>2. writer' = [writer EXCEPT !.pc = NextTable(writer.pc)] /\ writer.pc \in Tables
    BY <1>3 DEF Insert
  <2>3. /\ NextTable("checkpoints") = "transactions"
        /\ NextTable("transactions") = "transaction_objects"
        /\ NextTable("transaction_objects") = "report"
    BY DEF NextTable
  <2>4. Positions'
    BY <2>2, <2>3, WriterTyped DEF WriterInv, Positions, Tables, Writer
  <2>5. Flushed'
    BY <2>1, <2>2, <2>3, WriterTyped DEF WriterInv, Flushed, Tables, Writer
  <2>6. Endings' /\ Reported'
    BY <2>1, <2>2, <2>3, WriterTyped DEF WriterInv, Endings, Reported, Tables, Writer
  <2> QED
    BY <2>1, <2>4, <2>5, <2>6 DEF WriterInv
<1>4. CASE InsertFails
  <2>1. PICK S \in SUBSET writer.buffer : rows' = [rows EXCEPT ![writer.pc] = @ \cup S]
    BY <1>4 DEF InsertFails
  <2>2. TablesInOrder' /\ Written \subseteq Written'
    BY <1>4, <2>1, TablesGrow DEF InsertFails
  <2>3. writer' = [writer EXCEPT !.pc = "done", !.err = TRUE]
    BY <1>4 DEF InsertFails
  <2> QED
    BY <2>2, <2>3, WriterTyped
    DEF WriterInv, Writer, Positions, Flushed, Endings, Reported, Tables
<1>5. CASE ReportBatch
  <2>1. /\ writer'.pc = IF writer.closing THEN "done" ELSE "select"
        /\ writer'.buffer = {} /\ writer'.reportedUntil = writer.flushUntil
        /\ writer'.flushUntil = writer.flushUntil /\ writer'.pending = writer.pending
        /\ writer'.closing = writer.closing /\ writer'.err = writer.err
        /\ rows' = rows /\ writer.pc = "report"
    BY <1>5, WriterTyped DEF ReportBatch, Writer
  <2>2. writer.buffer \subseteq Written
    BY <2>1, WriterTyped DEF WriterInv, Flushed, Written, Tables
  <2>3. Positions'
    BY <2>1, WriterTyped, SizesTyped DEF WriterInv, Positions, Tables
  <2>4. From .. writer.flushUntil \subseteq (From .. writer.reportedUntil) \cup writer.buffer
    BY WriterTyped, SizesTyped DEF WriterInv, Positions
  <2>5. Written' = Written
    BY <2>1 DEF Written
  <2>6. Reported'
    BY <2>1, <2>2, <2>4, <2>5 DEF WriterInv, Reported
  <2>7. Flushed' /\ Endings' /\ TablesInOrder'
    BY <2>1 DEF WriterInv, Flushed, Endings, TablesInOrder
  <2> QED
    BY <2>3, <2>6, <2>7 DEF WriterInv
<1> QED
  BY <1>1, <1>2, <1>3, <1>4, <1>5 DEF WriterStep

LEMMA WriterSteps == TypeInv /\ WriterInv /\ [Next]_vars => WriterInv'
<1> SUFFICES ASSUME TypeInv, WriterInv, [Next]_vars PROVE WriterInv'
  OBVIOUS
<1>1. CASE WriterStep
  BY <1>1, WriterFlushes
<1>2. ASSUME ~WriterStep PROVE writer' = writer /\ rows' = rows
  BY <1>2 DEF Next, vars, Dispatcher, Dispatch, DispatcherStops, Fetcher, FetcherTakes,
     FetcherMoves, FetcherSends, FetcherFails, BatcherStep, BatcherTakes, BatcherFlushes,
     BatcherEnds, Hydrator, HydratorTakes, HydratorMoves, HydratorSends, HydratorFails,
     Main, MainSeesWriter, MainSeesError, MainJoins, MainChecks, CancelJob, Rest
<1> QED
  BY <1>1, <1>2, WriterStable

LEMMA Writes == Spec => []WriterInv
BY WriterStart, WriterSteps, Types, PTL DEF Spec

\* Rows reach the tables in the order checkpoints, transactions, objects, for
\* every chunk and every failure: what a table holds, those before it hold too.
THEOREM RowsInOrder == Spec => []TablesInOrder
<1>1. WriterInv => TablesInOrder
  BY DEF WriterInv
<1> QED
  BY <1>1, Writes, PTL

-----------------------------------------------------------------------------
(***************************************************************************)
(* Sequences without repetition.                                           *)
(***************************************************************************)

LEMMA FirstTaken ==
  ASSUME NEW S, NEW s \in Seq(S), s # <<>>, IsInjective(s)
  PROVE  /\ Range(Tail(s)) = Range(s) \ {Head(s)} /\ IsInjective(Tail(s))
         /\ Head(s) \in Range(s)
<1>1. /\ Len(s) \in Nat /\ Len(s) >= 1 /\ DOMAIN s = 1 .. Len(s)
      /\ Tail(s) \in Seq(S) /\ Len(Tail(s)) = Len(s) - 1
      /\ \A i \in 1 .. Len(Tail(s)) : Tail(s)[i] = s[i + 1]
  BY HeadTailProperties, LenProperties, EmptySeq
<1>2. DOMAIN Tail(s) = 1 .. Len(s) - 1 /\ Head(s) = s[1]
  BY <1>1
<1> DEFINE n == Len(s)
           t == Tail(s)
<1>3. \A i \in 1 .. n - 1 : t[i] = s[i + 1] /\ i + 1 \in 1 .. n /\ i + 1 # 1
  BY <1>1
<1>4. \A i \in 1 .. n : i = 1 \/ (i - 1 \in 1 .. n - 1 /\ t[i - 1] = s[i])
  BY <1>1
<1> HIDE DEF n, t
<1>5. n \in Nat /\ 1 \in 1 .. n /\ DOMAIN s = 1 .. n /\ DOMAIN t = 1 .. n - 1
  BY <1>1, <1>2 DEF n, t
<1>6. IsInjective(t)
  <2>1. \A i, j \in 1 .. n : s[i] = s[j] => i = j
    BY <1>5 DEF IsInjective
  <2>2. \A i, j \in 1 .. n - 1 : t[i] = t[j] => i + 1 = j + 1
    BY <1>3, <2>1
  <2>3. \A i, j \in 1 .. n - 1 : i + 1 = j + 1 => i = j
    BY <1>5
  <2> QED
    BY <1>5, <2>2, <2>3 DEF IsInjective
<1>7. Range(t) \subseteq Range(s) \ {s[1]}
  BY <1>3, <1>5 DEF Range, IsInjective
<1>8. Range(s) \ {s[1]} \subseteq Range(t)
  BY <1>4, <1>5 DEF Range
<1>9. s[1] \in Range(s)
  BY <1>5 DEF Range
<1> QED
  BY <1>2, <1>6, <1>7, <1>8, <1>9 DEF t

LEMMA LastAdded ==
  ASSUME NEW S, NEW s \in Seq(S), NEW e \in S
  PROVE  /\ Range(Append(s, e)) = Range(s) \cup {e}
         /\ IsInjective(s) /\ e \notin Range(s) => IsInjective(Append(s, e))
<1> DEFINE n == Len(s)
           t == Append(s, e)
<1>1. /\ n \in Nat /\ DOMAIN s = 1 .. n /\ DOMAIN t = 1 .. n + 1
      /\ \A i \in 1 .. n : t[i] = s[i]
      /\ t[n + 1] = e
  BY AppendProperties, LenProperties
<1> HIDE DEF n, t
<1>2. 1 .. n + 1 = (1 .. n) \cup {n + 1} /\ n + 1 \notin 1 .. n
  BY <1>1
<1>3. Range(t) = Range(s) \cup {e}
  BY <1>1, <1>2 DEF Range
<1>4. IsInjective(s) /\ e \notin Range(s) => IsInjective(t)
  BY <1>1, <1>2 DEF IsInjective, Range
<1> QED
  BY <1>3, <1>4 DEF t

\* The batches of a channel: no checkpoint twice in one, none in two of them.
ApartIn(ch) ==
  /\ \A i \in DOMAIN ch : IsInjective(ch[i])
  /\ \A i, j \in DOMAIN ch : i # j => Range(ch[i]) \cap Range(ch[j]) = {}

LEMMA InBatches ==
  ASSUME NEW ch
  PROVE  \A c : c \in InSeqs(Range(ch)) <=> \E i \in DOMAIN ch : c \in Range(ch[i])
BY DEF InSeqs, Range

LEMMA FirstBatchTaken ==
  ASSUME NEW S, NEW ch \in Seq(Seq(S)), ch # <<>>, ApartIn(ch)
  PROVE  /\ InSeqs(Range(Tail(ch))) = InSeqs(Range(ch)) \ Range(Head(ch))
         /\ Range(Head(ch)) \subseteq InSeqs(Range(ch))
         /\ ApartIn(Tail(ch)) /\ IsInjective(Head(ch))
<1> DEFINE n == Len(ch)
           t == Tail(ch)
<1>1. /\ n \in Nat /\ n >= 1 /\ DOMAIN ch = 1 .. n /\ DOMAIN t = 1 .. n - 1
      /\ Head(ch) = ch[1]
      /\ \A i \in 1 .. n - 1 : t[i] = ch[i + 1]
  BY HeadTailProperties, LenProperties, EmptySeq
<1> HIDE DEF n, t
<1>2. \A i \in 1 .. n - 1 : t[i] = ch[i + 1] /\ i + 1 \in 1 .. n /\ i + 1 # 1
  BY <1>1
<1>3. \A i \in 1 .. n : i = 1 \/ (i - 1 \in 1 .. n - 1 /\ t[i - 1] = ch[i])
  BY <1>1
<1>4. 1 \in 1 .. n
  BY <1>1
<1>5. \A c : c \in InSeqs(Range(ch)) <=> \E i \in 1 .. n : c \in Range(ch[i])
  BY <1>1, InBatches
<1>6. \A c : c \in InSeqs(Range(t)) <=> \E i \in 1 .. n - 1 : c \in Range(t[i])
  BY <1>1, InBatches
<1>7. \A i \in 1 .. n : i # 1 => Range(ch[i]) \cap Range(ch[1]) = {}
  BY <1>1, <1>4 DEF ApartIn
<1>8. InSeqs(Range(t)) = InSeqs(Range(ch)) \ Range(ch[1])
  <2>1. ASSUME NEW c \in InSeqs(Range(t))
        PROVE  c \in InSeqs(Range(ch)) /\ c \notin Range(ch[1])
    BY <1>2, <1>5, <1>6, <1>7, <2>1
  <2>2. ASSUME NEW c \in InSeqs(Range(ch)), c \notin Range(ch[1])
        PROVE  c \in InSeqs(Range(t))
    BY <1>3, <1>5, <1>6, <2>2
  <2> QED
    BY <2>1, <2>2
<1>9. ApartIn(t)
  <2>1. \A i, j \in 1 .. n - 1 : i # j => i + 1 # j + 1
    BY <1>1
  <2>2. \A i \in 1 .. n - 1 : IsInjective(t[i])
    BY <1>1, <1>2 DEF ApartIn
  <2>3. \A i, j \in 1 .. n : i # j => Range(ch[i]) \cap Range(ch[j]) = {}
    BY <1>1 DEF ApartIn
  <2>4. ASSUME NEW i \in 1 .. n - 1, NEW j \in 1 .. n - 1, i # j
        PROVE  Range(t[i]) \cap Range(t[j]) = {}
    <3>1. t[i] = ch[i + 1] /\ t[j] = ch[j + 1] /\ i + 1 \in 1 .. n /\ j + 1 \in 1 .. n
      BY <1>2
    <3>2. i + 1 # j + 1
      BY <2>1, <2>4
    <3> QED
      BY <2>3, <3>1, <3>2
  <2> QED
    BY <1>1, <2>2, <2>4 DEF ApartIn
<1> QED
  BY <1>1, <1>4, <1>5, <1>8, <1>9 DEF t, ApartIn

LEMMA LastBatchAdded ==
  ASSUME NEW S, NEW ch \in Seq(Seq(S)), NEW b \in Seq(S)
  PROVE  /\ InSeqs(Range(Append(ch, b))) = InSeqs(Range(ch)) \cup Range(b)
         /\ ApartIn(ch) /\ IsInjective(b) /\ InSeqs(Range(ch)) \cap Range(b) = {}
              => ApartIn(Append(ch, b))
<1> DEFINE n == Len(ch)
           t == Append(ch, b)
<1>1. /\ n \in Nat /\ DOMAIN ch = 1 .. n /\ DOMAIN t = 1 .. n + 1
      /\ \A i \in 1 .. n : t[i] = ch[i]
      /\ t[n + 1] = b
  BY AppendProperties, LenProperties
<1> HIDE DEF n, t
<1>2. 1 .. n + 1 = (1 .. n) \cup {n + 1} /\ n + 1 \notin 1 .. n
  BY <1>1
<1>3. \A c : c \in InSeqs(Range(ch)) <=> \E i \in 1 .. n : c \in Range(ch[i])
  BY <1>1, InBatches
<1>4. \A c : c \in InSeqs(Range(t)) <=> \E i \in 1 .. n + 1 : c \in Range(t[i])
  BY <1>1, InBatches
<1>5. InSeqs(Range(t)) = InSeqs(Range(ch)) \cup Range(b)
  <2>1. \A c : c \in InSeqs(Range(t)) <=> c \in InSeqs(Range(ch)) \/ c \in Range(b)
    BY <1>1, <1>2, <1>3, <1>4
  <2> QED
    BY <2>1
<1>6. ASSUME ApartIn(ch), IsInjective(b), InSeqs(Range(ch)) \cap Range(b) = {}
      PROVE  ApartIn(t)
  <2>1. \A i \in 1 .. n : Range(ch[i]) \cap Range(b) = {}
    BY <1>3, <1>6
  <2>2. \A i \in 1 .. n + 1 : IsInjective(t[i])
    BY <1>1, <1>2, <1>6 DEF ApartIn
  <2>3. \A i, j \in 1 .. n : i # j => Range(t[i]) \cap Range(t[j]) = {}
    BY <1>1, <1>6 DEF ApartIn
  <2>4. \A i \in 1 .. n : /\ Range(t[i]) \cap Range(t[n + 1]) = {}
                         /\ Range(t[n + 1]) \cap Range(t[i]) = {}
    BY <1>1, <2>1
  <2>5. \A i, j \in 1 .. n + 1 : i # j => Range(t[i]) \cap Range(t[j]) = {}
    BY <1>2, <2>3, <2>4
  <2> QED
    BY <1>1, <2>2, <2>5 DEF ApartIn
<1> QED
  BY <1>5, <1>6 DEF t

-----------------------------------------------------------------------------
(***************************************************************************)
(* The account of the checkpoints: Held says what each holder has, and a   *)
(* step of the flow moves some of it from one holder to another.           *)
(***************************************************************************)

Held == [x \in Holders |-> Holds(x)]

At(p) == <<"place", p>>

PlaceNames == {"undispatched", "batchCh", "dataCh", "batcher", "hydrationCh",
               "resultCh", "pending", "queued"}

Once(h) == \A c \in Chunk :
             \E x \in DOMAIN h : \A y \in DOMAIN h : c \in h[y] <=> y = x

LEMMA Moved ==
  ASSUME NEW h, Once(h), NEW k, DOMAIN k = DOMAIN h,
         NEW x \in DOMAIN h, NEW y \in DOMAIN h, x # y, NEW C, C \subseteq h[x],
         k[x] = h[x] \ C, k[y] = h[y] \cup C,
         \A z \in DOMAIN h : z = x \/ z = y \/ k[z] = h[z]
  PROVE  Once(k)
<1> SUFFICES ASSUME NEW c \in Chunk
             PROVE  \E u \in DOMAIN h : \A z \in DOMAIN h : c \in k[z] <=> z = u
  BY DEF Once
<1>1. PICK u \in DOMAIN h : \A z \in DOMAIN h : c \in h[z] <=> z = u
  BY DEF Once
<1>2. CASE c \in C
  <2>1. u = x
    BY <1>1, <1>2
  <2>2. \A z \in DOMAIN h : c \in k[z] <=> z = y
    BY <1>1, <1>2, <2>1
  <2> QED
    BY <2>2
<1>3. CASE c \notin C
  <2>1. \A z \in DOMAIN h : c \in k[z] <=> z = u
    BY <1>1, <1>3
  <2> QED
    BY <2>1
<1> QED
  BY <1>2, <1>3

\* What one holder has no other has.
LEMMA OnlyThere ==
  ASSUME NEW h, Once(h), NEW x \in DOMAIN h, NEW y \in DOMAIN h, x # y,
         NEW c \in Chunk, c \in h[x]
  PROVE  c \notin h[y]
BY DEF Once

HeldNow ==
  /\ DOMAIN Held = Holders
  /\ \A p \in PlaceNames : At(p) \in Holders
  /\ \A f \in Fetchers : /\ <<"fetcher", f>> \in Holders
                         /\ Held[<<"fetcher", f>>] = Range(fetcher[f].items)
  /\ \A h \in Hydrators : /\ <<"hydrator", h>> \in Holders
                          /\ Held[<<"hydrator", h>>] = Range(hydrator[h].items)
  /\ Held[At("undispatched")] = dispatched .. To
  /\ Held[At("batchCh")] = InSeqs(Range(batchCh))
  /\ Held[At("dataCh")] = Range(dataCh)
  /\ Held[At("batcher")] = Range(batcher.batch) \cup
                            (IF batcher.pc = "before" THEN {batcher.task} ELSE {})
  /\ Held[At("hydrationCh")] = InSeqs(Range(hydrationCh))
  /\ Held[At("resultCh")] = Range(resultCh)
  /\ Held[At("pending")] = writer.pending
  /\ Held[At("queued")] = From .. writer.flushUntil
  /\ \A x \in Holders : \/ \E p \in PlaceNames : x = At(p)
                        \/ \E f \in Fetchers : x = <<"fetcher", f>>
                        \/ \E h \in Hydrators : x = <<"hydrator", h>>

LEMMA HeldIs == HeldNow
<1>1. DOMAIN Places = PlaceNames
  BY DEF Places, PlaceNames
<1>2. Holders = ({"place"} \X PlaceNames)
             \cup ({"fetcher"} \X Fetchers) \cup ({"hydrator"} \X Hydrators)
  BY <1>1 DEF Holders
<1>3. /\ \A p \in PlaceNames : At(p) \in Holders
      /\ \A f \in Fetchers : <<"fetcher", f>> \in Holders
      /\ \A h \in Hydrators : <<"hydrator", h>> \in Holders
  BY <1>2 DEF At
<1>4. /\ \A p \in PlaceNames : Held[At(p)] = Places[p]
      /\ \A f \in Fetchers : Held[<<"fetcher", f>>] = Range(fetcher[f].items)
      /\ \A h \in Hydrators : Held[<<"hydrator", h>>] = Range(hydrator[h].items)
  BY <1>3 DEF Held, Holds, At
<1>5. \A x \in Holders : \/ \E p \in PlaceNames : x = At(p)
                         \/ \E f \in Fetchers : x = <<"fetcher", f>>
                         \/ \E h \in Hydrators : x = <<"hydrator", h>>
  <2>1. ASSUME NEW S, NEW t, NEW x \in {t} \X S PROVE x[2] \in S /\ x = <<t, x[2]>>
    BY <2>1
  <2>2. \A x \in {"place"} \X PlaceNames : \E p \in PlaceNames : x = At(p)
    BY <2>1 DEF At
  <2>3. \A x \in {"fetcher"} \X Fetchers : \E f \in Fetchers : x = <<"fetcher", f>>
    BY <2>1
  <2>4. \A x \in {"hydrator"} \X Hydrators : \E h \in Hydrators : x = <<"hydrator", h>>
    BY <2>1
  <2> DEFINE A == {"place"} \X PlaceNames
             B == {"fetcher"} \X Fetchers
             C == {"hydrator"} \X Hydrators
  <2>5. Holders = A \cup B \cup C
    BY <1>2
  <2> HIDE DEF A, B, C
  <2>6. \A x \in Holders : x \in A \/ x \in B \/ x \in C
    BY <2>5
  <2>7. \A x \in A : \E p \in PlaceNames : x = At(p)
    BY <2>2 DEF A
  <2>8. \A x \in B : \E f \in Fetchers : x = <<"fetcher", f>>
    BY <2>3 DEF B
  <2>9. \A x \in C : \E h \in Hydrators : x = <<"hydrator", h>>
    BY <2>4 DEF C
  <2> QED
    BY <2>6, <2>7, <2>8, <2>9
<1>6. /\ Held[At("undispatched")] = dispatched .. To
      /\ Held[At("batchCh")] = InSeqs(Range(batchCh))
      /\ Held[At("dataCh")] = Range(dataCh)
      /\ Held[At("batcher")] = Range(batcher.batch) \cup
                                (IF batcher.pc = "before" THEN {batcher.task} ELSE {})
      /\ Held[At("hydrationCh")] = InSeqs(Range(hydrationCh))
      /\ Held[At("resultCh")] = Range(resultCh)
      /\ Held[At("pending")] = writer.pending
      /\ Held[At("queued")] = From .. writer.flushUntil
  BY <1>4 DEF Places, PlaceNames
<1>7. DOMAIN Held = Holders
  BY DEF Held
<1> QED
  BY <1>3, <1>4, <1>5, <1>6, <1>7 DEF HeldNow

LEMMA HeldNext == HeldNow'
BY HeldIs, PTL

LEMMA HoldersFixed == Holders' = Holders
BY DEF Holders, Places

-----------------------------------------------------------------------------
(***************************************************************************)
(* The inductive invariant of the account: until something goes wrong each *)
(* checkpoint has one holder, and no sequence repeats one.                 *)
(***************************************************************************)

Fine == ~Done /\ ~writer.err

Apart ==
  /\ ApartIn(batchCh) /\ ApartIn(hydrationCh)
  /\ IsInjective(dataCh) /\ IsInjective(resultCh) /\ IsInjective(batcher.batch)
  /\ batcher.pc = "before" => batcher.task \notin Range(batcher.batch)
  /\ \A f \in Fetchers : IsInjective(fetcher[f].items)
  /\ \A h \in Hydrators : IsInjective(hydrator[h].items)

CountInv == Fine => Once(Held) /\ Apart

LEMMA EmptyApart ==
  /\ IsInjective(<<>>) /\ ApartIn(<<>>) /\ Range(<<>>) = {} /\ InSeqs(Range(<<>>)) = {}
<1>1. DOMAIN <<>> = {}
  BY EmptySeq, LenProperties
<1> QED
  BY <1>1 DEF IsInjective, ApartIn, Range, InSeqs

LEMMA AloneAdded ==
  ASSUME NEW e
  PROVE  Range(Append(<<>>, e)) = {e} /\ IsInjective(Append(<<>>, e))
<1> DEFINE s == Append(<<>>, e)
<1>1. s = <<e>>
  OBVIOUS
<1>2. DOMAIN s = {1} /\ s[1] = e
  BY <1>1
<1> HIDE DEF s
<1>3. Range(s) = {e} /\ IsInjective(s)
  BY <1>2 DEF Range, IsInjective
<1> QED
  BY <1>3 DEF s

LEMMA CountInit == Init => CountInv
<1> SUFFICES ASSUME Init PROVE Once(Held) /\ Apart
  BY DEF CountInv
<1>1. Apart
  BY EmptyApart DEF Init, Ready, Apart
<1>2. /\ batchCh = <<>> /\ dataCh = <<>> /\ hydrationCh = <<>> /\ resultCh = <<>>
      /\ batcher.batch = <<>> /\ batcher.pc # "before" /\ writer.pending = {}
      /\ dispatched = From /\ writer.flushUntil = From - 1
      /\ \A f \in Fetchers : fetcher[f].items = <<>>
      /\ \A h \in Hydrators : hydrator[h].items = <<>>
  BY DEF Init, Ready
<1>3. From .. writer.flushUntil = {} /\ dispatched .. To = Chunk
  BY <1>2, SizesTyped DEF Chunk
<1>4. /\ Held[At("undispatched")] = Chunk
      /\ \A x \in Holders : x # At("undispatched") => Held[x] = {}
  BY <1>2, <1>3, HeldIs, EmptyApart DEF HeldNow, PlaceNames
<1>5. At("undispatched") \in Holders /\ DOMAIN Held = Holders
  BY HeldIs DEF HeldNow, PlaceNames
<1>6. Once(Held)
  BY <1>4, <1>5 DEF Once
<1> QED
  BY <1>1, <1>6

\* A holder whose variable does not change has what it had.
LEMMA Elsewhere ==
  ASSUME NEW W,
         At("undispatched") \in W \/ dispatched' = dispatched,
         At("batchCh") \in W \/ batchCh' = batchCh,
         At("dataCh") \in W \/ dataCh' = dataCh,
         At("batcher") \in W \/ batcher' = batcher,
         At("hydrationCh") \in W \/ hydrationCh' = hydrationCh,
         At("resultCh") \in W \/ resultCh' = resultCh,
         At("pending") \in W \/ writer'.pending = writer.pending,
         At("queued") \in W \/ writer'.flushUntil = writer.flushUntil,
         \A f \in Fetchers :
           <<"fetcher", f>> \in W \/ fetcher'[f].items = fetcher[f].items,
         \A h \in Hydrators :
           <<"hydrator", h>> \in W \/ hydrator'[h].items = hydrator[h].items
  PROVE  \A z \in Holders : z \in W \/ Held'[z] = Held[z]
<1> SUFFICES ASSUME NEW z \in Holders, z \notin W PROVE Held'[z] = Held[z]
  OBVIOUS
<1>1. CASE \E p \in PlaceNames : z = At(p)
  <2>1. /\ Held'[At("undispatched")] = dispatched' .. To
        /\ Held'[At("batchCh")] = InSeqs(Range(batchCh'))
        /\ Held'[At("dataCh")] = Range(dataCh')
        /\ Held'[At("batcher")] = Range(batcher'.batch) \cup
                                  (IF batcher'.pc = "before" THEN {batcher'.task} ELSE {})
        /\ Held'[At("hydrationCh")] = InSeqs(Range(hydrationCh'))
        /\ Held'[At("resultCh")] = Range(resultCh')
        /\ Held'[At("pending")] = writer'.pending
        /\ Held'[At("queued")] = From .. writer'.flushUntil
    BY HeldNext DEF HeldNow
  <2>2. PICK p \in PlaceNames : z = At(p)
    BY <1>1
  <2>3. CASE p \in {"undispatched", "batchCh", "dataCh", "batcher"}
    BY <2>1, <2>2, <2>3, HeldIs DEF HeldNow
  <2>4. CASE p \in {"hydrationCh", "resultCh", "pending", "queued"}
    BY <2>1, <2>2, <2>4, HeldIs DEF HeldNow
  <2> QED
    BY <2>3, <2>4 DEF PlaceNames
<1>2. CASE \E f \in Fetchers : z = <<"fetcher", f>>
  <2>1. PICK f \in Fetchers : z = <<"fetcher", f>>
    BY <1>2
  <2>2. fetcher'[f].items = fetcher[f].items
    BY <2>1
  <2>3. /\ Held[<<"fetcher", f>>] = Range(fetcher[f].items)
        /\ Held'[<<"fetcher", f>>] = Range(fetcher'[f].items)
    BY HeldIs, HeldNext DEF HeldNow
  <2> QED
    BY <2>1, <2>2, <2>3
<1>3. CASE \E h \in Hydrators : z = <<"hydrator", h>>
  <2>1. PICK h \in Hydrators : z = <<"hydrator", h>>
    BY <1>3
  <2>2. hydrator'[h].items = hydrator[h].items
    BY <2>1
  <2>3. /\ Held[<<"hydrator", h>>] = Range(hydrator[h].items)
        /\ Held'[<<"hydrator", h>>] = Range(hydrator'[h].items)
    BY HeldIs, HeldNext DEF HeldNow
  <2> QED
    BY <2>1, <2>2, <2>3
<1> QED
  BY <1>1, <1>2, <1>3, HeldIs DEF HeldNow

LEMMA Transferred ==
  ASSUME Once(Held), NEW x \in Holders, NEW y \in Holders, x # y,
         NEW C, C \subseteq Held[x],
         Held'[x] = Held[x] \ C, Held'[y] = Held[y] \cup C,
         \A z \in Holders : z \in {x, y} \/ Held'[z] = Held[z]
  PROVE  Once(Held)'
<1>1. DOMAIN Held = Holders /\ DOMAIN Held' = Holders
  BY HoldersFixed DEF Held
<1>2. Once(Held')
  BY <1>1, Moved
<1> QED
  BY <1>2 DEF Once

LEMMA NothingMoved ==
  ASSUME Once(Held),
         dispatched' = dispatched, batchCh' = batchCh, dataCh' = dataCh,
         batcher' = batcher \/ (/\ batcher'.batch = batcher.batch
                                /\ batcher.pc # "before" /\ batcher'.pc # "before"),
         hydrationCh' = hydrationCh, resultCh' = resultCh,
         writer'.pending = writer.pending, writer'.flushUntil = writer.flushUntil,
         \A f \in Fetchers : fetcher'[f].items = fetcher[f].items,
         \A h \in Hydrators : hydrator'[h].items = hydrator[h].items
  PROVE  Once(Held)'
<1> DEFINE W == {At("batcher")}
<1>1. At("batcher") \in W
  OBVIOUS
<1>2. \A x \in W : x = At("batcher")
  OBVIOUS
<1>3. DOMAIN Held = Holders /\ DOMAIN Held' = Holders
  BY HoldersFixed DEF Held
<1>4. Held'[At("batcher")] = Held[At("batcher")]
  BY HeldIs, HeldNext DEF HeldNow
<1> HIDE DEF W
<1>5. \A z \in Holders : z \in W \/ Held'[z] = Held[z]
  BY <1>1, Elsewhere
<1>6. \A z \in Holders : Held'[z] = Held[z]
  BY <1>2, <1>4, <1>5
<1> QED
  BY <1>3, <1>6 DEF Once

\* What one holder has no other has, of the holders by name.
LEMMA NowhereElse ==
  ASSUME Once(Held), NEW x \in Holders, NEW y \in Holders, x # y,
         NEW C \in SUBSET Chunk, C \subseteq Held[x]
  PROVE  Held[y] \cap C = {}
<1>1. DOMAIN Held = Holders
  BY DEF Held
<1> QED
  BY <1>1, OnlyThere

LEMMA FineBefore == TypeInv /\ [Next]_vars /\ Fine' => Fine
<1> SUFFICES ASSUME TypeInv, [Next]_vars, Fine' PROVE Fine
  OBVIOUS
<1>1. stopping => stopping'
  BY DEF Next, vars, Dispatcher, Dispatch, DispatcherStops, Fetcher, FetcherTakes,
     FetcherMoves, FetcherSends, FetcherFails, BatcherStep, BatcherTakes, BatcherFlushes,
     BatcherEnds, Hydrator, HydratorTakes, HydratorMoves, HydratorSends, HydratorFails,
     WriterStep, WriterTakes, WriterMoves, Insert, InsertFails, ReportBatch,
     Main, MainSeesWriter, MainSeesError, MainJoins, MainChecks, CancelJob, Rest
<1>2. cancelled => cancelled'
  BY DEF Next, vars, Dispatcher, Dispatch, DispatcherStops, Fetcher, FetcherTakes,
     FetcherMoves, FetcherSends, FetcherFails, BatcherStep, BatcherTakes, BatcherFlushes,
     BatcherEnds, Hydrator, HydratorTakes, HydratorMoves, HydratorSends, HydratorFails,
     WriterStep, WriterTakes, WriterMoves, Insert, InsertFails, ReportBatch,
     Main, MainSeesWriter, MainSeesError, MainJoins, MainChecks, CancelJob, Rest,
     PushError, CancelPipeline, Return
<1>3. writer.err => writer'.err
  <2>1. CASE WriterStep
    BY <2>1, WriterTyped DEF Writer, WriterStep, WriterTakes, Queued, WriterMoves,
       Insert, InsertFails, ReportBatch
  <2>2. ASSUME ~WriterStep PROVE writer' = writer
    BY <2>2 DEF Next, vars, Dispatcher, Dispatch, DispatcherStops, Fetcher, FetcherTakes,
       FetcherMoves, FetcherSends, FetcherFails, BatcherStep, BatcherTakes, BatcherFlushes,
       BatcherEnds, Hydrator, HydratorTakes, HydratorMoves, HydratorSends, HydratorFails,
       Main, MainSeesWriter, MainSeesError, MainJoins, MainChecks, CancelJob, Rest
  <2> QED
    BY <2>1, <2>2
<1> QED
  BY <1>1, <1>2, <1>3 DEF Fine, Done

-----------------------------------------------------------------------------
\* The account, action by action, while nothing has gone wrong.

LEMMA CountDispatcher ==
  ASSUME TypeInv, Fine, Once(Held), Apart, Dispatcher
  PROVE  Once(Held)' /\ Apart'
<1>1. Dispatch
  BY DEF Dispatcher, DispatcherStops, Fine
<1> DEFINE b == [k \in 1 .. LastOfBatch - dispatched + 1 |-> dispatched + k - 1]
<1>2. /\ LastOfBatch \in dispatched .. To /\ b \in Seq(Chunk)
      /\ DOMAIN b = 1 .. LastOfBatch - dispatched + 1
      /\ \A k \in DOMAIN b : b[k] = dispatched + k - 1
  BY <1>1, BatchDispatched DEF Dispatch
<1>3. dispatched \in Int /\ LastOfBatch \in Int /\ dispatched >= From
      /\ LastOfBatch >= dispatched /\ LastOfBatch <= To
  BY <1>2, SizesTyped DEF TypeInv, TypeOK
<1>4. batchCh' = Append(batchCh, b) /\ dispatched' = LastOfBatch + 1
  BY <1>1 DEF Dispatch
<1> HIDE DEF b
<1> DEFINE C == dispatched .. LastOfBatch
<1>5. IsInjective(b)
  BY <1>2, <1>3 DEF IsInjective
<1>6. Range(b) = C
  <2>1. \A k \in DOMAIN b : b[k] \in C
    BY <1>2, <1>3
  <2>2. ASSUME NEW c \in C PROVE c - dispatched + 1 \in DOMAIN b /\ b[c - dispatched + 1] = c
    BY <1>2, <1>3, <2>2
  <2> QED
    BY <2>1, <2>2 DEF Range
<1>7. C \in SUBSET Chunk /\ C \subseteq dispatched .. To
      /\ dispatched' .. To = (dispatched .. To) \ C
  BY <1>3, <1>4, SizesTyped DEF Chunk
<1> HIDE DEF C
<1>8. At("undispatched") \in Holders /\ At("batchCh") \in Holders
      /\ At("undispatched") # At("batchCh")
  BY HeldIs DEF HeldNow, PlaceNames, At
<1>9. /\ Held[At("undispatched")] = dispatched .. To
      /\ Held[At("batchCh")] = InSeqs(Range(batchCh))
      /\ Held'[At("undispatched")] = dispatched' .. To
      /\ Held'[At("batchCh")] = InSeqs(Range(batchCh'))
  BY HeldIs, HeldNext DEF HeldNow
<1>10. InSeqs(Range(batchCh)) \cap C = {}
  BY <1>7, <1>8, <1>9, NowhereElse
<1>11. batchCh \in Seq(Seq(Chunk))
  BY DEF TypeInv, TypeOK
<1>12. InSeqs(Range(batchCh')) = InSeqs(Range(batchCh)) \cup C /\ ApartIn(batchCh')
  BY <1>2, <1>4, <1>5, <1>6, <1>10, <1>11, LastBatchAdded DEF Apart
<1>13. \A z \in Holders :
         z \in {At("undispatched"), At("batchCh")} \/ Held'[z] = Held[z]
  BY <1>1, Elsewhere DEF Dispatch
<1>14. Once(Held)'
  BY <1>7, <1>8, <1>9, <1>12, <1>13, Transferred
<1> QED
  BY <1>1, <1>12, <1>14 DEF Dispatch, Apart

LEMMA CountFetcher ==
  ASSUME TypeInv, Fine, Once(Held), Apart, NEW f \in Fetchers, Fetcher(f), Fine'
  PROVE  Once(Held)' /\ Apart'
<1> DEFINE X == <<"fetcher", f>>
<1>1. /\ X \in Holders /\ At("batchCh") \in Holders /\ At("dataCh") \in Holders
      /\ X # At("batchCh") /\ X # At("dataCh")
      /\ \A g \in Fetchers : <<"fetcher", g>> = X => g = f
  BY HeldIs DEF HeldNow, PlaceNames, At
<1>2. /\ Held[X] = Range(fetcher[f].items) /\ Held'[X] = Range(fetcher'[f].items)
      /\ Held[At("batchCh")] = InSeqs(Range(batchCh))
      /\ Held'[At("batchCh")] = InSeqs(Range(batchCh'))
      /\ Held[At("dataCh")] = Range(dataCh) /\ Held'[At("dataCh")] = Range(dataCh')
  BY HeldIs, HeldNext DEF HeldNow
<1>3. /\ fetcher \in [Fetchers -> Goroutine] /\ HandOK(fetcher[f])
      /\ batchCh \in Seq(Seq(Chunk)) /\ dataCh \in Seq(Chunk)
      /\ fetcher[f].items \in Seq(Chunk) /\ IsInjective(fetcher[f].items)
  BY DEF TypeInv, TypeOK, ShapeInv, Goroutine, Apart
<1>4. CASE FetcherTakes(f)
  <2> DEFINE b == Head(batchCh)
  <2>1. fetcher' = [fetcher EXCEPT ![f] = Works(fetcher[f], b)] /\ batchCh' = Tail(batchCh)
        /\ batchCh # <<>> /\ fetcher[f].items = <<>>
    BY <1>3, <1>4 DEF FetcherTakes, HandOK
  <2>2. fetcher'[f].items = b
    BY <1>3, <2>1 DEF Works, Goroutine
  <2>3. /\ InSeqs(Range(batchCh')) = InSeqs(Range(batchCh)) \ Range(b)
        /\ Range(b) \subseteq InSeqs(Range(batchCh))
        /\ ApartIn(batchCh') /\ IsInjective(b)
    BY <1>3, <2>1, FirstBatchTaken DEF Apart
  <2>4. \A z \in Holders : z \in {At("batchCh"), X} \/ Held'[z] = Held[z]
    <3>1. \A g \in Fetchers : g # f => fetcher'[g] = fetcher[g]
      BY <1>3, <2>1
    <3> QED
      BY <1>4, <3>1, Elsewhere DEF FetcherTakes
  <2>5. Range(fetcher[f].items) = {}
    BY <2>1, EmptyApart
  <2> HIDE DEF b, X
  <2>6. Once(Held)'
    BY <1>1, <1>2, <2>2, <2>3, <2>4, <2>5, Transferred
  <2> QED
    BY <1>3, <1>4, <2>1, <2>2, <2>3, <2>6 DEF FetcherTakes, Apart
<1>5. CASE FetcherSends(f)
  <2> DEFINE c == Head(fetcher[f].items)
  <2>1. fetcher' = [fetcher EXCEPT ![f] = Sent(fetcher[f])] /\ dataCh' = Append(dataCh, c)
    BY <1>5 DEF FetcherSends
  <2>2. /\ c \in Chunk /\ fetcher[f].items # <<>>
        /\ fetcher'[f].items = Tail(fetcher[f].items)
    BY <1>3, <1>5, <2>1, SentOK DEF FetcherSends
  <2>3. /\ Range(fetcher'[f].items) = Range(fetcher[f].items) \ {c}
        /\ {c} \subseteq Range(fetcher[f].items) /\ IsInjective(fetcher'[f].items)
    BY <1>3, <2>2, FirstTaken
  <2>4. \A z \in Holders : z \in {X, At("dataCh")} \/ Held'[z] = Held[z]
    <3>1. \A g \in Fetchers : g # f => fetcher'[g] = fetcher[g]
      BY <1>3, <2>1
    <3> QED
      BY <1>5, <3>1, Elsewhere DEF FetcherSends
  <2> HIDE DEF c, X
  <2>5. c \notin Range(dataCh)
    <3>1. c \in Held[X]
      BY <1>2, <2>3
    <3>2. DOMAIN Held = Holders
      BY DEF Held
    <3>3. c \notin Held[At("dataCh")]
      BY <1>1, <2>2, <3>1, <3>2, OnlyThere
    <3> QED
      BY <1>2, <3>3
  <2>6. Range(dataCh') = Range(dataCh) \cup {c} /\ IsInjective(dataCh')
    BY <1>3, <2>1, <2>2, <2>5, LastAdded DEF Apart
  <2>7. Once(Held)'
    <3> DEFINE C == {c}
    <3>1. /\ C \subseteq Held[X] /\ Held'[X] = Held[X] \ C
          /\ Held'[At("dataCh")] = Held[At("dataCh")] \cup C
      BY <1>2, <2>3, <2>6
    <3> HIDE DEF C
    <3> QED
      BY <1>1, <2>4, <3>1, Transferred
  <2> QED
    BY <1>3, <1>5, <2>1, <2>3, <2>6, <2>7 DEF FetcherSends, Apart
<1>6. CASE FetcherMoves(f) \/ FetcherFails(f)
  <2>1. \A g \in Fetchers : fetcher'[g].items = fetcher[g].items
    <3>1. PICK p \in PoolPC : fetcher' = [fetcher EXCEPT ![f] = [fetcher[f] EXCEPT !.pc = p]]
      BY <1>3, <1>6 DEF FetcherMoves, FetcherFails, PoolPC
    <3> QED
      BY <1>3, <3>1 DEF Goroutine
  <2>2. UNCHANGED <<dispatched, batchCh, dataCh, batcher, hydrationCh, hydrator,
                    resultCh, writer>>
    BY <1>6 DEF FetcherMoves, FetcherFails
  <2>3. Once(Held)'
    BY <2>1, <2>2, NothingMoved
  <2> QED
    BY <2>1, <2>2, <2>3 DEF Apart
<1> QED
  BY <1>4, <1>5, <1>6 DEF Fetcher

LEMMA CountBatcher ==
  ASSUME TypeInv, Fine, Once(Held), Apart, BatcherStep
  PROVE  Once(Held)' /\ Apart'
<1>1. /\ At("dataCh") \in Holders /\ At("batcher") \in Holders
      /\ At("hydrationCh") \in Holders
      /\ At("dataCh") # At("batcher") /\ At("batcher") # At("hydrationCh")
  BY HeldIs DEF HeldNow, PlaceNames, At
<1>2. /\ Held[At("dataCh")] = Range(dataCh) /\ Held'[At("dataCh")] = Range(dataCh')
      /\ Held[At("batcher")] = Range(batcher.batch) \cup
                               (IF batcher.pc = "before" THEN {batcher.task} ELSE {})
      /\ Held'[At("batcher")] = Range(batcher'.batch) \cup
                                (IF batcher'.pc = "before" THEN {batcher'.task} ELSE {})
      /\ Held[At("hydrationCh")] = InSeqs(Range(hydrationCh))
      /\ Held'[At("hydrationCh")] = InSeqs(Range(hydrationCh'))
  BY HeldIs, HeldNext DEF HeldNow
<1>3. /\ batcher \in Batcher /\ batcher.batch \in Seq(Chunk) /\ BatcherOK
      /\ dataCh \in Seq(Chunk) /\ hydrationCh \in Seq(Seq(Chunk))
      /\ IsInjective(batcher.batch) /\ IsInjective(dataCh) /\ ApartIn(hydrationCh)
      /\ batcher.pc = "before" => batcher.task \notin Range(batcher.batch)
      /\ DOMAIN Held = Holders
  BY DEF TypeInv, TypeOK, ShapeInv, Batcher, Apart, Held
<1>4. CASE BatcherTakes
  <2> DEFINE c == Head(dataCh)
             C == {c}
  <2>1. /\ batcher.pc = "recv" /\ dataCh # <<>> /\ dataCh' = Tail(dataCh)
        /\ \/ batcher' = [batcher EXCEPT !.pc = "before", !.task = c]
           \/ batcher' = Grown(batcher.batch, batcher.digests, c)
    BY <1>4 DEF BatcherTakes
  <2>2. c \in Chunk
    BY <1>3, <2>1, HeadTailProperties
  <2>3. /\ Range(dataCh') = Range(dataCh) \ C /\ c \in Range(dataCh)
        /\ IsInjective(dataCh')
    BY <1>3, <2>1, FirstTaken
  <2> HIDE DEF c
  <2>4. c \notin Held[At("batcher")]
    BY <1>1, <1>2, <1>3, <2>2, <2>3, OnlyThere
  <2>5. c \notin Range(batcher.batch) /\ Held[At("batcher")] = Range(batcher.batch)
    BY <1>2, <2>1, <2>4
  <2>6. /\ Held'[At("batcher")] = Held[At("batcher")] \cup C
        /\ IsInjective(batcher'.batch)
        /\ batcher'.pc = "before" => batcher'.task \notin Range(batcher'.batch)
    <3>1. CASE batcher' = [batcher EXCEPT !.pc = "before", !.task = c]
      <4>1. batcher'.pc = "before" /\ batcher'.task = c /\ batcher'.batch = batcher.batch
        BY <1>3, <3>1 DEF Batcher
      <4> QED
        BY <1>2, <1>3, <2>5, <4>1
    <3>2. CASE batcher' = Grown(batcher.batch, batcher.digests, c)
      <4>1. batcher'.pc # "before" /\ batcher'.batch = Append(batcher.batch, c)
        BY <3>2 DEF Grown
      <4>2. /\ Range(batcher'.batch) = Range(batcher.batch) \cup {c}
            /\ IsInjective(batcher'.batch)
        BY <1>3, <2>2, <2>5, <4>1, LastAdded
      <4> QED
        BY <1>2, <2>5, <4>1, <4>2
    <3> QED
      BY <2>1, <3>1, <3>2
  <2>7. \A z \in Holders : z \in {At("dataCh"), At("batcher")} \/ Held'[z] = Held[z]
    BY <1>4, Elsewhere DEF BatcherTakes
  <2>8. C \subseteq Held[At("dataCh")] /\ Held'[At("dataCh")] = Held[At("dataCh")] \ C
    BY <1>2, <2>3
  <2> HIDE DEF C
  <2>9. Once(Held)'
    BY <1>1, <2>6, <2>7, <2>8, Transferred
  <2> QED
    BY <1>4, <2>3, <2>6, <2>9 DEF BatcherTakes, Apart
<1>5. CASE BatcherFlushes
  <2> DEFINE C == Range(batcher.batch)
  <2>1. hydrationCh' = Append(hydrationCh, batcher.batch)
    BY <1>5 DEF BatcherFlushes
  <2>2. C \subseteq Held[At("batcher")] /\ C \in SUBSET Chunk
    BY <1>2, <1>3, RangeOfSeq
  <2>3. Held[At("hydrationCh")] \cap C = {}
    <3> HIDE DEF C
    <3> QED
      BY <1>1, <2>2, NowhereElse
  <2>4. /\ Held'[At("hydrationCh")] = Held[At("hydrationCh")] \cup C
        /\ ApartIn(hydrationCh')
    BY <1>2, <1>3, <2>1, <2>3, LastBatchAdded
  <2>5. /\ Held'[At("batcher")] = Held[At("batcher")] \ C
        /\ IsInjective(batcher'.batch) /\ batcher'.pc # "before"
    <3>1. CASE batcher.pc = "before"
      <4>1. batcher' = Grown(<<>>, 0, batcher.task) /\ batcher.task \in Chunk
        BY <1>3, <1>5, <3>1 DEF BatcherFlushes, BatcherOK
      <4>2. batcher'.pc # "before" /\ batcher'.batch = Append(<<>>, batcher.task)
        BY <4>1 DEF Grown
      <4>3. /\ Range(batcher'.batch) = Range(<<>>) \cup {batcher.task}
            /\ IsInjective(batcher'.batch)
        BY <4>2, AloneAdded, EmptyApart
      <4> QED
        BY <1>2, <1>3, <3>1, <4>2, <4>3, EmptyApart
    <3>2. CASE batcher.pc # "before"
      <4>1. batcher'.pc \in {"done", "recv"} /\ batcher'.batch = <<>>
        BY <1>3, <1>5, <3>2 DEF BatcherFlushes, Batcher
      <4> QED
        BY <1>2, <3>2, <4>1, EmptyApart
    <3> QED
      BY <3>1, <3>2
  <2>6. \A z \in Holders : z \in {At("batcher"), At("hydrationCh")} \/ Held'[z] = Held[z]
    BY <1>5, Elsewhere DEF BatcherFlushes
  <2> HIDE DEF C
  <2>7. Once(Held)'
    BY <1>1, <2>2, <2>4, <2>5, <2>6, Transferred
  <2> QED
    BY <1>5, <2>4, <2>5, <2>7 DEF BatcherFlushes, Apart
<1>6. CASE BatcherEnds
  <2>1. /\ batcher.pc = "recv" /\ batcher'.pc \in {"done", "final"}
        /\ batcher'.batch = batcher.batch
        /\ UNCHANGED <<dispatched, batchCh, fetcher, dataCh, hydrationCh, hydrator,
                       resultCh, writer>>
    BY <1>3, <1>6 DEF BatcherEnds, Batcher, Fine
  <2>2. Once(Held)'
    BY <2>1, NothingMoved
  <2> QED
    BY <2>1, <2>2 DEF Apart
<1> QED
  BY <1>4, <1>5, <1>6 DEF BatcherStep

LEMMA CountHydrator ==
  ASSUME TypeInv, Fine, Once(Held), Apart, NEW h \in Hydrators, Hydrator(h)
  PROVE  Once(Held)' /\ Apart'
<1> DEFINE X == <<"hydrator", h>>
<1>1. /\ X \in Holders /\ At("hydrationCh") \in Holders /\ At("resultCh") \in Holders
      /\ X # At("hydrationCh") /\ X # At("resultCh")
  BY HeldIs DEF HeldNow, PlaceNames, At
<1>2. /\ Held[X] = Range(hydrator[h].items) /\ Held'[X] = Range(hydrator'[h].items)
      /\ Held[At("hydrationCh")] = InSeqs(Range(hydrationCh))
      /\ Held'[At("hydrationCh")] = InSeqs(Range(hydrationCh'))
      /\ Held[At("resultCh")] = Range(resultCh) /\ Held'[At("resultCh")] = Range(resultCh')
  BY HeldIs, HeldNext DEF HeldNow
<1>3. /\ hydrator \in [Hydrators -> Goroutine] /\ HandOK(hydrator[h])
      /\ hydrationCh \in Seq(Seq(Chunk)) /\ resultCh \in Seq(Chunk)
      /\ hydrator[h].items \in Seq(Chunk) /\ IsInjective(hydrator[h].items)
  BY DEF TypeInv, TypeOK, ShapeInv, Goroutine, Apart
<1>4. CASE HydratorTakes(h)
  <2> DEFINE b == Head(hydrationCh)
  <2>1. /\ hydrator' = [hydrator EXCEPT ![h] = Works(hydrator[h], b)]
        /\ hydrationCh' = Tail(hydrationCh)
        /\ hydrationCh # <<>> /\ hydrator[h].items = <<>>
    BY <1>3, <1>4 DEF HydratorTakes, HandOK
  <2>2. hydrator'[h].items = b
    BY <1>3, <2>1 DEF Works, Goroutine
  <2>3. /\ InSeqs(Range(hydrationCh')) = InSeqs(Range(hydrationCh)) \ Range(b)
        /\ Range(b) \subseteq InSeqs(Range(hydrationCh))
        /\ ApartIn(hydrationCh') /\ IsInjective(b)
    BY <1>3, <2>1, FirstBatchTaken DEF Apart
  <2>4. \A z \in Holders : z \in {At("hydrationCh"), X} \/ Held'[z] = Held[z]
    <3>1. \A g \in Hydrators : g # h => hydrator'[g] = hydrator[g]
      BY <1>3, <2>1
    <3> QED
      BY <1>4, <3>1, Elsewhere DEF HydratorTakes
  <2>5. Range(hydrator[h].items) = {}
    BY <2>1, EmptyApart
  <2> HIDE DEF b, X
  <2>6. Once(Held)'
    BY <1>1, <1>2, <2>2, <2>3, <2>4, <2>5, Transferred
  <2> QED
    BY <1>3, <1>4, <2>1, <2>2, <2>3, <2>6 DEF HydratorTakes, Apart
<1>5. CASE HydratorSends(h)
  <2> DEFINE c == Head(hydrator[h].items)
  <2>1. hydrator' = [hydrator EXCEPT ![h] = Sent(hydrator[h])]
        /\ resultCh' = Append(resultCh, c)
    BY <1>5 DEF HydratorSends
  <2>2. /\ c \in Chunk /\ hydrator[h].items # <<>>
        /\ hydrator'[h].items = Tail(hydrator[h].items)
    BY <1>3, <1>5, <2>1, SentOK DEF HydratorSends
  <2>3. /\ Range(hydrator'[h].items) = Range(hydrator[h].items) \ {c}
        /\ {c} \subseteq Range(hydrator[h].items) /\ IsInjective(hydrator'[h].items)
    BY <1>3, <2>2, FirstTaken
  <2>4. \A z \in Holders : z \in {X, At("resultCh")} \/ Held'[z] = Held[z]
    <3>1. \A g \in Hydrators : g # h => hydrator'[g] = hydrator[g]
      BY <1>3, <2>1
    <3> QED
      BY <1>5, <3>1, Elsewhere DEF HydratorSends
  <2> HIDE DEF c, X
  <2>5. c \notin Range(resultCh)
    <3>1. c \in Held[X]
      BY <1>2, <2>3
    <3>2. DOMAIN Held = Holders
      BY DEF Held
    <3>3. c \notin Held[At("resultCh")]
      BY <1>1, <2>2, <3>1, <3>2, OnlyThere
    <3> QED
      BY <1>2, <3>3
  <2>6. Range(resultCh') = Range(resultCh) \cup {c} /\ IsInjective(resultCh')
    BY <1>3, <2>1, <2>2, <2>5, LastAdded DEF Apart
  <2>7. Once(Held)'
    <3> DEFINE C == {c}
    <3>1. /\ C \subseteq Held[X] /\ Held'[X] = Held[X] \ C
          /\ Held'[At("resultCh")] = Held[At("resultCh")] \cup C
      BY <1>2, <2>3, <2>6
    <3> HIDE DEF C
    <3> QED
      BY <1>1, <2>4, <3>1, Transferred
  <2> QED
    BY <1>3, <1>5, <2>1, <2>3, <2>6, <2>7 DEF HydratorSends, Apart
<1>6. CASE HydratorMoves(h) \/ HydratorFails(h)
  <2>1. \A g \in Hydrators : hydrator'[g].items = hydrator[g].items
    <3>1. PICK p \in PoolPC :
            hydrator' = [hydrator EXCEPT ![h] = [hydrator[h] EXCEPT !.pc = p]]
      BY <1>3, <1>6 DEF HydratorMoves, HydratorFails, PoolPC
    <3> QED
      BY <1>3, <3>1 DEF Goroutine
  <2>2. UNCHANGED <<dispatched, batchCh, fetcher, dataCh, batcher, hydrationCh,
                    resultCh, writer>>
    BY <1>6 DEF HydratorMoves, HydratorFails
  <2>3. Once(Held)'
    BY <2>1, <2>2, NothingMoved
  <2> QED
    BY <2>1, <2>2, <2>3 DEF Apart
<1> QED
  BY <1>4, <1>5, <1>6 DEF Hydrator

LEMMA CountWriter ==
  ASSUME TypeInv, WriterInv, Fine, Fine', Once(Held), Apart, WriterStep
  PROVE  Once(Held)' /\ Apart'
<1>1. CASE WriterTakes
  <2> DEFINE c == Head(resultCh)
             C == {c}
             pending == writer.pending \cup C
             D == pending \ writer'.pending
  <2>1. /\ resultCh \in Seq(Chunk) /\ resultCh # <<>> /\ IsInjective(resultCh)
        /\ resultCh' = Tail(resultCh) /\ writer.pc = "select" /\ rows' = rows
    BY <1>1 DEF WriterTakes, TypeInv, TypeOK, Apart
  <2>2. /\ Range(resultCh') = Range(resultCh) \ C /\ C \subseteq Range(resultCh)
        /\ IsInjective(resultCh') /\ c \in Chunk
    BY <2>1, FirstTaken, HeadTailProperties
  <2>3. pending \in SUBSET Chunk
    BY <2>2, WriterTyped
  <2>4. writer' = Queued(pending)
    <3>1. writer' = Queued(pending) \/ writer' = [writer EXCEPT !.pc = "done", !.err = TRUE]
      BY <1>1 DEF WriterTakes
    <3>2. ~writer'.err
      BY DEF Fine
    <3> QED
      BY <3>1, <3>2, WriterTyped DEF Writer
  <2> HIDE DEF C, c, pending
  <2>5. /\ writer'.pending \cup (From .. writer'.flushUntil)
             = pending \cup (From .. writer.flushUntil)
        /\ writer'.pending \in SUBSET pending
        /\ writer.flushUntil <= writer'.flushUntil
        /\ \A n \in pending : n > writer.flushUntil =>
             (n \in writer'.pending <=> n > writer'.flushUntil)
    BY <2>1, <2>3, <2>4, WriterQueues
  <2>6. writer.flushUntil \in Int /\ writer'.flushUntil \in Int
    <3>1. TypeInv'
      BY TypeWriter
    <3> QED
      BY <3>1, WriterTyped DEF TypeInv, TypeOK, Writer
  <2>7. /\ Held[At("resultCh")] = Range(resultCh) /\ Held'[At("resultCh")] = Range(resultCh')
        /\ Held[At("pending")] = writer.pending /\ Held'[At("pending")] = writer'.pending
        /\ Held[At("queued")] = From .. writer.flushUntil
        /\ Held'[At("queued")] = From .. writer'.flushUntil
    BY HeldIs, HeldNext DEF HeldNow
  <2>8. /\ At("resultCh") \in Holders /\ At("pending") \in Holders /\ At("queued") \in Holders
        /\ At("resultCh") # At("pending") /\ At("pending") # At("queued")
        /\ At("resultCh") # At("queued")
        /\ DOMAIN Held = Holders /\ DOMAIN Held' = Holders
    BY HeldIs, HoldersFixed DEF HeldNow, PlaceNames, At, Held
  \* First the result becomes pending,
  <2> DEFINE m == [z \in Holders |-> IF z = At("resultCh") THEN Range(resultCh')
                                    ELSE IF z = At("pending") THEN pending ELSE Held[z]]
  <2>9. /\ DOMAIN m = Holders /\ m[At("resultCh")] = Held[At("resultCh")] \ C
        /\ m[At("pending")] = Held[At("pending")] \cup C
        /\ m[At("queued")] = Held[At("queued")]
        /\ \A z \in Holders : z = At("resultCh") \/ z = At("pending") \/ m[z] = Held[z]
    BY <2>2, <2>7, <2>8 DEF pending
  <2>10. m[At("pending")] = pending
    BY <2>8
  <2> HIDE DEF m
  <2>11. Once(m)
    <3>1. C \subseteq Held[At("resultCh")]
      BY <2>2, <2>7
    <3>2. DOMAIN m = DOMAIN Held
      BY <2>8, <2>9
    <3>3. \A z \in DOMAIN Held : z = At("resultCh") \/ z = At("pending") \/ m[z] = Held[z]
      BY <2>8, <2>9
    <3>4. At("resultCh") \in DOMAIN Held /\ At("pending") \in DOMAIN Held
      BY <2>8
    <3> QED
      BY <2>8, <2>9, <3>1, <3>2, <3>3, <3>4, Moved
  \* and then the stretch that follows the buffer is queued.
  <2>12. \A n \in pending : n \in Int /\ n >= From /\ n > writer.flushUntil
    <3>1. \A n \in pending : n \in Chunk /\ n \notin From .. writer.flushUntil
      BY <2>3, <2>7, <2>8, <2>9, <2>10, <2>11, OnlyThere
    <3> QED
      BY <2>6, <3>1, SizesTyped DEF Chunk
  <2>13. From .. writer'.flushUntil = (From .. writer.flushUntil) \cup D
    <3>1. D \subseteq From .. writer'.flushUntil
      BY <2>5
    <3>2. From .. writer.flushUntil \subseteq From .. writer'.flushUntil
      BY <2>5, <2>6, SizesTyped
    <3>3. ASSUME NEW n \in From .. writer'.flushUntil, n \notin From .. writer.flushUntil
          PROVE  n \in D
      <4>1. n \in pending
        BY <2>5, <3>3
      <4>2. n > writer.flushUntil /\ ~(n > writer'.flushUntil)
        BY <2>6, <2>12, <3>3, <4>1
      <4> QED
        BY <2>5, <4>1, <4>2
    <3> QED
      BY <3>1, <3>2, <3>3
  <2>14. D \subseteq pending /\ writer'.pending = pending \ D
    BY <2>5
  <2>15. \A z \in Holders :
           z \in {At("resultCh"), At("pending"), At("queued")} \/ Held'[z] = Held[z]
    BY <1>1, Elsewhere DEF WriterTakes
  <2>16. /\ D \subseteq m[At("pending")]
         /\ Held'[At("pending")] = m[At("pending")] \ D
         /\ Held'[At("queued")] = m[At("queued")] \cup D
         /\ \A z \in Holders : z = At("pending") \/ z = At("queued") \/ Held'[z] = m[z]
    BY <2>2, <2>7, <2>8, <2>9, <2>10, <2>13, <2>14, <2>15
  <2> HIDE DEF D
  <2>17. Once(Held')
    BY <2>8, <2>9, <2>11, <2>16, Moved
  <2>18. Once(Held)'
    BY <2>17 DEF Once
  <2> QED
    BY <1>1, <2>2, <2>18 DEF WriterTakes, Apart
<1>2. CASE WriterMoves \/ Insert \/ InsertFails \/ ReportBatch
  <2>1. writer'.pending = writer.pending /\ writer'.flushUntil = writer.flushUntil
    BY <1>2, WriterTyped DEF WriterMoves, Insert, InsertFails, ReportBatch, Writer
  <2>2. UNCHANGED <<dispatched, batchCh, fetcher, dataCh, batcher, hydrationCh,
                    hydrator, resultCh>>
    BY <1>2 DEF WriterMoves, Insert, InsertFails, ReportBatch
  <2>3. Once(Held)'
    BY <2>1, <2>2, NothingMoved
  <2> QED
    BY <2>2, <2>3 DEF Apart
<1> QED
  BY <1>1, <1>2 DEF WriterStep

LEMMA CountMain ==
  ASSUME Once(Held), Apart, Main \/ CancelJob \/ UNCHANGED vars
  PROVE  Once(Held)' /\ Apart'
<1>1. UNCHANGED <<dispatched, batchCh, fetcher, dataCh, batcher, hydrationCh,
                  hydrator, resultCh, writer>>
  BY DEF Main, MainSeesWriter, MainSeesError, MainJoins, MainChecks, CancelJob, vars
<1>2. Once(Held)'
  BY <1>1, NothingMoved
<1> QED
  BY <1>1, <1>2 DEF Apart

LEMMA CountSteps == TypeInv /\ WriterInv /\ CountInv /\ [Next]_vars => CountInv'
<1> SUFFICES ASSUME TypeInv, WriterInv, CountInv, [Next]_vars, Fine'
             PROVE  Once(Held)' /\ Apart'
  BY DEF CountInv
<1>1. Fine
  BY FineBefore
<1>2. Once(Held) /\ Apart
  BY <1>1 DEF CountInv
<1>3. CASE Dispatcher
  BY <1>1, <1>2, <1>3, CountDispatcher
<1>4. CASE BatcherStep
  BY <1>1, <1>2, <1>4, CountBatcher
<1>5. CASE WriterStep
  BY <1>1, <1>2, <1>5, CountWriter
<1>6. CASE Main \/ CancelJob \/ UNCHANGED vars
  BY <1>2, <1>6, CountMain
<1>7. CASE \E f \in Fetchers : Fetcher(f)
  BY <1>1, <1>2, <1>7, CountFetcher
<1>8. CASE \E h \in Hydrators : Hydrator(h)
  BY <1>1, <1>2, <1>8, CountHydrator
<1> QED
  BY <1>3, <1>4, <1>5, <1>6, <1>7, <1>8 DEF Next, Rest

LEMMA Count == Spec => []CountInv
BY CountInit, CountSteps, Types, Writes, PTL DEF Spec

\* Until something goes wrong every checkpoint of the chunk is in exactly one
\* place of the pipeline, for every chunk, pool and batch size.
THEOREM ExactlyOnce == Spec => []NothingLost
<1>1. CountInv => NothingLost
  <2> SUFFICES ASSUME CountInv, Fine, NEW c \in Chunk
               PROVE  Cardinality({x \in Holders : c \in Holds(x)}) = 1
    BY DEF NothingLost, Fine
  <2>1. PICK x \in Holders : \A y \in Holders : c \in Held[y] <=> y = x
    BY DEF CountInv, Once, Held
  <2>2. {y \in Holders : c \in Holds(y)} = {x}
    BY <2>1 DEF Held
  <2> QED
    BY <2>2, FS_Singleton
<1> QED
  BY <1>1, Count, PTL

-----------------------------------------------------------------------------
(***************************************************************************)
(* The end of a run: as long as no error is under way, a stage that has    *)
(* returned left nothing behind it, so the writer returns without error    *)
(* only when the whole chunk is written.                                   *)
(***************************************************************************)

\* No error is waiting, or was taken: then nothing cancelled the pipeline.
QuietInv ==
  main \in {"wait", "check"} /\ errCh = 0 =>
    /\ ~cancelled
    /\ \A f \in Fetchers : fetcher[f].pc # "cancel"
    /\ \A h \in Hydrators : hydrator[h].pc # "cancel"

FetchersDrained ==
  \A f \in Fetchers : fetcher[f].pc = "done" =>
    dispatched > To /\ batchCh = <<>> /\ fetcher[f].items = <<>>

BatcherDrained ==
  /\ batcher.pc \in {"final", "done"} => FetchersDone /\ dataCh = <<>>
  /\ batcher.pc = "done" => batcher.batch = <<>>

HydratorsDrained ==
  \A h \in Hydrators : hydrator[h].pc = "done" =>
    batcher.pc = "done" /\ hydrationCh = <<>> /\ hydrator[h].items = <<>>

DrainedInv == ~Done => FetchersDrained /\ BatcherDrained /\ HydratorsDrained

ClosingInv ==
  /\ writer.closing => resultCh = <<>> /\ HydratorsDone
  /\ main \in {"check", "nil", "error"} => writer.pc = "done"
  /\ main = "check" => ~writer.err

NilInv == main = "nil" => stopping \/ Chunk \subseteq Written

LEMMA EndInit == Init => QuietInv /\ DrainedInv /\ ClosingInv /\ NilInv
BY DEF Init, Ready, QuietInv, DrainedInv, FetchersDrained, BatcherDrained,
   HydratorsDrained, ClosingInv, NilInv

LEMMA QuietSteps == TypeInv /\ QuietInv /\ [Next]_vars => QuietInv'
<1> SUFFICES ASSUME TypeInv, QuietInv, [Next]_vars PROVE QuietInv'
  OBVIOUS
<1>0. fetcher \in [Fetchers -> Goroutine] /\ hydrator \in [Hydrators -> Goroutine]
  BY DEF TypeInv, TypeOK
<1>1. CASE \E f \in Fetchers : Fetcher(f)
  <2>1. PICK f \in Fetchers : Fetcher(f)
    BY <1>1
  <2>2. CASE FetcherFails(f)
    BY <1>0, <2>2 DEF FetcherFails, PushError, CancelPipeline, QuietInv, Goroutine
  <2>3. CASE FetcherTakes(f)
    BY <1>0, <2>3 DEF FetcherTakes, Works, QuietInv, Goroutine
  <2>4. CASE FetcherMoves(f)
    BY <1>0, <2>4 DEF FetcherMoves, QuietInv, Goroutine
  <2>5. CASE FetcherSends(f)
    <3>1. fetcher' = [fetcher EXCEPT ![f] = Sent(fetcher[f])]
          /\ Sent(fetcher[f]).pc \in {"recv", "push"}
      BY <2>5, SentOK DEF FetcherSends, TypeInv, ShapeInv
    <3> QED
      BY <1>0, <2>5, <3>1 DEF FetcherSends, QuietInv
  <2> QED
    BY <2>1, <2>2, <2>3, <2>4, <2>5 DEF Fetcher
<1>2. CASE \E h \in Hydrators : Hydrator(h)
  <2>1. PICK h \in Hydrators : Hydrator(h)
    BY <1>2
  <2>2. CASE HydratorFails(h)
    BY <1>0, <2>2 DEF HydratorFails, PushError, CancelPipeline, QuietInv, Goroutine
  <2>3. CASE HydratorTakes(h)
    BY <1>0, <2>3 DEF HydratorTakes, Works, QuietInv, Goroutine
  <2>4. CASE HydratorMoves(h)
    BY <1>0, <2>4 DEF HydratorMoves, QuietInv, Goroutine
  <2>5. CASE HydratorSends(h)
    <3>1. hydrator' = [hydrator EXCEPT ![h] = Sent(hydrator[h])]
          /\ Sent(hydrator[h]).pc \in {"recv", "push"}
      BY <2>5, SentOK DEF HydratorSends, TypeInv, ShapeInv
    <3> QED
      BY <1>0, <2>5, <3>1 DEF HydratorSends, QuietInv
  <2> QED
    BY <2>1, <2>2, <2>3, <2>4, <2>5 DEF Hydrator
<1>3. CASE Main
  BY <1>3 DEF Main, MainSeesWriter, MainSeesError, MainJoins, MainChecks, Return, QuietInv
<1>4. CASE Dispatcher \/ BatcherStep \/ WriterStep \/ CancelJob \/ UNCHANGED vars
  BY <1>4 DEF QuietInv, vars, Dispatcher, Dispatch, DispatcherStops, BatcherStep,
     BatcherTakes, BatcherFlushes, BatcherEnds, WriterStep, WriterTakes, WriterMoves,
     Insert, InsertFails, ReportBatch, CancelJob
<1> QED
  BY <1>1, <1>2, <1>3, <1>4 DEF Next, Rest

LEMMA DrainedSteps == TypeInv /\ DrainedInv /\ [Next]_vars => DrainedInv'
<1> SUFFICES ASSUME TypeInv, DrainedInv, [Next]_vars, ~Done'
             PROVE  FetchersDrained' /\ BatcherDrained' /\ HydratorsDrained'
  BY DEF DrainedInv
<1>1. ~Done
  BY DEF Done, Next, vars, Dispatcher, Dispatch, DispatcherStops, Fetcher, FetcherTakes,
     FetcherMoves, FetcherSends, FetcherFails, BatcherStep, BatcherTakes, BatcherFlushes,
     BatcherEnds, Hydrator, HydratorTakes, HydratorMoves, HydratorSends, HydratorFails,
     WriterStep, WriterTakes, WriterMoves, Insert, InsertFails, ReportBatch,
     Main, MainSeesWriter, MainSeesError, MainJoins, MainChecks, CancelJob, Rest,
     PushError, CancelPipeline, Return
<1>2. FetchersDrained /\ BatcherDrained /\ HydratorsDrained
  BY <1>1 DEF DrainedInv
<1>3. /\ fetcher \in [Fetchers -> Goroutine] /\ hydrator \in [Hydrators -> Goroutine]
      /\ \A f \in Fetchers : HandOK(fetcher[f])
      /\ \A h \in Hydrators : HandOK(hydrator[h])
      /\ batcher \in Batcher /\ BatcherOK
  BY DEF TypeInv, TypeOK, ShapeInv
<1>4. CASE Dispatcher
  <2>1. ~(dispatched > To)
    BY <1>1, <1>4, SizesTyped DEF Dispatcher, Dispatch, DispatcherStops, TypeInv, TypeOK
  <2>2. UNCHANGED <<fetcher, dataCh, batcher, hydrationCh, hydrator>>
    BY <1>4 DEF Dispatcher, Dispatch, DispatcherStops
  <2> QED
    BY <1>2, <2>1, <2>2 DEF FetchersDrained, BatcherDrained, HydratorsDrained, FetchersDone
<1>5. CASE \E f \in Fetchers : Fetcher(f)
  <2>1. PICK f \in Fetchers : Fetcher(f)
    BY <1>5
  <2>2. /\ \A g \in Fetchers : g # f => fetcher'[g] = fetcher[g]
        /\ UNCHANGED <<dispatched, batcher, hydrationCh, hydrator>>
    BY <1>3, <2>1 DEF Fetcher, FetcherTakes, FetcherMoves, FetcherSends, FetcherFails
  <2>3. fetcher[f].pc # "done"
    BY <2>1 DEF Fetcher, FetcherTakes, FetcherMoves, FetcherSends, FetcherFails
  <2>4. fetcher'[f].pc = "done" =>
          /\ dispatched > To /\ batchCh = <<>> /\ batchCh' = batchCh
          /\ fetcher'[f].items = <<>>
    <3>1. CASE FetcherTakes(f)
      BY <1>3, <3>1 DEF FetcherTakes, Works, Goroutine
    <3>2. CASE FetcherMoves(f)
      BY <1>1, <1>3, <3>2 DEF FetcherMoves, HandOK, Goroutine
    <3>3. CASE FetcherSends(f)
      <4>1. fetcher' = [fetcher EXCEPT ![f] = Sent(fetcher[f])]
            /\ Sent(fetcher[f]).pc \in {"recv", "push"}
        BY <1>3, <3>3, SentOK DEF FetcherSends
      <4> QED
        BY <1>3, <4>1
    <3>4. CASE FetcherFails(f)
      BY <1>1, <1>3, <3>4 DEF FetcherFails, CancelPipeline, Done, Goroutine
    <3> QED
      BY <2>1, <3>1, <3>2, <3>3, <3>4 DEF Fetcher
  <2>5. batchCh = <<>> => batchCh' = <<>>
    BY <2>1 DEF Fetcher, FetcherTakes, FetcherMoves, FetcherSends, FetcherFails
  <2>6. FetchersDrained'
    BY <1>2, <2>2, <2>4, <2>5 DEF FetchersDrained
  <2>7. BatcherDrained'
    BY <1>2, <2>2, <2>3 DEF BatcherDrained, FetchersDone
  <2>8. HydratorsDrained'
    BY <1>2, <2>2 DEF HydratorsDrained
  <2> QED
    BY <2>6, <2>7, <2>8
<1>6. CASE BatcherStep
  <2>1. UNCHANGED <<dispatched, batchCh, fetcher, hydrator>>
    BY <1>6 DEF BatcherStep, BatcherTakes, BatcherFlushes, BatcherEnds
  <2>2. FetchersDrained'
    BY <1>2, <2>1 DEF FetchersDrained
  <2>3. batcher.pc # "done"
    BY <1>6 DEF BatcherStep, BatcherTakes, BatcherFlushes, BatcherEnds
  <2>4. HydratorsDrained'
    BY <1>2, <2>1, <2>3 DEF HydratorsDrained
  <2>5. BatcherDrained'
    <3>1. CASE BatcherTakes
      BY <1>3, <3>1 DEF BatcherTakes, Grown, Batcher, BatcherDrained
    <3>2. CASE BatcherFlushes
      <4>1. CASE batcher.pc = "before"
        BY <3>2, <4>1 DEF BatcherFlushes, Grown, BatcherDrained
      <4>2. CASE batcher.pc # "before"
        BY <1>2, <1>3, <3>2, <4>2 DEF BatcherFlushes, Batcher, BatcherDrained, FetchersDone
      <4> QED
        BY <4>1, <4>2
    <3>3. CASE BatcherEnds
      BY <1>1, <1>3, <3>3 DEF BatcherEnds, Batcher, BatcherDrained, FetchersDone
    <3> QED
      BY <1>6, <3>1, <3>2, <3>3 DEF BatcherStep
  <2> QED
    BY <2>2, <2>4, <2>5
<1>7. CASE \E h \in Hydrators : Hydrator(h)
  <2>1. PICK h \in Hydrators : Hydrator(h)
    BY <1>7
  <2>2. /\ \A g \in Hydrators : g # h => hydrator'[g] = hydrator[g]
        /\ UNCHANGED <<dispatched, batchCh, fetcher, dataCh, batcher>>
    BY <1>3, <2>1 DEF Hydrator, HydratorTakes, HydratorMoves, HydratorSends, HydratorFails
  <2>3. hydrator'[h].pc = "done" =>
          /\ batcher.pc = "done" /\ hydrationCh = <<>> /\ hydrationCh' = hydrationCh
          /\ hydrator'[h].items = <<>>
    <3>1. CASE HydratorTakes(h)
      BY <1>3, <3>1 DEF HydratorTakes, Works, Goroutine
    <3>2. CASE HydratorMoves(h)
      BY <1>1, <1>3, <3>2 DEF HydratorMoves, HandOK, Goroutine
    <3>3. CASE HydratorSends(h)
      <4>1. hydrator' = [hydrator EXCEPT ![h] = Sent(hydrator[h])]
            /\ Sent(hydrator[h]).pc \in {"recv", "push"}
        BY <1>3, <3>3, SentOK DEF HydratorSends
      <4> QED
        BY <1>3, <4>1
    <3>4. CASE HydratorFails(h)
      BY <1>1, <1>3, <3>4 DEF HydratorFails, CancelPipeline, Done, Goroutine
    <3> QED
      BY <2>1, <3>1, <3>2, <3>3, <3>4 DEF Hydrator
  <2>4. hydrationCh = <<>> => hydrationCh' = <<>>
    BY <2>1 DEF Hydrator, HydratorTakes, HydratorMoves, HydratorSends, HydratorFails
  <2>5. HydratorsDrained'
    BY <1>2, <2>2, <2>3, <2>4 DEF HydratorsDrained
  <2> QED
    BY <1>2, <2>2, <2>5 DEF FetchersDrained, BatcherDrained, FetchersDone
<1>8. CASE WriterStep \/ Main \/ CancelJob \/ UNCHANGED vars
  <2>1. UNCHANGED <<dispatched, batchCh, fetcher, dataCh, batcher, hydrationCh, hydrator>>
    BY <1>8 DEF vars, WriterStep, WriterTakes, WriterMoves, Insert, InsertFails,
       ReportBatch, Main, MainSeesWriter, MainSeesError, MainJoins, MainChecks, CancelJob
  <2> QED
    BY <1>2, <2>1 DEF FetchersDrained, BatcherDrained, HydratorsDrained, FetchersDone
<1> QED
  BY <1>4, <1>5, <1>6, <1>7, <1>8 DEF Next, Rest

LEMMA ClosingSteps == TypeInv /\ WriterInv /\ ClosingInv /\ [Next]_vars => ClosingInv'
<1> SUFFICES ASSUME TypeInv, WriterInv, ClosingInv, [Next]_vars PROVE ClosingInv'
  OBVIOUS
<1>1. CASE WriterStep
  <2>1. UNCHANGED <<hydrator, main>> /\ writer.pc # "done"
    BY <1>1 DEF WriterStep, WriterTakes, WriterMoves, Insert, InsertFails, ReportBatch, Tables
  <2>2. writer'.closing => resultCh' = <<>> /\ HydratorsDone
    <3>1. CASE WriterTakes
      BY <3>1, WriterTyped DEF WriterTakes, Queued, Writer, WriterInv, Endings
    <3>2. CASE WriterMoves
      BY <3>2, WriterTyped DEF WriterMoves, Writer, ClosingInv
    <3>3. CASE Insert \/ InsertFails \/ ReportBatch
      BY <3>3, WriterTyped DEF Insert, InsertFails, ReportBatch, Writer, ClosingInv
    <3> QED
      BY <1>1, <3>1, <3>2, <3>3 DEF WriterStep
  <2> QED
    BY <2>1, <2>2 DEF ClosingInv, HydratorsDone
<1>2. CASE \E h \in Hydrators : Hydrator(h)
  <2>1. ~HydratorsDone
    BY <1>2 DEF Hydrator, HydratorTakes, HydratorMoves, HydratorSends, HydratorFails,
       HydratorsDone
  <2>2. UNCHANGED <<writer, main>>
    BY <1>2 DEF Hydrator, HydratorTakes, HydratorMoves, HydratorSends, HydratorFails
  <2> QED
    BY <2>1, <2>2 DEF ClosingInv
<1>3. CASE Main
  BY <1>3 DEF Main, MainSeesWriter, MainSeesError, MainJoins, MainChecks, Return,
     ClosingInv, HydratorsDone
<1>4. CASE \/ Dispatcher \/ BatcherStep \/ CancelJob \/ UNCHANGED vars
           \/ \E f \in Fetchers : Fetcher(f)
  <2>1. UNCHANGED <<resultCh, hydrator, writer, main>>
    BY <1>4 DEF vars, Dispatcher, Dispatch, DispatcherStops, Fetcher, FetcherTakes,
       FetcherMoves, FetcherSends, FetcherFails, BatcherStep, BatcherTakes,
       BatcherFlushes, BatcherEnds, CancelJob
  <2> QED
    BY <2>1 DEF ClosingInv, HydratorsDone
<1> QED
  BY <1>1, <1>2, <1>3, <1>4 DEF Next, Rest

\* The writer that returns without error, when nothing is wrong, is at the end.
LEMMA Finished ==
  ASSUME TypeInv, WriterInv, CountInv, DrainedInv, ClosingInv, Fine, writer.pc = "done"
  PROVE  writer.flushUntil = To /\ writer.reportedUntil = To /\ Chunk \subseteq Written
<1>1. /\ writer.closing /\ writer.buffer = {} /\ resultCh = <<>> /\ HydratorsDone
  BY DEF Fine, WriterInv, Endings, ClosingInv
<1>2. /\ FetchersDrained /\ BatcherDrained /\ HydratorsDrained /\ Once(Held)
  BY DEF Fine, DrainedInv, CountInv
<1>3. /\ batcher.pc = "done" /\ batcher.batch = <<>> /\ dataCh = <<>>
      /\ hydrationCh = <<>> /\ FetchersDone
      /\ \A h \in Hydrators : hydrator[h].items = <<>>
  BY <1>1, <1>2, SizesTyped DEF HydratorsDone, HydratorsDrained, BatcherDrained
<1>4. /\ dispatched > To /\ batchCh = <<>>
      /\ \A f \in Fetchers : fetcher[f].items = <<>>
  BY <1>2, <1>3, SizesTyped DEF FetchersDone, FetchersDrained
<1>5. /\ writer.flushUntil \in Int /\ writer.reportedUntil \in Int
      /\ From - 1 <= writer.reportedUntil /\ writer.reportedUntil <= writer.flushUntil
      /\ writer.flushUntil <= To /\ writer.flushUntil + 1 \notin writer.pending
      /\ writer.buffer = writer.reportedUntil + 1 .. writer.flushUntil
  BY WriterTyped DEF WriterInv, Positions
<1>6. dispatched .. To = {}
  BY <1>4, SizesTyped DEF TypeInv, TypeOK
<1>7. writer.flushUntil = To
  <2> SUFFICES ASSUME writer.flushUntil < To PROVE FALSE
    BY <1>5, SizesTyped
  <2> DEFINE c == writer.flushUntil + 1
  <2>1. c \in Chunk /\ c \notin From .. writer.flushUntil
    BY <1>5, SizesTyped DEF Chunk
  <2> HIDE DEF c
  <2>2. PICK x \in Holders : c \in Held[x]
    BY <1>2, <2>1, HeldIs DEF Once, HeldNow
  <2>3. /\ Held[At("undispatched")] = {} /\ Held[At("batchCh")] = {}
        /\ Held[At("dataCh")] = {} /\ Held[At("batcher")] = {}
        /\ Held[At("hydrationCh")] = {} /\ Held[At("resultCh")] = {}
        /\ Held[At("pending")] = writer.pending
        /\ Held[At("queued")] = From .. writer.flushUntil
    BY <1>1, <1>3, <1>4, <1>6, HeldIs, EmptyApart DEF HeldNow
  <2>4. \A p \in PlaceNames : c \notin Held[At(p)]
    BY <1>5, <2>1, <2>3 DEF PlaceNames, c
  <2>5. \A f \in Fetchers : Held[<<"fetcher", f>>] = {}
    BY <1>4, HeldIs, EmptyApart DEF HeldNow
  <2>6. \A h \in Hydrators : Held[<<"hydrator", h>>] = {}
    BY <1>3, HeldIs, EmptyApart DEF HeldNow
  <2> QED
    BY <2>2, <2>4, <2>5, <2>6, HeldIs DEF HeldNow
<1>8. writer.reportedUntil = To
  <2>1. ASSUME writer.reportedUntil < writer.flushUntil
        PROVE  writer.flushUntil \in writer.reportedUntil + 1 .. writer.flushUntil
    BY <1>5, <2>1
  <2>2. ~(writer.reportedUntil < writer.flushUntil)
    BY <1>1, <1>5, <2>1
  <2> QED
    BY <1>5, <1>7, <2>2
<1>9. Chunk \subseteq Written
  BY <1>8 DEF Chunk, WriterInv, Reported
<1> QED
  BY <1>7, <1>8, <1>9

\* What the check of errCh finds.
LEMMA CheckedWritten ==
  ASSUME TypeInv, WriterInv, CountInv, DrainedInv, ClosingInv, QuietInv,
         main = "check", errCh = 0, ~stopping
  PROVE  writer.reportedUntil = To /\ Chunk \subseteq Written
<1>1. Fine /\ writer.pc = "done"
  BY DEF Fine, Done, QuietInv, ClosingInv
<1> QED
  BY <1>1, Finished

\* Nothing takes rows out of the tables.
LEMMA WrittenGrows ==
  ASSUME TypeInv, WriterInv, [Next]_vars
  PROVE  Written \subseteq Written'
<1>1. CASE Insert
  BY <1>1, TablesGrow DEF Insert
<1>2. CASE InsertFails
  BY <1>2, TablesGrow DEF InsertFails
<1>3. ASSUME ~Insert, ~InsertFails PROVE rows' = rows
  BY <1>3 DEF Next, vars, Dispatcher, Dispatch, DispatcherStops, Fetcher, FetcherTakes,
     FetcherMoves, FetcherSends, FetcherFails, BatcherStep, BatcherTakes, BatcherFlushes,
     BatcherEnds, Hydrator, HydratorTakes, HydratorMoves, HydratorSends, HydratorFails,
     WriterStep, WriterTakes, WriterMoves, ReportBatch,
     Main, MainSeesWriter, MainSeesError, MainJoins, MainChecks, CancelJob, Rest
<1> QED
  BY <1>1, <1>2, <1>3 DEF Written

FlowInv == TypeInv /\ WriterInv /\ CountInv /\ DrainedInv /\ ClosingInv /\ QuietInv

LEMMA NilSteps == FlowInv /\ NilInv /\ [Next]_vars => NilInv'
<1> SUFFICES ASSUME FlowInv, NilInv, [Next]_vars, main' = "nil", ~stopping'
             PROVE  Chunk \subseteq Written'
  BY DEF NilInv
<1>1. ~stopping
  BY DEF Next, vars, Dispatcher, Dispatch, DispatcherStops, Fetcher, FetcherTakes,
     FetcherMoves, FetcherSends, FetcherFails, BatcherStep, BatcherTakes, BatcherFlushes,
     BatcherEnds, Hydrator, HydratorTakes, HydratorMoves, HydratorSends, HydratorFails,
     WriterStep, WriterTakes, WriterMoves, Insert, InsertFails, ReportBatch,
     Main, MainSeesWriter, MainSeesError, MainJoins, MainChecks, CancelJob, Rest
<1>2. Written \subseteq Written'
  BY WrittenGrows DEF FlowInv
<1>3. CASE main = "nil"
  BY <1>1, <1>2, <1>3 DEF NilInv
<1>4. CASE main # "nil"
  <2>1. main = "check" /\ errCh = 0
    BY <1>4 DEF FlowInv, TypeInv, TypeOK, Next, vars, Dispatcher, Dispatch, DispatcherStops, Fetcher,
     FetcherTakes, FetcherMoves, FetcherSends, FetcherFails, BatcherStep, BatcherTakes,
     BatcherFlushes, BatcherEnds, Hydrator, HydratorTakes, HydratorMoves, HydratorSends,
     HydratorFails, WriterStep, WriterTakes, WriterMoves, Insert, InsertFails, ReportBatch,
     Main, MainSeesWriter, MainSeesError, MainJoins, MainChecks, CancelJob, Rest, Return
  <2>2. Chunk \subseteq Written
    BY <1>1, <2>1, CheckedWritten DEF FlowInv
  <2> QED
    BY <1>2, <2>2
<1> QED
  BY <1>3, <1>4

LEMMA Flow == Spec => []FlowInv
<1>1. Spec => []QuietInv /\ []DrainedInv
  BY EndInit, QuietSteps, DrainedSteps, Types, PTL DEF Spec
<1>2. Spec => []ClosingInv
  BY EndInit, ClosingSteps, Types, Writes, PTL DEF Spec
<1>3. TypeInv /\ WriterInv /\ CountInv /\ DrainedInv /\ ClosingInv /\ QuietInv => FlowInv
  BY DEF FlowInv
<1> QED
  BY <1>1, <1>2, <1>3, Types, Writes, Count, PTL

\* A chunk that returns nil is written whole, unless its job was cancelled: for
\* every chunk, pool and batch size no error of any stage is lost on the way.
THEOREM NilMeansWhole == Spec => []NilMeansWritten
<1>1. NilInv => NilMeansWritten
  BY DEF NilInv, NilMeansWritten
<1>2. Spec => []NilInv
  BY EndInit, NilSteps, Flow, PTL DEF Spec
<1> QED
  BY <1>1, <1>2, PTL

-----------------------------------------------------------------------------
(***************************************************************************)
(* The refinement: every step of the pipeline is a step of ChunkContract   *)
(* or leaves what the contract sees unchanged.                             *)
(***************************************************************************)

\* What the contract sees of the writer.
WritePos == IF writer.pc = "report" THEN writer.flushUntil ELSE writer.reportedUntil

SeenUnchanged ==
  /\ Written' = Written /\ WritePos' = WritePos
  /\ writer'.reportedUntil = writer.reportedUntil
  /\ stopping' = stopping /\ ChunkOutcome' = ChunkOutcome

ContractStep == [Contract!ChunkNext]_(Contract!chunkVars)

LEMMA SeenMeansStep == SeenUnchanged => ContractStep
BY DEF SeenUnchanged, ContractStep, Contract!chunkVars, WritePos

LEMMA ContractInit == TypeInv /\ Init => Contract!ChunkInit
<1> SUFFICES ASSUME Init PROVE Contract!ChunkInit
  OBVIOUS
<1>1. Written = {}
  BY DEF Init, Written, Tables
<1> QED
  BY <1>1 DEF Init, Contract!ChunkInit, ChunkOutcome, WriterFailed

LEMMA ContractWriter ==
  ASSUME FlowInv, WriterStep
  PROVE  ContractStep
<1>1. TypeInv /\ WriterInv /\ ClosingInv
  BY DEF FlowInv
<1>2. writer.pc # "done" /\ UNCHANGED <<stopping, main>>
  BY DEF WriterStep, WriterTakes, WriterMoves, Insert, InsertFails, ReportBatch, Tables
<1>3. main \in {"wait", "join"} /\ ~writer.err
  BY <1>1, <1>2 DEF TypeInv, TypeOK, ClosingInv, WriterInv, Endings
<1>4. ChunkOutcome = "running"
  BY <1>2, <1>3 DEF ChunkOutcome, WriterFailed
<1>5. /\ ~writer'.err => ChunkOutcome' = "running"
      /\ writer'.pc = "done" /\ writer'.err => ChunkOutcome' = "failing"
  BY <1>2, <1>3 DEF ChunkOutcome, WriterFailed
<1>6. /\ writer.flushUntil \in Int /\ writer.reportedUntil \in Int
      /\ writer.reportedUntil <= writer.flushUntil /\ writer.flushUntil <= To
      /\ writer.buffer = writer.reportedUntil + 1 .. writer.flushUntil
      /\ writer.pc \in Tables \cup {"report"} => writer.buffer # {}
  BY <1>1, WriterTyped DEF WriterInv, Positions
\* A failing step writes some of the buffer, or nothing.
<1>7. ASSUME writer.pc # "report", NEW S \in SUBSET writer.buffer,
             Written' = Written \cup S,
             writer' = [writer EXCEPT !.pc = "done", !.err = TRUE]
      PROVE  ContractStep
  <2>1. /\ writer'.pc = "done" /\ writer'.err
        /\ writer'.reportedUntil = writer.reportedUntil
    BY <1>1, <1>7, WriterTyped DEF Writer
  <2>2. S \in SUBSET (writer.reportedUntil + 1 .. To)
    <3>1. writer.reportedUntil + 1 .. writer.flushUntil
            \subseteq writer.reportedUntil + 1 .. To
      BY <1>6, SizesTyped
    <3> QED
      BY <1>6, <1>7, <3>1
  <2>3. Contract!Fail
    BY <1>2, <1>4, <1>5, <1>7, <2>1, <2>2 DEF Contract!Fail
  <2> QED
    BY <2>3 DEF ContractStep, Contract!ChunkNext
<1>8. CASE WriterTakes
  <2> DEFINE pending == writer.pending \cup {Head(resultCh)}
  <2>1. pending \in SUBSET Chunk /\ writer.pc = "select" /\ rows' = rows
    BY <1>1, <1>8, WriterTyped, HeadTailProperties DEF WriterTakes, TypeInv, TypeOK
  <2>2. Written' = Written
    BY <2>1 DEF Written
  <2>3. CASE writer' = Queued(pending)
    <3>1. /\ writer'.reportedUntil = writer.reportedUntil
          /\ writer'.pc \in {"select", "checkpoints"} /\ writer'.err = writer.err
      BY <1>1, <2>1, <2>3, WriterQueues
    <3>2. SeenUnchanged
      BY <1>2, <1>3, <1>4, <1>5, <2>1, <2>2, <3>1 DEF SeenUnchanged, WritePos
    <3> QED
      BY <3>2, SeenMeansStep
  <2>4. CASE writer' = [writer EXCEPT !.pc = "done", !.err = TRUE]
    <3>1. Written' = Written \cup {}
      BY <2>2
    <3> QED
      BY <1>7, <2>1, <2>4, <3>1
  <2> QED
    BY <1>8, <2>3, <2>4 DEF WriterTakes
<1>9. CASE WriterMoves
  <2>1. Written' = Written /\ writer.pc = "select"
    BY <1>9 DEF WriterMoves, Written
  <2>2. CASE writer' = [writer EXCEPT !.pc = "done", !.err = TRUE]
    <3>1. Written' = Written \cup {}
      BY <2>1
    <3> QED
      BY <1>7, <2>1, <2>2, <3>1
  <2>3. CASE writer' # [writer EXCEPT !.pc = "done", !.err = TRUE]
    <3>1. /\ writer'.reportedUntil = writer.reportedUntil
          /\ writer'.pc # "report" /\ writer'.err = writer.err
      BY <1>1, <1>9, <2>3, WriterTyped DEF WriterMoves, Writer
    <3>2. SeenUnchanged
      BY <1>2, <1>3, <1>4, <1>5, <2>1, <3>1 DEF SeenUnchanged, WritePos
    <3> QED
      BY <3>2, SeenMeansStep
  <2> QED
    BY <2>2, <2>3
<1>10. CASE Insert
  <2>1. /\ Written' = IF writer.pc = "transaction_objects" THEN Written \cup writer.buffer
                                                          ELSE Written
        /\ writer.pc \in Tables /\ ~stopping
    BY <1>1, <1>10, TablesGrow DEF Insert, Done
  <2>2. /\ writer'.pc = NextTable(writer.pc) /\ writer'.err = writer.err
        /\ writer'.reportedUntil = writer.reportedUntil
        /\ writer'.flushUntil = writer.flushUntil
    BY <1>1, <1>10, WriterTyped DEF Insert, Writer
  <2>3. CASE writer.pc = "transaction_objects"
    <3>1. writer'.pc = "report"
      BY <2>2, <2>3 DEF NextTable
    <3>2. writer.flushUntil \in writer.reportedUntil + 1 .. To
      BY <1>6, <2>1
    <3>3. Contract!Flush
      BY <1>2, <1>3, <1>4, <1>5, <1>6, <2>1, <2>2, <2>3, <3>1, <3>2 DEF Contract!Flush
    <3> QED
      BY <3>3 DEF ContractStep, Contract!ChunkNext
  <2>4. CASE writer.pc # "transaction_objects"
    <3>1. writer'.pc # "report" /\ writer.pc # "report"
      BY <2>1, <2>2, <2>4 DEF NextTable, Tables
    <3>2. SeenUnchanged
      BY <1>2, <1>3, <1>4, <1>5, <2>1, <2>2, <2>4, <3>1 DEF SeenUnchanged, WritePos
    <3> QED
      BY <3>2, SeenMeansStep
  <2> QED
    BY <2>3, <2>4
<1>11. CASE InsertFails
  <2>1. PICK S \in SUBSET writer.buffer : rows' = [rows EXCEPT ![writer.pc] = @ \cup S]
    BY <1>11 DEF InsertFails
  <2>2. writer.pc \in Tables /\ writer' = [writer EXCEPT !.pc = "done", !.err = TRUE]
    BY <1>11 DEF InsertFails
  <2>3. \E T \in SUBSET writer.buffer : Written' = Written \cup T
    <3>1. Written' = Written \cup S \/ Written' = Written \cup {}
      BY <1>1, <2>1, <2>2, TablesGrow
    <3> QED
      BY <3>1
  <2> QED
    BY <1>7, <2>2, <2>3 DEF Tables
<1>12. CASE ReportBatch
  <2>1. /\ writer.pc = "report" /\ writer'.pc # "report"
        /\ writer'.reportedUntil = writer.flushUntil /\ writer'.err = writer.err
        /\ Written' = Written
    BY <1>1, <1>12, WriterTyped DEF ReportBatch, Writer, Written
  <2>2. writer.reportedUntil < writer.flushUntil
    BY <1>6, <2>1
  <2>3. Contract!Report
    BY <1>2, <1>3, <1>4, <1>5, <2>1, <2>2 DEF Contract!Report
  <2> QED
    BY <2>3 DEF ContractStep, Contract!ChunkNext
<1> QED
  BY <1>8, <1>9, <1>10, <1>11, <1>12 DEF WriterStep

LEMMA ContractMain ==
  ASSUME FlowInv, Main
  PROVE  ContractStep
<1>1. TypeInv /\ WriterInv /\ ClosingInv
  BY DEF FlowInv
<1>2. UNCHANGED <<stopping, writer, rows>> /\ Written' = Written
  BY DEF Main, MainSeesWriter, MainSeesError, MainJoins, MainChecks, Written
<1>3. main \in {"wait", "join", "check"}
  BY DEF Main, MainSeesWriter, MainSeesError, MainJoins, MainChecks
\* The call returns its error: at once, or after the writer has failed.
<1>4. ASSUME main' = "error", writer.pc = "done"
      PROVE  ContractStep
  <2>1. ChunkOutcome' = "error"
    BY <1>4 DEF ChunkOutcome
  <2>2. CASE writer.err
    <3>1. ChunkOutcome = "failing"
      BY <1>3, <1>4, <2>2 DEF ChunkOutcome, WriterFailed
    <3>2. Contract!ReturnError
      BY <1>2, <2>1, <3>1 DEF Contract!ReturnError
    <3> QED
      BY <3>2 DEF ContractStep, Contract!ChunkNext
  <2>3. CASE ~writer.err
    <3>1. ChunkOutcome = "running"
      BY <1>3, <2>3 DEF ChunkOutcome, WriterFailed
    <3>2. Written' = Written \cup {}
      BY <1>2
    <3>3. \E S \in SUBSET (writer.reportedUntil + 1 .. To) : Written' = Written \cup S
      BY <3>2
    <3>4. Contract!Fail
      BY <1>2, <1>4, <2>1, <3>1, <3>3 DEF Contract!Fail
    <3> QED
      BY <3>4 DEF ContractStep, Contract!ChunkNext
  <2> QED
    BY <2>2, <2>3
<1>5. ASSUME main' \in {"wait", "join", "check"}
      PROVE  ContractStep
  <2>1. SeenUnchanged
    BY <1>2, <1>3, <1>5 DEF SeenUnchanged, WritePos, ChunkOutcome, WriterFailed
  <2> QED
    BY <2>1, SeenMeansStep
<1>6. CASE MainChecks /\ errCh # 1
  <2>1. main = "check" /\ main' = "nil" /\ errCh = 0
    BY <1>1, <1>6 DEF MainChecks, Return, TypeInv, TypeOK
  <2>2. writer.pc = "done" /\ ~writer.err
    BY <1>1, <2>1 DEF ClosingInv
  <2>3. ChunkOutcome = "running" /\ ChunkOutcome' = "nil"
    BY <2>1, <2>2 DEF ChunkOutcome, WriterFailed
  <2>4. writer.reportedUntil = To \/ stopping
    BY <2>1, CheckedWritten DEF FlowInv
  <2>5. Contract!ReturnNil
    BY <1>2, <2>2, <2>3, <2>4 DEF Contract!ReturnNil
  <2> QED
    BY <2>5 DEF ContractStep, Contract!ChunkNext
<1>7. CASE MainChecks /\ errCh = 1
  BY <1>1, <1>4, <1>7 DEF MainChecks, Return, ClosingInv
<1>8. CASE MainSeesWriter
  BY <1>4, <1>5, <1>8 DEF MainSeesWriter, Return
<1>9. CASE MainSeesError
  BY <1>5, <1>9 DEF MainSeesError
<1>10. CASE MainJoins
  BY <1>4, <1>10 DEF MainJoins, Return
<1> QED
  BY <1>6, <1>7, <1>8, <1>9, <1>10 DEF Main

LEMMA ContractSteps == FlowInv /\ [Next]_vars => ContractStep
<1> SUFFICES ASSUME FlowInv, [Next]_vars PROVE ContractStep
  OBVIOUS
<1>1. CASE WriterStep
  BY <1>1, ContractWriter
<1>2. CASE Main
  BY <1>2, ContractMain
<1>3. CASE CancelJob
  <2>1. stopping' = TRUE /\ Written' = Written /\ UNCHANGED <<writer, main>>
    BY <1>3 DEF CancelJob, Written
  <2>2. Contract!Stop
    BY <2>1 DEF Contract!Stop, ChunkOutcome, WriterFailed
  <2> QED
    BY <2>2 DEF ContractStep, Contract!ChunkNext
<1>4. CASE \/ Dispatcher \/ BatcherStep \/ UNCHANGED vars
           \/ \E f \in Fetchers : Fetcher(f)
           \/ \E h \in Hydrators : Hydrator(h)
  <2>1. UNCHANGED <<stopping, writer, rows, main>>
    BY <1>4 DEF vars, Dispatcher, Dispatch, DispatcherStops, Fetcher, FetcherTakes,
       FetcherMoves, FetcherSends, FetcherFails, BatcherStep, BatcherTakes,
       BatcherFlushes, BatcherEnds, Hydrator, HydratorTakes, HydratorMoves,
       HydratorSends, HydratorFails
  <2>2. SeenUnchanged
    BY <2>1 DEF SeenUnchanged, WritePos, Written, ChunkOutcome, WriterFailed
  <2> QED
    BY <2>2, SeenMeansStep
<1> QED
  BY <1>1, <1>2, <1>3, <1>4 DEF Next, Rest

\* The pipeline does nothing but what the contract of a chunk allows: rows get
\* complete stretch by stretch, each reported before the next is written, and
\* nil means whole or cancelled; for every chunk, pool and batch size.
THEOREM PipelineImplementsChunk == Spec => ImplementsChunk
<1>1. Init => Contract!ChunkInit
  BY TypeInit, ContractInit
<1>2. FlowInv /\ [Next]_vars => [Contract!ChunkNext]_(Contract!chunkVars)
  BY ContractSteps DEF ContractStep
<1> QED
  BY <1>1, <1>2, Flow, PTL DEF Spec, ImplementsChunk, Contract!ChunkSpec

-----------------------------------------------------------------------------
(***************************************************************************)
(* The size of the hydration batches.  The batcher keeps the number of     *)
(* digests of its batch, and gives the batch away before it grows too big. *)
(***************************************************************************)
AskedFor(b) == FoldFunction(+, 0, [i \in DOMAIN b |-> Digests[b[i]]])

LEMMA AskedIsSum ==
  ASSUME NEW b
  PROVE  AskedFor(b) = SumOver([i \in DOMAIN b |-> Digests[b[i]]], DOMAIN b)
BY DEF AskedFor, FoldFunction, FoldFunctionOnSet, MapThenFoldSet, SumOver, IsSum

DigestsOf(b) == UNION {{i} \X (1 .. Digests[b[i]]) : i \in DOMAIN b}

LEMMA AskedCounts ==
  ASSUME NEW b \in Seq(Chunk)
  PROVE  AskedFor(b) = Cardinality(DigestsOf(b)) /\ IsFiniteSet(DigestsOf(b))
<1> DEFINE f == [i \in DOMAIN b |-> Digests[b[i]]]
           D == DOMAIN b
<1>1. D = 1 .. Len(b) /\ Len(b) \in Nat /\ \A i \in D : b[i] \in Chunk
  BY LenProperties, ElementOfSeq
<1>2. IsFiniteSet(D)
  BY <1>1, FS_Interval
<1>3. \A i \in D : f[i] = Digests[b[i]] /\ f[i] \in Nat
  BY <1>1, SizesTyped
<1>4. AskedFor(b) = SumOver(f, D)
  BY AskedIsSum
<1> HIDE DEF f, D
<1>5. SumOver(f, D) = Cardinality(Units(f, D)) /\ IsFiniteSet(Units(f, D))
  BY <1>2, <1>3, SumCounts
<1>6. Units(f, D) = DigestsOf(b)
  BY <1>3 DEF Units, DigestsOf, D
<1> QED
  BY <1>4, <1>5, <1>6

LEMMA AskedNone == AskedFor(<<>>) = 0
<1>1. DigestsOf(<<>>) = {}
  BY DEF DigestsOf
<1>2. AskedFor(<<>>) = Cardinality(DigestsOf(<<>>))
  BY AskedCounts, EmptySeq
<1> QED
  BY <1>1, <1>2, FS_EmptySet

LEMMA AskedMore ==
  ASSUME NEW b \in Seq(Chunk), NEW c \in Chunk
  PROVE  AskedFor(Append(b, c)) = AskedFor(b) + Digests[c]
<1> DEFINE n == Len(b)
           a == Append(b, c)
           own == {n + 1} \X (1 .. Digests[c])
<1>1. /\ n \in Nat /\ a \in Seq(Chunk) /\ Len(a) = n + 1 /\ a[n + 1] = c
      /\ DOMAIN b = 1 .. n /\ DOMAIN a = 1 .. n + 1
      /\ \A i \in 1 .. n : a[i] = b[i]
  BY AppendProperties, LenProperties
<1> HIDE DEF a, n
<1>2. Digests[c] \in Nat
  BY SizesTyped
<1>3. 1 .. n + 1 = (1 .. n) \cup {n + 1} /\ n + 1 \notin 1 .. n
  BY <1>1
<1>4. DigestsOf(a) = DigestsOf(b) \cup own
  BY <1>1, <1>3 DEF DigestsOf
<1>5. DigestsOf(b) \cap own = {}
  BY <1>1, <1>3 DEF DigestsOf
<1>6. /\ IsFiniteSet(own) /\ Cardinality(own) = Digests[c]
  <2>1. IsFiniteSet({n + 1}) /\ Cardinality({n + 1}) = 1
    BY FS_Singleton
  <2>2. IsFiniteSet(1 .. Digests[c]) /\ Cardinality(1 .. Digests[c]) = Digests[c]
    BY <1>2, UpTo
  <2>3. Cardinality(own) = 1 * Digests[c] /\ IsFiniteSet(own)
    BY <2>1, <2>2, FS_Product
  <2> QED
    BY <1>2, <2>3
<1>7. /\ AskedFor(b) = Cardinality(DigestsOf(b)) /\ IsFiniteSet(DigestsOf(b))
      /\ AskedFor(a) = Cardinality(DigestsOf(a))
  BY <1>1, AskedCounts
<1>8. Cardinality(DigestsOf(b)) \in Nat /\ Cardinality({}) = 0
  BY <1>7, FS_CardinalityType, FS_EmptySet
<1> HIDE DEF own
<1>9. Cardinality(DigestsOf(b) \cup own)
        = Cardinality(DigestsOf(b)) + Cardinality(own) - Cardinality({})
  BY <1>5, <1>6, <1>7, FS_Union
<1>10. AskedFor(a) = AskedFor(b) + Digests[c]
  BY <1>2, <1>4, <1>6, <1>7, <1>8, <1>9
<1> QED
  BY <1>10 DEF a
Small(b) == Len(b) = 1 \/ AskedFor(b) <= HydrationBatchSize

AllSmall(ch) == \A i \in DOMAIN ch : Small(ch[i])

FitInv ==
  /\ batcher.digests = AskedFor(batcher.batch)
  /\ Small(batcher.batch)
  /\ AllSmall(hydrationCh)

\* A batch that grows stays small, if it was empty or the checkpoint fits in.
LEMMA GrownSmall ==
  ASSUME NEW b \in Seq(Chunk), NEW d, d = AskedFor(b), NEW c \in Chunk,
         b = <<>> \/ ~(d + Digests[c] > HydrationBatchSize)
  PROVE  /\ Grown(b, d, c).digests = AskedFor(Grown(b, d, c).batch)
         /\ Small(Grown(b, d, c).batch)
<1> DEFINE g == Grown(b, d, c)
<1>1. g.batch = Append(b, c) /\ g.digests = d + Digests[c]
  BY DEF Grown
<1> HIDE DEF g
<1>2. AskedFor(Append(b, c)) = AskedFor(b) + Digests[c]
  BY AskedMore
<1>3. Small(Append(b, c))
  <2>1. CASE b = <<>>
    <3>1. Len(Append(b, c)) = 1
      BY <2>1
    <3> QED
      BY <3>1 DEF Small
  <2>2. CASE ~(d + Digests[c] > HydrationBatchSize)
    <3>1. AskedFor(b) \in Nat
      BY AskedCounts, FS_CardinalityType
    <3> QED
      BY <1>2, <2>2, <3>1, SizesTyped DEF Small
  <2> QED
    BY <2>1, <2>2
<1>4. g.digests = AskedFor(g.batch) /\ Small(g.batch)
  BY <1>1, <1>2, <1>3
<1> QED
  BY <1>4 DEF g

LEMMA FitInit == Init => FitInv
<1> SUFFICES ASSUME Init PROVE FitInv
  OBVIOUS
<1>1. batcher.digests = 0 /\ batcher.batch = <<>> /\ hydrationCh = <<>>
  BY DEF Init
<1>2. AskedFor(<<>>) = 0 /\ Small(<<>>) /\ AllSmall(<<>>)
  BY AskedNone, SizesTyped DEF Small, AllSmall
<1> QED
  BY <1>1, <1>2 DEF FitInv

LEMMA FitBatcher ==
  ASSUME TypeInv, FitInv, BatcherStep
  PROVE  FitInv'
<1>1. /\ batcher \in Batcher /\ batcher.batch \in Seq(Chunk) /\ BatcherOK
      /\ dataCh \in Seq(Chunk) /\ hydrationCh \in Seq(Seq(Chunk)) /\ BatchesOK(hydrationCh)
  BY DEF TypeInv, TypeOK, ShapeInv, Batcher
<1>2. /\ batcher.digests = AskedFor(batcher.batch) /\ Small(batcher.batch)
      /\ AllSmall(hydrationCh)
  BY DEF FitInv
<1>3. AskedFor(<<>>) = 0 /\ Small(<<>>)
  BY AskedNone, SizesTyped DEF Small
<1>4. CASE BatcherTakes
  <2> DEFINE c == Head(dataCh)
  <2>1. c \in Chunk
    BY <1>1, <1>4, HeadTailProperties DEF BatcherTakes
  <2>2. UNCHANGED hydrationCh
    BY <1>4 DEF BatcherTakes
  <2>3. CASE TooBig(c)
    <3>1. batcher' = [batcher EXCEPT !.pc = "before", !.task = c]
      BY <1>4, <2>3 DEF BatcherTakes
    <3>2. batcher'.batch = batcher.batch /\ batcher'.digests = batcher.digests
      BY <1>1, <3>1 DEF Batcher
    <3> QED
      BY <1>2, <2>2, <3>2 DEF FitInv
  <2>4. CASE ~TooBig(c)
    <3>1. batcher' = Grown(batcher.batch, batcher.digests, c)
      BY <1>4, <2>4 DEF BatcherTakes
    <3>2. batcher.batch = <<>> \/ ~(batcher.digests + Digests[c] > HydrationBatchSize)
      BY <2>4 DEF TooBig
    <3> HIDE DEF c
    <3>3. batcher'.digests = AskedFor(batcher'.batch) /\ Small(batcher'.batch)
      BY <1>1, <1>2, <2>1, <3>1, <3>2, GrownSmall
    <3> QED
      BY <1>2, <2>2, <3>3 DEF FitInv
  <2> QED
    BY <2>3, <2>4
<1>5. CASE BatcherFlushes
  <2>1. AllSmall(hydrationCh')
    <3> DEFINE ch == hydrationCh
               b == batcher.batch
               all == Append(ch, b)
    <3>1. ch \in Seq(Seq(Chunk)) /\ b \in Seq(Chunk) /\ AllSmall(ch) /\ Small(b)
      BY <1>1, <1>2
    <3>2. hydrationCh' = all
      BY <1>5 DEF BatcherFlushes
    <3> HIDE DEF ch, b
    <3>3. /\ DOMAIN all = 1 .. Len(ch) + 1 /\ DOMAIN ch = 1 .. Len(ch) /\ Len(ch) \in Nat
          /\ \A i \in 1 .. Len(ch) : all[i] = ch[i]
          /\ all[Len(ch) + 1] = b
      BY <3>1, AppendProperties, LenProperties
    <3> HIDE DEF all
    <3>4. \A i \in DOMAIN all : i \in DOMAIN ch \/ i = Len(ch) + 1
      BY <3>3
    <3> QED
      BY <3>1, <3>2, <3>3, <3>4 DEF AllSmall
  <2>2. CASE batcher.pc = "before"
    <3>1. batcher' = Grown(<<>>, 0, batcher.task) /\ batcher.task \in Chunk
      BY <1>1, <1>5, <2>2 DEF BatcherFlushes, BatcherOK
    <3>2. <<>> \in Seq(Chunk)
      BY EmptySeq
    <3>3. batcher'.digests = AskedFor(batcher'.batch) /\ Small(batcher'.batch)
      BY <1>3, <3>1, <3>2, GrownSmall
    <3> QED
      BY <2>1, <3>3 DEF FitInv
  <2>3. CASE batcher.pc # "before"
    <3>1. batcher'.batch = <<>> /\ batcher'.digests = 0
      BY <1>1, <1>5, <2>3 DEF BatcherFlushes, Batcher
    <3> QED
      BY <1>3, <2>1, <3>1 DEF FitInv
  <2> QED
    BY <2>2, <2>3
<1>6. CASE BatcherEnds
  <2>1. batcher'.batch = batcher.batch /\ batcher'.digests = batcher.digests
    BY <1>1, <1>6 DEF BatcherEnds, Batcher
  <2>2. UNCHANGED hydrationCh
    BY <1>6 DEF BatcherEnds
  <2> QED
    BY <1>2, <2>1, <2>2 DEF FitInv
<1> QED
  BY <1>4, <1>5, <1>6 DEF BatcherStep

LEMMA FitHydrator ==
  ASSUME TypeInv, FitInv, NEW h \in Hydrators, Hydrator(h)
  PROVE  FitInv'
<1>1. UNCHANGED batcher
  BY DEF Hydrator, HydratorTakes, HydratorMoves, HydratorSends, HydratorFails
<1>2. CASE UNCHANGED hydrationCh
  BY <1>1, <1>2 DEF FitInv
<1>3. CASE HydratorTakes(h)
  <2> DEFINE ch == hydrationCh
             rest == Tail(ch)
  <2>1. ch \in Seq(Seq(Chunk)) /\ ch # <<>> /\ AllSmall(ch) /\ hydrationCh' = rest
    BY <1>3 DEF HydratorTakes, TypeInv, TypeOK, FitInv
  <2> HIDE DEF ch
  <2>2. /\ DOMAIN rest = 1 .. Len(ch) - 1 /\ DOMAIN ch = 1 .. Len(ch) /\ Len(ch) \in Nat
        /\ \A i \in 1 .. Len(ch) - 1 : rest[i] = ch[i + 1]
    BY <2>1, HeadTailProperties, LenProperties, EmptySeq
  <2> HIDE DEF rest
  <2>3. \A i \in DOMAIN rest : i + 1 \in DOMAIN ch
    BY <2>2
  <2>4. AllSmall(rest)
    BY <2>1, <2>2, <2>3 DEF AllSmall
  <2> QED
    BY <1>1, <2>1, <2>4 DEF FitInv
<1> QED
  BY <1>2, <1>3 DEF Hydrator, HydratorMoves, HydratorSends, HydratorFails

LEMMA FitSteps == TypeInv /\ FitInv /\ [Next]_vars => FitInv'
<1> SUFFICES ASSUME TypeInv, FitInv, [Next]_vars PROVE FitInv'
  OBVIOUS
<1>1. CASE BatcherStep
  BY <1>1, FitBatcher
<1>2. CASE \E h \in Hydrators : Hydrator(h)
  BY <1>2, FitHydrator
<1>3. CASE UNCHANGED <<batcher, hydrationCh>>
  BY <1>3 DEF FitInv
<1>4. CASE Dispatcher
  BY <1>3, <1>4 DEF Dispatcher, Dispatch, DispatcherStops
<1>5. CASE \E f \in Fetchers : Fetcher(f)
  BY <1>3, <1>5 DEF Fetcher, FetcherTakes, FetcherMoves, FetcherSends, FetcherFails
<1>6. CASE WriterStep
  BY <1>3, <1>6 DEF WriterStep, WriterTakes, WriterMoves, Insert,
     InsertFails, ReportBatch
<1>7. CASE Main \/ CancelJob
  BY <1>3, <1>7 DEF Main, MainSeesWriter, MainSeesError, MainJoins, MainChecks, CancelJob
<1> QED
  BY <1>1, <1>2, <1>3, <1>4, <1>5, <1>6, <1>7 DEF Next, Rest, vars

\* A batch to hydrate asks for no more digests than one call takes, unless it is
\* a single checkpoint, and none is empty.
THEOREM BatchesInSize == Spec => []BatchesFit
<1>1. Spec => []FitInv
  BY FitInit, FitSteps, Types, PTL DEF Spec
<1>2. TypeInv /\ FitInv => BatchesFit
  <2> SUFFICES ASSUME TypeInv, FitInv, NEW b \in Range(hydrationCh)
               PROVE  b # <<>> /\ (Len(b) = 1 \/ AskedFor(b) <= HydrationBatchSize)
    BY DEF BatchesFit, AskedFor
  <2>1. PICK i \in DOMAIN hydrationCh : b = hydrationCh[i]
    BY DEF Range
  <2> QED
    BY <2>1 DEF TypeInv, ShapeInv, BatchesOK, FitInv, AllSmall, Small
<1> QED
  BY <1>1, <1>2, Types, PTL

=============================================================================
