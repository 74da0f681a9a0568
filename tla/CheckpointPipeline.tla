------------------------- MODULE CheckpointPipeline -------------------------
(***************************************************************************)
(* processCheckpointRange of internal/worker/worker.go: the goroutines and *)
(* channels that process the checkpoints From .. To of one chunk.          *)
(*                                                                         *)
(*   dispatcher -> batchCh -> fetchers -> dataCh -> batcher                *)
(*              -> hydrationCh -> hydrators -> resultCh -> writer          *)
(*                                                                         *)
(* and main, which waits for the writer or for the first error.  A         *)
(* goroutine that fails pushes its error into errCh (capacity 1, dropped   *)
(* when full), then cancels the context of the pipeline, then returns.     *)
(* A channel is closed when the goroutines that send on it have returned;  *)
(* the two goroutines that wait for that and close add no state.           *)
(*                                                                         *)
(* Checkpoint data is its sequence number, with Digests for how many       *)
(* transactions each has.  Every call may fail, and every checkpoint the   *)
(* code validates may turn out invalid.                                    *)
(***************************************************************************)
EXTENDS Integers, Sequences, FiniteSets, Functions

CONSTANTS
  From, To,                 \* the chunk
  Fetchers, Hydrators,      \* the goroutines of the two pools
  FetchBatchSize,           \* checkpointFetchBatchSize (10)
  HydrationBatchSize,       \* transactionHydrationBatchSize, in digests
  WriteBatchSize,           \* checkpointWriteBatchSize (20)
  Digests                   \* [From .. To -> Nat]

Chunk == From .. To

ASSUME ChunkAssumption == From \in Nat /\ To \in Nat /\ From <= To
ASSUME PoolAssumption == /\ IsFiniteSet(Fetchers) /\ Fetchers # {}
                         /\ IsFiniteSet(Hydrators) /\ Hydrators # {}
ASSUME SizeAssumption == /\ FetchBatchSize \in Nat \ {0}
                         /\ HydrationBatchSize \in Nat \ {0}
                         /\ WriteBatchSize \in Nat \ {0}
ASSUME DataAssumption == Digests \in [Chunk -> Nat]

\* Capacities of the channels.
BatchCap     == Cardinality(Fetchers)
DataCap      == Cardinality(Fetchers) * FetchBatchSize
HydrationCap == Cardinality(Hydrators)
ResultCap    == Cardinality(Hydrators) * FetchBatchSize

Tables == {"checkpoints", "transactions", "transaction_objects"}

VARIABLES
  stopping,     \* the context of the job is cancelled
  cancelled,    \* cancel() of the pipeline was called
  dispatched,   \* the next checkpoint to dispatch; beyond To: batchCh is closed
  batchCh,      \* batches of checkpoints
  fetcher,      \* [Fetchers -> pc and the checkpoints of its batch still to send]
  dataCh,       \* fetched checkpoints
  batcher,      \* pc, the batch being built and its digests, the task in hand
  hydrationCh,  \* batches to hydrate
  hydrator,     \* [Hydrators -> pc and its checkpoints still to send]
  resultCh,     \* hydrated checkpoints
  writer,       \* pc, out-of-order results, buffer, positions
  rows,         \* [Tables -> checkpoints whose rows are in the table]
  errCh,        \* how many errors are in errCh: 0 or 1
  main          \* "wait", "join", "check", "nil", "error"

vars == <<stopping, cancelled, dispatched, batchCh, fetcher, dataCh, batcher,
          hydrationCh, hydrator, resultCh, writer, rows, errCh, main>>

Done == stopping \/ cancelled           \* pipelineCtx.Done() is ready

-----------------------------------------------------------------------------
(***************************************************************************)
(* Program counters.                                                       *)
(*   fetcher, hydrator   recv -> work -> push -> recv, and fail -> cancel  *)
(*   batcher             recv; before, after, final: in flush()            *)
(*   writer              select; a table: inserting into it; report        *)
(***************************************************************************)
PoolPC    == {"recv", "work", "push", "fail", "cancel", "done"}
BatcherPC == {"recv", "before", "after", "final", "done"}
WriterPC  == Tables \cup {"select", "report", "done"}

Goroutine == [pc : PoolPC, items : Seq(Chunk)]
Batcher   == [pc : BatcherPC, batch : Seq(Chunk), digests : Nat,
              task : Chunk \cup {From - 1}]
Writer    == [pc : WriterPC, pending : SUBSET Chunk, buffer : SUBSET Chunk,
              flushUntil : Int, reportedUntil : Int,
              closing : BOOLEAN, err : BOOLEAN]

Ready == [pc |-> "recv", items |-> <<>>]

Init ==
  /\ stopping = FALSE /\ cancelled = FALSE
  /\ dispatched = From
  /\ batchCh = <<>> /\ dataCh = <<>> /\ hydrationCh = <<>> /\ resultCh = <<>>
  /\ fetcher = [f \in Fetchers |-> Ready]
  /\ batcher = [pc |-> "recv", batch |-> <<>>, digests |-> 0, task |-> From - 1]
  /\ hydrator = [h \in Hydrators |-> Ready]
  /\ writer = [pc |-> "select", pending |-> {}, buffer |-> {},
               flushUntil |-> From - 1, reportedUntil |-> From - 1,
               closing |-> FALSE, err |-> FALSE]
  /\ rows = [t \in Tables |-> {}]
  /\ errCh = 0
  /\ main = "wait"

-----------------------------------------------------------------------------
\* The dispatcher.

\* Mistake: the last batch is not cut at the end of the chunk.
LastOfBatchUncut == dispatched + FetchBatchSize - 1

LastOfBatch ==
  IF dispatched + FetchBatchSize - 1 > To THEN To
                                          ELSE dispatched + FetchBatchSize - 1

Dispatch ==
  /\ dispatched <= To
  /\ Len(batchCh) < BatchCap
  /\ batchCh' = Append(batchCh, [k \in 1 .. LastOfBatch - dispatched + 1 |->
                                   dispatched + k - 1])
  /\ dispatched' = LastOfBatch + 1
  /\ UNCHANGED <<stopping, cancelled, fetcher, dataCh, batcher, hydrationCh,
                 hydrator, resultCh, writer, rows, errCh, main>>

\* Mistake: the dispatcher watches the context of the job, not its own.
DispatcherStopsWithJob ==
  /\ dispatched <= To
  /\ stopping
  /\ dispatched' = To + 1
  /\ UNCHANGED <<stopping, cancelled, batchCh, fetcher, dataCh, batcher,
                 hydrationCh, hydrator, resultCh, writer, rows, errCh, main>>

DispatcherStops ==
  /\ dispatched <= To
  /\ Done
  /\ dispatched' = To + 1
  /\ UNCHANGED <<stopping, cancelled, batchCh, fetcher, dataCh, batcher,
                 hydrationCh, hydrator, resultCh, writer, rows, errCh, main>>

-----------------------------------------------------------------------------
(***************************************************************************)
(* The two pools, fetchers and hydrators, have the same shape: take a task *)
(* from the channel before, work on it, send its checkpoints one by one on *)
(* the channel after.                                                      *)
(***************************************************************************)
Works(g, items) == [g EXCEPT !.pc = "work", !.items = items]

\* The first checkpoint in hand is sent; after the last one, back to recv.
Sent(g) == [g EXCEPT !.pc = IF Len(g.items) = 1 THEN "recv" ELSE "push",
                     !.items = Tail(@)]

\* fail: the error goes first, the cancellation after it.
PushError == errCh' = 1 /\ UNCHANGED cancelled
CancelPipeline == cancelled' = TRUE /\ UNCHANGED errCh

FetcherTakes(f) ==
  /\ fetcher[f].pc = "recv" /\ batchCh # <<>>
  /\ fetcher' = [fetcher EXCEPT ![f] = Works(@, Head(batchCh))]
  /\ batchCh' = Tail(batchCh)
  /\ UNCHANGED <<stopping, cancelled, dispatched, dataCh, batcher, hydrationCh,
                 hydrator, resultCh, writer, rows, errCh, main>>

\* A fetcher moves on by itself: the batch arrived; or the call failed or a
\* checkpoint is missing from its result; or there is nothing more to do.
FetcherMoves(f) ==
  /\ \/ /\ fetcher[f].pc = "work"
        /\ fetcher' = [fetcher EXCEPT ![f].pc = "push"]
     \/ /\ fetcher[f].pc \in {"work", "push"}
        /\ fetcher' = [fetcher EXCEPT ![f].pc = "fail"]
     \/ /\ fetcher[f].pc = "push" /\ Done
        /\ fetcher' = [fetcher EXCEPT ![f].pc = "done"]
     \/ /\ fetcher[f].pc = "recv" /\ batchCh = <<>> /\ dispatched > To
        /\ fetcher' = [fetcher EXCEPT ![f].pc = "done"]
  /\ UNCHANGED <<stopping, cancelled, dispatched, batchCh, dataCh, batcher,
                 hydrationCh, hydrator, resultCh, writer, rows, errCh, main>>

FetcherSends(f) ==
  /\ fetcher[f].pc = "push"
  /\ Len(dataCh) < DataCap
  /\ dataCh' = Append(dataCh, Head(fetcher[f].items))
  /\ fetcher' = [fetcher EXCEPT ![f] = Sent(@)]
  /\ UNCHANGED <<stopping, cancelled, dispatched, batchCh, batcher, hydrationCh,
                 hydrator, resultCh, writer, rows, errCh, main>>

\* Mistake: fail cancels the pipeline before it pushes the error.
FetcherFailsCancelFirst(f) ==
  /\ \/ /\ fetcher[f].pc = "fail" /\ CancelPipeline
        /\ fetcher' = [fetcher EXCEPT ![f].pc = "cancel"]
     \/ /\ fetcher[f].pc = "cancel" /\ PushError
        /\ fetcher' = [fetcher EXCEPT ![f].pc = "done"]
  /\ UNCHANGED <<stopping, dispatched, batchCh, dataCh, batcher, hydrationCh,
                 hydrator, resultCh, writer, rows, main>>

FetcherFails(f) ==
  /\ \/ /\ fetcher[f].pc = "fail" /\ PushError
        /\ fetcher' = [fetcher EXCEPT ![f].pc = "cancel"]
     \/ /\ fetcher[f].pc = "cancel" /\ CancelPipeline
        /\ fetcher' = [fetcher EXCEPT ![f].pc = "done"]
  /\ UNCHANGED <<stopping, dispatched, batchCh, dataCh, batcher, hydrationCh,
                 hydrator, resultCh, writer, rows, main>>

FetchersDone == \A f \in Fetchers : fetcher[f].pc = "done"

-----------------------------------------------------------------------------
\* The batcher groups checkpoints by their number of digests.

\* The batch b with a checkpoint appended; flushed next when it is full.
Grown(b, digests, c) ==
  [pc |-> IF digests + Digests[c] >= HydrationBatchSize THEN "after" ELSE "recv",
   batch |-> Append(b, c), digests |-> digests + Digests[c], task |-> From - 1]

\* Mistake: the digests of the checkpoint in hand are not counted.
TooBigAlready(c) ==
  batcher.batch # <<>> /\ batcher.digests > HydrationBatchSize

TooBig(c) ==
  batcher.batch # <<>> /\ batcher.digests + Digests[c] > HydrationBatchSize

BatcherTakes ==
  /\ batcher.pc = "recv" /\ dataCh # <<>>
  /\ LET c == Head(dataCh) IN
       batcher' = IF TooBig(c) THEN [batcher EXCEPT !.pc = "before", !.task = c]
                               ELSE Grown(batcher.batch, batcher.digests, c)
  /\ dataCh' = Tail(dataCh)
  /\ UNCHANGED <<stopping, cancelled, dispatched, batchCh, fetcher, hydrationCh,
                 hydrator, resultCh, writer, rows, errCh, main>>

BatcherFlushes ==
  /\ batcher.pc \in {"before", "after", "final"}
  /\ Len(hydrationCh) < HydrationCap
  /\ hydrationCh' = Append(hydrationCh, batcher.batch)
  /\ batcher' =
       IF batcher.pc = "before" THEN Grown(<<>>, 0, batcher.task)
       ELSE [batcher EXCEPT !.pc = IF @ = "final" THEN "done" ELSE "recv",
                            !.batch = <<>>, !.digests = 0]
  /\ UNCHANGED <<stopping, cancelled, dispatched, batchCh, fetcher, dataCh,
                 hydrator, resultCh, writer, rows, errCh, main>>

\* Mistake: no flush after the last checkpoint.
BatcherEndsUnflushed ==
  /\ \/ batcher.pc = "recv" /\ dataCh = <<>> /\ FetchersDone
     \/ batcher.pc \in {"before", "after", "final"} /\ Done
  /\ batcher' = [batcher EXCEPT !.pc = "done", !.batch = <<>>]
  /\ UNCHANGED <<stopping, cancelled, dispatched, batchCh, fetcher, dataCh,
                 hydrationCh, hydrator, resultCh, writer, rows, errCh, main>>

\* No more data: flush what is left.  Or a flush that finds the context done.
BatcherEnds ==
  /\ \/ /\ batcher.pc = "recv" /\ dataCh = <<>> /\ FetchersDone
        /\ batcher' = [batcher EXCEPT !.pc = IF batcher.batch = <<>> THEN "done"
                                                                     ELSE "final"]
     \/ /\ batcher.pc \in {"before", "after", "final"} /\ Done
        /\ batcher' = [batcher EXCEPT !.pc = "done"]
  /\ UNCHANGED <<stopping, cancelled, dispatched, batchCh, fetcher, dataCh,
                 hydrationCh, hydrator, resultCh, writer, rows, errCh, main>>

-----------------------------------------------------------------------------
\* The hydrators.

HydratorTakes(h) ==
  /\ hydrator[h].pc = "recv" /\ hydrationCh # <<>>
  /\ hydrator' = [hydrator EXCEPT ![h] = Works(@, Head(hydrationCh))]
  /\ hydrationCh' = Tail(hydrationCh)
  /\ UNCHANGED <<stopping, cancelled, dispatched, batchCh, fetcher, dataCh,
                 batcher, resultCh, writer, rows, errCh, main>>

HydratorMoves(h) ==
  /\ \/ /\ hydrator[h].pc = "work"
        /\ hydrator' = [hydrator EXCEPT ![h].pc = "push"]
     \/ /\ hydrator[h].pc = "work"
        /\ hydrator' = [hydrator EXCEPT ![h].pc = "fail"]
     \/ /\ hydrator[h].pc = "push" /\ Done
        /\ hydrator' = [hydrator EXCEPT ![h].pc = "done"]
     \/ /\ hydrator[h].pc = "recv" /\ hydrationCh = <<>> /\ batcher.pc = "done"
        /\ hydrator' = [hydrator EXCEPT ![h].pc = "done"]
  /\ UNCHANGED <<stopping, cancelled, dispatched, batchCh, fetcher, dataCh,
                 batcher, hydrationCh, resultCh, writer, rows, errCh, main>>

HydratorSends(h) ==
  /\ hydrator[h].pc = "push"
  /\ Len(resultCh) < ResultCap
  /\ resultCh' = Append(resultCh, Head(hydrator[h].items))
  /\ hydrator' = [hydrator EXCEPT ![h] = Sent(@)]
  /\ UNCHANGED <<stopping, cancelled, dispatched, batchCh, fetcher, dataCh,
                 batcher, hydrationCh, writer, rows, errCh, main>>

HydratorFails(h) ==
  /\ \/ /\ hydrator[h].pc = "fail" /\ PushError
        /\ hydrator' = [hydrator EXCEPT ![h].pc = "cancel"]
     \/ /\ hydrator[h].pc = "cancel" /\ CancelPipeline
        /\ hydrator' = [hydrator EXCEPT ![h].pc = "done"]
  /\ UNCHANGED <<stopping, dispatched, batchCh, fetcher, dataCh, batcher,
                 hydrationCh, resultCh, writer, rows, main>>

HydratorsDone == \A h \in Hydrators : hydrator[h].pc = "done"

-----------------------------------------------------------------------------
(***************************************************************************)
(* The writer: writeCheckpointStream.                                      *)
(***************************************************************************)

\* queueContiguous: the stretch of results that follows what is buffered.
Contiguous(pending) ==
  {n \in pending : /\ n > writer.flushUntil
                   /\ writer.flushUntil + 1 .. n \subseteq pending}

Queued(pending) ==
  LET stretch == Contiguous(pending)
      buffer  == writer.buffer \cup stretch
  IN  [writer EXCEPT
         !.pc = IF Cardinality(buffer) >= WriteBatchSize THEN "checkpoints"
                                                         ELSE "select",
         !.pending = pending \ stretch, !.buffer = buffer,
         !.flushUntil = @ + Cardinality(stretch)]

\* Each checkpoint of the stretch is validated against the one before it, and
\* may not fit; the first of a chunk has none before it.
WriterTakes ==
  /\ writer.pc = "select" /\ resultCh # <<>>
  /\ LET pending == writer.pending \cup {Head(resultCh)} IN
       \/ writer' = Queued(pending)
       \/ /\ Contiguous(pending) \ {From} # {}
          /\ writer' = [writer EXCEPT !.pc = "done", !.err = TRUE]
  /\ resultCh' = Tail(resultCh)
  /\ UNCHANGED <<stopping, cancelled, dispatched, batchCh, fetcher, dataCh,
                 batcher, hydrationCh, hydrator, rows, errCh, main>>

\* The other cases of its select: the context, the closed channel, the ticker.
WriterMoves ==
  /\ writer.pc = "select"
  /\ \/ /\ Done
        /\ writer' = [writer EXCEPT !.pc = "done", !.err = TRUE]
     \/ /\ resultCh = <<>> /\ HydratorsDone
        /\ writer' = [writer EXCEPT !.closing = TRUE,
                        !.pc = IF writer.buffer = {} THEN "done" ELSE "checkpoints"]
     \/ /\ writer.buffer # {}
        /\ writer' = [writer EXCEPT !.pc = "checkpoints"]
  /\ UNCHANGED <<stopping, cancelled, dispatched, batchCh, fetcher, dataCh,
                 batcher, hydrationCh, hydrator, resultCh, rows, errCh, main>>

\* Mistake: the objects go in before the transactions.
NextTableObjectsFirst(t) == CASE t = "checkpoints"         -> "transaction_objects"
                              [] t = "transaction_objects" -> "transactions"
                              [] t = "transactions"        -> "report"

\* Mistake: the third insert is forgotten.
NextTableForgetsObjects(t) == CASE t = "checkpoints"         -> "transactions"
                                [] t = "transactions"        -> "report"
                                [] t = "transaction_objects" -> "report"

\* writeToClickHouse inserts into the three tables in this order.
NextTable(t) == CASE t = "checkpoints"         -> "transactions"
                  [] t = "transactions"        -> "transaction_objects"
                  [] t = "transaction_objects" -> "report"

Insert ==
  /\ writer.pc \in Tables
  /\ ~Done
  /\ rows' = [rows EXCEPT ![writer.pc] = @ \cup writer.buffer]
  /\ writer' = [writer EXCEPT !.pc = NextTable(@)]
  /\ UNCHANGED <<stopping, cancelled, dispatched, batchCh, fetcher, dataCh,
                 batcher, hydrationCh, hydrator, resultCh, errCh, main>>

\* The last retry failed, or the context is done.  The rows of a part of the
\* buffer, or of all of it, may be in the table all the same.
InsertFails ==
  /\ writer.pc \in Tables
  /\ \E S \in SUBSET writer.buffer :
       rows' = [rows EXCEPT ![writer.pc] = @ \cup S]
  /\ writer' = [writer EXCEPT !.pc = "done", !.err = TRUE]
  /\ UNCHANGED <<stopping, cancelled, dispatched, batchCh, fetcher, dataCh,
                 batcher, hydrationCh, hydrator, resultCh, errCh, main>>

\* The orchestrator takes the report.  After the last flush the writer returns.
ReportBatch ==
  /\ writer.pc = "report"
  /\ writer' = [writer EXCEPT !.pc = IF writer.closing THEN "done" ELSE "select",
                              !.buffer = {}, !.reportedUntil = writer.flushUntil]
  /\ UNCHANGED <<stopping, cancelled, dispatched, batchCh, fetcher, dataCh,
                 batcher, hydrationCh, hydrator, resultCh, rows, errCh, main>>

-----------------------------------------------------------------------------
\* processCheckpointRange itself.  Its deferred cancel runs when it returns.

Return(outcome) == main' = outcome /\ cancelled' = TRUE

MainSeesWriter ==
  /\ main = "wait" /\ writer.pc = "done"
  /\ IF writer.err THEN Return("error") ELSE main' = "check" /\ UNCHANGED cancelled
  /\ UNCHANGED <<stopping, dispatched, batchCh, fetcher, dataCh, batcher,
                 hydrationCh, hydrator, resultCh, writer, rows, errCh>>

MainSeesError ==
  /\ main = "wait" /\ errCh = 1
  /\ main' = "join" /\ errCh' = 0
  /\ UNCHANGED <<stopping, cancelled, dispatched, batchCh, fetcher, dataCh,
                 batcher, hydrationCh, hydrator, resultCh, writer, rows>>

MainJoins ==
  /\ main = "join" /\ writer.pc = "done"
  /\ Return("error")
  /\ UNCHANGED <<stopping, dispatched, batchCh, fetcher, dataCh, batcher,
                 hydrationCh, hydrator, resultCh, writer, rows, errCh>>

MainChecks ==
  /\ main = "check"
  /\ Return(IF errCh = 1 THEN "error" ELSE "nil")
  /\ errCh' = 0
  /\ UNCHANGED <<stopping, dispatched, batchCh, fetcher, dataCh, batcher,
                 hydrationCh, hydrator, resultCh, writer, rows>>

\* The context of the job is cancelled from outside, at any time.
CancelJob ==
  /\ ~stopping
  /\ stopping' = TRUE
  /\ UNCHANGED <<cancelled, dispatched, batchCh, fetcher, dataCh, batcher,
                 hydrationCh, hydrator, resultCh, writer, rows, errCh, main>>

AllReturned ==
  /\ main \in {"nil", "error"}
  /\ dispatched > To /\ FetchersDone /\ batcher.pc = "done"
  /\ HydratorsDone /\ writer.pc = "done"

\* Only then may the system rest.
Rest == AllReturned /\ UNCHANGED vars

-----------------------------------------------------------------------------
Dispatcher  == Dispatch \/ DispatcherStops
Fetcher(f)  == \/ FetcherTakes(f) \/ FetcherMoves(f)
               \/ FetcherSends(f) \/ FetcherFails(f)
BatcherStep == BatcherTakes \/ BatcherFlushes \/ BatcherEnds
Hydrator(h) == \/ HydratorTakes(h) \/ HydratorMoves(h)
               \/ HydratorSends(h) \/ HydratorFails(h)
WriterStep  == \/ WriterTakes \/ WriterMoves \/ Insert \/ InsertFails \/ ReportBatch
Main        == MainSeesWriter \/ MainSeesError \/ MainJoins \/ MainChecks

Next ==
  \/ Dispatcher \/ BatcherStep \/ WriterStep \/ Main \/ CancelJob \/ Rest
  \/ \E f \in Fetchers : Fetcher(f)
  \/ \E h \in Hydrators : Hydrator(h)

Spec == Init /\ [][Next]_vars

\* Every goroutine that can run does: calls return, the ticker is no excuse.
Fairness ==
  /\ WF_vars(Dispatcher) /\ WF_vars(BatcherStep)
  /\ WF_vars(WriterStep) /\ WF_vars(Main)
  /\ \A f \in Fetchers : WF_vars(Fetcher(f))
  /\ \A h \in Hydrators : WF_vars(Hydrator(h))

FairSpec == Spec /\ Fairness

-----------------------------------------------------------------------------
(***************************************************************************)
(* Properties.                                                             *)
(***************************************************************************)

\* Every variable has its type, and the channels keep to their capacity.
TypeOK ==
  /\ stopping \in BOOLEAN /\ cancelled \in BOOLEAN
  /\ dispatched \in From .. To + 1
  /\ batchCh \in Seq(Seq(Chunk)) /\ Len(batchCh) <= BatchCap
  /\ fetcher \in [Fetchers -> Goroutine]
  /\ dataCh \in Seq(Chunk) /\ Len(dataCh) <= DataCap
  /\ batcher \in Batcher
  /\ hydrationCh \in Seq(Seq(Chunk)) /\ Len(hydrationCh) <= HydrationCap
  /\ hydrator \in [Hydrators -> Goroutine]
  /\ resultCh \in Seq(Chunk) /\ Len(resultCh) <= ResultCap
  /\ writer \in Writer
  /\ rows \in [Tables -> SUBSET Chunk]
  /\ errCh \in {0, 1}
  /\ main \in {"wait", "join", "check", "nil", "error"}

Written == {c \in Chunk : \A t \in Tables : c \in rows[t]}

\* A chunk that returns nil is written whole, unless its job was cancelled:
\* no error of any stage is lost between errCh, the cancellation, the closing
\* of the channels and the two ways out of the writer.
NilMeansWritten == main = "nil" => stopping \/ Chunk \subseteq Written

\* The checkpoints in each place of the pipeline, with how many are there.
InSeqs(seqs) == UNION {Range(s) : s \in seqs}

Places ==
  [undispatched |-> dispatched .. To,
   batchCh      |-> InSeqs(Range(batchCh)),
   dataCh       |-> Range(dataCh),
   batcher      |-> Range(batcher.batch) \cup
                      (IF batcher.pc = "before" THEN {batcher.task} ELSE {}),
   hydrationCh  |-> InSeqs(Range(hydrationCh)),
   resultCh     |-> Range(resultCh),
   pending      |-> writer.pending,
   queued       |-> From .. writer.flushUntil]

Holders == ({"place"} \X DOMAIN Places)
             \cup ({"fetcher"} \X Fetchers) \cup ({"hydrator"} \X Hydrators)

Holds(x) == CASE x[1] = "place"    -> Places[x[2]]
              [] x[1] = "fetcher"  -> Range(fetcher[x[2]].items)
              [] x[1] = "hydrator" -> Range(hydrator[x[2]].items)

\* Until something goes wrong every checkpoint of the chunk is in exactly one
\* place: none falls between two stages and none is processed twice.
NothingLost ==
  ~Done /\ ~writer.err =>
    \A c \in Chunk : Cardinality({x \in Holders : c \in Holds(x)}) = 1

\* A hydration batch asks for no more digests than one call takes, unless a
\* single checkpoint already does; and no batch is empty.
BatchesFit ==
  \A b \in Range(hydrationCh) :
    /\ b # <<>>
    /\ Len(b) = 1 \/ FoldFunction(+, 0, [i \in DOMAIN b |-> Digests[b[i]]])
                       <= HydrationBatchSize

\* Rows reach the tables in the order checkpoints, transactions, objects: what
\* a table holds the tables before it hold too, also after a failed insert.
TablesInOrder ==
  /\ rows["transaction_objects"] \subseteq rows["transactions"]
  /\ rows["transactions"] \subseteq rows["checkpoints"]

\* Whatever fails, and whenever, the call returns and leaves no goroutine.
EverythingReturns == <>[]AllReturned

\* Seen from outside, the pipeline does what the contract of a chunk allows.
WriterFailed == writer.pc = "done" /\ writer.err

ChunkOutcome ==
  CASE main \in {"nil", "error"} -> main
    [] main \notin {"nil", "error"} /\ WriterFailed -> "failing"
    [] OTHER -> "running"

Contract ==
  INSTANCE ChunkContract WITH
    written  <- Written,
    pos      <- IF writer.pc = "report" THEN writer.flushUntil
                                        ELSE writer.reportedUntil,
    reported <- writer.reportedUntil,
    outcome  <- ChunkOutcome

ImplementsChunk == Contract!ChunkSpec

=============================================================================
