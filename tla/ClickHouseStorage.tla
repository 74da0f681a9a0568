------------------------- MODULE ClickHouseStorage -------------------------
(***************************************************************************)
(* One flush of the writer on its way into ClickHouse: the three inserts of *)
(* writeToClickHouse, each cut into row batches, each batch sent until it is *)
(* acknowledged or its retries are used up.  What CheckpointPipeline takes  *)
(* as one step per table (Insert, InsertFails) is many sends here, and a    *)
(* send that fails may have stored its rows all the same.                   *)
(*                                                                         *)
(* The run that makes the flush can be cancelled (the sleeps between the    *)
(* attempts do not notice) and the process can die; as long as the position *)
(* behind the flush is not persisted, the next run makes it again.          *)
(***************************************************************************)
EXTENDS Naturals, Sequences, FiniteSets

CONSTANTS
  RowCount,          \* the rows of the flush for each table, in insert order
  InsertBatchSize,   \* insertBatchSize (5000)
  MaxRetries,        \* maxRetries (10): a batch is sent at most once more
  MaxRuns,           \* bound: runs that make the flush
  MaxCutOff          \* bound: failed sends that stored something

ASSUME StorageAssumption ==
  /\ RowCount \in Seq(Nat)
  /\ InsertBatchSize \in Nat \ {0}
  /\ MaxRetries \in Nat /\ MaxRuns \in Nat \ {0} /\ MaxCutOff \in Nat

VARIABLES
  writer,     \* the call of writeToClickHouse: its table, row and attempt
  copies,     \* how often each row is in its table
  stopping,   \* the context of the run is cancelled
  run,        \* the runs so far that came to this flush
  cutOff      \* the failed sends so far that stored something

vars == <<writer, copies, stopping, run, cutOff>>

TableNo == 1 .. Len(RowCount)
RowsOf(t) == 1 .. RowCount[t]

\* pc: in the call, or returned nil or an error, or gone with its process.
\* at: the first row of the batch to send.  attempt: failed sends of the batch.
Writer == [pc : {"insert", "nil", "error", "dead"}, table : Nat, at : Nat,
           attempt : Nat]

Start == [pc |-> "insert", table |-> 1, at |-> 1, attempt |-> 0]

Init ==
  /\ writer = Start
  /\ copies = [t \in TableNo |-> [r \in RowsOf(t) |-> 0]]
  /\ stopping = FALSE /\ run = 1 /\ cutOff = 0

-----------------------------------------------------------------------------
Inserting == writer.pc = "insert" /\ writer.table \in TableNo

\* The loop of an insert over the rows of its table.
Sending == Inserting /\ writer.at <= RowCount[writer.table]

Batch == {r \in RowsOf(writer.table) :
            writer.at <= r /\ r < writer.at + InsertBatchSize}

\* Rows that arrive again are there again, until the server merges them.
Store(S) ==
  copies' = [copies EXCEPT ![writer.table] =
               [r \in DOMAIN @ |-> IF r \in S THEN @[r] + 1 ELSE @[r]]]

\* Mistake: the next batch starts one row late.
NextBatchLate == [writer EXCEPT !.at = @ + InsertBatchSize + 1, !.attempt = 0]

NextBatch == [writer EXCEPT !.at = @ + InsertBatchSize, !.attempt = 0]

SendAcknowledged ==
  /\ Sending /\ ~stopping
  /\ Store(Batch)
  /\ writer' = NextBatch
  /\ UNCHANGED <<stopping, run, cutOff>>

\* Mistake: the retry wraps the insert of the table.
FailedTable ==
  IF writer.attempt < MaxRetries THEN [writer EXCEPT !.attempt = @ + 1, !.at = 1]
                                 ELSE [writer EXCEPT !.pc = "error"]

\* Mistake: the failure of the last attempt is not returned.
FailedSwallowed ==
  IF writer.attempt < MaxRetries THEN [writer EXCEPT !.attempt = @ + 1]
                                 ELSE NextBatch

\* Mistake: <= for <, one attempt too many.
FailedOnceMore ==
  IF writer.attempt <= MaxRetries THEN [writer EXCEPT !.attempt = @ + 1]
                                  ELSE [writer EXCEPT !.pc = "error"]

\* Mistake: the attempts are not counted.
FailedForever == writer

\* withRetry: the batch is sent again, from its first row, MaxRetries times;
\* then the insert and writeToClickHouse return the error.
Failed ==
  IF writer.attempt < MaxRetries THEN [writer EXCEPT !.attempt = @ + 1]
                                 ELSE [writer EXCEPT !.pc = "error"]

\* The rows a send can store before it fails, or before the process dies: any
\* of them (the server splits a batch by partition), none once the context is
\* cancelled, as PrepareBatch refuses it.
CutOff(S) ==
  IF S = {}
  THEN UNCHANGED <<copies, cutOff>>
  ELSE /\ ~stopping /\ cutOff < MaxCutOff
       /\ Store(S)
       /\ cutOff' = cutOff + 1

SendFails ==
  /\ Sending
  /\ \E S \in SUBSET Batch : CutOff(S)
  /\ writer' = Failed
  /\ UNCHANGED <<stopping, run>>

\* The rows of a table are all sent, or there were none.
TableDone ==
  /\ Inserting /\ ~Sending
  /\ writer' = [writer EXCEPT !.table = @ + 1, !.at = 1, !.attempt = 0]
  /\ UNCHANGED <<copies, stopping, run, cutOff>>

WriteDone ==
  /\ writer.pc = "insert" /\ ~Inserting
  /\ writer' = [writer EXCEPT !.pc = "nil"]
  /\ UNCHANGED <<copies, stopping, run, cutOff>>

\* A signal.
Cancel ==
  /\ ~stopping
  /\ stopping' = TRUE
  /\ UNCHANGED <<writer, copies, run, cutOff>>

Crash ==
  /\ writer.pc = "insert"
  /\ \E S \in SUBSET (IF Sending THEN Batch ELSE {}) : CutOff(S)
  /\ writer' = [writer EXCEPT !.pc = "dead"]
  /\ UNCHANGED <<stopping, run>>

\* The position behind the flush was not persisted: the flush failed, or the
\* process ended or a call was lost before ReportBatch was applied.
WriteAgain ==
  /\ writer.pc # "insert" /\ run < MaxRuns
  /\ writer' = Start /\ stopping' = FALSE /\ run' = run + 1
  /\ UNCHANGED <<copies, cutOff>>

\* The tables are ReplacingMergeTrees sorted by what identifies a row: in the
\* background, at a time of its own, the server merges two copies into one.
Merge(t, r) ==
  /\ copies[t][r] > 1
  /\ copies' = [copies EXCEPT ![t][r] = @ - 1]
  /\ UNCHANGED <<writer, stopping, run, cutOff>>

WriteStep == SendAcknowledged \/ SendFails \/ TableDone \/ WriteDone

Next ==
  \/ WriteStep \/ Cancel \/ Crash \/ WriteAgain
  \/ \E t \in TableNo : \E r \in RowsOf(t) : Merge(t, r)

Spec == Init /\ [][Next]_vars

\* The goroutine of the writer runs, and each send returns.
FairSpec == Spec /\ WF_vars(WriteStep)

-----------------------------------------------------------------------------
(***************************************************************************)
(* Properties.                                                             *)
(***************************************************************************)

\* Every variable has its type; a batch fails at most MaxRetries times before
\* the last attempt.
TypeOK ==
  /\ writer \in Writer
  /\ writer.table \in 1 .. Len(RowCount) + 1
  /\ writer.at >= 1 /\ writer.attempt <= MaxRetries
  /\ DOMAIN copies = TableNo
  /\ \A t \in TableNo : copies[t] \in [RowsOf(t) -> Nat]
  /\ stopping \in BOOLEAN
  /\ run \in 1 .. MaxRuns /\ cutOff \in 0 .. MaxCutOff

\* The rows this run has had acknowledged.
Acknowledged(t, r) ==
  t < writer.table \/ (t = writer.table /\ r < writer.at)

\* Every second copy of a row is accounted for: by a run that made the flush
\* again or by a send that failed after it had stored something.  A retry by
\* itself duplicates nothing that was acknowledged, whichever batch, table or
\* run the failures hit.  (A query that does not ask for FINAL sees the copies
\* until they are merged.)
DuplicatesAccounted ==
  \A t \in TableNo : \A r \in RowsOf(t) :
    IF Acknowledged(t, r)
    THEN copies[t][r] <= run + cutOff
    ELSE copies[t][r] + 1 <= run + cutOff

\* writeToClickHouse keeps the contract of an insert, which is what
\* CheckpointPipeline lets it do: a table is left behind only with all its
\* rows in place, an error can leave any part, nothing goes away.
Stored == [t \in TableNo |-> {r \in RowsOf(t) : copies[t][r] > 0}]

Contract == INSTANCE InsertContract
  WITH Tables <- Len(RowCount), Rows <- [t \in TableNo |-> RowsOf(t)],
       at <- writer.table, stored <- Stored, ended <- writer.pc # "insert"

ImplementsInsert == Contract!ContractSpec

\* A write ends, also one that is cancelled in the middle: it is not told, but
\* its attempts run out.
WriteEnds == writer.pc = "insert" ~> writer.pc # "insert"
=============================================================================
