------------------------------ MODULE Assembly ------------------------------
(***************************************************************************)
(* What becomes of the archive's answers in one chunk: the digests listed  *)
(* for each checkpoint, the transactions that come back for the digests of *)
(* a whole batch of checkpoints, their distribution over the checkpoints,  *)
(* and the count that the writer checks against the totals of the network. *)
(* CheckpointPipeline moves the results and Hydration makes the calls; here *)
(* they are looked into.                                                   *)
(*                                                                         *)
(* The archive may answer a batch in any order.  It may also leave out the *)
(* entry of a transaction, the summary with the total, or a transaction    *)
(* that was asked for: these answers are counted as lies.                  *)
(***************************************************************************)
EXTENDS Naturals, Sequences, SequencesExt

CONSTANTS
  To,                 \* the chunk is 1 .. To
  Txs,                \* the transactions of each checkpoint, in order
  HydrationBatchSize, \* transactionHydrationBatchSize (5)
  MaxUint32,          \* the largest total that can be stored
  Bases,              \* totals of the network before the chunk
  Alien,              \* a transaction that nobody asked for
  MaxLies             \* bound: wrong answers

Chunk == 1 .. To

ASSUME AssemblyAssumption ==
  /\ To \in Nat /\ Txs \in [Chunk -> Seq(UNION {Range(Txs[c]) : c \in Chunk})]
  /\ HydrationBatchSize \in Nat \ {0} /\ MaxUint32 \in Nat
  /\ Bases \subseteq Nat /\ MaxLies \in Nat
  /\ \A c \in Chunk : Alien \notin Range(Txs[c])

VARIABLES
  base,       \* the transactions of the network before the chunk
  data,       \* CheckpointData of each checkpoint fetched
  results,    \* CheckpointResult of each checkpoint hydrated: its rows
  pending,    \* the writer's map of results that came early
  flushUntil, \* the writer's last checkpoint queued for the tables
  failed,     \* an error has ended the chunk
  lies        \* the wrong answers so far

vars == <<base, data, results, pending, flushUntil, failed, lies>>

Digest == UNION {Range(Txs[c]) : c \in Chunk}

CheckpointData == [listed : Seq(Digest), inline : BOOLEAN, total : 0 .. MaxUint32]

Init ==
  /\ base \in Bases
  /\ data = <<>> /\ results = <<>>
  /\ pending = {} /\ flushUntil = 0 /\ failed = FALSE /\ lies = 0

-----------------------------------------------------------------------------
(***************************************************************************)
(* GetCheckpointData.                                                      *)
(***************************************************************************)

Executed[c \in 0 .. To] == IF c = 0 THEN 0 ELSE Executed[c - 1] + Len(Txs[c])

Total(c) == base + Executed[c]

\* Mistake: the total is passed on as it is, larger than its column.
StoredTotalPlain(total) == total

\* mapCheckpoint: the total is a uint32 in the row.
StoredTotal(total) == IF total > MaxUint32 THEN MaxUint32 ELSE total

\* What the contents list: entries without a digest are dropped.
Listing(c, dropped) ==
  LET kept[i \in 0 .. Len(Txs[c])] ==
        IF i = 0 THEN <<>>
        ELSE kept[i - 1] \o IF Txs[c][i] \in dropped THEN <<>> ELSE <<Txs[c][i]>>
  IN  kept[Len(Txs[c])]

\* An answer with the transactions themselves needs no hydration; without a
\* summary the total is 0.
Fetch(c) ==
  /\ ~failed /\ c \notin DOMAIN data
  /\ \E dropped \in SUBSET Range(Txs[c]), inline \in BOOLEAN, total \in {0, Total(c)} :
       LET listed == Listing(c, dropped)
       IN  /\ inline => listed # <<>>
           /\ data' = [i \in DOMAIN data \cup {c} |->
                         IF i \in DOMAIN data THEN data[i]
                         ELSE [listed |-> listed, inline |-> inline,
                               total |-> StoredTotal(total)]]
           /\ lies' = IF dropped = {} /\ total = Total(c) THEN lies ELSE lies + 1
  /\ lies' <= MaxLies
  /\ UNCHANGED <<base, results, pending, flushUntil, failed>>

-----------------------------------------------------------------------------
(***************************************************************************)
(* hydrateCheckpointBatch.                                                 *)
(***************************************************************************)

\* What has to be asked for: nothing for an inline checkpoint.
TransactionDigests(c) == IF data[c].inline THEN <<>> ELSE data[c].listed

AllDigests(items) ==
  FlattenSeq([i \in DOMAIN items |-> TransactionDigests(items[i])])

\* The digests are asked for in slices; an answer has as many transactions as
\* were asked for and stays within its slice, or has something else in it.
SliceOf(digests, i) ==
  {k \in DOMAIN digests : (k - 1) \div HydrationBatchSize = (i - 1) \div HydrationBatchSize}

Answers(digests) ==
  {answer \in [DOMAIN digests -> Range(digests) \cup {Alien}] :
     \A i \in DOMAIN digests :
       answer[i] = Alien \/ \E k \in SliceOf(digests, i) : answer[i] = digests[k]}

Complete(digests, answer) == Range(answer) = Range(digests)

\* Mistake: the answer is cut up by position.
AssembleByPosition(all, answer, digests) ==
  [i \in DOMAIN digests |-> answer[CHOOSE k \in DOMAIN all : all[k] = digests[i]]]

\* orderedTransactionsForDigests finds each transaction by its own digest, and
\* withHydratedTransactions makes rows of them in the order of the list.
Assemble(all, answer, digests) ==
  [i \in DOMAIN digests |-> CHOOSE tx \in Range(answer) : tx = digests[i]]

\* BuildResult
Result(all, answer, c) ==
  IF data[c].inline THEN data[c].listed ELSE Assemble(all, answer, data[c].listed)

\* A batch has its checkpoints in the order in which they were fetched.  A
\* transaction that is missing from the answer fails the whole batch.
Hydrate(items) ==
  LET all == AllDigests(items)
  IN  /\ ~failed /\ items # <<>>
      /\ \E answer \in Answers(all) :
           /\ lies' = IF Complete(all, answer) THEN lies ELSE lies + 1
           /\ lies' <= MaxLies
           /\ IF Complete(all, answer)
              THEN /\ results' = [c \in DOMAIN results \cup Range(items) |->
                                    IF c \in DOMAIN results THEN results[c]
                                    ELSE Result(all, answer, c)]
                   /\ UNCHANGED failed
              ELSE failed' = TRUE /\ UNCHANGED results
  /\ UNCHANGED <<base, data, pending, flushUntil>>

-----------------------------------------------------------------------------
(***************************************************************************)
(* writeCheckpointStream up to its buffers.                                *)
(***************************************************************************)

\* Mistake: any total that grows will do.
CountValidIfGrown(c) == c = 1 \/ data[c].total >= data[c - 1].total

\* Mistake: a saturated total is taken for a total.
CountValidSaturated(c) ==
  c = 1 \/ data[c].total - data[c - 1].total = Len(results[c])

\* validateCheckpointTransactionCount; the first checkpoint of a chunk has no
\* previous one.
CountValid(c) ==
  \/ c = 1
  \/ MaxUint32 \in {data[c - 1].total, data[c].total}
  \/ /\ data[c].total >= data[c - 1].total
     /\ data[c].total - data[c - 1].total = Len(results[c])

\* A result arrives, in any order, and queueContiguous takes over what follows
\* on what was queued before.
Receive(c) ==
  /\ ~failed
  /\ c \in DOMAIN results /\ c > flushUntil /\ c \notin pending
  /\ LET arrived == pending \cup {c}
         next    == {k \in flushUntil + 1 .. To : flushUntil + 1 .. k \subseteq arrived}
         valid   == {k \in next : \A i \in flushUntil + 1 .. k : CountValid(i)}
     IN  /\ flushUntil' = flushUntil + Cardinality(valid)
         /\ pending' = arrived \ valid
         /\ failed' = (valid # next)
  /\ UNCHANGED <<base, data, results, lies>>

Next ==
  \/ \E c \in Chunk : Fetch(c) \/ Receive(c)
  \/ \E items \in SetToAllKPermutations(DOMAIN data \ DOMAIN results) : Hydrate(items)

Spec == Init /\ [][Next]_vars

-----------------------------------------------------------------------------
(***************************************************************************)
(* Properties.                                                             *)
(***************************************************************************)

\* Every variable has its type; no total is larger than its column.
TypeOK ==
  /\ base \in Bases
  /\ DOMAIN results \subseteq DOMAIN data /\ DOMAIN data \subseteq Chunk
  /\ \A c \in DOMAIN data : data[c] \in CheckpointData
  /\ \A c \in DOMAIN results : results[c] \in Seq(Digest)
  /\ pending \subseteq DOMAIN results
  /\ flushUntil \in 0 .. To
  /\ failed \in BOOLEAN /\ lies \in 0 .. MaxLies

\* The rows of a checkpoint are those of its own list and in its order, in
\* whatever order the archive answers and however the checkpoints are batched:
\* no transaction ends up under another checkpoint, or twice, or nowhere.
OwnTransactions == \A c \in DOMAIN results : results[c] = data[c].listed

\* A checkpoint whose totals are known, its own and the one before, goes to the
\* tables with all its transactions: what the archive leaves out of a list is
\* noticed by the count.  (It is not for the first checkpoint of a chunk, nor
\* from the first total on that does not fit into 32 bits.)
Known(c) == data[c].total = Total(c) /\ Total(c) < MaxUint32

LossCaught ==
  \A c \in 2 .. flushUntil : Known(c - 1) /\ Known(c) => results[c] = Txs[c]

\* The chunk never fails on an archive that leaves nothing out: not where the
\* totals reach 32 bits, not for an empty checkpoint, not for a mixture of
\* inline and listed transactions, not for an answer in another order.
HonestNeverFails == failed => lies > 0
=============================================================================
