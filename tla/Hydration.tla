------------------------------- MODULE Hydration -------------------------------
(***************************************************************************)
(* How a batch of transaction digests is turned into transactions:         *)
(* hydrateTransactionsByDigest and persistDegradedTransactions of          *)
(* internal/worker, BatchGetTransactions and its recovery from bad answers *)
(* in internal/client.                                                     *)
(*                                                                         *)
(* Several hydrators, one batch each, share the client (two semaphores),   *)
(* the registry of degraded digests and the ledger in MongoDB.  A slice of *)
(* at most BatchSize digests is asked for in one call.  The archive        *)
(*   - answers in full;                                                    *)
(*   - refuses the call as too large: it is asked for in two halves;       *)
(*   - cannot render the body of a transaction: if the error names it, it  *)
(*     is degraded and the digests around it are asked for again, if not,  *)
(*     the call is halved;                                                 *)
(*   - fails for another reason: the call is tried again.                  *)
(* A degraded transaction is read without its body, or, when that fails    *)
(* too, replaced by its digest; it goes to the registry, and from there to *)
(* the ledger when the batch is complete.                                  *)
(*                                                                         *)
(* The recursion of the code is a stack of segments still to ask for.      *)
(* Digests are numbered along their batch; the client of the worker has no *)
(* fallback endpoint.  Back-off and the rate limit take no model time.     *)
(***************************************************************************)
EXTENDS Integers, Sequences, FiniteSets, FiniteSetsExt, SequencesExt

CONSTANTS
  Hydrators,
  Batch,          \* [Hydrators -> Seq(Digest)]
  Malformed,      \* digests whose body the archive cannot render
  Size, Limit,    \* the size of a transaction, the largest answer
  BatchSize,      \* MaxBatchGetTransactionsDigests (5)
  BatchSlots,     \* capacity of batchTxSemaphore (10)
  GrpcSlots,      \* capacity of grpcSemaphore (10)
  MaxAttempts,    \* attempts of one call: maxRetries + 1 (6)
  MaxFaults       \* bound on failures that are nobody's fault

Digest == UNION {Range(Batch[h]) : h \in Hydrators}

ASSUME BatchAssumption ==
  /\ IsFiniteSet(Hydrators) /\ Hydrators # {}
  /\ \A h \in Hydrators : /\ Batch[h] \in Seq(Digest) \ {<<>>}
                          /\ IsInjective(Batch[h])
  /\ \A g, h \in Hydrators : g # h => Range(Batch[g]) \cap Range(Batch[h]) = {}
ASSUME ArchiveAssumption == /\ Malformed \subseteq Digest
                            /\ Size \in [Digest -> Nat] /\ Limit \in Nat
ASSUME ClientAssumption == /\ {BatchSize, BatchSlots, GrpcSlots} \subseteq Nat \ {0}
                           /\ MaxAttempts \in Nat \ {0} /\ MaxFaults \in Nat

VARIABLES
  stopping,     \* the context of the pipeline is cancelled
  task,         \* what each hydrator is doing
  rows,         \* the result of each batch, by position
  batchUsed,    \* slots taken of batchTxSemaphore
  grpcUsed,     \* slots taken of grpcSemaphore
  fetching,     \* a checkpoint fetcher holds one of the latter
  registry,     \* degraded digests not taken yet
  ledger,       \* the degraded_transactions collection: digests
  faults        \* failures so far

vars == <<stopping, task, rows, batchUsed, grpcUsed, fetching, registry,
          ledger, faults>>

-----------------------------------------------------------------------------
(***************************************************************************)
(* pc  ask      the segment on top of todo is next; with todo empty, the   *)
(*              slice that starts at next is, or the batch is complete     *)
(*     wait     has a batch slot, waits for the other one                  *)
(*     call     BatchGetTransactions is under way                          *)
(*     degrade  waits for a slot to read bad without its body              *)
(*     reduced  GetTransaction with the reduced mask is under way          *)
(*     persist  at position next of persistDegradedTransactions            *)
(*     done, failed                                                        *)
(* asked counts the calls that got an answer, retries apart.               *)
(***************************************************************************)
TaskPC == {"ask", "wait", "call", "degrade", "reduced", "persist", "done",
           "failed"}
Row    == {"none", "full", "reduced", "digest only"}

Positions(h) == 1 .. Len(Batch[h])

Init ==
  /\ stopping = FALSE
  /\ task = [h \in Hydrators |-> [pc |-> "ask", next |-> 1, todo |-> <<>>,
                                  attempt |-> 0, bad |-> 0, asked |-> 0]]
  /\ rows = [h \in Hydrators |-> [i \in Positions(h) |-> "none"]]
  /\ batchUsed = 0 /\ grpcUsed = 0 /\ fetching = FALSE
  /\ registry = {} /\ ledger = {}
  /\ faults = 0

Segment(lo, hi) == [lo |-> lo, hi |-> hi]
Items(seg)      == seg.lo .. seg.hi

\* Mistake: the second half starts after mid, not at it.
HalvesApart(seg) ==
  LET mid == (seg.hi - seg.lo + 1) \div 2 IN
  <<Segment(seg.lo, seg.lo + mid - 1), Segment(seg.lo + mid + 1, seg.hi)>>

Halves(seg) ==
  LET mid == (seg.hi - seg.lo + 1) \div 2 IN
  <<Segment(seg.lo, seg.lo + mid - 1), Segment(seg.lo + mid, seg.hi)>>

\* Mistake: the malformed transaction is asked for again with the right side.
SidesWith(seg, i) ==
  (IF seg.lo < i THEN <<Segment(seg.lo, i - 1)>> ELSE <<>>)
    \o (IF i < seg.hi THEN <<Segment(i, seg.hi)>> ELSE <<>>)

\* What is left of a segment around the malformed transaction at i.
Sides(seg, i) ==
  (IF seg.lo < i THEN <<Segment(seg.lo, i - 1)>> ELSE <<>>)
    \o (IF i < seg.hi THEN <<Segment(i + 1, seg.hi)>> ELSE <<>>)

Top(h)       == Head(task[h].todo)
Others(h)    == Tail(task[h].todo)
MalformedIn(h) == {i \in Items(Top(h)) : Batch[h][i] \in Malformed}
Fits(h)      == MapThenSumSet(LAMBDA i : Size[Batch[h][i]], Items(Top(h))) <= Limit

\* A failure that is not in the data, or the end of the context.
Fault == \/ stopping /\ UNCHANGED faults
         \/ ~stopping /\ faults < MaxFaults /\ faults' = faults + 1

-----------------------------------------------------------------------------
\* Slices.

\* Mistake: the last slice is not cut at the end of the batch.
SliceEndUncut(h) == task[h].next + BatchSize - 1

SliceEnd(h) == Min({task[h].next + BatchSize - 1, Len(Batch[h])})

NextSlice(h) ==
  /\ task[h].pc = "ask" /\ task[h].todo = <<>>
  /\ task[h].next <= Len(Batch[h])
  /\ task' = [task EXCEPT
       ![h].todo = <<Segment(task[h].next, SliceEnd(h))>>,
       ![h].next = SliceEnd(h) + 1]
  /\ UNCHANGED <<stopping, rows, batchUsed, grpcUsed, fetching, registry,
                 ledger, faults>>

\* Every digest must have its transaction now.
Hydrated(h) ==
  /\ task[h].pc = "ask" /\ task[h].todo = <<>>
  /\ task[h].next > Len(Batch[h])
  /\ task' = [task EXCEPT ![h].next = 1,
       ![h].pc = IF \E i \in Positions(h) : rows[h][i] = "none" THEN "failed"
                                                                ELSE "persist"]
  /\ UNCHANGED <<stopping, rows, batchUsed, grpcUsed, fetching, registry,
                 ledger, faults>>

-----------------------------------------------------------------------------
\* The slots.  Whoever waits for one also watches the context; to take one
\* after its end is to give up, for the call that follows is refused.

TakeBatchSlot(h) ==
  /\ task[h].pc = "ask" /\ task[h].todo # <<>>
  /\ ~stopping /\ batchUsed < BatchSlots
  /\ task' = [task EXCEPT ![h].pc = "wait"]
  /\ batchUsed' = batchUsed + 1
  /\ UNCHANGED <<stopping, rows, grpcUsed, fetching, registry, ledger, faults>>

TakeGrpcSlot(h) ==
  /\ task[h].pc \in {"wait", "degrade"}
  /\ ~stopping /\ grpcUsed < GrpcSlots
  /\ task' = [task EXCEPT ![h].pc = IF @ = "wait" THEN "call" ELSE "reduced"]
  /\ grpcUsed' = grpcUsed + 1
  /\ UNCHANGED <<stopping, rows, batchUsed, fetching, registry, ledger, faults>>

\* Mistake: the batch slot is kept when the other one cannot be had.
GiveUpHolding(h) ==
  /\ stopping
  /\ task[h].pc \in {"ask", "wait"} /\ task[h].todo # <<>>
  /\ task' = [task EXCEPT ![h].pc = "failed"]
  /\ UNCHANGED <<stopping, rows, batchUsed, grpcUsed, fetching, registry,
                 ledger, faults>>

GiveUp(h) ==
  /\ stopping
  /\ task[h].pc \in {"ask", "wait"} /\ task[h].todo # <<>>
  /\ task' = [task EXCEPT ![h].pc = "failed"]
  /\ batchUsed' = IF task[h].pc = "wait" THEN batchUsed - 1 ELSE batchUsed
  /\ UNCHANGED <<stopping, rows, grpcUsed, fetching, registry, ledger, faults>>

ReleaseSlots == batchUsed' = batchUsed - 1 /\ grpcUsed' = grpcUsed - 1

\* A fetcher of checkpoints takes a slot for a call of its own.
FetchStarts ==
  /\ ~fetching /\ grpcUsed < GrpcSlots
  /\ fetching' = TRUE /\ grpcUsed' = grpcUsed + 1
  /\ UNCHANGED <<stopping, task, rows, batchUsed, registry, ledger, faults>>

FetchEnds ==
  /\ fetching
  /\ fetching' = FALSE /\ grpcUsed' = grpcUsed - 1
  /\ UNCHANGED <<stopping, task, rows, batchUsed, registry, ledger, faults>>

-----------------------------------------------------------------------------
\* The answers to BatchGetTransactions.

\* Mistake: the result is made anew for each call.
FillAnew(h, S) ==
  rows' = [rows EXCEPT ![h] = [i \in Positions(h) |->
                                 IF i \in S THEN "full" ELSE "none"]]

Fill(h, S) ==
  rows' = [rows EXCEPT ![h] = [i \in Positions(h) |->
                                 IF i \in S THEN "full" ELSE @[i]]]

\* The call is over for good; todo is what is left of the slice.
Answered(h, pc, bad, todo) ==
  task' = [task EXCEPT ![h].pc = pc, ![h].bad = bad, ![h].todo = todo,
                       ![h].attempt = 0, ![h].asked = @ + 1]

AllTransactions(h) ==
  /\ task[h].pc = "call"
  /\ Fits(h) /\ MalformedIn(h) = {}
  /\ Fill(h, Items(Top(h)))
  /\ Answered(h, "ask", 0, Others(h))
  /\ ReleaseSlots
  /\ UNCHANGED <<stopping, fetching, registry, ledger, faults>>

\* Mistake: only calls of the full size are halved.
TooLargeFullOnly(h) ==
  /\ task[h].pc = "call" /\ ~Fits(h)
  /\ IF Cardinality(Items(Top(h))) < BatchSize
     THEN Answered(h, "failed", 0, <<>>)
     ELSE Answered(h, "ask", 0, Halves(Top(h)) \o Others(h))
  /\ ReleaseSlots
  /\ UNCHANGED <<stopping, rows, fetching, registry, ledger, faults>>

TooLarge(h) ==
  /\ task[h].pc = "call"
  /\ ~Fits(h)
  /\ IF Top(h).lo = Top(h).hi
     THEN Answered(h, "failed", 0, <<>>)
     ELSE Answered(h, "ask", 0, Halves(Top(h)) \o Others(h))
  /\ ReleaseSlots
  /\ UNCHANGED <<stopping, rows, fetching, registry, ledger, faults>>

\* The transactions before the malformed one have been stored already.
NamedMalformed(h) ==
  /\ task[h].pc = "call"
  /\ Fits(h) /\ MalformedIn(h) # {}
  /\ LET i == Min(MalformedIn(h)) IN
       /\ Fill(h, Top(h).lo .. i - 1)
       /\ Answered(h, "degrade", i, Sides(Top(h), i) \o Others(h))
  /\ ReleaseSlots
  /\ UNCHANGED <<stopping, fetching, registry, ledger, faults>>

UnnamedMalformed(h) ==
  /\ task[h].pc = "call"
  /\ Fits(h) /\ MalformedIn(h) # {}
  /\ IF Top(h).lo = Top(h).hi
     THEN Answered(h, "degrade", Top(h).lo, Others(h))
     ELSE Answered(h, "ask", 0, Halves(Top(h)) \o Others(h))
  /\ ReleaseSlots
  /\ UNCHANGED <<stopping, rows, fetching, registry, ledger, faults>>

\* Mistake: the slots are not released when the call fails.
CallFailsHolding(h) ==
  /\ task[h].pc = "call"
  /\ Fault
  /\ task' = [task EXCEPT ![h].attempt = @ + 1,
       ![h].pc = IF stopping \/ task[h].attempt + 1 = MaxAttempts THEN "failed"
                                                                  ELSE "ask"]
  /\ UNCHANGED <<stopping, rows, batchUsed, grpcUsed, fetching, registry, ledger>>

\* Another error, possibly of one transaction in the middle of the answer.
CallFails(h) ==
  /\ task[h].pc = "call"
  /\ Fault
  /\ \E i \in Items(Top(h)) :
       /\ Fits(h) \/ i = Top(h).lo
       /\ MalformedIn(h) \cap (Top(h).lo .. i - 1) = {}
       /\ Fill(h, Top(h).lo .. i - 1)
  /\ task' = [task EXCEPT ![h].attempt = @ + 1,
       ![h].pc = IF stopping \/ task[h].attempt + 1 = MaxAttempts THEN "failed"
                                                                  ELSE "ask"]
  /\ ReleaseSlots
  /\ UNCHANGED <<stopping, fetching, registry, ledger>>

-----------------------------------------------------------------------------
\* degradeUnparseableTransaction: it always ends with a row.

\* Mistake: a transaction of which nothing could be read is not reported.
DegradedUnreported(h, row) ==
  /\ rows' = [rows EXCEPT ![h][task[h].bad] = row]
  /\ registry' = registry \cup (IF row = "reduced" THEN {Batch[h][task[h].bad]}
                                                   ELSE {})
  /\ task' = [task EXCEPT ![h].pc = "ask", ![h].attempt = 0, ![h].bad = 0]

Degraded(h, row) ==
  /\ rows' = [rows EXCEPT ![h][task[h].bad] = row]
  /\ registry' = registry \cup {Batch[h][task[h].bad]}
  /\ task' = [task EXCEPT ![h].pc = "ask", ![h].attempt = 0, ![h].bad = 0]

ReducedArrives(h) ==
  /\ task[h].pc = "reduced"
  /\ Degraded(h, "reduced")
  /\ grpcUsed' = grpcUsed - 1
  /\ UNCHANGED <<stopping, batchUsed, fetching, ledger, faults>>

\* The archive cannot render even that, the attempts are used up, or the
\* context is done.
ReducedRefused(h) ==
  /\ task[h].pc = "reduced"
  /\ Degraded(h, "digest only")
  /\ grpcUsed' = grpcUsed - 1
  /\ UNCHANGED <<stopping, batchUsed, fetching, ledger, faults>>

ReducedFails(h) ==
  /\ task[h].pc = "reduced"
  /\ ~stopping /\ Fault
  /\ task[h].attempt + 1 < MaxAttempts
  /\ task' = [task EXCEPT ![h].pc = "degrade", ![h].attempt = @ + 1]
  /\ grpcUsed' = grpcUsed - 1
  /\ UNCHANGED <<stopping, rows, batchUsed, fetching, registry, ledger>>

ReducedGivesUp(h) ==
  /\ task[h].pc = "degrade"
  /\ stopping
  /\ Degraded(h, "digest only")
  /\ UNCHANGED <<stopping, batchUsed, grpcUsed, fetching, ledger, faults>>

-----------------------------------------------------------------------------
\* persistDegradedTransactions: take and Record, digest by digest.  A record
\* that fails is only logged.

Persist(h) ==
  /\ task[h].pc = "persist"
  /\ LET digest == Batch[h][task[h].next] IN
       /\ registry' = registry \ {digest}
       /\ \/ digest \notin registry /\ UNCHANGED <<ledger, faults>>
          \/ /\ digest \in registry /\ ~stopping
             /\ ledger' = ledger \cup {digest} /\ UNCHANGED faults
          \/ digest \in registry /\ Fault /\ UNCHANGED ledger
  /\ task' = [task EXCEPT ![h].next = @ + 1,
       ![h].pc = IF task[h].next = Len(Batch[h]) THEN "done" ELSE "persist"]
  /\ UNCHANGED <<stopping, rows, batchUsed, grpcUsed, fetching>>

-----------------------------------------------------------------------------
\* Another stage fails, or the process is told to stop.
Stop ==
  /\ ~stopping
  /\ stopping' = TRUE
  /\ UNCHANGED <<task, rows, batchUsed, grpcUsed, fetching, registry, ledger,
                 faults>>

Over(h) == task[h].pc \in {"done", "failed"}

Rest == (\A h \in Hydrators : Over(h)) /\ UNCHANGED vars

Answer(h) == \/ AllTransactions(h) \/ TooLarge(h)
             \/ NamedMalformed(h) \/ UnnamedMalformed(h) \/ CallFails(h)

Degrade(h) == \/ ReducedArrives(h) \/ ReducedRefused(h)
              \/ ReducedFails(h) \/ ReducedGivesUp(h)

Step(h) == \/ NextSlice(h) \/ Hydrated(h)
           \/ TakeBatchSlot(h) \/ TakeGrpcSlot(h) \/ GiveUp(h)
           \/ Answer(h) \/ Degrade(h) \/ Persist(h)

Next ==
  \/ \E h \in Hydrators : Step(h)
  \/ FetchStarts \/ FetchEnds \/ Stop \/ Rest

Spec == Init /\ [][Next]_vars

\* Every call returns, and those who wait for a slot are served in turn.
Fairness ==
  /\ \A h \in Hydrators : /\ WF_vars(Step(h))
                          /\ SF_vars(TakeBatchSlot(h))
                          /\ SF_vars(TakeGrpcSlot(h))
  /\ WF_vars(FetchEnds)

FairSpec == Spec /\ Fairness

-----------------------------------------------------------------------------
(***************************************************************************)
(* Properties.                                                             *)
(***************************************************************************)

\* Every variable has its type.
TypeOK ==
  /\ stopping \in BOOLEAN /\ fetching \in BOOLEAN
  /\ \A h \in Hydrators :
       /\ task[h].pc \in TaskPC
       /\ task[h].next \in 1 .. Len(Batch[h]) + 1
       /\ task[h].todo \in Seq([lo : Positions(h), hi : Positions(h)])
       /\ task[h].attempt \in 0 .. MaxAttempts /\ task[h].asked \in Nat
       /\ task[h].bad \in Positions(h) \cup {0}
       /\ rows[h] \in [Positions(h) -> Row]
  /\ batchUsed \in 0 .. BatchSlots /\ grpcUsed \in 0 .. GrpcSlots
  /\ registry \subseteq Digest /\ ledger \subseteq Digest
  /\ faults \in 0 .. MaxFaults

In(pcs) == Cardinality({h \in Hydrators : task[h].pc \in pcs})

\* On every path, retries, halves, degradation and cancellation included, each
\* slot taken is given back once: the semaphores count the calls under way.
SlotsAccounted ==
  /\ batchUsed = In({"wait", "call"})
  /\ grpcUsed = In({"call", "reduced"}) + (IF fetching THEN 1 ELSE 0)

\* The places that still owe position i of a batch its row.
Owing(h, i) ==
  Cardinality({k \in DOMAIN task[h].todo : i \in Items(task[h].todo[k])})
    + (IF task[h].bad = i THEN 1 ELSE 0)

\* However a slice is cut up, each of its positions is asked for in one place,
\* or has its row for good: none is dropped, none is hydrated twice.
NothingSkipped ==
  \A h \in Hydrators : task[h].pc \notin {"failed", "persist", "done"} =>
    \A i \in 1 .. task[h].next - 1 :
      \/ Owing(h, i) = 1
      \/ Owing(h, i) = 0 /\ rows[h][i] # "none"

\* degraded_repository.go: gaps stay visible.  A transaction passed on without
\* its body is in the ledger, unless recording it failed; nothing else is.
GapsOnRecord ==
  LET passedOn == UNION {Range(Batch[h]) : h \in {g \in Hydrators : task[g].pc = "done"}}
  IN  /\ ledger \subseteq Malformed
      /\ ~stopping => Cardinality((passedOn \cap Malformed) \ ledger) <= faults

\* A transaction that cannot be rendered, or an answer that is too large, never
\* fails a batch as long as each transaction fits by itself: it takes a
\* cancellation, or a call that fails on all its attempts.
BadDataKeepsJobAlive ==
  \A h \in Hydrators : task[h].pc = "failed" =>
    \/ stopping \/ faults >= MaxAttempts
    \/ \E i \in Positions(h) : Size[Batch[h][i]] > Limit

\* Cutting up a slice ends: n digests never cost more than 2n answers, counting
\* those the segments still to ask for may cost, 2k - 1 for each k digests.
CallsBounded ==
  \A h \in Hydrators :
    LET todo == task[h].todo
        cost(k) == 2 * Cardinality(Items(todo[k])) - 1
    IN  task[h].pc \notin {"persist", "done", "failed"} =>
          task[h].asked + MapThenSumSet(cost, DOMAIN todo) <= 2 * (task[h].next - 1)

\* Seen from the pipeline, every step is a step of the contract or invisible:
\* what has come in is never overwritten, by a retry, by the halves of a call or
\* by the other hydrators; a batch that is passed on has every transaction, lacks
\* the bodies of exactly the malformed ones, and stays as it is; the ledger
\* forgets nothing and takes in only what lacks its body in a complete batch.
Having(h, forms) == {i \in Positions(h) : rows[h][i] \in forms}

Contract == INSTANCE HydrationContract
  WITH Batches <- Hydrators,
       Places <- [h \in Hydrators |-> Positions(h)],
       Renderable <- [h \in Hydrators |->
                        {i \in Positions(h) : Batch[h][i] \notin Malformed}],
       Key <- Batch,
       state <- [h \in Hydrators |->
                   IF task[h].pc = "done" THEN "passed on"
                   ELSE IF task[h].pc = "failed" THEN "given up" ELSE "working"],
       whole <- [h \in Hydrators |-> Having(h, {"full"})],
       bare <- [h \in Hydrators |-> Having(h, {"reduced", "digest only"})]

ImplementsHydration == Contract!ContractSpec

\* Every batch ends, whatever the archive answers: no hydrator waits for a slot
\* that another one holds while it waits too.
EveryBatchEnds == <>[](\A h \in Hydrators : Over(h))

=============================================================================
