--------------------------- MODULE StorageProofs ---------------------------
(***************************************************************************)
(* Theorems about ClickHouseStorage, for every flush, batch size, number   *)
(* of retries and bound on the runs: the type invariant, the account of    *)
(* the duplicates, and that the write keeps InsertContract.                *)
(***************************************************************************)
EXTENDS ClickHouseStorage, TLAPS

LEMMA ConstantsTyped ==
  /\ Len(RowCount) \in Nat /\ \A t \in TableNo : RowCount[t] \in Nat
  /\ InsertBatchSize \in Nat /\ InsertBatchSize >= 1
  /\ MaxRetries \in Nat /\ MaxRuns \in Nat /\ MaxRuns >= 1 /\ MaxCutOff \in Nat
BY StorageAssumption DEF TableNo

\* A send adds at most one copy of a row, and only to the table it is for.
LEMMA StoreAdds ==
  ASSUME TypeOK, NEW S, Inserting, Store(S)
  PROVE  /\ DOMAIN copies' = TableNo
         /\ \A t \in TableNo : copies'[t] \in [RowsOf(t) -> Nat]
         /\ \A t \in TableNo : \A r \in RowsOf(t) :
              copies'[t][r] = IF t = writer.table /\ r \in S
                              THEN copies[t][r] + 1 ELSE copies[t][r]
<1> DEFINE T == writer.table
           Row == [r \in RowsOf(T) |-> IF r \in S THEN copies[T][r] + 1 ELSE copies[T][r]]
<1>1. T \in TableNo /\ DOMAIN copies = TableNo
      /\ \A t \in TableNo : copies[t] \in [RowsOf(t) -> Nat]
  BY DEF TypeOK, Inserting
<1>2. DOMAIN copies[T] = RowsOf(T)
  BY <1>1
<1>3. copies' = [copies EXCEPT ![T] = Row]
  BY <1>2 DEF Store
<1>4. DOMAIN copies' = TableNo
      /\ \A t \in TableNo : copies'[t] = IF t = T THEN Row ELSE copies[t]
  BY <1>1, <1>3
<1>5. Row \in [RowsOf(T) -> Nat]
  BY <1>1
<1> QED
  BY <1>1, <1>4, <1>5

\* A send that fails, or a crash, does the same or nothing.
LEMMA CutOffAdds ==
  ASSUME TypeOK, NEW S, S # {} => Inserting, CutOff(S)
  PROVE  /\ DOMAIN copies' = TableNo
         /\ \A t \in TableNo : copies'[t] \in [RowsOf(t) -> Nat]
         /\ cutOff' \in 0 .. MaxCutOff
         /\ \A t \in TableNo : \A r \in RowsOf(t) :
              copies'[t][r] = IF t = writer.table /\ r \in S
                              THEN copies[t][r] + 1 ELSE copies[t][r]
         /\ cutOff' = IF S = {} THEN cutOff ELSE cutOff + 1
<1>1. CASE S = {}
  BY <1>1 DEF CutOff, TypeOK
<1>2. CASE S # {}
  BY <1>2, StoreAdds, ConstantsTyped DEF CutOff, TypeOK
<1> QED
  BY <1>1, <1>2

\* A merge takes away one copy of a row that has several.
LEMMA MergeTakes ==
  ASSUME TypeOK, NEW t \in TableNo, NEW r \in RowsOf(t), Merge(t, r)
  PROVE  /\ DOMAIN copies' = TableNo
         /\ \A u \in TableNo : copies'[u] \in [RowsOf(u) -> Nat]
         /\ \A u \in TableNo : \A q \in RowsOf(u) :
              copies'[u][q] <= copies[u][q] /\ (copies'[u][q] > 0 <=> copies[u][q] > 0)
<1> DEFINE Row == [copies[t] EXCEPT ![r] = copies[t][r] - 1]
<1>1. DOMAIN copies = TableNo /\ \A u \in TableNo : copies[u] \in [RowsOf(u) -> Nat]
  BY DEF TypeOK
<1>2. copies[t][r] \in Nat /\ copies[t][r] > 1 /\ copies[t][r] - 1 \in Nat
  BY <1>1 DEF Merge
<1>3. copies' = [copies EXCEPT ![t] = Row]
  BY <1>1 DEF Merge
<1>4. Row \in [RowsOf(t) -> Nat]
      /\ \A q \in RowsOf(t) : Row[q] = IF q = r THEN copies[t][r] - 1 ELSE copies[t][q]
  BY <1>1, <1>2
<1>5. DOMAIN copies' = TableNo
      /\ \A u \in TableNo : copies'[u] = IF u = t THEN Row ELSE copies[u]
  BY <1>1, <1>3
<1> HIDE DEF Row
<1>6. \A u \in TableNo : copies'[u] \in [RowsOf(u) -> Nat]
  BY <1>1, <1>4, <1>5
<1>7. ASSUME NEW u \in TableNo, NEW q \in RowsOf(u)
      PROVE  copies'[u][q] <= copies[u][q] /\ (copies'[u][q] > 0 <=> copies[u][q] > 0)
  <2>1. copies[u][q] \in Nat
    BY <1>1
  <2>2. CASE u = t /\ q = r
    <3>1. copies'[u][q] = copies[u][q] - 1 /\ copies[u][q] > 1
      BY <1>2, <1>4, <1>5, <2>2
    <3> QED
      BY <2>1, <3>1
  <2>3. CASE ~(u = t /\ q = r)
    <3>1. copies'[u][q] = copies[u][q]
      BY <1>4, <1>5, <2>3
    <3> QED
      BY <2>1, <3>1
  <2> QED
    BY <2>2, <2>3
<1> QED
  BY <1>5, <1>6, <1>7

-----------------------------------------------------------------------------
\* The steps of the writer yield its type again.
LEMMA WriterTyped ==
  ASSUME NEW w \in Writer, NEW n \in Nat
  PROVE  /\ [w EXCEPT !.at = n, !.attempt = 0] \in Writer
         /\ [w EXCEPT !.table = w.table + 1, !.at = 1, !.attempt = 0] \in Writer
         /\ [w EXCEPT !.attempt = n] \in Writer
         /\ \A pc \in {"nil", "error", "dead"} : [w EXCEPT !.pc = pc] \in Writer
<1>1. w.table + 1 \in Nat
  BY DEF Writer
<1>2. \A k \in Nat : [w EXCEPT !.table = k, !.at = 1, !.attempt = 0] \in Writer
  BY DEF Writer
<1>3. /\ [w EXCEPT !.at = n, !.attempt = 0] \in Writer
      /\ [w EXCEPT !.attempt = n] \in Writer
      /\ \A pc \in {"nil", "error", "dead"} : [w EXCEPT !.pc = pc] \in Writer
  BY DEF Writer
<1> QED
  BY <1>1, <1>2, <1>3

LEMMA StartTyped ==
  /\ Start \in Writer
  /\ Start.pc = "insert" /\ Start.table = 1 /\ Start.at = 1 /\ Start.attempt = 0
BY DEF Start, Writer

LEMMA TypeInit == Init => TypeOK
<1> SUFFICES ASSUME Init PROVE TypeOK
  OBVIOUS
<1>1. /\ writer \in Writer /\ writer.table \in 1 .. Len(RowCount) + 1
      /\ writer.at >= 1 /\ writer.attempt <= MaxRetries
  BY StartTyped, ConstantsTyped DEF Init
<1>2. DOMAIN copies = TableNo /\ \A t \in TableNo : copies[t] \in [RowsOf(t) -> Nat]
  BY DEF Init
<1>3. stopping \in BOOLEAN
  BY DEF Init
<1> QED
  BY <1>1, <1>2, <1>3, ConstantsTyped DEF Init, TypeOK

LEMMA TypeNext == TypeOK /\ [Next]_vars => TypeOK'
<1> SUFFICES ASSUME TypeOK, [Next]_vars PROVE TypeOK'
  OBVIOUS
<1> USE ConstantsTyped
<1>1. CASE SendAcknowledged
  <2>1. writer' \in Writer /\ writer'.table = writer.table
        /\ writer'.at >= 1 /\ writer'.attempt <= MaxRetries
    <3>1. writer' = [writer EXCEPT !.at = writer.at + InsertBatchSize, !.attempt = 0]
      BY <1>1 DEF SendAcknowledged, NextBatch
    <3>2. writer.at \in Nat /\ writer.at + InsertBatchSize \in Nat
          /\ writer.at + InsertBatchSize >= 1
      BY DEF TypeOK, Writer
    <3>3. writer' \in Writer
      BY <3>1, <3>2, WriterTyped DEF TypeOK
    <3>4. writer'.table = writer.table /\ writer'.at >= 1 /\ writer'.attempt = 0
      BY <3>1, <3>2 DEF TypeOK, Writer
    <3> QED
      BY <3>3, <3>4
  <2> QED
    BY <1>1, <2>1, StoreAdds DEF SendAcknowledged, Sending, TypeOK
<1>2. CASE SendFails
  <2>1. writer' \in Writer /\ writer'.table = writer.table
        /\ writer'.at >= 1 /\ writer'.attempt <= MaxRetries
    BY <1>2 DEF SendFails, Failed, TypeOK, Writer
  <2> QED
    BY <1>2, <2>1, CutOffAdds DEF SendFails, Sending, TypeOK
<1>3. CASE TableDone
  <2>1. writer' \in Writer /\ writer'.table \in 1 .. Len(RowCount) + 1
        /\ writer'.at >= 1 /\ writer'.attempt <= MaxRetries
    <3>1. writer' = [writer EXCEPT !.table = writer.table + 1, !.at = 1, !.attempt = 0]
      BY <1>3 DEF TableDone
    <3>2. writer.table \in Nat /\ writer.table + 1 \in 1 .. Len(RowCount) + 1
      BY <1>3 DEF TableDone, Inserting, TableNo, TypeOK, Writer
    <3>3. writer' \in Writer
      BY <3>1, <3>2, WriterTyped DEF TypeOK
    <3>4. writer'.table = writer.table + 1 /\ writer'.at = 1 /\ writer'.attempt = 0
      BY <3>1, <3>2 DEF TypeOK, Writer
    <3> QED
      BY <3>2, <3>3, <3>4
  <2> QED
    BY <1>3, <2>1 DEF TableDone, TypeOK
<1>4. CASE WriteDone
  BY <1>4 DEF WriteDone, TypeOK, Writer
<1>5. CASE Cancel
  BY <1>5 DEF Cancel, TypeOK
<1>6. CASE Crash
  <2>1. writer' \in Writer /\ writer'.table = writer.table
        /\ writer'.at >= 1 /\ writer'.attempt <= MaxRetries
    BY <1>6 DEF Crash, TypeOK, Writer
  <2> QED
    BY <1>6, <2>1, CutOffAdds DEF Crash, Sending, TypeOK
<1>7. CASE WriteAgain
  <2>1. stopping' \in BOOLEAN
    BY <1>7 DEF WriteAgain
  <2> QED
    BY <1>7, <2>1, StartTyped DEF WriteAgain, TypeOK
<1>8. ASSUME NEW t \in TableNo, NEW r \in RowsOf(t), Merge(t, r)
      PROVE  TypeOK'
  BY <1>8, MergeTakes DEF Merge, TypeOK
<1>9. CASE UNCHANGED vars
  BY <1>9 DEF vars, TypeOK
<1> QED
  BY <1>1, <1>2, <1>3, <1>4, <1>5, <1>6, <1>7, <1>8, <1>9 DEF Next, WriteStep

\* The variables keep their types, and no batch is sent more than MaxRetries
\* times again (withRetry).
THEOREM StorageTyped == Spec => []TypeOK
  BY TypeInit, TypeNext, PTL DEF Spec

-----------------------------------------------------------------------------
LEMMA AccountInit == Init => DuplicatesAccounted
BY DEF Init, Start, DuplicatesAccounted, Acknowledged, TableNo, RowsOf

LEMMA AccountNext == TypeOK /\ DuplicatesAccounted /\ [Next]_vars => DuplicatesAccounted'
<1> SUFFICES ASSUME TypeOK, DuplicatesAccounted, [Next]_vars,
                    NEW t \in TableNo, NEW r \in RowsOf(t)
             PROVE  IF Acknowledged(t, r)' THEN copies'[t][r] <= run' + cutOff'
                    ELSE copies'[t][r] + 1 <= run' + cutOff'
  BY DEF DuplicatesAccounted
<1> USE ConstantsTyped
<1>1. /\ copies[t][r] \in Nat /\ run \in Nat /\ cutOff \in Nat /\ t \in Nat /\ r \in Nat
      /\ writer.at \in Nat /\ writer.table \in Nat
      /\ IF Acknowledged(t, r) THEN copies[t][r] <= run + cutOff
         ELSE copies[t][r] + 1 <= run + cutOff
  <2>1. run \in Nat /\ cutOff \in Nat
    BY DEF TypeOK
  <2>2. t \in Nat /\ r \in Nat
    BY DEF TableNo, RowsOf
  <2>3. copies[t][r] \in Nat
    BY DEF TypeOK
  <2>4. writer.at \in Nat /\ writer.table \in Nat
    BY DEF TypeOK, Writer
  <2>5. IF Acknowledged(t, r) THEN copies[t][r] <= run + cutOff
        ELSE copies[t][r] + 1 <= run + cutOff
    BY DEF DuplicatesAccounted
  <2> QED
    BY <2>1, <2>2, <2>3, <2>4, <2>5
<1>2. CASE SendAcknowledged
  <2>1. copies'[t][r] = IF t = writer.table /\ r \in Batch
                        THEN copies[t][r] + 1 ELSE copies[t][r]
    BY <1>2, StoreAdds DEF SendAcknowledged, Sending
  <2>2. Acknowledged(t, r)' <=> Acknowledged(t, r) \/ (t = writer.table /\ r \in Batch)
    BY <1>1, <1>2 DEF SendAcknowledged, NextBatch, Acknowledged, Batch, TypeOK, Writer
  <2>3. r \in Batch /\ t = writer.table => ~Acknowledged(t, r)
    BY <1>1 DEF Batch, Acknowledged
  <2> QED
    BY <1>1, <1>2, <2>1, <2>2, <2>3 DEF SendAcknowledged
<1>3. CASE SendFails
  <2>1. PICK S \in SUBSET Batch : CutOff(S)
    BY <1>3 DEF SendFails
  <2>2. /\ copies'[t][r] = IF t = writer.table /\ r \in S
                           THEN copies[t][r] + 1 ELSE copies[t][r]
        /\ cutOff' = IF S = {} THEN cutOff ELSE cutOff + 1
    BY <1>3, <2>1, CutOffAdds DEF SendFails, Sending
  <2>3. Acknowledged(t, r)' <=> Acknowledged(t, r)
    BY <1>3 DEF SendFails, Failed, Acknowledged, TypeOK, Writer
  <2> QED
    BY <1>1, <1>3, <2>2, <2>3 DEF SendFails
<1>4. CASE TableDone
  <2>1. writer'.table = writer.table + 1 /\ writer'.at = 1
    BY <1>4 DEF TableDone, TypeOK, Writer
  <2>2. r \in Nat /\ 1 <= r /\ (t = writer.table => r < writer.at)
    BY <1>1, <1>4 DEF TableDone, Inserting, Sending, RowsOf
  <2>3. Acknowledged(t, r)' <=> Acknowledged(t, r)
    BY <1>1, <2>1, <2>2 DEF Acknowledged
  <2>4. copies' = copies /\ run' = run /\ cutOff' = cutOff
    BY <1>4 DEF TableDone
  <2> QED
    BY <1>1, <2>3, <2>4
<1>5. CASE WriteDone
  BY <1>1, <1>5 DEF WriteDone, Acknowledged, TypeOK, Writer
<1>6. CASE Cancel
  BY <1>1, <1>6 DEF Cancel, Acknowledged
<1>7. CASE Crash
  <2>1. PICK S \in SUBSET (IF Sending THEN Batch ELSE {}) : CutOff(S)
    BY <1>7 DEF Crash
  <2>2. /\ copies'[t][r] = IF t = writer.table /\ r \in S
                           THEN copies[t][r] + 1 ELSE copies[t][r]
        /\ cutOff' = IF S = {} THEN cutOff ELSE cutOff + 1
    BY <2>1, CutOffAdds DEF Sending
  <2>3. Acknowledged(t, r)' <=> Acknowledged(t, r)
    BY <1>7 DEF Crash, Acknowledged, TypeOK, Writer
  <2>4. run' = run
    BY <1>7 DEF Crash
  <2> QED
    BY <1>1, <2>2, <2>3, <2>4
<1>8. CASE WriteAgain
  <2>1. ~Acknowledged(t, r)'
    BY <1>1, <1>8 DEF WriteAgain, Start, Acknowledged, TableNo, RowsOf
  <2> QED
    BY <1>1, <1>8, <2>1 DEF WriteAgain
<1>9. ASSUME NEW u \in TableNo, NEW q \in RowsOf(u), Merge(u, q)
      PROVE  IF Acknowledged(t, r)' THEN copies'[t][r] <= run' + cutOff'
             ELSE copies'[t][r] + 1 <= run' + cutOff'
  <2>1. copies'[t][r] \in Nat /\ copies'[t][r] <= copies[t][r]
    BY <1>9, MergeTakes
  <2>2. (Acknowledged(t, r)' <=> Acknowledged(t, r)) /\ run' = run /\ cutOff' = cutOff
    BY <1>9 DEF Merge, Acknowledged
  <2>3. CASE Acknowledged(t, r)
    <3>1. copies[t][r] <= run + cutOff
      BY <1>1, <2>3
    <3>2. copies'[t][r] <= run + cutOff
      BY <1>1, <2>1, <3>1
    <3> QED
      BY <2>2, <2>3, <3>2
  <2>4. CASE ~Acknowledged(t, r)
    <3>1. copies[t][r] + 1 <= run + cutOff
      BY <1>1, <2>4
    <3>2. copies'[t][r] + 1 <= run + cutOff
      BY <1>1, <2>1, <3>1
    <3> QED
      BY <2>2, <2>4, <3>2
  <2> QED
    BY <2>3, <2>4
<1>10. CASE UNCHANGED vars
  BY <1>1, <1>10 DEF vars, Acknowledged
<1> QED
  BY <1>2, <1>3, <1>4, <1>5, <1>6, <1>7, <1>8, <1>9, <1>10 DEF Next, WriteStep

\* However the sends fail, each copy of a row beyond the first is owed to a
\* run that made the flush again or to a failed send that had stored something.
THEOREM StorageDuplicates == Spec => []DuplicatesAccounted
<1>1. Spec => []TypeOK
  BY StorageTyped
<1> QED
  BY <1>1, AccountInit, AccountNext, PTL DEF Spec

-----------------------------------------------------------------------------
\* What is acknowledged is in place.
InPlace ==
  \A t \in TableNo : \A r \in RowsOf(t) : Acknowledged(t, r) => copies[t][r] > 0

\* A send that is acknowledged, refused or cut off adds rows to its table.
LEMMA StoredGrows ==
  ASSUME TypeOK, NEW S \in SUBSET RowsOf(writer.table), Inserting,
         \A t \in TableNo : \A r \in RowsOf(t) :
           copies'[t][r] = IF t = writer.table /\ r \in S
                           THEN copies[t][r] + 1 ELSE copies[t][r]
  PROVE  Stored' = [Stored EXCEPT ![writer.table] = @ \cup S]
<1> DEFINE T == writer.table
           In(t) == {r \in RowsOf(t) : copies[t][r] > 0}
           After(t) == {r \in RowsOf(t) : copies'[t][r] > 0}
<1>1. T \in TableNo
  BY DEF Inserting
<1>2. \A t \in TableNo : \A r \in RowsOf(t) : copies[t][r] \in Nat
  BY DEF TypeOK
<1>3. \A t \in TableNo : After(t) = IF t = T THEN In(T) \cup S ELSE In(t)
  <2> TAKE t \in TableNo
  <2>1. CASE t = T
    <3>1. \A r \in RowsOf(T) : copies'[T][r] > 0 <=> copies[T][r] > 0 \/ r \in S
      BY <1>1, <1>2
    <3> QED
      BY <2>1, <3>1
  <2>2. CASE t # T
    BY <2>2
  <2> QED
    BY <2>1, <2>2
<1>4. Stored = [t \in TableNo |-> In(t)] /\ Stored' = [t \in TableNo |-> After(t)]
  BY DEF Stored
<1> HIDE DEF In, After
<1> QED
  BY <1>1, <1>3, <1>4

LEMMA InPlaceNext == TypeOK /\ InPlace /\ [Next]_vars => InPlace'
<1> SUFFICES ASSUME TypeOK, InPlace, [Next]_vars,
                    NEW t \in TableNo, NEW r \in RowsOf(t), Acknowledged(t, r)'
             PROVE  copies'[t][r] > 0
  BY DEF InPlace
<1> USE ConstantsTyped
<1>1. /\ copies[t][r] \in Nat /\ t \in Nat /\ r \in Nat /\ 1 <= r
      /\ writer.at \in Nat /\ writer.table \in Nat
      /\ Acknowledged(t, r) => copies[t][r] > 0
  BY DEF TypeOK, InPlace, TableNo, RowsOf, Writer
<1>2. CASE SendAcknowledged
  <2>1. copies'[t][r] = IF t = writer.table /\ r \in Batch
                        THEN copies[t][r] + 1 ELSE copies[t][r]
    BY <1>2, StoreAdds DEF SendAcknowledged, Sending
  <2>2. Acknowledged(t, r) \/ (t = writer.table /\ r \in Batch)
    BY <1>1, <1>2 DEF SendAcknowledged, NextBatch, Acknowledged, Batch, TypeOK, Writer
  <2> QED
    BY <1>1, <2>1, <2>2
<1>3. CASE SendFails
  <2>1. PICK S \in SUBSET Batch : CutOff(S)
    BY <1>3 DEF SendFails
  <2>2. copies'[t][r] = IF t = writer.table /\ r \in S
                        THEN copies[t][r] + 1 ELSE copies[t][r]
    BY <1>3, <2>1, CutOffAdds DEF SendFails, Sending
  <2>3. Acknowledged(t, r)
    BY <1>3 DEF SendFails, Failed, Acknowledged, TypeOK, Writer
  <2> QED
    BY <1>1, <2>2, <2>3
<1>4. CASE TableDone
  <2>1. writer'.table = writer.table + 1 /\ writer'.at = 1
    BY <1>4 DEF TableDone, TypeOK, Writer
  <2>2. t = writer.table => r < writer.at
    BY <1>1, <1>4 DEF TableDone, Inserting, Sending, RowsOf
  <2>3. Acknowledged(t, r)
    BY <1>1, <2>1, <2>2 DEF Acknowledged
  <2>4. copies' = copies
    BY <1>4 DEF TableDone
  <2> QED
    BY <1>1, <2>3, <2>4
<1>5. CASE WriteDone
  BY <1>1, <1>5 DEF WriteDone, Acknowledged, TypeOK, Writer
<1>6. CASE Cancel
  BY <1>1, <1>6 DEF Cancel, Acknowledged
<1>7. CASE Crash
  <2>1. PICK S \in SUBSET (IF Sending THEN Batch ELSE {}) : CutOff(S)
    BY <1>7 DEF Crash
  <2>2. copies'[t][r] = IF t = writer.table /\ r \in S
                        THEN copies[t][r] + 1 ELSE copies[t][r]
    BY <2>1, CutOffAdds DEF Sending
  <2>3. Acknowledged(t, r)
    BY <1>7 DEF Crash, Acknowledged, TypeOK, Writer
  <2> QED
    BY <1>1, <2>2, <2>3
<1>8. CASE WriteAgain
  BY <1>1, <1>8 DEF WriteAgain, Start, Acknowledged, TableNo, RowsOf
<1>9. ASSUME NEW u \in TableNo, NEW q \in RowsOf(u), Merge(u, q)
      PROVE  copies'[t][r] > 0
  <2>1. copies'[t][r] > 0 <=> copies[t][r] > 0
    BY <1>9, MergeTakes
  <2>2. Acknowledged(t, r)' <=> Acknowledged(t, r)
    BY <1>9 DEF Merge, Acknowledged
  <2> QED
    BY <1>1, <2>1, <2>2
<1>10. CASE UNCHANGED vars
  BY <1>1, <1>10 DEF vars, Acknowledged
<1> QED
  BY <1>2, <1>3, <1>4, <1>5, <1>6, <1>7, <1>8, <1>9, <1>10 DEF Next, WriteStep

-----------------------------------------------------------------------------
\* A failed send is an Insert of the contract, whatever the writer does next
\* to its attempts.
LEMMA CutOffInserts ==
  ASSUME TypeOK, NEW S \in SUBSET Batch, Sending, CutOff(S),
         writer'.table = writer.table
  PROVE  Contract!Insert
<1>1. Inserting /\ S \in SUBSET RowsOf(writer.table) /\ writer.pc = "insert"
  BY DEF Sending, Inserting, Batch
<1>2. Stored' = [Stored EXCEPT ![writer.table] = @ \cup S]
  BY <1>1, CutOffAdds, StoredGrows
<1>3. writer.table \in 1 .. Len(RowCount)
  BY <1>1 DEF Inserting, TableNo
<1>4. [t \in TableNo |-> RowsOf(t)][writer.table] = RowsOf(writer.table)
  BY <1>1 DEF Inserting
<1> QED
  BY <1>1, <1>2, <1>3, <1>4 DEF Contract!Insert

LEMMA ContractStep ==
  ASSUME TypeOK, InPlace, [Next]_vars
  PROVE  [Contract!ContractNext]_(Contract!contractVars)
<1> USE DEF Contract!ContractNext, Contract!contractVars
<1>1. CASE SendAcknowledged
  <2>1. Inserting /\ Batch \in SUBSET RowsOf(writer.table) /\ writer.pc = "insert"
    BY <1>1 DEF SendAcknowledged, Sending, Inserting, Batch
  <2>2. Stored' = [Stored EXCEPT ![writer.table] = @ \cup Batch]
    BY <1>1, <2>1, StoreAdds, StoredGrows DEF SendAcknowledged
  <2>3. writer.table \in 1 .. Len(RowCount)
        /\ [t \in TableNo |-> RowsOf(t)][writer.table] = RowsOf(writer.table)
    BY <2>1 DEF Inserting, TableNo
  <2>4. writer'.pc = "insert" /\ writer'.table = writer.table
    BY <1>1, <2>1 DEF SendAcknowledged, NextBatch, TypeOK, Writer
  <2> QED
    BY <2>1, <2>2, <2>3, <2>4 DEF Contract!Insert
<1>2. CASE SendFails
  <2>1. writer'.table = writer.table /\ Sending
    BY <1>2 DEF SendFails, Failed, TypeOK, Writer
  <2> QED
    BY <1>2, <2>1, CutOffInserts DEF SendFails
<1>3. CASE TableDone
  <2>1. writer.table \in TableNo /\ writer.pc = "insert"
        /\ ~(writer.at <= RowCount[writer.table])
    BY <1>3 DEF TableDone, Inserting, Sending
  <2>2. writer'.table = writer.table + 1 /\ writer'.pc = "insert" /\ copies' = copies
    BY <1>3, <2>1 DEF TableDone, TypeOK, Writer
  <2>3. \A r \in RowsOf(writer.table) : copies[writer.table][r] > 0
    BY <2>1, ConstantsTyped DEF InPlace, Acknowledged, RowsOf, TypeOK, Writer
  <2>4. Stored[writer.table] = RowsOf(writer.table)
    BY <2>1, <2>3 DEF Stored
  <2>5. [t \in TableNo |-> RowsOf(t)][writer.table] = RowsOf(writer.table)
        /\ writer.table \in 1 .. Len(RowCount)
    BY <2>1 DEF TableNo
  <2>6. Stored' = Stored
    BY <2>2 DEF Stored
  <2> QED
    BY <2>1, <2>2, <2>4, <2>5, <2>6 DEF Contract!Advance
<1>4. CASE WriteDone
  <2>1. writer.pc = "insert" /\ writer'.pc = "nil" /\ writer'.table = writer.table
    BY <1>4 DEF WriteDone, TypeOK, Writer
  <2>2. Stored' = Stored
    BY <1>4 DEF WriteDone, Stored
  <2> QED
    BY <2>1, <2>2 DEF Contract!End
<1>5. CASE Cancel
  BY <1>5 DEF Cancel, Stored
<1>6. CASE Crash
  <2>1. writer.pc = "insert" /\ writer'.pc = "dead" /\ writer'.table = writer.table
    BY <1>6 DEF Crash, TypeOK, Writer
  <2>2. CASE Sending
    BY <1>6, <2>1, <2>2, CutOffInserts DEF Crash
  <2>3. CASE ~Sending
    <3>1. copies' = copies
      BY <1>6, <2>3 DEF Crash, CutOff
    <3>2. Stored' = Stored
      BY <3>1 DEF Stored
    <3> QED
      BY <2>1, <3>2 DEF Contract!End
  <2> QED
    BY <2>2, <2>3
<1>7. CASE WriteAgain
  <2>1. writer.pc # "insert" /\ writer'.pc = "insert" /\ writer'.table = 1
    BY <1>7 DEF WriteAgain, Start
  <2>2. Stored' = Stored
    BY <1>7 DEF WriteAgain, Stored
  <2> QED
    BY <2>1, <2>2 DEF Contract!Again
<1>8. ASSUME NEW t \in TableNo, NEW r \in RowsOf(t), Merge(t, r)
      PROVE  [Contract!ContractNext]_(Contract!contractVars)
  <2>1. \A u \in TableNo : \A q \in RowsOf(u) : copies'[u][q] > 0 <=> copies[u][q] > 0
    BY <1>8, MergeTakes
  <2>2. Stored' = Stored
    BY <2>1 DEF Stored
  <2> QED
    BY <1>8, <2>2 DEF Merge
<1>9. CASE UNCHANGED vars
  BY <1>9 DEF vars, Stored
<1> QED
  BY <1>1, <1>2, <1>3, <1>4, <1>5, <1>6, <1>7, <1>8, <1>9 DEF Next, WriteStep

LEMMA ContractStart == Init => Contract!ContractInit
<1> SUFFICES ASSUME Init PROVE Contract!ContractInit
  OBVIOUS
<1>1. \A t \in TableNo : {r \in RowsOf(t) : copies[t][r] > 0} = {}
  BY DEF Init
<1>2. Stored = [t \in 1 .. Len(RowCount) |-> {}]
  BY <1>1 DEF Stored, TableNo
<1> QED
  BY <1>2, StartTyped DEF Init, Contract!ContractInit

\* The sends, retries, failures and repetitions of a flush keep the contract of
\* an insert, on which CheckpointPipeline and Crawler rely.
THEOREM StorageImplementsInsert == Spec => ImplementsInsert
<1>1. Spec => []TypeOK
  BY StorageTyped
<1>2. Init => InPlace
  BY DEF Init, Start, InPlace, Acknowledged, TableNo, RowsOf
<1> QED
  BY <1>1, <1>2, InPlaceNext, ContractStart, ContractStep, PTL
  DEF Spec, ImplementsInsert, Contract!ContractSpec
=============================================================================
