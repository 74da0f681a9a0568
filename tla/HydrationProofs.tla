--------------------------- MODULE HydrationProofs ---------------------------
(***************************************************************************)
(* Theorems about Hydration, for every set of batches, every answer of the *)
(* archive and all sizes of slices, semaphores and attempts.               *)
(***************************************************************************)
EXTENDS Hydration, Sums, FiniteSetTheorems, SequenceTheorems, TLAPS

-----------------------------------------------------------------------------
(***************************************************************************)
(* Stacks of segments.  The segments of a batch of n digests; the          *)
(* positions a stack still owes; a stack whose segments follow each other  *)
(* and so do not overlap.                                                  *)
(***************************************************************************)
Segs(n) == {s \in [lo : 1 .. n, hi : 1 .. n] : s.lo <= s.hi}

Owed(todo) == UNION {Items(todo[k]) : k \in DOMAIN todo}

InOrder(todo) == \A j, k \in DOMAIN todo : j < k => todo[j].hi < todo[k].lo

LEMMA SegmentTyped ==
  ASSUME NEW n \in Nat, NEW s \in Segs(n)
  PROVE  /\ s.lo \in 1 .. n /\ s.hi \in 1 .. n /\ s.lo <= s.hi
         /\ s.lo \in Int /\ s.hi \in Int
         /\ \A i : i \in Items(s) <=> i \in Int /\ s.lo <= i /\ i <= s.hi
BY DEF Segs, Items

LEMMA StackTyped ==
  ASSUME NEW n \in Nat, NEW todo \in Seq(Segs(n))
  PROVE  /\ Len(todo) \in Nat /\ DOMAIN todo = 1 .. Len(todo)
         /\ \A k \in DOMAIN todo : todo[k] \in Segs(n)
         /\ Owed(todo) \subseteq 1 .. n
<1>1. /\ Len(todo) \in Nat /\ DOMAIN todo = 1 .. Len(todo)
      /\ \A k \in DOMAIN todo : todo[k] \in Segs(n)
  BY LenProperties, ElementOfSeq
<1>2. \A k \in DOMAIN todo : Items(todo[k]) \subseteq 1 .. n
  BY <1>1, SegmentTyped
<1> QED
  BY <1>1, <1>2 DEF Owed

LEMMA StackPop ==
  ASSUME NEW n \in Nat, NEW todo \in Seq(Segs(n)), todo # <<>>, InOrder(todo)
  PROVE  /\ Head(todo) \in Segs(n) /\ Tail(todo) \in Seq(Segs(n))
         /\ InOrder(Tail(todo))
         /\ Owed(todo) = Items(Head(todo)) \cup Owed(Tail(todo))
         /\ \A i \in Owed(Tail(todo)) : i > Head(todo).hi
<1> DEFINE rest == Tail(todo)
<1>1. /\ Head(todo) \in Segs(n) /\ rest \in Seq(Segs(n))
      /\ Len(rest) = Len(todo) - 1 /\ Len(todo) \in Nat /\ Len(rest) \in Nat
      /\ \A k \in 1 .. Len(rest) : rest[k] = todo[k + 1]
  BY HeadTailProperties, LenProperties, EmptySeq
<1>2. Head(todo) = todo[1]
  BY <1>1
<1>3. DOMAIN rest = 1 .. Len(todo) - 1 /\ DOMAIN todo = 1 .. Len(todo) /\ Len(todo) >= 1
  BY <1>1
<1> HIDE DEF rest
<1>4. InOrder(rest)
  <2> SUFFICES ASSUME NEW j \in DOMAIN rest, NEW k \in DOMAIN rest, j < k
               PROVE  rest[j].hi < rest[k].lo
    BY DEF InOrder
  <2>1. j + 1 \in DOMAIN todo /\ k + 1 \in DOMAIN todo /\ j + 1 < k + 1
    BY <1>1, <1>3
  <2> QED
    BY <1>1, <1>3, <2>1 DEF InOrder
<1>5. Owed(todo) = Items(Head(todo)) \cup Owed(rest)
  <2>1. ASSUME NEW i \in Owed(todo) PROVE i \in Items(Head(todo)) \cup Owed(rest)
    <3>1. PICK k \in DOMAIN todo : i \in Items(todo[k])
      BY <2>1 DEF Owed
    <3>2. CASE k = 1
      BY <1>2, <3>1, <3>2
    <3>3. CASE k # 1
      <4>1. k - 1 \in DOMAIN rest /\ rest[k - 1] = todo[k]
        BY <1>1, <1>3, <3>3
      <4> QED
        BY <3>1, <4>1 DEF Owed
    <3> QED
      BY <3>2, <3>3
  <2>2. Items(Head(todo)) \subseteq Owed(todo)
    BY <1>2, <1>3 DEF Owed
  <2>3. ASSUME NEW i \in Owed(rest) PROVE i \in Owed(todo)
    <3>1. PICK k \in DOMAIN rest : i \in Items(rest[k])
      BY <2>3 DEF Owed
    <3>2. k + 1 \in DOMAIN todo /\ todo[k + 1] = rest[k]
      BY <1>1, <1>3
    <3> QED
      BY <3>1, <3>2 DEF Owed
  <2> QED
    BY <2>1, <2>2, <2>3
<1>6. ASSUME NEW i \in Owed(rest) PROVE i > Head(todo).hi
  <2>1. PICK k \in DOMAIN rest : i \in Items(rest[k])
    BY <1>6 DEF Owed
  <2>2. k + 1 \in DOMAIN todo /\ todo[k + 1] = rest[k] /\ 1 \in DOMAIN todo /\ 1 < k + 1
    BY <1>1, <1>3
  <2>3. Head(todo).hi < rest[k].lo
    BY <1>2, <2>2 DEF InOrder
  <2>4. rest[k] \in Segs(n)
    BY <1>1, <2>2, <1>3, ElementOfSeq, StackTyped
  <2> QED
    BY <1>1, <2>1, <2>3, <2>4, SegmentTyped
<1> QED
  BY <1>1, <1>4, <1>5, <1>6 DEF rest

\* A segment taken off the stack may be replaced by parts of it.
LEMMA StackPush ==
  ASSUME NEW n \in Nat, NEW top \in Segs(n), NEW new \in Seq(Segs(n)),
         NEW rest \in Seq(Segs(n)), InOrder(new), InOrder(rest),
         Owed(new) \subseteq Items(top), \A i \in Owed(rest) : i > top.hi
  PROVE  /\ new \o rest \in Seq(Segs(n)) /\ InOrder(new \o rest)
         /\ Owed(new \o rest) = Owed(new) \cup Owed(rest)
<1> DEFINE all == new \o rest
<1>1. /\ all \in Seq(Segs(n)) /\ Len(all) = Len(new) + Len(rest)
      /\ Len(new) \in Nat /\ Len(rest) \in Nat /\ Len(all) \in Nat
      /\ DOMAIN all = 1 .. Len(new) + Len(rest)
      /\ DOMAIN new = 1 .. Len(new) /\ DOMAIN rest = 1 .. Len(rest)
  BY ConcatProperties, LenProperties
<1>2. /\ \A k \in DOMAIN new : k \in DOMAIN all /\ all[k] = new[k]
      /\ \A k \in DOMAIN rest : k + Len(new) \in DOMAIN all /\ all[k + Len(new)] = rest[k]
      /\ \A k \in DOMAIN all : \/ k \in DOMAIN new
                               \/ k - Len(new) \in DOMAIN rest
                                  /\ k = (k - Len(new)) + Len(new)
  BY <1>1, ConcatProperties
<1> HIDE DEF all
<1>3. ASSUME NEW k \in DOMAIN new
      PROVE  /\ new[k] \in Segs(n) /\ new[k].lo \in Items(top) /\ new[k].hi \in Items(top)
             /\ new[k].hi <= top.hi
  <2>1. new[k] \in Segs(n)
    BY StackTyped
  <2>2. new[k].lo \in Items(new[k]) /\ new[k].hi \in Items(new[k])
    BY <2>1, SegmentTyped
  <2>3. new[k].lo \in Items(top) /\ new[k].hi \in Items(top)
    BY <2>2 DEF Owed
  <2> QED
    BY <2>1, <2>3, SegmentTyped
<1>4. ASSUME NEW k \in DOMAIN rest
      PROVE  rest[k] \in Segs(n) /\ rest[k].lo > top.hi
  <2>1. rest[k] \in Segs(n)
    BY StackTyped
  <2>2. rest[k].lo \in Items(rest[k])
    BY <2>1, SegmentTyped
  <2> QED
    BY <2>1, <2>2 DEF Owed
<1>5. InOrder(all)
  <2> SUFFICES ASSUME NEW j \in DOMAIN all, NEW k \in DOMAIN all, j < k
               PROVE  all[j].hi < all[k].lo
    BY DEF InOrder
  <2>1. CASE j \in DOMAIN new /\ k \in DOMAIN new
    BY <1>2, <2>1 DEF InOrder
  <2>2. CASE j \in DOMAIN new /\ k \notin DOMAIN new
    <3>1. all[j] = new[j] /\ k - Len(new) \in DOMAIN rest /\ all[k] = rest[k - Len(new)]
      BY <1>2, <2>2
    <3>2. new[j] \in Segs(n) /\ new[j].hi <= top.hi
      BY <1>3, <2>2
    <3>3. rest[k - Len(new)] \in Segs(n) /\ rest[k - Len(new)].lo > top.hi
      BY <1>4, <3>1
    <3> QED
      BY <3>1, <3>2, <3>3, SegmentTyped
  <2>3. CASE j \notin DOMAIN new
    <3>1. k \notin DOMAIN new
      BY <1>1, <2>3
    <3>2. /\ j - Len(new) \in DOMAIN rest /\ all[j] = rest[j - Len(new)]
          /\ k - Len(new) \in DOMAIN rest /\ all[k] = rest[k - Len(new)]
      BY <1>2, <2>3, <3>1
    <3>3. j - Len(new) < k - Len(new)
      BY <1>1
    <3> QED
      BY <3>2, <3>3 DEF InOrder
  <2> QED
    BY <2>1, <2>2, <2>3
<1>6. Owed(all) = Owed(new) \cup Owed(rest)
  <2>1. \A k \in DOMAIN all : \/ \E j \in DOMAIN new : all[k] = new[j]
                              \/ \E j \in DOMAIN rest : all[k] = rest[j]
    BY <1>2
  <2>2. Owed(all) \subseteq Owed(new) \cup Owed(rest)
    BY <2>1 DEF Owed
  <2>3. \A k \in DOMAIN new : \E j \in DOMAIN all : all[j] = new[k]
    BY <1>2
  <2>4. \A k \in DOMAIN rest : \E j \in DOMAIN all : all[j] = rest[k]
    BY <1>2
  <2>5. Owed(new) \subseteq Owed(all) /\ Owed(rest) \subseteq Owed(all)
    BY <2>3, <2>4 DEF Owed
  <2> QED
    BY <2>2, <2>5
<1> QED
  BY <1>1, <1>5, <1>6 DEF all

LEMMA StackOfNone ==
  ASSUME NEW n \in Nat
  PROVE  <<>> \in Seq(Segs(n)) /\ InOrder(<<>>) /\ Owed(<<>>) = {}
BY DEF InOrder, Owed

LEMMA StackOfOne ==
  ASSUME NEW n \in Nat, NEW s \in Segs(n)
  PROVE  <<s>> \in Seq(Segs(n)) /\ InOrder(<<s>>) /\ Owed(<<s>>) = Items(s)
<1>1. DOMAIN <<s>> = {1} /\ <<s>>[1] = s /\ <<s>> \in Seq(Segs(n))
  OBVIOUS
<1>2. Owed(<<s>>) = UNION {Items(<<s>>[k]) : k \in {1}}
  BY <1>1 DEF Owed
<1>3. InOrder(<<s>>)
  BY <1>1 DEF InOrder
<1>4. UNION {Items(<<s>>[k]) : k \in {1}} = Items(s)
  BY <1>1
<1> QED
  BY <1>1, <1>2, <1>3, <1>4

\* The two halves of a segment of several digests are the whole of it.
LEMMA HalvesCut ==
  ASSUME NEW n \in Nat, NEW s \in Segs(n), s.lo # s.hi
  PROVE  /\ Halves(s) \in Seq(Segs(n)) /\ InOrder(Halves(s))
         /\ Owed(Halves(s)) = Items(s)
<1> DEFINE mid == (s.hi - s.lo + 1) \div 2
           a == Segment(s.lo, s.lo + mid - 1)
           b == Segment(s.lo + mid, s.hi)
<1>1. s.lo \in 1 .. n /\ s.hi \in 1 .. n /\ s.lo < s.hi
  BY SegmentTyped
<1>2. mid \in Int /\ 1 <= mid /\ mid <= s.hi - s.lo
  BY <1>1
<1> HIDE DEF mid
<1>3. a \in Segs(n) /\ b \in Segs(n)
  BY <1>1, <1>2 DEF Segs, Segment
<1>4. a.lo = s.lo /\ a.hi = s.lo + mid - 1 /\ b.lo = s.lo + mid /\ b.hi = s.hi
  BY DEF Segment
<1>5. Halves(s) = <<a, b>>
  BY DEF Halves, mid
<1>6. Items(a) \cup Items(b) = Items(s)
  BY <1>1, <1>2, <1>3, <1>4, SegmentTyped
<1> HIDE DEF a, b
<1>7. DOMAIN <<a, b>> = {1, 2} /\ <<a, b>>[1] = a /\ <<a, b>>[2] = b
  OBVIOUS
<1>8. Owed(<<a, b>>) = Items(a) \cup Items(b)
  <2>1. Owed(<<a, b>>) = UNION {Items(<<a, b>>[k]) : k \in {1, 2}}
    BY <1>7 DEF Owed
  <2> QED
    BY <1>7, <2>1
<1>9. InOrder(<<a, b>>)
  BY <1>1, <1>2, <1>4, <1>7 DEF InOrder
<1> QED
  BY <1>3, <1>5, <1>6, <1>8, <1>9

\* What is left of a segment around one of its positions.
LEMMA SidesCut ==
  ASSUME NEW n \in Nat, NEW s \in Segs(n), NEW i \in Items(s)
  PROVE  /\ Sides(s, i) \in Seq(Segs(n)) /\ InOrder(Sides(s, i))
         /\ Owed(Sides(s, i)) = Items(s) \ {i}
<1> DEFINE left == Segment(s.lo, i - 1)
           right == Segment(i + 1, s.hi)
           L == IF s.lo < i THEN <<left>> ELSE <<>>
           R == IF i < s.hi THEN <<right>> ELSE <<>>
<1>1. /\ s.lo \in 1 .. n /\ s.hi \in 1 .. n /\ s.lo <= s.hi
      /\ i \in Int /\ s.lo <= i /\ i <= s.hi
  BY SegmentTyped
<1>2. /\ left.lo = s.lo /\ left.hi = i - 1 /\ right.lo = i + 1 /\ right.hi = s.hi
  BY DEF Segment
<1>3. s.lo < i => left \in Segs(n)
  BY <1>1 DEF Segs, Segment
<1>4. i < s.hi => right \in Segs(n)
  BY <1>1 DEF Segs, Segment
<1> HIDE DEF left, right
<1>5. /\ L \in Seq(Segs(n)) /\ InOrder(L)
      /\ Owed(L) = {j \in Items(s) : j < i}
  <2>1. CASE s.lo < i
    <3>1. Items(left) = {j \in Items(s) : j < i}
      BY <1>1, <1>2, <1>3, <2>1, SegmentTyped
    <3> QED
      BY <1>3, <2>1, <3>1, StackOfOne
  <2>2. CASE ~(s.lo < i)
    <3>1. {j \in Items(s) : j < i} = {}
      BY <1>1, <2>2, SegmentTyped
    <3> QED
      BY <2>2, <3>1, StackOfNone
  <2> QED
    BY <2>1, <2>2
<1>6. /\ R \in Seq(Segs(n)) /\ InOrder(R)
      /\ Owed(R) = {j \in Items(s) : j > i}
  <2>1. CASE i < s.hi
    <3>1. Items(right) = {j \in Items(s) : j > i}
      BY <1>1, <1>2, <1>4, <2>1, SegmentTyped
    <3> QED
      BY <1>4, <2>1, <3>1, StackOfOne
  <2>2. CASE ~(i < s.hi)
    <3>1. {j \in Items(s) : j > i} = {}
      BY <1>1, <2>2, SegmentTyped
    <3> QED
      BY <2>2, <3>1, StackOfNone
  <2> QED
    BY <2>1, <2>2
<1>7. Sides(s, i) = L \o R
  BY DEF Sides, left, right
<1> HIDE DEF L, R
<1> DEFINE t == [lo |-> s.lo, hi |-> i]
<1>8. t \in Segs(n) /\ t.lo = s.lo /\ t.hi = i
  BY <1>1 DEF Segs
<1>9. Owed(L) \subseteq Items(t)
  BY <1>1, <1>5, <1>8, SegmentTyped
<1>10. \A j \in Owed(R) : j > t.hi
  BY <1>6, <1>8
<1> HIDE DEF t
<1>11. /\ L \o R \in Seq(Segs(n)) /\ InOrder(L \o R)
       /\ Owed(L \o R) = Owed(L) \cup Owed(R)
  BY <1>5, <1>6, <1>8, <1>9, <1>10, StackPush
<1>12. Owed(L) \cup Owed(R) = Items(s) \ {i}
  BY <1>1, <1>5, <1>6, SegmentTyped
<1> QED
  BY <1>7, <1>11, <1>12

\* A set of natural numbers that is not empty has a least element: the lemma
\* behind Min.
LEMMA MinLeast ==
  ASSUME NEW S \in SUBSET Nat, S # {}
  PROVE  Min(S) \in S /\ \A i \in S : Min(S) <= i
BY Least DEF Min

-----------------------------------------------------------------------------
(***************************************************************************)
(* What one hydrator has in hand.  t is its task, r its result.            *)
(***************************************************************************)
Bare == {"reduced", "digest only"}

Working(t) == t.pc \notin {"persist", "done", "failed"}

TaskRecord(h) ==
  [pc : TaskPC, next : 1 .. Len(Batch[h]) + 1, todo : Seq(Segs(Len(Batch[h]))),
   attempt : 0 .. MaxAttempts, bad : Positions(h) \cup {0}, asked : Nat]

\* The stack, the transaction that is being degraded and the position of the
\* next slice keep apart.
StackOK(h, t) ==
  /\ InOrder(t.todo)
  /\ t.pc \in {"wait", "call"} => t.todo # <<>>
  /\ t.pc \in {"degrade", "reduced"} <=> t.bad # 0
  /\ t.bad \notin Owed(t.todo)
  /\ Working(t) => \A i \in Owed(t.todo) \cup {t.bad} : i < t.next
  /\ t.bad # 0 => Batch[h][t.bad] \in Malformed
  /\ t.pc # "failed" => t.attempt < MaxAttempts
  /\ t.pc = "persist" => t.next <= Len(Batch[h])
  /\ t.pc = "done" => t.next = Len(Batch[h]) + 1

\* The result: the bodies that are missing are those of malformed transactions,
\* and each position before the next slice has its row, or is on the stack, or is
\* the one that is being degraded; the latter two have no row without a body.
RowsOK(h, t, r) ==
  /\ \A i \in Positions(h) : /\ r[i] = "full" => Batch[h][i] \notin Malformed
                             /\ r[i] \in Bare => Batch[h][i] \in Malformed
  /\ t.pc \in {"persist", "done"} => \A i \in Positions(h) : r[i] # "none"
  /\ Working(t) =>
       \A i \in Positions(h) :
         /\ i >= t.next => r[i] = "none"
         /\ i < t.next => r[i] # "none" \/ i = t.bad \/ i \in Owed(t.todo)
         /\ i = t.bad \/ i \in Owed(t.todo) => r[i] \notin Bare

TaskOK(h, t, r) ==
  /\ t \in TaskRecord(h) /\ r \in [Positions(h) -> Row]
  /\ StackOK(h, t) /\ RowsOK(h, t, r)

\* Nothing else changes in the records of the hydrators.
Only(h) ==
  /\ task' = [task EXCEPT ![h] = task'[h]]
  /\ rows' = [rows EXCEPT ![h] = rows'[h]]

TasksInv ==
  /\ DOMAIN task = Hydrators /\ task = [h \in Hydrators |-> task[h]]
  /\ DOMAIN rows = Hydrators /\ rows = [h \in Hydrators |-> rows[h]]
  /\ \A h \in Hydrators : TaskOK(h, task[h], rows[h])

LEMMA BatchTyped ==
  ASSUME NEW h \in Hydrators
  PROVE  /\ Len(Batch[h]) \in Nat /\ Len(Batch[h]) >= 1
         /\ Positions(h) = 1 .. Len(Batch[h]) /\ Positions(h) \subseteq Nat
         /\ \A i \in Positions(h) : Batch[h][i] \in Digest
         /\ \A i, j \in Positions(h) : Batch[h][i] = Batch[h][j] => i = j
<1>1. /\ Batch[h] \in Seq(Digest) /\ Batch[h] # <<>> /\ IsInjective(Batch[h])
  BY BatchAssumption
<1>2. /\ Len(Batch[h]) \in Nat /\ DOMAIN Batch[h] = 1 .. Len(Batch[h])
      /\ \A i \in 1 .. Len(Batch[h]) : Batch[h][i] \in Digest
  BY <1>1, LenProperties, ElementOfSeq
<1>3. Len(Batch[h]) # 0
  BY <1>1, EmptySeq
<1> QED
  BY <1>1, <1>2, <1>3 DEF Positions, IsInjective

LEMMA SizesTyped ==
  /\ BatchSize \in Nat /\ BatchSize >= 1 /\ BatchSlots \in Nat /\ BatchSlots >= 1
  /\ GrpcSlots \in Nat /\ GrpcSlots >= 1 /\ MaxAttempts \in Nat /\ MaxAttempts >= 1
  /\ MaxFaults \in Nat
BY ClientAssumption

\* The fields of a task.
LEMMA TaskTyped ==
  ASSUME NEW h \in Hydrators, NEW t \in TaskRecord(h)
  PROVE  /\ t.pc \in TaskPC /\ t.next \in 1 .. Len(Batch[h]) + 1
         /\ t.todo \in Seq(Segs(Len(Batch[h]))) /\ t.attempt \in 0 .. MaxAttempts
         /\ t.bad \in Positions(h) \cup {0} /\ t.asked \in Nat
BY DEF TaskRecord

LEMMA TasksInit == Init => TasksInv
<1> SUFFICES ASSUME Init PROVE TasksInv
  OBVIOUS
<1>1. ASSUME NEW h \in Hydrators PROVE TaskOK(h, task[h], rows[h])
  <2> DEFINE t == [pc |-> "ask", next |-> 1, todo |-> <<>>, attempt |-> 0,
                   bad |-> 0, asked |-> 0]
             r == [i \in Positions(h) |-> "none"]
  <2>1. task[h] = t /\ rows[h] = r
    BY DEF Init
  <2>2. t \in TaskRecord(h)
    BY BatchTyped, StackOfNone, SizesTyped DEF TaskRecord, TaskPC
  <2>3. r \in [Positions(h) -> Row]
    BY DEF Row
  <2>4. Owed(t.todo) = {} /\ InOrder(t.todo)
    BY BatchTyped, StackOfNone
  <2>5. StackOK(h, t)
    BY <2>4, SizesTyped DEF StackOK
  <2>6. RowsOK(h, t, r)
    BY <2>4, BatchTyped DEF RowsOK, Bare
  <2> QED
    BY <2>1, <2>2, <2>3, <2>5, <2>6 DEF TaskOK
<1> QED
  BY <1>1 DEF TasksInv, Init

LEMMA Changes ==
  ASSUME NEW h \in Hydrators, TasksInv, NEW t, NEW r,
         task' = [task EXCEPT ![h] = t], rows' = [rows EXCEPT ![h] = r]
  PROVE  Only(h) /\ task'[h] = t /\ rows'[h] = r
<1>1. task'[h] = t /\ rows'[h] = r
  BY DEF TasksInv
<1> QED
  BY <1>1 DEF Only

LEMMA ChangesTask ==
  ASSUME NEW h \in Hydrators, TasksInv, NEW t,
         task' = [task EXCEPT ![h] = t], UNCHANGED rows
  PROVE  Only(h) /\ task'[h] = t /\ rows'[h] = rows[h]
<1>1. task'[h] = t
  BY DEF TasksInv
<1>2. rows' = [rows EXCEPT ![h] = rows[h]]
  BY DEF TasksInv
<1> QED
  BY <1>1, <1>2 DEF Only

\* What a working hydrator knows, field by field.
LEMMA InHand ==
  ASSUME NEW h \in Hydrators, TasksInv
  PROVE  /\ TaskOK(h, task[h], rows[h])
         /\ task[h] \in TaskRecord(h) /\ rows[h] \in [Positions(h) -> Row]
         /\ StackOK(h, task[h]) /\ RowsOK(h, task[h], rows[h])
BY DEF TasksInv, TaskOK

LEMMA NextSliceOK ==
  ASSUME NEW h \in Hydrators, TasksInv, NextSlice(h)
  PROVE  Only(h) /\ TaskOK(h, task'[h], rows'[h])
<1> DEFINE t == task[h]
           n == Len(Batch[h])
           end == SliceEnd(h)
           s == Segment(t.next, end)
           u == [t EXCEPT !.todo = <<s>>, !.next = end + 1]
<1>1. Only(h) /\ task'[h] = u /\ rows'[h] = rows[h]
  <2>1. task' = [task EXCEPT ![h] = u]
    BY DEF NextSlice
  <2> QED
    BY <2>1, ChangesTask DEF NextSlice
<1>2. /\ t \in TaskRecord(h) /\ StackOK(h, t) /\ RowsOK(h, t, rows[h])
      /\ t.pc = "ask" /\ t.todo = <<>> /\ t.next <= n
      /\ rows[h] \in [Positions(h) -> Row]
  BY InHand DEF NextSlice
<1>3. t.next \in 1 .. n /\ n \in Nat /\ t.bad \in Positions(h) \cup {0}
  BY <1>2, TaskTyped, BatchTyped
<1>4. end \in t.next .. n
  <2>1. {t.next + BatchSize - 1, n} \in SUBSET Nat
    BY <1>3, SizesTyped
  <2>2. end \in {t.next + BatchSize - 1, n} /\ \A i \in {t.next + BatchSize - 1, n} : end <= i
    BY <2>1, MinLeast DEF SliceEnd
  <2> QED
    BY <1>3, <2>2, SizesTyped
<1>5. s \in Segs(n) /\ s.lo = t.next /\ s.hi = end
  BY <1>3, <1>4 DEF Segs, Segment
<1> HIDE DEF end, s
<1>6. /\ u.pc = "ask" /\ u.next = end + 1 /\ u.todo = <<s>> /\ u.attempt = t.attempt
      /\ u.bad = t.bad /\ u.asked = t.asked
  BY <1>2 DEF TaskRecord
<1>7. /\ <<s>> \in Seq(Segs(n)) /\ InOrder(<<s>>) /\ Owed(<<s>>) = Items(s)
      /\ \A i : i \in Items(s) <=> i \in Int /\ t.next <= i /\ i <= end
  BY <1>3, <1>5, StackOfOne, SegmentTyped
<1>8. u \in TaskRecord(h)
  <2>1. end + 1 \in 1 .. n + 1
    BY <1>3, <1>4
  <2> QED
    BY <1>2, <1>7, <2>1 DEF TaskRecord
<1>9. t.bad = 0
  BY <1>2 DEF StackOK
<1>10. StackOK(h, u)
  BY <1>2, <1>3, <1>4, <1>6, <1>7, <1>9 DEF StackOK
<1>11. RowsOK(h, u, rows[h])
  <2>1. Owed(t.todo) = {}
    BY <1>2, <1>3, StackOfNone
  <2>2. ASSUME NEW i \in Positions(h)
        PROVE  /\ i >= u.next => rows[h][i] = "none"
               /\ i < u.next => rows[h][i] # "none" \/ i = u.bad \/ i \in Owed(u.todo)
               /\ i = u.bad \/ i \in Owed(u.todo) => rows[h][i] \notin Bare
    <3>1. /\ i >= t.next => rows[h][i] = "none"
          /\ i < t.next => rows[h][i] # "none"
          /\ i \in Int /\ i # 0
      BY <1>2, <1>3, <1>9, <2>1, BatchTyped DEF RowsOK, Working
    <3>2. i >= end + 1 => i >= t.next
      BY <1>3, <1>4, <3>1
    <3>3. i < end + 1 => i < t.next \/ i \in Items(s)
      BY <1>3, <1>4, <1>7, <3>1
    <3>4. i \in Items(s) => i >= t.next
      BY <1>7
    <3> QED
      BY <1>6, <1>7, <1>9, <3>1, <3>2, <3>3, <3>4 DEF Bare
  <2> QED
    BY <1>2, <1>6, <2>2 DEF RowsOK
<1> QED
  BY <1>1, <1>2, <1>8, <1>10, <1>11 DEF TaskOK

\* Nothing is missing from a batch whose slices are done: the check cannot fail.
LEMMA HydratedOK ==
  ASSUME NEW h \in Hydrators, TasksInv, Hydrated(h)
  PROVE  /\ Only(h) /\ TaskOK(h, task'[h], rows'[h])
         /\ task'[h].pc = "persist" /\ rows'[h] = rows[h]
         /\ task'[h].attempt = task[h].attempt /\ task'[h].next = 1
<1> DEFINE t == task[h]
           n == Len(Batch[h])
           u == [t EXCEPT !.next = 1, !.pc = "persist"]
<1>1. /\ t \in TaskRecord(h) /\ StackOK(h, t) /\ RowsOK(h, t, rows[h])
      /\ t.pc = "ask" /\ t.todo = <<>> /\ t.next > n
      /\ rows[h] \in [Positions(h) -> Row]
  BY InHand DEF Hydrated
<1>2. t.next \in 1 .. n + 1 /\ n \in Nat /\ n >= 1
  BY <1>1, TaskTyped, BatchTyped
<1>3. Owed(t.todo) = {} /\ t.bad = 0
  BY <1>1, <1>2, StackOfNone DEF StackOK
<1>4. \A i \in Positions(h) : rows[h][i] # "none"
  <2> SUFFICES ASSUME NEW i \in Positions(h) PROVE rows[h][i] # "none"
    OBVIOUS
  <2>1. i \in 1 .. n
    BY BatchTyped
  <2> QED
    BY <1>1, <1>2, <1>3, <2>1 DEF RowsOK, Working
<1>5. Only(h) /\ task'[h] = u /\ rows'[h] = rows[h]
  <2>1. task' = [task EXCEPT ![h] = u]
    BY <1>4 DEF Hydrated
  <2> QED
    BY <2>1, ChangesTask DEF Hydrated
<1>6. /\ u.pc = "persist" /\ u.next = 1 /\ u.todo = t.todo /\ u.attempt = t.attempt
      /\ u.bad = t.bad /\ u.asked = t.asked
  BY <1>1 DEF TaskRecord
<1>7. u \in TaskRecord(h)
  <2>1. 1 \in 1 .. n + 1 /\ "persist" \in TaskPC
    BY <1>2 DEF TaskPC
  <2> QED
    BY <1>1, <2>1 DEF TaskRecord
<1>8. StackOK(h, u)
  BY <1>1, <1>2, <1>3, <1>6 DEF StackOK, Working
<1>9. RowsOK(h, u, rows[h])
  BY <1>1, <1>4, <1>6 DEF RowsOK, Working
<1> QED
  BY <1>1, <1>5, <1>6, <1>7, <1>8, <1>9 DEF TaskOK

\* Going on with the same stack, or giving up.
LEMMA Relabel ==
  ASSUME NEW h \in Hydrators, NEW t, NEW r, TaskOK(h, t, r), Working(t),
         NEW pc \in TaskPC \ {"persist", "done"}, NEW n \in 0 .. MaxAttempts,
         pc \in {"wait", "call"} => t.todo # <<>>,
         pc \in {"degrade", "reduced"} <=> t.bad # 0,
         pc # "failed" => n < MaxAttempts
  PROVE  TaskOK(h, [t EXCEPT !.pc = pc, !.attempt = n], r)
<1> DEFINE u == [t EXCEPT !.pc = pc, !.attempt = n]
<1>1. t \in TaskRecord(h) /\ StackOK(h, t) /\ RowsOK(h, t, r)
  BY DEF TaskOK
<1>2. /\ u.pc = pc /\ u.next = t.next /\ u.todo = t.todo /\ u.attempt = n
      /\ u.bad = t.bad /\ u.asked = t.asked /\ u \in TaskRecord(h)
  BY <1>1 DEF TaskRecord
<1>3. StackOK(h, u)
  BY <1>1, <1>2 DEF StackOK, Working
<1>4. RowsOK(h, u, r)
  BY <1>1, <1>2 DEF RowsOK, Working
<1> QED
  BY <1>2, <1>3, <1>4 DEF TaskOK

\* Transactions come in: some that were owed and that the archive can render.
LEMMA Filled ==
  ASSUME NEW h \in Hydrators, NEW t, NEW r, TaskOK(h, t, r), Working(t),
         NEW S, S \subseteq Owed(t.todo),
         \A i \in S : Batch[h][i] \notin Malformed
  PROVE  TaskOK(h, t, [i \in Positions(h) |-> IF i \in S THEN "full" ELSE r[i]])
<1> DEFINE q == [i \in Positions(h) |-> IF i \in S THEN "full" ELSE r[i]]
<1>1. /\ t \in TaskRecord(h) /\ StackOK(h, t) /\ RowsOK(h, t, r)
      /\ r \in [Positions(h) -> Row]
  BY DEF TaskOK
<1>2. q \in [Positions(h) -> Row]
  BY <1>1 DEF Row
<1>3. \A i \in S : i < t.next
  BY <1>1 DEF StackOK
<1>4. t.next \in Int /\ Positions(h) \subseteq Int
  BY <1>1, TaskTyped, BatchTyped
<1>5. RowsOK(h, t, q)
  <2>1. \A i \in Positions(h) : i >= t.next => i \notin S
    BY <1>3, <1>4
  <2>2. \A i \in Positions(h) : q[i] = IF i \in S THEN "full" ELSE r[i]
    OBVIOUS
  <2> HIDE DEF q
  <2> QED
    BY <1>1, <2>1, <2>2 DEF RowsOK, Working, Bare
<1> QED
  BY <1>1, <1>2, <1>5 DEF TaskOK

\* The task after a call that is over for good.
Settled(t, pc, bad, todo) ==
  [t EXCEPT !.pc = pc, !.bad = bad, !.todo = todo, !.attempt = 0,
            !.asked = t.asked + 1]

\* A call got its answer: what it was asked for is there, or on the new stack, or
\* to be degraded.
LEMMA AnsweredOK ==
  ASSUME NEW h \in Hydrators, NEW t, NEW r, TaskOK(h, t, r), t.pc = "call",
         NEW pc \in {"ask", "degrade", "failed"}, NEW bad \in Positions(h) \cup {0},
         NEW todo \in Seq(Segs(Len(Batch[h]))), InOrder(todo),
         Owed(todo) \subseteq Owed(t.todo),
         pc = "degrade" <=> bad # 0,
         bad # 0 => bad \in Owed(t.todo) \ Owed(todo) /\ Batch[h][bad] \in Malformed,
         pc # "failed" => \A i \in Owed(t.todo) : i \in Owed(todo) \/ i = bad \/ r[i] # "none"
  PROVE  TaskOK(h, Settled(t, pc, bad, todo), r)
<1> DEFINE u == Settled(t, pc, bad, todo)
<1>1. /\ t \in TaskRecord(h) /\ StackOK(h, t) /\ RowsOK(h, t, r)
      /\ r \in [Positions(h) -> Row]
  BY DEF TaskOK
<1>2. 0 \in 0 .. MaxAttempts /\ 0 < MaxAttempts
  BY SizesTyped
<1>3. t.asked + 1 \in Nat /\ pc \in TaskPC
  BY <1>1, TaskTyped DEF TaskPC
<1>4. u \in TaskRecord(h)
  BY <1>1, <1>2, <1>3 DEF TaskRecord, Settled
<1>5. /\ u.pc = pc /\ u.next = t.next /\ u.todo = todo /\ u.attempt = 0
      /\ u.bad = bad
  BY <1>1 DEF TaskRecord, Settled
<1>6. t.bad = 0 /\ Working(t) /\ \A i \in Owed(t.todo) : i < t.next
  BY <1>1 DEF StackOK, Working
<1>7. 0 \notin Owed(todo)
  <2>1. Owed(todo) \subseteq 1 .. Len(Batch[h])
    BY BatchTyped, StackTyped
  <2> QED
    BY <2>1, BatchTyped
<1>8. 0 < t.next
  BY <1>1, TaskTyped, BatchTyped
<1>9. StackOK(h, u)
  <2>1. bad \notin Owed(todo)
    BY <1>7
  <2>2. \A i \in Owed(todo) \cup {bad} : i < t.next
    BY <1>6, <1>8
  <2> HIDE DEF u
  <2> QED
    BY <1>2, <1>5, <1>6, <2>1, <2>2 DEF StackOK
<1>10. RowsOK(h, u, r)
  <2>1. Working(u) <=> pc # "failed"
    BY <1>5 DEF Working
  <2>2. ASSUME NEW i \in Positions(h), Working(u)
        PROVE  /\ i >= t.next => r[i] = "none"
               /\ i < t.next => r[i] # "none" \/ i = bad \/ i \in Owed(todo)
               /\ i = bad \/ i \in Owed(todo) => r[i] \notin Bare
    <3>1. i # 0
      BY BatchTyped
    <3>2. /\ i >= t.next => r[i] = "none"
          /\ i < t.next => r[i] # "none" \/ i \in Owed(t.todo)
          /\ i \in Owed(t.todo) => r[i] \notin Bare
      BY <1>1, <1>6, <3>1 DEF RowsOK
    <3> QED
      BY <2>1, <2>2, <3>1, <3>2
  <2>3. pc \notin {"persist", "done"}
    OBVIOUS
  <2> HIDE DEF u
  <2> QED
    BY <1>1, <1>5, <2>2, <2>3 DEF RowsOK
<1> QED
  BY <1>1, <1>4, <1>9, <1>10 DEF TaskOK

\* The transaction that was in the way has its row.
LEMMA DegradedOK ==
  ASSUME NEW h \in Hydrators, NEW t, NEW r, TaskOK(h, t, r),
         t.pc \in {"degrade", "reduced"}, NEW row \in Bare
  PROVE  /\ t.bad \in Positions(h) /\ Batch[h][t.bad] \in Malformed
         /\ TaskOK(h, [t EXCEPT !.pc = "ask", !.attempt = 0, !.bad = 0],
                      [r EXCEPT ![t.bad] = row])
<1> DEFINE u == [t EXCEPT !.pc = "ask", !.attempt = 0, !.bad = 0]
           q == [r EXCEPT ![t.bad] = row]
<1>1. /\ t \in TaskRecord(h) /\ StackOK(h, t) /\ RowsOK(h, t, r)
      /\ r \in [Positions(h) -> Row]
  BY DEF TaskOK
<1>2. 0 \in 0 .. MaxAttempts /\ 0 < MaxAttempts
  BY SizesTyped
<1>3. u \in TaskRecord(h)
  BY <1>1, <1>2 DEF TaskRecord, TaskPC
<1>4. /\ u.pc = "ask" /\ u.next = t.next /\ u.todo = t.todo /\ u.attempt = 0
      /\ u.bad = 0
  BY <1>1 DEF TaskRecord
<1>5. /\ t.bad \in Positions(h) /\ Batch[h][t.bad] \in Malformed
      /\ t.bad \notin Owed(t.todo) /\ Working(t) /\ t.bad < t.next
      /\ \A i \in Owed(t.todo) : i < t.next
  BY <1>1, TaskTyped DEF StackOK, Working
<1>6. q \in [Positions(h) -> Row]
  BY <1>1 DEF Row, Bare
<1>7. 0 \notin Owed(t.todo)
  <2>1. Owed(t.todo) \subseteq 1 .. Len(Batch[h])
    BY <1>1, BatchTyped, StackTyped, TaskTyped
  <2> QED
    BY <2>1, BatchTyped
<1>8. 0 < t.next /\ t.next \in Int
  BY <1>1, TaskTyped, BatchTyped
<1>9. InOrder(t.todo)
  BY <1>1 DEF StackOK
<1>10. StackOK(h, u)
  <2> HIDE DEF u
  <2> QED
    BY <1>2, <1>4, <1>5, <1>7, <1>8, <1>9 DEF StackOK
<1>11. RowsOK(h, u, q)
  <2>1. \A i \in Positions(h) : q[i] = IF i = t.bad THEN row ELSE r[i]
    BY <1>1
  <2>2. row \notin {"none", "full"}
    BY DEF Bare
  <2>3. Positions(h) \subseteq Int /\ 0 \notin Positions(h)
    BY BatchTyped
  <2>4. ASSUME NEW i \in Positions(h)
        PROVE  /\ i >= t.next => q[i] = "none"
               /\ i < t.next => q[i] # "none" \/ i \in Owed(t.todo)
               /\ i \in Owed(t.todo) => q[i] \notin Bare
    <3>1. CASE i = t.bad
      BY <1>5, <1>8, <2>1, <2>2, <2>3, <3>1
    <3>2. CASE i # t.bad
      BY <1>1, <1>5, <2>1, <3>2 DEF RowsOK
    <3> QED
      BY <3>1, <3>2
  <2>5. ASSUME NEW i \in Positions(h)
        PROVE  /\ q[i] = "full" => Batch[h][i] \notin Malformed
               /\ q[i] \in Bare => Batch[h][i] \in Malformed
    BY <1>1, <1>5, <2>1, <2>2 DEF RowsOK
  <2> HIDE DEF u, q
  <2> QED
    BY <1>4, <2>3, <2>4, <2>5 DEF RowsOK
<1> QED
  BY <1>3, <1>5, <1>6, <1>10, <1>11 DEF TaskOK

-----------------------------------------------------------------------------
(***************************************************************************)
(* The steps of a hydrator, one lemma per action or kind of action.        *)
(***************************************************************************)
LEMMA SlotsOK ==
  ASSUME NEW h \in Hydrators, TasksInv,
         TakeBatchSlot(h) \/ TakeGrpcSlot(h) \/ GiveUp(h) \/ ReducedFails(h)
  PROVE  /\ Only(h) /\ TaskOK(h, task'[h], rows'[h])
         /\ rows'[h] = rows[h] /\ Working(task[h])
<1> DEFINE t == task[h]
           u(pc, n) == [t EXCEPT !.pc = pc, !.attempt = n]
<1>1. /\ TaskOK(h, t, rows[h]) /\ StackOK(h, t) /\ t \in TaskRecord(h)
      /\ t.attempt \in 0 .. MaxAttempts /\ t.bad \in Positions(h) \cup {0}
      /\ Positions(h) \subseteq Int /\ MaxAttempts \in Nat
  BY InHand, TaskTyped, BatchTyped, SizesTyped
<1>3. \A pc : [t EXCEPT !.pc = pc] = u(pc, t.attempt)
  BY <1>1 DEF TaskRecord
<1>4. ASSUME NEW pc \in TaskPC \ {"persist", "done"}, NEW n \in 0 .. MaxAttempts,
             task' = [task EXCEPT ![h] = u(pc, n)], UNCHANGED rows, Working(t),
             pc \in {"wait", "call"} => t.todo # <<>>,
             pc \in {"degrade", "reduced"} <=> t.bad # 0,
             pc # "failed" => n < MaxAttempts
      PROVE  /\ Only(h) /\ TaskOK(h, task'[h], rows'[h]) /\ rows'[h] = rows[h]
  <2>1. Only(h) /\ task'[h] = u(pc, n) /\ rows'[h] = rows[h]
    BY <1>4, ChangesTask
  <2>2. TaskOK(h, u(pc, n), rows[h])
    BY <1>1, <1>4, Relabel
  <2> QED
    BY <2>1, <2>2
<1>5. CASE TakeBatchSlot(h)
  <2>1. task' = [task EXCEPT ![h] = [t EXCEPT !.pc = "wait"]]
    BY <1>5 DEF TakeBatchSlot
  <2>2. task' = [task EXCEPT ![h] = u("wait", t.attempt)]
    BY <1>3, <2>1
  <2>3. t.pc = "ask" /\ t.todo # <<>> /\ UNCHANGED rows
    BY <1>5 DEF TakeBatchSlot
  <2>4. t.bad = 0 /\ t.attempt < MaxAttempts /\ Working(t)
    BY <1>1, <2>3 DEF StackOK, Working
  <2>5. "wait" \in TaskPC \ {"persist", "done"}
    BY DEF TaskPC
  <2> HIDE DEF u, t
  <2>6. Only(h) /\ TaskOK(h, task'[h], rows'[h]) /\ rows'[h] = rows[h]
    BY <1>1, <1>4, <2>2, <2>3, <2>4, <2>5
  <2> QED
    BY <2>4, <2>6 DEF t
<1>6. CASE TakeGrpcSlot(h) /\ t.pc = "wait"
  <2>1. task' = [task EXCEPT ![h] = [t EXCEPT !.pc = "call"]]
    BY <1>6 DEF TakeGrpcSlot
  <2>2. task' = [task EXCEPT ![h] = u("call", t.attempt)]
    BY <1>3, <2>1
  <2>3. t.pc = "wait" /\ UNCHANGED rows
    BY <1>6 DEF TakeGrpcSlot
  <2>4. t.bad = 0 /\ t.attempt < MaxAttempts /\ Working(t) /\ t.todo # <<>>
    BY <1>1, <2>3 DEF StackOK, Working
  <2>5. "call" \in TaskPC \ {"persist", "done"}
    BY DEF TaskPC
  <2> HIDE DEF u, t
  <2>6. Only(h) /\ TaskOK(h, task'[h], rows'[h]) /\ rows'[h] = rows[h]
    BY <1>1, <1>4, <2>2, <2>3, <2>4, <2>5
  <2> QED
    BY <2>4, <2>6 DEF t
<1>7. CASE TakeGrpcSlot(h) /\ t.pc = "degrade"
  <2>1. task' = [task EXCEPT ![h] = [t EXCEPT !.pc = "reduced"]]
    BY <1>7 DEF TakeGrpcSlot
  <2>2. task' = [task EXCEPT ![h] = u("reduced", t.attempt)]
    BY <1>3, <2>1
  <2>3. t.pc = "degrade" /\ UNCHANGED rows
    BY <1>7 DEF TakeGrpcSlot
  <2>4. t.bad # 0 /\ t.attempt < MaxAttempts /\ Working(t)
    BY <1>1, <2>3 DEF StackOK, Working
  <2>5. "reduced" \in TaskPC \ {"persist", "done"}
    BY DEF TaskPC
  <2> HIDE DEF u, t
  <2>6. Only(h) /\ TaskOK(h, task'[h], rows'[h]) /\ rows'[h] = rows[h]
    BY <1>1, <1>4, <2>2, <2>3, <2>4, <2>5
  <2> QED
    BY <2>4, <2>6 DEF t
<1>8. CASE GiveUp(h)
  <2>1. task' = [task EXCEPT ![h] = [t EXCEPT !.pc = "failed"]]
    BY <1>8 DEF GiveUp
  <2>2. task' = [task EXCEPT ![h] = u("failed", t.attempt)]
    BY <1>3, <2>1
  <2>3. t.pc \in {"ask", "wait"} /\ UNCHANGED rows
    BY <1>8 DEF GiveUp
  <2>4. t.bad = 0 /\ Working(t)
    BY <1>1, <2>3 DEF StackOK, Working
  <2>5. "failed" \in TaskPC \ {"persist", "done"}
    BY DEF TaskPC
  <2> HIDE DEF u, t
  <2>6. Only(h) /\ TaskOK(h, task'[h], rows'[h]) /\ rows'[h] = rows[h]
    BY <1>1, <1>4, <2>2, <2>3, <2>4, <2>5
  <2> QED
    BY <2>4, <2>6 DEF t
<1>9. CASE ReducedFails(h)
  <2>1. task' = [task EXCEPT ![h] = u("degrade", t.attempt + 1)]
    BY <1>9 DEF ReducedFails
  <2>2. t.pc = "reduced" /\ t.attempt + 1 < MaxAttempts /\ UNCHANGED rows
    BY <1>9 DEF ReducedFails
  <2>3. t.bad # 0 /\ Working(t) /\ t.attempt + 1 \in 0 .. MaxAttempts
    BY <1>1, <2>2 DEF StackOK, Working
  <2>4. "degrade" \in TaskPC \ {"persist", "done"}
    BY DEF TaskPC
  <2> HIDE DEF u, t
  <2>5. Only(h) /\ TaskOK(h, task'[h], rows'[h]) /\ rows'[h] = rows[h]
    BY <1>1, <1>4, <2>1, <2>2, <2>3, <2>4
  <2> QED
    BY <2>3, <2>5 DEF t
<1> QED
  BY <1>5, <1>6, <1>7, <1>8, <1>9 DEF TakeGrpcSlot

\* A call that is under way is for the segment on top of the stack.
LEMMA UnderWay ==
  ASSUME NEW h \in Hydrators, TasksInv, task[h].pc = "call"
  PROVE  /\ task[h].todo \in Seq(Segs(Len(Batch[h]))) /\ InOrder(task[h].todo)
         /\ Top(h) \in Segs(Len(Batch[h])) /\ Len(Batch[h]) \in Nat
         /\ Others(h) \in Seq(Segs(Len(Batch[h]))) /\ InOrder(Others(h))
         /\ Owed(task[h].todo) = Items(Top(h)) \cup Owed(Others(h))
         /\ \A i \in Owed(Others(h)) : i > Top(h).hi
         /\ Items(Top(h)) \subseteq Positions(h)
         /\ Working(task[h]) /\ task[h].bad = 0
<1>1. /\ task[h].todo \in Seq(Segs(Len(Batch[h]))) /\ InOrder(task[h].todo)
      /\ task[h].todo # <<>> /\ task[h].bad = 0
  BY InHand, TaskTyped DEF StackOK
<1>2. Len(Batch[h]) \in Nat /\ Positions(h) = 1 .. Len(Batch[h])
  BY BatchTyped
<1>3. Owed(task[h].todo) \subseteq Positions(h)
  BY <1>1, <1>2, StackTyped
<1>4. Top(h) = Head(task[h].todo) /\ Others(h) = Tail(task[h].todo)
  BY DEF Top, Others
<1>5. /\ Top(h) \in Segs(Len(Batch[h])) /\ Others(h) \in Seq(Segs(Len(Batch[h])))
      /\ InOrder(Others(h))
      /\ Owed(task[h].todo) = Items(Top(h)) \cup Owed(Others(h))
      /\ \A i \in Owed(Others(h)) : i > Top(h).hi
  <2> DEFINE n == Len(Batch[h])
             todo == task[h].todo
  <2>1. n \in Nat /\ todo \in Seq(Segs(n)) /\ InOrder(todo) /\ todo # <<>>
    BY <1>1, <1>2
  <2> HIDE DEF n, todo
  <2>2. /\ Head(todo) \in Segs(n) /\ Tail(todo) \in Seq(Segs(n))
        /\ InOrder(Tail(todo))
        /\ Owed(todo) = Items(Head(todo)) \cup Owed(Tail(todo))
        /\ \A i \in Owed(Tail(todo)) : i > Head(todo).hi
    BY <2>1, StackPop
  <2> QED
    BY <1>4, <2>2 DEF n, todo
<1>6. Working(task[h])
  BY DEF Working
<1> QED
  BY <1>1, <1>2, <1>3, <1>5, <1>6

\* What comes in with an answer: renderable transactions that were owed.
Arrived(h, S) ==
  /\ S \subseteq Owed(task[h].todo) /\ S \subseteq Positions(h)
  /\ \A i \in S : Batch[h][i] \notin Malformed
  /\ rows'[h] = [i \in Positions(h) |-> IF i \in S THEN "full" ELSE rows[h][i]]

LEMMA ArrivedNone ==
  ASSUME NEW h \in Hydrators, TasksInv, rows'[h] = rows[h]
  PROVE  Arrived(h, {})
<1>1. rows[h] \in [Positions(h) -> Row]
  BY InHand
<1>2. rows[h] = [i \in Positions(h) |-> IF i \in {} THEN "full" ELSE rows[h][i]]
  BY <1>1
<1> QED
  BY <1>2 DEF Arrived

\* The top of the stack up to position i comes in, if nothing is malformed there.
LEMMA FillTop ==
  ASSUME NEW h \in Hydrators, TasksInv, task[h].pc = "call",
         NEW S, S \subseteq Items(Top(h)), MalformedIn(h) \cap S = {}, Fill(h, S),
         NEW t, task' = [task EXCEPT ![h] = t]
  PROVE  /\ Only(h) /\ task'[h] = t /\ Arrived(h, S)
         /\ TaskOK(h, task[h], rows'[h])
<1> DEFINE q == [i \in Positions(h) |-> IF i \in S THEN "full" ELSE rows[h][i]]
<1>1. rows' = [rows EXCEPT ![h] = q]
  BY DEF Fill
<1>2. Only(h) /\ task'[h] = t /\ rows'[h] = q
  <2> HIDE DEF q
  <2> QED
    BY <1>1, Changes
<1>3. /\ S \subseteq Owed(task[h].todo) /\ S \subseteq Positions(h)
      /\ \A i \in S : Batch[h][i] \notin Malformed
  BY UnderWay DEF MalformedIn
<1>4. TaskOK(h, task[h], q)
  <2>1. TaskOK(h, task[h], rows[h]) /\ Working(task[h])
    BY UnderWay, InHand
  <2> QED
    BY <1>3, <2>1, Filled
<1> QED
  BY <1>2, <1>3, <1>4 DEF Arrived

LEMMA AnswerOK ==
  ASSUME NEW h \in Hydrators, TasksInv, Answer(h)
  PROVE  /\ Only(h) /\ TaskOK(h, task'[h], rows'[h])
         /\ task[h].pc = "call" /\ task'[h].pc \in {"ask", "degrade", "failed"}
         /\ \E S : Arrived(h, S)
<1> DEFINE t == task[h]
           n == Len(Batch[h])
<1>1. t.pc = "call"
  BY DEF Answer, AllTransactions, TooLarge, NamedMalformed, UnnamedMalformed, CallFails
<1>2. /\ t.todo \in Seq(Segs(n)) /\ InOrder(t.todo) /\ n \in Nat
      /\ Top(h) \in Segs(n) /\ Others(h) \in Seq(Segs(n)) /\ InOrder(Others(h))
      /\ Owed(t.todo) = Items(Top(h)) \cup Owed(Others(h))
      /\ \A i \in Owed(Others(h)) : i > Top(h).hi
      /\ Items(Top(h)) \subseteq Positions(h)
      /\ Working(t) /\ t.bad = 0
  BY <1>1, UnderWay
<1>3. /\ TaskOK(h, t, rows[h]) /\ t \in TaskRecord(h) /\ t.attempt \in 0 .. MaxAttempts
      /\ Positions(h) \subseteq Nat /\ 0 \notin Positions(h)
  BY InHand, TaskTyped, BatchTyped
<1>4. /\ Top(h).lo \in Items(Top(h)) /\ Top(h).hi \in Items(Top(h))
      /\ Top(h).lo \in Int /\ Top(h).hi \in Int
      /\ \A i : i \in Items(Top(h)) <=> i \in Int /\ Top(h).lo <= i /\ i <= Top(h).hi
  BY <1>2, SegmentTyped
<1>5. \A pc, bad, todo : Settled(t, pc, bad, todo).pc = pc
  BY <1>3 DEF TaskRecord, Settled
<1>6. \A pc, bad, todo : Answered(h, pc, bad, todo) =>
                           task' = [task EXCEPT ![h] = Settled(t, pc, bad, todo)]
  <2> SUFFICES ASSUME NEW pc, NEW bad, NEW todo, Answered(h, pc, bad, todo)
               PROVE  task' = [task EXCEPT ![h] = Settled(t, pc, bad, todo)]
    OBVIOUS
  <2>1. task' = [task EXCEPT ![h].pc = pc, ![h].bad = bad, ![h].todo = todo,
                             ![h].attempt = 0, ![h].asked = t.asked + 1]
    BY DEF Answered
  <2> QED
    BY <2>1 DEF Settled
<1>7. ASSUME NEW pc \in {"ask", "degrade", "failed"}, NEW bad \in Positions(h) \cup {0},
             NEW todo \in Seq(Segs(n)), UNCHANGED rows, Answered(h, pc, bad, todo),
             TaskOK(h, Settled(t, pc, bad, todo), rows[h])
      PROVE  /\ Only(h) /\ TaskOK(h, task'[h], rows'[h])
             /\ task'[h].pc \in {"ask", "degrade", "failed"}
             /\ \E S : Arrived(h, S)
  <2>1. Only(h) /\ task'[h] = Settled(t, pc, bad, todo) /\ rows'[h] = rows[h]
    BY <1>6, <1>7, ChangesTask
  <2>2. task'[h].pc = pc
    BY <1>5, <2>1
  <2> QED
    BY <1>7, <2>1, <2>2, ArrivedNone
<1>8. CASE AllTransactions(h)
  <2>1. /\ MalformedIn(h) = {} /\ Fill(h, Items(Top(h)))
        /\ Answered(h, "ask", 0, Others(h))
    BY <1>8 DEF AllTransactions
  <2>2. /\ Only(h) /\ task'[h] = Settled(t, "ask", 0, Others(h)) /\ Arrived(h, Items(Top(h)))
        /\ TaskOK(h, t, rows'[h])
    BY <1>1, <1>6, <2>1, FillTop
  <2>3. \A i \in Owed(t.todo) : i \in Owed(Others(h)) \/ rows'[h][i] # "none"
    BY <1>2, <2>2 DEF Arrived
  <2>4. TaskOK(h, Settled(t, "ask", 0, Others(h)), rows'[h])
    BY <1>1, <1>2, <2>2, <2>3, AnsweredOK
  <2> QED
    BY <1>1, <1>5, <2>2, <2>4
<1>9. CASE TooLarge(h) /\ Top(h).lo = Top(h).hi
  <2>1. Answered(h, "failed", 0, <<>>) /\ UNCHANGED rows
    BY <1>9 DEF TooLarge
  <2>2. TaskOK(h, Settled(t, "failed", 0, <<>>), rows[h])
    BY <1>1, <1>2, <1>3, StackOfNone, AnsweredOK
  <2> QED
    BY <1>1, <1>2, <1>7, <2>1, <2>2, StackOfNone
<1>10. Top(h).lo # Top(h).hi =>
         /\ Halves(Top(h)) \o Others(h) \in Seq(Segs(n))
         /\ InOrder(Halves(Top(h)) \o Others(h))
         /\ Owed(Halves(Top(h)) \o Others(h)) = Owed(t.todo)
         /\ TaskOK(h, Settled(t, "ask", 0, Halves(Top(h)) \o Others(h)), rows[h])
  <2> SUFFICES ASSUME Top(h).lo # Top(h).hi
               PROVE  /\ Halves(Top(h)) \o Others(h) \in Seq(Segs(n))
                      /\ InOrder(Halves(Top(h)) \o Others(h))
                      /\ Owed(Halves(Top(h)) \o Others(h)) = Owed(t.todo)
                      /\ TaskOK(h, Settled(t, "ask", 0, Halves(Top(h)) \o Others(h)), rows[h])
    OBVIOUS
  <2>1. /\ Halves(Top(h)) \in Seq(Segs(n)) /\ InOrder(Halves(Top(h)))
        /\ Owed(Halves(Top(h))) = Items(Top(h))
    BY <1>2, HalvesCut
  <2>2. /\ Halves(Top(h)) \o Others(h) \in Seq(Segs(n))
        /\ InOrder(Halves(Top(h)) \o Others(h))
        /\ Owed(Halves(Top(h)) \o Others(h)) = Owed(t.todo)
    BY <1>2, <2>1, StackPush
  <2>3. TaskOK(h, Settled(t, "ask", 0, Halves(Top(h)) \o Others(h)), rows[h])
    BY <1>1, <1>2, <1>3, <2>2, AnsweredOK
  <2> QED
    BY <2>2, <2>3
<1>11. CASE TooLarge(h) /\ Top(h).lo # Top(h).hi
  <2>1. Answered(h, "ask", 0, Halves(Top(h)) \o Others(h)) /\ UNCHANGED rows
    BY <1>11 DEF TooLarge
  <2> QED
    BY <1>1, <1>7, <1>10, <1>11, <2>1
<1>12. CASE UnnamedMalformed(h) /\ Top(h).lo # Top(h).hi
  <2>1. Answered(h, "ask", 0, Halves(Top(h)) \o Others(h)) /\ UNCHANGED rows
    BY <1>12 DEF UnnamedMalformed
  <2> QED
    BY <1>1, <1>7, <1>10, <1>12, <2>1
<1>13. CASE UnnamedMalformed(h) /\ Top(h).lo = Top(h).hi
  <2>1. /\ Answered(h, "degrade", Top(h).lo, Others(h)) /\ UNCHANGED rows
        /\ MalformedIn(h) # {}
    BY <1>13 DEF UnnamedMalformed
  <2>2. /\ Items(Top(h)) = {Top(h).lo} /\ Top(h).lo \in Positions(h)
        /\ Top(h).lo # 0 /\ Batch[h][Top(h).lo] \in Malformed
    BY <1>2, <1>3, <1>4, <1>13, <2>1 DEF MalformedIn
  <2>3. Top(h).lo \in Owed(t.todo) \ Owed(Others(h))
    BY <1>2, <1>4, <1>13
  <2>4. \A i \in Owed(t.todo) : i \in Owed(Others(h)) \/ i = Top(h).lo
    BY <1>2, <2>2
  <2>5. TaskOK(h, Settled(t, "degrade", Top(h).lo, Others(h)), rows[h])
    BY <1>1, <1>2, <1>3, <2>2, <2>3, <2>4, AnsweredOK
  <2> QED
    BY <1>1, <1>2, <1>7, <2>1, <2>2, <2>5
<1>14. CASE NamedMalformed(h)
  <2> DEFINE i == Min(MalformedIn(h))
             S == Top(h).lo .. i - 1
             todo == Sides(Top(h), i) \o Others(h)
  <2>1. /\ Fill(h, S) /\ MalformedIn(h) # {}
        /\ Answered(h, "degrade", i, todo)
    BY <1>14 DEF NamedMalformed
  <2>2. MalformedIn(h) \in SUBSET Nat
    BY <1>2, <1>3 DEF MalformedIn
  <2>3. i \in MalformedIn(h) /\ \A k \in MalformedIn(h) : i <= k
    BY <2>1, <2>2, MinLeast
  <2>4. /\ i \in Items(Top(h)) /\ Batch[h][i] \in Malformed
        /\ i \in Positions(h) /\ i # 0 /\ i \in Nat
    BY <1>2, <1>3, <2>3 DEF MalformedIn
  <2> HIDE DEF i
  <2>5. S \subseteq Items(Top(h)) /\ MalformedIn(h) \cap S = {}
    BY <1>4, <2>2, <2>3, <2>4
  <2>6. /\ Only(h) /\ task'[h] = Settled(t, "degrade", i, todo) /\ Arrived(h, S)
        /\ TaskOK(h, t, rows'[h])
    <3> HIDE DEF todo, S
    <3> QED
      BY <1>1, <1>6, <2>1, <2>5, FillTop
  <2>7. /\ Sides(Top(h), i) \in Seq(Segs(n)) /\ InOrder(Sides(Top(h), i))
        /\ Owed(Sides(Top(h), i)) = Items(Top(h)) \ {i}
    BY <1>2, <2>4, SidesCut
  <2>8. /\ todo \in Seq(Segs(n)) /\ InOrder(todo)
        /\ Owed(todo) = (Items(Top(h)) \ {i}) \cup Owed(Others(h))
    BY <1>2, <2>7, StackPush
  <2>9. i \in Owed(t.todo) \ Owed(todo) /\ Owed(todo) \subseteq Owed(t.todo)
    BY <1>2, <1>4, <2>4, <2>8
  <2>10. \A k \in Owed(t.todo) : k \in Owed(todo) \/ k = i
    BY <1>2, <2>8
  <2> HIDE DEF todo
  <2>11. TaskOK(h, Settled(t, "degrade", i, todo), rows'[h])
    BY <1>1, <2>4, <2>6, <2>8, <2>9, <2>10, AnsweredOK
  <2> QED
    BY <1>1, <1>5, <2>6, <2>11
<1>15. CASE CallFails(h)
  <2> DEFINE pc == IF stopping \/ t.attempt + 1 = MaxAttempts THEN "failed" ELSE "ask"
             v == [t EXCEPT !.attempt = t.attempt + 1, !.pc = pc]
  <2>1. PICK i \in Items(Top(h)) : /\ MalformedIn(h) \cap (Top(h).lo .. i - 1) = {}
                                   /\ Fill(h, Top(h).lo .. i - 1)
    BY <1>15 DEF CallFails
  <2>2. task' = [task EXCEPT ![h] = v]
    BY <1>15 DEF CallFails
  <2>3. Top(h).lo .. i - 1 \subseteq Items(Top(h))
    BY <1>4
  <2>4. /\ Only(h) /\ task'[h] = v /\ Arrived(h, Top(h).lo .. i - 1)
        /\ TaskOK(h, t, rows'[h])
    <3> HIDE DEF v
    <3> QED
      BY <1>1, <2>1, <2>2, <2>3, FillTop
  <2>5. v = [t EXCEPT !.pc = pc, !.attempt = t.attempt + 1] /\ v.pc = pc
    BY <1>3 DEF TaskRecord
  <2>6. t.attempt < MaxAttempts
    BY <1>1, InHand DEF StackOK
  <2>7. /\ pc \in TaskPC \ {"persist", "done"} /\ pc \in {"ask", "failed"}
        /\ t.attempt + 1 \in 0 .. MaxAttempts
        /\ pc # "failed" => t.attempt + 1 < MaxAttempts
    BY <1>3, <2>6, SizesTyped DEF TaskPC
  <2> HIDE DEF pc, v
  <2>8. TaskOK(h, [t EXCEPT !.pc = pc, !.attempt = t.attempt + 1], rows'[h])
    BY <1>2, <2>4, <2>7, Relabel
  <2> QED
    BY <1>1, <2>4, <2>5, <2>7, <2>8
<1> QED
  BY <1>8, <1>9, <1>11, <1>12, <1>13, <1>14, <1>15 DEF Answer

\* A transaction without its body takes its place, and is registered.
Reduced(h, row) ==
  /\ task[h].pc \in {"degrade", "reduced"} /\ task'[h].pc = "ask"
  /\ task'[h].attempt = 0
  /\ task[h].bad \in Positions(h) /\ Batch[h][task[h].bad] \in Malformed
  /\ rows[h][task[h].bad] \notin Bare /\ row \in Bare
  /\ rows'[h] = [rows[h] EXCEPT ![task[h].bad] = row]
  /\ registry' = registry \cup {Batch[h][task[h].bad]}

LEMMA ReducedOK ==
  ASSUME NEW h \in Hydrators, TasksInv,
         ReducedArrives(h) \/ ReducedRefused(h) \/ ReducedGivesUp(h)
  PROVE  /\ Only(h) /\ TaskOK(h, task'[h], rows'[h])
         /\ \E row : Reduced(h, row)
<1> DEFINE t == task[h]
           u == [t EXCEPT !.pc = "ask", !.attempt = 0, !.bad = 0]
<1>1. PICK row \in Bare : Degraded(h, row)
  BY DEF ReducedArrives, ReducedRefused, ReducedGivesUp, Bare
<1>2. t.pc \in {"degrade", "reduced"}
  BY DEF ReducedArrives, ReducedRefused, ReducedGivesUp
<1>3. /\ TaskOK(h, t, rows[h]) /\ t \in TaskRecord(h) /\ StackOK(h, t)
      /\ RowsOK(h, t, rows[h])
  BY InHand
<1> DEFINE q == [rows[h] EXCEPT ![t.bad] = row]
<1>4. t.bad \in Positions(h) /\ Batch[h][t.bad] \in Malformed /\ TaskOK(h, u, q)
  BY <1>2, <1>3, DegradedOK
<1>5. rows' = [rows EXCEPT ![h] = q] /\ task' = [task EXCEPT ![h] = u]
  BY <1>1 DEF Degraded
<1>6. Only(h) /\ task'[h] = u /\ rows'[h] = q
  <2> HIDE DEF u, q
  <2> QED
    BY <1>5, Changes
<1>7. u.pc = "ask" /\ u.attempt = 0
  BY <1>3 DEF TaskRecord
<1>8. rows[h][t.bad] \notin Bare
  BY <1>2, <1>3, <1>4 DEF RowsOK, Working
<1>9. registry' = registry \cup {Batch[h][t.bad]}
  BY <1>1 DEF Degraded
<1> QED
  BY <1>2, <1>4, <1>6, <1>7, <1>8, <1>9 DEF Reduced

LEMMA PersistOK ==
  ASSUME NEW h \in Hydrators, TasksInv, Persist(h)
  PROVE  /\ Only(h) /\ TaskOK(h, task'[h], rows'[h]) /\ rows'[h] = rows[h]
         /\ task[h].pc = "persist" /\ task[h].next \in Positions(h)
         /\ task'[h].attempt = task[h].attempt
         /\ task'[h].next = task[h].next + 1
         /\ \/ task'[h].pc = "persist" /\ task[h].next # Len(Batch[h])
            \/ task'[h].pc = "done" /\ task[h].next = Len(Batch[h])
<1> DEFINE t == task[h]
           n == Len(Batch[h])
           pc == IF t.next = n THEN "done" ELSE "persist"
           u == [t EXCEPT !.next = t.next + 1, !.pc = pc]
<1>1. /\ t \in TaskRecord(h) /\ StackOK(h, t) /\ RowsOK(h, t, rows[h])
      /\ rows[h] \in [Positions(h) -> Row] /\ t.pc = "persist" /\ t.next <= n
  BY InHand DEF Persist, StackOK
<1>2. n \in Nat /\ t.next \in 1 .. n /\ Positions(h) = 1 .. n
  BY <1>1, BatchTyped, TaskTyped
<1>3. task' = [task EXCEPT ![h] = u] /\ UNCHANGED rows
  BY DEF Persist
<1>4. Only(h) /\ task'[h] = u /\ rows'[h] = rows[h]
  <2> HIDE DEF u
  <2> QED
    BY <1>3, ChangesTask
<1>5. /\ u.pc = pc /\ u.next = t.next + 1 /\ u.todo = t.todo /\ u.attempt = t.attempt
      /\ u.bad = t.bad
  BY <1>1 DEF TaskRecord
<1>6. pc \in {"persist", "done"} /\ pc \in TaskPC
  BY DEF TaskPC
<1>7. u \in TaskRecord(h)
  <2>1. t.next + 1 \in 1 .. n + 1
    BY <1>2
  <2> HIDE DEF pc
  <2> QED
    BY <1>1, <1>6, <2>1 DEF TaskRecord
<1>8. StackOK(h, u)
  BY <1>1, <1>2, <1>5 DEF StackOK, Working
<1>9. RowsOK(h, u, rows[h])
  BY <1>1, <1>5 DEF RowsOK, Working
<1> QED
  BY <1>1, <1>2, <1>4, <1>5, <1>7, <1>8, <1>9 DEF TaskOK

LEMMA StepOK ==
  ASSUME NEW h \in Hydrators, TasksInv, Step(h)
  PROVE  Only(h) /\ TaskOK(h, task'[h], rows'[h])
BY NextSliceOK, HydratedOK, SlotsOK, AnswerOK, ReducedOK, PersistOK
   DEF Step, Degrade

\* Everything else leaves the tasks alone.
Outside == FetchStarts \/ FetchEnds \/ Stop \/ Rest \/ UNCHANGED vars

LEMMA OutsideLeaves ==
  ASSUME Outside
  PROVE  UNCHANGED <<task, rows, batchUsed, registry, ledger, faults>>
BY DEF Outside, FetchStarts, FetchEnds, Stop, Rest, vars

LEMMA NextCases ==
  ASSUME [Next]_vars
  PROVE  Outside \/ \E h \in Hydrators : Step(h)
BY DEF Next, Outside

\* The other hydrators are where they were.
LEMMA OnlyOne ==
  ASSUME NEW h \in Hydrators, TasksInv, Only(h), NEW g \in Hydrators, g # h
  PROVE  task'[g] = task[g] /\ rows'[g] = rows[g]
BY DEF Only, TasksInv

LEMMA TasksNext == TasksInv /\ [Next]_vars => TasksInv'
<1> SUFFICES ASSUME TasksInv, [Next]_vars PROVE TasksInv'
  OBVIOUS
<1>1. CASE Outside
  BY <1>1, OutsideLeaves DEF TasksInv
<1>2. ASSUME NEW h \in Hydrators, Step(h) PROVE TasksInv'
  <2>1. Only(h) /\ TaskOK(h, task'[h], rows'[h])
    BY <1>2, StepOK
  <2>2. ASSUME NEW g \in Hydrators PROVE TaskOK(g, task'[g], rows'[g])
    <3>1. CASE g = h
      BY <2>1, <3>1
    <3>2. CASE g # h
      BY <2>1, <3>2, OnlyOne, InHand
    <3> QED
      BY <3>1, <3>2
  <2>3. /\ DOMAIN task' = Hydrators /\ task' = [g \in Hydrators |-> task'[g]]
        /\ DOMAIN rows' = Hydrators /\ rows' = [g \in Hydrators |-> rows'[g]]
    BY <2>1 DEF Only, TasksInv
  <2> QED
    BY <2>2, <2>3 DEF TasksInv
<1> QED
  BY <1>1, <1>2, NextCases

-----------------------------------------------------------------------------
(***************************************************************************)
(* Slots.  Each step of a hydrator moves one task between those that hold  *)
(* a slot and those that do not, and the counter of the semaphore with it. *)
(***************************************************************************)
One(condition) == IF condition THEN 1 ELSE 0

BatchHolders == {"wait", "call"}
GrpcHolders  == {"call", "reduced"}

SlotsInv ==
  /\ batchUsed \in 0 .. BatchSlots /\ grpcUsed \in 0 .. GrpcSlots
  /\ fetching \in BOOLEAN /\ stopping \in BOOLEAN
  /\ SlotsAccounted

\* How many tasks are in some state, after one of them has moved.
LEMMA Counted ==
  ASSUME NEW h \in Hydrators, TasksInv, Only(h), NEW P,
         NEW A, A = {g \in Hydrators : task[g].pc \in P},
         NEW B, B = {g \in Hydrators : task'[g].pc \in P}
  PROVE  /\ Cardinality(A) \in Nat /\ Cardinality(B) \in Nat
         /\ Cardinality(B) = Cardinality(A) + One(task'[h].pc \in P) - One(task[h].pc \in P)
<1>1. \A g \in Hydrators : g # h => task'[g] = task[g]
  BY OnlyOne
<1>2. IsFiniteSet(A) /\ IsFiniteSet(B)
  BY BatchAssumption, FS_Subset
<1>3. Cardinality(A) \in Nat /\ Cardinality(B) \in Nat
  BY <1>2, FS_CardinalityType
<1>4. CASE task[h].pc \in P /\ task'[h].pc \in P
  <2>1. Cardinality(A) = Cardinality(B)
    BY <1>1, <1>4
  <2>2. One(task[h].pc \in P) = 1 /\ One(task'[h].pc \in P) = 1
    BY <1>4 DEF One
  <2> QED
    BY <1>3, <2>1, <2>2
<1>5. CASE task[h].pc \notin P /\ task'[h].pc \notin P
  <2>1. Cardinality(A) = Cardinality(B)
    BY <1>1, <1>5
  <2>2. One(task[h].pc \in P) = 0 /\ One(task'[h].pc \in P) = 0
    BY <1>5 DEF One
  <2> QED
    BY <1>3, <2>1, <2>2
<1>6. CASE task[h].pc \in P /\ task'[h].pc \notin P
  <2>1. B = A \ {h} /\ h \in A
    BY <1>1, <1>6
  <2>2. Cardinality(B) = Cardinality(A) - 1
    BY <1>2, <2>1, FS_RemoveElement
  <2> QED
    BY <1>3, <1>6, <2>2 DEF One
<1>7. CASE task[h].pc \notin P /\ task'[h].pc \in P
  <2>1. B = A \cup {h} /\ h \notin A
    BY <1>1, <1>7
  <2>2. Cardinality(B) = Cardinality(A) + 1
    BY <1>2, <2>1, FS_AddElement
  <2> QED
    BY <1>3, <1>7, <2>2 DEF One
<1> QED
  BY <1>4, <1>5, <1>6, <1>7

\* What a step does to the semaphores and the flags.
SlotsMoved(h) ==
  /\ batchUsed' = batchUsed + One(task'[h].pc \in BatchHolders)
                            - One(task[h].pc \in BatchHolders)
  /\ grpcUsed' = grpcUsed + One(task'[h].pc \in GrpcHolders)
                          - One(task[h].pc \in GrpcHolders)
  /\ batchUsed' <= batchUsed \/ batchUsed < BatchSlots
  /\ grpcUsed' <= grpcUsed \/ grpcUsed < GrpcSlots
  /\ UNCHANGED <<fetching, stopping>>

LEMMA StepMovesSlots ==
  ASSUME NEW h \in Hydrators, TasksInv, Step(h),
         batchUsed \in Int, grpcUsed \in Int
  PROVE  SlotsMoved(h)
<1> DEFINE t == task[h]
<1>1. t \in TaskRecord(h) /\ h \in DOMAIN task
  BY InHand DEF TasksInv
<1>2. ASSUME UNCHANGED <<batchUsed, grpcUsed, fetching, stopping>>,
             t.pc \notin BatchHolders \cup GrpcHolders,
             task'[h].pc \notin BatchHolders \cup GrpcHolders
      PROVE  SlotsMoved(h)
  BY <1>2 DEF SlotsMoved, One
<1>3. CASE NextSlice(h)
  <2>1. t.pc = "ask" /\ task'[h].pc = "ask"
    BY <1>1, <1>3 DEF NextSlice, TaskRecord
  <2> QED
    BY <1>2, <1>3, <2>1 DEF NextSlice, BatchHolders, GrpcHolders
<1>4. CASE Hydrated(h)
  <2>1. t.pc = "ask" /\ task'[h].pc = "persist"
    BY <1>4, HydratedOK DEF Hydrated
  <2> QED
    BY <1>2, <1>4, <2>1 DEF Hydrated, BatchHolders, GrpcHolders
<1>5. CASE TakeBatchSlot(h)
  <2>1. t.pc = "ask" /\ task'[h].pc = "wait"
    BY <1>1, <1>5 DEF TakeBatchSlot, TaskRecord
  <2> QED
    BY <1>5, <2>1 DEF TakeBatchSlot, SlotsMoved, One, BatchHolders, GrpcHolders
<1>6. CASE TakeGrpcSlot(h)
  <2>1. \/ t.pc = "wait" /\ task'[h].pc = "call"
        \/ t.pc = "degrade" /\ task'[h].pc = "reduced"
    BY <1>1, <1>6 DEF TakeGrpcSlot, TaskRecord
  <2> QED
    BY <1>6, <2>1 DEF TakeGrpcSlot, SlotsMoved, One, BatchHolders, GrpcHolders
<1>7. CASE GiveUp(h)
  <2>1. t.pc \in {"ask", "wait"} /\ task'[h].pc = "failed"
    BY <1>1, <1>7 DEF GiveUp, TaskRecord
  <2>2. UNCHANGED <<grpcUsed, fetching, stopping>>
    BY <1>7 DEF GiveUp
  <2>3. batchUsed' = batchUsed - One(t.pc = "wait")
    BY <1>7 DEF GiveUp, One
  <2> QED
    BY <2>1, <2>2, <2>3 DEF SlotsMoved, One, BatchHolders, GrpcHolders
<1>8. CASE Answer(h)
  <2>1. t.pc = "call" /\ task'[h].pc \in {"ask", "degrade", "failed"}
    BY <1>8, AnswerOK
  <2>2. ReleaseSlots /\ UNCHANGED <<fetching, stopping>>
    BY <1>8 DEF Answer, AllTransactions, TooLarge, NamedMalformed, UnnamedMalformed,
                CallFails
  <2> QED
    BY <2>1, <2>2 DEF ReleaseSlots, SlotsMoved, One, BatchHolders, GrpcHolders
<1>9. CASE ReducedArrives(h) \/ ReducedRefused(h)
  <2>1. t.pc = "reduced" /\ task'[h].pc = "ask"
    BY <1>9, ReducedOK DEF Reduced, ReducedArrives, ReducedRefused
  <2>2. grpcUsed' = grpcUsed - 1 /\ UNCHANGED <<batchUsed, fetching, stopping>>
    BY <1>9 DEF ReducedArrives, ReducedRefused
  <2> QED
    BY <2>1, <2>2 DEF SlotsMoved, One, BatchHolders, GrpcHolders
<1>10. CASE ReducedFails(h)
  <2>1. t.pc = "reduced" /\ task'[h].pc = "degrade"
    BY <1>1, <1>10 DEF ReducedFails, TaskRecord
  <2>2. grpcUsed' = grpcUsed - 1 /\ UNCHANGED <<batchUsed, fetching, stopping>>
    BY <1>10 DEF ReducedFails
  <2> QED
    BY <2>1, <2>2 DEF SlotsMoved, One, BatchHolders, GrpcHolders
<1>11. CASE ReducedGivesUp(h)
  <2>1. t.pc = "degrade" /\ task'[h].pc = "ask"
    BY <1>11, ReducedOK DEF Reduced, ReducedGivesUp
  <2> QED
    BY <1>2, <1>11, <2>1 DEF ReducedGivesUp, BatchHolders, GrpcHolders
<1>12. CASE Persist(h)
  <2>1. t.pc = "persist" /\ task'[h].pc \in {"persist", "done"}
    BY <1>12, PersistOK
  <2> QED
    BY <1>2, <1>12, <2>1 DEF Persist, BatchHolders, GrpcHolders
<1> QED
  BY <1>3, <1>4, <1>5, <1>6, <1>7, <1>8, <1>9, <1>10, <1>11, <1>12 DEF Step, Degrade

LEMMA SlotsInit == Init => SlotsInv
<1> SUFFICES ASSUME Init PROVE SlotsInv
  OBVIOUS
<1>1. \A P : {h \in Hydrators : task[h].pc \in P} = {} \/ "ask" \in P
  BY DEF Init
<1>2. In({"wait", "call"}) = 0 /\ In({"call", "reduced"}) = 0
  BY <1>1, FS_EmptySet DEF In
<1>3. /\ batchUsed = 0 /\ grpcUsed = 0 /\ fetching = FALSE /\ stopping = FALSE
      /\ 0 \in 0 .. BatchSlots /\ 0 \in 0 .. GrpcSlots
  BY SizesTyped DEF Init
<1>4. SlotsAccounted
  BY <1>2, <1>3 DEF SlotsAccounted
<1> QED
  BY <1>3, <1>4 DEF SlotsInv

LEMMA SlotsNext == TasksInv /\ SlotsInv /\ [Next]_vars => SlotsInv'
<1> SUFFICES ASSUME TasksInv, SlotsInv, [Next]_vars PROVE SlotsInv'
  OBVIOUS
<1> DEFINE A(P) == {g \in Hydrators : task[g].pc \in P}
           B(P) == {g \in Hydrators : task'[g].pc \in P}
<1>1. /\ batchUsed = Cardinality(A(BatchHolders))
      /\ grpcUsed = Cardinality(A(GrpcHolders)) + One(fetching)
      /\ batchUsed \in 0 .. BatchSlots /\ grpcUsed \in 0 .. GrpcSlots
      /\ fetching \in BOOLEAN /\ stopping \in BOOLEAN
  BY DEF SlotsInv, SlotsAccounted, In, BatchHolders, GrpcHolders, One
<1>2. \A P : Cardinality(A(P)) \in Nat
  BY BatchAssumption, FS_Subset, FS_CardinalityType
<1>3. SUFFICES /\ batchUsed' = Cardinality(B(BatchHolders))
               /\ grpcUsed' = Cardinality(B(GrpcHolders)) + One(fetching')
               /\ batchUsed' <= BatchSlots /\ grpcUsed' <= GrpcSlots
               /\ fetching' \in BOOLEAN /\ stopping' \in BOOLEAN
               /\ \A P : Cardinality(B(P)) \in Nat
  <2>1. One(fetching') \in Nat
    BY DEF One
  <2>2. batchUsed' \in 0 .. BatchSlots /\ grpcUsed' \in 0 .. GrpcSlots
    <3> HIDE DEF B
    <3> QED
      BY <1>3, <2>1, SizesTyped
  <2>3. /\ In({"wait", "call"})' = Cardinality(B(BatchHolders))
        /\ In({"call", "reduced"})' = Cardinality(B(GrpcHolders))
    BY DEF In, BatchHolders, GrpcHolders
  <2>4. SlotsAccounted'
    <3> HIDE DEF B
    <3> QED
      BY <1>3, <2>3 DEF SlotsAccounted, One
  <2> QED
    BY <1>3, <2>2, <2>4 DEF SlotsInv
<1>4. CASE Outside
  <2>1. UNCHANGED <<task, batchUsed>>
    BY <1>4, OutsideLeaves
  <2>2. \A P : A(P) = B(P)
    BY <2>1
  <2>3. /\ fetching' \in BOOLEAN /\ stopping' \in BOOLEAN
        /\ grpcUsed' = grpcUsed + One(fetching') - One(fetching)
        /\ grpcUsed' <= GrpcSlots
    <3>1. CASE FetchStarts
      BY <1>1, <3>1, SizesTyped DEF FetchStarts, One
    <3>2. CASE FetchEnds
      <4>1. /\ fetching = TRUE /\ fetching' = FALSE /\ grpcUsed' = grpcUsed - 1
            /\ UNCHANGED stopping
        BY <3>2 DEF FetchEnds
      <4>3. grpcUsed \in Int /\ grpcUsed <= GrpcSlots /\ GrpcSlots \in Int
        BY <1>1, SizesTyped
      <4>4. grpcUsed' = grpcUsed + One(fetching') - One(fetching)
        BY <4>1, <4>3 DEF One
      <4>5. grpcUsed' <= GrpcSlots
        BY <4>1, <4>3
      <4>6. fetching' \in BOOLEAN /\ stopping' \in BOOLEAN
        BY <1>1, <4>1
      <4> QED
        BY <4>4, <4>5, <4>6
    <3>3. CASE Stop
      BY <1>1, <3>3, SizesTyped DEF Stop, One
    <3>4. CASE Rest \/ UNCHANGED vars
      BY <1>1, <3>4, SizesTyped DEF Rest, vars, One
    <3> QED
      BY <1>4, <3>1, <3>2, <3>3, <3>4 DEF Outside
  <2> HIDE DEF A, B
  <2> QED
    BY <1>1, <1>2, <2>1, <2>2, <2>3 DEF One
<1>5. ASSUME NEW h \in Hydrators, Step(h)
      PROVE  /\ batchUsed' = Cardinality(B(BatchHolders))
             /\ grpcUsed' = Cardinality(B(GrpcHolders)) + One(fetching')
             /\ batchUsed' <= BatchSlots /\ grpcUsed' <= GrpcSlots
             /\ fetching' \in BOOLEAN /\ stopping' \in BOOLEAN
             /\ \A P : Cardinality(B(P)) \in Nat
  <2>1. SlotsMoved(h) /\ Only(h)
    BY <1>1, <1>5, StepMovesSlots, StepOK
  <2>2. \A P : /\ Cardinality(B(P)) \in Nat
               /\ Cardinality(B(P)) = Cardinality(A(P)) + One(task'[h].pc \in P)
                                                        - One(task[h].pc \in P)
    BY <2>1, Counted
  <2> HIDE DEF A, B
  <2> QED
    BY <1>1, <1>2, <2>1, <2>2, SizesTyped DEF SlotsMoved, One
<1> QED
  BY <1>4, <1>5, NextCases

-----------------------------------------------------------------------------
(***************************************************************************)
(* Failures.  Every attempt that is counted has cost a failure, so a batch *)
(* whose data are bad fails for no other reason than the ones allowed.     *)
(***************************************************************************)
TooBig(h) == \E i \in Positions(h) : Size[Batch[h][i]] > Limit

FaultsInv ==
  /\ faults \in 0 .. MaxFaults
  /\ \A h \in Hydrators : stopping \/ task[h].attempt <= faults
  /\ BadDataKeepsJobAlive

\* An answer with one transaction in it is as large as that transaction.
LEMMA FitsAlone ==
  ASSUME NEW h \in Hydrators, NEW i \in Positions(h), Items(Top(h)) = {i}, ~Fits(h)
  PROVE  TooBig(h)
<1> DEFINE S == Items(Top(h))
           f(j) == Size[Batch[h][j]]
           Iter(F) == F = [s \in SUBSET S |->
                             IF s = {} THEN 0
                             ELSE f(CHOOSE y \in s : TRUE)
                                    + F[s \ {CHOOSE y \in s : TRUE}]]
           G == [s \in SUBSET S |-> IF s = {} THEN 0 ELSE f(i)]
<1>1. f(i) \in Nat /\ Limit \in Nat
  BY ArchiveAssumption, BatchTyped
<1>2. Iter(G)
  <2> SUFFICES ASSUME NEW s \in SUBSET S
               PROVE  G[s] = IF s = {} THEN 0
                             ELSE f(CHOOSE y \in s : TRUE)
                                    + G[s \ {CHOOSE y \in s : TRUE}]
    OBVIOUS
  <2>1. CASE s = {}
    BY <2>1
  <2>2. CASE s # {}
    <3>1. s = {i} /\ (CHOOSE y \in s : TRUE) = i
      BY <2>2
    <3>2. s \ {i} = {} /\ G[{}] = 0 /\ G[s] = f(i)
      BY <3>1
    <3> QED
      BY <1>1, <3>1, <3>2
  <2> QED
    BY <2>1, <2>2
<1>3. \A F : Iter(F) => F[S] = f(i)
  BY <1>1
<1>4. Iter(CHOOSE F : Iter(F))
  BY <1>2
<1>5. MapThenSumSet(f, S) = f(i)
  BY <1>3, <1>4 DEF MapThenSumSet, MapThenFoldSet
<1> QED
  BY <1>1, <1>5 DEF Fits, TooBig

\* What a step costs, and why it may let its batch fail.
FaultsMoved(h) ==
  /\ faults' \in 0 .. MaxFaults /\ faults <= faults' /\ UNCHANGED stopping
  /\ stopping \/ task'[h].attempt <= faults'
  /\ task'[h].pc = "failed" => stopping \/ faults' >= MaxAttempts \/ TooBig(h)

LEMMA StepMovesFaults ==
  ASSUME NEW h \in Hydrators, TasksInv, FaultsInv, Step(h)
  PROVE  FaultsMoved(h)
<1> DEFINE t == task[h]
<1>1. /\ t \in TaskRecord(h) /\ h \in DOMAIN task /\ t.attempt \in 0 .. MaxAttempts
      /\ faults \in 0 .. MaxFaults /\ (stopping \/ t.attempt <= faults)
      /\ MaxAttempts \in Nat /\ MaxFaults \in Nat
  BY InHand, TaskTyped, SizesTyped DEF TasksInv, FaultsInv
<1>2. ASSUME UNCHANGED <<faults, stopping>>, task'[h].attempt \in {0, t.attempt},
             task'[h].pc # "failed" \/ stopping \/ TooBig(h)
      PROVE  FaultsMoved(h)
  BY <1>1, <1>2 DEF FaultsMoved
<1>3. CASE NextSlice(h)
  <2>1. task'[h].attempt = t.attempt /\ task'[h].pc = "ask"
    BY <1>1, <1>3 DEF NextSlice, TaskRecord
  <2> QED
    BY <1>2, <1>3, <2>1 DEF NextSlice
<1>4. CASE Hydrated(h)
  BY <1>2, <1>4, HydratedOK DEF Hydrated
<1>5. CASE TakeBatchSlot(h) \/ TakeGrpcSlot(h) \/ GiveUp(h)
  <2>1. task'[h].attempt = t.attempt /\ (stopping \/ task'[h].pc # "failed")
    BY <1>1, <1>5 DEF TakeBatchSlot, TakeGrpcSlot, GiveUp, TaskRecord
  <2>2. UNCHANGED <<faults, stopping>>
    BY <1>5 DEF TakeBatchSlot, TakeGrpcSlot, GiveUp
  <2> QED
    BY <1>2, <2>1, <2>2
<1>6. ASSUME NEW pc, NEW bad, NEW todo, Answered(h, pc, bad, todo)
      PROVE  task'[h].pc = pc /\ task'[h].attempt = 0
  BY <1>1, <1>6 DEF Answered, TaskRecord
<1>7. CASE AllTransactions(h) \/ NamedMalformed(h) \/ UnnamedMalformed(h)
  <2>1. UNCHANGED <<faults, stopping>>
    BY <1>7 DEF AllTransactions, NamedMalformed, UnnamedMalformed
  <2>2. PICK pc \in {"ask", "degrade"} : \E bad, todo : Answered(h, pc, bad, todo)
    BY <1>7 DEF AllTransactions, NamedMalformed, UnnamedMalformed
  <2>3. task'[h].pc # "failed" /\ task'[h].attempt = 0
    BY <1>6, <2>2
  <2> QED
    BY <1>2, <2>1, <2>3
<1>8. CASE TooLarge(h)
  <2>1. UNCHANGED <<faults, stopping>> /\ t.pc = "call" /\ ~Fits(h)
    BY <1>8 DEF TooLarge
  <2>2. CASE Top(h).lo # Top(h).hi
    <3>1. task'[h].pc = "ask" /\ task'[h].attempt = 0
      BY <1>6, <1>8, <2>2 DEF TooLarge
    <3> QED
      BY <1>2, <2>1, <3>1
  <2>3. CASE Top(h).lo = Top(h).hi
    <3>1. task'[h].attempt = 0
      BY <1>6, <1>8, <2>3 DEF TooLarge
    <3>2. Items(Top(h)) = {Top(h).lo} /\ Items(Top(h)) \subseteq Positions(h)
      <4>1. Top(h) \in Segs(Len(Batch[h])) /\ Len(Batch[h]) \in Nat
        BY <2>1, UnderWay
      <4>2. /\ Top(h).lo \in Int
            /\ \A j : j \in Items(Top(h)) <=> j \in Int /\ Top(h).lo <= j /\ j <= Top(h).hi
        BY <4>1, SegmentTyped
      <4>3. Items(Top(h)) = {Top(h).lo}
        BY <2>3, <4>2
      <4> QED
        BY <2>1, <4>3, UnderWay
    <3>3. TooBig(h)
      BY <2>1, <3>2, FitsAlone
    <3> QED
      BY <1>2, <2>1, <3>1, <3>3
  <2> QED
    BY <2>2, <2>3
<1>9. Fault => /\ faults' \in 0 .. MaxFaults /\ faults <= faults'
               /\ stopping \/ faults' = faults + 1
  BY <1>1 DEF Fault
<1>10. CASE CallFails(h)
  <2>1. /\ Fault /\ UNCHANGED stopping /\ task'[h].attempt = t.attempt + 1
        /\ task'[h].pc = "failed" => stopping \/ t.attempt + 1 = MaxAttempts
    BY <1>1, <1>10 DEF CallFails, TaskRecord
  <2> QED
    BY <1>1, <1>9, <2>1 DEF FaultsMoved
<1>11. CASE ReducedArrives(h) \/ ReducedRefused(h) \/ ReducedGivesUp(h)
  <2>1. UNCHANGED <<faults, stopping>>
    BY <1>11 DEF ReducedArrives, ReducedRefused, ReducedGivesUp
  <2>2. task'[h].pc = "ask" /\ task'[h].attempt = 0
    BY <1>11, ReducedOK DEF Reduced
  <2> QED
    BY <1>2, <2>1, <2>2
<1>12. CASE ReducedFails(h)
  <2>1. /\ Fault /\ UNCHANGED stopping /\ task'[h].attempt = t.attempt + 1
        /\ task'[h].pc = "degrade"
    BY <1>1, <1>12 DEF ReducedFails, TaskRecord
  <2> QED
    BY <1>1, <1>9, <2>1 DEF FaultsMoved
<1>13. CASE Persist(h)
  <2>1. task'[h].attempt = t.attempt /\ task'[h].pc # "failed"
    BY <1>13, PersistOK
  <2>2. UNCHANGED stopping /\ (UNCHANGED faults \/ Fault)
    BY <1>13 DEF Persist
  <2> QED
    BY <1>1, <1>2, <1>9, <2>1, <2>2 DEF FaultsMoved
<1> QED
  BY <1>3, <1>4, <1>5, <1>7, <1>8, <1>10, <1>11, <1>12, <1>13 DEF Step, Answer, Degrade

LEMMA FaultsInit == Init => FaultsInv
<1> SUFFICES ASSUME Init PROVE FaultsInv
  OBVIOUS
<1>1. \A h \in Hydrators : task[h].pc = "ask" /\ task[h].attempt = 0
  BY DEF Init
<1>2. faults = 0 /\ 0 \in 0 .. MaxFaults
  BY SizesTyped DEF Init
<1> QED
  BY <1>1, <1>2 DEF FaultsInv, BadDataKeepsJobAlive

LEMMA FaultsNext == TasksInv /\ FaultsInv /\ [Next]_vars => FaultsInv'
<1> SUFFICES ASSUME TasksInv, FaultsInv, [Next]_vars PROVE FaultsInv'
  OBVIOUS
<1>1. CASE Outside
  <2>1. UNCHANGED <<task, faults>> /\ (stopping => stopping')
    BY <1>1, OutsideLeaves DEF Outside, FetchStarts, FetchEnds, Stop, Rest, vars
  <2> QED
    BY <2>1 DEF FaultsInv, BadDataKeepsJobAlive
<1>2. ASSUME NEW h \in Hydrators, Step(h) PROVE FaultsInv'
  <2>1. FaultsMoved(h) /\ Only(h)
    BY <1>2, StepMovesFaults, StepOK
  <2>2. /\ faults \in Nat /\ faults' \in Nat /\ MaxAttempts \in Nat
        /\ faults <= faults' /\ UNCHANGED stopping
    BY <2>1, SizesTyped DEF FaultsMoved, FaultsInv
  <2>3. ASSUME NEW g \in Hydrators
        PROVE  /\ stopping' \/ task'[g].attempt <= faults'
               /\ task'[g].pc = "failed" => stopping' \/ faults' >= MaxAttempts \/ TooBig(g)
    <3>1. CASE g = h
      BY <2>1, <2>2, <3>1 DEF FaultsMoved
    <3>2. CASE g # h
      <4>1. task'[g] = task[g]
        BY <2>1, <3>2, OnlyOne
      <4>2. task[g].attempt \in Nat
        BY InHand, TaskTyped, SizesTyped
      <4> QED
        BY <2>2, <4>1, <4>2 DEF FaultsInv, BadDataKeepsJobAlive, TooBig
    <3> QED
      BY <3>1, <3>2
  <2> QED
    BY <2>1, <2>3 DEF FaultsInv, FaultsMoved, BadDataKeepsJobAlive, TooBig
<1> QED
  BY <1>1, <1>2, NextCases

-----------------------------------------------------------------------------
(***************************************************************************)
(* Degraded transactions.  What lacks its body and is not persisted yet is *)
(* in the registry, and nothing else is; what persistence has passed over  *)
(* is in the ledger, or recording it has cost a failure.                   *)
(***************************************************************************)
BareOf(h) == {i \in Positions(h) : rows[h][i] \in Bare}

Persisted(h) ==
  {i \in Positions(h) : \/ task[h].pc = "done"
                        \/ task[h].pc = "persist" /\ i < task[h].next}

Gaps == ({d \in Digest : \E h \in Hydrators : \E i \in Persisted(h) : Batch[h][i] = d}
           \cap Malformed) \ ledger

LedgerInv ==
  /\ registry \subseteq Malformed /\ ledger \subseteq Malformed
  /\ \A d \in registry : \E h \in Hydrators : \E i \in BareOf(h) : Batch[h][i] = d
  /\ \A h \in Hydrators : \A i \in BareOf(h) \ Persisted(h) : Batch[h][i] \in registry
  /\ IsFiniteSet(Gaps)
  /\ ~stopping => Cardinality(Gaps) <= faults

\* A digest belongs to one position of one batch.
LEMMA DigestsApart ==
  ASSUME NEW g \in Hydrators, NEW h \in Hydrators,
         NEW i \in Positions(g), NEW j \in Positions(h), Batch[g][i] = Batch[h][j]
  PROVE  g = h /\ i = j
<1>1. /\ Batch[g][i] \in Range(Batch[g]) /\ Batch[h][j] \in Range(Batch[h])
  <2>1. i \in DOMAIN Batch[g] /\ j \in DOMAIN Batch[h]
    BY BatchAssumption DEF Positions
  <2> QED
    BY <2>1 DEF Range
<1>2. g = h
  BY <1>1, BatchAssumption
<1> QED
  BY <1>2, BatchTyped

\* Steps that neither degrade nor persist.
LedgerStays(h) ==
  /\ UNCHANGED <<registry, ledger, stopping>>
  /\ BareOf(h)' = BareOf(h) /\ Persisted(h) = {} /\ Persisted(h)' = {}

LEMMA QuietSteps ==
  ASSUME NEW h \in Hydrators, TasksInv,
         \/ NextSlice(h) \/ Hydrated(h) \/ TakeBatchSlot(h) \/ TakeGrpcSlot(h)
         \/ GiveUp(h) \/ Answer(h) \/ ReducedFails(h)
  PROVE  LedgerStays(h)
<1>1. UNCHANGED <<registry, ledger, stopping>>
  BY DEF NextSlice, Hydrated, TakeBatchSlot, TakeGrpcSlot, GiveUp, ReducedFails,
         Answer, AllTransactions, TooLarge, NamedMalformed, UnnamedMalformed, CallFails
<1>2. /\ task[h] \in TaskRecord(h) /\ h \in DOMAIN task /\ RowsOK(h, task[h], rows[h])
      /\ rows[h] \in [Positions(h) -> Row]
  BY InHand DEF TasksInv
<1>3. CASE Answer(h)
  <2>1. /\ task[h].pc = "call" /\ task'[h].pc \in {"ask", "degrade", "failed"}
        /\ \E S : Arrived(h, S)
    BY <1>3, AnswerOK
  <2>2. PICK S : Arrived(h, S)
    BY <2>1
  <2>3. \A i \in S : i \in Positions(h) /\ rows[h][i] \notin Bare
    BY <1>2, <2>1, <2>2 DEF Arrived, RowsOK, Working
  <2>4. ASSUME NEW i \in Positions(h)
        PROVE  rows'[h][i] \in Bare <=> rows[h][i] \in Bare
    BY <2>2, <2>3 DEF Arrived, Bare
  <2>5. BareOf(h)' = BareOf(h)
    BY <2>4 DEF BareOf
  <2> QED
    BY <1>1, <2>1, <2>5 DEF LedgerStays, Persisted
<1>4. CASE Hydrated(h)
  <2>1. /\ task[h].pc = "ask" /\ task'[h].pc = "persist" /\ task'[h].next = 1
        /\ rows'[h] = rows[h]
    BY <1>4, HydratedOK DEF Hydrated
  <2>2. Persisted(h) = {} /\ Persisted(h)' = {}
    BY <2>1, BatchTyped DEF Persisted
  <2> QED
    BY <1>1, <2>1, <2>2 DEF LedgerStays, BareOf
<1>5. CASE NextSlice(h) \/ TakeBatchSlot(h) \/ TakeGrpcSlot(h) \/ GiveUp(h) \/ ReducedFails(h)
  <2>1. UNCHANGED rows
    BY <1>5 DEF NextSlice, TakeBatchSlot, TakeGrpcSlot, GiveUp, ReducedFails
  <2>2. task[h].pc \notin {"persist", "done"} /\ task'[h].pc \notin {"persist", "done"}
    BY <1>2, <1>5
       DEF NextSlice, TakeBatchSlot, TakeGrpcSlot, GiveUp, ReducedFails, TaskRecord
  <2> QED
    BY <1>1, <2>1, <2>2 DEF LedgerStays, BareOf, Persisted
<1> QED
  BY <1>3, <1>4, <1>5

\* The other batches keep what they lack and what they have persisted.
LEMMA OthersStay ==
  ASSUME NEW h \in Hydrators, TasksInv, Only(h), NEW g \in Hydrators, g # h
  PROVE  BareOf(g)' = BareOf(g) /\ Persisted(g)' = Persisted(g)
BY OnlyOne DEF BareOf, Persisted

\* What persistence does with the transaction it has come to.
LEMMA PersistMoves ==
  ASSUME NEW h \in Hydrators, TasksInv, Persist(h),
         NEW i, i = task[h].next, NEW d, d = Batch[h][i]
  PROVE  /\ i \in Positions(h) /\ i \notin Persisted(h)
         /\ Persisted(h)' = Persisted(h) \cup {i} /\ BareOf(h)' = BareOf(h)
         /\ i \in BareOf(h) \/ d \notin Malformed
         /\ registry' = registry \ {d} /\ UNCHANGED stopping
         /\ \/ d \notin registry /\ UNCHANGED <<ledger, faults>>
            \/ d \in registry /\ ledger' = ledger \cup {d} /\ UNCHANGED faults
            \/ d \in registry /\ Fault /\ UNCHANGED ledger
<1>1. /\ rows'[h] = rows[h] /\ task[h].pc = "persist" /\ i \in Positions(h)
      /\ task'[h].next = i + 1
      /\ \/ task'[h].pc = "persist" /\ i # Len(Batch[h])
         \/ task'[h].pc = "done" /\ i = Len(Batch[h])
  BY PersistOK
<1>2. Positions(h) = 1 .. Len(Batch[h]) /\ Len(Batch[h]) \in Nat /\ i \in Int
  BY <1>1, BatchTyped
<1>3. Persisted(h)' = Persisted(h) \cup {i}
  <2>1. ASSUME NEW j \in Positions(h)
        PROVE  \/ task'[h].pc = "done"
               \/ task'[h].pc = "persist" /\ j < task'[h].next
               <=> \/ task[h].pc = "done"
                   \/ task[h].pc = "persist" /\ j < task[h].next
                   \/ j = i
    BY <1>1, <1>2
  <2> QED
    BY <1>1, <2>1 DEF Persisted
<1>4. i \notin Persisted(h)
  BY <1>1, <1>2 DEF Persisted
<1>5. BareOf(h)' = BareOf(h)
  BY <1>1 DEF BareOf
<1>6. i \in BareOf(h) \/ d \notin Malformed
  <2>1. rows[h][i] # "none" /\ rows[h][i] \in Row
    BY <1>1, InHand DEF RowsOK
  <2>2. rows[h][i] \in Bare \/ rows[h][i] = "full"
    BY <2>1 DEF Row, Bare
  <2> QED
    BY <1>1, <2>2, InHand DEF RowsOK, BareOf
<1>7. /\ registry' = registry \ {d} /\ UNCHANGED stopping
      /\ \/ d \notin registry /\ UNCHANGED <<ledger, faults>>
         \/ d \in registry /\ ledger' = ledger \cup {d} /\ UNCHANGED faults
         \/ d \in registry /\ Fault /\ UNCHANGED ledger
  BY DEF Persist
<1> QED
  BY <1>1, <1>3, <1>4, <1>5, <1>6, <1>7

LEMMA LedgerInit == Init => LedgerInv
<1> SUFFICES ASSUME Init PROVE LedgerInv
  OBVIOUS
<1>1. ASSUME NEW h \in Hydrators PROVE BareOf(h) = {} /\ Persisted(h) = {}
  BY <1>1 DEF Init, BareOf, Persisted, Bare
<1>2. Gaps = {}
  BY <1>1 DEF Gaps
<1>3. IsFiniteSet(Gaps) /\ Cardinality(Gaps) = 0
  BY <1>2, FS_EmptySet
<1> QED
  BY <1>1, <1>3 DEF LedgerInv, Init

LEMMA LedgerNext ==
  TasksInv /\ FaultsInv /\ LedgerInv /\ [Next]_vars => LedgerInv'
<1> SUFFICES ASSUME TasksInv, FaultsInv, LedgerInv, [Next]_vars PROVE LedgerInv'
  OBVIOUS
<1>1. /\ faults \in Nat /\ faults' \in Nat /\ faults <= faults'
      /\ stopping => stopping'
  <2>1. faults \in 0 .. MaxFaults
    BY DEF FaultsInv
  <2>2. CASE Outside
    <3>1. UNCHANGED faults /\ (stopping => stopping')
      BY <2>2, OutsideLeaves DEF Outside, FetchStarts, FetchEnds, Stop, Rest, vars
    <3> QED
      BY <2>1, <3>1, SizesTyped
  <2>3. ASSUME NEW h \in Hydrators, Step(h)
        PROVE  faults' \in 0 .. MaxFaults /\ faults <= faults' /\ UNCHANGED stopping
    BY <2>3, StepMovesFaults DEF FaultsMoved
  <2> QED
    BY <2>1, <2>2, <2>3, NextCases, SizesTyped
<1>2. Cardinality(Gaps) \in Nat
  BY FS_CardinalityType DEF LedgerInv
\* Nothing that the invariant speaks of changes.
<1>3. ASSUME UNCHANGED <<registry, ledger>>,
             \A h \in Hydrators : BareOf(h)' = BareOf(h) /\ Persisted(h)' = Persisted(h)
      PROVE  LedgerInv'
  <2>1. Gaps' = Gaps
    BY <1>3 DEF Gaps
  <2> QED
    BY <1>1, <1>2, <1>3, <2>1 DEF LedgerInv
<1>4. CASE Outside
  <2>1. UNCHANGED <<task, rows, registry, ledger>>
    BY <1>4, OutsideLeaves
  <2> QED
    BY <1>3, <2>1 DEF BareOf, Persisted
<1>5. ASSUME NEW h \in Hydrators, Step(h), LedgerStays(h) PROVE LedgerInv'
  <2>1. Only(h)
    BY <1>5, StepOK
  <2>2. \A g \in Hydrators : BareOf(g)' = BareOf(g) /\ Persisted(g)' = Persisted(g)
    BY <1>5, <2>1, OthersStay DEF LedgerStays
  <2> QED
    BY <1>3, <1>5, <2>2 DEF LedgerStays
<1>6. ASSUME NEW h \in Hydrators,
             ReducedArrives(h) \/ ReducedRefused(h) \/ ReducedGivesUp(h)
      PROVE  LedgerInv'
  <2>1. PICK row : Only(h) /\ Reduced(h, row)
    BY <1>6, ReducedOK
  <2> DEFINE i == task[h].bad
  <2>2. UNCHANGED ledger /\ i \in Positions(h) /\ Batch[h][i] \in Malformed
    BY <1>6, <2>1 DEF ReducedArrives, ReducedRefused, ReducedGivesUp, Reduced
  <2>3. Persisted(h) = {} /\ Persisted(h)' = {}
    BY <2>1 DEF Reduced, Persisted
  <2>4. BareOf(h)' = BareOf(h) \cup {i}
    <3>1. rows[h] \in [Positions(h) -> Row]
      BY InHand
    <3>2. \A j \in Positions(h) : rows'[h][j] \in Bare <=> rows[h][j] \in Bare \/ j = i
      BY <2>1, <2>2, <3>1 DEF Reduced
    <3> QED
      BY <2>2, <3>2 DEF BareOf
  <2>5. \A g \in Hydrators : /\ Persisted(g)' = Persisted(g)
                             /\ g # h => BareOf(g)' = BareOf(g)
    BY <2>1, <2>3, OthersStay
  <2>6. Gaps' = Gaps
    BY <2>2, <2>5 DEF Gaps
  <2>7. registry' = registry \cup {Batch[h][i]}
    BY <2>1 DEF Reduced
  <2>8. registry' \subseteq Malformed /\ ledger' \subseteq Malformed
    BY <2>2, <2>7 DEF LedgerInv
  <2>9. ASSUME NEW d \in registry'
        PROVE  \E g \in Hydrators : \E j \in BareOf(g)' : Batch[g][j] = d
    BY <2>4, <2>5, <2>7 DEF LedgerInv
  <2>10. ASSUME NEW g \in Hydrators, NEW j \in BareOf(g)' \ Persisted(g)'
         PROVE  Batch[g][j] \in registry'
    BY <2>4, <2>5, <2>7 DEF LedgerInv
  <2> HIDE DEF i
  <2> QED
    BY <1>1, <1>2, <2>6, <2>8, <2>9, <2>10 DEF LedgerInv
<1>7. ASSUME NEW h \in Hydrators, Persist(h) PROVE LedgerInv'
  <2> DEFINE i == task[h].next
             d == Batch[h][i]
  <2>1. /\ i \in Positions(h) /\ i \notin Persisted(h)
        /\ Persisted(h)' = Persisted(h) \cup {i} /\ BareOf(h)' = BareOf(h)
        /\ i \in BareOf(h) \/ d \notin Malformed
        /\ registry' = registry \ {d} /\ UNCHANGED stopping
        /\ \/ d \notin registry /\ UNCHANGED <<ledger, faults>>
           \/ d \in registry /\ ledger' = ledger \cup {d} /\ UNCHANGED faults
           \/ d \in registry /\ Fault /\ UNCHANGED ledger
    BY <1>7, PersistMoves
  <2>2. Only(h)
    BY <1>7, PersistOK
  <2>3. \A g \in Hydrators : /\ BareOf(g)' = BareOf(g)
                             /\ g # h => Persisted(g)' = Persisted(g)
    BY <2>1, <2>2, OthersStay
  <2> HIDE DEF i
  <2>4. d \notin registry => d \notin Malformed
    BY <2>1 DEF LedgerInv
  <2>5. registry' \subseteq Malformed /\ ledger' \subseteq Malformed
    BY <2>1 DEF LedgerInv
  <2>6. ASSUME NEW e \in registry'
        PROVE  \E g \in Hydrators : \E j \in BareOf(g)' : Batch[g][j] = e
    BY <2>1, <2>3 DEF LedgerInv
  <2>7. ASSUME NEW g \in Hydrators, NEW j \in BareOf(g)' \ Persisted(g)'
        PROVE  Batch[g][j] \in registry'
    <3>1. j \in BareOf(g) \ Persisted(g) /\ j \in Positions(g)
      BY <2>1, <2>3, <2>7 DEF BareOf
    <3>2. Batch[g][j] \in registry
      BY <3>1 DEF LedgerInv
    <3>3. g # h \/ j # i
      BY <2>1, <2>7
    <3>4. Batch[g][j] # d
      BY <2>1, <3>1, <3>3, DigestsApart
    <3> QED
      BY <2>1, <3>2, <3>4
  <2>8. d \in Digest
    BY <2>1, BatchTyped
  <2> DEFINE D == {e \in Digest : \E g \in Hydrators : \E j \in Persisted(g) : Batch[g][j] = e}
             E == {e \in Digest : \E g \in Hydrators : \E j \in Persisted(g)' : Batch[g][j] = e}
  <2>9. E = D \cup {d}
    BY <2>1, <2>3, <2>8
  <2>10. Gaps = (D \cap Malformed) \ ledger /\ Gaps' = (E \cap Malformed) \ ledger'
    BY DEF Gaps
  <2> HIDE DEF D, E, d
  <2>11. CASE /\ UNCHANGED faults
              /\ \/ d \notin registry /\ UNCHANGED ledger
                 \/ ledger' = ledger \cup {d}
    <3>1. Gaps' \in SUBSET Gaps
      BY <2>1, <2>4, <2>9, <2>10, <2>11
    <3>2. IsFiniteSet(Gaps') /\ Cardinality(Gaps') <= Cardinality(Gaps)
      BY <3>1, FS_Subset DEF LedgerInv
    <3>3. Cardinality(Gaps') \in Nat
      BY <3>2, FS_CardinalityType
    <3>4. ~stopping' => Cardinality(Gaps') <= faults'
      BY <1>1, <1>2, <3>2, <3>3 DEF LedgerInv
    <3> QED
      BY <2>5, <2>6, <2>7, <3>2, <3>4 DEF LedgerInv
  <2>12. CASE Fault /\ UNCHANGED ledger
    <3>1. Gaps' \in SUBSET (Gaps \cup {d})
      BY <2>9, <2>10, <2>12
    <3>2. /\ IsFiniteSet(Gaps \cup {d})
          /\ Cardinality(Gaps \cup {d}) <= Cardinality(Gaps) + 1
          /\ Cardinality(Gaps \cup {d}) \in Nat
      <4>1. IsFiniteSet(Gaps)
        BY DEF LedgerInv
      <4> DEFINE G == Gaps
      <4> HIDE DEF G
      <4>2. IsFiniteSet(G \cup {d})
            /\ Cardinality(G \cup {d}) = IF d \in G THEN Cardinality(G) ELSE Cardinality(G) + 1
        BY <4>1, FS_AddElement DEF G
      <4>3. Cardinality(G) \in Nat /\ Cardinality(G \cup {d}) \in Nat
        BY <4>1, <4>2, FS_CardinalityType DEF G
      <4>4. Cardinality(G \cup {d}) <= Cardinality(G) + 1
        BY <4>2, <4>3
      <4> QED
        BY <4>2, <4>3, <4>4 DEF G
    <3>3. /\ IsFiniteSet(Gaps') /\ Cardinality(Gaps') <= Cardinality(Gaps \cup {d})
      BY <3>1, <3>2, FS_Subset
    <3>4. Cardinality(Gaps') \in Nat
      BY <3>3, FS_CardinalityType
    <3>5. ~stopping => faults' = faults + 1
      BY <2>12 DEF Fault
    <3>6. ~stopping' => Cardinality(Gaps') <= faults'
      BY <1>1, <1>2, <2>1, <3>2, <3>3, <3>4, <3>5 DEF LedgerInv
    <3> QED
      BY <2>5, <2>6, <2>7, <3>3, <3>6 DEF LedgerInv
  <2> QED
    BY <2>1, <2>11, <2>12
<1>8. ASSUME NEW h \in Hydrators, Step(h) PROVE LedgerInv'
  BY <1>5, <1>6, <1>7, <1>8, QuietSteps DEF Step, Degrade
<1> QED
  BY <1>4, <1>8, NextCases

-----------------------------------------------------------------------------
(***************************************************************************)
(* The refinement.  What the contract sees of a batch: its state, and the  *)
(* positions that have come in with and without their body.                *)
(***************************************************************************)
StateOf(h) == IF task[h].pc = "done" THEN "passed on"
              ELSE IF task[h].pc = "failed" THEN "given up" ELSE "working"

WholeOf(h) == Having(h, {"full"})

StateMap == [h \in Hydrators |-> StateOf(h)]
WholeMap == [h \in Hydrators |-> WholeOf(h)]
BareMap  == [h \in Hydrators |-> BareOf(h)]

LEMMA BareHaving ==
  /\ BareMap = [h \in Hydrators |-> Having(h, {"reduced", "digest only"})]
  /\ BareMap' = [h \in Hydrators |-> Having(h, {"reduced", "digest only"})']
BY DEF BareMap, BareOf, Having, Bare

LEMMA MapMoves ==
  ASSUME NEW h \in Hydrators, TasksInv, Only(h)
  PROVE  /\ StateMap' = [StateMap EXCEPT ![h] = StateOf(h)']
         /\ WholeMap' = [WholeMap EXCEPT ![h] = WholeOf(h)']
         /\ BareMap' = [BareMap EXCEPT ![h] = BareOf(h)']
<1>1. ASSUME NEW g \in Hydrators, g # h
      PROVE  /\ StateOf(g)' = StateOf(g) /\ WholeOf(g)' = WholeOf(g)
             /\ BareOf(g)' = BareOf(g)
  BY <1>1, OnlyOne DEF StateOf, WholeOf, BareOf, Having
<1> QED
  BY <1>1 DEF StateMap, WholeMap, BareMap

\* The steps of the contract, as they look from here.
TakesIn(h, S) ==
  /\ StateOf(h) = "working" /\ StateOf(h)' \in {"working", "given up"}
  /\ S \subseteq {i \in Positions(h) : Batch[h][i] \notin Malformed}
  /\ WholeOf(h)' = WholeOf(h) \cup S
  /\ UNCHANGED ledger /\ BareOf(h)' = BareOf(h)

TakesInBare(h, i) ==
  /\ StateOf(h) = "working" /\ StateOf(h)' = "working"
  /\ i \in Positions(h) /\ Batch[h][i] \in Malformed /\ i \notin BareOf(h)
  /\ BareOf(h)' = BareOf(h) \cup {i}
  /\ UNCHANGED ledger /\ WholeOf(h)' = WholeOf(h)

PassesOn(h, S) ==
  /\ StateOf(h) = "working" /\ StateOf(h)' \in {"working", "passed on"}
  /\ WholeOf(h) \cup BareOf(h) = Positions(h)
  /\ S \subseteq BareOf(h) /\ ledger' = ledger \cup {Batch[h][i] : i \in S}
  /\ WholeOf(h)' = WholeOf(h) /\ BareOf(h)' = BareOf(h)

LEMMA TakesInRefines ==
  ASSUME NEW h \in Hydrators, TasksInv, Only(h), NEW S, TakesIn(h, S)
  PROVE  Contract!ComeIn(h)
<1>1. /\ StateMap[h] = "working"
      /\ WholeMap' = [WholeMap EXCEPT ![h] = @ \cup S]
      /\ BareMap' = BareMap /\ UNCHANGED ledger
  BY MapMoves DEF TakesIn, StateMap, WholeMap, BareMap
<1>2. StateMap' \in {StateMap, [StateMap EXCEPT ![h] = "given up"]}
  BY MapMoves DEF TakesIn, StateMap
<1>3. S \in SUBSET [g \in Hydrators |->
                      {i \in Positions(g) : Batch[g][i] \notin Malformed}][h]
  BY DEF TakesIn
<1> QED
  BY <1>1, <1>2, <1>3, BareHaving
     DEF Contract!ComeIn, StateMap, WholeMap, StateOf, WholeOf

LEMMA TakesInBareRefines ==
  ASSUME NEW h \in Hydrators, TasksInv, Only(h), NEW i, TakesInBare(h, i)
  PROVE  Contract!ComeInBare(h)
<1>1. /\ StateMap[h] = "working" /\ StateMap' = StateMap
      /\ WholeMap' = WholeMap /\ UNCHANGED ledger
      /\ BareMap' = [BareMap EXCEPT ![h] = @ \cup {i}]
  BY MapMoves DEF TakesInBare, StateMap, WholeMap, BareMap
<1>2. i \in [g \in Hydrators |-> Positions(g)][h] \
              ([g \in Hydrators |->
                  {j \in Positions(g) : Batch[g][j] \notin Malformed}][h]
               \cup BareMap[h])
  BY DEF TakesInBare, BareMap
<1> QED
  BY <1>1, <1>2, BareHaving
     DEF Contract!ComeInBare, StateMap, WholeMap, StateOf, WholeOf

LEMMA PassesOnRefines ==
  ASSUME NEW h \in Hydrators, TasksInv, Only(h), NEW S, PassesOn(h, S)
  PROVE  Contract!PassOn(h)
<1>1. /\ StateMap[h] = "working" /\ WholeMap' = WholeMap /\ BareMap' = BareMap
      /\ WholeMap[h] \cup BareMap[h] = [g \in Hydrators |-> Positions(g)][h]
      /\ S \in SUBSET BareMap[h] /\ ledger' = ledger \cup {Batch[h][i] : i \in S}
  BY MapMoves DEF PassesOn, StateMap, WholeMap, BareMap
<1>2. StateMap' \in {StateMap, [StateMap EXCEPT ![h] = "passed on"]}
  BY MapMoves DEF PassesOn, StateMap
<1> QED
  BY <1>1, <1>2, BareHaving
     DEF Contract!PassOn, Contract!Complete, StateMap, WholeMap, StateOf, WholeOf

LEMMA StepTakesIn ==
  ASSUME NEW h \in Hydrators, TasksInv,
         \/ NextSlice(h) \/ Hydrated(h) \/ TakeBatchSlot(h) \/ TakeGrpcSlot(h)
         \/ GiveUp(h) \/ Answer(h) \/ ReducedFails(h)
  PROVE  \E S : TakesIn(h, S)
<1>1. UNCHANGED ledger /\ BareOf(h)' = BareOf(h)
  BY QuietSteps DEF LedgerStays
<1>2. task[h] \in TaskRecord(h) /\ h \in DOMAIN task /\ rows[h] \in [Positions(h) -> Row]
  BY InHand DEF TasksInv
<1>3. CASE Answer(h)
  <2>1. PICK S : Arrived(h, S)
    BY <1>3, AnswerOK
  <2>2. task[h].pc = "call" /\ task'[h].pc \in {"ask", "degrade", "failed"}
    BY <1>3, AnswerOK
  <2>3. \A i \in Positions(h) : rows'[h][i] = "full" <=> rows[h][i] = "full" \/ i \in S
    BY <2>1 DEF Arrived
  <2>4. WholeOf(h)' = WholeOf(h) \cup S
    BY <2>1, <2>3 DEF Arrived, WholeOf, Having
  <2>5. StateOf(h) = "working" /\ StateOf(h)' \in {"working", "given up"}
    BY <2>2 DEF StateOf
  <2>6. S \subseteq {i \in Positions(h) : Batch[h][i] \notin Malformed}
    BY <2>1 DEF Arrived
  <2> QED
    BY <1>1, <2>4, <2>5, <2>6 DEF TakesIn
<1>4. CASE \/ NextSlice(h) \/ Hydrated(h) \/ TakeBatchSlot(h) \/ TakeGrpcSlot(h)
           \/ GiveUp(h) \/ ReducedFails(h)
  <2>1. UNCHANGED rows
    BY <1>4 DEF NextSlice, Hydrated, TakeBatchSlot, TakeGrpcSlot, GiveUp, ReducedFails
  <2>2. task[h].pc \notin {"done", "failed"} /\ task'[h].pc # "done"
    <3>1. CASE Hydrated(h)
      BY <3>1, HydratedOK DEF Hydrated
    <3>2. CASE \/ NextSlice(h) \/ TakeBatchSlot(h) \/ TakeGrpcSlot(h)
               \/ GiveUp(h) \/ ReducedFails(h)
      BY <1>2, <3>2
         DEF NextSlice, TakeBatchSlot, TakeGrpcSlot, GiveUp, ReducedFails, TaskRecord
    <3> QED
      BY <1>4, <3>1, <3>2
  <2>3. WholeOf(h)' = WholeOf(h) \cup {}
    BY <2>1 DEF WholeOf, Having
  <2>4. StateOf(h) = "working" /\ StateOf(h)' \in {"working", "given up"}
    BY <2>2 DEF StateOf
  <2>5. TakesIn(h, {})
    BY <1>1, <2>3, <2>4 DEF TakesIn
  <2> QED
    BY <2>5
<1> QED
  BY <1>3, <1>4

LEMMA StepTakesInBare ==
  ASSUME NEW h \in Hydrators, TasksInv,
         ReducedArrives(h) \/ ReducedRefused(h) \/ ReducedGivesUp(h)
  PROVE  TakesInBare(h, task[h].bad)
<1> DEFINE i == task[h].bad
<1>1. PICK row : Reduced(h, row)
  BY ReducedOK
<1>2. UNCHANGED ledger
  BY DEF ReducedArrives, ReducedRefused, ReducedGivesUp
<1>3. /\ i \in Positions(h) /\ Batch[h][i] \in Malformed /\ rows[h][i] \notin Bare
      /\ row \in Bare /\ rows'[h] = [rows[h] EXCEPT ![i] = row]
      /\ StateOf(h) = "working" /\ StateOf(h)' = "working"
  BY <1>1 DEF Reduced, StateOf
<1> HIDE DEF i
<1>4. rows[h][i] # "full" /\ rows[h] \in [Positions(h) -> Row]
  BY <1>3, InHand DEF RowsOK
<1>5. \A j \in Positions(h) : /\ rows'[h][j] \in Bare <=> rows[h][j] \in Bare \/ j = i
                              /\ rows'[h][j] = "full" <=> rows[h][j] = "full"
  BY <1>3, <1>4 DEF Bare
<1>6. BareOf(h)' = BareOf(h) \cup {i} /\ i \notin BareOf(h)
  BY <1>3, <1>5 DEF BareOf
<1>7. WholeOf(h)' = WholeOf(h)
  BY <1>5 DEF WholeOf, Having
<1> QED
  BY <1>2, <1>3, <1>6, <1>7 DEF TakesInBare, i

LEMMA StepPassesOn ==
  ASSUME NEW h \in Hydrators, TasksInv, LedgerInv, Persist(h)
  PROVE  \E S : PassesOn(h, S)
<1> DEFINE i == task[h].next
           d == Batch[h][i]
<1>1. /\ i \in Positions(h) /\ BareOf(h)' = BareOf(h)
      /\ \/ UNCHANGED ledger
         \/ d \in registry /\ ledger' = ledger \cup {d}
  BY PersistMoves
<1>2. /\ rows'[h] = rows[h] /\ task[h].pc = "persist"
      /\ task'[h].pc \in {"persist", "done"}
  BY PersistOK
<1>3. WholeOf(h)' = WholeOf(h)
  BY <1>2 DEF WholeOf, Having
<1>4. StateOf(h) = "working" /\ StateOf(h)' \in {"working", "passed on"}
  BY <1>2 DEF StateOf
<1>5. WholeOf(h) \cup BareOf(h) = Positions(h)
  <2>1. \A j \in Positions(h) : rows[h][j] # "none" /\ rows[h][j] \in Row
    BY <1>2, InHand DEF RowsOK
  <2> QED
    BY <2>1 DEF WholeOf, BareOf, Having, Row, Bare
<1> HIDE DEF i
<1>6. CASE UNCHANGED ledger
  <2>1. ledger' = ledger \cup {Batch[h][j] : j \in {}} /\ {} \subseteq BareOf(h)
    BY <1>6
  <2>2. PassesOn(h, {})
    BY <1>1, <1>3, <1>4, <1>5, <2>1 DEF PassesOn
  <2> QED
    BY <2>2
<1>7. CASE d \in registry /\ ledger' = ledger \cup {d}
  <2>1. PICK g \in Hydrators : \E j \in BareOf(g) : Batch[g][j] = d
    BY <1>7 DEF LedgerInv
  <2>2. PICK j \in BareOf(g) : Batch[g][j] = d
    BY <2>1
  <2>3. g = h /\ i = j
    BY <1>1, <2>2, DigestsApart DEF BareOf
  <2>4. {i} \subseteq BareOf(h) /\ {Batch[h][k] : k \in {i}} = {d}
    BY <2>2, <2>3
  <2>5. ledger' = ledger \cup {Batch[h][k] : k \in {i}}
    BY <1>7, <2>4
  <2>6. PassesOn(h, {i})
    BY <1>1, <1>3, <1>4, <1>5, <2>4, <2>5 DEF PassesOn
  <2> QED
    BY <2>6
<1> QED
  BY <1>1, <1>6, <1>7

LEMMA ContractSteps ==
  TasksInv /\ LedgerInv /\ [Next]_vars => [Contract!ContractNext]_(Contract!contractVars)
<1> SUFFICES ASSUME TasksInv, LedgerInv, [Next]_vars
             PROVE  [Contract!ContractNext]_(Contract!contractVars)
  OBVIOUS
<1>1. CASE Outside
  <2>1. UNCHANGED <<task, rows, ledger>>
    BY <1>1, OutsideLeaves
  <2> QED
    BY <2>1 DEF Contract!contractVars, Having
<1>2. ASSUME NEW h \in Hydrators, Step(h) PROVE Contract!ContractNext
  <2>1. Only(h)
    BY <1>2, StepOK
  <2>2. \/ \E S : TakesIn(h, S)
        \/ TakesInBare(h, task[h].bad)
        \/ \E S : PassesOn(h, S)
    BY <1>2, StepTakesIn, StepTakesInBare, StepPassesOn DEF Step, Degrade
  <2>3. Contract!ComeIn(h) \/ Contract!ComeInBare(h) \/ Contract!PassOn(h)
    BY <2>1, <2>2, TakesInRefines, TakesInBareRefines, PassesOnRefines
  <2> QED
    BY <2>3 DEF Contract!ContractNext
<1> QED
  BY <1>1, <1>2, NextCases

LEMMA ContractStart == Init => Contract!ContractInit
<1> SUFFICES ASSUME Init PROVE Contract!ContractInit
  OBVIOUS
<1>1. ASSUME NEW h \in Hydrators
      PROVE  StateOf(h) = "working" /\ WholeOf(h) = {} /\ BareOf(h) = {}
  BY <1>1 DEF Init, StateOf, WholeOf, BareOf, Having, Bare
<1>2. /\ StateMap = [h \in Hydrators |-> "working"]
      /\ WholeMap = [h \in Hydrators |-> {}] /\ BareMap = [h \in Hydrators |-> {}]
  BY <1>1 DEF StateMap, WholeMap, BareMap
<1>3. ledger = {}
  BY DEF Init
<1> QED
  BY <1>2, <1>3, BareHaving DEF Contract!ContractInit, StateMap, WholeMap, StateOf, WholeOf

-----------------------------------------------------------------------------
(***************************************************************************)
(* The number of answers.  A segment of n digests may cost 2n - 1 of them, *)
(* so a stack may cost twice what it owes, less one for each segment.      *)
(***************************************************************************)
StackCost(todo) ==
  LET cost(k) == 2 * Cardinality(Items(todo[k])) - 1
  IN  MapThenSumSet(cost, DOMAIN todo)

LEMMA SegmentSize ==
  ASSUME NEW n \in Nat, NEW s \in Segs(n)
  PROVE  /\ IsFiniteSet(Items(s)) /\ Cardinality(Items(s)) \in Nat
         /\ Cardinality(Items(s)) = s.hi - s.lo + 1 /\ Cardinality(Items(s)) >= 1
<1>1. s.lo \in Int /\ s.hi \in Int /\ s.lo <= s.hi /\ Items(s) = s.lo .. s.hi
  BY SegmentTyped DEF Items
<1>2. IsFiniteSet(s.lo .. s.hi) /\ Cardinality(s.lo .. s.hi) = s.hi - s.lo + 1
  BY <1>1, FS_Interval
<1> QED
  BY <1>1, <1>2

LEMMA OwedFinite ==
  ASSUME NEW n \in Nat, NEW todo \in Seq(Segs(n))
  PROVE  /\ IsFiniteSet(Owed(todo)) /\ Cardinality(Owed(todo)) \in Nat
<1>1. Owed(todo) \subseteq 1 .. n /\ IsFiniteSet(1 .. n)
  BY StackTyped, FS_Interval
<1> QED
  BY <1>1, FS_Subset, FS_CardinalityType

LEMMA StackSum ==
  ASSUME NEW n \in Nat, NEW todo \in Seq(Segs(n)), InOrder(todo)
  PROVE  StackCost(todo) = 2 * Cardinality(Owed(todo)) - Len(todo)
<1> DEFINE D == DOMAIN todo
           cost(k) == 2 * Cardinality(Items(todo[k])) - 1
           f == [k \in D |-> cost(k)]
           Of(s) == UNION {Items(todo[k]) : k \in s}
           G == [s \in SUBSET D |-> 2 * Cardinality(Of(s)) - Cardinality(s)]
           Iter(F) == F = [s \in SUBSET D |->
                             IF s = {} THEN 0
                             ELSE cost(CHOOSE x \in s : TRUE)
                                    + F[s \ {CHOOSE x \in s : TRUE}]]
<1>1. /\ Len(todo) \in Nat /\ D = 1 .. Len(todo) /\ IsFiniteSet(D)
      /\ Cardinality(D) = Len(todo)
      /\ \A k \in D : todo[k] \in Segs(n)
  <2>1. /\ Len(todo) \in Nat /\ D = 1 .. Len(todo)
        /\ \A k \in D : todo[k] \in Segs(n)
    BY StackTyped
  <2>2. IsFiniteSet(1 .. Len(todo)) /\ Cardinality(1 .. Len(todo)) = Len(todo)
    BY <2>1, UpTo
  <2> QED
    BY <2>1, <2>2
<1>2. ASSUME NEW s \in SUBSET D
      PROVE  /\ IsFiniteSet(s) /\ Cardinality(s) \in Nat
             /\ IsFiniteSet(Of(s)) /\ Cardinality(Of(s)) \in Nat
  <2>1. IsFiniteSet(s)
    BY <1>1, FS_Subset
  <2>2. Of(s) \subseteq Owed(todo)
    BY DEF Owed
  <2>3. IsFiniteSet(Of(s))
    BY <2>2, OwedFinite, FS_Subset
  <2> QED
    BY <2>1, <2>3, FS_CardinalityType
<1>3. ASSUME NEW s \in SUBSET D, NEW x \in s
      PROVE  G[s] = f[x] + G[s \ {x}]
  <2> DEFINE rest == s \ {x}
  <2>1. Of(s) = Of(rest) \cup Items(todo[x])
    OBVIOUS
  <2>2. Of(rest) \cap Items(todo[x]) = {}
    <3> SUFFICES ASSUME NEW k \in rest
                 PROVE  Items(todo[k]) \cap Items(todo[x]) = {}
      OBVIOUS
    <3>1. k < x \/ x < k
      BY <1>1
    <3>2. todo[k].hi < todo[x].lo \/ todo[x].hi < todo[k].lo
      BY <3>1 DEF InOrder
    <3>3. todo[k] \in Segs(n) /\ todo[x] \in Segs(n)
      BY <1>1
    <3> QED
      BY <3>2, <3>3, SegmentTyped
  <2>3. rest \in SUBSET D /\ x \in D
    OBVIOUS
  <2>4. /\ IsFiniteSet(Items(todo[x])) /\ Cardinality(Items(todo[x])) \in Nat
    BY <1>1, <2>3, SegmentSize
  <2>5. /\ IsFiniteSet(Of(rest)) /\ Cardinality(Of(rest)) \in Nat
        /\ IsFiniteSet(s) /\ Cardinality(s) \in Nat /\ Cardinality(rest) \in Nat
    BY <1>2, <2>3
  <2>6. Cardinality(Of(s)) = Cardinality(Of(rest)) + Cardinality(Items(todo[x]))
    <3> HIDE DEF Of, rest
    <3>1. Cardinality({}) = 0
      BY FS_EmptySet
    <3>2. Cardinality(Of(rest) \cup Items(todo[x]))
            = Cardinality(Of(rest)) + Cardinality(Items(todo[x])) - Cardinality({})
      BY <2>2, <2>4, <2>5, FS_Union
    <3> QED
      BY <2>1, <2>4, <2>5, <3>1, <3>2
  <2>7. Cardinality(rest) = Cardinality(s) - 1
    BY <2>5, FS_RemoveElement
  <2>8. /\ G[s] = 2 * Cardinality(Of(s)) - Cardinality(s)
        /\ G[rest] = 2 * Cardinality(Of(rest)) - Cardinality(rest)
        /\ f[x] = 2 * Cardinality(Items(todo[x])) - 1
    BY <2>3
  <2> HIDE DEF Of, rest, G, f
  <2>9. G[s] = f[x] + G[rest]
    BY <2>4, <2>5, <2>6, <2>7, <2>8
  <2> QED
    BY <2>9 DEF rest
<1>4. G[{}] = 0
  <2>1. Of({}) = {}
    OBVIOUS
  <2>2. Cardinality({}) = 0
    BY FS_EmptySet
  <2>3. G[{}] = 2 * Cardinality(Of({})) - Cardinality({})
    OBVIOUS
  <2> HIDE DEF Of, G
  <2>4. Cardinality(Of({})) = 0
    BY <2>1, <2>2
  <2> QED
    BY <2>2, <2>3, <2>4
<1>5. IsSum(G, f, D)
  <2>1. ASSUME NEW s \in SUBSET D
        PROVE  G[s] = IF s = {} THEN 0
                      ELSE f[CHOOSE x \in s : TRUE] + G[s \ {CHOOSE x \in s : TRUE}]
    <3> HIDE DEF G, f
    <3>1. CASE s = {}
      BY <1>4, <3>1
    <3>2. CASE s # {}
      <4>1. (CHOOSE x \in s : TRUE) \in s
        BY <3>2
      <4> QED
        BY <1>3, <3>2, <4>1
    <3> QED
      BY <3>1, <3>2
  <2>2. DOMAIN G = SUBSET D /\ G = [s \in SUBSET D |-> G[s]]
    OBVIOUS
  <2> HIDE DEF G, f
  <2>3. G = [s \in SUBSET D |-> IF s = {} THEN 0
                      ELSE f[CHOOSE x \in s : TRUE] + G[s \ {CHOOSE x \in s : TRUE}]]
    BY <2>1, <2>2
  <2> QED
    BY <2>3 DEF IsSum
<1>6. ASSUME NEW F PROVE Iter(F) <=> IsSum(F, f, D)
  <2>1. \A s \in SUBSET D : s # {} => f[CHOOSE x \in s : TRUE] = cost(CHOOSE x \in s : TRUE)
    OBVIOUS
  <2> HIDE DEF f, cost
  <2> QED
    BY <2>1 DEF IsSum
<1>7. G[D] = 2 * Cardinality(Owed(todo)) - Len(todo)
  <2>1. Of(D) = Owed(todo)
    BY DEF Owed
  <2>2. G[D] = 2 * Cardinality(Of(D)) - Cardinality(D)
    OBVIOUS
  <2> HIDE DEF Of, G
  <2> QED
    BY <1>1, <2>1, <2>2
<1> HIDE DEF G, f, Of
<1>8. IsSum(CHOOSE F : Iter(F), f, D)
  <2> HIDE DEF Iter
  <2>1. Iter(G)
    BY <1>5, <1>6
  <2>2. Iter(CHOOSE F : Iter(F))
    BY <2>1
  <2> QED
    BY <1>6, <2>2
<1>9. (CHOOSE F : Iter(F))[D] = G[D]
  BY <1>1, <1>5, <1>8, SumUnique
<1>10. StackCost(todo) = (CHOOSE F : Iter(F))[D]
  BY DEF StackCost, MapThenSumSet, MapThenFoldSet
<1> QED
  BY <1>7, <1>9, <1>10
LEMMA StackCostTyped ==
  ASSUME NEW n \in Nat, NEW todo \in Seq(Segs(n)), InOrder(todo)
  PROVE  StackCost(todo) \in Int
BY StackSum, OwedFinite, StackTyped

\* When what comes back on the stack for its top costs two answers less than
\* twice the digests of the top, the stack has become cheaper by one.
LEMMA CostReplaced ==
  ASSUME NEW n \in Nat, NEW todo \in Seq(Segs(n)), todo # <<>>, InOrder(todo),
         NEW new \in Seq(Segs(n)), InOrder(new), Owed(new) \subseteq Items(Head(todo)),
         StackCost(new) + 2 <= 2 * Cardinality(Items(Head(todo)))
  PROVE  StackCost(new \o Tail(todo)) + 1 <= StackCost(todo)
<1> DEFINE top == Head(todo)
           rest == Tail(todo)
           all == new \o rest
<1>1. /\ top \in Segs(n) /\ rest \in Seq(Segs(n)) /\ InOrder(rest)
      /\ Owed(todo) = Items(top) \cup Owed(rest)
      /\ \A i \in Owed(rest) : i > top.hi
  BY StackPop
<1>2. Len(todo) = Len(rest) + 1 /\ Len(todo) \in Nat /\ Len(rest) \in Nat
  BY HeadTailProperties, LenProperties, EmptySeq
<1> HIDE DEF top, rest
<1>3. all \in Seq(Segs(n)) /\ InOrder(all) /\ Owed(all) = Owed(new) \cup Owed(rest)
  BY <1>1, StackPush DEF top
<1>4. Len(all) = Len(new) + Len(rest) /\ Len(new) \in Nat
  BY <1>1, ConcatProperties, LenProperties
<1>5. Items(top) \cap Owed(rest) = {} /\ Owed(new) \cap Owed(rest) = {}
  <2>1. \A i \in Items(top) : i \in Int /\ i <= top.hi
    BY <1>1, SegmentTyped
  <2>2. top.hi \in Int /\ Owed(rest) \subseteq 1 .. n
    BY <1>1, SegmentTyped, StackTyped
  <2>3. Items(top) \cap Owed(rest) = {}
    BY <1>1, <2>1, <2>2
  <2> QED
    BY <2>3 DEF top
<1>6. /\ IsFiniteSet(Items(top)) /\ Cardinality(Items(top)) \in Nat
      /\ IsFiniteSet(Owed(rest)) /\ Cardinality(Owed(rest)) \in Nat
      /\ IsFiniteSet(Owed(new)) /\ Cardinality(Owed(new)) \in Nat
  BY <1>1, SegmentSize, OwedFinite
<1>7. Cardinality({}) = 0
  BY FS_EmptySet
<1>8. Cardinality(Owed(todo)) = Cardinality(Items(top)) + Cardinality(Owed(rest))
  <2>1. Cardinality(Items(top) \cup Owed(rest))
          = Cardinality(Items(top)) + Cardinality(Owed(rest)) - Cardinality({})
    BY <1>5, <1>6, FS_Union
  <2> QED
    BY <1>1, <1>6, <1>7, <2>1
<1>9. Cardinality(Owed(all)) = Cardinality(Owed(new)) + Cardinality(Owed(rest))
  <2>1. Cardinality(Owed(new) \cup Owed(rest))
          = Cardinality(Owed(new)) + Cardinality(Owed(rest)) - Cardinality({})
    BY <1>5, <1>6, FS_Union
  <2> QED
    BY <1>3, <1>6, <1>7, <2>1
<1>10. /\ StackCost(todo) = 2 * Cardinality(Owed(todo)) - Len(todo)
       /\ StackCost(all) = 2 * Cardinality(Owed(all)) - Len(all)
       /\ StackCost(new) = 2 * Cardinality(Owed(new)) - Len(new)
  BY <1>3, StackSum
<1>11. StackCost(new) + 2 <= 2 * Cardinality(Items(top))
  BY DEF top
<1> HIDE DEF all
<1>12. StackCost(all) + 1 <= StackCost(todo)
  <2> DEFINE a == Cardinality(Items(top))
             b == Cardinality(Owed(rest))
             c == Cardinality(Owed(new))
  <2>1. StackCost(all) = 2 * (c + b) - (Len(new) + Len(rest))
    BY <1>4, <1>9, <1>10
  <2>2. StackCost(todo) = 2 * (a + b) - (Len(rest) + 1)
    BY <1>2, <1>8, <1>10
  <2>3. 2 * c - Len(new) + 2 <= 2 * a
    BY <1>10, <1>11
  <2>4. a \in Nat /\ b \in Nat /\ c \in Nat /\ Len(new) \in Nat /\ Len(rest) \in Nat
    BY <1>2, <1>4, <1>6
  <2> HIDE DEF a, b, c
  <2> QED
    BY <2>1, <2>2, <2>3, <2>4
<1> QED
  BY <1>12 DEF all, rest

\* What the answers leave of the top of the stack is that much cheaper.
LEMMA CostOfNone ==
  ASSUME NEW n \in Nat
  PROVE  StackCost(<<>>) = 0
<1>1. <<>> \in Seq(Segs(n)) /\ InOrder(<<>>) /\ Owed(<<>>) = {}
  BY StackOfNone
<1>2. Cardinality({}) = 0 /\ Len(<<>>) = 0
  BY FS_EmptySet
<1>3. StackCost(<<>>) = 2 * Cardinality(Owed(<<>>)) - Len(<<>>)
  BY <1>1, StackSum
<1>4. Cardinality(Owed(<<>>)) = 0
  BY <1>1, <1>2
<1> QED
  BY <1>2, <1>3, <1>4

LEMMA CostOfHalves ==
  ASSUME NEW n \in Nat, NEW s \in Segs(n), s.lo # s.hi
  PROVE  StackCost(Halves(s)) + 2 = 2 * Cardinality(Items(s))
<1>1. /\ Halves(s) \in Seq(Segs(n)) /\ InOrder(Halves(s))
      /\ Owed(Halves(s)) = Items(s)
  BY HalvesCut
<1>2. Len(Halves(s)) = 2
  BY DEF Halves
<1>3. StackCost(Halves(s)) = 2 * Cardinality(Items(s)) - 2
  BY <1>1, <1>2, StackSum
<1> QED
  BY <1>3, SegmentSize

LEMMA CostOfSides ==
  ASSUME NEW n \in Nat, NEW s \in Segs(n), NEW i \in Items(s)
  PROVE  StackCost(Sides(s, i)) + 2 <= 2 * Cardinality(Items(s))
<1> DEFINE sides == Sides(s, i)
<1>1. sides \in Seq(Segs(n)) /\ InOrder(sides) /\ Owed(sides) = Items(s) \ {i}
  BY SidesCut
<1> HIDE DEF sides
<1>2. Len(sides) \in Nat
  BY <1>1, LenProperties
<1>3. Cardinality(Owed(sides)) = Cardinality(Items(s)) - 1
  BY <1>1, SegmentSize, FS_RemoveElement
<1>4. StackCost(sides) = 2 * Cardinality(Owed(sides)) - Len(sides)
  BY <1>1, StackSum
<1>5. StackCost(sides) + 2 <= 2 * Cardinality(Items(s))
  BY <1>2, <1>3, <1>4, SegmentSize
<1> QED
  BY <1>5 DEF sides

LEMMA CostOfOne ==
  ASSUME NEW n \in Nat, NEW s \in Segs(n)
  PROVE  StackCost(<<s>>) = 2 * (s.hi - s.lo + 1) - 1
<1>1. <<s>> \in Seq(Segs(n)) /\ InOrder(<<s>>) /\ Owed(<<s>>) = Items(s)
  BY StackOfOne
<1>2. Len(<<s>>) = 1
  OBVIOUS
<1>3. StackCost(<<s>>) = 2 * Cardinality(Items(s)) - 1
  BY <1>1, <1>2, StackSum
<1>4. Cardinality(Items(s)) = s.hi - s.lo + 1
  BY SegmentSize
<1> QED
  BY <1>3, <1>4

CostOK(t) == Working(t) => t.asked + StackCost(t.todo) <= 2 * (t.next - 1)

\* An answer is paid for by the segment it was about.
LEMMA AnswerCosts ==
  ASSUME NEW h \in Hydrators, TasksInv, CostOK(task[h]), task[h].pc = "call",
         NEW pc, NEW bad, NEW new \in Seq(Segs(Len(Batch[h]))), InOrder(new),
         Owed(new) \subseteq Items(Top(h)),
         StackCost(new) + 2 <= 2 * Cardinality(Items(Top(h))),
         Answered(h, pc, bad, new \o Others(h))
  PROVE  CostOK(task'[h])
<1> DEFINE t == task[h]
           n == Len(Batch[h])
           todo == t.todo
           left == new \o Others(h)
<1>1. /\ n \in Nat /\ todo \in Seq(Segs(n)) /\ InOrder(todo) /\ todo # <<>>
      /\ Working(t) /\ t.asked \in Nat /\ t.next \in Nat /\ t \in TaskRecord(h)
  BY UnderWay, InHand, TaskTyped, BatchTyped DEF StackOK
<1>2. StackCost(left) + 1 <= StackCost(todo) /\ StackCost(todo) \in Int
  <2>1. Top(h) = Head(todo) /\ Others(h) = Tail(todo) /\ new \in Seq(Segs(n))
    BY DEF Top, Others
  <2> HIDE DEF todo, n
  <2>2. StackCost(new \o Tail(todo)) + 1 <= StackCost(todo)
    BY <1>1, <2>1, CostReplaced
  <2> QED
    BY <1>1, <2>1, <2>2, StackCostTyped
<1>3. task'[h].todo = left /\ task'[h].next = t.next /\ task'[h].asked = t.asked + 1
  <2>1. task' = [task EXCEPT ![h] = [t EXCEPT !.pc = pc, !.bad = bad, !.todo = left,
                                              !.attempt = 0, !.asked = t.asked + 1]]
    BY DEF Answered
  <2>2. h \in DOMAIN task
    BY DEF TasksInv
  <2> HIDE DEF left
  <2>3. task'[h] = [t EXCEPT !.pc = pc, !.bad = bad, !.todo = left,
                             !.attempt = 0, !.asked = t.asked + 1]
    BY <2>1, <2>2
  <2> QED
    BY <1>1, <2>3 DEF TaskRecord
<1>4. StackCost(left) \in Int
  <2>1. /\ Others(h) \in Seq(Segs(n)) /\ InOrder(Others(h)) /\ Top(h) \in Segs(n)
        /\ \A i \in Owed(Others(h)) : i > Top(h).hi
    BY UnderWay
  <2>2. left \in Seq(Segs(n)) /\ InOrder(left)
    BY <1>1, <2>1, StackPush
  <2> QED
    BY <1>1, <2>2, StackCostTyped
<1>5. t.asked + StackCost(todo) <= 2 * (t.next - 1)
  BY <1>1 DEF CostOK
<1> HIDE DEF left, todo
<1>6. (t.asked + 1) + StackCost(left) <= 2 * (t.next - 1)
  <2> DEFINE a == t.asked
             b == t.next
             c == StackCost(left)
             d == StackCost(todo)
  <2>1. a \in Nat /\ b \in Nat /\ c \in Int /\ d \in Int
    BY <1>1, <1>2, <1>4
  <2>2. c + 1 <= d /\ a + d <= 2 * (b - 1)
    BY <1>2, <1>5
  <2> HIDE DEF a, b, c, d
  <2>3. (a + 1) + c <= 2 * (b - 1)
    BY <2>1, <2>2
  <2> QED
    BY <2>3 DEF a, b, c
<1> QED
  BY <1>3, <1>6 DEF CostOK

LEMMA StepCosts ==
  ASSUME NEW h \in Hydrators, TasksInv, CostOK(task[h]), Step(h)
  PROVE  CostOK(task'[h])
<1> DEFINE t == task[h]
           n == Len(Batch[h])
<1>1. /\ t \in TaskRecord(h) /\ h \in DOMAIN task /\ n \in Nat
      /\ t.asked \in Nat /\ t.next \in Nat
  BY InHand, TaskTyped, BatchTyped DEF TasksInv
<1>2. ASSUME task'[h].pc \in {"persist", "done", "failed"}
      PROVE  CostOK(task'[h])
  BY <1>2 DEF CostOK, Working
<1>3. ASSUME Working(t), task'[h].todo = t.todo, task'[h].next = t.next,
             task'[h].asked = t.asked
      PROVE  CostOK(task'[h])
  BY <1>3 DEF CostOK
<1>4. CASE NextSlice(h)
  <2> DEFINE end == SliceEnd(h)
             s == Segment(t.next, end)
  <2>1. task'[h] = [t EXCEPT !.todo = <<s>>, !.next = end + 1]
    BY <1>1, <1>4 DEF NextSlice
  <2>2. task'[h].todo = <<s>> /\ task'[h].next = end + 1 /\ task'[h].asked = t.asked
    BY <1>1, <2>1 DEF TaskRecord
  <2>3. <<s>> \in Seq(Segs(n))
    <3>1. TaskOK(h, task'[h], rows'[h])
      BY <1>4, NextSliceOK
    <3>2. task'[h].todo \in Seq(Segs(n))
      BY <3>1 DEF TaskOK, TaskRecord
    <3> QED
      BY <2>2, <3>2
  <2>4. s \in Segs(n) /\ s.lo = t.next /\ s.hi = end
    <3>1. <<s>>[1] = s /\ 1 \in DOMAIN <<s>>
      OBVIOUS
    <3> QED
      BY <2>3, <3>1, ElementOfSeq DEF Segment
  <2>5. end \in Int
    BY <1>1, <2>4, SegmentTyped
  <2>6. StackCost(<<s>>) = 2 * (end - t.next + 1) - 1
    BY <1>1, <2>4, CostOfOne
  <2>7. t.asked <= 2 * (t.next - 1)
    <3>1. t.todo = <<>> /\ Working(t)
      BY <1>4 DEF NextSlice, Working
    <3> QED
      BY <1>1, <3>1, CostOfNone DEF CostOK
  <2> HIDE DEF end, s
  <2>8. t.asked + StackCost(<<s>>) <= 2 * ((end + 1) - 1)
    BY <1>1, <2>5, <2>6, <2>7
  <2> QED
    BY <2>2, <2>8 DEF CostOK
<1>5. CASE Hydrated(h)
  BY <1>2, <1>5, HydratedOK
<1>6. CASE TakeBatchSlot(h) \/ TakeGrpcSlot(h) \/ CallFails(h) \/ ReducedFails(h)
  <2>1. Working(t)
    BY <1>6 DEF TakeBatchSlot, TakeGrpcSlot, CallFails, ReducedFails, Working
  <2>2. task'[h].todo = t.todo /\ task'[h].next = t.next /\ task'[h].asked = t.asked
    BY <1>1, <1>6 DEF TakeBatchSlot, TakeGrpcSlot, CallFails, ReducedFails, TaskRecord
  <2> QED
    BY <1>3, <2>1, <2>2
<1>7. CASE GiveUp(h)
  <2>1. task'[h].pc = "failed"
    BY <1>1, <1>7 DEF GiveUp, TaskRecord
  <2> QED
    BY <1>2, <2>1
<1>8. CASE ReducedArrives(h) \/ ReducedRefused(h) \/ ReducedGivesUp(h)
  <2>1. Working(t)
    BY <1>8 DEF ReducedArrives, ReducedRefused, ReducedGivesUp, Working
  <2>2. task'[h].todo = t.todo /\ task'[h].next = t.next /\ task'[h].asked = t.asked
    <3>1. PICK row : Degraded(h, row)
      BY <1>8 DEF ReducedArrives, ReducedRefused, ReducedGivesUp
    <3>2. task'[h] = [t EXCEPT !.pc = "ask", !.attempt = 0, !.bad = 0]
      BY <1>1, <3>1 DEF Degraded
    <3> QED
      BY <1>1, <3>2 DEF TaskRecord
  <2> QED
    BY <1>3, <2>1, <2>2
<1>9. CASE Persist(h)
  BY <1>2, <1>9, PersistOK
<1>10. ASSUME t.pc = "call", NEW pc, NEW bad, Answered(h, pc, bad, Others(h))
       PROVE  CostOK(task'[h])
  <2>1. /\ Others(h) \in Seq(Segs(n)) /\ Top(h) \in Segs(n)
    BY <1>10, UnderWay
  <2>2. <<>> \o Others(h) = Others(h)
    BY <2>1
  <2>3. <<>> \in Seq(Segs(n)) /\ InOrder(<<>>) /\ Owed(<<>>) \subseteq Items(Top(h))
    BY <1>1, StackOfNone
  <2>4. StackCost(<<>>) + 2 <= 2 * Cardinality(Items(Top(h)))
    <3>1. StackCost(<<>>) = 0
      BY <1>1, CostOfNone
    <3>2. Cardinality(Items(Top(h))) \in Nat /\ Cardinality(Items(Top(h))) >= 1
      BY <1>1, <2>1, SegmentSize
    <3> QED
      BY <3>1, <3>2
  <2>5. Answered(h, pc, bad, <<>> \o Others(h))
    BY <1>10, <2>2
  <2> QED
    BY <1>10, <2>3, <2>4, <2>5, AnswerCosts
<1>11. ASSUME t.pc = "call", Top(h).lo # Top(h).hi,
              Answered(h, "ask", 0, Halves(Top(h)) \o Others(h))
       PROVE  CostOK(task'[h])
  <2>1. Top(h) \in Segs(n)
    BY <1>11, UnderWay
  <2>2. /\ Halves(Top(h)) \in Seq(Segs(n)) /\ InOrder(Halves(Top(h)))
        /\ Owed(Halves(Top(h))) \subseteq Items(Top(h))
    BY <1>1, <1>11, <2>1, HalvesCut
  <2>3. StackCost(Halves(Top(h))) + 2 <= 2 * Cardinality(Items(Top(h)))
    BY <1>1, <1>11, <2>1, CostOfHalves, SegmentSize
  <2> QED
    BY <1>11, <2>2, <2>3, AnswerCosts
<1>12. CASE AllTransactions(h)
  BY <1>10, <1>12 DEF AllTransactions
<1>13. CASE TooLarge(h)
  <2>1. CASE Top(h).lo = Top(h).hi
    <3>1. Answered(h, "failed", 0, <<>>)
      BY <1>13, <2>1 DEF TooLarge
    <3>2. task'[h].pc = "failed"
      BY <1>1, <3>1 DEF Answered, TaskRecord
    <3> QED
      BY <1>2, <3>2
  <2>2. CASE Top(h).lo # Top(h).hi
    BY <1>11, <1>13, <2>2 DEF TooLarge
  <2> QED
    BY <2>1, <2>2
<1>14. CASE NamedMalformed(h)
  <2> DEFINE i == Min(MalformedIn(h))
  <2>1. t.pc = "call" /\ Answered(h, "degrade", i, Sides(Top(h), i) \o Others(h))
    BY <1>14 DEF NamedMalformed
  <2>2. Top(h) \in Segs(n) /\ Items(Top(h)) \subseteq Nat
    BY <2>1, UnderWay, BatchTyped
  <2>3. i \in Items(Top(h))
    <3>1. MalformedIn(h) \in SUBSET Nat /\ MalformedIn(h) # {}
      BY <1>14, <2>2 DEF NamedMalformed, MalformedIn
    <3> QED
      BY <3>1, MinLeast DEF MalformedIn
  <2> HIDE DEF i
  <2>4. /\ Sides(Top(h), i) \in Seq(Segs(n)) /\ InOrder(Sides(Top(h), i))
        /\ Owed(Sides(Top(h), i)) \subseteq Items(Top(h))
    BY <1>1, <2>2, <2>3, SidesCut
  <2>5. StackCost(Sides(Top(h), i)) + 2 <= 2 * Cardinality(Items(Top(h)))
    BY <1>1, <2>2, <2>3, CostOfSides
  <2> QED
    BY <2>1, <2>4, <2>5, AnswerCosts
<1>15. CASE UnnamedMalformed(h)
  <2>1. t.pc = "call"
    BY <1>15 DEF UnnamedMalformed
  <2>2. CASE Top(h).lo = Top(h).hi
    BY <1>10, <1>15, <2>1, <2>2 DEF UnnamedMalformed
  <2>3. CASE Top(h).lo # Top(h).hi
    BY <1>11, <1>15, <2>1, <2>3 DEF UnnamedMalformed
  <2> QED
    BY <2>2, <2>3
<1> QED
  BY <1>4, <1>5, <1>6, <1>7, <1>8, <1>9, <1>12, <1>13, <1>14, <1>15
  DEF Step, Answer, Degrade

CostInv == \A h \in Hydrators : CostOK(task[h])

LEMMA CostInit == Init => CostInv
<1> SUFFICES ASSUME Init, NEW h \in Hydrators PROVE CostOK(task[h])
  BY DEF CostInv
<1>1. task[h].asked = 0 /\ task[h].todo = <<>> /\ task[h].next = 1
  BY DEF Init
<1>2. StackCost(<<>>) = 0
  BY CostOfNone
<1> QED
  BY <1>1, <1>2 DEF CostOK

LEMMA CostNext == TasksInv /\ CostInv /\ [Next]_vars => CostInv'
<1> SUFFICES ASSUME TasksInv, CostInv, [Next]_vars, NEW g \in Hydrators
             PROVE  CostOK(task'[g])
  BY DEF CostInv
<1>1. CASE Outside
  BY <1>1, OutsideLeaves DEF CostInv
<1>2. ASSUME NEW h \in Hydrators, Step(h) PROVE CostOK(task'[g])
  <2>1. CASE g = h
    BY <1>2, <2>1, StepCosts DEF CostInv
  <2>2. CASE g # h
    <3>1. task'[g] = task[g]
      BY <1>2, <2>2, StepOK, OnlyOne
    <3> QED
      BY <3>1 DEF CostInv
  <2> QED
    BY <2>1, <2>2
<1> QED
  BY <1>1, <1>2, NextCases

-----------------------------------------------------------------------------
(***************************************************************************)
(* The theorems.                                                           *)
(***************************************************************************)
HydrationInv == TasksInv /\ SlotsInv /\ FaultsInv /\ LedgerInv /\ CostInv

\* The inductive invariant: what each hydrator has in hand, the slots, the
\* failures, the degraded transactions, and the number of answers.
THEOREM Invariance == Spec => []HydrationInv
<1>1. Init => HydrationInv
  BY TasksInit, SlotsInit, FaultsInit, LedgerInit, CostInit DEF HydrationInv
<1>2. HydrationInv /\ [Next]_vars => HydrationInv'
  BY TasksNext, SlotsNext, FaultsNext, LedgerNext, CostNext DEF HydrationInv
<1> QED
  BY <1>1, <1>2, PTL DEF Spec

LEMMA Typed == HydrationInv => TypeOK
<1> SUFFICES ASSUME HydrationInv PROVE TypeOK
  OBVIOUS
<1>1. /\ stopping \in BOOLEAN /\ fetching \in BOOLEAN
      /\ batchUsed \in 0 .. BatchSlots /\ grpcUsed \in 0 .. GrpcSlots
      /\ faults \in 0 .. MaxFaults
  BY DEF HydrationInv, SlotsInv, FaultsInv
<1>2. registry \subseteq Digest /\ ledger \subseteq Digest
  BY ArchiveAssumption DEF HydrationInv, LedgerInv
<1>3. ASSUME NEW h \in Hydrators
      PROVE  /\ task[h].pc \in TaskPC /\ task[h].next \in 1 .. Len(Batch[h]) + 1
             /\ task[h].todo \in Seq([lo : Positions(h), hi : Positions(h)])
             /\ task[h].attempt \in 0 .. MaxAttempts /\ task[h].asked \in Nat
             /\ task[h].bad \in Positions(h) \cup {0}
             /\ rows[h] \in [Positions(h) -> Row]
  <2>1. task[h] \in TaskRecord(h) /\ rows[h] \in [Positions(h) -> Row]
    BY InHand DEF HydrationInv
  <2>2. task[h].todo \in Seq(Segs(Len(Batch[h])))
    BY <2>1, TaskTyped
  <2>3. Segs(Len(Batch[h])) \subseteq [lo : Positions(h), hi : Positions(h)]
    BY DEF Segs, Positions
  <2>4. task[h].todo \in Seq([lo : Positions(h), hi : Positions(h)])
    <3> DEFINE todo == task[h].todo
               S == Segs(Len(Batch[h]))
               T == [lo : Positions(h), hi : Positions(h)]
    <3>1. todo \in Seq(S) /\ S \subseteq T
      BY <2>2, <2>3
    <3> HIDE DEF todo, S, T
    <3>2. todo \in Seq(T)
      BY <3>1, SeqMonotonic
    <3> QED
      BY <3>2 DEF todo, T
  <2> QED
    BY <2>1, <2>4, TaskTyped
<1> QED
  BY <1>1, <1>2, <1>3 DEF TypeOK

\* Every variable keeps its type: positions stay in their batch, attempts and
\* semaphores within their limits.
THEOREM HydrationTyped == Spec => []TypeOK
BY Invariance, Typed, PTL

\* The semaphores count the calls under way, on every path through retries,
\* halves, degradation and cancellation.
THEOREM SlotsReturned == Spec => []SlotsAccounted
<1>1. HydrationInv => SlotsAccounted
  BY DEF HydrationInv, SlotsInv
<1> QED
  BY <1>1, Invariance, PTL

LEMMA OwedOnce == HydrationInv => NothingSkipped
<1> SUFFICES ASSUME HydrationInv, NEW h \in Hydrators, Working(task[h]),
                    NEW i \in 1 .. task[h].next - 1
             PROVE  \/ Owing(h, i) = 1
                    \/ Owing(h, i) = 0 /\ rows[h][i] # "none"
  BY DEF NothingSkipped, Working
<1> DEFINE t == task[h]
           n == Len(Batch[h])
           K == {k \in DOMAIN t.todo : i \in Items(t.todo[k])}
<1>1. /\ t \in TaskRecord(h) /\ StackOK(h, t) /\ RowsOK(h, t, rows[h])
      /\ t.todo \in Seq(Segs(n)) /\ n \in Nat /\ t.next \in 1 .. n + 1
      /\ Positions(h) = 1 .. n
  BY InHand, TaskTyped, BatchTyped DEF HydrationInv
<1>2. i \in Positions(h) /\ i < t.next /\ i \in Int
  BY <1>1
<1>3. Owing(h, i) = Cardinality(K) + (IF t.bad = i THEN 1 ELSE 0)
  BY DEF Owing
<1>4. Cardinality({}) = 0 /\ \A x : Cardinality({x}) = 1
  BY FS_EmptySet, FS_Singleton
<1>5. CASE i \in Owed(t.todo)
  <2>1. PICK k \in DOMAIN t.todo : i \in Items(t.todo[k])
    BY <1>5 DEF Owed
  <2>2. ASSUME NEW j \in DOMAIN t.todo, i \in Items(t.todo[j]) PROVE j = k
    <3>1. t.todo[j] \in Segs(n) /\ t.todo[k] \in Segs(n) /\ j \in Int /\ k \in Int
      BY <1>1, StackTyped
    <3>2. /\ t.todo[j].lo <= i /\ i <= t.todo[j].hi
          /\ t.todo[k].lo <= i /\ i <= t.todo[k].hi
          /\ t.todo[j].lo \in Int /\ t.todo[j].hi \in Int
          /\ t.todo[k].lo \in Int /\ t.todo[k].hi \in Int
      BY <1>1, <2>1, <2>2, <3>1, SegmentTyped
    <3>3. ~(j < k) /\ ~(k < j)
      BY <1>1, <1>2, <3>2 DEF StackOK, InOrder
    <3> QED
      BY <3>1, <3>3
  <2>3. K = {k}
    BY <2>1, <2>2
  <2>4. t.bad # i
    BY <1>1, <1>5 DEF StackOK
  <2> QED
    BY <1>3, <1>4, <2>3, <2>4
<1>6. CASE i \notin Owed(t.todo)
  <2>1. K = {}
    BY <1>6 DEF Owed
  <2>2. rows[h][i] # "none" \/ i = t.bad
    BY <1>1, <1>2, <1>6 DEF RowsOK
  <2>3. Owing(h, i) = IF t.bad = i THEN 1 ELSE 0
    <3>1. Cardinality(K) = 0
      BY <1>4, <2>1
    <3> HIDE DEF K
    <3> QED
      BY <1>3, <3>1
  <2> QED
    BY <2>2, <2>3
<1> QED
  BY <1>5, <1>6

\* However a batch is cut up, each position that was asked for is owed by one
\* place or has its row: none is dropped, none is hydrated twice.
THEOREM EachOnce == Spec => []NothingSkipped
BY Invariance, OwedOnce, PTL

LEMMA GapsCounted == HydrationInv => GapsOnRecord
<1> SUFFICES ASSUME HydrationInv PROVE GapsOnRecord
  OBVIOUS
<1> DEFINE passedOn == UNION {Range(Batch[h]) : h \in {g \in Hydrators : task[g].pc = "done"}}
           G == (passedOn \cap Malformed) \ ledger
<1>1. G \in SUBSET Gaps
  <2> SUFFICES ASSUME NEW d \in G PROVE d \in Gaps
    OBVIOUS
  <2>1. PICK h \in Hydrators : task[h].pc = "done" /\ d \in Range(Batch[h])
    OBVIOUS
  <2>2. DOMAIN Batch[h] = Positions(h)
    BY BatchAssumption DEF Positions
  <2>3. PICK i \in Positions(h) : Batch[h][i] = d
    BY <2>1, <2>2 DEF Range
  <2>4. i \in Persisted(h) /\ d \in Digest
    BY <2>1, <2>3, BatchTyped DEF Persisted
  <2>5. d \in Malformed /\ d \notin ledger
    OBVIOUS
  <2> QED
    BY <2>3, <2>4, <2>5 DEF Gaps
<1> HIDE DEF G
<1>2. /\ IsFiniteSet(Gaps) /\ ledger \subseteq Malformed
      /\ ~stopping => Cardinality(Gaps) <= faults
      /\ faults \in Nat
  BY SizesTyped DEF HydrationInv, LedgerInv, FaultsInv
<1>3. /\ IsFiniteSet(G) /\ Cardinality(G) <= Cardinality(Gaps)
      /\ Cardinality(G) \in Nat /\ Cardinality(Gaps) \in Nat
  BY <1>1, <1>2, FS_Subset, FS_CardinalityType
<1>4. ~stopping => Cardinality(G) <= faults
  BY <1>2, <1>3
<1> QED
  BY <1>2, <1>4 DEF GapsOnRecord, G

\* A transaction passed on without its body is in the ledger, unless recording
\* it failed, and nothing else is: a gap in the data stays visible.
THEOREM GapsVisible == Spec => []GapsOnRecord
BY Invariance, GapsCounted, PTL

\* Bad data alone never fail a batch, except a transaction too large by itself.
THEOREM BadDataHarmless == Spec => []BadDataKeepsJobAlive
<1>1. HydrationInv => BadDataKeepsJobAlive
  BY DEF HydrationInv, FaultsInv
<1> QED
  BY <1>1, Invariance, PTL

\* However often slices are halved and malformed transactions cut out, n digests
\* cost at most 2n answers, retries apart.
THEOREM AnswersBounded == Spec => []CallsBounded
<1>1. HydrationInv => CallsBounded
  BY DEF HydrationInv, CostInv, CostOK, Working, CallsBounded, StackCost
<1> QED
  BY <1>1, Invariance, PTL

\* The recursion of the client, its calls, slots and retries, the registry and
\* the ledger implement the contract that the pipeline relies on.
THEOREM HydrationImplementsContract == Spec => ImplementsHydration
<1>1. HydrationInv /\ [Next]_vars => [Contract!ContractNext]_(Contract!contractVars)
  BY ContractSteps DEF HydrationInv
<1> QED
  BY <1>1, ContractStart, Invariance, PTL
     DEF Spec, ImplementsHydration, Contract!ContractSpec

=============================================================================
