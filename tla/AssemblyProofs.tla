--------------------------- MODULE AssemblyProofs ---------------------------
(***************************************************************************)
(* Theorems about Assembly, for every chunk, whatever its transactions,    *)
(* its batches and the totals of the network.                              *)
(***************************************************************************)
EXTENDS Assembly, Sums, SequenceTheorems

-----------------------------------------------------------------------------
(***************************************************************************)
(* Functions defined by recursion over an interval.                        *)
(***************************************************************************)

\* What passes from each number to the next holds of all from the first on.
LEMMA Upwards ==
  ASSUME NEW lo \in Nat, NEW G, lo \in G,
         \A i \in Nat : i >= lo /\ i \in G => i + 1 \in G
  PROVE  \A i \in Nat : i >= lo => i \in G
<1> SUFFICES ASSUME NEW bad \in Nat, bad >= lo, bad \notin G PROVE FALSE
  OBVIOUS
<1> DEFINE S == {i \in Nat : i >= lo /\ i \notin G}
<1>1. PICK m \in S : \A i \in S : m <= i
  <2>1. S \in SUBSET Nat /\ S # {}
    OBVIOUS
  <2> HIDE DEF S
  <2> QED
    BY <2>1, Least
<1>2. m \in Nat /\ m > lo /\ m \notin G
  OBVIOUS
<1>3. m - 1 \in Nat /\ m - 1 >= lo /\ m - 1 \in G
  BY <1>1, <1>2
<1> QED
  BY <1>2, <1>3

\* f has the value e at lo and follows step up to n.
Follows(f, lo, n, e, step) ==
  f = [i \in lo .. n |-> IF i = lo THEN e ELSE step[<<i, f[i - 1]>>]]

LEMMA Recursion ==
  ASSUME NEW lo \in Nat, NEW n \in Nat, NEW V, NEW e \in V,
         NEW step \in [(lo .. n) \X V -> V]
  PROVE  \E f \in [lo .. n -> V] : Follows(f, lo, n, e, step)
<1>1. CASE n < lo
  <2> DEFINE f == [i \in lo .. n |-> e]
  <2>1. lo .. n = {}
    BY <1>1
  <2>2. f \in [lo .. n -> V] /\ Follows(f, lo, n, e, step)
    BY <2>1 DEF Follows
  <2> QED
    BY <2>2
<1>2. CASE n >= lo
  <2> DEFINE G == {k \in Nat : k <= n => \E f \in [lo .. k -> V] : Follows(f, lo, k, e, step)}
  <2>1. lo \in G
    <3> DEFINE f == [i \in lo .. lo |-> e]
    <3>1. f \in [lo .. lo -> V] /\ Follows(f, lo, lo, e, step)
      BY DEF Follows
    <3> QED
      BY <3>1
  <2>2. ASSUME NEW k \in Nat, k >= lo, k \in G
        PROVE  k + 1 \in G
    <3> SUFFICES ASSUME k + 1 <= n
                 PROVE  \E f \in [lo .. k + 1 -> V] : Follows(f, lo, k + 1, e, step)
      OBVIOUS
    <3>1. PICK f \in [lo .. k -> V] : Follows(f, lo, k, e, step)
      BY <2>2
    <3> DEFINE g == [i \in lo .. k + 1 |-> IF i = lo THEN e ELSE step[<<i, f[i - 1]>>]]
    <3>2. \A i \in lo .. k : g[i] = f[i]
      BY <3>1 DEF Follows
    <3>3. \A i \in lo .. k + 1 : i = lo \/ i - 1 \in lo .. k
      BY <2>2
    <3>4. g = [i \in lo .. k + 1 |-> IF i = lo THEN e ELSE step[<<i, g[i - 1]>>]]
      BY <3>2, <3>3
    <3>5. \A i \in lo .. k + 1 : i \in lo .. n
      BY <2>2
    <3>6. \A i \in lo .. k + 1 : g[i] \in V
      <4> SUFFICES ASSUME NEW i \in lo .. k + 1, i # lo PROVE step[<<i, f[i - 1]>>] \in V
        OBVIOUS
      <4>1. f[i - 1] \in V
        BY <3>1, <3>3
      <4>2. <<i, f[i - 1]>> \in (lo .. n) \X V
        BY <3>5, <4>1
      <4> QED
        BY <4>2
    <3> QED
      BY <3>4, <3>6 DEF Follows
  <2> HIDE DEF G
  <2>3. n \in G
    BY <1>2, <2>1, <2>2, Upwards
  <2> QED
    BY <2>3 DEF G
<1> QED
  BY <1>1, <1>2

-----------------------------------------------------------------------------
(***************************************************************************)
(* The helpers of Assembly.                                                *)
(***************************************************************************)

LEMMA TxsTyped ==
  ASSUME NEW c \in Chunk
  PROVE  /\ Txs[c] \in Seq(Digest) /\ Len(Txs[c]) \in Nat
         /\ DOMAIN Txs[c] = 1 .. Len(Txs[c])
BY AssemblyAssumption, LenProperties DEF Digest

\* The transactions executed so far are counted one checkpoint at a time.
LEMMA ExecutedCounts ==
  /\ \A c \in 0 .. To : Executed[c] \in Nat
  /\ \A c \in Chunk : Executed[c] = Executed[c - 1] + Len(Txs[c])
<1> DEFINE step == [p \in (0 .. To) \X Nat |->
                      p[2] + IF p[1] = 0 THEN 0 ELSE Len(Txs[p[1]])]
<1>1. step \in [(0 .. To) \X Nat -> Nat]
  <2> SUFFICES ASSUME NEW p \in (0 .. To) \X Nat, p[1] # 0 PROVE Len(Txs[p[1]]) \in Nat
    OBVIOUS
  <2> QED
    BY TxsTyped DEF Chunk
<1>2. PICK f \in [0 .. To -> Nat] : Follows(f, 0, To, 0, step)
  <2> HIDE DEF step
  <2> QED
    BY <1>1, Recursion, AssemblyAssumption
<1>3. \A c \in 0 .. To : c = 0 \/ (c - 1 \in 0 .. To /\ <<c, f[c - 1]>> \in (0 .. To) \X Nat)
  BY <1>2, AssemblyAssumption
<1>4. f = [c \in 0 .. To |-> IF c = 0 THEN 0 ELSE f[c - 1] + Len(Txs[c])]
  BY <1>2, <1>3 DEF Follows
<1>5. Executed = [c \in 0 .. To |-> IF c = 0 THEN 0 ELSE Executed[c - 1] + Len(Txs[c])]
  BY <1>4 DEF Executed
<1> DEFINE G == {c \in Nat : c <= To => Executed[c] \in Nat}
<1>6. 0 \in G
  BY <1>5, AssemblyAssumption
<1>7. ASSUME NEW c \in Nat, c \in G PROVE c + 1 \in G
  <2> SUFFICES ASSUME c + 1 <= To PROVE Executed[c + 1] \in Nat
    OBVIOUS
  <2>1. c + 1 \in Chunk /\ c + 1 \in 0 .. To /\ c + 1 # 0 /\ (c + 1) - 1 = c
    BY AssemblyAssumption DEF Chunk
  <2>2. Executed[c + 1] = Executed[c] + Len(Txs[c + 1])
    BY <1>5, <2>1
  <2> QED
    BY <1>7, <2>1, <2>2, TxsTyped, AssemblyAssumption
<1> HIDE DEF G
<1>8. \A c \in Nat : c \in G
  BY <1>6, <1>7, Upwards
<1>9. \A c \in 0 .. To : Executed[c] \in Nat
  BY <1>8, AssemblyAssumption DEF G
<1>10. \A c \in Chunk : c \in 0 .. To /\ c # 0
  BY AssemblyAssumption DEF Chunk
<1> QED
  BY <1>5, <1>9, <1>10
\* A list is made of the transactions of its checkpoint; with all of them there
\* it is the list of all of them, in order.
LEMMA Listed ==
  ASSUME NEW c \in Chunk, NEW dropped
  PROVE  /\ Listing(c, dropped) \in Seq(Digest)
         /\ Len(Listing(c, dropped)) = Len(Txs[c]) => Listing(c, dropped) = Txs[c]
         /\ dropped = {} => Listing(c, dropped) = Txs[c]
<1> DEFINE t == Txs[c]
           n == Len(t)
           one(i) == IF t[i] \in dropped THEN <<>> ELSE <<t[i]>>
           step == [p \in (0 .. n) \X Seq(Digest) |->
                      IF p[1] = 0 THEN <<>> ELSE p[2] \o one(p[1])]
<1>1. n \in Nat /\ t \in Seq(Digest) /\ \A i \in 1 .. n : t[i] \in Digest
  BY TxsTyped, ElementOfSeq
<1>2. \A i \in 1 .. n : one(i) \in Seq(Digest)
  BY <1>1
<1>3. step \in [(0 .. n) \X Seq(Digest) -> Seq(Digest)]
  <2> HIDE DEF one, t, n
  <2> SUFFICES ASSUME NEW p \in (0 .. n) \X Seq(Digest), p[1] # 0
               PROVE  p[2] \o one(p[1]) \in Seq(Digest)
    OBVIOUS
  <2>1. p[1] \in 1 .. n /\ p[2] \in Seq(Digest)
    BY <1>1
  <2> QED
    BY <1>2, <2>1, ConcatProperties
<1> HIDE DEF n, t, one
<1>4. PICK f \in [0 .. n -> Seq(Digest)] : Follows(f, 0, n, <<>>, step)
  <2>1. <<>> \in Seq(Digest)
    OBVIOUS
  <2> HIDE DEF step
  <2> QED
    BY <1>1, <1>3, <2>1, Recursion
<1>5. \A i \in 0 .. n :
        i = 0 \/ (i - 1 \in 0 .. n /\ <<i, f[i - 1]>> \in (0 .. n) \X Seq(Digest))
  BY <1>1, <1>4
<1>6. f = [i \in 0 .. n |-> IF i = 0 THEN <<>> ELSE f[i - 1] \o one(i)]
  BY <1>4, <1>5 DEF Follows
<1> HIDE DEF step
<1> DEFINE Kept(k) == k = [i \in 0 .. n |-> IF i = 0 THEN <<>> ELSE k[i - 1] \o one(i)]
           kept == CHOOSE k : Kept(k)
<1>7. Kept(kept) /\ Listing(c, dropped) = kept[n]
  <2>1. Kept(f)
    BY <1>6
  <2>2. Kept(kept)
    BY <2>1
  <2> QED
    BY <2>2 DEF Listing, one, t, n
<1> HIDE DEF kept
<1>8. /\ kept[0] = <<>>
      /\ \A i \in 1 .. n : kept[i] = kept[i - 1] \o one(i)
  <2> DEFINE more(i) == kept[i - 1] \o one(i)
  <2>1. kept = [i \in 0 .. n |-> IF i = 0 THEN <<>> ELSE more(i)]
    BY <1>7
  <2> HIDE DEF more
  <2>2. kept[0] = <<>> /\ \A i \in 1 .. n : kept[i] = more(i)
    BY <1>1, <2>1
  <2> QED
    BY <2>2 DEF more
<1> HIDE DEF Kept
<1> DEFINE Good(i) == /\ kept[i] \in Seq(Digest) /\ Len(kept[i]) \in 0 .. i
                      /\ Len(kept[i]) = i => \A k \in 1 .. i : kept[i][k] = t[k]
                      /\ dropped = {} => Len(kept[i]) = i
           G == {i \in Nat : i <= n => Good(i)}
<1>9. 0 \in G
  <2>1. kept[0] \in Seq(Digest) /\ Len(kept[0]) = 0
    BY <1>8
  <2>2. Len(kept[0]) \in 0 .. 0 /\ 1 .. 0 = {}
    BY <2>1
  <2>3. Good(0)
    BY <2>1, <2>2
  <2> HIDE DEF Good
  <2> QED
    BY <2>3
<1>10. ASSUME NEW i \in Nat, i \in G PROVE i + 1 \in G
  <2> SUFFICES ASSUME i + 1 <= n PROVE Good(i + 1)
    OBVIOUS
  <2>1. Good(i) /\ i + 1 \in 1 .. n
    BY <1>1, <1>10
  <2> DEFINE a == kept[i]
             b == kept[i + 1]
             x == t[i + 1]
  <2>2. b = a \o one(i + 1)
    <3>1. (i + 1) - 1 = i
      OBVIOUS
    <3> QED
      BY <1>8, <2>1, <3>1, Zenon
  <2>3. x \in Digest
    BY <1>1, <2>1
  <2>4. CASE x \in dropped
    <3>1. one(i + 1) = <<>>
      BY <2>4 DEF one
    <3>2. b = a
      BY <2>1, <2>2, <3>1, ConcatEmptySeq
    <3> HIDE DEF a, b
    <3>3. Len(b) \in 0 .. i /\ b \in Seq(Digest) /\ dropped # {}
      BY <2>1, <2>4, <3>2 DEF a
    <3>4. Len(b) \in 0 .. i + 1 /\ Len(b) # i + 1
      BY <3>3
    <3> QED
      BY <3>3, <3>4 DEF b
  <2>5. CASE x \notin dropped
    <3>1. one(i + 1) = <<x>>
      BY <2>5 DEF one
    <3> HIDE DEF x
    <3>2. a \in Seq(Digest) /\ <<x>> \in Seq(Digest) /\ Len(<<x>>) = 1 /\ <<x>>[1] = x
      BY <2>1, <2>3
    <3> HIDE DEF a, b
    <3>3. b \in Seq(Digest) /\ Len(b) = Len(a) + 1
      <4> DEFINE y == <<x>>
      <4>1. y \in Seq(Digest) /\ Len(y) = 1 /\ b = a \o y
        BY <2>2, <3>1, <3>2
      <4> HIDE DEF y
      <4>2. a \o y \in Seq(Digest) /\ Len(a \o y) = Len(a) + Len(y)
        BY <3>2, <4>1, ConcatProperties
      <4> QED
        BY <4>1, <4>2
    <3>4. \A k \in 1 .. Len(a) + 1 : b[k] = IF k <= Len(a) THEN a[k] ELSE <<x>>[k - Len(a)]
      <4> DEFINE y == <<x>>
      <4>1. y \in Seq(Digest) /\ Len(y) = 1
        BY <3>2
      <4> HIDE DEF y
      <4>2. \A k \in 1 .. Len(a) + Len(y) : (a \o y)[k] = IF k <= Len(a) THEN a[k] ELSE y[k - Len(a)]
        BY <3>2, <4>1, ConcatProperties
      <4>3. b = a \o y
        BY <2>2, <3>1 DEF y
      <4> QED
        BY <4>1, <4>2, <4>3 DEF y
    <3>5. Len(a) \in 0 .. i /\ (Len(a) = i => \A k \in 1 .. i : a[k] = t[k])
          /\ (dropped = {} => Len(a) = i)
      BY <2>1 DEF a
    <3>6. Len(b) = i + 1 => \A k \in 1 .. i + 1 : b[k] = t[k]
      <4> SUFFICES ASSUME Len(b) = i + 1, NEW k \in 1 .. i + 1 PROVE b[k] = t[k]
        OBVIOUS
      <4>1. Len(a) = i
        BY <3>3, <3>5
      <4>2. CASE k <= i
        BY <3>4, <3>5, <4>1, <4>2
      <4>3. CASE k = i + 1
        BY <3>2, <3>4, <4>1, <4>3 DEF x
      <4> QED
        BY <4>2, <4>3
    <3>7. Len(b) \in 0 .. i + 1 /\ (dropped = {} => Len(b) = i + 1)
      BY <3>3, <3>5
    <3> QED
      BY <3>3, <3>6, <3>7 DEF b
  <2> QED
    BY <2>4, <2>5
<1> HIDE DEF Good
<1>11. Good(n)
  <2> HIDE DEF G
  <2>1. 0 \in Nat /\ \A i \in Nat : i >= 0 /\ i \in G => i + 1 \in G
    BY <1>10
  <2>2. \A i \in Nat : i >= 0 => i \in G
    BY <1>9, <2>1, Upwards
  <2> QED
    BY <1>1, <2>2 DEF G
<1>12. kept[n] \in Seq(Digest) /\ (Len(kept[n]) = n => kept[n] = t)
  <2>1. kept[n] \in Seq(Digest)
    BY <1>11 DEF Good
  <2>2. ASSUME Len(kept[n]) = n PROVE kept[n] = t
    <3>1. Len(t) = n /\ \A k \in 1 .. n : kept[n][k] = t[k]
      BY <1>11, <2>2 DEF Good, n
    <3> QED
      BY <1>1, <2>1, <2>2, <3>1, SeqEqual
  <2> QED
    BY <2>1, <2>2
<1> QED
  BY <1>7, <1>11, <1>12 DEF Good, n, t

\* Whatever is in one of the sequences is in all of them put together.
LEMMA Flattened ==
  ASSUME NEW S, NEW s \in Seq(Seq(S)), s # <<>>
  PROVE  /\ FlattenSeq(s) \in Seq(S)
         /\ \A k \in DOMAIN s : Range(s[k]) \subseteq Range(FlattenSeq(s))
<1> DEFINE n == Len(s)
           step == [p \in (1 .. n) \X Seq(S) |-> p[2] \o s[p[1]]]
<1>1. n \in Nat /\ n >= 1 /\ DOMAIN s = 1 .. n /\ \A i \in 1 .. n : s[i] \in Seq(S)
  BY LenProperties, ElementOfSeq, EmptySeq
<1> HIDE DEF n
<1>2. step \in [(1 .. n) \X Seq(S) -> Seq(S)]
  <2> SUFFICES ASSUME NEW p \in (1 .. n) \X Seq(S) PROVE p[2] \o s[p[1]] \in Seq(S)
    OBVIOUS
  <2>1. p[2] \in Seq(S) /\ s[p[1]] \in Seq(S)
    BY <1>1
  <2> QED
    BY <2>1, ConcatProperties
<1>3. PICK f \in [1 .. n -> Seq(S)] : Follows(f, 1, n, s[1], step)
  <2>1. s[1] \in Seq(S) /\ 1 \in Nat
    BY <1>1
  <2> HIDE DEF step
  <2> QED
    BY <1>1, <1>2, <2>1, Recursion
<1>4. \A i \in 1 .. n :
        i = 1 \/ (i - 1 \in 1 .. n /\ <<i, f[i - 1]>> \in (1 .. n) \X Seq(S))
  BY <1>1, <1>3
<1>5. f = [i \in 1 .. n |-> IF i = 1 THEN s[i] ELSE f[i - 1] \o s[i]]
  BY <1>3, <1>4 DEF Follows
<1> HIDE DEF step
<1> DEFINE Flat(k) == k = [i \in 1 .. n |-> IF i = 1 THEN s[i] ELSE k[i - 1] \o s[i]]
           flat == CHOOSE k : Flat(k)
<1>6. Flat(flat) /\ FlattenSeq(s) = flat[n]
  <2>1. Flat(flat)
    BY <1>5
  <2>2. Len(s) # 0
    BY <1>1 DEF n
  <2> QED
    BY <2>1, <2>2 DEF FlattenSeq, n
<1> HIDE DEF flat
<1>7. /\ flat[1] = s[1]
      /\ \A i \in 2 .. n : flat[i] = flat[i - 1] \o s[i]
  <2> DEFINE more(i) == flat[i - 1] \o s[i]
  <2>1. flat = [i \in 1 .. n |-> IF i = 1 THEN s[i] ELSE more(i)]
    BY <1>6
  <2> HIDE DEF more
  <2>2. flat[1] = s[1] /\ \A i \in 2 .. n : flat[i] = more(i)
    BY <1>1, <2>1
  <2> QED
    BY <2>2 DEF more
<1> HIDE DEF Flat
<1> DEFINE Good(i) == flat[i] \in Seq(S) /\ \A k \in 1 .. i : Range(s[k]) \subseteq Range(flat[i])
           G == {i \in Nat : i <= n => Good(i)}
<1>8. 1 \in G
  BY <1>1, <1>7
<1>9. ASSUME NEW i \in Nat, i >= 1, i \in G PROVE i + 1 \in G
  <2> SUFFICES ASSUME i + 1 <= n PROVE Good(i + 1)
    OBVIOUS
  <2>1. Good(i) /\ i + 1 \in 2 .. n /\ i + 1 \in 1 .. n
    BY <1>1, <1>9
  <2> DEFINE a == flat[i]
             b == flat[i + 1]
             x == s[i + 1]
  <2>2. b = a \o x /\ a \in Seq(S) /\ x \in Seq(S)
    <3>1. (i + 1) - 1 = i
      OBVIOUS
    <3> QED
      BY <1>1, <1>7, <2>1, <3>1, Zenon
  <2> HIDE DEF a, b, x
  <2>3. b \in Seq(S) /\ Range(b) = Range(a) \cup Range(x)
    BY <2>2, ConcatProperties, RangeConcatenation
  <2>4. \A k \in 1 .. i : Range(s[k]) \subseteq Range(a)
    BY <2>1 DEF a
  <2>5. \A k \in 1 .. i + 1 : k \in 1 .. i \/ k = i + 1
    OBVIOUS
  <2> QED
    BY <2>3, <2>4, <2>5 DEF b, x
<1> HIDE DEF Good
<1>10. Good(n)
  <2> HIDE DEF G
  <2>1. n \in G
    BY <1>1, <1>8, <1>9, Upwards
  <2> QED
    BY <1>1, <2>1 DEF G
<1> QED
  BY <1>1, <1>6, <1>10 DEF Good
\* A batch is a sequence of some of the checkpoints that are to be hydrated.
LEMMA BatchTyped ==
  ASSUME NEW S \in SUBSET Chunk, NEW items \in SetToAllKPermutations(S)
  PROVE  items \in Seq(S)
<1>1. PICK s \in SUBSET S : items \in SetToSeqs(s)
  BY DEF SetToAllKPermutations
<1>2. IsFiniteSet(s)
  <2>1. IsFiniteSet(Chunk)
    BY AssemblyAssumption, FS_Interval DEF Chunk
  <2> QED
    BY <2>1, FS_Subset
<1> DEFINE n == Cardinality(s)
<1>3. n \in Nat
  BY <1>2, FS_CardinalityType
<1>4. items \in [1 .. n -> s]
  BY <1>1 DEF SetToSeqs
<1> QED
  BY <1>3, <1>4

\* Numbers that follow on each other, all of them from lo + 1 on, are as many
\* as the last of them says.
LEMMA Contiguous ==
  ASSUME NEW lo \in Nat, NEW hi \in Nat, lo <= hi, NEW S \in SUBSET (lo + 1 .. hi),
         \A k \in S : lo + 1 .. k \subseteq S
  PROVE  /\ Cardinality(S) \in Nat /\ lo + Cardinality(S) <= hi
         /\ S = lo + 1 .. lo + Cardinality(S)
<1> DEFINE Out == {k \in Nat : k > lo /\ k \notin S}
<1>1. PICK m \in Out : \A k \in Out : m <= k
  <2>1. hi + 1 \in Out /\ Out \in SUBSET Nat
    OBVIOUS
  <2> HIDE DEF Out
  <2> QED
    BY <2>1, Least
<1>2. m \in Nat /\ m > lo /\ m \notin S /\ \A k \in Nat : k > lo /\ k < m => k \in S
  <2>1. m \in Nat /\ m > lo /\ m \notin S
    BY <1>1
  <2>2. ASSUME NEW k \in Nat, k > lo, k < m PROVE k \in S
    BY <1>1, <2>1, <2>2
  <2> QED
    BY <2>1, <2>2
<1> HIDE DEF Out
<1>3. S \subseteq lo + 1 .. m - 1
  <2> SUFFICES ASSUME NEW k \in S, ~(k \in lo + 1 .. m - 1) PROVE FALSE
    OBVIOUS
  <2>1. k \in Nat /\ k > lo /\ k >= m
    BY <1>2
  <2>2. m \in lo + 1 .. k
    BY <1>2, <2>1
  <2> QED
    BY <1>2, <2>2
<1>4. lo + 1 .. m - 1 \subseteq S
  BY <1>2
<1>5. Cardinality(lo + 1 .. m - 1) = m - 1 - lo
  <2>1. lo + 1 \in Int /\ m - 1 \in Int
    BY <1>2
  <2>2. Cardinality(lo + 1 .. m - 1) = IF lo + 1 > m - 1 THEN 0 ELSE (m - 1) - (lo + 1) + 1
    BY <2>1, FS_Interval
  <2> QED
    BY <1>2, <2>2
<1>6. m - 1 <= hi
  <2>1. m - 1 = lo \/ m - 1 \in lo + 1 .. m - 1
    BY <1>2
  <2> QED
    BY <1>4, <2>1
<1>7. S = lo + 1 .. m - 1
  BY <1>3, <1>4
<1>8. Cardinality(S) = m - 1 - lo
  BY <1>5, <1>7
<1>9. lo + Cardinality(S) = m - 1 /\ Cardinality(S) \in Nat
  BY <1>2, <1>8
<1> QED
  BY <1>6, <1>7, <1>9

-----------------------------------------------------------------------------
(***************************************************************************)
(* The inductive invariant.                                                *)
(***************************************************************************)

\* What is listed for a checkpoint are transactions of its own.
ListedInv ==
  \A c \in DOMAIN data :
    \E dropped \in SUBSET Range(Txs[c]) : data[c].listed = Listing(c, dropped)

\* What has been queued for the tables has passed the check.
CountedInv == \A c \in 1 .. flushUntil : c \in DOMAIN results /\ CountValid(c)

\* An archive that has left nothing out has said it all, and nothing failed.
HonestInv ==
  lies = 0 =>
    /\ ~failed
    /\ \A c \in DOMAIN data : data[c].listed = Txs[c] /\ data[c].total = StoredTotal(Total(c))

AssemblyInv == TypeOK /\ OwnTransactions /\ ListedInv /\ CountedInv /\ HonestInv

LEMMA AssemblyInit == Init => AssemblyInv
<1> SUFFICES ASSUME Init PROVE AssemblyInv
  OBVIOUS
<1>1. DOMAIN data = {} /\ DOMAIN results = {} /\ 1 .. flushUntil = {}
  BY DEF Init
<1>2. TypeOK
  <2>1. flushUntil \in 0 .. To /\ lies \in 0 .. MaxLies
    BY AssemblyAssumption DEF Init
  <2>2. base \in Bases /\ failed \in BOOLEAN /\ pending \subseteq DOMAIN results
    BY DEF Init
  <2> QED
    BY <1>1, <2>1, <2>2 DEF TypeOK
<1>3. OwnTransactions /\ ListedInv /\ CountedInv
  BY <1>1 DEF OwnTransactions, ListedInv, CountedInv
<1>4. HonestInv
  BY <1>1 DEF Init, HonestInv
<1> QED
  BY <1>2, <1>3, <1>4 DEF AssemblyInv

LEMMA TotalTyped ==
  ASSUME base \in Bases, NEW c \in Chunk
  PROVE  /\ Total(c) \in Nat
         /\ \A t \in Nat : StoredTotal(t) \in 0 .. MaxUint32
         /\ c # 1 => Total(c) = Total(c - 1) + Len(Txs[c]) /\ Total(c - 1) \in Nat
<1>1. base \in Nat /\ MaxUint32 \in Nat
  BY AssemblyAssumption
<1>2. c \in 0 .. To /\ c - 1 \in 0 .. To
  BY AssemblyAssumption DEF Chunk
<1>3. /\ Executed[c] \in Nat /\ Executed[c - 1] \in Nat /\ Len(Txs[c]) \in Nat
      /\ Executed[c] = Executed[c - 1] + Len(Txs[c])
  BY <1>2, ExecutedCounts, TxsTyped
<1> QED
  BY <1>1, <1>3 DEF Total, StoredTotal

LEMMA FetchSteps ==
  ASSUME AssemblyInv, NEW c \in Chunk, Fetch(c)
  PROVE  AssemblyInv'
<1>1. PICK dropped \in SUBSET Range(Txs[c]), inline \in BOOLEAN, total \in {0, Total(c)} :
        /\ data' = [i \in DOMAIN data \cup {c} |->
                      IF i \in DOMAIN data THEN data[i]
                      ELSE [listed |-> Listing(c, dropped), inline |-> inline,
                            total |-> StoredTotal(total)]]
        /\ lies' = IF dropped = {} /\ total = Total(c) THEN lies ELSE lies + 1
  BY DEF Fetch
<1> DEFINE new == [listed |-> Listing(c, dropped), inline |-> inline, total |-> StoredTotal(total)]
<1>2. /\ ~failed /\ c \notin DOMAIN data /\ lies' <= MaxLies
      /\ base' = base /\ results' = results /\ pending' = pending
      /\ flushUntil' = flushUntil /\ failed' = failed
  BY DEF Fetch
<1>3. /\ base \in Bases /\ total \in Nat /\ StoredTotal(total) \in 0 .. MaxUint32
  <2>1. base \in Bases
    BY DEF AssemblyInv, TypeOK
  <2>2. total \in Nat
    BY <2>1, TotalTyped
  <2> QED
    BY <2>1, <2>2, TotalTyped
<1>4. new \in CheckpointData /\ new.listed = Listing(c, dropped) /\ new.total = StoredTotal(total)
  BY <1>3, Listed DEF CheckpointData
<1> HIDE DEF new
<1>5. /\ DOMAIN data' = DOMAIN data \cup {c}
      /\ data'[c] = new /\ \A i \in DOMAIN data : data'[i] = data[i]
  BY <1>1, <1>2 DEF new
<1>6. lies \in 0 .. MaxLies /\ lies' \in 0 .. MaxLies
  BY <1>1, <1>2, AssemblyAssumption DEF AssemblyInv, TypeOK
<1>7. TypeOK'
  BY <1>2, <1>4, <1>5, <1>6 DEF AssemblyInv, TypeOK
<1>8. OwnTransactions'
  BY <1>2, <1>5 DEF AssemblyInv, TypeOK, OwnTransactions
<1>9. ListedInv'
  BY <1>4, <1>5 DEF AssemblyInv, ListedInv
<1>10. CountedInv'
  <2> SUFFICES ASSUME NEW k \in 1 .. flushUntil
               PROVE  k \in DOMAIN results /\ CountValid(k)'
    BY <1>2 DEF CountedInv
  <2>1. k \in DOMAIN results /\ CountValid(k) /\ k \in DOMAIN data
    BY DEF AssemblyInv, CountedInv, TypeOK
  <2>2. k = 1 \/ k - 1 \in DOMAIN data
    <3>1. flushUntil \in Nat
      BY DEF AssemblyInv, TypeOK
    <3>2. k = 1 \/ k - 1 \in 1 .. flushUntil
      BY <3>1
    <3> QED
      BY <3>2 DEF AssemblyInv, CountedInv, TypeOK
  <2> QED
    BY <1>2, <1>5, <2>1, <2>2 DEF CountValid
<1>11. HonestInv'
  <2> SUFFICES ASSUME lies' = 0
               PROVE  /\ ~failed
                      /\ \A k \in DOMAIN data' :
                           data'[k].listed = Txs[k] /\ data'[k].total = StoredTotal(Total(k))
    BY <1>2 DEF HonestInv, Total
  <2>1. lies = 0 /\ dropped = {} /\ total = Total(c)
    BY <1>1, <1>6
  <2>2. new.listed = Txs[c] /\ new.total = StoredTotal(Total(c))
    BY <1>4, <2>1, Listed
  <2> QED
    BY <1>2, <1>5, <2>1, <2>2 DEF AssemblyInv, HonestInv
<1> QED
  BY <1>7, <1>8, <1>9, <1>10, <1>11 DEF AssemblyInv
\* A complete answer gives each checkpoint of the batch the transactions of its
\* own list.
LEMMA OwnFromAnswer ==
  ASSUME TypeOK, NEW items \in Seq(DOMAIN data), NEW answer,
         Complete(AllDigests(items), answer), NEW c \in Range(items)
  PROVE  Result(AllDigests(items), answer, c) = data[c].listed
<1> DEFINE all == AllDigests(items)
           listed == data[c].listed
           lists == [i \in DOMAIN items |-> TransactionDigests(items[i])]
<1>1. PICK k \in DOMAIN items : items[k] = c
  BY DEF Range
<1>2. \A d \in DOMAIN data : data[d] \in CheckpointData
  BY DEF TypeOK
<1>3. c \in DOMAIN data /\ listed \in Seq(Digest)
  BY <1>1, <1>2, ElementOfSeq, LenProperties DEF CheckpointData
<1>4. CASE data[c].inline
  BY <1>4 DEF Result
<1>5. CASE ~data[c].inline
  <2>1. \A d \in DOMAIN data : TransactionDigests(d) \in Seq(Digest)
    BY <1>2 DEF TransactionDigests, CheckpointData
  <2>2. /\ Len(items) \in Nat /\ DOMAIN items = 1 .. Len(items)
        /\ \A i \in 1 .. Len(items) : items[i] \in DOMAIN data
    BY LenProperties, ElementOfSeq
  <2>3. lists \in Seq(Seq(Digest)) /\ DOMAIN lists = DOMAIN items
    BY <2>1, <2>2
  <2>4. lists[k] = listed /\ k \in DOMAIN lists
    BY <1>1, <1>5 DEF TransactionDigests
  <2>5. lists # <<>> /\ AllDigests(items) = FlattenSeq(lists)
    BY <2>3, <2>4, EmptySeq DEF AllDigests
  <2> HIDE DEF lists
  <2>6. Range(listed) \subseteq Range(all)
    BY <2>3, <2>4, <2>5, Flattened
  <2>7. Range(listed) \subseteq Range(answer)
    BY <2>6 DEF Complete
  <2> HIDE DEF listed
  <2>8. \A i \in DOMAIN listed : (CHOOSE tx \in Range(answer) : tx = listed[i]) = listed[i]
    BY <2>7 DEF Range
  <2>9. Assemble(all, answer, listed) = [i \in DOMAIN listed |-> listed[i]]
    BY <2>8 DEF Assemble
  <2>10. [i \in DOMAIN listed |-> listed[i]] = listed
    BY <1>3
  <2> QED
    BY <1>5, <2>9, <2>10 DEF Result, listed
<1> QED
  BY <1>4, <1>5

LEMMA HydrateSteps ==
  ASSUME AssemblyInv, NEW items \in SetToAllKPermutations(DOMAIN data \ DOMAIN results),
         Hydrate(items)
  PROVE  AssemblyInv'
<1> DEFINE all == AllDigests(items)
<1>1. PICK answer :
        /\ lies' = IF Complete(all, answer) THEN lies ELSE lies + 1
        /\ lies' <= MaxLies
        /\ IF Complete(all, answer)
           THEN /\ results' = [c \in DOMAIN results \cup Range(items) |->
                                 IF c \in DOMAIN results THEN results[c]
                                 ELSE Result(all, answer, c)]
                /\ UNCHANGED failed
           ELSE failed' = TRUE /\ UNCHANGED results
  BY DEF Hydrate
<1>2. base' = base /\ data' = data /\ pending' = pending /\ flushUntil' = flushUntil
  BY DEF Hydrate
<1>3. lies \in 0 .. MaxLies /\ lies' \in 0 .. MaxLies
  BY <1>1, AssemblyAssumption DEF AssemblyInv, TypeOK
<1>4. items \in Seq(DOMAIN data) /\ Range(items) \subseteq DOMAIN data
  <2> DEFINE open == DOMAIN data \ DOMAIN results
  <2>1. open \in SUBSET Chunk
    BY DEF AssemblyInv, TypeOK
  <2> HIDE DEF open
  <2>2. items \in Seq(open)
    BY <2>1, BatchTyped DEF open
  <2>3. Range(items) \in SUBSET open
    BY <2>2, RangeOfSeq
  <2> QED
    BY <2>2, <2>3 DEF open
<1>5. /\ DOMAIN results \subseteq DOMAIN results' /\ DOMAIN results' \subseteq DOMAIN data
      /\ \A c \in DOMAIN results : results'[c] = results[c]
      /\ \A c \in DOMAIN results' : results'[c] = data[c].listed
  <2>1. \A c \in DOMAIN results : results[c] = data[c].listed
    BY DEF AssemblyInv, OwnTransactions
  <2>2. DOMAIN results \subseteq DOMAIN data /\ TypeOK
    BY DEF AssemblyInv, TypeOK
  <2> HIDE DEF all
  <2>3. CASE ~Complete(all, answer)
    BY <1>1, <2>1, <2>2, <2>3
  <2>4. CASE Complete(all, answer)
    <3>1. \A c \in Range(items) : Result(all, answer, c) = data[c].listed
      BY <1>4, <2>2, <2>4, OwnFromAnswer DEF all
    <3>2. DOMAIN results' = DOMAIN results \cup Range(items)
      BY <1>1, <2>4
    <3>3. \A c \in DOMAIN results' : results'[c] = IF c \in DOMAIN results THEN results[c]
                                                  ELSE Result(all, answer, c)
      BY <1>1, <2>4
    <3> QED
      BY <1>4, <2>1, <2>2, <3>1, <3>2, <3>3
  <2> QED
    BY <2>3, <2>4
<1>6. TypeOK'
  <2>1. \A c \in DOMAIN data : data[c] \in CheckpointData /\ data[c].listed \in Seq(Digest)
    BY DEF AssemblyInv, TypeOK, CheckpointData
  <2>2. failed' \in BOOLEAN
    BY <1>1 DEF AssemblyInv, TypeOK
  <2> QED
    BY <1>2, <1>3, <1>5, <2>1, <2>2 DEF AssemblyInv, TypeOK
<1>7. OwnTransactions'
  BY <1>2, <1>5 DEF OwnTransactions
<1>8. ListedInv'
  BY <1>2 DEF AssemblyInv, ListedInv
<1>9. CountedInv'
  BY <1>2, <1>5 DEF AssemblyInv, CountedInv, CountValid
<1>10. HonestInv'
  <2> SUFFICES ASSUME lies' = 0
               PROVE  ~failed' /\ \A c \in DOMAIN data :
                        data[c].listed = Txs[c] /\ data[c].total = StoredTotal(Total(c))
    BY <1>2 DEF HonestInv, Total
  <2>1. Complete(all, answer) /\ lies = 0
    BY <1>1, <1>3
  <2> QED
    BY <1>1, <2>1 DEF AssemblyInv, HonestInv
<1> QED
  BY <1>6, <1>7, <1>8, <1>9, <1>10 DEF AssemblyInv

LEMMA ReceiveSteps ==
  ASSUME AssemblyInv, NEW c \in Chunk, Receive(c)
  PROVE  AssemblyInv'
<1> DEFINE arrived == pending \cup {c}
           next == {k \in flushUntil + 1 .. To : flushUntil + 1 .. k \subseteq arrived}
           valid == {k \in next : \A i \in flushUntil + 1 .. k : CountValid(i)}
<1>1. /\ ~failed /\ c \in DOMAIN results
      /\ flushUntil' = flushUntil + Cardinality(valid)
      /\ pending' = arrived \ valid
      /\ failed' = (valid # next)
      /\ base' = base /\ data' = data /\ results' = results /\ lies' = lies
  BY DEF Receive
<1>2. /\ flushUntil \in 0 .. To /\ flushUntil \in Nat /\ To \in Nat
      /\ pending \subseteq DOMAIN results /\ DOMAIN results \subseteq DOMAIN data
      /\ DOMAIN data \subseteq Chunk
  BY AssemblyAssumption DEF AssemblyInv, TypeOK
<1>3. arrived \subseteq DOMAIN results
  BY <1>1, <1>2
<1>4. \A k \in next : k \in flushUntil + 1 .. To /\ flushUntil + 1 .. k \subseteq arrived
  OBVIOUS
<1>5. \A k \in valid : k \in next /\ \A i \in flushUntil + 1 .. k : CountValid(i)
  OBVIOUS
<1>6. \A k \in valid : flushUntil + 1 .. k \subseteq valid
  <2> SUFFICES ASSUME NEW k \in valid, NEW i \in flushUntil + 1 .. k PROVE i \in valid
    OBVIOUS
  <2>1. /\ i \in flushUntil + 1 .. To
        /\ \A j \in flushUntil + 1 .. i : j \in flushUntil + 1 .. k
    BY <1>2
  <2> QED
    BY <1>4, <1>5, <2>1
<1> HIDE DEF valid, next
<1>7. /\ flushUntil' \in 0 .. To
      /\ valid = flushUntil + 1 .. flushUntil'
  <2>1. valid \in SUBSET (flushUntil + 1 .. To) /\ flushUntil <= To
    BY <1>2, <1>4, <1>5
  <2>2. /\ Cardinality(valid) \in Nat /\ flushUntil + Cardinality(valid) <= To
        /\ valid = flushUntil + 1 .. flushUntil + Cardinality(valid)
    BY <1>2, <1>6, <2>1, Contiguous
  <2> QED
    BY <1>1, <1>2, <2>2
<1>8. TypeOK'
  BY <1>1, <1>3, <1>7 DEF AssemblyInv, TypeOK
<1>9. OwnTransactions' /\ ListedInv'
  BY <1>1 DEF AssemblyInv, OwnTransactions, ListedInv
<1>10. CountedInv'
  <2> SUFFICES ASSUME NEW k \in 1 .. flushUntil' PROVE k \in DOMAIN results /\ CountValid(k)
    BY <1>1 DEF CountedInv, CountValid
  <2>1. CASE k \in 1 .. flushUntil
    BY <2>1 DEF AssemblyInv, CountedInv
  <2>2. CASE k \in valid
    <3>1. k \in flushUntil + 1 .. k
      BY <1>2, <1>4, <1>5, <2>2
    <3> QED
      BY <1>3, <1>4, <1>5, <2>2, <3>1
  <2> QED
    BY <1>2, <1>7, <2>1, <2>2
<1>11. HonestInv'
  <2> SUFFICES ASSUME lies = 0 PROVE next \subseteq valid
    BY <1>1, <1>5 DEF HonestInv, Total, AssemblyInv
  <2> SUFFICES ASSUME NEW k \in next, NEW i \in flushUntil + 1 .. k, i # 1 PROVE CountValid(i)
    BY DEF valid, CountValid
  <2>1. i \in Chunk /\ i \in DOMAIN results /\ i \in DOMAIN data /\ i \in Nat
    BY <1>2, <1>3, <1>4
  <2>2. i - 1 \in DOMAIN data
    <3>1. i - 1 \in 1 .. flushUntil \/ i - 1 \in flushUntil + 1 .. k
      BY <1>2, <1>4, <2>1
    <3> QED
      BY <1>2, <1>3, <1>4, <3>1 DEF AssemblyInv, CountedInv
  <2>3. /\ results[i] = data[i].listed /\ data[i].listed = Txs[i]
        /\ data[i].total = StoredTotal(Total(i))
        /\ data[i - 1].total = StoredTotal(Total(i - 1))
    BY <2>1, <2>2 DEF AssemblyInv, OwnTransactions, HonestInv
  <2>4. /\ Total(i) \in Nat /\ Total(i - 1) \in Nat /\ Len(Txs[i]) \in Nat
        /\ Total(i) = Total(i - 1) + Len(Txs[i])
    BY <2>1, TotalTyped, TxsTyped DEF AssemblyInv, TypeOK
  <2> QED
    BY <2>3, <2>4, AssemblyAssumption DEF CountValid, StoredTotal
<1> QED
  BY <1>8, <1>9, <1>10, <1>11 DEF AssemblyInv

-----------------------------------------------------------------------------
(***************************************************************************)
(* The theorems.                                                           *)
(***************************************************************************)

LEMMA AssemblySteps == AssemblyInv /\ [Next]_vars => AssemblyInv'
<1> SUFFICES ASSUME AssemblyInv, [Next]_vars PROVE AssemblyInv'
  OBVIOUS
<1>1. CASE UNCHANGED vars
  BY <1>1 DEF vars, AssemblyInv, TypeOK, OwnTransactions, ListedInv, CountedInv,
     CountValid, HonestInv, Total
<1>2. CASE \E c \in Chunk : Fetch(c) \/ Receive(c)
  BY <1>2, FetchSteps, ReceiveSteps
<1>3. CASE \E items \in SetToAllKPermutations(DOMAIN data \ DOMAIN results) : Hydrate(items)
  BY <1>3, HydrateSteps
<1> QED
  BY <1>1, <1>2, <1>3 DEF Next

LEMMA Assembled == Spec => []AssemblyInv
BY AssemblyInit, AssemblySteps, PTL DEF Spec

\* Every variable has its type; no total is larger than its column.
THEOREM AssemblyTyped == Spec => []TypeOK
<1>1. AssemblyInv => TypeOK
  BY DEF AssemblyInv
<1> QED
  BY <1>1, Assembled, PTL

\* The rows of a checkpoint are those of its own list and in its order, in
\* whatever order the archive answers and however the checkpoints are batched.
THEOREM OwnRows == Spec => []OwnTransactions
<1>1. AssemblyInv => OwnTransactions
  BY DEF AssemblyInv
<1> QED
  BY <1>1, Assembled, PTL

\* A checkpoint whose totals are known goes to the tables with all its
\* transactions: the count notices what the archive has left out.
THEOREM LossesCaught == Spec => []LossCaught
<1>1. AssemblyInv => LossCaught
  <2> SUFFICES ASSUME AssemblyInv, NEW c \in 2 .. flushUntil, Known(c - 1), Known(c)
               PROVE  results[c] = Txs[c]
    BY DEF LossCaught
  <2>1. flushUntil \in 0 .. To /\ To \in Nat
    BY AssemblyAssumption DEF AssemblyInv, TypeOK
  <2>2. c \in 1 .. flushUntil /\ c \in Chunk /\ c # 1
    BY <2>1 DEF Chunk
  <2>3. c \in DOMAIN results /\ c \in DOMAIN data /\ CountValid(c)
    BY <2>2 DEF AssemblyInv, CountedInv, TypeOK
  <2>4. /\ Total(c) \in Nat /\ Total(c - 1) \in Nat /\ Len(Txs[c]) \in Nat
        /\ Total(c) = Total(c - 1) + Len(Txs[c])
    BY <2>2, TotalTyped, TxsTyped DEF AssemblyInv, TypeOK
  <2>5. Len(results[c]) = Len(Txs[c])
    BY <2>2, <2>3, <2>4, AssemblyAssumption DEF CountValid, Known
  <2>6. PICK dropped : data[c].listed = Listing(c, dropped)
    BY <2>3 DEF AssemblyInv, ListedInv
  <2>7. results[c] = Listing(c, dropped)
    BY <2>3, <2>6 DEF AssemblyInv, OwnTransactions
  <2> QED
    BY <2>2, <2>5, <2>7, Listed
<1> QED
  BY <1>1, Assembled, PTL

\* The chunk never fails on an archive that leaves nothing out.
THEOREM HonestPasses == Spec => []HonestNeverFails
<1>1. AssemblyInv => HonestNeverFails
  <2> SUFFICES ASSUME AssemblyInv, failed PROVE lies > 0
    BY DEF HonestNeverFails
  <2>1. lies \in 0 .. MaxLies /\ lies # 0 /\ MaxLies \in Nat
    BY AssemblyAssumption DEF AssemblyInv, TypeOK, HonestInv
  <2> QED
    BY <2>1
<1> QED
  BY <1>1, Assembled, PTL

=============================================================================
