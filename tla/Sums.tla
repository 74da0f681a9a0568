-------------------------------- MODULE Sums --------------------------------
(***************************************************************************)
(* Facts about sums over finite sets, as the folds of the community        *)
(* modules compute them: by taking away one element at a time.             *)
(*                                                                         *)
(* The rule of induction over finite sets is not at hand as a theorem with *)
(* an operator for a parameter; its place takes the least number in the    *)
(* set of the sizes of all exceptions.                                     *)
(***************************************************************************)
EXTENDS Integers, FiniteSets, FiniteSetTheorems, WellFoundedInduction, TLAPS

\* A set of natural numbers that is not empty has a least element.
LEMMA Least ==
  ASSUME NEW S \in SUBSET Nat, S # {}
  PROVE  \E m \in S : \A i \in S : m <= i
<1>1. PICK m \in S : \A i \in S : ~ (<<i, m>> \in OpToRel(<, Nat))
  BY NatLessThanWellFounded, WFMin
<1>2. ASSUME NEW i \in S PROVE m <= i
  <2>1. <<i, m>> \in Nat \X Nat /\ <<i, m>>[1] = i /\ <<i, m>>[2] = m
    OBVIOUS
  <2>2. ~ (i < m)
    BY <1>1, <2>1 DEF OpToRel
  <2> QED
    BY <2>2
<1> QED
  BY <1>2

\* The size of the first natural numbers.
LEMMA UpTo ==
  ASSUME NEW m \in Nat
  PROVE  IsFiniteSet(1 .. m) /\ Cardinality(1 .. m) = m
<1>1. /\ IsFiniteSet(1 .. m)
      /\ Cardinality(1 .. m) = IF 1 > m THEN 0 ELSE m - 1 + 1
  BY FS_Interval
<1> QED
  BY <1>1

\* What holds of a finite set as soon as it holds of all sets with one element
\* less holds of every subset of a finite set; Good is the set of those of
\* which it holds.
LEMMA OneByOne ==
  ASSUME NEW S, IsFiniteSet(S), NEW Good,
         \A s \in SUBSET S : (\A x \in s : s \ {x} \in Good) => s \in Good
  PROVE  SUBSET S \subseteq Good
<1> SUFFICES ASSUME NEW bad \in SUBSET S, bad \notin Good PROVE FALSE
  OBVIOUS
<1> DEFINE Sizes == {Cardinality(s) : s \in (SUBSET S) \ Good}
<1>1. \A s \in SUBSET S : IsFiniteSet(s) /\ Cardinality(s) \in Nat
  BY FS_Subset, FS_CardinalityType
<1>2. Sizes \in SUBSET Nat /\ Sizes # {}
  <2>1. \A s \in (SUBSET S) \ Good : Cardinality(s) \in Nat
    BY <1>1
  <2>2. bad \in (SUBSET S) \ Good
    OBVIOUS
  <2>3. \E m \in Sizes : m = Cardinality(bad)
    BY <2>2
  <2> QED
    BY <2>1, <2>3
<1> HIDE DEF Sizes
<1>3. PICK n \in Sizes : \A m \in Sizes : n <= m
  BY <1>2, Least
<1>4. PICK s \in (SUBSET S) \ Good : Cardinality(s) = n
  BY <1>3 DEF Sizes
<1>5. PICK x \in s : s \ {x} \notin Good
  <2>1. s \in SUBSET S /\ s \notin Good
    BY <1>4
  <2>2. (\A x \in s : s \ {x} \in Good) => s \in Good
    BY <2>1
  <2> QED
    BY <2>1, <2>2
<1>6. Cardinality(s \ {x}) = n - 1 /\ s \ {x} \in SUBSET S
  BY <1>1, <1>4, FS_RemoveElement
<1>7. n - 1 \in Sizes
  BY <1>5, <1>6 DEF Sizes
<1> QED
  BY <1>2, <1>3, <1>7

-----------------------------------------------------------------------------
(***************************************************************************)
(* F gives each subset of S the sum of f over it.                          *)
(***************************************************************************)
IsSum(F, f, S) ==
  F = [s \in SUBSET S |-> IF s = {} THEN 0
                          ELSE f[CHOOSE x \in s : TRUE]
                                 + F[s \ {CHOOSE x \in s : TRUE}]]

\* There is only one such F.
LEMMA SumUnique ==
  ASSUME NEW S, IsFiniteSet(S), NEW f, NEW F, IsSum(F, f, S), NEW G, IsSum(G, f, S)
  PROVE  F[S] = G[S]
<1> DEFINE Good == {s \in SUBSET S : F[s] = G[s]}
<1>1. \A s \in SUBSET S :
        /\ F[s] = IF s = {} THEN 0
                  ELSE f[CHOOSE x \in s : TRUE] + F[s \ {CHOOSE x \in s : TRUE}]
        /\ G[s] = IF s = {} THEN 0
                  ELSE f[CHOOSE x \in s : TRUE] + G[s \ {CHOOSE x \in s : TRUE}]
  BY DEF IsSum
<1>2. ASSUME NEW s \in SUBSET S, \A x \in s : s \ {x} \in Good
      PROVE  s \in Good
  <2>1. CASE s = {}
    BY <1>1, <2>1
  <2>2. CASE s # {}
    <3> DEFINE x == CHOOSE x \in s : TRUE
    <3>1. x \in s
      BY <2>2
    <3> HIDE DEF x
    <3>2. F[s \ {x}] = G[s \ {x}]
      BY <1>2, <3>1
    <3>3. F[s] = f[x] + F[s \ {x}] /\ G[s] = f[x] + G[s \ {x}]
      BY <1>1, <2>2 DEF x
    <3> QED
      BY <3>2, <3>3
  <2> QED
    BY <2>1, <2>2
<1> HIDE DEF Good
<1>3. SUBSET S \subseteq Good
  BY <1>2, OneByOne
<1> QED
  BY <1>3 DEF Good
\* The sum that a fold finds, and how to show what it is: by a function that
\* gives the empty set nothing and loses f[x] with the element x.
SumOver(f, S) == (CHOOSE F : IsSum(F, f, S))[S]

Additive(G, f, S) ==
  /\ G[{}] = 0
  /\ \A s \in SUBSET S : \A x \in s : G[s] = f[x] + G[s \ {x}]

LEMMA SumIs ==
  ASSUME NEW S, IsFiniteSet(S), NEW f, NEW G, Additive(G, f, S)
  PROVE  SumOver(f, S) = G[S]
<1> DEFINE H == [s \in SUBSET S |-> G[s]]
<1>1. ASSUME NEW s \in SUBSET S
      PROVE  G[s] = IF s = {} THEN 0
                    ELSE f[CHOOSE x \in s : TRUE] + H[s \ {CHOOSE x \in s : TRUE}]
  <2>1. s # {} => (CHOOSE x \in s : TRUE) \in s
    OBVIOUS
  <2> QED
    BY <2>1 DEF Additive
<1>2. H = [s \in SUBSET S |-> IF s = {} THEN 0
                    ELSE f[CHOOSE x \in s : TRUE] + H[s \ {CHOOSE x \in s : TRUE}]]
  BY <1>1
<1>3. H[S] = G[S]
  OBVIOUS
<1> HIDE DEF H
<1>4. IsSum(H, f, S)
  BY <1>2 DEF IsSum
<1>5. IsSum(CHOOSE F : IsSum(F, f, S), f, S)
  BY <1>4
<1>6. SumOver(f, S) = H[S]
  BY <1>4, <1>5, SumUnique DEF SumOver
<1> QED
  BY <1>3, <1>6

\* The sum of natural numbers counts: f[x] things for each x.
Units(f, s) == UNION {{x} \X (1 .. f[x]) : x \in s}

LEMMA SumCounts ==
  ASSUME NEW S, IsFiniteSet(S), NEW f, \A x \in S : f[x] \in Nat
  PROVE  /\ SumOver(f, S) = Cardinality(Units(f, S)) /\ IsFiniteSet(Units(f, S))
<1>1. ASSUME NEW x \in S
      PROVE  IsFiniteSet({x} \X (1 .. f[x])) /\ Cardinality({x} \X (1 .. f[x])) = f[x]
  <2>1. IsFiniteSet({x}) /\ Cardinality({x}) = 1
    BY FS_Singleton
  <2>2. IsFiniteSet(1 .. f[x]) /\ Cardinality(1 .. f[x]) = f[x]
    BY UpTo
  <2>3. Cardinality({x} \X (1 .. f[x])) = 1 * f[x] /\ IsFiniteSet({x} \X (1 .. f[x]))
    BY <2>1, <2>2, FS_Product
  <2> QED
    BY <2>3
<1>2. ASSUME NEW s \in SUBSET S
      PROVE  IsFiniteSet(Units(f, s)) /\ Cardinality(Units(f, s)) \in Nat
  <2>1. IsFiniteSet(s)
    BY FS_Subset
  <2> DEFINE Good == {r \in SUBSET s : IsFiniteSet(Units(f, r))}
  <2>2. ASSUME NEW r \in SUBSET s, \A x \in r : r \ {x} \in Good
        PROVE  r \in Good
    <3>1. CASE r = {}
      BY <3>1, FS_EmptySet DEF Units
    <3>2. CASE r # {}
      <4>1. PICK x \in r : TRUE
        BY <3>2
      <4>2. Units(f, r) = Units(f, r \ {x}) \cup ({x} \X (1 .. f[x]))
        BY <4>1 DEF Units
      <4>3. IsFiniteSet(Units(f, r \ {x})) /\ IsFiniteSet({x} \X (1 .. f[x]))
        BY <1>1, <2>2, <4>1
      <4>4. IsFiniteSet(Units(f, r \ {x}) \cup ({x} \X (1 .. f[x])))
        BY <4>3, FS_Union
      <4> QED
        BY <4>2, <4>4
    <3> QED
      BY <3>1, <3>2
  <2> HIDE DEF Good
  <2>3. SUBSET s \subseteq Good
    BY <2>1, <2>2, OneByOne
  <2> QED
    BY <2>3, FS_CardinalityType DEF Good
<1> DEFINE G == [s \in SUBSET S |-> Cardinality(Units(f, s))]
<1>3. ASSUME NEW s \in SUBSET S, NEW x \in s
      PROVE  G[s] = f[x] + G[s \ {x}]
  <2> DEFINE rest == s \ {x}
             own == {x} \X (1 .. f[x])
  <2>1. Units(f, s) = Units(f, rest) \cup own
    BY DEF Units
  <2>2. Units(f, rest) \cap own = {}
    BY DEF Units
  <2>3. rest \in SUBSET S /\ x \in S
    OBVIOUS
  <2>4. G[s] = Cardinality(Units(f, s)) /\ G[rest] = Cardinality(Units(f, rest))
    BY <2>3
  <2>5. /\ IsFiniteSet(Units(f, rest)) /\ Cardinality(Units(f, rest)) \in Nat
        /\ IsFiniteSet(own) /\ Cardinality(own) = f[x] /\ f[x] \in Nat
    BY <1>1, <1>2, <2>3
  <2> HIDE DEF own, rest, G
  <2>6. Cardinality({}) = 0
    BY FS_EmptySet
  <2>7. Cardinality(Units(f, rest) \cup own)
          = Cardinality(Units(f, rest)) + Cardinality(own) - Cardinality({})
    BY <2>2, <2>5, FS_Union
  <2>8. G[s] = f[x] + G[rest]
    BY <2>1, <2>4, <2>5, <2>6, <2>7
  <2> QED
    BY <2>8 DEF rest
<1>4. G[{}] = 0
  <2>1. Units(f, {}) = {}
    BY DEF Units
  <2>2. G[{}] = Cardinality(Units(f, {}))
    OBVIOUS
  <2> HIDE DEF G
  <2> QED
    BY <2>1, <2>2, FS_EmptySet
<1>5. G[S] = Cardinality(Units(f, S))
  OBVIOUS
<1> HIDE DEF G
<1>6. SumOver(f, S) = G[S]
  <2>1. \A s \in SUBSET S : \A x \in s : G[s] = f[x] + G[s \ {x}]
    BY <1>3
  <2>2. Additive(G, f, S)
    BY <1>4, <2>1 DEF Additive
  <2> QED
    BY <2>2, SumIs
<1> QED
  BY <1>2, <1>5, <1>6

=============================================================================
