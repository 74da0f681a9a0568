------------------------------ MODULE Settings ------------------------------
(***************************************************************************)
(* The numbers of the configuration and what is derived from them: the     *)
(* requests per second, from which come the limiter, the two pools of      *)
(* goroutines of a chunk and the capacities of its channels, and the       *)
(* timeout of a call.  Names and addresses only have to be non-empty, which *)
(* their defaults see to, and are left out.                                *)
(***************************************************************************)
EXTENDS Integers

CONSTANTS
  MinInt, MaxInt,                \* of Go's int and int64
  MaxCheckpointFetchParallelism, \* maxCheckpointFetchParallelism (8)
  MaxTransactionHydrationWorkers,\* maxTransactionHydrationWorkers (10)
  CheckpointFetchBatchSize       \* checkpointFetchBatchSize (10)

ASSUME SettingsAssumption ==
  /\ MinInt \in Int /\ MaxInt \in Nat /\ MinInt = -MaxInt - 1
  /\ MaxCheckpointFetchParallelism \in 1 .. MaxInt
  /\ MaxTransactionHydrationWorkers \in 2 .. MaxInt
  /\ CheckpointFetchBatchSize \in 1 .. MaxInt

\* A float64, as far as its sign and its integer part go: a multiple of 1/2,
\* or not a number, or beyond the range of int on one of the two sides.
Float == [class : {"number", "nan", "high", "low", "malformed"}, halves : Int]

Number(halves) == [class |-> "number", halves |-> halves]
NaN     == [class |-> "nan", halves |-> 0]
TooHigh == [class |-> "high", halves |-> 0]
TooLow  == [class |-> "low", halves |-> 0]

Positive(x)    == x.class = "high" \/ (x.class = "number" /\ x.halves > 0)
NotPositive(x) == x.class = "low" \/ (x.class = "number" /\ x.halves <= 0)

\* int(x) and int(math.Ceil(x)).  Outside the range of int the language leaves
\* the value to the platform: amd64 gives MinInt, arm64 the nearest int or 0.
Undefined == {MinInt, 0, MaxInt}

IntOf(x)  == IF x.class # "number" THEN Undefined
             ELSE {IF x.halves >= 0 THEN x.halves \div 2 ELSE -((0 - x.halves) \div 2)}
CeilOf(x) == IF x.class # "number" THEN Undefined ELSE {(x.halves + 1) \div 2}

\* Load and validate: ParseFloat takes any number, NaN and Inf; the timeout
\* has to be positive.
Loads(env) == env.rps.class # "malformed" /\ env.timeout > 0
Malformed  == [class |-> "malformed", halves |-> 0]

\* main: no limiter, or the burst of one.
AtLeast(low, n)   == IF n < low THEN low ELSE n
AtMost(high, n)   == IF n > high THEN high ELSE n
NoLimiter         == 0
Burst(rps, whole) == IF Positive(rps) THEN AtLeast(1, whole) ELSE NoLimiter

\* checkpointFetchConcurrency
FetchConcurrency(rps, ceil) ==
  IF NotPositive(rps) THEN 1
  ELSE AtMost(MaxCheckpointFetchParallelism, AtLeast(1, ceil))

\* Mistake: the lower bound is only applied to what was not configured.
HydrationConcurrencyUnbounded(ceil, fetchers) ==
  AtMost(MaxTransactionHydrationWorkers, IF ceil = 0 THEN fetchers * 2 ELSE ceil)

\* transactionHydrationConcurrency
HydrationConcurrency(ceil, fetchers) ==
  AtMost(MaxTransactionHydrationWorkers,
         AtLeast(2, IF ceil = 0 THEN fetchers * 2 ELSE ceil))

\* The pools and channels that processCheckpointRange makes.
Pools(rps, whole, ceil) ==
  LET fetchers  == FetchConcurrency(rps, ceil)
      hydrators == HydrationConcurrency(ceil, fetchers)
  IN  [fetchers |-> fetchers, hydrators |-> hydrators,
       dataCap |-> fetchers * CheckpointFetchBatchSize,
       resultCap |-> hydrators * CheckpointFetchBatchSize,
       burst |-> Burst(rps, whole)]
=============================================================================
