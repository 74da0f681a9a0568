--------------------------- MODULE ChunkContract ---------------------------
(***************************************************************************)
(* What the processing of one chunk looks like from outside the pipeline   *)
(* of goroutines that does it: rows become complete in order, stretch by   *)
(* stretch, each stretch is reported before the next, and the call returns *)
(* nil only when the whole chunk is written or the job was cancelled.      *)
(* These are the steps that Crawler's worker takes between StartChunk and  *)
(* the next chunk; CheckpointPipeline implements them.                     *)
(***************************************************************************)
EXTENDS Integers

CONSTANTS From, To          \* the first and the last checkpoint of the chunk

VARIABLES
  written,    \* checkpoints with all their rows in all the tables
  pos,        \* the last checkpoint of the stretch written and acknowledged
  reported,   \* the last position reported to the orchestrator
  stopping,   \* the context of the job is cancelled
  outcome     \* "running", "failing" (only an error can follow), "nil", "error"

chunkVars == <<written, pos, reported, stopping, outcome>>

ChunkInit ==
  /\ written = {} /\ pos = From - 1 /\ reported = From - 1
  /\ stopping = FALSE /\ outcome = "running"

Flush ==
  /\ outcome = "running" /\ ~stopping /\ reported = pos
  /\ \E q \in pos + 1 .. To :
       /\ written' = written \cup (pos + 1 .. q)
       /\ pos' = q
  /\ UNCHANGED <<reported, stopping, outcome>>

Report ==
  /\ reported < pos
  /\ reported' = pos
  /\ UNCHANGED <<written, pos, stopping, outcome>>

Stop ==
  /\ stopping' = TRUE
  /\ UNCHANGED <<written, pos, reported, outcome>>

\* A failed insert may still have been applied, as a whole or in part.
Fail ==
  /\ outcome = "running" /\ reported = pos
  /\ \E S \in SUBSET (pos + 1 .. To) : written' = written \cup S
  /\ outcome' \in {"failing", "error"}
  /\ UNCHANGED <<pos, reported, stopping>>

ReturnError ==
  /\ outcome = "failing"
  /\ outcome' = "error"
  /\ UNCHANGED <<written, pos, reported, stopping>>

ReturnNil ==
  /\ outcome = "running" /\ reported = pos
  /\ pos = To \/ stopping
  /\ outcome' = "nil"
  /\ UNCHANGED <<written, pos, reported, stopping>>

ChunkNext == Flush \/ Report \/ Stop \/ Fail \/ ReturnError \/ ReturnNil

ChunkSpec == ChunkInit /\ [][ChunkNext]_chunkVars

=============================================================================
