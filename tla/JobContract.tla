---------------------------- MODULE JobContract ----------------------------
(***************************************************************************)
(* What the crawler promises about a job, with no process, no goroutine    *)
(* and no channel: the life of a job from creation to completion, and the  *)
(* one rule that ties its persisted position to the analytics tables.      *)
(*                                                                         *)
(*   ingested  the checkpoints whose rows are in all the ClickHouse tables *)
(*   job       per job: status, range, and last, its persisted position    *)
(*                                                                         *)
(* A position never runs ahead of what is ingested, never goes back, and   *)
(* a job completes only when everything after its first checkpoint is      *)
(* ingested.  Everything else (claims, failures, resets after a crash,     *)
(* retries by the user) only moves the status.  Crawler implements this    *)
(* specification.                                                          *)
(***************************************************************************)
EXTENDS Naturals

CONSTANTS Ids,              \* the identifiers of jobs
          Positions         \* the checkpoint sequence numbers

VARIABLES job, ingested

contractVars == <<job, ingested>>

\* The checkpoints that a job at position p has behind it.
Behind(j, p) == (job[j].from + 1) .. p

ContractInit ==
  /\ job = [j \in Ids |-> [status |-> "none", from |-> 0, last |-> 0, end |-> 0]]
  /\ ingested = {}

Submit(j) ==
  /\ job[j].status = "none"
  /\ \E from \in Positions, end \in Positions :
       /\ from <= end
       /\ job' = [job EXCEPT ![j] = [status |-> "pending", from |-> from,
                                     last |-> from, end |-> end]]
  /\ UNCHANGED ingested

Take(j) ==
  /\ job[j].status = "pending"
  /\ job' = [job EXCEPT ![j].status = "progressing"]
  /\ UNCHANGED ingested

Ingest ==
  /\ ingested \subseteq ingested'
  /\ UNCHANGED job

Advance(j) ==
  /\ job[j].status = "progressing"
  /\ \E p \in Positions :
       /\ job[j].last < p /\ p <= job[j].end
       /\ Behind(j, p) \subseteq ingested
       /\ job' = [job EXCEPT ![j].last = p]
  /\ UNCHANGED ingested

Finish(j) ==
  /\ job[j].status = "progressing"
  /\ Behind(j, job[j].end) \subseteq ingested
  /\ job' = [job EXCEPT ![j].status = "completed"]
  /\ UNCHANGED ingested

\* A failed run gives its job back; a restart gives all of them back at once.
GiveBack ==
  /\ \E S \in SUBSET {j \in Ids : job[j].status = "progressing"} :
       job' = [j \in Ids |-> IF j \in S THEN [job[j] EXCEPT !.status = "pending"]
                                        ELSE job[j]]
  /\ UNCHANGED ingested

\* The user may send any job back; it keeps its position.
Resubmit(j) ==
  /\ job[j].status # "none"
  /\ job' = [job EXCEPT ![j].status = "pending"]
  /\ UNCHANGED ingested

ContractNext ==
  \/ Ingest \/ GiveBack
  \/ \E j \in Ids :
       Submit(j) \/ Take(j) \/ Advance(j) \/ Finish(j) \/ Resubmit(j)

ContractSpec == ContractInit /\ [][ContractNext]_contractVars

=============================================================================
