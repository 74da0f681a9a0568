--------------------------- MODULE JobRepository ---------------------------
(***************************************************************************)
(* The crawler_jobs collection of MongoDB and the queries of               *)
(* internal/repository/job_repository.go, as operators on the value of the *)
(* collection.  Every query is one UpdateOne, UpdateMany, InsertOne or     *)
(* Find, which MongoDB applies atomically; what the callers do with the    *)
(* result, and what happens when the call fails, is in Crawler.            *)
(*                                                                         *)
(* A collection is a function from job identifiers to documents.  The      *)
(* identifiers are numbered in order of created_at.  Of a document's       *)
(* texts and times only their presence is kept: error and completedAt say  *)
(* whether the field is set.                                               *)
(***************************************************************************)
EXTENDS Naturals

CONSTANT MaxJobs            \* how many jobs may ever be created

ASSUME MaxJobsAssumption == MaxJobs \in Nat

JobIds == 1 .. MaxJobs

\* "none": there is no such document yet.
JobStatus == {"none", "pending", "progressing", "completed"}

CrawlerJob == [status : JobStatus, from : Nat, last : Nat, end : Nat,
               error : BOOLEAN, completedAt : BOOLEAN]

\* The copy of a document that a query decodes into a *models.CrawlerJob.
JobSnapshot == [id : JobIds, from : Nat, last : Nat, end : Nat]

AbsentJob == [status |-> "none", from |-> 0, last |-> 0, end |-> 0,
              error |-> FALSE, completedAt |-> FALSE]

Snapshot(db, j) ==
  [id |-> j, from |-> db[j].from, last |-> db[j].last, end |-> db[j].end]

-----------------------------------------------------------------------------
\* Queries.

InStatus(db, status) == {j \in JobIds : db[j].status = status}

\* The sorted result is a set here: identifiers grow with created_at, so its
\* order is the order of the identifiers (OldestFirst).
FindPendingJobs(db) == {Snapshot(db, j) : j \in InStatus(db, "pending")}

\* Mistake: the sort order of the find is reversed.
NewestFirst(s, found) == s \in found /\ \A t \in found : t.id <= s.id

OldestFirst(s, found) == s \in found /\ \A t \in found : s.id <= t.id

-----------------------------------------------------------------------------
\* Updates.  A filter that matches no document changes nothing.

CreateJob(db, j, from, last, end) ==
  [db EXCEPT ![j] = [AbsentJob EXCEPT !.status = "pending", !.from = from,
                                      !.last = last, !.end = end]]

\* Mistake: the claim forgets to $unset the error.
ClaimJobKeepsError(db, j) ==
  IF db[j].status = "pending"
  THEN [db EXCEPT ![j] = [@ EXCEPT !.status = "progressing"]] ELSE db

ClaimJob(db, j) ==
  IF db[j].status = "pending"
  THEN [db EXCEPT ![j] = [@ EXCEPT !.status = "progressing", !.error = FALSE]]
  ELSE db

UpdateProgress(db, j, checkpoint) ==
  IF db[j].status = "progressing"
  THEN [db EXCEPT ![j] = [@ EXCEPT !.last = checkpoint]]
  ELSE db

\* Mistake: the filter is the identifier alone.
CompleteJobAnyStatus(db, j) ==
  [db EXCEPT ![j] = [@ EXCEPT !.status = "completed", !.error = FALSE,
                              !.completedAt = TRUE]]

CompleteJob(db, j) ==
  IF db[j].status = "progressing"
  THEN [db EXCEPT ![j] = [@ EXCEPT !.status = "completed", !.error = FALSE,
                                   !.completedAt = TRUE]]
  ELSE db

\* Mistake: the filter looks for a pending job.
RequeueJobPending(db, j) ==
  IF db[j].status = "pending" THEN [db EXCEPT ![j] = [@ EXCEPT !.error = TRUE]] ELSE db

RequeueJob(db, j) ==
  IF db[j].status = "progressing"
  THEN [db EXCEPT ![j] = [@ EXCEPT !.status = "pending", !.error = TRUE,
                                   !.completedAt = FALSE]]
  ELSE db

\* Mistake: the reset matches nothing.
ResetNothing(db) == db

ResetStalledJobs(db) ==
  [j \in JobIds |->
     IF db[j].status = "progressing"
     THEN [db[j] EXCEPT !.status = "pending", !.error = TRUE]
     ELSE db[j]]

\* Mistake: a retry starts the range over.
RetryJobFromStart(db, j) ==
  IF db[j].status # "none"
  THEN [db EXCEPT ![j] = [@ EXCEPT !.status = "pending", !.error = FALSE,
                                   !.completedAt = FALSE, !.last = db[j].from]]
  ELSE db

\* The filter is the identifier alone: any status goes back to pending.
RetryJob(db, j) ==
  IF db[j].status # "none"
  THEN [db EXCEPT ![j] = [@ EXCEPT !.status = "pending", !.error = FALSE,
                                   !.completedAt = FALSE]]
  ELSE db

=============================================================================
