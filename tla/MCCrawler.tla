----------------------------- MODULE MCCrawler -----------------------------
(***************************************************************************)
(* Crawler for TLC.  The requests are a range of four checkpoints, which   *)
(* takes more than one chunk, a range of one checkpoint, which has nothing *)
(* left to do, and one that Validate refuses.                              *)
(***************************************************************************)
EXTENDS Crawler

MCRequests == {[from |-> 0, end |-> 3], [from |-> 2, end |-> 2],
               [from |-> 2, end |-> 1]}
=============================================================================
