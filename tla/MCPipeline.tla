---------------------------- MODULE MCPipeline ----------------------------
(***************************************************************************)
(* CheckpointPipeline for TLC: two fetchers and two hydrators; one fetcher *)
(* alone is what the code starts when no rate is configured.               *)
(***************************************************************************)
EXTENDS CheckpointPipeline, TLC

CONSTANTS f1, f2, h1, h2

MCFetchers  == {f1, f2}
MCFetcher   == {f1}
MCHydrators == {h1, h2}

\* Checkpoints 1 .. 4: a small one, a full one, an empty one, a big one.
MCDigests == [c \in 1 .. 4 |-> CASE c = 1 -> 1 [] c = 2 -> 2 [] c = 3 -> 0 [] c = 4 -> 3]

PoolSymmetry == Permutations(MCFetchers) \cup Permutations(MCHydrators)
=============================================================================
