----------------------------- MODULE MCHydration -----------------------------
(***************************************************************************)
(* Hydration for TLC.  h1 has four digests in slices of three and one, the *)
(* first slice too large for one call, and so is its second half; h2 has   *)
(* three, the second malformed, with something to ask for again on both    *)
(* sides of it.  MCBig makes h1's last transaction too large by itself.    *)
(***************************************************************************)
EXTENDS Hydration

CONSTANTS h1, h2

MCHydrators == {h1, h2}
MCBatch     == [h \in MCHydrators |-> IF h = h1 THEN <<1, 2, 3, 4>> ELSE <<5, 6, 7>>]
MCMalformed == {2, 6}
MCSize      == [d \in 1 .. 7 |-> IF d \in {5, 6} THEN 0 ELSE 1]
MCBig       == [d \in 1 .. 7 |-> IF d \in {5, 6} THEN 0 ELSE IF d = 4 THEN 3 ELSE 1]
=============================================================================
