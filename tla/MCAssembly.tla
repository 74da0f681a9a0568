----------------------------- MODULE MCAssembly -----------------------------
(***************************************************************************)
(* Assembly for TLC: a full, an empty and a small checkpoint and a pair,   *)
(* on a network whose totals are small, about to outgrow their column, or  *)
(* have done so long ago.                                                  *)
(***************************************************************************)
EXTENDS Assembly

MCTxs == <<<<"a", "b">>, <<>>, <<"c">>, <<"d", "e">>>>
MCBases == {0, 4, 9}
=============================================================================
