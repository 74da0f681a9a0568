----------------------------- MODULE MCStorage -----------------------------
(***************************************************************************)
(* ClickHouseStorage for TLC: a full batch of checkpoints, no transaction  *)
(* at all, a full and a partial batch of objects.                          *)
(***************************************************************************)
EXTENDS ClickHouseStorage

MCRowCount == <<2, 0, 3>>
=============================================================================
