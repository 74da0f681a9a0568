--------------------------- MODULE InsertContract ---------------------------
(***************************************************************************)
(* What a write of the ClickHouse tables promises to whoever makes it:     *)
(* tables are written one after the other, a table is left behind only     *)
(* with all of its rows in place, and no row that is in place ever goes    *)
(* away.  A write that fails leaves any part of the table it was at; it    *)
(* may be made again, from the first table.                                *)
(***************************************************************************)
EXTENDS Naturals

CONSTANTS Tables,     \* the number of tables
          Rows        \* [1 .. Tables -> the rows to write]

VARIABLES at,         \* the table being written; beyond the last: all are
          stored,     \* the rows in each table
          ended       \* the write has returned or is lost

contractVars == <<at, stored, ended>>

ContractInit ==
  /\ at = 1
  /\ stored = [t \in 1 .. Tables |-> {}]
  /\ ended = FALSE

\* Some rows go in, and that may be the end of it.
Insert ==
  /\ ~ended /\ at \in 1 .. Tables
  /\ \E S \in SUBSET Rows[at] : stored' = [stored EXCEPT ![at] = @ \cup S]
  /\ ended' \in BOOLEAN
  /\ UNCHANGED at

Advance ==
  /\ ~ended /\ at \in 1 .. Tables
  /\ stored[at] = Rows[at]
  /\ at' = at + 1
  /\ UNCHANGED <<stored, ended>>

\* Success if all tables are behind, else the process has died.
End ==
  /\ ~ended
  /\ ended' = TRUE
  /\ UNCHANGED <<at, stored>>

Again ==
  /\ ended
  /\ ended' = FALSE /\ at' = 1
  /\ UNCHANGED stored

ContractNext == Insert \/ Advance \/ End \/ Again

ContractSpec == ContractInit /\ [][ContractNext]_contractVars
=============================================================================
