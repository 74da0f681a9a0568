--------------------------- MODULE MCArithmetic ---------------------------
(***************************************************************************)
(* RunArithmetic for TLC: integers of five bits, so that a range can start *)
(* and end anywhere below and around the largest one.                      *)
(***************************************************************************)
EXTENDS RunArithmetic

MCMinInt == -16
MCMaxInt == 15

MCRates == {Number(h) : h \in -5 .. 25} \cup {NaN, TooHigh, TooLow}

MCEnvironments ==
  [rps : MCRates, timeout : {1}] \cup
  {[rps |-> Malformed, timeout |-> 1], [rps |-> Number(20), timeout |-> 0]}
=============================================================================
