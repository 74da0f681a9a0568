-------------------------- MODULE HydrationContract --------------------------
(***************************************************************************)
(* What hydration promises to the pipeline.  A batch is worked on until it *)
(* is passed on or given up.  While it is, its transactions come in, in    *)
(* any order and any number at a time, with their bodies or without those  *)
(* that the archive cannot render; what has come in stays as it is, also   *)
(* when the batch is cut up, asked for again or given up.  A batch is      *)
(* passed on complete, and then nobody touches it.  The ledger takes in    *)
(* transactions without a body of batches that are complete, and keeps     *)
(* them.                                                                   *)
(***************************************************************************)
CONSTANTS Batches,
          Places,       \* [Batches -> the places of their transactions]
          Renderable,   \* [Batches -> the places the archive can render]
          Key           \* [Batches -> [Places -> the ledger's key]]

VARIABLES state,        \* of each batch: working, passed on or given up
          whole, bare,  \* its places in with their body, and without it
          ledger

contractVars == <<state, whole, bare, ledger>>

ContractInit ==
  /\ state = [b \in Batches |-> "working"]
  /\ whole = [b \in Batches |-> {}] /\ bare = [b \in Batches |-> {}]
  /\ ledger = {}

Complete(b) == whole[b] \cup bare[b] = Places[b]

ComeIn(b) ==
  /\ state[b] = "working"
  /\ \E S \in SUBSET Renderable[b] : whole' = [whole EXCEPT ![b] = @ \cup S]
  /\ UNCHANGED <<bare, ledger>>
  /\ state' \in {state, [state EXCEPT ![b] = "given up"]}

ComeInBare(b) ==
  /\ state[b] = "working"
  /\ \E p \in Places[b] \ (Renderable[b] \cup bare[b]) :
       bare' = [bare EXCEPT ![b] = @ \cup {p}]
  /\ UNCHANGED <<state, whole, ledger>>

\* Record one transaction, or do not, and possibly pass the batch on.
PassOn(b) ==
  /\ state[b] = "working" /\ Complete(b)
  /\ \E S \in SUBSET bare[b] : ledger' = ledger \cup {Key[b][p] : p \in S}
  /\ state' \in {state, [state EXCEPT ![b] = "passed on"]}
  /\ UNCHANGED <<whole, bare>>

ContractNext == \E b \in Batches : ComeIn(b) \/ ComeInBare(b) \/ PassOn(b)

ContractSpec == ContractInit /\ [][ContractNext]_contractVars

=============================================================================
