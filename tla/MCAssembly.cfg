SPECIFICATION Spec
CONSTANTS
  To = 4
  Txs <- MCTxs
  HydrationBatchSize = 2
  MaxUint32 = 8
  Bases <- MCBases
  Alien = "x"
  MaxLies = 2
INVARIANTS
  TypeOK
  OwnTransactions
  LossCaught
  HonestNeverFails
CHECK_DEADLOCK FALSE
