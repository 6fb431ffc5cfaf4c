\* Liveness and the contract under the fairness of timers and transactions.
CONSTANTS
  MaxSeq = 2
  LoopMax = 2
  Infos = {i1}
SPECIFICATION FairSpec
PROPERTIES Reclaimed ImplementsContract
CHECK_DEADLOCK FALSE
