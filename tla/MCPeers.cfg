\* Two nodes that mine, submit, resolve and register in any order.
CONSTANTS
  t1 = t1
  Node <- TwoNodes
  Tx <- OneTx
  MaxBlocks = 2
  MaxAbandoned = 1
SPECIFICATION FairSpec
INVARIANTS
  TypeOK
  CallsPending
  ChainsLinked
  AtMostOnce
PROPERTIES
  ConfirmedStay
  HandlersReturn
