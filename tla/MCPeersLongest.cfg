\* Two nodes, one of which mines: what the other adopts.
CONSTANTS
  t1 = t1
  Node <- TwoNodes
  Tx <- NoTxs
  MaxBlocks = 2
  MaxAbandoned = 1
SPECIFICATION Spec
PROPERTIES
  LongestChainWins
