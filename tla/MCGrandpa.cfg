CONSTANTS
  Voter      = {alice, bob}
  Node       = {alice, bob, observer}
  MaxBlocks  = 3
  MaxRound   = 2
  MaxReverts = 1
SPECIFICATION Spec
INVARIANTS
  GrandpaTypeOK
  HeadKeepsFinality
  NodesFinalizeOneChain
PROPERTIES
  VotesRefined
  FinalityIsShared
