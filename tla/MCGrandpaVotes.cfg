CONSTANTS
  Voter     = {v1, v2, v3, v4}
  MaxBlocks = 3
  MaxRound  = 2
SYMMETRY Symmetry
SPECIFICATION VotesSpec
INVARIANTS
  VotesTypeOK
  FinalityAgrees
