CONSTANTS
  client         = client
  Node           = {client}
  BlockHashCount = 5
  MaxBlocks      = 8
SPECIFICATION Spec
INVARIANTS
  ValidForItsEra
  BoundToItsHead
