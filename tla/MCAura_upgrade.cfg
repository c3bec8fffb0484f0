CONSTANTS
  alice          = alice
  bob            = bob
  Node           = {alice, bob}
  Authorities    <- MCAuthorities
  SLOT_DURATION  = 4
  Upgrades       = {2, 3, 5, 6}
  Skew           <- NoSkew
  ForceAuthoring = {bob}
  MaxDrift       = 20
  StartTime      = 47
  MaxTime        = 56
  MaxBlocks      = 4
  MaxUpgrades    = 1
  MaxRestarts    = 1
SPECIFICATION FairSpec
INVARIANTS
  NoWastedSlot
  LongerSlotsHaltChain
PROPERTIES
  StaleAuthorsHalt
  NodesCatchUp
