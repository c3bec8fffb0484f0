CONSTANTS
  alice          = alice
  bob            = bob
  Node           = {alice, bob}
  Authorities    <- MCAuthorities
  SLOT_DURATION  = 4
  Upgrades       = {4}
  Skew           <- OneSlotSkew
  ForceAuthoring = {bob}
  MaxDrift       = 20
  StartTime      = 23
  MaxTime        = 34
  MaxBlocks      = 5
  MaxUpgrades    = 0
  MaxRestarts    = 1
SPECIFICATION Spec
INVARIANTS
  AuraTypeOK
  NoEquivocation
  FreshAuthorSucceeds
  PeersAccept
  ChainTimeBounded
PROPERTIES
  HeadsRefined
