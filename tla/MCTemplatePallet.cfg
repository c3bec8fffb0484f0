CONSTANTS
  AccountId = {alice, bob, charlie}
  Root      = Root
  Unsigned  = Unsigned
  None      = None
  U32Max    <- MCU32Max
SPECIFICATION PalletSpec
INVARIANTS
  PalletTypeOK
  ValueAccountedFor
PROPERTY
  NoSilentDecrease
