CONSTANTS
  alice              = alice
  bob                = bob
  charlie            = charlie
  AccountId          = {alice, bob}
  Root               = Root
  Unsigned           = Unsigned
  None               = None
  U32Max             = 0
  ExistentialDeposit = 2
  Fee                = 1
  Endowment          <- MCEndowment
  SudoKey            = alice
  Version            = 100
  Versions           = {100, 101, 102}
  MaxBlock           = 4
  MaxNormal          = 3
  Mandatory          = 1
  MaxLength          = 6
  MaxNormalLength    = 4
  MandatoryLength    = 1
  CodeLength         = 2
  Lengths            = {3}
  Amounts            = {}
  Offered            <- UpgradeCalls
  MaxNonce           = 3
SPECIFICATION Spec
INVARIANTS
  UpgradeAlwaysFits
PROPERTIES
  NoStaleUpgrade
  OnlySudoActsForOthers
