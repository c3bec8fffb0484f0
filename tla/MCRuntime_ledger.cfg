CONSTANTS
  alice              = alice
  bob                = bob
  charlie            = charlie
  AccountId          = {alice, bob, charlie}
  Root               = Root
  Unsigned           = Unsigned
  None               = None
  U32Max             = 1
  ExistentialDeposit = 2
  Fee                = 1
  Endowment          <- MCEndowment
  SudoKey            = alice
  Version            = 100
  Versions           = {100}
  MaxBlock           = 4
  MaxNormal          = 3
  Mandatory          = 1
  MaxLength          = 6
  MaxNormalLength    = 4
  MandatoryLength    = 1
  CodeLength         = 2
  Lengths            = {3}
  Amounts            = {1, 2, 4}
  Offered            <- LedgerCalls
  MaxNonce           = 3
SPECIFICATION Spec
INVARIANTS
  RuntimeTypeOK
  IssuanceConserved
  NoDust
  NoReplay
PROPERTIES
  NobodyPaysForAnother
