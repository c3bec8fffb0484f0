CONSTANTS
  Alice               = Alice
  Bob                 = Bob
  AliceStash          = AliceStash
  BobStash            = BobStash
  Charlie             = Charlie
  One                 = One
  Two                 = Two
  Keyring             <- MCKeyring
  ENDOWMENT           <- MCEndowment
  EXISTENTIAL_DEPOSIT = 1000
  None                = None
SPECIFICATION Spec
INVARIANTS
  LaunchTypeOK
  RunningChainHasRuntime
  GenesisIsOperable
