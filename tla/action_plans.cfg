CONSTANTS
  Actions = {a1}
  NoAction = NoAction
  Plans <- MCPlans
  TxHashes = {1, 2}
  NoTx = NoTx
  Requests = {r1}
  LastBlock = 1
  ExpiryBlocks = 0
  Declared = Declared
  Null = Null
  Asks <- MCAsks
  Losses <- MCLosses
  VaultStates <- MCVaults
  Opening <- MCOpening
SPECIFICATION FairPlansSpec
INVARIANTS OfferedIsNext PlansExecute AllowanceHasADeposit ActualIsWhatHappened StrandedOnlyThus
PROPERTIES ReportedSettles
CHECK_DEADLOCK FALSE
