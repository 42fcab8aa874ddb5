CONSTANTS
  Actions = {a1, a2}
  NoAction = NoAction
  Plans <- TwoCalls
  TxHashes = {h1, h2}
  NoTx = NoTx
  Requests = {r1, r2}
  LastBlock = 0
  ExpiryBlocks = 0
SPECIFICATION Spec
INVARIANTS TypeOK ReceiptsInOrder SimulatedInOrder OutcomeIsTheOperations OffersAreEarned
PROPERTY KeepsCallLog
SYMMETRY Symmetry
CHECK_DEADLOCK FALSE
