CONSTANTS
  Actions = {a1}
  NoAction = NoAction
  Plans <- TwoCalls
  TxHashes = {h1, h2}
  NoTx = NoTx
  Requests = {r1, r2}
  LastBlock = 1
  ExpiryBlocks = 0
  Shown = a1
  NoView = NoView
SPECIFICATION ConsoleSpec
INVARIANTS AsksInOrder HashGoesWithItsCall ClaimsNoMore
SYMMETRY ConsoleSymmetry
CHECK_DEADLOCK FALSE
