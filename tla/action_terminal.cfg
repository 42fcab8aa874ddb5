CONSTANTS
  Actions = {a1}
  NoAction = NoAction
  Plans <- OneCall
  TxHashes = {h1}
  NoTx = NoTx
  Requests = {r1}
  LastBlock = 0
  ExpiryBlocks = 0
SPECIFICATION Spec
PROPERTIES StatusIsFinal
CHECK_DEADLOCK FALSE
