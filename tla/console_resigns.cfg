CONSTANTS
  Actions = {a1}
  NoAction = NoAction
  Plans <- OneCall
  TxHashes = {h1, h2}
  NoTx = NoTx
  Requests = {r1, r2}
  LastBlock = 0
  ExpiryBlocks = 0
  Shown = a1
  NoView = NoView
SPECIFICATION ConsoleSpec
PROPERTIES AskedCallsCanSettle
CHECK_DEADLOCK FALSE
