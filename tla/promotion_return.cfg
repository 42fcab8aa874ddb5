CONSTANTS
  Branches = {"A", "D", "E"}
  FirstBranch = "A"
  Hashes <- MCHashes
  NoHash = NoHash
  BlockHash <- MCBlockHash
  Height <- MCHeight
  RowKind <- AllRows
  Reorgs <- ThereAndBack
  MaxHead = 3
  MaxReorgDepth = 3
  SinkKeepsUp = TRUE
  ConfirmationDepth = 1
  WindowStart = 1
  MaxBlocksPerRun = 3
  Requests = {}
  MaxFaults = 0
SPECIFICATION CalmSpec
PROPERTIES HistoryHeals
CHECK_DEADLOCK FALSE
