CONSTANTS
  Branches = {"A", "B", "C"}
  FirstBranch = "A"
  Hashes <- MCHashes
  NoHash = NoHash
  BlockHash <- MCBlockHash
  Height <- MCHeight
  RowKind <- MixedRows
  Reorgs <- Either
  MaxHead = 6
  MaxReorgDepth = 2
  SinkKeepsUp = TRUE
  ConfirmationDepth = 2
  WindowStart = 1
  MaxBlocksPerRun = 2
  Requests = {}
  MaxFaults = 1
SPECIFICATION Spec
INVARIANTS PromotedRowsAreFinal NoHoles CursorAttestsChain
PROPERTIES KeepsLedger
CHECK_DEADLOCK FALSE
