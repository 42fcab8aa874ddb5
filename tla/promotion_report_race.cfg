CONSTANTS
  Branches = {"A", "D"}
  FirstBranch = "A"
  Hashes <- MCHashes
  NoHash = NoHash
  BlockHash <- MCBlockHash
  Height <- MCHeight
  RowKind <- AllRows
  Reorgs <- ToD
  MaxHead = 3
  MaxReorgDepth = 3
  SinkKeepsUp = TRUE
  ConfirmationDepth = 1
  WindowStart = 1
  MaxBlocksPerRun = 3
  Requests = {r1}
  MaxFaults = 0
SPECIFICATION Spec
INVARIANTS CanonicalReportsCiteCanonicalRows
CHECK_DEADLOCK FALSE
