CONSTANTS
  Branches = {"A", "D"}
  FirstBranch = "A"
  Hashes <- MCHashes
  NoHash = NoHash
  BlockHash <- MCBlockHash
  Height <- MCHeight
  RowKind <- LateRows
  Reorgs <- ToD
  MaxHead = 3
  MaxReorgDepth = 3
  SinkKeepsUp = FALSE
  ConfirmationDepth = 1
  WindowStart = 1
  MaxBlocksPerRun = 2
  Requests = {r1}
  MaxFaults = 1
SPECIFICATION FairSpec
INVARIANTS TypeOK InvalidationsAreExplained
PROPERTIES HistoryIsAppendOnly DependentsFallTogether RepairRewindsBelowOrphans OrphansAreFound ConfirmedBlocksArePromoted
CHECK_DEADLOCK FALSE
