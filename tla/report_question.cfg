CONSTANTS
  Null = Null
  BasisPointsScale = 10000
  SecondsPerDay = 2
  Requests = {r1, r2}
  Policies <- MCPolicies
  Known <- MCKnown
  PolicyRow <- MCPolicyRow
  WindowDays = {2}
  Vault = "vault"
  ZeroAddress = "zero"
  BlockContents <- MCBlockContents
  BlockTime <- MCBlockTime
  BlockSeconds = 2
  AssetKey = "USDC"
  DeployedAt = 0
  MaxBlock = 3
  MaxRepairs = 0
SPECIFICATION Spec
INVARIANTS AnswersTheQuestion
SYMMETRY Symmetry
CHECK_DEADLOCK FALSE
