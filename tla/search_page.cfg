CONSTANTS
  Null = Null
  BasisPointsScale = 2
  SecondsPerDay = 2
  MaxSafeInteger = 9
  PlainMethods = {"totalAssets"}
  CapacityMethods = {"maxWithdraw"}
  Reverts = Reverts
  Migrators = {m1, m2}
  Migrations <- MCMigrations
  Rewriting = {"0002"}
  Referring = {"0004"}
  Releases <- MCReleases
  NetworkId = 1
  Chain <- MCChain
  Throttled <- MCThrottled
  Served <- MCServed
  Vaults = {"v1", "v2", "v3"}
  WindowDays = 2
  MaxBatch = 2
  Drafts <- MCDrafts
  Balanced <- MCBalanced
  Worlds <- MCWorlds
  DeployedAt <- MCDeployedAt
  AssetKey <- MCAssetKey
  NameRank <- MCNameRank
  Scenarios <- MCScenarios
SPECIFICATION Spec
INVARIANTS TableIsFaithful StaleVerdictsAreAnnounced InspectionRepeatsTheRow
  RegistryIsSeededWhole ReprobedZerosAreExplained MigrationsInOrder
SYMMETRY Symmetry
CHECK_DEADLOCK FALSE
