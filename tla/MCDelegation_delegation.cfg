SPECIFICATION FairSpec
CONSTANTS
  Roles = {"explorer", "reviewer"}
  Registries = {"reads"}
  RegistryOf <- OneRegistry
  MaxTurnsOf <- NoBudget
  DefaultMaxTurns = 2
  MainMaxTurns = 1
  Ledgers <- LedgersLeft
  MaxUsage = 1
  MaxCalls = 2
  MaxSubs = 2
  TurnBound = 4
INVARIANTS
  TypeOK
  OneEnginePerRegistry
  DelegationsTellTheTruth
  TracesAreWhole
PROPERTIES
  DelegationsEnd
