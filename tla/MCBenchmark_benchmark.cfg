SPECIFICATION Spec
CONSTANTS
  Suites = {"s1", "s2"}
  CasesOf <- TwoSuites
  defaultMaxAttempts = 2
  MaxUsage = 1
  LastSecond = 1
INVARIANTS
  ReportsAddUp
  FailuresAreExplained
  RepairsFollowFailures
