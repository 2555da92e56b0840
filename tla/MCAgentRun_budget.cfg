SPECIFICATION FairSpec
CONSTANTS
  t1 = t1
  t2 = t2
  t3 = t3
  s1 = s1
  s2 = s2
  Tasks = {t1, t3}
  Sessions = {s1, s2}
  SessionOf <- EachAlone
  ThinkMode = TRUE
  MaxTurns = 2
  Threshold = 3
  RemindAfter = 2
  MaxCalls = 1
  MaxUsage = 2
  Cancellable = {t1}
INVARIANTS
  TypeOK
  OvershootIsBounded
  LedgerLossIsBounded
PROPERTY SessionsAreFreed
