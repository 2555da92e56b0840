SPECIFICATION FairSpec
CONSTANTS
  t1 = t1
  t2 = t2
  t3 = t3
  s1 = s1
  s2 = s2
  Tasks = {t1, t2}
  Sessions = {s1}
  SessionOf <- SameSession
  ThinkMode = FALSE
  MaxTurns = 2
  Threshold = 0
  RemindAfter = 2
  MaxCalls = 2
  MaxUsage = 0
  Cancellable = {t1}
INVARIANTS
  OneRunPerSession
  RunsDoNotInterleave
  AnswersAreWhole
  SuccessIsConcluded
  RequestBreaksAreKnown
PROPERTIES
  LogSpec
  MessagesAreSettled
