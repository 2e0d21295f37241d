CONSTANTS
  a = a
  b = b
  c = c
  d = d
  Tasks = {a, b, c, d}
  Order <- MCOrder
  Deps <- MCDeps
  Conflicts <- MCConflicts
  Timed = {a}
  Stoppable = {a}
  Attempts <- MCAttempts
  RetryOn <- MCRetryOn
  Plans <- MCPlans
  Cancels = {k1}
  MaxCrashes = 1
SPECIFICATION FairSpec
CHECK_DEADLOCK FALSE
PROPERTY StopDispatchesNothing
