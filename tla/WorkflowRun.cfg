CONSTANTS
  a = a
  b = b
  c = c
  d = d
  Tasks = {a, b, c, d}
  Order <- MCOrder
  Deps <- MCDeps
  Conflicts <- MCConflicts
  Timed = {a}
  Stoppable = {d}
  Attempts <- MCAttempts
  RetryOn <- MCRetryOn
  Plans <- MCPlans
  Cancels = {k1}
  MaxCrashes = 1
SPECIFICATION FairSpec
CHECK_DEADLOCK FALSE
INVARIANT TypeOK
INVARIANT WritersOverlapOnlyAfterTimeout
INVARIANT OutcomesEarned
PROPERTY StartsAreDue
PROPERTY StoredOnlyGrows
PROPERTY RunEnds
