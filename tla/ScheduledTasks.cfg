CONSTANTS
  r = r
  o = o
  Tasks = {r, o}
  Policies <- MCPolicies
  Calls = {c1}
  NoCall = NoCall
  MaxTime = 2
  MaxCrashes = 1
SPECIFICATION FairSpec
CHECK_DEADLOCK FALSE
INVARIANT ServiceConsistent
PROPERTY UnwantedNeverStarts
PROPERTY OccurrencesRunOnce
PROPERTY Progress
