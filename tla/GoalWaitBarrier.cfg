CONSTANTS
  s1 = s1
  s2 = s2
  s3 = s3
  c1 = c1
  c2 = c2
  t1 = t1
  t2 = t2
  Sessions <- MCSessions
  Cwds <- MCCwds
  CwdOf <- MCCwdOf
  Tokens = {t1, t2}
  GoalWaits <- OneGoal
SPECIFICATION Spec
CHECK_DEADLOCK FALSE
INVARIANT MaintenanceIsExclusive
