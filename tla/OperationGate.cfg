CONSTANTS
  s1 = s1
  s2 = s2
  s3 = s3
  c1 = c1
  c2 = c2
  t1 = t1
  t2 = t2
  t3 = t3
  Sessions <- MCSessions
  Cwds <- MCCwds
  CwdOf <- MCCwdOf
  Tokens = {t1, t2, t3}
  GoalWaits <- TwoGoals
SPECIFICATION Spec
CHECK_DEADLOCK FALSE
INVARIANT LeasesExclude
INVARIANT BarrierKeepsIdle
INVARIANT ClosedMeansIdle
