CONSTANTS
  i1 = i1
  i2 = i2
  g1 = g1
  None = none
  Inputs = {i1, i2, g1}
  Goals = {g1}
  MaxStops = 2
SPECIFICATION FairSpec
CHECK_DEADLOCK FALSE
INVARIANT RunsAreOwned
INVARIANT OneExecution
INVARIANT PromotionsSettle
INVARIANT RequestsAreAwaited
INVARIANT QuietAtRest
PROPERTY ComesToRest
