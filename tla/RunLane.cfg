CONSTANTS
  i1 = i1
  i2 = i2
  i3 = i3
  Inputs = {i1, i2, i3}
  NoRun = NoRun
  Serialized = TRUE
SPECIFICATION FairSpec
CHECK_DEADLOCK FALSE
INVARIANT LaneConsistent
INVARIANT VerdictIsTrue
INVARIANT QueueOrder
INVARIANT SteeredOnce
INVARIANT StoppedNeverStart
PROPERTY LaneSettles
