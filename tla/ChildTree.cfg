SPECIFICATION FairSpec
CONSTANTS
  Children = {c1, c2}
  Root = root
  MaxActive = 1
  MaxSends = 1
  MaxFaults = 2
  MaxRestarts = 1
INVARIANT TypeOK
INVARIANT GoneLeavesNothing
INVARIANT GoneIsRecorded
PROPERTY CloseIsFinal
PROPERTY NoOvertake
PROPERTY CloseEnds
PROPERTY AbortReachesChildren
CHECK_DEADLOCK FALSE
