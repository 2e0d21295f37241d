CONSTANTS
  m1 = m1
  m2 = m2
  m3 = m3
  Commands = {m1, m2, m3}
  Session = s
  Cwd = d
SPECIFICATION AttendedSpec
CHECK_DEADLOCK FALSE
INVARIANT SteersWorkAlone
INVARIANT NothingStartsAfterStop
PROPERTY CommandsAnswered
PROPERTY ImplementsGate
