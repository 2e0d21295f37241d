CONSTANTS
  NoGen = NoGen
  Gens = {g1, g2}
  Readers = {r1}
  Leased = {r1}
SPECIFICATION Spec
CHECK_DEADLOCK FALSE
INVARIANT RunsOnStoredTranscript
