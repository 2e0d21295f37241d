CONSTANTS
  NoGen = NoGen
  Gens = {g1, g2, g3}
  Readers = {r1, r2, r3}
  Leased = {r1, r2}
SPECIFICATION FairSpec
INVARIANT OneGeneration
INVARIANT RunKeepsAgent
PROPERTY StaleGoesWithRun
PROPERTY CallersAnswered
