CONSTANTS
  V <- MCV
  E <- MCE
  Workers = {w1, w2}
  NeighborRounds = 2
  None = None
SPECIFICATION Spec
INVARIANTS TypeOK DoneCorrect CompStatsCorrect
PROPERTIES Refinement Termination
