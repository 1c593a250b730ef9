CONSTANTS
  V <- MCV
  E <- MCE
  Isolated = 1000
  NumaRoot = 0
  Workers = {w1, w2}
  Numa = FALSE
  Garbage = {0}
SPECIFICATION Spec
INVARIANTS TypeOK StatusAreHopDistance TotalCountsReached
PROPERTIES Refinement Termination
