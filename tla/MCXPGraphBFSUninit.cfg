CONSTANTS
  V <- MCV
  E <- MCE
  Isolated = 1000
  NumaRoot = 0
  Workers = {w1, w2}
  Numa = TRUE
  Garbage = {0, 2}
SPECIFICATION Spec
INVARIANT TestBfsResult
