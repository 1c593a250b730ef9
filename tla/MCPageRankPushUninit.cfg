CONSTANTS
  V <- MCV
  E <- MCE
  MaxIters = 2
  Unit = 10000
  Garbage = {0, 5000}
  Workers = {w1, w2}
SPECIFICATION Spec
INVARIANT PushIterationExact
