CONSTANTS
  V <- MCV
  E <- MCE
  MaxIters = 3
  Unit = 10000
  Garbage = {0}
  Workers = {w1, w2, w3}
SPECIFICATION Spec
INVARIANT TypeOK
PROPERTIES Refinement Termination
