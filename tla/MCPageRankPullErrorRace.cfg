CONSTANTS
  V <- MCV87
  E <- MCE87
  Kernels = {"PR_Pull_S"}
  MaxIters = 2
  Unit = 1000000
  Epsilon <- MCEpsilonSmall
  Workers = {w1, w2}
SPECIFICATION Spec
INVARIANT ErrorIsTotalChange
