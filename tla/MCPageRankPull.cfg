CONSTANTS
  V <- MCV
  E <- MCE
  Kernels = {"PR_Pull_S", "PageRankPullGS"}
  MaxIters = 3
  Unit = 1000000
  Epsilon <- MCEpsilonSmall
  Workers = {w1, w2, w3}
SPECIFICATION Spec
INVARIANT TypeOK
INVARIANT ScoresGaussSeidel
SYMMETRY WorkerSymmetry
