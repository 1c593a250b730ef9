CONSTANTS
  V <- MCV
  E <- MCE
  Isolated = 1000
  Root = 0
  Workers = {w1, w2}
SPECIFICATION Spec
INVARIANTS TypeOK FrontierZeroIffNone LevelsAreHopDistance
PROPERTIES Refinement Termination
