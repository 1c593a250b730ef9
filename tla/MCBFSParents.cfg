CONSTANTS
  V <- MCV
  E <- MCE
  Root = 0
  Workers = {w1, w2, w3}
SPECIFICATION Spec
INVARIANTS TypeOK ClaimedOnce ParentsAreBFSTree
PROPERTIES Refinement Termination
