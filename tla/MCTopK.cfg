CONSTANTS
  Keys = {1, 2, 3, 4}
  Vals = {1, 2, 3}
  Ks = {1, 2, 3}
  MaxLen = 4
SPECIFICATION Spec
INVARIANTS TypeOK TopKValues
