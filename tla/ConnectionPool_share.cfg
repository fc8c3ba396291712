SPECIFICATION Spec
CONSTANTS
  Workers = {job, r1, r2, r3}
  Patient = {job}
  Conns = 3
  MaxNested = 2
PROPERTY OnlyGridlockStarves
