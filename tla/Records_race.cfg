SPECIFICATION Spec
CONSTANTS
  Entities = {e1}
  Todos = {t1}
  Activities = {a1}
  Tags = {g1}
  Requests = {r1, r2}
  RLSEnforced = TRUE
  Faults = TRUE
  MaxTouch = 1
SYMMETRY Symmetry
CHECK_DEADLOCK FALSE
INVARIANT StrayNeedsOverlap
PROPERTY NothingLeftBehind
