SPECIFICATION Spec
CONSTANTS
  Workers = {w1, w2}
  Pmts = {p1, p2}
  Cells = {1, 2}
  Tracks = {t1, t2}
  Unusable = {p2}
  MaxEvents = 2
SYMMETRY Symmetry
INVARIANTS
  OwnProbability
  PhotonCountedOnce
CHECK_DEADLOCK FALSE
