SPECIFICATION Spec
CONSTANTS
  Events <- SmallEvents
  Keys = {k1, k2}
  Requests = {q1, q2}
  Windows <- Adjacent
  Callers = {c1, c2}
  Lateness = 1
  Skew = 1
  MaxNow = 3
  MaxSnapshots = 1
SYMMETRY Symm
CHECK_DEADLOCK FALSE
INVARIANTS AcceptedOnce SnapshotsReproducible
PROPERTIES WindowsClose
