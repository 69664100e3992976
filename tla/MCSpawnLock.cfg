SPECIFICATION Spec
CONSTANTS
  p1 = p1
  p2 = p2
  p3 = p3
  p4 = p4
  Procs <- FourProcs
  MaxAttempts = 3
  Absent = Absent
  Leftover = Leftover
INVARIANTS TypeOK YieldsToASpawner FreeWhenAllReturned
SYMMETRY Symmetry
CHECK_DEADLOCK FALSE
