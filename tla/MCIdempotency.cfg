SPECIFICATION Spec
CONSTANTS
  k1 = k1  k2 = k2  w1 = w1  w2 = w2  s1 = s1
  None = None
  Keys = {k1, k2}
  Workers = {w1, w2}
  Sweepers = {s1}
  Ttls = {1}
  Second = 2
  MaxClock = 4
  MaxFaults = 1
SYMMETRY Symmetry
INVARIANTS TypeOK ResultLasts NoWorkerRepeats
CHECK_DEADLOCK FALSE
