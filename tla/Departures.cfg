SPECIFICATION Spec
CONSTANTS
  Schedule = {s1, s2}
  Trip = {d1, d2}
  Day = {2, 3}
  Time = {h1}
  Generator = {g1, g2}
  None = None
  Timetables <- Daily
  MaxEdits = 1
  MaxFaults = 1
SYMMETRY Symmetry
CHECK_DEADLOCK FALSE
INVARIANTS TypeOK GeneratedOnce GridCovered
