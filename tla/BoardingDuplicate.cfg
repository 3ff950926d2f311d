SPECIFICATION Spec
CONSTANTS
  Trip = {t1}
  Booking = {b1, b2}
  Controller = {c1, c2}
  MaxScans = 1
  MaxFaults = 0
SYMMETRY Symmetry
CHECK_DEADLOCK FALSE
INVARIANT DuplicateIsSeen
