SPECIFICATION Spec
CONSTANTS
  Bus = {b1, b2}
  Route = {r1}
  Caller = {c1, c2}
  Limits = {0, 1}
  NoLimit = NoLimit
  MaxChanges = 1
  MaxFaults = 1
SYMMETRY Symmetry
CHECK_DEADLOCK FALSE
INVARIANTS TypeOK QuotaKept
