SPECIFICATION FairSpec
CONSTANTS
  Trip = {t1}
  Seat = {s1}
  Request = {r1, r2}
  Caller = {c1}
  Sweeper = {k1, k2}
  NoOne = NoOne
  MaxFaults = 1
CHECK_DEADLOCK FALSE
INVARIANTS TypeOK NoDoubleSale ExpiredWasLate CancelledIsCleared
PROPERTIES ImplementsLedger ImplementsRows StaleHoldReleased
