SPECIFICATION Spec
CONSTANTS
  Trip = {t1}
  Seat = {s1}
  Request = {r1, r2}
  Caller = {c1}
  Sweeper = {k1}
  NoOne = NoOne
  MaxFaults = 0
CHECK_DEADLOCK FALSE
PROPERTY NeverExpiresConfirmed
