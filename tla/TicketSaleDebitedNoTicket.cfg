SPECIFICATION FairSpec
CONSTANTS
  Trip = {t1}
  Seat = {s1}
  Request = {r1, r2}
  Payment = {p1}
  Webhook = {w1}
  Reconciler = {q1}
  Batch = 1
  NoOne = NoOne
  MaxFaults = 0
CHECK_DEADLOCK FALSE
PROPERTY DebitedGetsTicket
