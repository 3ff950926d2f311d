SPECIFICATION NamedSpec
CONSTANTS
  Trip = {t1}
  Seat = {s1}
  Request = {r1, r2}
  Payment = {p1, p2}
  Webhook = {}
  Reconciler = {q1}
  Batch = 2
  NoOne = NoOne
  MaxFaults = 1
CHECK_DEADLOCK FALSE
PROPERTY DebitedIsSettled
