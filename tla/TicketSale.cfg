SPECIFICATION Spec
CONSTANTS
  Trip = {t1}
  Seat = {s1}
  Request = {r1, r2}
  Payment = {p1, p2}
  Webhook = {w1}
  Reconciler = {q1}
  Batch = 2
  NoOne = NoOne
  MaxFaults = 1
SYMMETRY Symmetry
CHECK_DEADLOCK FALSE
INVARIANTS TypeOK NothingUnpaid VerdictIsTrue DebitIsAccountedFor
PROPERTIES TicketIssuedOnce ImplementsTicketLife
