SPECIFICATION Spec
CONSTANTS
  Trip = {t1, t2}
  Booking = {b1}
  Controller = {c1, c2}
  MaxScans = 2
  MaxFaults = 1
SYMMETRY Symmetry
CHECK_DEADLOCK FALSE
INVARIANTS TypeOK AdmittedIsRecorded BoardingClosesSale ReplayBoardsOnce
PROPERTIES EndedStaysEnded ImplementsTicketLife
