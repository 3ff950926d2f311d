SPECIFICATION Spec
CONSTANTS
  Sub = {s1, s2}
  Payment = {p1}
  Reconciler = {q1}
  Admin = {}
  Job = {j1}
  Batch = 2
  TrialDays = 1
  PeriodDays = 2
  GraceDays = 1
  Reminder1Days = 2
  Reminder2Days = 1
  SecondNoticeDay = 1
  ExtraDays = 1
  None = None
  Horizon = 3
  MaxFaults = 0
SYMMETRY Symmetry
CHECK_DEADLOCK FALSE
INVARIANT PaidIsServed
