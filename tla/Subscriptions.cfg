SPECIFICATION Spec
CONSTANTS
  Sub = {s1, s2}
  Payment = {p1, p2}
  Reconciler = {q1, q2}
  Admin = {}
  Job = {j1}
  Batch = 1
  TrialDays = 1
  PeriodDays = 2
  GraceDays = 1
  Reminder1Days = 0
  Reminder2Days = 1
  SecondNoticeDay = 9
  ExtraDays = 1
  None = None
  Horizon = 2
  MaxFaults = 0
SYMMETRY Symmetry
CHECK_DEADLOCK FALSE
INVARIANTS TypeOK ServedIsSubscribed PaidTimeOnly PaidStaysActive RunLeavesNothingOverdue OneTrial
