SPECIFICATION FairSpec
CONSTANTS
  Sub = {s1}
  Payment = {p1}
  Reconciler = {q1}
  Admin = {a1}
  Job = {j1, j2}
  Batch = 2
  TrialDays = 0
  PeriodDays = 1
  GraceDays = 1
  Reminder1Days = 1
  Reminder2Days = 1
  SecondNoticeDay = 2
  ExtraDays = 1
  None = None
  Horizon = 3
  MaxFaults = 1
CHECK_DEADLOCK FALSE
INVARIANTS ServedIsSubscribed PaidStaysActive RunLeavesNothingOverdue
PROPERTY DebitedIsCredited
