\* A direct payment and a fetch under two policies, with approvals that fall due,
\* midnight on every tick, a restart and failing reads.
SPECIFICATION Spec
CONSTANTS
  Job = {pay, fetch}
  Direct = {pay}
  Admitted = {pay, fetch}
  Amount = {1, 2}
  Policies <- TwoPolicies
  ApprovalTTL = 0
  Delay = 1
  Hour = 1
  Day = 1
  Week = 2
  MaxTime = 0
  MaxRestarts = 1
  StoreFails = TRUE
  NoThread = NoThread
  NoApproval = NoApproval
INVARIANTS PaidAtMostOnce OnlyApprovedPay CeilingHolds BudgetHolds
CHECK_DEADLOCK FALSE
