\* An approved direct payment; every store read succeeds.
SPECIFICATION Spec
CONSTANTS
  Job = {pay}
  Direct = {pay}
  Admitted = {pay}
  Amount = {2}
  Policies <- AskAtTwo
  ApprovalTTL = 1
  Delay = 0
  Hour = 1
  Day = 2
  Week = 4
  MaxTime = 1
  MaxRestarts = 0
  StoreFails = FALSE
  NoThread = NoThread
  NoApproval = NoApproval
INVARIANT FreezeHalts
CHECK_DEADLOCK FALSE
