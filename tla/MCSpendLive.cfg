\* Two calls that need approval; nobody has to answer, and an approval is overdue
\* after one tick.
SPECIFICATION FairSpec
CONSTANTS
  Job = {pay, fetch}
  Direct = {pay}
  Admitted = {pay, fetch}
  Amount = {2}
  Policies <- AskAtTwo
  ApprovalTTL = 0
  Delay = 0
  Hour = 1
  Day = 2
  Week = 4
  MaxTime = 0
  MaxRestarts = 1
  StoreFails = FALSE
  NoThread = NoThread
  NoApproval = NoApproval
PROPERTIES ApprovalsEnd ThreadsEnd
CHECK_DEADLOCK FALSE
