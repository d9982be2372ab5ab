\* Two approvals, two messages, lost calls, a restart and a click.
SPECIFICATION FairSpec
CONSTANTS
  a = a
  b = b
  Id = {a, b}
  Message <- Replies
  MaxMessages = 2
  MaxFaults = 2
  MaxRestarts = 1
  MaxClicks = 1
INVARIANTS TypeOK NoCommandLost RepliesDecide VerdictsAreTheOwners SwitchFollowsLatest
PROPERTY MessagesHandled
CHECK_DEADLOCK FALSE
