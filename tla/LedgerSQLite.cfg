\* Two callers on two accounts compete for the connection.
SPECIFICATION FairSpec
CONSTANTS
  Caller = {p1, p2}
  Account = {acc1, acc2}
  Ref = {ref1, ref2}
  IdemKey = {key1}
  Amount = {1}
  NoKey = NoKey
  NoGrant = NoGrant
  Nobody = Nobody
INVARIANTS Conserved AnswersAreDurable
PROPERTIES AtomicLedger CallsReturn
