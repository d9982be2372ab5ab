\* Two connections, one transaction with three readings, two Lightning proofs.
SPECIFICATION FairSpec
CONSTANTS
  tx = tx
  hash = hash
  seller = seller
  other = other
  main = main
  sim = sim
  None = None
  Conn = {c1, c2}
  Payment <- Payments
  Submission <- Submissions
  Outputs <- Outs
  UrlKind <- Urls
  Configs <- Configurations
  Milli = 8
  Wrap = 64
  Supply = 3
  MaxDepth = 2
  MaxFaults = 1
INVARIANTS TypeOK NotarizedIsPaid AnswersAgree ReplayIsServed IndexBounded WalkMissesNothing
PROPERTY TransactionNotarized
