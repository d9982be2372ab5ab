\* One connection; a deposit accepted on other terms than offered.
SPECIFICATION Spec
CONSTANTS
  tx = tx
  hash = hash
  seller = seller
  other = other
  main = main
  sim = sim
  None = None
  Conn = {c1}
  Payment <- Deposits
  Submission = {}
  Outputs <- Outs
  UrlKind <- Urls
  Configs <- NotaryOnly
  Milli = 8
  Wrap = 64
  Supply = 3
  MaxDepth = 2
  MaxFaults = 0
INVARIANT OfferIsMet
