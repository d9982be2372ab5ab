\* A challenge for a dear call or for a top-up on both rails, cheap calls on credit
\* with an idempotency key, two requests at once and a restart at any time.
CONSTANTS
  h1 = h1
  a1 = a1
  x1 = x1
  r1 = r1
  r2 = r2
  k1 = k1
  cheap = cheap
  dear = dear
  Hash = {h1}
  Addr = {a1}
  TxId = {x1}
  Req = {r1, r2}
  CallTool = {dear}
  CreditTool = {cheap}
  McpTool = {}
  Price <- MCPrice
  TopUp = TopUp
  TopUpAmount = {1, 2}
  IdemKey = {k1}
  NoKey = NoKey
  NoGrant = NoGrant
  NoTx = NoTx
  Nobody = Nobody
  NoChallenge = NoChallenge
  Depth = 1
  ChallengeTTL = 0
  TokenTTL = 1
  MaxTime = 0
  MaxRestarts = 1
SPECIFICATION Spec
SYMMETRY SymmetricRequests
INVARIANTS ProofRunsOnce RunsArePaid CreditsArePaid CredentialsArePaid Solvent WorkIsCharged
PROPERTIES PromiseKept
CHECK_DEADLOCK FALSE
