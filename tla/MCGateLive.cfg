\* A challenge for a tool over HTTP, one behind MCP or for a top-up on both rails;
\* requests one after the other, an error or a restart between any two steps.
CONSTANTS
  h1 = h1
  a1 = a1
  x1 = x1
  r1 = r1
  cheap = cheap
  dear = dear
  Hash = {h1}
  Addr = {a1}
  TxId = {x1}
  Req = {r1}
  CallTool = {cheap, dear}
  CreditTool = {}
  McpTool = {dear}
  Price <- MCPrice
  TopUp = TopUp
  TopUpAmount = {1}
  IdemKey = {}
  NoKey = NoKey
  NoGrant = NoGrant
  NoTx = NoTx
  Nobody = Nobody
  NoChallenge = NoChallenge
  Depth = 1
  ChallengeTTL = 0
  TokenTTL = 1
  MaxTime = 1
  MaxRestarts = 1
SPECIFICATION FairSpec
PROPERTIES DepositCredited TopupCredited PaidCallServed
CHECK_DEADLOCK FALSE
