\* One MCP server and a call whose name is written in two spellings.
SPECIFICATION Spec
CONSTANTS
  Name = {"shop", "read"}
  NoName = NoName
  Service = "shop"
  Capabilities = {"read"}
  Upstreams <- OneServer
  Path <- OnePath
  Method = {"get", "POST"}
  Tool = {"process", "about", "draw"}
  NoTool = NoTool
  Body <- OneMessage
  Proof = {1, 2}
  Added <- MCAdded
  Credit = 2
  TTL = 1
  RootKey = RootKey
  NoUpstream = NoUpstream
  MaxHeld = 1
  MaxTime = 1
PROPERTY EveryReaderIsPaid
CHECK_DEADLOCK FALSE
