\* Five upstreams, and a credential that is attenuated twice.
SPECIFICATION Spec
CONSTANTS
  Name = {"shop", "read"}
  NoName = NoName
  Service = "shop"
  Capabilities = {"read"}
  Upstreams <- MCUpstreams
  Path <- MCPath
  Method = {"get", "POST"}
  Tool = {"process", "about", "draw"}
  NoTool = NoTool
  Body <- MCBody
  Proof = {1, 2}
  Added <- MCAdded
  Credit = 2
  TTL = 1
  RootKey = RootKey
  NoUpstream = NoUpstream
  MaxHeld = 3
  MaxTime = 1
INVARIANTS AttenuationNarrows AdvertisedIsServing
 
CHECK_DEADLOCK FALSE
