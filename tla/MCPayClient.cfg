\* Three fetches of an honest shop and of two sites behind one host name.
SPECIFICATION Spec
CONSTANTS
  shop = shop
  stall = stall
  hawker = hawker
  mall = mall
  street = street
  Site = {shop, stall, hawker}
  HostOf <- Hosts
  Honest = {shop, stall}
  Price = 1
  Offer <- Offers
  Guard = {0, 1}
  Limit = 11
  Milli = 6
  Wrap = 64
  TTL = 1
  MaxFetches = 3
  MaxFaults = 1
  MaxRestarts = 1
  MaxTime = 1
  NoToken = NoToken
  NoSite = NoSite
INVARIANTS TypeOK PaidAsRuled ReceiptKept RepeatIsFree
CHECK_DEADLOCK FALSE
