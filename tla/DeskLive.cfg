SPECIFICATION FairSpec
CONSTANTS
  b1 = b1
  b2 = b2
  o1 = o1
  o2 = o2
  Bots = {b1, b2}
  Orgs = {o1}
  OrgOf <- OneOrg
  OwnCreds = {}
  Platform = Platform
  System = System
  NoBot = NoBot
  NoLedger = NoLedger
  NoBroker = NoBroker
  MismatchCycles = 2
  Poison = {}
  MaxQty = 1
  MaxOrders = 1
  Faults = {"halt_read", "prices", "positions", "quote"}
  Operated = {System}
  Managed = {b1, b2}
PROPERTIES
  SystemHaltReachesDesk
  PausedBotIsDropped
  StartedBotIsLoaded
