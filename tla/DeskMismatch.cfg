SPECIFICATION Spec
CONSTANTS
  b1 = b1
  b2 = b2
  o1 = o1
  o2 = o2
  Bots = {b1}
  Orgs = {o1}
  OrgOf <- OneBot
  OwnCreds = {}
  Platform = Platform
  System = System
  NoBot = NoBot
  NoLedger = NoLedger
  NoBroker = NoBroker
  MismatchCycles = 2
  Poison = {}
  MaxQty = 1
  MaxOrders = 2
  Faults = {"late"}
  Operated = {}
  Managed = {}
PROPERTIES
  MismatchStopsTrading
