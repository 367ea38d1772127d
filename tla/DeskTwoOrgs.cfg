SPECIFICATION Spec
CONSTANTS
  b1 = b1
  b2 = b2
  o1 = o1
  o2 = o2
  Bots = {b1, b2}
  Orgs = {o1, o2}
  OrgOf <- TwoOrgs
  OwnCreds = {o2}
  Platform = Platform
  System = System
  NoBot = NoBot
  NoLedger = NoLedger
  NoBroker = NoBroker
  MismatchCycles = 2
  Poison = {}
  MaxQty = 1
  MaxOrders = 3
  Faults = {"halt_read", "secret"}
  Operated = {System, o1}
  Managed = {b1}
INVARIANTS
  HaltBound
PROPERTIES
  DroppedBotSendsNothing
