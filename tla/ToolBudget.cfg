SPECIFICATION MCSpec
CONSTANTS
  ibm = ibm
  hp = hp
  Symbols = {ibm, hp}
  Traded = {ibm}
  Minute = 2
  Hour = 2
  Staleness = 2
  Lookback = 1
  Lag = 1
  MaxTime = 5
  ShortTime = 2
  MaxFaults = 1
  c1 = c1
  c2 = c2
  s1 = s1
  Callers = {c1, c2}
  StrategyOf <- MCStrategyOf
  Quota = 2
  DailyQuota <- MCDailyQuota
  CacheTtl = 1
  PutTime = 1
  DayLength = 3
  LastTime = 5
  MaxDenied = 1
CHECK_DEADLOCK FALSE
INVARIANT StrategyBudget
