SPECIFICATION MCSpec
CONSTANTS
  Tickers = {1, 2}
  Runs = {r1, r2}
  MaxPerTicker = 1
  MaxFilings = 2
  Fast = {bot}
  Slow = {review}
  Stale = 1
  Missing = 3
  Period = 2
  BeatTtl = 6
  Bots = {b1, b2}
  Audits = {v1}
  MaxQty = 1
  Symbols = {s1, s2}
  Quotes = {0, 1, 4}
  Prices = {1, 6}
  Quantities = {1, 2, 4}
  Fees = {0, 1}
  StartingCapital = 20
  MaxPositionPct = 20
  MaxTotalExposurePct = 80
  MaxDrawdownPct = 15
  DailyLossCapPct = 5
  MaxFills = 4
  NoIntent = NoIntent
INVARIANTS
  IndexHasBody
  SilenceIsReported
  VerdictIsFounded
  BooksBalance
PROPERTIES
  EveryFilingLands
  DriftHalts
  ExposureCapped
  NoBuyAfterFall
