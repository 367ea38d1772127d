SPECIFICATION MCSpec
CONSTANTS
  s1 = s1
  s2 = s2
  Strategies = {s1, s2}
  NoStrategy = NoStrategy
  Orgless = {s2}
  Batch = 2
  Attempts = 2
  MaxEdits = 4
  PairEdits = 2
  Faults = {"ecs", "lambda"}
  OneShots = 1
CHECK_DEADLOCK FALSE
INVARIANT ServiceFollowsRow
PROPERTY TasksFollowRows
