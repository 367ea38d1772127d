SPECIFICATION Spec
CONSTANTS
  Orgs = {o1, o2}
  System = System
  NoRow = NoRow
  Callers = {c1, c2, c3}
  Serialized = {o2}
  MaxWrites = 3
INVARIANTS
  HaltLeavesTrace
  SteadyHaltSeen
  MetricMatchesAudit
PROPERTY AuditsEveryChange
SYMMETRY Symmetric
