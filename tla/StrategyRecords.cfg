SPECIFICATION MCSpec
CONSTANTS
  ann = ann
  bob = bob
  Strategies = {s1}
  Users = {ann, bob}
  Orgs = {ours}
  Proposals = {edit1}
  Requests = {q1, q2}
  StartRoles <- MCStartRoles
  NewRoles = {"none"}
  NoUser = NoUser
  NoOrg = NoOrg
  NoAuthor = NoAuthor
  SysadminCanReadOrgData = FALSE
  MaxStarts = 4
  MaxChanges = 1
  Processes = {p1, p2}
  Critics = {k1}
  Advisers = {v1, v2}
  PerDay = 3
  AppendTime = 1
  CompactHour = 2
  Window = 2
  MaxTime = 5
  MaxLines = 2
SYMMETRY Alike
CHECK_DEADLOCK FALSE
INVARIANTS
  VerdictMatchesText
  NothingForgotten
  WeekIsRead
  NotesAreKept
PROPERTIES
  DeletedStaysDeleted
  OnlyItsOrgEdits
