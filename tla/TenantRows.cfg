SPECIFICATION Spec
CONSTANTS
  Users = {u1, u2, u3}
  Emails = {sw, e1}
  SuperEmail = sw
  SystemOrgs = {s1}
  CustomerOrgs = {o1}
  Grantable = {"orgadmin", "viewer"}
  Requests = {q1, q2}
  NoUser = NoUser
  NoOrg = NoOrg
  NoAuthor = NoAuthor
  SysadminCanReadOrgData = TRUE
  MaxStarts = 4
  MaxFaults = 1
CHECK_DEADLOCK FALSE
SYMMETRY Symmetric
INVARIANT OneUserPerAddress
INVARIANT SidesAgree
INVARIANT NothingLeftBehind
INVARIANT RosterShowsPowers
PROPERTY SysadminRemains
PROPERTY RevocationSticks
