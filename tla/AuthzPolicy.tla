----------------------------- MODULE AuthzPolicy -----------------------------
(***************************************************************************)
(* The authorization policy: may principal p take action a on resource r.   *)
(*                                                                         *)
(* A principal is [user, roles, sysadmin], where roles maps each of its     *)
(* orgs to its role there.  A resource is [type, org, author, delegates];   *)
(* org = NoOrg is a system-wide resource.  Each rule is one reason to allow;*)
(* what no rule allows is denied.                                           *)
(***************************************************************************)

CONSTANTS
  NoOrg,                   \* the owner of system-wide resources
  NoAuthor,                \* the author of what nobody wrote
  SysadminCanReadOrgData   \* the deploy flag SYSADMIN_CAN_READ_ORG_DATA

ASSUME PolicyAssumption == SysadminCanReadOrgData \in BOOLEAN

Role == {"viewer", "operator", "auditor", "orgadmin"}

ResourceType == {"strategy", "org", "user", "alpaca_secret", "cost_data",
                 "infra_telemetry", "market_data", "system_config"}

Action == {"read", "list", "create", "update", "delete"}

Reads == {"read", "list"}
Edits == {"update", "delete"}

\* A resource nobody is the author of.
Resource(type, org) ==
  [type |-> type, org |-> org, author |-> NoAuthor, delegates |-> {}]

\* The author and its co-authors can be given.
Authored(type, org, author, delegates) ==
  [type |-> type, org |-> org, author |-> author, delegates |-> delegates]

IsOrgMember(p, o) == o # NoOrg /\ o \in DOMAIN p.roles

HasRole(p, o, roles) == IsOrgMember(p, o) /\ p.roles[o] \in roles

IsOrgadmin(p, o) == HasRole(p, o, {"orgadmin"})

-----------------------------------------------------------------------------
\* No carve-out for the customers' broker keys.
AllowSysadminRead_slip(p, a, r) ==
  /\ p.sysadmin /\ a \in Reads
  /\ r.org = NoOrg \/ SysadminCanReadOrgData

\* System-wide data, and org data when the flag is set; never broker keys.
AllowSysadminRead(p, a, r) ==
  /\ p.sysadmin /\ a \in Reads
  /\ r.type # "alpaca_secret"
  /\ r.org = NoOrg \/ SysadminCanReadOrgData

AllowSysadminSystemConfig(p, a, r) ==
  p.sysadmin /\ r.type = "system_config" /\ r.org = NoOrg

AllowStrategyRead(p, a, r) ==
  r.type = "strategy" /\ a \in Reads /\ IsOrgMember(p, r.org)

\* The author who has left the org keeps its strategies.
AllowStrategyAuthorMutate_slip(p, a, r) ==
  /\ r.type = "strategy" /\ a \in Edits
  /\ r.author # NoAuthor
  /\ p.user \in {r.author} \cup r.delegates

\* Authorship alone is not the permission: the role in the org is needed too.
AllowStrategyAuthorMutate(p, a, r) ==
  /\ r.type = "strategy" /\ a \in Edits
  /\ r.author # NoAuthor
  /\ HasRole(p, r.org, {"operator", "orgadmin"})
  /\ p.user \in {r.author} \cup r.delegates

AllowOperatorCreateStrategy(p, a, r) ==
  /\ r.type = "strategy" /\ a = "create"
  /\ HasRole(p, r.org, {"operator", "orgadmin"})

AllowOrgadminAnyStrategy(p, a, r) ==
  r.type = "strategy" /\ a \in Edits /\ IsOrgadmin(p, r.org)

AllowOrgadminUserMgmt(p, a, r) ==
  r.type \in {"user", "alpaca_secret"} /\ IsOrgadmin(p, r.org)

AllowSysadminUserMgmt(p, a, r) == p.sysadmin /\ r.type = "user"

AllowOrgCreateBySysadmin(p, a, r) ==
  r.type = "org" /\ a = "create" /\ p.sysadmin

AllowOrgMutateByOrgadmin(p, a, r) ==
  r.type = "org" /\ a \in Edits /\ IsOrgadmin(p, r.org)

AllowOrgReadByMember(p, a, r) ==
  r.type = "org" /\ a \in Reads /\ IsOrgMember(p, r.org)

AllowMarketDataRead(p, a, r) == r.type = "market_data" /\ a \in Reads

-----------------------------------------------------------------------------
\* The chain: the first rule that allows wins, none denies.
Can(p, a, r) ==
  \/ AllowSysadminRead(p, a, r)
  \/ AllowSysadminSystemConfig(p, a, r)
  \/ AllowSysadminUserMgmt(p, a, r)
  \/ AllowStrategyAuthorMutate(p, a, r)
  \/ AllowOrgadminAnyStrategy(p, a, r)
  \/ AllowOperatorCreateStrategy(p, a, r)
  \/ AllowStrategyRead(p, a, r)
  \/ AllowOrgadminUserMgmt(p, a, r)
  \/ AllowOrgCreateBySysadmin(p, a, r)
  \/ AllowOrgMutateByOrgadmin(p, a, r)
  \/ AllowOrgReadByMember(p, a, r)
  \/ AllowMarketDataRead(p, a, r)
==============================================================================
