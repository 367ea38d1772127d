------------------------------- MODULE Tenancy -------------------------------
(***************************************************************************)
(* Users, orgs and memberships: the rows of one DynamoDB table, the Cognito *)
(* accounts beside them, and the requests that change both.                 *)
(*                                                                         *)
(* A user has a USER# row and an address whose USEREMAIL# row leads back to *)
(* it; a membership is a USERORG# row and an ORGUSER# row; a SYSADMIN# row  *)
(* makes an administrator.  No two of these writes are atomic: a request is *)
(* a walk over steps, one remote write each, and any number of requests,    *)
(* logins and one bootstrap run interleave, fail and are cut off.           *)
(***************************************************************************)
EXTENDS AuthzPolicy, Naturals, FiniteSets

CONSTANTS
  Users,          \* user ids
  Emails,         \* addresses
  SuperEmail,     \* superwoman's address
  SystemOrgs,     \* ids of orgs the bootstrap founds
  CustomerOrgs,   \* ids of orgs a sysadmin founds
  Grantable,      \* the roles the requests hand out
  Requests,       \* concurrent requests, logins and bootstrap runs
  NoUser,
  MaxStarts,      \* requests after which none begins (bound)
  MaxFaults       \* failing calls and deaths (bound)

ASSUME TenancyAssumption ==
  /\ SuperEmail \in Emails
  /\ NoUser \notin Users
  /\ NoOrg \notin SystemOrgs \cup CustomerOrgs
  /\ SystemOrgs \cap CustomerOrgs = {}
  /\ Grantable \subseteq Role
  /\ "orgadmin" \in Grantable
  /\ MaxStarts \in Nat /\ MaxFaults \in Nat

Orgs == SystemOrgs \cup CustomerOrgs
NoRole == "none"

VARIABLES
  orgs,       \* orgs with an ORG# row
  users,      \* users with a USER# row
  mail,       \* the address in a user's row, SuperEmail for an id not in use
  index,      \* the USEREMAIL# rows
  userOrg,    \* the role in each USERORG# row
  orgUser,    \* the role in each ORGUSER# row
  admins,     \* users with a SYSADMIN# row
  account,    \* Cognito: none, or one whose password its owner knows or not
  at,         \* the next step of each request
  kind,       \* which request it is
  addr,       \* the address it is about
  who,        \* the user it is about
  org,        \* the org it is about
  role,       \* the role it hands out
  todo,       \* orgs a deletion has yet to leave
  minted,     \* ids handed out so far, users and orgs (history)
  torn,       \* addresses whose requests overlapped or broke (history)
  scarred,    \* addresses whose deletions overlapped or broke (history)
  demoted,    \* users whose SYSADMIN row was deleted (history)
  risked,     \* revocations met, or a sysadmin was deleted (history)
  starts, faults

rowVars == <<orgs, users, mail, index, userOrg, orgUser, admins, account>>
reqVars == <<at, kind, addr, who, org, role, todo>>
histVars == <<minted, torn, scarred, demoted, risked, starts, faults>>
vars == <<rowVars, reqVars, histVars>>

NoRows == [u \in Users |-> [o \in Orgs |-> NoRole]]

\* Nothing but empty tables.
Empty ==
  /\ orgs = {}
  /\ users = {}
  /\ index = [e \in Emails |-> NoUser]
  /\ userOrg = NoRows
  /\ admins = {}
  /\ account = [e \in Emails |-> "none"]
  /\ minted = {}

\* What a bootstrap run leaves behind, with superwoman's account set up.
Bootstrapped ==
  \E u \in Users, o \in SystemOrgs :
    /\ orgs = {o}
    /\ users = {u}
    /\ index = [e \in Emails |-> IF e = SuperEmail THEN u ELSE NoUser]
    /\ userOrg = [NoRows EXCEPT ![u][o] = "orgadmin"]
    /\ admins = {u}
    /\ account = [e \in Emails |-> IF e = SuperEmail THEN "told" ELSE "none"]
    /\ minted = {u, o}

Init ==
  /\ Empty \/ Bootstrapped
  /\ orgUser = userOrg
  /\ mail = [u \in Users |-> SuperEmail]
  /\ at = [q \in Requests |-> "idle"]
  /\ kind = [q \in Requests |-> "none"]
  /\ addr = [q \in Requests |-> SuperEmail]
  /\ who = [q \in Requests |-> NoUser]
  /\ org = [q \in Requests |-> NoOrg]
  /\ role = [q \in Requests |-> NoRole]
  /\ todo = [q \in Requests |-> {}]
  /\ torn = {}
  /\ scarred = {}
  /\ demoted = {}
  /\ risked = FALSE
  /\ starts = 0
  /\ faults = 0

-----------------------------------------------------------------------------
(* Reads.                                                                   *)

\* Only the orgs that still have a row.
Joined_slip(u) == {o \in orgs : userOrg[u][o] # NoRole}

\* memberships_for_user: of deleted orgs too.
Joined(u) == {o \in Orgs : userOrg[u][o] # NoRole}

\* principal_from_session: built afresh for every request of an existing user.
PrincipalOf(u) ==
  [user |-> u,
   roles |-> [o \in Joined(u) |-> userOrg[u][o]],
   sysadmin |-> u \in admins]

\* find_user_by_email: an index row whose user is gone finds nobody.
FindByEmail(e) == IF index[e] \in users THEN index[e] ELSE NoUser

\* _require_user_mgmt: some user with a session may manage users of o.
Permitted(o) ==
  \E u \in users : Can(PrincipalOf(u), "create", Resource("user", o))

SomeSysadmin == \E u \in users : PrincipalOf(u).sysadmin

-----------------------------------------------------------------------------
(* Walking through a request.                                               *)

\* The request answers, raises or dies.
Return(q) ==
  /\ at' = [at EXCEPT ![q] = "idle"]
  /\ kind' = [kind EXCEPT ![q] = "none"]
  /\ addr' = [addr EXCEPT ![q] = SuperEmail]
  /\ who' = [who EXCEPT ![q] = NoUser]
  /\ org' = [org EXCEPT ![q] = NoOrg]
  /\ role' = [role EXCEPT ![q] = NoRole]
  /\ todo' = [todo EXCEPT ![q] = {}]

\* It goes on with the given step.
Go(q, next) ==
  /\ at' = [at EXCEPT ![q] = next]
  /\ UNCHANGED <<kind, addr, who, org, role, todo>>

GoOrReturn(q, next) == IF next = "idle" THEN Return(q) ELSE Go(q, next)

Running(q) == at[q] # "idle"

\* Requests that look an address up and claim it; any number may meet.
Claims == {"create", "login"}

\* The kinds of the requests running about address e.
Meets(e) == {kind[p] : p \in {x \in Requests : Running(x) /\ addr[x] = e}}

Begin(q, k, step, e, u, o, r) ==
  /\ at[q] = "idle"
  /\ starts < MaxStarts
  /\ starts' = starts + 1
  /\ at' = [at EXCEPT ![q] = step]
  /\ kind' = [kind EXCEPT ![q] = k]
  /\ addr' = [addr EXCEPT ![q] = e]
  /\ who' = [who EXCEPT ![q] = u]
  /\ org' = [org EXCEPT ![q] = o]
  /\ role' = [role EXCEPT ![q] = r]
  /\ torn' = IF Meets(e) = {} \/ Meets(e) \cup {k} \subseteq Claims
             THEN torn ELSE torn \cup {e}
  /\ scarred' = IF k = "delete" /\ k \in Meets(e) THEN scarred \cup {e} ELSE scarred

-----------------------------------------------------------------------------
(* How each request begins: its checks and reads.                           *)

\* POST /api/admin/users.
CreateUser(q) ==
  \E e \in Emails, o \in orgs, r \in Grantable :
    /\ Permitted(o)
    /\ FindByEmail(e) = NoUser
    /\ Begin(q, "create", "cognito", e, NoUser, o, r)
    /\ UNCHANGED <<rowVars, todo, minted, demoted, risked, faults>>

\* PUT /api/admin/users/{id}/role.
UpdateUserRole(q) ==
  \E u \in users, o \in orgs, r \in Grantable :
    /\ Permitted(o)
    /\ Begin(q, "role", "userorg", mail[u], u, o, r)
    /\ UNCHANGED <<rowVars, todo, minted, demoted, risked, faults>>

\* DELETE /api/admin/users/{id}.
DeleteUser(q) ==
  \E u \in users :
    /\ Permitted(NoOrg)
    /\ Begin(q, "delete", "leave", mail[u], u, NoOrg, NoRole)
    /\ todo' = [todo EXCEPT ![q] = Joined(u)]
    /\ risked' = (risked \/ u \in admins)
    /\ UNCHANGED <<rowVars, minted, demoted, faults>>

\* PUT /api/admin/users/{id}/sysadmin, granting: a member of the system org.
GrantSysadmin(q) ==
  \E u \in users :
    /\ SomeSysadmin
    /\ \E o \in SystemOrgs \cap orgs : userOrg[u][o] # NoRole
    /\ Begin(q, "grant", "grant", mail[u], u, NoOrg, NoRole)
    /\ UNCHANGED <<rowVars, todo, minted, demoted, risked, faults>>

\* The sysadmins are counted, the one to be revoked among them.
Remaining_slip(u) == users \cap admins

\* The sysadmins that would remain.
Remaining(u) == (users \cap admins) \ {u}

\* PUT /api/admin/users/{id}/sysadmin, revoking.
RevokeSysadmin(q) ==
  \E u \in users :
    /\ SomeSysadmin
    /\ Remaining(u) # {}
    /\ Begin(q, "revoke", "revoke", mail[u], u, NoOrg, NoRole)
    /\ risked' = (risked \/ \E p \in Requests :
                              Running(p) /\ kind[p] \in {"revoke", "delete"})
    /\ UNCHANGED <<rowVars, todo, minted, demoted, faults>>

\* _cognito_login: Cognito knows the address and its owner the password.
Login(q) ==
  \E e \in Emails :
    /\ account[e] = "told"
    /\ Begin(q, "login", "find", e, NoUser, NoOrg, NoRole)
    /\ UNCHANGED <<rowVars, todo, minted, demoted, risked, faults>>

\* bootstrap: one run at a time.
Bootstrap(q) ==
  /\ \A p \in Requests : Running(p) => kind[p] \notin {"boot", "reboot"}
  /\ Begin(q, "boot", "system", SuperEmail, NoUser, NoOrg, "orgadmin")
  /\ UNCHANGED <<rowVars, todo, minted, demoted, risked, faults>>

-----------------------------------------------------------------------------
(* Requests of one write.                                                   *)

Counted == starts < MaxStarts /\ starts' = starts + 1

\* POST /api/admin/orgs.
CreateOrg ==
  /\ Counted
  /\ \E u \in users : Can(PrincipalOf(u), "create", Resource("org", NoOrg))
  /\ \E o \in CustomerOrgs \ minted :
       /\ orgs' = orgs \cup {o}
       /\ minted' = minted \cup {o}
  /\ UNCHANGED <<users, mail, index, userOrg, orgUser, admins, account,
                 reqVars, torn, scarred, demoted, risked, faults>>

\* DELETE /api/admin/orgs/{id}: the org's row only.
DeleteOrg ==
  /\ Counted
  /\ \E o \in orgs, u \in users :
       /\ Can(PrincipalOf(u), "delete", Resource("org", o))
       /\ orgs' = orgs \ {o}
  /\ UNCHANGED <<users, mail, index, userOrg, orgUser, admins, account,
                 reqVars, minted, torn, scarred, demoted, risked, faults>>

\* The owner of an account learns its password: CI provisions superwoman's,
\* a sysadmin resets that of another user.
TellPassword ==
  /\ Counted
  /\ \E e \in Emails :
       /\ \/ e = SuperEmail /\ account[e] = "none"
          \/ /\ account[e] = "untold"
             /\ Permitted(NoOrg)
             /\ \E u \in users : mail[u] = e
       /\ account' = [account EXCEPT ![e] = "told"]
  /\ UNCHANGED <<orgs, users, mail, index, userOrg, orgUser, admins,
                 reqVars, minted, torn, scarred, demoted, risked, faults>>

-----------------------------------------------------------------------------
(* The steps of a request, one remote read or write each.                   *)

\* ensure_system_org: any system org there is, or a new one.
EnsureSystemOrg(q) ==
  /\ at[q] = "system"
  /\ \/ /\ \E o \in SystemOrgs \cap orgs : org' = [org EXCEPT ![q] = o]
        /\ UNCHANGED <<orgs, minted>>
     \/ /\ SystemOrgs \cap orgs = {}
        /\ \E o \in SystemOrgs \ minted :
             /\ org' = [org EXCEPT ![q] = o]
             /\ orgs' = orgs \cup {o}
             /\ minted' = minted \cup {o}
  /\ at' = [at EXCEPT ![q] = "super"]
  /\ UNCHANGED <<users, mail, index, userOrg, orgUser, admins, account, kind,
                 addr, who, role, todo, torn, scarred, demoted, risked, starts, faults>>

\* Finding superwoman makes no difference to what the run does next.
Found_slip(k) == k

\* A run that finds superwoman is a re-run.
Found(k) == "reboot"

\* Sysadmin is granted on the first creation, never on a re-run.
AfterBoot(k) == IF k = "boot" THEN "grant" ELSE "idle"

\* ensure_superwoman_user: found, with or without her membership, or created.
FindSuper(q) ==
  /\ at[q] = "super"
  /\ LET u == FindByEmail(SuperEmail)
         k == IF u = NoUser THEN "boot" ELSE Found(kind[q])
         next == CASE u = NoUser -> "index"
                   [] u # NoUser /\ userOrg[u][org[q]] = NoRole -> "userorg"
                   [] OTHER -> AfterBoot(k)
     IN \/ next = "idle" /\ Return(q)
        \/ /\ next # "idle"
           /\ at' = [at EXCEPT ![q] = next]
           /\ kind' = [kind EXCEPT ![q] = k]
           /\ who' = [who EXCEPT ![q] = u]
           /\ UNCHANGED <<addr, org, role, todo>>
  /\ UNCHANGED <<rowVars, histVars>>

\* _finalize_login: the user is found, or provisioned.
FindLogin(q) ==
  /\ at[q] = "find"
  /\ GoOrReturn(q, IF FindByEmail(addr[q]) = NoUser THEN "index" ELSE "idle")
  /\ UNCHANGED <<rowVars, histVars>>

\* admin_create_user: the account is new, or the request ends with a 409.
CreateAccount(q) ==
  /\ at[q] = "cognito"
  /\ \/ /\ account[addr[q]] = "none"
        /\ account' = [account EXCEPT ![addr[q]] = "untold"]
        /\ Go(q, "index")
     \/ /\ account[addr[q]] # "none"
        /\ Return(q)
        /\ UNCHANGED account
  /\ UNCHANGED <<orgs, users, mail, index, userOrg, orgUser, admins,
                 histVars>>

\* After an error: POST /users deletes the account again.
Undo(q) == IF kind[q] = "create" THEN "uncognito" ELSE "idle"

\* The put of the index is unconditional.
Free_slip(e) == TRUE

\* The condition of the put of the index.
Free(e) == index[e] = NoUser

\* create_user: the address is claimed for a new id, or in use.
PutIndex(q) ==
  /\ at[q] = "index"
  /\ \/ /\ Free(addr[q])
        /\ \E u \in Users \ minted :
             /\ index' = [index EXCEPT ![addr[q]] = u]
             /\ who' = [who EXCEPT ![q] = u]
             /\ minted' = minted \cup {u}
        /\ at' = [at EXCEPT ![q] = "user"]
        /\ UNCHANGED <<kind, addr, org, role, todo>>
     \/ /\ ~Free(addr[q])
        /\ GoOrReturn(q, Undo(q))
        /\ UNCHANGED <<index, minted>>
  /\ UNCHANGED <<orgs, users, mail, userOrg, orgUser, admins, account, torn,
                 scarred, demoted, risked, starts, faults>>

\* create_user: the user's row.  A login ends here.
PutUser(q) ==
  /\ at[q] = "user"
  /\ users' = users \cup {who[q]}
  /\ mail' = [mail EXCEPT ![who[q]] = addr[q]]
  /\ GoOrReturn(q, IF kind[q] = "login" THEN "idle" ELSE "userorg")
  /\ UNCHANGED <<orgs, index, userOrg, orgUser, admins, account, histVars>>

\* create_user's rollback.
DropIndex(q) ==
  /\ at[q] = "unindex"
  /\ index' = [index EXCEPT ![addr[q]] = NoUser]
  /\ GoOrReturn(q, Undo(q))
  /\ UNCHANGED <<orgs, users, mail, userOrg, orgUser, admins, account,
                 histVars>>

\* add_membership: the user's side.
PutUserOrg(q) ==
  /\ at[q] = "userorg"
  /\ userOrg' = [userOrg EXCEPT ![who[q]][org[q]] = role[q]]
  /\ Go(q, "orguser")
  /\ UNCHANGED <<orgs, users, mail, index, orgUser, admins, account,
                 histVars>>

\* add_membership: the org's side.  POST /users answers with the password.
PutOrgUser(q) ==
  /\ at[q] = "orguser"
  /\ orgUser' = [orgUser EXCEPT ![who[q]][org[q]] = role[q]]
  /\ account' = IF kind[q] = "create" /\ account[addr[q]] = "untold"
                THEN [account EXCEPT ![addr[q]] = "told"] ELSE account
  /\ GoOrReturn(q, AfterBoot(kind[q]))
  /\ UNCHANGED <<orgs, users, mail, index, userOrg, admins, histVars>>

\* add_membership's rollback: the user's side, whatever was there before.
DropUserOrg(q) ==
  /\ at[q] = "unmember"
  /\ userOrg' = [userOrg EXCEPT ![who[q]][org[q]] = NoRole]
  /\ GoOrReturn(q, Undo(q))
  /\ UNCHANGED <<orgs, users, mail, index, orgUser, admins, account,
                 histVars>>

\* POST /users' rollback.
DropAccount(q) ==
  /\ at[q] = "uncognito"
  /\ account' = [account EXCEPT ![addr[q]] = "none"]
  /\ Return(q)
  /\ UNCHANGED <<orgs, users, mail, index, userOrg, orgUser, admins,
                 histVars>>

\* grant_sysadmin, by a request or a first bootstrap run.
PutAdmin(q) ==
  /\ at[q] = "grant"
  /\ admins' = admins \cup {who[q]}
  /\ Return(q)
  /\ UNCHANGED <<orgs, users, mail, index, userOrg, orgUser, account,
                 histVars>>

\* revoke_sysadmin, by a request or a deletion.  A user a bootstrap run is
\* still setting up does not count as demoted.
DropAdmin(q) ==
  /\ \/ at[q] = "revoke" /\ Return(q)
     \/ at[q] = "leave" /\ todo[q] = {} /\ Go(q, "delindex")
  /\ admins' = admins \ {who[q]}
  /\ demoted' = demoted \cup {u \in admins \cap {who[q]} :
                  \A p \in Requests : Running(p) /\ kind[p] = "boot" => who[p] # u}
  /\ UNCHANGED <<orgs, users, mail, index, userOrg, orgUser, account, minted,
                 torn, scarred, risked, starts, faults>>

\* remove_membership of one of the orgs, the user's side.
DeleteUserOrg(q) ==
  /\ at[q] = "leave"
  /\ \E o \in todo[q] :
       /\ userOrg' = [userOrg EXCEPT ![who[q]][o] = NoRole]
       /\ org' = [org EXCEPT ![q] = o]
       /\ todo' = [todo EXCEPT ![q] = @ \ {o}]
  /\ at' = [at EXCEPT ![q] = "leaveorg"]
  /\ UNCHANGED <<orgs, users, mail, index, orgUser, admins, account, kind,
                 addr, who, role, histVars>>

\* The org's side stays.
Left_slip(r) == r

\* The org's side of a membership that was left.
Left(r) == NoRole

\* remove_membership, the org's side.
DeleteOrgUser(q) ==
  /\ at[q] = "leaveorg"
  /\ orgUser' = [orgUser EXCEPT ![who[q]][org[q]] = Left(@)]
  /\ Go(q, "leave")
  /\ UNCHANGED <<orgs, users, mail, index, userOrg, admins, account,
                 histVars>>

\* delete_user: the index, the user's row, the account.
DeleteIndex(q) ==
  /\ at[q] = "delindex"
  /\ index' = [index EXCEPT ![addr[q]] = NoUser]
  /\ Go(q, "deluser")
  /\ UNCHANGED <<orgs, users, mail, userOrg, orgUser, admins, account,
                 histVars>>

DeleteUserRow(q) ==
  /\ at[q] = "deluser"
  /\ users' = users \ {who[q]}
  /\ Go(q, "delcognito")
  /\ UNCHANGED <<orgs, mail, index, userOrg, orgUser, admins, account,
                 histVars>>

DeleteAccount(q) ==
  /\ at[q] = "delcognito"
  /\ account' = [account EXCEPT ![addr[q]] = "none"]
  /\ Return(q)
  /\ UNCHANGED <<orgs, users, mail, index, userOrg, orgUser, admins,
                 histVars>>

-----------------------------------------------------------------------------
(* Failures.                                                                *)

\* Where a request goes on after its call raised: rollbacks, and errors that
\* delete_user suppresses; everything else ends it.
AfterError(q) ==
  CASE at[q] \in {"index", "unindex", "userorg", "unmember"} -> Undo(q)
    [] at[q] = "user" -> "unindex"
    [] at[q] = "orguser" -> "unmember"
    [] at[q] = "delindex" -> "deluser"
    [] at[q] = "deluser" -> "delcognito"
    [] OTHER -> "idle"

\* The call the request makes raises, without effect, or the process dies.
Break(q) ==
  /\ Running(q)
  /\ faults < MaxFaults
  /\ faults' = faults + 1
  /\ torn' = torn \cup {addr[q]}
  /\ scarred' = IF kind[q] = "delete" THEN scarred \cup {addr[q]} ELSE scarred
  /\ GoOrReturn(q, AfterError(q)) \/ Return(q)
  /\ UNCHANGED <<rowVars, minted, demoted, risked, starts>>

-----------------------------------------------------------------------------
Start(q) ==
  \/ CreateUser(q) \/ UpdateUserRole(q) \/ DeleteUser(q) \/ GrantSysadmin(q)
  \/ RevokeSysadmin(q) \/ Login(q) \/ Bootstrap(q)

Step(q) ==
  \/ EnsureSystemOrg(q) \/ FindSuper(q) \/ FindLogin(q) \/ CreateAccount(q)
  \/ PutIndex(q) \/ PutUser(q) \/ DropIndex(q) \/ PutUserOrg(q)
  \/ PutOrgUser(q) \/ DropUserOrg(q) \/ DropAccount(q) \/ PutAdmin(q)
  \/ DropAdmin(q) \/ DeleteUserOrg(q) \/ DeleteOrgUser(q) \/ DeleteIndex(q)
  \/ DeleteUserRow(q) \/ DeleteAccount(q) \/ Break(q)

Next ==
  \/ \E q \in Requests : Start(q) \/ Step(q)
  \/ CreateOrg
  \/ DeleteOrg
  \/ TellPassword

Spec == Init /\ [][Next]_vars

-----------------------------------------------------------------------------
(* Properties.                                                              *)

TypeOK ==
  /\ orgs \subseteq Orgs
  /\ users \subseteq Users
  /\ mail \in [Users -> Emails]
  /\ index \in [Emails -> Users \cup {NoUser}]
  /\ userOrg \in [Users -> [Orgs -> Role \cup {NoRole}]]
  /\ orgUser \in [Users -> [Orgs -> Role \cup {NoRole}]]
  /\ admins \subseteq Users
  /\ account \in [Emails -> {"none", "untold", "told"}]
  /\ addr \in [Requests -> Emails]
  /\ who \in [Requests -> Users \cup {NoUser}]
  /\ org \in [Requests -> Orgs \cup {NoOrg}]
  /\ todo \in [Requests -> SUBSET Orgs]
  /\ minted \subseteq Users \cup Orgs
  /\ torn \subseteq Emails
  /\ scarred \subseteq Emails
  /\ demoted \subseteq Users

Deleting(u) == \E q \in Requests : Running(q) /\ kind[q] = "delete" /\ who[q] = u

\* create_user's index keeps an address to one user, and leads to it, however
\* creations, logins, bootstrap runs and their rollbacks interleave, fail and
\* break off; only deletions that overlap or break can take that away.
OneUserPerAddress ==
  \A e \in Emails \ scarred, u \in users :
    mail[u] = e /\ ~Deleting(u) => index[e] = u

\* Both sides of every membership show the same role once no request is about
\* the user, as long as its requests neither overlapped nor broke
\* (add_membership, remove_membership).
Quiet(e) == e \notin torn /\ Meets(e) = {}

SidesAgree ==
  \A u \in minted \cap Users : Quiet(mail[u]) => userOrg[u] = orgUser[u]

\* delete_user's docstring: nothing is left behind that would block creating a
\* user with the same email, and no rows of the deleted user.
NothingLeftBehind ==
  \A e \in Emails : Quiet(e) /\ (\A u \in users : mail[u] # e) =>
    /\ index[e] = NoUser
    /\ e # SuperEmail => account[e] = "none"
    /\ \A u \in minted \cap Users : mail[u] = e =>
         u \notin admins /\ userOrg[u] = NoRows[u]

\* The last sysadmin stays: the platform is locked out only when revocations
\* meet or a sysadmin is deleted (update_sysadmin).
SysadminRemains ==
  [][users \cap admins # {} /\ ~risked' => (users \cap admins)' # {}]_vars

\* Bootstrap never makes a sysadmin of somebody that was demoted: a revocation
\* survives every re-run (ensure_superwoman_user).
RevocationSticks ==
  [][\A u \in demoted \ admins : u \in admins' =>
       \E q \in Requests : kind[q] = "grant" /\ at[q] = "grant" /\ who[q] = u]_vars

\* The org's list of its members shows who holds power over it: once no
\* request is about a user, and none of its requests overlapped or broke, the
\* policy, which asks the user's side of the membership, lets it read or touch
\* the org's broker keys, users and strategies only in a role the org's side
\* lists (memberships_for_org), or, keys apart, as a sysadmin.
RosterShowsPowers ==
  \A u \in users, o \in Orgs, a \in Action : Quiet(mail[u]) =>
    /\ Can(PrincipalOf(u), a, Resource("alpaca_secret", o)) =>
         orgUser[u][o] = "orgadmin"
    /\ Can(PrincipalOf(u), a, Resource("user", o)) =>
         orgUser[u][o] = "orgadmin" \/ u \in admins
    /\ Can(PrincipalOf(u), a, Authored("strategy", o, u, {})) =>
         \/ orgUser[u][o] \in {"operator", "orgadmin"}
         \/ a \in Reads /\ (orgUser[u][o] # NoRole \/ u \in admins)
==============================================================================
