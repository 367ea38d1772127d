----------------------------- MODULE TenancyProofs -----------------------------
(***************************************************************************)
(* An address has one user, powers rest on rows, a sysadmin remains and     *)
(* revocations stick, both sides of a membership agree and a deletion leaves *)
(* nothing behind, for any number of users, addresses, orgs and requests     *)
(* that interleave, fail and are cut off.                                   *)
(*                                                                         *)
(* The index row is put before the user's row and deleted before it, so the  *)
(* invariant follows the requests in between: one that is about to put a     *)
(* user's row, or to take back the index, holds the index row of its address *)
(* for an id nobody else works on; one that deletes a user holds the user's  *)
(* index row until it deletes that.  An address whose deletions overlapped   *)
(* or broke promises nothing.                                              *)
(*                                                                         *)
(* Unless it is risked, some sysadmin is not about to be ousted whenever      *)
(* somebody is; whom a bootstrap run sets up has an id that is new to it.     *)
(*                                                                         *)
(* Memberships and what a deletion leaves rest on a third invariant: between *)
(* the writes of two rows stands the one request that makes them, and an      *)
(* address no request is about has rows that all lead to each other.         *)
(***************************************************************************)
EXTENDS Tenancy, TLAPS

Claiming == {"user", "unindex"}
Leaving == {"leave", "leaveorg", "delindex"}
DeleteSteps == Leaving \cup {"deluser", "delcognito"}

Steps ==
  {"idle", "system", "super", "find", "cognito", "index", "userorg", "orguser",
   "unmember", "uncognito", "grant", "revoke"} \cup Claiming \cup DeleteSteps

Kinds == {"none", "create", "role", "delete", "grant", "revoke", "login", "boot", "reboot"}

\* As much of the types as the argument needs.
RequestShapes ==
  /\ at \in [Requests -> Steps] /\ kind \in [Requests -> Kinds]
  /\ addr \in [Requests -> Emails]
  /\ who \in [Requests -> Users \cup {NoUser}]

Shapes ==
  /\ RequestShapes
  /\ users \subseteq Users /\ users \subseteq minted
  /\ mail \in [Users -> Emails]
  /\ index \in [Emails -> Users \cup {NoUser}]

\* Deletions and only they walk through the steps of a deletion.
KindsFit ==
  \A q \in Requests : (Running(q) /\ kind[q] = "delete") <=> at[q] \in DeleteSteps

\* A request between the index and the user's row.
ClaimHolds(q) ==
  at[q] \in Claiming =>
    /\ who[q] \in Users /\ who[q] \in minted /\ who[q] \notin users
    /\ addr[q] \notin scarred => index[addr[q]] = who[q]

\* A deletion on its way.
DeletionHolds(q) ==
  at[q] \in DeleteSteps =>
    /\ who[q] \in Users /\ who[q] \in minted /\ mail[who[q]] = addr[q]
    /\ at[q] \in Leaving /\ addr[q] \notin scarred => index[addr[q]] = who[q]
    /\ at[q] = "delcognito" /\ addr[q] \notin scarred => who[q] \notin users

\* Two requests do not work on one new id, nor two deletions on one address that
\* is not scarred.
Apart(p, q) ==
  /\ at[p] \in Claiming \cup DeleteSteps /\ at[q] \in Claiming => who[p] # who[q]
  /\ at[p] \in DeleteSteps /\ at[q] \in DeleteSteps /\ addr[p] = addr[q] => addr[p] \in scarred

AddressInv ==
  /\ Shapes
  /\ KindsFit
  /\ \A q \in Requests : ClaimHolds(q) /\ DeletionHolds(q)
  /\ \A p, q \in Requests : p # q => Apart(p, q)
  /\ OneUserPerAddress

\* Whose deletion runs, in the terms of the invariant.
LEMMA WhoIsDeleted ==
  ASSUME KindsFit, NEW u
  PROVE  Deleting(u) <=> \E q \in Requests : at[q] \in DeleteSteps /\ who[q] = u
BY DEF KindsFit, Deleting

\* Tables are empty, or hold what a bootstrap run left behind.
LEMMA AddressStart == Init => AddressInv
<1> SUFFICES ASSUME Init PROVE AddressInv
  OBVIOUS
<1>1. /\ at = [q \in Requests |-> "idle"] /\ kind = [q \in Requests |-> "none"]
      /\ addr = [q \in Requests |-> SuperEmail] /\ who = [q \in Requests |-> NoUser]
      /\ mail = [u \in Users |-> SuperEmail]
      /\ SuperEmail \in Emails
  BY TenancyAssumption DEF Init, TenancyAssumption
<1>2. /\ users \subseteq Users /\ users \subseteq minted
      /\ index \in [Emails -> Users \cup {NoUser}]
      /\ \A u \in users : index[SuperEmail] = u
  BY <1>1 DEF Init, Empty, Bootstrapped
<1>3. Shapes
  BY <1>1, <1>2 DEF Shapes, RequestShapes, Steps, Kinds
<1>4. \A q \in Requests : at[q] = "idle"
  BY <1>1
<1>5. KindsFit /\ \A q \in Requests : ClaimHolds(q) /\ DeletionHolds(q)
  BY <1>4 DEF KindsFit, Running, ClaimHolds, DeletionHolds, Claiming, DeleteSteps, Leaving
<1>6. \A p, q \in Requests : p # q => Apart(p, q)
  BY <1>4 DEF Apart, Claiming, DeleteSteps, Leaving
<1>7. OneUserPerAddress
  BY <1>1, <1>2 DEF OneUserPerAddress
<1> QED BY <1>3, <1>5, <1>6, <1>7 DEF AddressInv

\* What most steps do to a request, their own or another: it goes no further on
\* the way of a claim or of a deletion than its address, once scarred, allows.
Calm(p) ==
  /\ at'[p] \in Claiming => at[p] \in Claiming
  /\ at'[p] \in DeleteSteps =>
       /\ at[p] \in DeleteSteps
       /\ \/ at'[p] = at[p]
          \/ at'[p] \in Leaving /\ at[p] \in Leaving
          \/ addr[p] \in scarred'
  /\ at[p] \in DeleteSteps => at'[p] \in DeleteSteps \/ addr[p] \in scarred'
  /\ at'[p] \in Claiming \cup DeleteSteps => who'[p] = who[p] /\ addr'[p] = addr[p]

\* Such a step keeps the invariant when it writes no row of the address.
LEMMA CalmKeeps ==
  ASSUME AddressInv, RequestShapes', KindsFit',
         users' = users, mail' = mail, index' = index,
         minted \subseteq minted', scarred \subseteq scarred',
         \A p \in Requests : Calm(p)
  PROVE  AddressInv'
<1>0. Shapes'
  BY DEF AddressInv, Shapes
<1>1. ASSUME NEW p \in Requests PROVE ClaimHolds(p)'
  BY <1>1 DEF AddressInv, ClaimHolds, Calm
<1>2. ASSUME NEW p \in Requests PROVE DeletionHolds(p)'
  BY <1>2 DEF AddressInv, DeletionHolds, Calm, DeleteSteps, Leaving
<1>3. ASSUME NEW p \in Requests, NEW q \in Requests, p # q PROVE Apart(p, q)'
  BY <1>3 DEF AddressInv, Apart, Calm
<1>4. OneUserPerAddress'
  <2> SUFFICES ASSUME NEW u \in users, mail[u] \notin scarred', mail[u] \in Emails,
                      \A p \in Requests : ~(at'[p] \in DeleteSteps /\ who'[p] = u)
               PROVE  index[mail[u]] = u
    BY WhoIsDeleted DEF OneUserPerAddress, Deleting, KindsFit
  <2>1. ASSUME NEW p \in Requests, at[p] \in DeleteSteps, who[p] = u PROVE FALSE
    <3>1. mail[u] = addr[p]
      BY <2>1 DEF AddressInv, DeletionHolds
    <3> QED BY <2>1, <3>1 DEF Calm
  <2> QED BY <2>1, WhoIsDeleted DEF AddressInv, OneUserPerAddress
<1> QED BY <1>0, <1>1, <1>2, <1>3, <1>4 DEF AddressInv

-----------------------------------------------------------------------------
(* How a request moves.                                                      *)

LEMMA ReturnMoves ==
  ASSUME RequestShapes, KindsFit, NEW q \in Requests, Return(q), SuperEmail \in Emails
  PROVE  /\ RequestShapes' /\ KindsFit'
         /\ \A p \in Requests : p # q =>
              at'[p] = at[p] /\ who'[p] = who[p] /\ addr'[p] = addr[p]
         /\ at'[q] = "idle"
BY DEF RequestShapes, KindsFit, Return, Running, Steps, Kinds, Claiming, DeleteSteps, Leaving

LEMMA GoMoves ==
  ASSUME RequestShapes, KindsFit, NEW q \in Requests, NEW next \in Steps,
         at' = [at EXCEPT ![q] = next], kind' = kind, addr' = addr, who' = who,
         at[q] # "idle", next # "idle",
         at[q] \in DeleteSteps <=> next \in DeleteSteps
  PROVE  /\ RequestShapes' /\ KindsFit'
         /\ \A p \in Requests : p # q => at'[p] = at[p]
         /\ at'[q] = next
BY DEF RequestShapes, KindsFit, Running

LEMMA BeginMoves ==
  ASSUME RequestShapes, KindsFit, NEW q \in Requests,
         NEW k \in Kinds, NEW step \in Steps, NEW e \in Emails,
         NEW u \in Users \cup {NoUser}, NEW o, NEW r,
         Begin(q, k, step, e, u, o, r),
         step # "idle", k = "delete" <=> step \in DeleteSteps
  PROVE  /\ RequestShapes' /\ KindsFit' /\ at[q] = "idle"
         /\ \A p \in Requests : p # q =>
              at'[p] = at[p] /\ who'[p] = who[p] /\ addr'[p] = addr[p]
         /\ at'[q] = step /\ who'[q] = u /\ addr'[q] = e
         /\ scarred \subseteq scarred'
         /\ k = "delete" /\ "delete" \in Meets(e) => e \in scarred'
BY DEF RequestShapes, KindsFit, Begin, Running

\* A request ends that is no deletion, or one of a scarred address.
LEMMA ReturnIsCalm ==
  ASSUME RequestShapes, KindsFit, NEW q \in Requests, Return(q), SuperEmail \in Emails,
         at[q] \in DeleteSteps => addr[q] \in scarred'
  PROVE  \A p \in Requests : Calm(p)
BY ReturnMoves DEF Calm, Claiming, DeleteSteps, Leaving

\* A request goes on, but to no claim, and to no late step of a deletion unless
\* its address is scarred.
LEMMA GoIsCalm ==
  ASSUME RequestShapes, KindsFit, NEW q \in Requests, NEW next \in Steps,
         at' = [at EXCEPT ![q] = next], kind' = kind, addr' = addr, who' = who,
         at[q] # "idle", next # "idle",
         at[q] \in DeleteSteps <=> next \in DeleteSteps,
         next \in Claiming => at[q] \in Claiming,
         next \in DeleteSteps => addr[q] \in scarred' \/ (next \in Leaving /\ at[q] \in Leaving)
  PROVE  \A p \in Requests : Calm(p)
BY GoMoves DEF Calm

\* A request begins that claims and deletes nothing yet.
LEMMA BeginIsCalm ==
  ASSUME RequestShapes, KindsFit, NEW q \in Requests,
         NEW k \in Kinds, NEW step \in Steps, NEW e \in Emails,
         NEW u \in Users \cup {NoUser}, NEW o, NEW r,
         Begin(q, k, step, e, u, o, r),
         step # "idle", k # "delete", step \notin Claiming \cup DeleteSteps
  PROVE  \A p \in Requests : Calm(p)
<1>1. /\ at[q] = "idle" /\ at'[q] = step
      /\ \A p \in Requests : p # q => at'[p] = at[p] /\ who'[p] = who[p] /\ addr'[p] = addr[p]
  BY BeginMoves
<1> QED BY <1>1 DEF Calm, Claiming, DeleteSteps, Leaving

-----------------------------------------------------------------------------
(* How a request begins.                                                     *)

LEMMA CalmBegins ==
  ASSUME AddressInv, NEW q \in Requests,
         CreateUser(q) \/ UpdateUserRole(q) \/ GrantSysadmin(q)
           \/ RevokeSysadmin(q) \/ Login(q) \/ Bootstrap(q)
  PROVE  AddressInv'
<1>1. PICK k \in Kinds \ {"delete"}, step \in Steps \ (Claiming \cup DeleteSteps \cup {"idle"}),
           e \in Emails, u \in Users \cup {NoUser} :
        \E o, r : Begin(q, k, step, e, u, o, r)
  <2>1. CASE CreateUser(q)
    BY <2>1 DEF CreateUser, Kinds, Steps, Claiming, DeleteSteps, Leaving
  <2>2. CASE UpdateUserRole(q)
    BY <2>2 DEF UpdateUserRole, AddressInv, Shapes, Kinds, Steps, Claiming, DeleteSteps, Leaving
  <2>3. CASE GrantSysadmin(q)
    BY <2>3 DEF GrantSysadmin, AddressInv, Shapes, Kinds, Steps, Claiming, DeleteSteps, Leaving
  <2>4. CASE RevokeSysadmin(q)
    BY <2>4 DEF RevokeSysadmin, AddressInv, Shapes, Kinds, Steps, Claiming, DeleteSteps, Leaving
  <2>5. CASE Login(q)
    BY <2>5 DEF Login, Kinds, Steps, Claiming, DeleteSteps, Leaving
  <2>6. CASE Bootstrap(q)
    BY <2>6, TenancyAssumption
    DEF Bootstrap, TenancyAssumption, Kinds, Steps, Claiming, DeleteSteps, Leaving
  <2> QED BY <2>1, <2>2, <2>3, <2>4, <2>5, <2>6
<1>2. PICK o, r : Begin(q, k, step, e, u, o, r)
  BY <1>1
<1>3. RequestShapes /\ KindsFit
  BY DEF AddressInv, Shapes
<1>4. RequestShapes' /\ KindsFit' /\ scarred \subseteq scarred'
  BY <1>2, <1>3, BeginMoves DEF DeleteSteps, Leaving, Claiming
<1>5. \A p \in Requests : Calm(p)
  BY <1>2, <1>3, BeginIsCalm
<1>6. users' = users /\ mail' = mail /\ index' = index /\ minted' = minted
  BY DEF CreateUser, UpdateUserRole, GrantSysadmin, RevokeSysadmin, Login, Bootstrap, rowVars
<1> QED BY <1>4, <1>5, <1>6, CalmKeeps

\* A deletion begins: the user's index row is its own, unless another deletion is
\* about the same address.
LEMMA DeleteBegins ==
  ASSUME AddressInv, NEW q \in Requests, DeleteUser(q)
  PROVE  AddressInv'
<1>1. PICK u \in users : Begin(q, "delete", "leave", mail[u], u, NoOrg, NoRole)
  BY DEF DeleteUser
<1>2. /\ users' = users /\ mail' = mail /\ index' = index /\ minted' = minted
      /\ u \in Users /\ u \in minted /\ mail[u] \in Emails
      /\ RequestShapes /\ KindsFit
  BY DEF DeleteUser, rowVars, AddressInv, Shapes
<1>3. /\ RequestShapes' /\ KindsFit' /\ at[q] = "idle"
      /\ \A p \in Requests : p # q =>
           at'[p] = at[p] /\ who'[p] = who[p] /\ addr'[p] = addr[p]
      /\ at'[q] = "leave" /\ who'[q] = u /\ addr'[q] = mail[u]
      /\ scarred \subseteq scarred'
      /\ "delete" \in Meets(mail[u]) => mail[u] \in scarred'
  <2>1. /\ "delete" \in Kinds /\ "leave" \in Steps /\ "leave" \in DeleteSteps
        /\ u \in Users \cup {NoUser}
    BY <1>2 DEF Kinds, Steps, DeleteSteps, Leaving
  <2> HIDE DEF Kinds, Steps, DeleteSteps
  <2> QED BY <1>1, <1>2, <2>1, BeginMoves
<1>4. ASSUME NEW p \in Requests, at[p] \in DeleteSteps, addr[p] = mail[u]
      PROVE  mail[u] \in scarred'
  <2>1. Running(p) /\ kind[p] = "delete"
    BY <1>2, <1>4 DEF KindsFit
  <2> QED BY <1>3, <1>4, <2>1 DEF Meets
<1>5. mail[u] \notin scarred' => index[mail[u]] = u
  <2>1. ASSUME NEW p \in Requests, at[p] \in DeleteSteps, who[p] = u PROVE mail[u] \in scarred'
    <3>1. addr[p] = mail[u]
      BY <2>1 DEF AddressInv, DeletionHolds
    <3> QED BY <1>4, <2>1, <3>1
  <2> QED BY <1>2, <1>3, <2>1, WhoIsDeleted DEF AddressInv, OneUserPerAddress
<1>6. Shapes'
  BY <1>2, <1>3 DEF AddressInv, Shapes
<1>7. ASSUME NEW p \in Requests PROVE ClaimHolds(p)'
  BY <1>2, <1>3, <1>7 DEF AddressInv, ClaimHolds, Claiming
<1>8. ASSUME NEW p \in Requests PROVE DeletionHolds(p)'
  BY <1>2, <1>3, <1>5, <1>8 DEF AddressInv, DeletionHolds, DeleteSteps, Leaving
<1>9. ASSUME NEW p \in Requests, NEW r \in Requests, p # r PROVE Apart(p, r)'
  BY <1>2, <1>3, <1>4, <1>9 DEF AddressInv, Apart, ClaimHolds, Claiming
<1>10. OneUserPerAddress'
  <2> SUFFICES ASSUME NEW v \in users, mail[v] \in Emails \ scarred',
                      \A p \in Requests : ~(at'[p] \in DeleteSteps /\ who'[p] = v)
               PROVE  index[mail[v]] = v
    BY <1>2, <1>3 DEF OneUserPerAddress, Deleting, KindsFit
  <2>1. \A p \in Requests : ~(at[p] \in DeleteSteps /\ who[p] = v)
    BY <1>3 DEF DeleteSteps, Leaving
  <2> QED BY <1>3, <2>1, WhoIsDeleted DEF AddressInv, OneUserPerAddress
<1> QED BY <1>3, <1>6, <1>7, <1>8, <1>9, <1>10 DEF AddressInv

-----------------------------------------------------------------------------
(* How a request goes on.                                                    *)

\* Steps that write no row of the address, and end the request or go on calmly.
LEMMA CalmWalks ==
  ASSUME AddressInv, NEW q \in Requests, at[q] # "idle",
         users' = users, mail' = mail, index' = index,
         minted \subseteq minted', scarred \subseteq scarred',
         \/ Return(q) /\ (at[q] \in DeleteSteps => addr[q] \in scarred')
         \/ \E next \in Steps \ {"idle"} :
              /\ at' = [at EXCEPT ![q] = next]
              /\ kind' = kind /\ addr' = addr /\ who' = who
              /\ at[q] \in DeleteSteps <=> next \in DeleteSteps
              /\ next \in Claiming => at[q] \in Claiming
              /\ next \in DeleteSteps =>
                   addr[q] \in scarred' \/ (next \in Leaving /\ at[q] \in Leaving)
  PROVE  AddressInv'
<1>1. RequestShapes /\ KindsFit /\ SuperEmail \in Emails
  BY TenancyAssumption DEF AddressInv, Shapes, TenancyAssumption
<1>2. RequestShapes' /\ KindsFit'
  <2> HIDE DEF Return, Steps
  <2> QED BY <1>1, ReturnMoves, GoMoves
<1>3. \A p \in Requests : Calm(p)
  <2> HIDE DEF Return, Steps
  <2> QED BY <1>1, ReturnIsCalm, GoIsCalm
<1> QED BY <1>2, <1>3, CalmKeeps

\* The reads, the accounts, the memberships and the administrators.
LEMMA CalmSteps ==
  ASSUME AddressInv, NEW q \in Requests,
         \/ EnsureSystemOrg(q) \/ FindLogin(q) \/ CreateAccount(q) \/ PutUserOrg(q)
         \/ PutOrgUser(q) \/ DropUserOrg(q) \/ DropAccount(q) \/ PutAdmin(q)
         \/ DropAdmin(q) \/ DeleteUserOrg(q) \/ DeleteOrgUser(q)
  PROVE  AddressInv'
<1> USE DEF Steps, Claiming, DeleteSteps, Leaving, histVars, rowVars, Go, GoOrReturn
<1>1. CASE EnsureSystemOrg(q)
  <2>1. minted \subseteq minted'
    BY <1>1 DEF EnsureSystemOrg
  <2>2. /\ at[q] = "system" /\ at' = [at EXCEPT ![q] = "super"]
        /\ kind' = kind /\ addr' = addr /\ who' = who
        /\ users' = users /\ mail' = mail /\ index' = index /\ scarred' = scarred
    BY <1>1 DEF EnsureSystemOrg
  <2>3. /\ "super" \in Steps \ {"idle"} /\ "super" \notin Claiming \cup DeleteSteps
        /\ at[q] # "idle" /\ at[q] \notin DeleteSteps
    BY <2>1, <2>2
  <2> HIDE DEF Steps, Claiming, DeleteSteps, Leaving
  <2> QED BY <2>1, <2>2, <2>3, CalmWalks
<1>2. CASE FindLogin(q)
  BY <1>2, CalmWalks DEF FindLogin
<1>3. CASE CreateAccount(q)
  BY <1>3, CalmWalks DEF CreateAccount
<1>4. CASE PutUserOrg(q)
  <2>1. /\ at[q] = "userorg" /\ Go(q, "orguser")
        /\ users' = users /\ mail' = mail /\ index' = index
        /\ minted' = minted /\ scarred' = scarred
    BY <1>4 DEF PutUserOrg
  <2>2. /\ "orguser" \in Steps \ {"idle"} /\ "orguser" \notin Claiming \cup DeleteSteps
        /\ at[q] # "idle" /\ at[q] \notin DeleteSteps
    BY <2>1
  <2> HIDE DEF Steps, Claiming, DeleteSteps, Leaving
  <2> QED BY <2>1, <2>2, CalmWalks
<1>5. CASE PutOrgUser(q)
  <2>1. AfterBoot(kind[q]) \in {"grant", "idle"}
    BY DEF AfterBoot
  <2>2. at[q] = "orguser" /\ users' = users /\ mail' = mail /\ index' = index
        /\ minted' = minted /\ scarred' = scarred /\ GoOrReturn(q, AfterBoot(kind[q]))
    BY <1>5 DEF PutOrgUser
  <2>3. Return(q) \/ Go(q, "grant")
    BY <2>1, <2>2
  <2> QED BY <2>2, <2>3, CalmWalks
<1>6. CASE DropUserOrg(q)
  <2>1. Undo(q) \in {"uncognito", "idle"}
    BY DEF Undo
  <2>2. Return(q) \/ Go(q, "uncognito")
    BY <1>6, <2>1 DEF DropUserOrg
  <2> QED BY <1>6, <2>2, CalmWalks DEF DropUserOrg
<1>7. CASE DropAccount(q)
  BY <1>7, CalmWalks DEF DropAccount
<1>8. CASE PutAdmin(q)
  BY <1>8, CalmWalks DEF PutAdmin
<1>9. CASE DropAdmin(q)
  BY <1>9, CalmWalks DEF DropAdmin
<1>10. CASE DeleteUserOrg(q)
  BY <1>10, CalmWalks DEF DeleteUserOrg
<1>11. CASE DeleteOrgUser(q)
  BY <1>11, CalmWalks DEF DeleteOrgUser
<1> QED BY <1>1, <1>2, <1>3, <1>4, <1>5, <1>6, <1>7, <1>8, <1>9, <1>10, <1>11

\* Looking for superwoman, which may name the request anew.
LEMMA FindSuperKeeps ==
  ASSUME AddressInv, NEW q \in Requests, FindSuper(q)
  PROVE  AddressInv'
<1>1. /\ at[q] = "super" /\ RequestShapes /\ KindsFit /\ SuperEmail \in Emails
      /\ users' = users /\ mail' = mail /\ index' = index
      /\ minted' = minted /\ scarred' = scarred
  BY TenancyAssumption DEF FindSuper, rowVars, histVars, AddressInv, Shapes, TenancyAssumption
<1>2. CASE Return(q)
  BY <1>1, <1>2, CalmWalks DEF Steps, Claiming, DeleteSteps, Leaving
<1>3. ASSUME NEW next \in {"index", "userorg", "grant"},
             NEW k \in {"boot", "reboot"}, NEW u \in Users \cup {NoUser},
             at' = [at EXCEPT ![q] = next], kind' = [kind EXCEPT ![q] = k],
             who' = [who EXCEPT ![q] = u], addr' = addr
      PROVE  AddressInv'
  <2>1. RequestShapes'
    BY <1>1, <1>3 DEF RequestShapes, Steps, Kinds
  <2>2. KindsFit'
    BY <1>1, <1>3 DEF RequestShapes, KindsFit, Running, DeleteSteps, Leaving
  <2>3. \A p \in Requests : Calm(p)
    BY <1>1, <1>3 DEF RequestShapes, Calm, Claiming, DeleteSteps, Leaving
  <2> QED BY <1>1, <2>1, <2>2, <2>3, CalmKeeps
<1>4. \/ Return(q)
      \/ \E next \in {"index", "userorg", "grant"}, k \in {"boot", "reboot"},
           u \in Users \cup {NoUser} :
           /\ at' = [at EXCEPT ![q] = next] /\ kind' = [kind EXCEPT ![q] = k]
           /\ who' = [who EXCEPT ![q] = u] /\ addr' = addr
  <2>1. FindByEmail(SuperEmail) \in Users \cup {NoUser}
    BY <1>1 DEF FindByEmail, AddressInv, Shapes
  <2>2. \A k : AfterBoot(k) \in {"grant", "idle"}
    BY DEF AfterBoot
  <2> HIDE DEF Return
  <2> QED BY <2>1, <2>2 DEF FindSuper, Found
<1> QED BY <1>2, <1>3, <1>4

\* A call that raises sends a deletion on, but scars its address; a claim whose
\* user's row was not put stays a claim.
LEMMA BreakKeeps ==
  ASSUME AddressInv, NEW q \in Requests, Break(q)
  PROVE  AddressInv'
<1>1. /\ at[q] # "idle" /\ at[q] \in Steps
      /\ users' = users /\ mail' = mail /\ index' = index /\ minted' = minted
      /\ scarred \subseteq scarred' /\ Running(q)
      /\ kind[q] = "delete" => addr[q] \in scarred'
  BY DEF Break, Running, rowVars, AddressInv, Shapes, RequestShapes
<1>2. at[q] \in DeleteSteps => addr[q] \in scarred'
  BY <1>1 DEF AddressInv, KindsFit
<1>3. CASE Return(q)
  BY <1>1, <1>2, <1>3, CalmWalks
<1>4. CASE Go(q, AfterError(q)) /\ AfterError(q) # "idle"
  <2> DEFINE next == AfterError(q)
  <2>1. /\ next \in Steps
        /\ next \in Claiming => at[q] \in Claiming
        /\ at[q] \in DeleteSteps <=> next \in DeleteSteps
    <3>1. Undo(q) \in {"uncognito", "idle"}
      BY DEF Undo
    <3> QED BY <1>1, <1>4, <3>1 DEF AfterError, Steps, Claiming, DeleteSteps, Leaving
  <2> HIDE DEF next
  <2>2. /\ at' = [at EXCEPT ![q] = next] /\ next # "idle"
        /\ kind' = kind /\ addr' = addr /\ who' = who
    BY <1>4 DEF Go, next
  <2> QED BY <1>1, <1>2, <2>1, <2>2, CalmWalks
<1> QED BY <1>3, <1>4 DEF Break, GoOrReturn

-----------------------------------------------------------------------------
(* The steps that write the index and the user's row.                        *)

\* The condition of the put lets one claim through.
LEMMA PutIndexKeeps ==
  ASSUME AddressInv, NEW q \in Requests, PutIndex(q)
  PROVE  AddressInv'
<1>1. /\ at[q] = "index" /\ users' = users /\ mail' = mail /\ scarred' = scarred
      /\ RequestShapes /\ KindsFit /\ addr[q] \in Emails
  BY DEF PutIndex, AddressInv, Shapes, RequestShapes
<1>2. CASE ~Free(addr[q])
  <2>1. Undo(q) \in {"uncognito", "idle"}
    BY DEF Undo
  <2>2. Return(q) \/ Go(q, "uncognito")
    BY <1>2, <2>1 DEF PutIndex, GoOrReturn
  <2>3. index' = index /\ minted' = minted
    BY <1>2 DEF PutIndex
  <2> QED BY <1>1, <2>2, <2>3, CalmWalks DEF Go, Steps, Claiming, DeleteSteps, Leaving
<1>3. CASE Free(addr[q])
  <2>1. PICK u \in Users \ minted :
          index' = [index EXCEPT ![addr[q]] = u] /\ who' = [who EXCEPT ![q] = u]
          /\ minted' = minted \cup {u}
    BY <1>3 DEF PutIndex
  <2>2. /\ at' = [at EXCEPT ![q] = "user"] /\ kind' = kind /\ addr' = addr
        /\ index[addr[q]] = NoUser
    BY <1>3 DEF PutIndex, Free
  <2>3. RequestShapes'
    BY <1>1, <2>1, <2>2 DEF RequestShapes, Steps, Claiming
  <2>4. Shapes'
    BY <1>1, <2>1, <2>3 DEF AddressInv, Shapes
  <2>5. KindsFit'
    BY <1>1, <2>2 DEF RequestShapes, KindsFit, Running, DeleteSteps, Leaving
  <2>6. NoUser \notin Users
    BY TenancyAssumption DEF TenancyAssumption
  <2>7. ASSUME NEW p \in Requests PROVE ClaimHolds(p)'
    BY <1>1, <2>1, <2>2, <2>6, <2>7 DEF AddressInv, Shapes, RequestShapes, ClaimHolds, Claiming
  <2>8. ASSUME NEW p \in Requests PROVE DeletionHolds(p)'
    BY <1>1, <2>1, <2>2, <2>6, <2>8
    DEF AddressInv, Shapes, RequestShapes, DeletionHolds, DeleteSteps, Leaving
  <2>9. ASSUME NEW p \in Requests, NEW r \in Requests, p # r PROVE Apart(p, r)'
    BY <1>1, <2>1, <2>2, <2>9
    DEF AddressInv, RequestShapes, Apart, ClaimHolds, DeletionHolds, Claiming, DeleteSteps, Leaving
  <2>10. OneUserPerAddress'
    <3> SUFFICES ASSUME NEW v \in users, mail[v] \in Emails \ scarred,
                        \A p \in Requests : ~(at'[p] \in DeleteSteps /\ who'[p] = v)
                 PROVE  index'[mail[v]] = v
      BY <1>1, <2>5 DEF OneUserPerAddress, Deleting, KindsFit
    <3>1. \A p \in Requests : ~(at[p] \in DeleteSteps /\ who[p] = v)
      BY <1>1, <2>1, <2>2 DEF RequestShapes, DeleteSteps, Leaving
    <3>2. index[mail[v]] = v
      BY <1>1, <3>1, WhoIsDeleted DEF AddressInv, OneUserPerAddress
    <3> QED BY <2>1, <2>2, <2>6, <3>2 DEF AddressInv, Shapes
  <2> QED BY <2>4, <2>5, <2>7, <2>8, <2>9, <2>10 DEF AddressInv
<1> QED BY <1>2, <1>3

\* The user's row follows its index row.
LEMMA PutUserKeeps ==
  ASSUME AddressInv, NEW q \in Requests, PutUser(q)
  PROVE  AddressInv'
<1>1. /\ at[q] = "user" /\ users' = users \cup {who[q]}
      /\ mail' = [mail EXCEPT ![who[q]] = addr[q]]
      /\ index' = index /\ minted' = minted /\ scarred' = scarred
      /\ Return(q) \/ Go(q, "userorg")
      /\ RequestShapes /\ KindsFit /\ addr[q] \in Emails /\ SuperEmail \in Emails
  BY TenancyAssumption
  DEF PutUser, GoOrReturn, histVars, AddressInv, Shapes, RequestShapes, TenancyAssumption
<1>2. /\ who[q] \in Users /\ who[q] \in minted /\ who[q] \notin users
      /\ addr[q] \notin scarred => index[addr[q]] = who[q]
  BY <1>1 DEF AddressInv, ClaimHolds, Claiming
<1>3. /\ RequestShapes' /\ KindsFit' /\ at'[q] \in {"idle", "userorg"}
      /\ \A p \in Requests : p # q =>
           at'[p] = at[p] /\ who'[p] = who[p] /\ addr'[p] = addr[p]
  <2>1. CASE Return(q)
    BY <1>1, <2>1, ReturnMoves
  <2>2. CASE Go(q, "userorg")
    BY <1>1, <2>2, GoMoves DEF Go, Steps, Claiming, DeleteSteps, Leaving
  <2> QED BY <1>1, <2>1, <2>2
<1>4. Shapes'
  BY <1>1, <1>2, <1>3 DEF AddressInv, Shapes
<1>5. ASSUME NEW p \in Requests PROVE ClaimHolds(p)'
  BY <1>1, <1>2, <1>3, <1>5 DEF AddressInv, ClaimHolds, Apart, Claiming
<1>6. ASSUME NEW p \in Requests PROVE DeletionHolds(p)'
  <2>1. CASE p = q
    BY <1>3, <2>1 DEF DeletionHolds, DeleteSteps, Leaving
  <2>2. CASE p # q /\ at[p] \in DeleteSteps
    <3>1. who[p] # who[q]
      BY <1>1, <1>6, <2>2 DEF AddressInv, Apart, Claiming
    <3> QED BY <1>1, <1>2, <1>3, <1>6, <2>2, <3>1 DEF AddressInv, Shapes, DeletionHolds
  <2> QED BY <1>3, <1>6, <2>1, <2>2 DEF DeletionHolds
<1>7. ASSUME NEW p \in Requests, NEW r \in Requests, p # r PROVE Apart(p, r)'
  BY <1>1, <1>3, <1>7 DEF AddressInv, Apart, Claiming, DeleteSteps, Leaving
<1>8. OneUserPerAddress'
  <2> SUFFICES ASSUME NEW v \in users', mail'[v] \in Emails \ scarred,
                      \A p \in Requests : ~(at'[p] \in DeleteSteps /\ who'[p] = v)
               PROVE  index[mail'[v]] = v
    BY <1>1, <1>3 DEF OneUserPerAddress, Deleting, KindsFit
  <2>1. CASE v = who[q]
    BY <1>1, <1>2, <2>1 DEF AddressInv, Shapes
  <2>2. CASE v # who[q]
    <3>1. \A p \in Requests : ~(at[p] \in DeleteSteps /\ who[p] = v)
      BY <1>1, <1>3 DEF DeleteSteps, Leaving
    <3>2. v \in users /\ mail'[v] = mail[v]
      BY <1>1, <2>2 DEF AddressInv, Shapes
    <3> QED BY <3>1, <3>2, WhoIsDeleted DEF AddressInv, OneUserPerAddress
  <2> QED BY <2>1, <2>2
<1> QED BY <1>3, <1>4, <1>5, <1>6, <1>7, <1>8 DEF AddressInv

\* Only the request that holds an index row takes it away: a rollback for an id
\* without a row, or the deletion of the user it leads to.
LEMMA IndexDropKeeps ==
  ASSUME AddressInv, NEW q \in Requests, DropIndex(q) \/ DeleteIndex(q)
  PROVE  AddressInv'
<1>1. /\ users' = users /\ mail' = mail /\ minted' = minted /\ scarred' = scarred
      /\ index' = [index EXCEPT ![addr[q]] = NoUser]
      /\ at[q] \in {"unindex", "delindex"}
      /\ RequestShapes /\ KindsFit /\ addr[q] \in Emails /\ SuperEmail \in Emails
  BY TenancyAssumption
  DEF DropIndex, DeleteIndex, histVars, AddressInv, Shapes, RequestShapes, TenancyAssumption
<1>2. \/ at[q] = "unindex" /\ (Return(q) \/ Go(q, "uncognito"))
      \/ at[q] = "delindex" /\ Go(q, "deluser")
  <2>1. Undo(q) \in {"uncognito", "idle"}
    BY DEF Undo
  <2> QED BY <2>1 DEF DropIndex, DeleteIndex, GoOrReturn
<1>3. /\ RequestShapes' /\ KindsFit'
      /\ \A p \in Requests : p # q =>
           at'[p] = at[p] /\ who'[p] = who[p] /\ addr'[p] = addr[p]
      /\ at'[q] \notin Claiming \cup Leaving
      /\ at'[q] \in DeleteSteps => at'[q] = "deluser" /\ who' = who /\ addr' = addr
      /\ at[q] = "delindex" => at'[q] = "deluser"
  <2>1. CASE Return(q) /\ at[q] = "unindex"
    BY <1>1, <2>1, ReturnMoves DEF Claiming, DeleteSteps, Leaving
  <2>2. CASE Go(q, "uncognito") /\ at[q] = "unindex"
    BY <1>1, <2>2, GoMoves DEF Go, Steps, Claiming, DeleteSteps, Leaving
  <2>3. CASE Go(q, "deluser") /\ at[q] = "delindex"
    <3>1. /\ "deluser" \in Steps /\ "deluser" # "idle" /\ at[q] # "idle"
          /\ at[q] \in DeleteSteps /\ "deluser" \in DeleteSteps
          /\ "deluser" \notin Claiming \cup Leaving
      BY <2>3 DEF Steps, Claiming, DeleteSteps, Leaving
    <3>2. /\ at' = [at EXCEPT ![q] = "deluser"]
          /\ kind' = kind /\ addr' = addr /\ who' = who
      BY <2>3 DEF Go
    <3> HIDE DEF Steps, Claiming, DeleteSteps, Leaving
    <3> QED BY <1>1, <3>1, <3>2, GoMoves
  <2> QED BY <1>2, <2>1, <2>2, <2>3
<1>4. addr[q] \notin scarred => index[addr[q]] = who[q]
  BY <1>1 DEF AddressInv, ClaimHolds, DeletionHolds, Claiming, DeleteSteps, Leaving
<1>5. Shapes'
  BY <1>1, <1>3 DEF AddressInv, Shapes
\* No other request holds the row.
<1>6. ASSUME NEW p \in Requests, p # q, at[p] \in Claiming \cup Leaving, addr[p] \notin scarred
      PROVE  addr[p] # addr[q]
  <2>1. index[addr[p]] = who[p]
    BY <1>6 DEF AddressInv, ClaimHolds, DeletionHolds, DeleteSteps
  <2>2. CASE at[p] \in Leaving /\ at[q] = "delindex"
    BY <1>6, <2>2 DEF AddressInv, Apart, DeleteSteps, Leaving
  <2>3. CASE at[p] \in Claiming \/ at[q] = "unindex"
    <3>1. who[p] # who[q]
      BY <1>1, <1>6, <2>3 DEF AddressInv, Apart, Claiming, DeleteSteps, Leaving
    <3> QED BY <1>4, <1>6, <2>1, <3>1
  <2> QED BY <1>1, <1>6, <2>2, <2>3
<1>7. ASSUME NEW p \in Requests PROVE ClaimHolds(p)'
  BY <1>1, <1>3, <1>6, <1>7 DEF AddressInv, Shapes, RequestShapes, ClaimHolds
<1>8. ASSUME NEW p \in Requests PROVE DeletionHolds(p)'
  <2>1. CASE p = q /\ at'[q] = "deluser"
    <3>1. at[q] \in DeleteSteps
      BY <1>1, <1>2, <1>3, <2>1 DEF Return, Go, RequestShapes, DeleteSteps, Leaving
    <3> QED BY <1>1, <1>3, <2>1, <3>1 DEF AddressInv, DeletionHolds, DeleteSteps, Leaving
  <2>2. CASE p # q
    BY <1>1, <1>3, <1>6, <1>8, <2>2 DEF AddressInv, Shapes, RequestShapes, DeletionHolds
  <2> QED BY <1>3, <2>1, <2>2 DEF DeletionHolds
<1>9. ASSUME NEW p \in Requests, NEW r \in Requests, p # r PROVE Apart(p, r)'
  <2>1. at'[q] \in DeleteSteps => at[q] \in DeleteSteps
    BY <1>1, <1>2, <1>3 DEF Return, Go, RequestShapes, DeleteSteps, Leaving
  <2> QED BY <1>1, <1>3, <1>9, <2>1 DEF AddressInv, Apart
<1>10. OneUserPerAddress'
  <2> SUFFICES ASSUME NEW v \in users, mail[v] \in Emails \ scarred,
                      \A p \in Requests : ~(at'[p] \in DeleteSteps /\ who'[p] = v)
               PROVE  index'[mail[v]] = v
    BY <1>1, <1>3 DEF OneUserPerAddress, Deleting, KindsFit
  <2>1. \A p \in Requests : ~(at[p] \in DeleteSteps /\ who[p] = v)
    BY <1>1, <1>3 DEF DeleteSteps, Leaving
  <2>2. index[mail[v]] = v
    BY <2>1, WhoIsDeleted DEF AddressInv, OneUserPerAddress
  <2>3. mail[v] # addr[q]
    <3>1. CASE at[q] = "unindex"
      BY <1>4, <2>2, <3>1 DEF AddressInv, ClaimHolds, Claiming
    <3>2. CASE at[q] = "delindex"
      BY <1>4, <2>1, <2>2, <3>2 DEF DeleteSteps, Leaving
    <3> QED BY <1>1, <3>1, <3>2
  <2> QED BY <1>1, <2>2, <2>3 DEF AddressInv, Shapes
<1> QED BY <1>3, <1>5, <1>7, <1>8, <1>9, <1>10 DEF AddressInv

\* The deletion takes the user's row, and is over for the rows.
LEMMA UserDropKeeps ==
  ASSUME AddressInv, NEW q \in Requests, DeleteUserRow(q) \/ DeleteAccount(q)
  PROVE  AddressInv'
<1>1. /\ mail' = mail /\ index' = index /\ minted' = minted /\ scarred' = scarred
      /\ users' \subseteq users
      /\ RequestShapes /\ KindsFit /\ addr[q] \in Emails /\ SuperEmail \in Emails
      /\ at[q] \in {"deluser", "delcognito"}
  BY TenancyAssumption
  DEF DeleteUserRow, DeleteAccount, histVars, AddressInv, Shapes, RequestShapes, TenancyAssumption
<1>2. /\ RequestShapes' /\ KindsFit'
      /\ \A p \in Requests : p # q =>
           at'[p] = at[p] /\ who'[p] = who[p] /\ addr'[p] = addr[p]
      /\ \/ at'[q] = "idle"
         \/ at'[q] = "delcognito" /\ who' = who /\ addr' = addr /\ who[q] \notin users'
  <2>1. CASE DeleteUserRow(q)
    BY <1>1, <2>1, GoMoves DEF DeleteUserRow, Go, Steps, Claiming, DeleteSteps, Leaving
  <2>2. CASE DeleteAccount(q)
    BY <1>1, <2>2, ReturnMoves DEF DeleteAccount
  <2> QED BY <2>1, <2>2
<1>3. /\ mail[who[q]] = addr[q]
      /\ at'[q] = "idle" /\ addr[q] \notin scarred => who[q] \notin users
  <2>1. at'[q] = "idle" => at[q] = "delcognito"
    BY <1>1 DEF DeleteUserRow, Go, DeleteAccount, RequestShapes
  <2> QED BY <1>1, <2>1 DEF AddressInv, DeletionHolds, DeleteSteps, Leaving
<1>4. Shapes'
  BY <1>1, <1>2 DEF AddressInv, Shapes
<1>5. ASSUME NEW p \in Requests PROVE ClaimHolds(p)'
  BY <1>1, <1>2, <1>5 DEF AddressInv, ClaimHolds, Claiming
<1>6. ASSUME NEW p \in Requests PROVE DeletionHolds(p)'
  BY <1>1, <1>2, <1>6 DEF AddressInv, DeletionHolds, DeleteSteps, Leaving
<1>7. ASSUME NEW p \in Requests, NEW r \in Requests, p # r PROVE Apart(p, r)'
  BY <1>1, <1>2, <1>7 DEF AddressInv, Apart, Claiming, DeleteSteps, Leaving
<1>8. OneUserPerAddress'
  <2> SUFFICES ASSUME NEW v \in users', mail[v] \in Emails \ scarred,
                      \A p \in Requests : ~(at'[p] \in DeleteSteps /\ who'[p] = v)
               PROVE  index[mail[v]] = v
    BY <1>1, <1>2 DEF OneUserPerAddress, Deleting, KindsFit
  <2>1. v \in users /\ v # who[q]
    BY <1>1, <1>2, <1>3
  <2>2. \A p \in Requests : ~(at[p] \in DeleteSteps /\ who[p] = v)
    BY <1>2, <2>1
  <2> QED BY <2>1, <2>2, WhoIsDeleted DEF AddressInv, OneUserPerAddress
<1> QED BY <1>2, <1>4, <1>5, <1>6, <1>7, <1>8 DEF AddressInv

-----------------------------------------------------------------------------
(* Every step.                                                               *)

\* Founding and deleting orgs, telling a password, and a step that changes nothing.
LEMMA OtherKeeps ==
  ASSUME AddressInv, CreateOrg \/ DeleteOrg \/ TellPassword \/ UNCHANGED vars
  PROVE  AddressInv'
<1>1. /\ at' = at /\ kind' = kind /\ addr' = addr /\ who' = who
      /\ users' = users /\ mail' = mail /\ index' = index
      /\ scarred' = scarred
  BY DEF CreateOrg, DeleteOrg, TellPassword, vars, rowVars, reqVars, histVars
<1>2. minted \subseteq minted'
  BY DEF CreateOrg, DeleteOrg, TellPassword, vars, histVars
<1>3. RequestShapes' /\ KindsFit' /\ \A p \in Requests : Calm(p)
  BY <1>1 DEF AddressInv, Shapes, RequestShapes, KindsFit, Running, Calm
<1> QED BY <1>1, <1>2, <1>3, CalmKeeps

LEMMA AddressStep == AddressInv /\ [Next]_vars => AddressInv'
<1> SUFFICES ASSUME AddressInv, [Next]_vars PROVE AddressInv'
  OBVIOUS
<1>1. CASE \E q \in Requests : Start(q)
  BY <1>1, CalmBegins, DeleteBegins DEF Start
<1>2. CASE \E q \in Requests : Step(q)
  BY <1>2, CalmSteps, FindSuperKeeps, BreakKeeps, PutIndexKeeps, PutUserKeeps,
     IndexDropKeeps, UserDropKeeps DEF Step
<1>3. CASE CreateOrg \/ DeleteOrg \/ TellPassword \/ UNCHANGED vars
  BY <1>3, OtherKeeps
<1> QED BY <1>1, <1>2, <1>3 DEF Next

\* Whatever requests, logins and bootstrap runs meet, fail or are cut off, an
\* address whose deletions neither overlapped nor broke has one user, and its
\* index row leads to it (create_user, delete_user).
THEOREM AddressIsUnique == Spec => []OneUserPerAddress
<1>1. AddressInv => OneUserPerAddress
  BY DEF AddressInv
<1> QED BY AddressStart, AddressStep, <1>1, PTL DEF Spec

-----------------------------------------------------------------------------
(* Sysadmins.                                                                *)

Sysadmins == users \cap admins

\* A request that will take somebody's SYSADMIN or USER row.
Ousting == {"revoke"} \cup DeleteSteps
Ousts(q) == at[q] \in Ousting

\* A bootstrap run that created superwoman goes through these to its grant.
Setting == {"user", "userorg", "orguser", "grant"}

\* Where grants and revocations come from, and whom a bootstrap run sets up.
AdminStep(q) ==
  /\ at[q] = "revoke" => kind[q] = "revoke"
  /\ at[q] = "grant" => kind[q] \in {"grant", "boot"} /\ who[q] \in minted
  /\ kind[q] = "boot" /\ at[q] \in Setting => who[q] \in minted /\ who[q] \notin demoted

\* Unless risked, nobody is being ousted, or some sysadmin is not.
Safe == ~risked => \/ \A q \in Requests : ~Ousts(q)
                   \/ \E s \in Sysadmins : \A q \in Requests : Ousts(q) => who[q] # s

AdminInv ==
  /\ admins \subseteq minted /\ demoted \subseteq minted
  /\ \A q \in Requests : AdminStep(q)
  /\ Safe

LEMMA AdminStart == Init => AdminInv
<1> SUFFICES ASSUME Init PROVE AdminInv
  OBVIOUS
<1>1. \A q \in Requests : at[q] = "idle"
  BY DEF Init
<1>2. admins \subseteq minted /\ demoted = {}
  BY DEF Init, Empty, Bootstrapped
<1> QED BY <1>1, <1>2 DEF AdminInv, AdminStep, Safe, Ousts, Ousting, Setting, DeleteSteps, Leaving

\* What every step keeps: a sysadmin nobody ousts.
LEMMA SparedStays ==
  ASSUME RequestShapes, [Next]_vars, NEW s \in Sysadmins,
         \A q \in Requests : Ousts(q) => who[q] # s
  PROVE  s \in Sysadmins'
<1> USE DEF Sysadmins, Ousts, Ousting, DeleteSteps, Leaving
<1>1. ASSUME NEW q \in Requests, Start(q) PROVE s \in Sysadmins'
  BY <1>1 DEF Start, CreateUser, UpdateUserRole, DeleteUser, GrantSysadmin,
     RevokeSysadmin, Login, Bootstrap, rowVars
<1>2. ASSUME NEW q \in Requests, Step(q) PROVE s \in Sysadmins'
  <2>1. CASE PutUser(q)
    BY <2>1 DEF PutUser
  <2>2. CASE PutAdmin(q)
    BY <2>2 DEF PutAdmin
  <2>3. CASE DropAdmin(q)
    BY <2>3 DEF DropAdmin
  <2>4. CASE DeleteUserRow(q)
    BY <2>4 DEF DeleteUserRow
  <2>5. CASE UNCHANGED <<users, admins>>
    BY <2>5
  <2> QED BY <1>2, <2>1, <2>2, <2>3, <2>4, <2>5
      DEF Step, EnsureSystemOrg, FindSuper, FindLogin, CreateAccount, PutIndex, DropIndex,
          PutUserOrg, PutOrgUser, DropUserOrg, DropAccount, DeleteUserOrg, DeleteOrgUser,
          DeleteIndex, DeleteAccount, Break, rowVars
<1>3. CASE CreateOrg \/ DeleteOrg \/ TellPassword \/ UNCHANGED vars
  BY <1>3 DEF CreateOrg, DeleteOrg, TellPassword, vars, rowVars
<1> QED BY <1>1, <1>2, <1>3 DEF Next

\* A step that begins no revocation or deletion.
LEMMA NobodyNewOusted ==
  ASSUME RequestShapes, [Next]_vars, Safe, risked' = risked,
         \A q \in Requests : Ousts(q)' => Ousts(q) /\ who'[q] = who[q]
  PROVE  Safe'
BY SparedStays DEF Safe

\* A request ends, or goes on to nothing new.
LEMMA AdminReturn ==
  ASSUME AdminInv, RequestShapes, KindsFit, NEW q \in Requests, Return(q), SuperEmail \in Emails,
         minted \subseteq minted', demoted' = demoted
  PROVE  \A p \in Requests : AdminStep(p)' /\ (Ousts(p)' => Ousts(p) /\ who'[p] = who[p])
<1>1. \A p \in Requests : p # q => at'[p] = at[p] /\ who'[p] = who[p] /\ kind'[p] = kind[p]
  BY DEF Return, RequestShapes
<1>2. at'[q] = "idle"
  BY ReturnMoves
<1> QED BY <1>1, <1>2 DEF AdminInv, AdminStep, Ousts, Ousting, Setting, DeleteSteps, Leaving

LEMMA AdminGo ==
  ASSUME AdminInv, RequestShapes, NEW q \in Requests, NEW next,
         at' = [at EXCEPT ![q] = next], kind' = kind, who' = who,
         minted \subseteq minted', demoted' = demoted,
         next \in Ousting => next \in DeleteSteps /\ at[q] \in DeleteSteps,
         next \in Setting /\ kind[q] = "boot" => at[q] \in Setting,
         next = "grant" => kind[q] = "boot"
  PROVE  \A p \in Requests : AdminStep(p)' /\ (Ousts(p)' => Ousts(p) /\ who'[p] = who[p])
<1>1. \A p \in Requests : at'[p] = IF p = q THEN next ELSE at[p]
  BY DEF RequestShapes
<1> QED BY <1>1 DEF AdminInv, AdminStep, Ousts, Ousting, Setting, DeleteSteps, Leaving

LEMMA AdminBegin ==
  ASSUME AdminInv, RequestShapes, NEW q \in Requests,
         NEW k, NEW step, NEW e, NEW u, NEW o, NEW r, Begin(q, k, step, e, u, o, r),
         minted' = minted, demoted' = demoted,
         step \in {"cognito", "userorg", "find", "system", "grant", "revoke", "leave"},
         step = "revoke" => k = "revoke",
         step = "grant" => k = "grant" /\ u \in minted,
         k = "boot" => step = "system"
  PROVE  /\ \A p \in Requests : AdminStep(p)'
         /\ at[q] = "idle" /\ at'[q] = step /\ who'[q] = u
         /\ \A p \in Requests : p # q => at'[p] = at[p] /\ who'[p] = who[p]
<1>1. /\ at[q] = "idle" /\ at'[q] = step /\ who'[q] = u /\ kind'[q] = k
      /\ \A p \in Requests : p # q => at'[p] = at[p] /\ who'[p] = who[p] /\ kind'[p] = kind[p]
  BY DEF Begin, RequestShapes
<1>2. ASSUME NEW p \in Requests, p # q PROVE AdminStep(p)'
  BY <1>1, <1>2 DEF AdminInv, AdminStep
<1>3. AdminStep(q)'
  BY <1>1 DEF AdminStep, Setting
<1> QED BY <1>1, <1>2, <1>3

\* Requests that oust nobody.
LEMMA MildBegins ==
  ASSUME AdminInv, RequestShapes, users \subseteq minted, [Next]_vars, NEW q \in Requests,
         CreateUser(q) \/ UpdateUserRole(q) \/ GrantSysadmin(q) \/ Login(q) \/ Bootstrap(q)
  PROVE  AdminInv'
<1>1. /\ admins' = admins /\ minted' = minted /\ demoted' = demoted /\ risked' = risked
  BY DEF CreateUser, UpdateUserRole, GrantSysadmin, Login, Bootstrap, rowVars
<1>2. PICK k, step, e, u, o, r :
        /\ Begin(q, k, step, e, u, o, r)
        /\ step \in {"cognito", "userorg", "find", "system", "grant"}
        /\ step = "grant" => k = "grant" /\ u \in minted
        /\ k = "boot" => step = "system"
  <2>1. CASE CreateUser(q)
    BY <2>1 DEF CreateUser
  <2>2. CASE UpdateUserRole(q)
    BY <2>2 DEF UpdateUserRole
  <2>3. CASE GrantSysadmin(q)
    BY <2>3 DEF GrantSysadmin
  <2>4. CASE Login(q)
    BY <2>4 DEF Login
  <2>5. CASE Bootstrap(q)
    BY <2>5 DEF Bootstrap
  <2> QED BY <2>1, <2>2, <2>3, <2>4, <2>5
<1>3. /\ \A p \in Requests : AdminStep(p)'
      /\ at[q] = "idle" /\ at'[q] = step
      /\ \A p \in Requests : p # q => at'[p] = at[p] /\ who'[p] = who[p]
  BY <1>1, <1>2, AdminBegin
<1>4. \A p \in Requests : Ousts(p)' => Ousts(p) /\ who'[p] = who[p]
  BY <1>2, <1>3 DEF Ousts, Ousting, DeleteSteps, Leaving
<1>5. Safe'
  BY <1>1, <1>4, NobodyNewOusted DEF AdminInv
<1> QED BY <1>1, <1>3, <1>5 DEF AdminInv

\* Who begins to oust a sysadmin leaves another one, while nobody else ousts.
LEMMA OustBegins ==
  ASSUME AdminInv, RequestShapes, KindsFit, [Next]_vars, NEW q \in Requests,
         RevokeSysadmin(q) \/ DeleteUser(q)
  PROVE  AdminInv'
<1>1. PICK u \in users, k \in {"revoke", "delete"}, step \in {"revoke", "leave"} :
        /\ Begin(q, k, step, mail[u], u, NoOrg, NoRole)
        /\ step = "revoke" => k = "revoke"
        /\ \/ /\ Remaining(u) # {}
              /\ risked' = (risked \/ \E p \in Requests :
                               Running(p) /\ kind[p] \in {"revoke", "delete"})
           \/ /\ risked' = (risked \/ u \in admins) /\ Sysadmins # {}
  <2>1. CASE RevokeSysadmin(q)
    BY <2>1 DEF RevokeSysadmin
  <2>2. CASE DeleteUser(q)
    <3>1. ASSUME NEW x \in users, Can(PrincipalOf(x), "create", Resource("user", NoOrg))
          PROVE  x \in admins
      BY <3>1 DEF Can, Resource, AllowSysadminRead, AllowSysadminSystemConfig,
         AllowSysadminUserMgmt, AllowStrategyAuthorMutate, AllowOrgadminAnyStrategy,
         AllowOperatorCreateStrategy, AllowStrategyRead, AllowOrgadminUserMgmt,
         AllowOrgCreateBySysadmin, AllowOrgMutateByOrgadmin, AllowOrgReadByMember,
         AllowMarketDataRead, Edits, Reads, IsOrgadmin, HasRole, IsOrgMember, PrincipalOf
    <3>2. Sysadmins # {}
      BY <2>2, <3>1 DEF DeleteUser, Permitted, Sysadmins
    <3> QED BY <2>2, <3>2 DEF DeleteUser
  <2> QED BY <2>1, <2>2
<1>2. users' = users /\ admins' = admins /\ minted' = minted /\ demoted' = demoted
  BY DEF RevokeSysadmin, DeleteUser, rowVars
<1>3. /\ \A p \in Requests : AdminStep(p)'
      /\ at[q] = "idle" /\ at'[q] = step /\ who'[q] = u
      /\ \A p \in Requests : p # q => at'[p] = at[p] /\ who'[p] = who[p]
  BY <1>1, <1>2, AdminBegin
<1>4. ASSUME NEW p \in Requests, Ousts(p)
      PROVE  Running(p) /\ kind[p] \in {"revoke", "delete"}
  BY <1>4 DEF AdminInv, AdminStep, KindsFit, Running, Ousts, Ousting
<1>5. Safe'
  <2> SUFFICES ASSUME ~risked'
               PROVE  \E s \in Sysadmins' : \A p \in Requests : Ousts(p)' => who'[p] # s
    BY DEF Safe
  <2>1. CASE risked' = (risked \/ u \in admins) /\ Sysadmins # {}
    <3>1. PICK s \in Sysadmins : \A p \in Requests : Ousts(p) => who[p] # s
      BY <2>1 DEF AdminInv, Safe
    <3>2. s # u
      BY <2>1, <3>1 DEF Sysadmins
    <3> QED BY <1>2, <1>3, <3>1, <3>2 DEF Sysadmins, Ousts
  <2>2. CASE /\ Remaining(u) # {}
             /\ risked' = (risked \/ \E p \in Requests :
                              Running(p) /\ kind[p] \in {"revoke", "delete"})
    <3>1. \A p \in Requests : ~Ousts(p)
      BY <1>4, <2>2
    <3>2. PICK s \in Sysadmins : s # u
      BY <2>2 DEF Remaining, Sysadmins
    <3> QED BY <1>2, <1>3, <3>1, <3>2 DEF Sysadmins, Ousts
  <2> QED BY <1>1, <2>1, <2>2
<1> QED BY <1>2, <1>3, <1>5 DEF AdminInv

\* Steps that end the request or go on, and change nobody's administration.
LEMMA AdminWalks ==
  ASSUME AdminInv, RequestShapes, KindsFit, SuperEmail \in Emails, [Next]_vars,
         NEW q \in Requests, admins' = admins, demoted' = demoted, risked' = risked,
         minted \subseteq minted',
         \/ Return(q)
         \/ \E next :
              /\ at' = [at EXCEPT ![q] = next] /\ kind' = kind /\ who' = who
              /\ next \in Ousting => next \in DeleteSteps /\ at[q] \in DeleteSteps
              /\ next \in Setting /\ kind[q] = "boot" => at[q] \in Setting
              /\ next = "grant" => kind[q] = "boot"
  PROVE  AdminInv'
<1>1. \A p \in Requests : AdminStep(p)' /\ (Ousts(p)' => Ousts(p) /\ who'[p] = who[p])
  <2> HIDE DEF Return
  <2> QED BY AdminReturn, AdminGo
<1>2. Safe'
  BY <1>1, NobodyNewOusted DEF AdminInv
<1> QED BY <1>1, <1>2 DEF AdminInv

LEMMA AdminWalkers ==
  ASSUME AdminInv, RequestShapes, KindsFit, SuperEmail \in Emails, [Next]_vars,
         NEW q \in Requests,
         \/ EnsureSystemOrg(q) \/ FindLogin(q) \/ CreateAccount(q) \/ PutUser(q)
         \/ DropIndex(q) \/ PutUserOrg(q) \/ PutOrgUser(q) \/ DropUserOrg(q)
         \/ DropAccount(q) \/ DeleteUserOrg(q) \/ DeleteOrgUser(q) \/ DeleteIndex(q)
         \/ DeleteUserRow(q) \/ DeleteAccount(q) \/ Break(q)
  PROVE  AdminInv'
<1> USE DEF Ousting, Setting, DeleteSteps, Leaving, histVars, rowVars
<1>1. admins' = admins /\ demoted' = demoted /\ risked' = risked
  BY DEF EnsureSystemOrg, FindLogin, CreateAccount, PutUser, DropIndex, PutUserOrg,
     PutOrgUser, DropUserOrg, DropAccount, DeleteUserOrg, DeleteOrgUser, DeleteIndex,
     DeleteUserRow, DeleteAccount, Break
<1>2. minted \subseteq minted'
  BY DEF EnsureSystemOrg, FindLogin, CreateAccount, PutUser, DropIndex, PutUserOrg,
     PutOrgUser, DropUserOrg, DropAccount, DeleteUserOrg, DeleteOrgUser, DeleteIndex,
     DeleteUserRow, DeleteAccount, Break
<1>3. \/ Return(q)
      \/ \E next :
           /\ at' = [at EXCEPT ![q] = next] /\ kind' = kind /\ who' = who
           /\ next \in Ousting => next \in DeleteSteps /\ at[q] \in DeleteSteps
           /\ next \in Setting /\ kind[q] = "boot" => at[q] \in Setting
           /\ next = "grant" => kind[q] = "boot"
  <2> USE DEF Go, GoOrReturn
  <2> HIDE DEF histVars, rowVars
  <2>0. Undo(q) \in {"uncognito", "idle"}
    BY DEF Undo
  <2>1. CASE EnsureSystemOrg(q) \/ FindLogin(q) \/ CreateAccount(q) \/ PutUserOrg(q)
    BY <2>1 DEF EnsureSystemOrg, FindLogin, CreateAccount, PutUserOrg
  <2>2. CASE PutUser(q)
    BY <2>2 DEF PutUser
  <2>3. CASE PutOrgUser(q)
    BY <2>3 DEF PutOrgUser, AfterBoot
  <2>4. CASE DropIndex(q) \/ DropUserOrg(q) \/ DropAccount(q)
    BY <2>0, <2>4 DEF DropIndex, DropUserOrg, DropAccount
  <2>5. CASE DeleteUserOrg(q) \/ DeleteOrgUser(q) \/ DeleteIndex(q) \/ DeleteUserRow(q)
             \/ DeleteAccount(q)
    BY <2>5 DEF DeleteUserOrg, DeleteOrgUser, DeleteIndex, DeleteUserRow, DeleteAccount
  <2>6. CASE Break(q)
    <3>1. CASE Return(q)
      BY <3>1
    <3>2. CASE Go(q, AfterError(q))
      <4> DEFINE next == AfterError(q)
      <4>1. next \in Ousting => next \in DeleteSteps /\ at[q] \in DeleteSteps
        BY <2>0 DEF AfterError
      <4>2. next \notin Setting
        BY <2>0 DEF AfterError
      <4>3. at' = [at EXCEPT ![q] = next] /\ kind' = kind /\ who' = who
        BY <3>2
      <4> HIDE DEF next
      <4> QED BY <4>1, <4>2, <4>3
    <3> QED BY <2>6, <3>1, <3>2 DEF Break
  <2> QED BY <2>1, <2>2, <2>3, <2>4, <2>5, <2>6
<1> QED
  <2> HIDE DEF Ousting, Setting, DeleteSteps, Leaving
  <2> QED BY <1>1, <1>2, <1>3, AdminWalks

\* Superwoman's new id was never demoted, as it was never handed out.
LEMMA SettingUpKeeps ==
  ASSUME AdminInv, RequestShapes, KindsFit, SuperEmail \in Emails, [Next]_vars,
         NEW q \in Requests, FindSuper(q) \/ PutIndex(q)
  PROVE  AdminInv'
<1>1. admins' = admins /\ demoted' = demoted /\ risked' = risked /\ minted \subseteq minted'
  BY DEF FindSuper, PutIndex, rowVars, histVars
<1>2. CASE Return(q)
  BY <1>1, <1>2, AdminWalks
<1>3. ASSUME NEW next \in {"index", "userorg", "user", "uncognito"},
             at' = [at EXCEPT ![q] = next],
             \A p \in Requests : p # q => kind'[p] = kind[p] /\ who'[p] = who[p],
             next = "userorg" => kind'[q] # "boot",
             next = "user" => who'[q] \in minted' /\ who'[q] \notin demoted
      PROVE  AdminInv'
  <2>1. \A p \in Requests : at'[p] = IF p = q THEN next ELSE at[p]
    BY <1>3 DEF RequestShapes
  <2>2. \A p \in Requests : AdminStep(p)'
    BY <1>1, <1>3, <2>1 DEF AdminInv, AdminStep, Setting
  <2>3. \A p \in Requests : Ousts(p)' => Ousts(p) /\ who'[p] = who[p]
    BY <1>3, <2>1 DEF Ousts, Ousting, DeleteSteps, Leaving
  <2>4. Safe'
    BY <1>1, <2>3, NobodyNewOusted DEF AdminInv
  <2> QED BY <1>1, <2>2, <2>4 DEF AdminInv
<1>4. CASE FindSuper(q) /\ ~Return(q)
  <2> DEFINE u == FindByEmail(SuperEmail)
  <2> DEFINE k == IF u = NoUser THEN "boot" ELSE "reboot"
  <2>1. PICK next \in {"index", "userorg"} :
          /\ at' = [at EXCEPT ![q] = next] /\ kind' = [kind EXCEPT ![q] = k]
          /\ who' = [who EXCEPT ![q] = u]
          /\ next = "userorg" => k # "boot"
    <3> HIDE DEF u
    <3> QED BY <1>4 DEF FindSuper, Found, AfterBoot, u
  <2> HIDE DEF u, k
  <2>2. /\ \A p \in Requests : p # q => kind'[p] = kind[p] /\ who'[p] = who[p]
        /\ kind'[q] = k
    BY <2>1 DEF RequestShapes
  <2> QED BY <1>3, <2>1, <2>2
<1>5. CASE PutIndex(q) /\ ~Return(q)
  <2>1. Undo(q) \in {"uncognito", "idle"}
    BY DEF Undo
  <2>2. CASE Go(q, "uncognito")
    BY <1>3, <2>2 DEF Go
  <2>3. CASE ~Go(q, "uncognito")
    <3>1. PICK u \in Users \ minted :
            /\ who' = [who EXCEPT ![q] = u] /\ minted' = minted \cup {u}
            /\ at' = [at EXCEPT ![q] = "user"] /\ kind' = kind
      BY <1>5, <2>1, <2>3 DEF PutIndex, GoOrReturn
    <3>2. /\ who'[q] \in minted' /\ who'[q] \notin demoted
          /\ \A p \in Requests : p # q => who'[p] = who[p]
      BY <3>1 DEF RequestShapes, AdminInv
    <3> QED BY <1>3, <3>1, <3>2
  <2> QED BY <2>2, <2>3
<1> QED BY <1>2, <1>4, <1>5

LEMMA PutAdminKeeps ==
  ASSUME AdminInv, RequestShapes, KindsFit, SuperEmail \in Emails, [Next]_vars,
         NEW q \in Requests, PutAdmin(q)
  PROVE  AdminInv'
<1>1. /\ Return(q) /\ admins' = admins \cup {who[q]} /\ who[q] \in minted
      /\ minted' = minted /\ demoted' = demoted /\ risked' = risked
  BY DEF PutAdmin, histVars, AdminInv, AdminStep
<1>2. \A p \in Requests : AdminStep(p)' /\ (Ousts(p)' => Ousts(p) /\ who'[p] = who[p])
  BY <1>1, AdminReturn
<1>3. Safe'
  BY <1>1, <1>2, NobodyNewOusted DEF AdminInv
<1> QED BY <1>1, <1>2, <1>3 DEF AdminInv

\* Whom a bootstrap run sets up is not counted as demoted.
LEMMA DropAdminKeeps ==
  ASSUME AdminInv, RequestShapes, KindsFit, SuperEmail \in Emails, [Next]_vars,
         NEW q \in Requests, DropAdmin(q)
  PROVE  AdminInv'
<1>1. /\ admins' \subseteq admins /\ minted' = minted /\ risked' = risked
      /\ demoted' \subseteq demoted \cup admins
      /\ \A p \in Requests : Running(p) /\ kind[p] = "boot" /\ who[p] \in demoted' =>
           who[p] \in demoted
  BY DEF DropAdmin
<1>2. /\ \A p \in Requests : p # q =>
           at'[p] = at[p] /\ who'[p] = who[p] /\ kind'[p] = kind[p]
      /\ \/ at'[q] = "idle"
         \/ at'[q] = "delindex" /\ at[q] = "leave" /\ who'[q] = who[q] /\ kind'[q] = kind[q]
  BY DEF DropAdmin, Return, Go, RequestShapes
<1>3. ASSUME NEW p \in Requests PROVE AdminStep(p)'
  <2>1. CASE p = q
    <3>1. at'[q] \notin {"revoke", "grant"} \cup Setting
      BY <1>2 DEF Setting
    <3> QED BY <2>1, <3>1 DEF AdminStep
  <2>2. CASE p # q
    <3>1. at[p] \in Setting => Running(p)
      BY DEF Running, Setting
    <3>2. AdminStep(p)
      BY DEF AdminInv
    <3> QED BY <1>1, <1>2, <2>2, <3>1, <3>2 DEF AdminStep
  <2> QED BY <2>1, <2>2
<1>4. \A p \in Requests : Ousts(p)' => Ousts(p) /\ who'[p] = who[p]
  BY <1>2 DEF Ousts, Ousting, DeleteSteps, Leaving
<1>5. Safe'
  BY <1>1, <1>4, NobodyNewOusted DEF AdminInv
<1> QED BY <1>1, <1>3, <1>5 DEF AdminInv

LEMMA AdminNext == AddressInv /\ AdminInv /\ [Next]_vars => AdminInv'
<1> SUFFICES ASSUME AddressInv, AdminInv, [Next]_vars PROVE AdminInv'
  OBVIOUS
<1>1. RequestShapes /\ KindsFit /\ users \subseteq minted /\ SuperEmail \in Emails
  BY TenancyAssumption DEF AddressInv, Shapes, TenancyAssumption
<1>2. CASE \E q \in Requests : Start(q)
  BY <1>1, <1>2, MildBegins, OustBegins DEF Start
<1>3. CASE \E q \in Requests : Step(q)
  BY <1>1, <1>3, AdminWalkers, SettingUpKeeps, PutAdminKeeps, DropAdminKeeps DEF Step
<1>4. CASE CreateOrg \/ DeleteOrg \/ TellPassword \/ UNCHANGED vars
  <2>1. /\ at' = at /\ kind' = kind /\ who' = who /\ admins' = admins
        /\ demoted' = demoted /\ risked' = risked
    BY <1>4 DEF CreateOrg, DeleteOrg, TellPassword, vars, rowVars, reqVars, histVars
  <2>2. minted \subseteq minted'
    BY <1>4 DEF CreateOrg, DeleteOrg, TellPassword, vars, histVars
  <2>3. \A p \in Requests : AdminStep(p)' /\ (Ousts(p)' => Ousts(p) /\ who'[p] = who[p])
    BY <2>1, <2>2 DEF AdminInv, AdminStep, Ousts
  <2>4. Safe'
    BY <1>1, <2>1, <2>3, NobodyNewOusted DEF AdminInv
  <2> QED BY <2>1, <2>2, <2>3, <2>4 DEF AdminInv
<1> QED BY <1>2, <1>3, <1>4 DEF Next

\* Requests, deletions and bootstrap runs that meet, fail and break off leave a
\* sysadmin, unless revocations met or a sysadmin was deleted (update_sysadmin).
THEOREM SomebodyAdministers == Spec => SysadminRemains
<1> DEFINE Remains == Sysadmins # {} /\ ~risked' => Sysadmins' # {}
<1>1. AddressInv /\ AdminInv /\ [Next]_vars => Remains
  <2> SUFFICES ASSUME AddressInv, AdminInv, [Next]_vars, Sysadmins # {}, ~risked'
               PROVE  Sysadmins' # {}
    OBVIOUS
  <2>1. ~risked
    BY DEF Next, Start, Step, CreateUser, UpdateUserRole, DeleteUser, GrantSysadmin,
       RevokeSysadmin, Login, Bootstrap, CreateOrg, DeleteOrg, TellPassword, EnsureSystemOrg,
       FindSuper, FindLogin, CreateAccount, PutIndex, PutUser, DropIndex, PutUserOrg,
       PutOrgUser, DropUserOrg, DropAccount, PutAdmin, DropAdmin, DeleteUserOrg,
       DeleteOrgUser, DeleteIndex, DeleteUserRow, DeleteAccount, Break, histVars, vars
  <2>2. PICK s \in Sysadmins : \A q \in Requests : Ousts(q) => who[q] # s
    BY <2>1 DEF AdminInv, Safe
  <2> QED BY <2>2, SparedStays DEF AddressInv, Shapes
<1>2. [Remains]_vars => [users \cap admins # {} /\ ~risked' => (users \cap admins)' # {}]_vars
  BY DEF Sysadmins
<1>3. AddressInv /\ AdminInv /\ [Next]_vars => [Remains]_vars
  BY <1>1
<1> QED BY AddressStart, AddressStep, AdminStart, AdminNext, <1>2, <1>3, PTL
        DEF Spec, SysadminRemains

\* Only a granting request makes a sysadmin of somebody that was demoted; a
\* bootstrap run, first or repeated, never does (ensure_superwoman_user).
THEOREM DemotedStayDemoted == Spec => RevocationSticks
<1> DEFINE Sticks == \A u \in demoted \ admins : u \in admins' =>
                       \E q \in Requests : kind[q] = "grant" /\ at[q] = "grant" /\ who[q] = u
<1>1. AdminInv /\ [Next]_vars => [Sticks]_vars
  <2> SUFFICES ASSUME AdminInv, [Next]_vars, NEW u \in demoted \ admins, u \in admins'
               PROVE  \E q \in Requests : kind[q] = "grant" /\ at[q] = "grant" /\ who[q] = u
    OBVIOUS
  <2>1. PICK q \in Requests : PutAdmin(q)
    BY DEF Next, Start, Step, CreateUser, UpdateUserRole, DeleteUser, GrantSysadmin,
       RevokeSysadmin, Login, Bootstrap, CreateOrg, DeleteOrg, TellPassword, EnsureSystemOrg,
       FindSuper, FindLogin, CreateAccount, PutIndex, PutUser, DropIndex, PutUserOrg,
       PutOrgUser, DropUserOrg, DropAccount, DropAdmin, DeleteUserOrg,
       DeleteOrgUser, DeleteIndex, DeleteUserRow, DeleteAccount, Break, rowVars, vars
  <2>2. at[q] = "grant" /\ who[q] = u
    BY <2>1 DEF PutAdmin
  <2>3. kind[q] = "grant"
    BY <2>2 DEF AdminInv, AdminStep, Setting
  <2> QED BY <2>2, <2>3
<1> QED BY AddressStart, AddressStep, AdminStart, AdminNext, <1>1, PTL DEF Spec, RevocationSticks
-----------------------------------------------------------------------------
(* Memberships and deletions.  The rows of a user are put and taken away one *)
(* at a time; between two of them a request stands, and the invariant says   *)
(* which: whose sides differ is being put in an org or taken out of it, whose *)
(* row is gone has none left, and an address without a user has a request    *)
(* about it or nothing.  All of it only while the address is not torn: then   *)
(* no two requests are about it, but creations and logins.                  *)

\* Steps of a request that is about a user with a row, or has taken it away.
Working == {"userorg", "orguser", "unmember", "grant", "revoke"} \cup DeleteSteps

RowShapes ==
  /\ orgs \subseteq Orgs
  /\ userOrg \in [Users -> [Orgs -> Role \cup {NoRole}]]
  /\ orgUser \in [Users -> [Orgs -> Role \cup {NoRole}]]
  /\ account \in [Emails -> {"none", "untold", "told"}]
  /\ org \in [Requests -> Orgs \cup {NoOrg}]
  /\ role \in [Requests -> Role \cup {NoRole}]
  /\ todo \in [Requests -> SUBSET Orgs]

\* Requests about one address that is not torn only claim it.
Overlaps ==
  \A p, q \in Requests :
    p # q /\ Running(p) /\ Running(q) /\ addr[p] = addr[q] /\ addr[p] \notin torn =>
      kind[p] \in Claims /\ kind[q] \in Claims

\* A bootstrap run looks for superwoman; a request that undoes what it put broke;
\* a request at work is about a user of its address, who has a row.
Walking(q) ==
  /\ at[q] \in {"system", "super"} => kind[q] = "boot" /\ addr[q] = SuperEmail
  /\ at[q] = "cognito" => kind[q] = "create"
  /\ at[q] \in {"unindex", "unmember"} => addr[q] \in torn
  /\ at[q] \in Working =>
       /\ who[q] \in Users /\ who[q] \in minted /\ mail[who[q]] = addr[q]
       /\ at[q] # "delcognito" /\ addr[q] \notin torn => who[q] \in users

\* Nobody works on an id that is being claimed, nor two requests on one user.
Alone(p, q) ==
  who[p] = who[q] /\ at[p] \in Working =>
    /\ at[q] \notin Claiming
    /\ at[q] \in Working => addr[p] \in torn

\* An index row leads to a user of its address, or to one that is being put.
IndexLeads(e) ==
  index[e] # NoUser =>
    /\ index[e] \in minted
    /\ index[e] \in users => mail[index[e]] = e
    /\ \A q \in Requests : at[q] \in Claiming /\ who[q] = index[e] => addr[q] = e
    /\ e \notin torn => \/ index[e] \in users
                        \/ \E q \in Requests : at[q] = "user" /\ who[q] = index[e]

\* No rows but perhaps its own.
Bare(u) == userOrg[u] = NoRows[u] /\ u \notin admins

\* An id not in use yet, and one no longer in use.
Blank(u) ==
  /\ u \notin minted \/ (\E q \in Requests : at[q] \in Claiming /\ who[q] = u) =>
       Bare(u) /\ orgUser[u] = NoRows[u]
  /\ u \notin users /\ mail[u] \notin torn => Bare(u)

\* The request that has put or taken away one side and not yet the other.
Between(q, u, o) ==
  who[q] = u /\ org[q] = o /\ at[q] \in {"orguser", "leaveorg"}

Sided(u, o) ==
  mail[u] \notin torn =>
    userOrg[u][o] = orgUser[u][o] \/ \E q \in Requests : Between(q, u, o)

\* What a request about a user has done so far.
DoneSoFar(q) ==
  addr[q] \notin torn =>
    /\ at[q] = "orguser" /\ org[q] \in Orgs => userOrg[who[q]][org[q]] = role[q]
    /\ at[q] = "leaveorg" /\ org[q] \in Orgs => userOrg[who[q]][org[q]] = NoRole
    /\ at[q] \in {"leave", "leaveorg"} =>
         \A o \in Orgs : userOrg[who[q]][o] # NoRole => o \in todo[q]
    /\ at[q] \in {"delindex", "deluser", "delcognito"} => Bare(who[q])
    /\ at[q] \in {"deluser", "delcognito"} => index[addr[q]] = NoUser

\* Who is about to put the user of an account, or to delete the account.
Accounts(q) ==
  \/ at[q] \in {"index", "user", "uncognito"} /\ kind[q] = "create"
  \/ at[q] = "delcognito"

AccountLeads(e) ==
  e \notin torn /\ e # SuperEmail /\ account[e] # "none" =>
    \/ \E u \in users : mail[u] = e
    \/ \E q \in Requests : addr[q] = e /\ Accounts(q)

TidyInv ==
  /\ RowShapes
  /\ Overlaps
  /\ \A q \in Requests : Walking(q) /\ DoneSoFar(q)
  /\ \A p, q \in Requests : p # q => Alone(p, q)
  /\ \A e \in Emails : IndexLeads(e) /\ AccountLeads(e)
  /\ \A u \in Users : Blank(u) /\ \A o \in Orgs : Sided(u, o)

-----------------------------------------------------------------------------
(* What a step of one request leaves alone.                                  *)

Stays(p) ==
  /\ at'[p] = at[p] /\ kind'[p] = kind[p] /\ addr'[p] = addr[p] /\ who'[p] = who[p]
  /\ org'[p] = org[p] /\ role'[p] = role[p] /\ todo'[p] = todo[p]

\* Only q moves, and the histories only grow.
MovesOnly(q) ==
  /\ \A p \in Requests \ {q} : Stays(p)
  /\ torn \subseteq torn' /\ minted \subseteq minted'

\* Rows of users nobody but q is about, while q is about a user of its address.
OwnRows(q) ==
  \A u \in Users :
    \/ u = who[q] /\ at[q] \in Working \ {"delcognito"}
    \/ /\ userOrg'[u] = userOrg[u] /\ orgUser'[u] = orgUser[u]
       /\ u \in admins' => u \in admins

\* A request that claims no id it had not claimed, and takes up no user.
SameWho(q) ==
  at'[q] \in Working \cup Claiming =>
    /\ at[q] \in Working \cup Claiming
    /\ who'[q] = who[q] /\ addr'[q] = addr[q]
    /\ at'[q] \in Claiming => at[q] \in Claiming

LEMMA OverlapsStay ==
  ASSUME TidyInv, NEW q \in Requests, MovesOnly(q),
         at'[q] # "idle" =>
           /\ at[q] # "idle" /\ addr'[q] = addr[q]
           /\ kind'[q] = kind[q] \/ (kind[q] \notin Claims /\ kind'[q] \notin Claims)
  PROVE  Overlaps'
<1> SUFFICES ASSUME NEW p \in Requests, NEW r \in Requests, p # r,
                    Running(p)', Running(r)', addr'[p] = addr'[r], addr'[p] \notin torn'
             PROVE  kind'[p] \in Claims /\ kind'[r] \in Claims
  BY DEF Overlaps
<1>1. Running(p) /\ Running(r) /\ addr'[p] = addr[p] /\ addr'[r] = addr[r]
  BY DEF MovesOnly, Stays, Running
<1>2. addr[p] \notin torn
  BY <1>1 DEF MovesOnly
<1>3. kind[p] \in Claims /\ kind[r] \in Claims
  BY <1>1, <1>2 DEF TidyInv, Overlaps
<1> QED BY <1>3 DEF MovesOnly, Stays, Running

LEMMA WalkingStays ==
  ASSUME TidyInv, NEW q \in Requests, MovesOnly(q), NEW p \in Requests, p # q,
         mail' = mail,
         users \subseteq users' \/ users' = users \ {who[q]}, at[q] \in Working \/ users \subseteq users'
  PROVE  Walking(p)'
<1>1. Stays(p) /\ Walking(p) /\ torn \subseteq torn' /\ minted \subseteq minted'
  BY DEF MovesOnly, TidyInv
<1>2. ASSUME at[p] \in Working, at[p] # "delcognito", addr[p] \notin torn', who[p] \in users
      PROVE  who[p] \in users'
  <2>1. who[p] = who[q] => ~(at[q] \in Working)
    BY <1>1, <1>2 DEF TidyInv, Alone
  <2> QED BY <1>2, <2>1
<1> QED BY <1>1, <1>2 DEF Stays, Walking

LEMMA AloneStays ==
  ASSUME AddressInv, TidyInv, NEW q \in Requests, MovesOnly(q), SameWho(q)
  PROVE  \A p, r \in Requests : p # r => Alone(p, r)'
<1> SUFFICES ASSUME NEW p \in Requests, NEW r \in Requests, p # r,
                    who'[p] = who'[r], at'[p] \in Working
             PROVE  at'[r] \notin Claiming /\ (at'[r] \in Working => addr'[p] \in torn')
  BY DEF Alone
<1>1. Alone(p, r) /\ Alone(r, p) /\ Apart(p, r) /\ torn \subseteq torn'
  BY DEF TidyInv, AddressInv, MovesOnly
<1>2. Claiming \cap Working = {}
  BY DEF Claiming, Working, DeleteSteps, Leaving
<1>3. CASE p = q
  <2>1. Stays(r) /\ at[p] \in Working \cup Claiming /\ who[p] = who[r] /\ addr'[p] = addr[p]
    BY <1>3 DEF MovesOnly, Stays, SameWho
  <2>2. at[r] \in Claiming => FALSE
    BY <1>1, <2>1 DEF Alone, Apart
  <2>3. at[r] \in Working => at[p] \in Working /\ addr[p] \in torn
    BY <1>1, <2>1 DEF Alone
  <2> QED BY <1>1, <2>1, <2>2, <2>3 DEF Stays
<1>4. CASE r = q
  <2>1. Stays(p) /\ at[p] \in Working
    BY <1>4 DEF MovesOnly, Stays
  <2>2. at'[r] \in Working \cup Claiming => at[r] \in Working /\ addr[p] \in torn
    BY <1>1, <1>4, <2>1 DEF Alone, SameWho, Stays
  <2>3. at'[r] \notin Claiming
    BY <1>2, <1>4, <2>2 DEF SameWho
  <2> QED BY <1>1, <2>1, <2>2, <2>3 DEF Stays
<1>5. CASE p # q /\ r # q
  BY <1>1, <1>5 DEF MovesOnly, Stays, Alone
<1> QED BY <1>3, <1>4, <1>5

LEMMA IndexStays ==
  ASSUME TidyInv, NEW q \in Requests, MovesOnly(q), SameWho(q),
         users' = users, mail' = mail, index' = index,
         at[q] = "user" => at'[q] = "user" \/ addr[q] \in torn',
         NEW e \in Emails
  PROVE  IndexLeads(e)'
<1> SUFFICES ASSUME index[e] # NoUser
             PROVE  /\ index[e] \in minted'
                    /\ index[e] \in users => mail[index[e]] = e
                    /\ \A p \in Requests : at'[p] \in Claiming /\ who'[p] = index[e] => addr'[p] = e
                    /\ e \notin torn' => \/ index[e] \in users
                                         \/ \E p \in Requests : at'[p] = "user" /\ who'[p] = index[e]
  BY DEF IndexLeads
<1>1. /\ index[e] \in minted
      /\ index[e] \in users => mail[index[e]] = e
      /\ \A p \in Requests : at[p] \in Claiming /\ who[p] = index[e] => addr[p] = e
      /\ e \notin torn => \/ index[e] \in users
                          \/ \E p \in Requests : at[p] = "user" /\ who[p] = index[e]
  BY DEF TidyInv, IndexLeads
<1>2. ASSUME NEW p \in Requests, at'[p] \in Claiming, who'[p] = index[e]
      PROVE  addr'[p] = e
  BY <1>1, <1>2 DEF MovesOnly, Stays, SameWho
<1>3. ASSUME e \notin torn', index[e] \notin users
      PROVE  \E p \in Requests : at'[p] = "user" /\ who'[p] = index[e]
  <2>1. PICK p \in Requests : at[p] = "user" /\ who[p] = index[e]
    BY <1>1, <1>3 DEF MovesOnly
  <2>2. addr[p] = e
    BY <1>1, <2>1 DEF Claiming
  <2>3. CASE p # q
    BY <2>1, <2>3 DEF MovesOnly, Stays
  <2>4. CASE p = q
    BY <1>3, <2>1, <2>2, <2>4 DEF SameWho, Claiming
  <2> QED BY <2>3, <2>4
<1> QED BY <1>1, <1>2, <1>3 DEF MovesOnly

LEMMA BlankStays ==
  ASSUME AddressInv, TidyInv, NEW q \in Requests, MovesOnly(q), SameWho(q), OwnRows(q),
         users' = users, mail' = mail, NEW u \in Users
  PROVE  Blank(u)'
<1>1. Blank(u) /\ torn \subseteq torn' /\ minted \subseteq minted'
  BY DEF TidyInv, MovesOnly
<1>2. (\E p \in Requests : at'[p] \in Claiming /\ who'[p] = u)
        => \E p \in Requests : at[p] \in Claiming /\ who[p] = u
  BY DEF MovesOnly, Stays, SameWho
<1>3. CASE u = who[q] /\ at[q] \in Working \ {"delcognito"}
  <2>1. u \in minted /\ mail[u] = addr[q] /\ (addr[q] \notin torn => u \in users)
    BY <1>3 DEF TidyInv, Walking
  <2>2. \A p \in Requests : at[p] \in Claiming => who[p] # u
    <3> SUFFICES ASSUME NEW p \in Requests, at[p] \in Claiming, who[p] = u PROVE FALSE
      OBVIOUS
    <3>1. p # q
      BY <1>3 DEF Claiming, Working, DeleteSteps, Leaving
    <3> QED BY <1>3, <3>1 DEF TidyInv, Alone
  <2> QED BY <1>1, <1>2, <2>1, <2>2 DEF Blank
<1>4. CASE ~(u = who[q] /\ at[q] \in Working \ {"delcognito"})
  <2>1. userOrg'[u] = userOrg[u] /\ orgUser'[u] = orgUser[u] /\ (u \in admins' => u \in admins)
    BY <1>4 DEF OwnRows
  <2> QED BY <1>1, <1>2, <2>1 DEF Blank, Bare
<1> QED BY <1>3, <1>4

\* If the sides of the user a request is about differ, it is the request's doing.
LEMMA OwnDifference ==
  ASSUME TidyInv, NEW q \in Requests, at[q] \in Working, addr[q] \notin torn, NEW o \in Orgs
  PROVE  userOrg[who[q]][o] = orgUser[who[q]][o] \/ Between(q, who[q], o)
<1>1. who[q] \in Users /\ mail[who[q]] = addr[q]
  BY DEF TidyInv, Walking
<1>2. Sided(who[q], o)
  BY <1>1 DEF TidyInv
<1>3. ASSUME NEW p \in Requests, Between(p, who[q], o) PROVE p = q
  <2>1. at[p] \in Working /\ who[p] = who[q]
    BY <1>3 DEF Between, Working, DeleteSteps, Leaving
  <2> QED BY <2>1 DEF TidyInv, Alone
<1> QED BY <1>1, <1>2, <1>3 DEF Sided

LEMMA SidedStays ==
  ASSUME TidyInv, NEW q \in Requests, MovesOnly(q), OwnRows(q), mail' = mail,
         NEW u \in Users, NEW o \in Orgs,
         u = who[q] /\ at[q] \in Working /\ addr[q] \notin torn' =>
           userOrg'[u][o] = orgUser'[u][o] \/ Between(q, u, o)'
  PROVE  Sided(u, o)'
<1> SUFFICES ASSUME mail[u] \notin torn'
             PROVE  userOrg'[u][o] = orgUser'[u][o] \/ \E p \in Requests : Between(p, u, o)'
  BY DEF Sided
<1>1. mail[u] \notin torn
  BY DEF MovesOnly
<1>2. CASE u = who[q] /\ at[q] \in Working
  <2>1. mail[u] = addr[q]
    BY <1>2 DEF TidyInv, Walking
  <2> QED BY <1>2, <2>1
<1>3. CASE ~(u = who[q] /\ at[q] \in Working)
  <2>1. userOrg'[u] = userOrg[u] /\ orgUser'[u] = orgUser[u]
    BY <1>3 DEF OwnRows
  <2>2. userOrg[u][o] = orgUser[u][o] \/ \E p \in Requests : Between(p, u, o)
    BY <1>1 DEF TidyInv, Sided
  <2>3. ASSUME NEW p \in Requests, Between(p, u, o) PROVE Between(p, u, o)'
    <3>1. p # q
      BY <1>3, <2>3 DEF Between, Working, DeleteSteps, Leaving
    <3> QED BY <2>1, <2>3, <3>1 DEF MovesOnly, Stays, Between
  <2> QED BY <2>1, <2>2, <2>3
<1> QED BY <1>2, <1>3

LEMMA DoneStays ==
  ASSUME TidyInv, KindsFit, RequestShapes, NEW q \in Requests, MovesOnly(q), OwnRows(q),
         at[q] # "idle",
         \A e \in Emails : index[e] = NoUser /\ index'[e] # NoUser => e = addr[q],
         NEW p \in Requests, p # q
  PROVE  DoneSoFar(p)'
<1>1. Stays(p) /\ DoneSoFar(p) /\ torn \subseteq torn' /\ addr[p] \in Emails /\ Alone(p, q)
  BY DEF MovesOnly, TidyInv, RequestShapes
<1> SUFFICES ASSUME addr[p] \notin torn', at[p] \in Working
             PROVE  DoneSoFar(p)'
  BY <1>1 DEF DoneSoFar, Stays, Working, DeleteSteps, Leaving
<1>2. who[p] # who[q] \/ at[q] \notin Working
  BY <1>1 DEF Alone, Working
<1>3. who[p] \in Users
  BY DEF TidyInv, Walking, Working
<1>4. userOrg'[who[p]] = userOrg[who[p]] /\ (who[p] \in admins' => who[p] \in admins)
  BY <1>2, <1>3 DEF OwnRows
<1>5. at[p] \in DeleteSteps /\ index[addr[p]] = NoUser => index'[addr[p]] = NoUser
  <2> SUFFICES ASSUME at[p] \in DeleteSteps, addr[p] = addr[q] PROVE FALSE
    BY <1>1
  <2>1. Running(p) /\ Running(q) /\ kind[p] = "delete"
    BY DEF KindsFit, Running
  <2>2. kind[p] \in Claims
    BY <1>1, <2>1 DEF TidyInv, Overlaps
  <2> QED BY <2>1, <2>2 DEF Claims
<1> QED BY <1>1, <1>4, <1>5 DEF DoneSoFar, Stays, Bare, NoRows, DeleteSteps, Leaving

LEMMA AccountStays ==
  ASSUME TidyInv, NEW q \in Requests, MovesOnly(q), users' = users, mail' = mail,
         NEW e \in Emails, account'[e] # "none" => account[e] # "none",
         Accounts(q) => \/ Accounts(q)' /\ addr'[q] = addr[q]
                        \/ account'[addr[q]] = "none" \/ addr[q] \in torn'
  PROVE  AccountLeads(e)'
<1> SUFFICES ASSUME e \notin torn', e # SuperEmail, account'[e] # "none",
                    \A u \in users : mail[u] # e
             PROVE  \E p \in Requests : addr'[p] = e /\ Accounts(p)'
  BY DEF AccountLeads
<1>1. PICK p \in Requests : addr[p] = e /\ Accounts(p)
  BY DEF TidyInv, AccountLeads, MovesOnly
<1> QED BY <1>1 DEF MovesOnly, Stays, Accounts

\* A step that writes neither the index nor a user's row.
LEMMA FrameTidies ==
  ASSUME AddressInv, TidyInv, NEW q \in Requests, MovesOnly(q), SameWho(q), OwnRows(q),
         users' = users, mail' = mail, index' = index, at[q] # "idle",
         at'[q] # "idle" => addr'[q] = addr[q] /\ kind'[q] = kind[q],
         at[q] = "user" => addr[q] \in torn',
         RowShapes', Walking(q)', DoneSoFar(q)',
         \A u \in Users : u = who[q] /\ at[q] \in Working /\ addr[q] \notin torn' =>
           \A o \in Orgs : userOrg'[u][o] = orgUser'[u][o] \/ Between(q, u, o)',
         \A e \in Emails : AccountLeads(e)'
  PROVE  TidyInv'
<1>1. Overlaps'
  BY OverlapsStay
<1>2. \A p \in Requests : Walking(p)'
  BY WalkingStays
<1>3. \A p \in Requests : DoneSoFar(p)'
  <2>1. KindsFit /\ RequestShapes
    BY DEF AddressInv, Shapes
  <2> QED BY <2>1, DoneStays
<1>4. \A p, r \in Requests : p # r => Alone(p, r)'
  BY AloneStays
<1>5. \A e \in Emails : IndexLeads(e)'
  BY IndexStays
<1>6. \A u \in Users : Blank(u)'
  BY BlankStays
<1>7. \A u \in Users : \A o \in Orgs : Sided(u, o)'
  BY SidedStays
<1> QED BY <1>1, <1>2, <1>3, <1>4, <1>5, <1>6, <1>7 DEF TidyInv

-----------------------------------------------------------------------------
(* How requests move.                                                       *)

RequestsShape ==
  /\ at \in [Requests -> Steps] /\ kind \in [Requests -> Kinds]
  /\ addr \in [Requests -> Emails] /\ who \in [Requests -> Users \cup {NoUser}]
  /\ org \in [Requests -> Orgs \cup {NoOrg}] /\ role \in [Requests -> Role \cup {NoRole}]
  /\ todo \in [Requests -> SUBSET Orgs]

LEMMA ShapesKnown == AddressInv /\ TidyInv => RequestsShape /\ SuperEmail \in Emails
BY TenancyAssumption DEF AddressInv, Shapes, RequestShapes, TidyInv, RowShapes, RequestsShape

LEMMA ReturnTidily ==
  ASSUME RequestsShape, NEW q \in Requests, Return(q)
  PROVE  /\ \A p \in Requests \ {q} : Stays(p)
         /\ at'[q] = "idle" /\ SameWho(q)
         /\ org' \in [Requests -> Orgs \cup {NoOrg}]
         /\ role' \in [Requests -> Role \cup {NoRole}]
         /\ todo' \in [Requests -> SUBSET Orgs]
         /\ Walking(q)' /\ DoneSoFar(q)' /\ ~Accounts(q)'
<1>1. at'[q] = "idle" /\ \A p \in Requests \ {q} : Stays(p)
  BY DEF RequestsShape, Return, Stays
<1>2. /\ org' \in [Requests -> Orgs \cup {NoOrg}]
      /\ role' \in [Requests -> Role \cup {NoRole}]
      /\ todo' \in [Requests -> SUBSET Orgs]
  BY DEF RequestsShape, Return
<1>3. "idle" \notin Working \cup Claiming
  BY DEF Working, Claiming, DeleteSteps, Leaving
<1> QED BY <1>1, <1>2, <1>3 DEF SameWho, Walking, DoneSoFar, Accounts

LEMMA GoTidily ==
  ASSUME RequestsShape, NEW q \in Requests, NEW next, Go(q, next)
  PROVE  /\ \A p \in Requests \ {q} : Stays(p)
         /\ at'[q] = next /\ kind'[q] = kind[q] /\ addr'[q] = addr[q] /\ who'[q] = who[q]
         /\ org' = org /\ role' = role /\ todo' = todo
BY DEF RequestsShape, Go, Stays

\* Steps of which only the request, and perhaps the account, knows.
LEMMA RequestTidies ==
  ASSUME AddressInv, TidyInv, NEW q \in Requests, torn \subseteq torn', minted \subseteq minted',
         orgs' = orgs, users' = users, mail' = mail, index' = index,
         userOrg' = userOrg, orgUser' = orgUser, admins' = admins,
         account' \in [Emails -> {"none", "untold", "told"}],
         at[q] # "idle",
         \/ Return(q)
         \/ \E next \in Steps \ {"idle", "system", "super", "cognito"} :
              /\ Go(q, next)
              /\ next \in Claiming => at[q] \in Claiming
              /\ next \in Working => at[q] \in Working \ {"delcognito"} /\ addr[q] \in torn'
              /\ next \in {"unindex", "unmember"} => addr[q] \in torn',
         at[q] \in {"user", "orguser", "leaveorg"} => addr[q] \in torn',
         \A e \in Emails : AccountLeads(e)'
  PROVE  TidyInv'
<1>1. RequestsShape
  BY ShapesKnown
<1>2. OwnRows(q)
  BY DEF OwnRows
<1>3. at[q] \in Working /\ addr[q] \notin torn' =>
        \A o \in Orgs : userOrg[who[q]][o] = orgUser[who[q]][o]
  <2> SUFFICES ASSUME at[q] \in Working, addr[q] \notin torn', NEW o \in Orgs
               PROVE  userOrg[who[q]][o] = orgUser[who[q]][o]
    OBVIOUS
  <2>1. ~Between(q, who[q], o) /\ addr[q] \notin torn
    BY DEF Between
  <2> QED BY <2>1, OwnDifference
<1>4. \A u \in Users : u = who[q] /\ at[q] \in Working /\ addr[q] \notin torn' =>
        \A o \in Orgs : userOrg'[u][o] = orgUser'[u][o] \/ Between(q, u, o)'
  BY <1>3
<1>5. CASE Return(q)
  <2>1. MovesOnly(q) /\ SameWho(q) /\ at'[q] = "idle" /\ Walking(q)' /\ DoneSoFar(q)'
    BY <1>1, <1>5, ReturnTidily DEF MovesOnly
  <2>2. RowShapes'
    BY <1>1, <1>5, ReturnTidily DEF TidyInv, RowShapes
  <2> HIDE DEF Return
  <2> QED BY <1>2, <1>4, <2>1, <2>2, FrameTidies
<1>6. ASSUME NEW next \in Steps \ {"idle", "system", "super", "cognito"},
             Go(q, next),
             next \in Claiming => at[q] \in Claiming,
             next \in Working => at[q] \in Working \ {"delcognito"} /\ addr[q] \in torn',
             next \in {"unindex", "unmember"} => addr[q] \in torn'
      PROVE  TidyInv'
  <2>1. /\ MovesOnly(q) /\ at'[q] = next /\ kind'[q] = kind[q] /\ addr'[q] = addr[q]
        /\ who'[q] = who[q] /\ org' = org /\ role' = role /\ todo' = todo
    BY <1>1, <1>6, GoTidily DEF MovesOnly
  <2>2. SameWho(q)
    BY <1>6, <2>1 DEF SameWho
  <2>3. Walking(q)'
    BY <1>6, <2>1 DEF TidyInv, Walking
  <2>4. DoneSoFar(q)'
    BY <1>6, <2>1 DEF DoneSoFar, Working, DeleteSteps, Leaving
  <2>5. RowShapes'
    BY <2>1 DEF TidyInv, RowShapes
  <2> QED BY <1>2, <1>4, <2>1, <2>2, <2>3, <2>4, <2>5, FrameTidies
<1> QED BY <1>5, <1>6

-----------------------------------------------------------------------------
(* The reads, the accounts and the errors.                                  *)

LEMMA UndoSteps == \A q : Undo(q) \in {"uncognito", "idle"}
BY DEF Undo

LEMMA FindLoginTidies ==
  ASSUME AddressInv, TidyInv, NEW q \in Requests, FindLogin(q)
  PROVE  TidyInv'
<1>1. /\ at[q] = "find" /\ (Return(q) \/ Go(q, "index"))
      /\ torn' = torn /\ minted' = minted /\ orgs' = orgs /\ users' = users /\ mail' = mail /\ index' = index
      /\ userOrg' = userOrg /\ orgUser' = orgUser /\ admins' = admins /\ account' = account
  BY DEF FindLogin, GoOrReturn, rowVars, histVars
<1>2. MovesOnly(q)
  BY <1>1, ShapesKnown, ReturnTidily, GoTidily DEF MovesOnly
<1>3. \A e \in Emails : AccountLeads(e)'
  <2>1. ~Accounts(q)
    BY <1>1 DEF Accounts
  <2> QED BY <1>1, <1>2, <2>1, AccountStays
<1>4. "index" \in Steps \ {"idle", "system", "super", "cognito"} /\ "index" \notin Claiming \cup Working
      /\ "index" \notin {"unindex", "unmember"}
  BY DEF Steps, Claiming, Working, DeleteSteps, Leaving
<1>5. account' \in [Emails -> {"none", "untold", "told"}]
  BY <1>1 DEF TidyInv, RowShapes
<1> HIDE DEF Steps, Return, Go
<1> QED BY <1>1, <1>3, <1>4, <1>5, RequestTidies

\* An account that is made has a request that is about to put its user.
LEMMA CreateAccountTidies ==
  ASSUME AddressInv, TidyInv, NEW q \in Requests, CreateAccount(q)
  PROVE  TidyInv'
<1>1. /\ at[q] = "cognito" /\ torn' = torn /\ minted' = minted
      /\ orgs' = orgs /\ users' = users /\ mail' = mail /\ index' = index
      /\ userOrg' = userOrg /\ orgUser' = orgUser /\ admins' = admins
      /\ \/ account' = [account EXCEPT ![addr[q]] = "untold"] /\ Go(q, "index")
         \/ account' = account /\ Return(q)
  BY DEF CreateAccount, histVars
<1>2. MovesOnly(q)
  BY <1>1, ShapesKnown, ReturnTidily, GoTidily DEF MovesOnly
<1>3. kind[q] = "create"
  BY <1>1 DEF TidyInv, Walking
<1>4. ASSUME NEW e \in Emails PROVE AccountLeads(e)'
  <2>0. ~Accounts(q) /\ account \in [Emails -> {"none", "untold", "told"}]
    BY <1>1 DEF Accounts, TidyInv, RowShapes
  <2>1. CASE account' = [account EXCEPT ![addr[q]] = "untold"] /\ Go(q, "index") /\ e = addr[q]
    <3>1. at'[q] = "index" /\ kind'[q] = "create" /\ addr'[q] = e
      BY <1>3, <2>1, ShapesKnown, GoTidily
    <3> QED BY <3>1 DEF AccountLeads, Accounts
  <2>2. CASE ~(account' = [account EXCEPT ![addr[q]] = "untold"] /\ Go(q, "index") /\ e = addr[q])
    <3>1. account'[e] = account[e]
      BY <1>1, <2>0, <2>2
    <3> QED BY <1>1, <1>2, <2>0, <3>1, AccountStays
  <2> QED BY <2>1, <2>2
<1>5. "index" \in Steps \ {"idle", "system", "super", "cognito"} /\ "index" \notin Claiming \cup Working
      /\ "index" \notin {"unindex", "unmember"}
  BY DEF Steps, Claiming, Working, DeleteSteps, Leaving
<1>6. account' \in [Emails -> {"none", "untold", "told"}]
  BY <1>1 DEF TidyInv, RowShapes
<1> HIDE DEF Steps, Return, Go
<1> QED BY <1>1, <1>4, <1>5, <1>6, RequestTidies

LEMMA AccountGone ==
  ASSUME AddressInv, TidyInv, NEW q \in Requests, DropAccount(q) \/ DeleteAccount(q)
  PROVE  TidyInv'
<1>1. /\ at[q] \in {"uncognito", "delcognito"} /\ torn' = torn /\ minted' = minted
      /\ orgs' = orgs /\ users' = users /\ mail' = mail /\ index' = index
      /\ userOrg' = userOrg /\ orgUser' = orgUser /\ admins' = admins
      /\ account' = [account EXCEPT ![addr[q]] = "none"] /\ Return(q)
  BY DEF DropAccount, DeleteAccount, histVars
<1>2. MovesOnly(q)
  BY <1>1, ShapesKnown, ReturnTidily DEF MovesOnly
<1>3. /\ account' \in [Emails -> {"none", "untold", "told"}] /\ account'[addr[q]] = "none"
      /\ \A e \in Emails : account'[e] # "none" => account[e] # "none"
  BY <1>1 DEF TidyInv, RowShapes, AddressInv, Shapes, RequestShapes
<1>4. \A e \in Emails : AccountLeads(e)'
  BY <1>1, <1>2, <1>3, AccountStays
<1> HIDE DEF Steps, Return, Go
<1> QED BY <1>1, <1>3, <1>4, RequestTidies

\* A call that raises, or a death, tears the address.
LEMMA BreakTidies ==
  ASSUME AddressInv, TidyInv, NEW q \in Requests, Break(q)
  PROVE  TidyInv'
<1>1. /\ at[q] # "idle" /\ torn' = torn \cup {addr[q]} /\ minted' = minted
      /\ orgs' = orgs /\ users' = users /\ mail' = mail /\ index' = index /\ account' = account
      /\ userOrg' = userOrg /\ orgUser' = orgUser /\ admins' = admins
      /\ Return(q) \/ (Go(q, AfterError(q)) /\ AfterError(q) # "idle")
  BY DEF Break, Running, rowVars, GoOrReturn
<1>2. MovesOnly(q)
  BY <1>1, ShapesKnown, ReturnTidily, GoTidily DEF MovesOnly
<1>3. \A e \in Emails : AccountLeads(e)'
  BY <1>1, <1>2, AccountStays
<1>4. AfterError(q) # "idle" =>
        /\ AfterError(q) \in Steps \ {"idle", "system", "super", "cognito"}
        /\ AfterError(q) \in Claiming => at[q] \in Claiming
        /\ AfterError(q) \in Working => at[q] \in Working \ {"delcognito"}
  BY UndoSteps DEF AfterError, Steps, Claiming, Working, DeleteSteps, Leaving
<1>5. account' \in [Emails -> {"none", "untold", "told"}]
  BY <1>1 DEF TidyInv, RowShapes
<1> HIDE DEF Steps, Return, Go, AfterError
<1> QED BY <1>1, <1>3, <1>4, <1>5, RequestTidies

-----------------------------------------------------------------------------
(* How a request begins.                                                    *)

\* What a request begins as: a claim, a bootstrap run, or the work on a user.
Begins(q, k, step, e, u) ==
  \/ k = "create" /\ step = "cognito"
  \/ k = "login" /\ step = "find"
  \/ k = "boot" /\ step = "system" /\ e = SuperEmail
  \/ /\ k \notin Claims /\ step \in {"userorg", "leave", "grant", "revoke"}
     /\ u \in users /\ e = mail[u]
     /\ step = "leave" => todo'[q] = Joined(u)

LEMMA BeginsAs ==
  ASSUME AddressInv, TidyInv, NEW q \in Requests, Start(q)
  PROVE  /\ UNCHANGED rowVars /\ minted' = minted
         /\ todo' \in [Requests -> SUBSET Orgs] /\ \A p \in Requests \ {q} : todo'[p] = todo[p]
         /\ \E k \in Kinds, step \in Steps, e \in Emails, u \in Users \cup {NoUser},
              o \in Orgs \cup {NoOrg}, r \in Role \cup {NoRole} :
                Begin(q, k, step, e, u, o, r) /\ Begins(q, k, step, e, u)
<1>1. /\ orgs \subseteq Orgs /\ users \subseteq Users /\ mail \in [Users -> Emails]
      /\ todo \in [Requests -> SUBSET Orgs]
  BY DEF AddressInv, Shapes, TidyInv, RowShapes
<1>2. /\ Grantable \subseteq Role /\ "orgadmin" \in Role /\ SuperEmail \in Emails
      /\ NoRole \in Role \cup {NoRole}
  BY TenancyAssumption DEF TenancyAssumption, Role
<1>3. \A u : Joined(u) \in SUBSET Orgs
  BY DEF Joined
<1> HIDE DEF Role, NoRole, Orgs, Joined, Begin
<1>4. CASE CreateUser(q)
  <2>1. PICK e \in Emails, o \in orgs, r \in Grantable : Begin(q, "create", "cognito", e, NoUser, o, r)
    BY <1>4 DEF CreateUser
  <2>2. Begins(q, "create", "cognito", e, NoUser)
    BY DEF Begins, Claims
  <2>3. "create" \in Kinds /\ "cognito" \in Steps
    BY DEF Kinds, Steps, DeleteSteps, Leaving
  <2>4. UNCHANGED rowVars /\ minted' = minted /\ todo' = todo
    BY <1>4 DEF CreateUser
  <2> QED BY <1>1, <1>2, <2>1, <2>2, <2>3, <2>4
<1>5. CASE UpdateUserRole(q)
  <2>1. PICK u \in users, o \in orgs, r \in Grantable : Begin(q, "role", "userorg", mail[u], u, o, r)
    BY <1>5 DEF UpdateUserRole
  <2>2. Begins(q, "role", "userorg", mail[u], u)
    BY DEF Begins, Claims
  <2>3. "role" \in Kinds /\ "userorg" \in Steps
    BY DEF Kinds, Steps, DeleteSteps, Leaving
  <2>4. UNCHANGED rowVars /\ minted' = minted /\ todo' = todo
    BY <1>5 DEF UpdateUserRole
  <2> QED BY <1>1, <1>2, <2>1, <2>2, <2>3, <2>4
<1>6. CASE DeleteUser(q)
  <2>1. PICK u \in users :
          /\ Begin(q, "delete", "leave", mail[u], u, NoOrg, NoRole)
          /\ todo' = [todo EXCEPT ![q] = Joined(u)]
    BY <1>6 DEF DeleteUser
  <2>2. todo'[q] = Joined(u) /\ todo' \in [Requests -> SUBSET Orgs]
        /\ \A p \in Requests \ {q} : todo'[p] = todo[p]
    BY <1>1, <1>3, <2>1
  <2>3. Begins(q, "delete", "leave", mail[u], u)
    BY <2>2 DEF Begins, Claims
  <2>4. UNCHANGED rowVars /\ minted' = minted
    BY <1>6 DEF DeleteUser
  <2>5. "delete" \in Kinds /\ "leave" \in Steps
    BY DEF Kinds, Steps, DeleteSteps, Leaving
  <2> QED BY <1>1, <1>2, <2>1, <2>2, <2>3, <2>4, <2>5
<1>7. CASE GrantSysadmin(q)
  <2>1. PICK u \in users : Begin(q, "grant", "grant", mail[u], u, NoOrg, NoRole)
    BY <1>7 DEF GrantSysadmin
  <2>2. Begins(q, "grant", "grant", mail[u], u)
    BY DEF Begins, Claims
  <2>3. "grant" \in Kinds /\ "grant" \in Steps
    BY DEF Kinds, Steps, DeleteSteps, Leaving
  <2>4. UNCHANGED rowVars /\ minted' = minted /\ todo' = todo
    BY <1>7 DEF GrantSysadmin
  <2> QED BY <1>1, <1>2, <2>1, <2>2, <2>3, <2>4
<1>8. CASE RevokeSysadmin(q)
  <2>1. PICK u \in users : Begin(q, "revoke", "revoke", mail[u], u, NoOrg, NoRole)
    BY <1>8 DEF RevokeSysadmin
  <2>2. Begins(q, "revoke", "revoke", mail[u], u)
    BY DEF Begins, Claims
  <2>3. "revoke" \in Kinds /\ "revoke" \in Steps
    BY DEF Kinds, Steps, DeleteSteps, Leaving
  <2>4. UNCHANGED rowVars /\ minted' = minted /\ todo' = todo
    BY <1>8 DEF RevokeSysadmin
  <2> QED BY <1>1, <1>2, <2>1, <2>2, <2>3, <2>4
<1>9. CASE Login(q)
  <2>1. PICK e \in Emails : Begin(q, "login", "find", e, NoUser, NoOrg, NoRole)
    BY <1>9 DEF Login
  <2>2. Begins(q, "login", "find", e, NoUser)
    BY DEF Begins, Claims
  <2>3. "login" \in Kinds /\ "find" \in Steps
    BY DEF Kinds, Steps, DeleteSteps, Leaving
  <2>4. UNCHANGED rowVars /\ minted' = minted /\ todo' = todo
    BY <1>9 DEF Login
  <2> QED BY <1>1, <1>2, <2>1, <2>2, <2>3, <2>4
<1>10. CASE Bootstrap(q)
  <2>1. Begin(q, "boot", "system", SuperEmail, NoUser, NoOrg, "orgadmin")
    BY <1>10 DEF Bootstrap
  <2>2. Begins(q, "boot", "system", SuperEmail, NoUser)
    BY DEF Begins
  <2>3. "boot" \in Kinds /\ "system" \in Steps
    BY DEF Kinds, Steps
  <2>4. UNCHANGED rowVars /\ minted' = minted /\ todo' = todo
    BY <1>10 DEF Bootstrap
  <2> QED BY <1>1, <1>2, <2>1, <2>2, <2>3, <2>4
<1> QED BY <1>4, <1>5, <1>6, <1>7, <1>8, <1>9, <1>10 DEF Start

LEMMA StartTidies ==
  ASSUME AddressInv, TidyInv, NEW q \in Requests, Start(q)
  PROVE  TidyInv'
<1>1. /\ orgs' = orgs /\ users' = users /\ mail' = mail /\ index' = index /\ userOrg' = userOrg
      /\ orgUser' = orgUser /\ admins' = admins /\ account' = account /\ minted' = minted
      /\ todo' \in [Requests -> SUBSET Orgs] /\ \A p \in Requests \ {q} : todo'[p] = todo[p]
  BY BeginsAs DEF rowVars
<1>2. PICK k \in Kinds, step \in Steps, e \in Emails, u \in Users \cup {NoUser},
              o \in Orgs \cup {NoOrg}, r \in Role \cup {NoRole} :
        Begin(q, k, step, e, u, o, r) /\ Begins(q, k, step, e, u)
  BY BeginsAs
<1>3. RequestsShape /\ SuperEmail \in Emails /\ AddressInv
  BY ShapesKnown
<1>4. /\ at[q] = "idle" /\ at'[q] = step /\ kind'[q] = k /\ addr'[q] = e /\ who'[q] = u
      /\ \A p \in Requests \ {q} :
           /\ at'[p] = at[p] /\ kind'[p] = kind[p] /\ addr'[p] = addr[p] /\ who'[p] = who[p]
           /\ org'[p] = org[p] /\ role'[p] = role[p]
      /\ org' \in [Requests -> Orgs \cup {NoOrg}] /\ role' \in [Requests -> Role \cup {NoRole}]
      /\ torn' = IF Meets(e) = {} \/ Meets(e) \cup {k} \subseteq Claims
                 THEN torn ELSE torn \cup {e}
  BY <1>2, <1>3 DEF Begin, RequestsShape
<1>5. MovesOnly(q)
  BY <1>1, <1>4 DEF MovesOnly, Stays
<1>6. ASSUME NEW p \in Requests \ {q}, at[p] # "idle", addr[p] = e, e \notin torn'
      PROVE  kind[p] \in Claims /\ k \in Claims
  <2>1. kind[p] \in Meets(e)
    BY <1>6 DEF Meets, Running
  <2> QED BY <1>4, <1>6, <2>1
<1>7. /\ step \notin Claiming /\ at[q] \notin Working \cup Claiming
      /\ step \in Working =>
           /\ k \notin Claims /\ u \in users /\ e = mail[u] /\ u \in Users /\ u \in minted
           /\ step \in {"userorg", "leave", "grant", "revoke"}
           /\ step = "leave" => todo'[q] = Joined(u)
  BY <1>2, <1>4 DEF Begins, Claiming, Working, DeleteSteps, Leaving, AddressInv, Shapes
<1>8. ASSUME step \in Working, NEW p \in Requests \ {q}, who[p] = u, at[p] \in Working
      PROVE  e \in torn'
  <2>1. addr[p] = mail[u] /\ at[p] # "idle"
    BY <1>8 DEF TidyInv, Walking, Working, DeleteSteps, Leaving
  <2> QED BY <1>6, <1>7, <1>8, <2>1
<1>9. RowShapes'
  BY <1>1, <1>4 DEF TidyInv, RowShapes
<1>10. Overlaps'
  <2> SUFFICES ASSUME NEW p \in Requests, NEW x \in Requests, p # x,
                      at'[p] # "idle", at'[x] # "idle", addr'[p] = addr'[x], addr'[p] \notin torn'
               PROVE  kind'[p] \in Claims /\ kind'[x] \in Claims
    BY DEF Overlaps, Running
  <2>1. CASE p # q /\ x # q
    <3>1. addr[p] \notin torn
      BY <1>5, <2>1 DEF MovesOnly, Stays
    <3> QED BY <1>4, <2>1, <3>1 DEF TidyInv, Overlaps, Running
  <2>2. CASE p = q
    BY <1>4, <1>6, <2>2
  <2>3. CASE x = q
    BY <1>4, <1>6, <2>3
  <2> QED BY <2>1, <2>2, <2>3
<1>11. \A p \in Requests : Walking(p)'
  <2>1. \A p \in Requests \ {q} : Walking(p)'
    BY <1>1, <1>5, WalkingStays
  <2>2. Walking(q)'
    BY <1>1, <1>2, <1>4, <1>7 DEF Walking, Begins
  <2> QED BY <2>1, <2>2
<1>12. \A p \in Requests : DoneSoFar(p)'
  <2>1. ASSUME NEW p \in Requests \ {q} PROVE DoneSoFar(p)'
    BY <1>1, <1>5 DEF TidyInv, DoneSoFar, MovesOnly, Stays, Bare, NoRows
  <2>2. DoneSoFar(q)'
    BY <1>1, <1>4, <1>7 DEF DoneSoFar, Joined, Working, DeleteSteps, Leaving
  <2> QED BY <2>1, <2>2
<1>13. \A p, x \in Requests : p # x => Alone(p, x)'
  <2> SUFFICES ASSUME NEW p \in Requests, NEW x \in Requests, p # x,
                      who'[p] = who'[x], at'[p] \in Working
               PROVE  at'[x] \notin Claiming /\ (at'[x] \in Working => addr'[p] \in torn')
    BY DEF Alone
  <2>1. CASE p # q /\ x # q
    BY <1>5, <2>1 DEF TidyInv, Alone, MovesOnly, Stays
  <2>2. CASE p = q
    <3>1. u \in users /\ who[x] = u /\ at'[x] = at[x]
      BY <1>4, <1>7, <2>2
    <3>2. at[x] \notin Claiming
      BY <3>1 DEF AddressInv, ClaimHolds
    <3> QED BY <1>4, <1>8, <2>2, <3>1, <3>2
  <2>3. CASE x = q
    <3>1. at[p] \in Working /\ who[p] = u /\ at'[x] = step /\ addr'[p] = addr[p]
      BY <1>4, <2>3
    <3>2. step \in Working => addr[p] = e
      BY <1>7, <3>1 DEF TidyInv, Walking
    <3> QED BY <1>7, <1>8, <2>3, <3>1, <3>2
  <2> QED BY <2>1, <2>2, <2>3
<1>14. \A x \in Emails : IndexLeads(x)'
  <2>1. SameWho(q) \/ at'[q] \in Working
    BY <1>4, <1>7 DEF SameWho
  <2>2. \A p \in Requests : at'[p] \in Claiming => p # q /\ at[p] \in Claiming /\ who'[p] = who[p] /\ addr'[p] = addr[p]
    BY <1>4, <1>7
  <2>3. \A p \in Requests : at[p] = "user" => at'[p] = "user" /\ who'[p] = who[p]
    BY <1>4
  <2> QED BY <1>1, <1>5, <2>2, <2>3 DEF TidyInv, IndexLeads, MovesOnly
<1>15. \A x \in Emails : AccountLeads(x)'
  <2>1. ~Accounts(q)
    BY <1>4 DEF Accounts
  <2> QED BY <1>1, <1>5, <2>1, AccountStays
<1>16. \A v \in Users : Blank(v)'
  <2>1. \A p \in Requests : at'[p] \in Claiming => at[p] \in Claiming /\ who'[p] = who[p]
    BY <1>4, <1>7
  <2> QED BY <1>1, <1>5, <2>1 DEF TidyInv, Blank, Bare, NoRows, MovesOnly
<1>17. \A v \in Users : \A x \in Orgs : Sided(v, x)'
  <2>1. OwnRows(q)
    BY <1>1 DEF OwnRows
  <2> QED BY <1>1, <1>5, <1>7, <2>1, SidedStays
<1> QED BY <1>9, <1>10, <1>11, <1>12, <1>13, <1>14, <1>15, <1>16, <1>17 DEF TidyInv

-----------------------------------------------------------------------------
(* Memberships and administrators.                                          *)

LEMMA EnsureTidies ==
  ASSUME AddressInv, TidyInv, NEW q \in Requests, EnsureSystemOrg(q)
  PROVE  TidyInv'
<1>1. /\ at[q] = "system" /\ at' = [at EXCEPT ![q] = "super"]
      /\ users' = users /\ mail' = mail /\ index' = index /\ userOrg' = userOrg
      /\ orgUser' = orgUser /\ admins' = admins /\ account' = account
      /\ kind' = kind /\ addr' = addr /\ who' = who /\ role' = role /\ todo' = todo
      /\ torn' = torn /\ minted \subseteq minted'
  BY DEF EnsureSystemOrg
<1>2. orgs' \subseteq Orgs /\ \E o \in Orgs : org' = [org EXCEPT ![q] = o]
  BY DEF EnsureSystemOrg, Orgs, TidyInv, RowShapes
<1>3. RequestsShape
  BY ShapesKnown
<1>4. at'[q] = "super" /\ MovesOnly(q) /\ SameWho(q)
  BY <1>1, <1>2, <1>3
  DEF RequestsShape, MovesOnly, Stays, SameWho, Working, Claiming, DeleteSteps, Leaving
<1>5. RowShapes'
  BY <1>1, <1>2 DEF TidyInv, RowShapes
<1>6. at[q] \notin Working \cup Claiming
  BY <1>1 DEF Working, Claiming, DeleteSteps, Leaving
<1>7. Walking(q)' /\ DoneSoFar(q)'
  BY <1>1, <1>4 DEF TidyInv, Walking, DoneSoFar, Working, DeleteSteps, Leaving
<1>8. \A e \in Emails : AccountLeads(e)'
  <2>1. ~Accounts(q)
    BY <1>1 DEF Accounts
  <2> QED BY <1>1, <1>4, <2>1, AccountStays
<1>9. OwnRows(q)
  BY <1>1 DEF OwnRows
<1> QED BY <1>1, <1>4, <1>5, <1>6, <1>7, <1>8, <1>9, FrameTidies

\* A row of one side of a membership is put or taken away.
LEMMA RowWritten ==
  ASSUME NEW rows \in [Users -> [Orgs -> Role \cup {NoRole}]], NEW u \in Users, NEW o,
         NEW r \in Role \cup {NoRole}
  PROVE  LET after == [rows EXCEPT ![u][o] = r]
         IN /\ after \in [Users -> [Orgs -> Role \cup {NoRole}]]
            /\ \A v \in Users \ {u} : after[v] = rows[v]
            /\ \A x \in Orgs : after[u][x] = IF x = o THEN r ELSE rows[u][x]
OBVIOUS

\* One side of the user's membership in the org is written, and not the other.
MidWay(q, o) == org[q] = o /\ at[q] \in {"orguser", "leaveorg"}

\* What the steps below have in common: a request at work moves on, or ends.
LEMMA WorkTidies ==
  ASSUME AddressInv, TidyInv, NEW q \in Requests, MovesOnly(q), at[q] \in Working,
         at'[q] # "idle" => addr'[q] = addr[q] /\ kind'[q] = kind[q] /\ who'[q] = who[q],
         at'[q] \in (Working \ {"delcognito"}) \cup {"uncognito", "idle"},
         at'[q] = "unmember" => addr[q] \in torn', at[q] # "delcognito",
         users' = users, mail' = mail, index' = index,
         \A v \in Users \ {who[q]} :
           userOrg'[v] = userOrg[v] /\ orgUser'[v] = orgUser[v] /\ (v \in admins' => v \in admins),
         RowShapes', DoneSoFar(q)',
         addr[q] \notin torn' =>
           \A o \in Orgs : userOrg'[who[q]][o] = orgUser'[who[q]][o] \/ MidWay(q, o)',
         \A e \in Emails : AccountLeads(e)'
  PROVE  TidyInv'
<1>1. "idle" \notin Working \cup Claiming /\ "uncognito" \notin Working \cup Claiming
      /\ Working \cap Claiming = {} /\ at[q] # "idle" /\ at[q] # "user"
      /\ Working \cap {"system", "super", "cognito", "unindex"} = {}
  BY DEF Working, Claiming, DeleteSteps, Leaving
<1>2. SameWho(q)
  BY <1>1 DEF SameWho
<1>3. OwnRows(q)
  BY DEF OwnRows
<1>4. Walking(q)'
  <2>1. /\ who[q] \in Users /\ who[q] \in minted /\ mail[who[q]] = addr[q]
        /\ addr[q] \notin torn => who[q] \in users
    BY DEF TidyInv, Walking
  <2> QED BY <1>1, <2>1 DEF Walking, MovesOnly
<1>5. \A u \in Users : u = who[q] /\ at[q] \in Working /\ addr[q] \notin torn' =>
        \A o \in Orgs : userOrg'[u][o] = orgUser'[u][o] \/ Between(q, u, o)'
  BY DEF Between, MidWay
<1>6. at[q] = "user" => addr[q] \in torn'
  BY <1>1
<1> QED BY <1>1, <1>2, <1>3, <1>4, <1>5, <1>6, FrameTidies

LEMMA PutUserOrgTidies ==
  ASSUME AddressInv, TidyInv, NEW q \in Requests, PutUserOrg(q)
  PROVE  TidyInv'
<1>1. /\ at[q] = "userorg" /\ Go(q, "orguser") /\ torn' = torn /\ minted' = minted
      /\ userOrg' = [userOrg EXCEPT ![who[q]][org[q]] = role[q]]
      /\ orgs' = orgs /\ users' = users /\ mail' = mail /\ index' = index
      /\ orgUser' = orgUser /\ admins' = admins /\ account' = account
  BY DEF PutUserOrg, histVars
<1>2. RequestsShape /\ at[q] \in Working /\ "orguser" \in Working
  BY <1>1, ShapesKnown DEF Working
<1>3. /\ MovesOnly(q) /\ at'[q] = "orguser" /\ kind'[q] = kind[q] /\ addr'[q] = addr[q]
      /\ who'[q] = who[q] /\ org' = org /\ role' = role /\ todo' = todo
  BY <1>1, <1>2, GoTidily DEF MovesOnly
<1>4. who[q] \in Users /\ role[q] \in Role \cup {NoRole}
  BY <1>2 DEF TidyInv, Walking, RequestsShape
<1>5. /\ userOrg' \in [Users -> [Orgs -> Role \cup {NoRole}]]
      /\ \A v \in Users \ {who[q]} : userOrg'[v] = userOrg[v]
      /\ \A x \in Orgs : userOrg'[who[q]][x] = IF x = org[q] THEN role[q] ELSE userOrg[who[q]][x]
  <2>1. userOrg \in [Users -> [Orgs -> Role \cup {NoRole}]]
    BY DEF TidyInv, RowShapes
  <2> QED BY <1>1, <1>4, <2>1, RowWritten
<1>6. RowShapes'
  BY <1>1, <1>3, <1>5 DEF TidyInv, RowShapes
<1>7. DoneSoFar(q)'
  BY <1>3, <1>5 DEF DoneSoFar
<1>8. ASSUME addr[q] \notin torn', NEW o \in Orgs
      PROVE  userOrg'[who[q]][o] = orgUser'[who[q]][o] \/ MidWay(q, o)'
  <2>1. o # org[q] => userOrg[who[q]][o] = orgUser[who[q]][o]
    BY <1>1, <1>2, <1>8, OwnDifference DEF Between
  <2>2. o = org[q] => MidWay(q, o)'
    BY <1>3 DEF MidWay
  <2> QED BY <1>1, <1>5, <2>1, <2>2
<1>9. \A e \in Emails : AccountLeads(e)'
  <2>1. ~Accounts(q)
    BY <1>1 DEF Accounts
  <2> QED BY <1>1, <1>3, <2>1, AccountStays
<1> QED BY <1>1, <1>2, <1>3, <1>5, <1>6, <1>7, <1>8, <1>9, WorkTidies

LEMMA PutOrgUserTidies ==
  ASSUME AddressInv, TidyInv, NEW q \in Requests, PutOrgUser(q)
  PROVE  TidyInv'
<1>1. /\ at[q] = "orguser" /\ (Return(q) \/ Go(q, "grant")) /\ torn' = torn /\ minted' = minted
      /\ orgUser' = [orgUser EXCEPT ![who[q]][org[q]] = role[q]]
      /\ orgs' = orgs /\ users' = users /\ mail' = mail /\ index' = index
      /\ userOrg' = userOrg /\ admins' = admins
      /\ \/ account' = account
         \/ account[addr[q]] = "untold" /\ account' = [account EXCEPT ![addr[q]] = "told"]
  BY DEF PutOrgUser, histVars, GoOrReturn, AfterBoot
<1>2. RequestsShape /\ at[q] \in Working
  BY <1>1, ShapesKnown DEF Working
<1>3. /\ MovesOnly(q) /\ at'[q] \in {"grant", "idle"}
      /\ at'[q] # "idle" => kind'[q] = kind[q] /\ addr'[q] = addr[q] /\ who'[q] = who[q]
      /\ org' \in [Requests -> Orgs \cup {NoOrg}] /\ role' \in [Requests -> Role \cup {NoRole}]
      /\ todo' \in [Requests -> SUBSET Orgs]
  BY <1>1, <1>2, ReturnTidily, GoTidily DEF MovesOnly, RequestsShape
<1>4. who[q] \in Users /\ role[q] \in Role \cup {NoRole}
  BY <1>2 DEF TidyInv, Walking, RequestsShape
<1>5. /\ orgUser' \in [Users -> [Orgs -> Role \cup {NoRole}]]
      /\ \A v \in Users \ {who[q]} : orgUser'[v] = orgUser[v]
      /\ \A x \in Orgs : orgUser'[who[q]][x] = IF x = org[q] THEN role[q] ELSE orgUser[who[q]][x]
  <2>1. orgUser \in [Users -> [Orgs -> Role \cup {NoRole}]]
    BY DEF TidyInv, RowShapes
  <2> QED BY <1>1, <1>4, <2>1, RowWritten
<1>6. /\ account' \in [Emails -> {"none", "untold", "told"}]
      /\ \A e \in Emails : account'[e] # "none" => account[e] # "none"
  BY <1>1 DEF TidyInv, RowShapes
<1>7. RowShapes'
  BY <1>1, <1>3, <1>5, <1>6 DEF TidyInv, RowShapes
<1>8. DoneSoFar(q)'
  BY <1>3 DEF DoneSoFar
<1>9. ASSUME addr[q] \notin torn', NEW o \in Orgs
      PROVE  userOrg'[who[q]][o] = orgUser'[who[q]][o] \/ MidWay(q, o)'
  <2>1. o # org[q] => userOrg[who[q]][o] = orgUser[who[q]][o]
    BY <1>1, <1>2, <1>9, OwnDifference DEF Between
  <2>2. o = org[q] => userOrg[who[q]][o] = role[q]
    BY <1>1, <1>9 DEF TidyInv, DoneSoFar
  <2> QED BY <1>1, <1>5, <2>1, <2>2
<1>10. \A e \in Emails : AccountLeads(e)'
  <2>1. ~Accounts(q)
    BY <1>1 DEF Accounts
  <2> QED BY <1>1, <1>3, <1>6, <2>1, AccountStays
<1>11. {"grant", "idle"} \subseteq (Working \ {"delcognito"}) \cup {"uncognito", "idle"}
  BY DEF Working
<1> QED BY <1>1, <1>2, <1>3, <1>5, <1>7, <1>8, <1>9, <1>10, <1>11, WorkTidies

LEMMA DropUserOrgTidies ==
  ASSUME AddressInv, TidyInv, NEW q \in Requests, DropUserOrg(q)
  PROVE  TidyInv'
<1>1. /\ at[q] = "unmember" /\ (Return(q) \/ Go(q, "uncognito")) /\ torn' = torn /\ minted' = minted
      /\ userOrg' = [userOrg EXCEPT ![who[q]][org[q]] = NoRole]
      /\ orgs' = orgs /\ users' = users /\ mail' = mail /\ index' = index
      /\ orgUser' = orgUser /\ admins' = admins /\ account' = account
  BY UndoSteps DEF DropUserOrg, histVars, GoOrReturn
<1>2. RequestsShape /\ at[q] \in Working
  BY <1>1, ShapesKnown DEF Working
<1>3. /\ MovesOnly(q) /\ at'[q] \in {"uncognito", "idle"}
      /\ at'[q] # "idle" => kind'[q] = kind[q] /\ addr'[q] = addr[q] /\ who'[q] = who[q]
      /\ org' \in [Requests -> Orgs \cup {NoOrg}] /\ role' \in [Requests -> Role \cup {NoRole}]
      /\ todo' \in [Requests -> SUBSET Orgs]
  BY <1>1, <1>2, ReturnTidily, GoTidily DEF MovesOnly, RequestsShape
<1>4. who[q] \in Users /\ addr[q] \in torn /\ NoRole \in Role \cup {NoRole}
  BY <1>1, <1>2 DEF TidyInv, Walking
<1>5. /\ userOrg' \in [Users -> [Orgs -> Role \cup {NoRole}]]
      /\ \A v \in Users \ {who[q]} : userOrg'[v] = userOrg[v]
  <2>1. userOrg \in [Users -> [Orgs -> Role \cup {NoRole}]]
    BY DEF TidyInv, RowShapes
  <2> QED BY <1>1, <1>4, <2>1, RowWritten
<1>6. RowShapes'
  BY <1>1, <1>3, <1>5 DEF TidyInv, RowShapes
<1>7. DoneSoFar(q)'
  BY <1>3 DEF DoneSoFar
<1>8. \A e \in Emails : AccountLeads(e)'
  <2>1. ~Accounts(q)
    BY <1>1 DEF Accounts
  <2> QED BY <1>1, <1>3, <2>1, AccountStays
<1> QED BY <1>1, <1>2, <1>3, <1>4, <1>5, <1>6, <1>7, <1>8, WorkTidies

LEMMA PutAdminTidies ==
  ASSUME AddressInv, TidyInv, NEW q \in Requests, PutAdmin(q)
  PROVE  TidyInv'
<1>1. /\ at[q] = "grant" /\ Return(q) /\ torn' = torn /\ minted' = minted
      /\ admins' = admins \cup {who[q]}
      /\ orgs' = orgs /\ users' = users /\ mail' = mail /\ index' = index
      /\ userOrg' = userOrg /\ orgUser' = orgUser /\ account' = account
  BY DEF PutAdmin, histVars
<1>2. RequestsShape /\ at[q] \in Working
  BY <1>1, ShapesKnown DEF Working
<1>3. /\ MovesOnly(q) /\ at'[q] = "idle" /\ DoneSoFar(q)'
      /\ org' \in [Requests -> Orgs \cup {NoOrg}] /\ role' \in [Requests -> Role \cup {NoRole}]
      /\ todo' \in [Requests -> SUBSET Orgs]
  BY <1>1, <1>2, ReturnTidily DEF MovesOnly
<1>4. RowShapes'
  BY <1>1, <1>3 DEF TidyInv, RowShapes
<1>5. ASSUME addr[q] \notin torn', NEW o \in Orgs
      PROVE  userOrg'[who[q]][o] = orgUser'[who[q]][o] \/ MidWay(q, o)'
  BY <1>1, <1>2, <1>5, OwnDifference DEF Between
<1>6. \A e \in Emails : AccountLeads(e)'
  <2>1. ~Accounts(q)
    BY <1>1 DEF Accounts
  <2> QED BY <1>1, <1>3, <2>1, AccountStays
<1> QED BY <1>1, <1>2, <1>3, <1>4, <1>5, <1>6, WorkTidies

\* Whoever has left all orgs and is no administrator any more has no rows left.
LEMMA DropAdminTidies ==
  ASSUME AddressInv, TidyInv, NEW q \in Requests, DropAdmin(q)
  PROVE  TidyInv'
<1>1. /\ \/ at[q] = "revoke" /\ Return(q)
         \/ at[q] = "leave" /\ todo[q] = {} /\ Go(q, "delindex")
      /\ torn' = torn /\ minted' = minted /\ admins' = admins \ {who[q]}
      /\ orgs' = orgs /\ users' = users /\ mail' = mail /\ index' = index
      /\ userOrg' = userOrg /\ orgUser' = orgUser /\ account' = account
  BY DEF DropAdmin
<1>2. RequestsShape /\ at[q] \in Working
  BY <1>1, ShapesKnown DEF Working, DeleteSteps, Leaving
<1>3. /\ MovesOnly(q) /\ at'[q] \in {"delindex", "idle"}
      /\ at'[q] # "idle" =>
           /\ kind'[q] = kind[q] /\ addr'[q] = addr[q] /\ who'[q] = who[q]
           /\ at[q] = "leave" /\ todo[q] = {}
      /\ org' \in [Requests -> Orgs \cup {NoOrg}] /\ role' \in [Requests -> Role \cup {NoRole}]
      /\ todo' \in [Requests -> SUBSET Orgs]
  BY <1>1, <1>2, ReturnTidily, GoTidily DEF MovesOnly, RequestsShape
<1>4. RowShapes'
  BY <1>1, <1>3 DEF TidyInv, RowShapes
<1>5. ASSUME addr[q] \notin torn', NEW o \in Orgs
      PROVE  userOrg'[who[q]][o] = orgUser'[who[q]][o] \/ MidWay(q, o)'
  BY <1>1, <1>2, <1>5, OwnDifference DEF Between
<1>6. \A e \in Emails : AccountLeads(e)'
  <2>1. ~Accounts(q)
    BY <1>1 DEF Accounts
  <2> QED BY <1>1, <1>3, <2>1, AccountStays
<1>7. DoneSoFar(q)'
  <2> SUFFICES ASSUME at'[q] = "delindex", addr[q] \notin torn PROVE Bare(who[q])'
    BY <1>1, <1>3 DEF DoneSoFar, Bare, NoRows
  <2>1. who[q] \in Users /\ userOrg[who[q]] \in [Orgs -> Role \cup {NoRole}]
    BY <1>2 DEF TidyInv, Walking, RowShapes
  <2>2. \A o \in Orgs : userOrg[who[q]][o] = NoRole
    BY <1>3 DEF TidyInv, DoneSoFar
  <2>3. userOrg[who[q]] = NoRows[who[q]]
    BY <2>1, <2>2 DEF NoRows
  <2> QED BY <1>1, <1>3, <2>3 DEF Bare, NoRows
<1>8. {"delindex", "idle"} \subseteq (Working \ {"delcognito"}) \cup {"uncognito", "idle"}
  BY DEF Working, DeleteSteps, Leaving
<1> QED BY <1>1, <1>2, <1>3, <1>4, <1>5, <1>6, <1>7, <1>8, WorkTidies

LEMMA DeleteUserOrgTidies ==
  ASSUME AddressInv, TidyInv, NEW q \in Requests, DeleteUserOrg(q)
  PROVE  TidyInv'
<1>1. /\ at[q] = "leave" /\ at' = [at EXCEPT ![q] = "leaveorg"] /\ torn' = torn /\ minted' = minted
      /\ orgs' = orgs /\ users' = users /\ mail' = mail /\ index' = index
      /\ orgUser' = orgUser /\ admins' = admins /\ account' = account
      /\ kind' = kind /\ addr' = addr /\ who' = who /\ role' = role
  BY DEF DeleteUserOrg, histVars
<1>2. PICK left \in todo[q] :
        /\ userOrg' = [userOrg EXCEPT ![who[q]][left] = NoRole]
        /\ org' = [org EXCEPT ![q] = left]
        /\ todo' = [todo EXCEPT ![q] = todo[q] \ {left}]
  BY DEF DeleteUserOrg
<1>3. RequestsShape /\ at[q] \in Working
  BY <1>1, ShapesKnown DEF Working, DeleteSteps, Leaving
<1>4. /\ left \in Orgs /\ at'[q] = "leaveorg" /\ org'[q] = left /\ todo'[q] = todo[q] \ {left}
      /\ \A p \in Requests \ {q} : Stays(p)
      /\ org' \in [Requests -> Orgs \cup {NoOrg}] /\ todo' \in [Requests -> SUBSET Orgs]
  BY <1>1, <1>2, <1>3 DEF RequestsShape, Stays
<1>5. MovesOnly(q)
  BY <1>1, <1>4 DEF MovesOnly
<1>6. who[q] \in Users /\ NoRole \in Role \cup {NoRole}
  BY <1>3 DEF TidyInv, Walking
<1>7. /\ userOrg' \in [Users -> [Orgs -> Role \cup {NoRole}]]
      /\ \A v \in Users \ {who[q]} : userOrg'[v] = userOrg[v]
      /\ \A x \in Orgs : userOrg'[who[q]][x] = IF x = left THEN NoRole ELSE userOrg[who[q]][x]
  <2>1. userOrg \in [Users -> [Orgs -> Role \cup {NoRole}]]
    BY DEF TidyInv, RowShapes
  <2>2. userOrg' = [userOrg EXCEPT ![who[q]][left] = NoRole]
    BY <1>2
  <2> QED BY <1>6, <2>1, <2>2, RowWritten
<1>8. RowShapes'
  BY <1>1, <1>4, <1>7 DEF TidyInv, RowShapes
<1>9. DoneSoFar(q)'
  <2> SUFFICES ASSUME addr[q] \notin torn
               PROVE  /\ userOrg'[who[q]][left] = NoRole
                      /\ \A o \in Orgs : userOrg'[who[q]][o] # NoRole => o \in todo[q] \ {left}
    BY <1>1, <1>4 DEF DoneSoFar
  <2>1. \A o \in Orgs : userOrg[who[q]][o] # NoRole => o \in todo[q]
    BY <1>1 DEF TidyInv, DoneSoFar
  <2> QED BY <1>4, <1>7, <2>1
<1>10. ASSUME addr[q] \notin torn', NEW o \in Orgs
       PROVE  userOrg'[who[q]][o] = orgUser'[who[q]][o] \/ MidWay(q, o)'
  <2>1. o # left => userOrg[who[q]][o] = orgUser[who[q]][o]
    BY <1>1, <1>3, <1>10, OwnDifference DEF Between
  <2>2. o = left => MidWay(q, o)'
    BY <1>4 DEF MidWay
  <2> QED BY <1>1, <1>7, <2>1, <2>2
<1>11. \A e \in Emails : AccountLeads(e)'
  <2>1. ~Accounts(q)
    BY <1>1 DEF Accounts
  <2> QED BY <1>1, <1>5, <2>1, AccountStays
<1>12. "leaveorg" \in Working \ {"delcognito"}
  BY DEF Working, DeleteSteps, Leaving
<1> QED BY <1>1, <1>3, <1>4, <1>5, <1>7, <1>8, <1>9, <1>10, <1>11, <1>12, WorkTidies

LEMMA DeleteOrgUserTidies ==
  ASSUME AddressInv, TidyInv, NEW q \in Requests, DeleteOrgUser(q)
  PROVE  TidyInv'
<1>1. /\ at[q] = "leaveorg" /\ Go(q, "leave") /\ torn' = torn /\ minted' = minted
      /\ orgUser' = [orgUser EXCEPT ![who[q]][org[q]] = NoRole]
      /\ orgs' = orgs /\ users' = users /\ mail' = mail /\ index' = index
      /\ userOrg' = userOrg /\ admins' = admins /\ account' = account
  BY DEF DeleteOrgUser, histVars, Left
<1>2. RequestsShape /\ at[q] \in Working
  BY <1>1, ShapesKnown DEF Working, DeleteSteps, Leaving
<1>3. /\ MovesOnly(q) /\ at'[q] = "leave" /\ kind'[q] = kind[q] /\ addr'[q] = addr[q]
      /\ who'[q] = who[q] /\ org' = org /\ role' = role /\ todo' = todo
  BY <1>1, <1>2, GoTidily DEF MovesOnly
<1>4. who[q] \in Users /\ NoRole \in Role \cup {NoRole}
  BY <1>2 DEF TidyInv, Walking
<1>5. /\ orgUser' \in [Users -> [Orgs -> Role \cup {NoRole}]]
      /\ \A v \in Users \ {who[q]} : orgUser'[v] = orgUser[v]
      /\ \A x \in Orgs : orgUser'[who[q]][x] = IF x = org[q] THEN NoRole ELSE orgUser[who[q]][x]
  <2>1. orgUser \in [Users -> [Orgs -> Role \cup {NoRole}]]
    BY DEF TidyInv, RowShapes
  <2> QED BY <1>1, <1>4, <2>1, RowWritten
<1>6. RowShapes'
  BY <1>1, <1>3, <1>5 DEF TidyInv, RowShapes
<1>7. DoneSoFar(q)'
  <2>1. addr[q] \notin torn => \A o \in Orgs : userOrg[who[q]][o] # NoRole => o \in todo[q]
    BY <1>1 DEF TidyInv, DoneSoFar
  <2> QED BY <1>1, <1>3, <2>1 DEF DoneSoFar
<1>8. ASSUME addr[q] \notin torn', NEW o \in Orgs
      PROVE  userOrg'[who[q]][o] = orgUser'[who[q]][o] \/ MidWay(q, o)'
  <2>1. o # org[q] => userOrg[who[q]][o] = orgUser[who[q]][o]
    BY <1>1, <1>2, <1>8, OwnDifference DEF Between
  <2>2. o = org[q] => userOrg[who[q]][o] = NoRole
    BY <1>1, <1>8 DEF TidyInv, DoneSoFar
  <2> QED BY <1>1, <1>5, <2>1, <2>2
<1>9. \A e \in Emails : AccountLeads(e)'
  <2>1. ~Accounts(q)
    BY <1>1 DEF Accounts
  <2> QED BY <1>1, <1>3, <2>1, AccountStays
<1>10. "leave" \in Working \ {"delcognito"}
  BY DEF Working, DeleteSteps, Leaving
<1> QED BY <1>1, <1>2, <1>3, <1>5, <1>6, <1>7, <1>8, <1>9, <1>10, WorkTidies

-----------------------------------------------------------------------------
(* The rows of the address: the index and the user.                          *)

\* Superwoman is found without her membership: the run sets it right.
LEMMA SuperFound ==
  ASSUME AddressInv, TidyInv, NEW q \in Requests, NEW u \in users,
         at[q] = "super", index[SuperEmail] = u, UNCHANGED rowVars, UNCHANGED histVars,
         at' = [at EXCEPT ![q] = "userorg"], kind' = [kind EXCEPT ![q] = "reboot"],
         who' = [who EXCEPT ![q] = u], addr' = addr, org' = org, role' = role, todo' = todo
  PROVE  TidyInv'
<1>1. RequestsShape /\ SuperEmail \in Emails /\ u \in Users
  BY ShapesKnown DEF AddressInv, Shapes
<1>2. kind[q] = "boot" /\ addr[q] = SuperEmail
  BY DEF TidyInv, Walking
<1>3. /\ at'[q] = "userorg" /\ kind'[q] = "reboot" /\ who'[q] = u /\ addr'[q] = SuperEmail
      /\ MovesOnly(q)
  BY <1>1, <1>2 DEF RequestsShape, MovesOnly, Stays, histVars
<1>4. /\ orgs' = orgs /\ users' = users /\ mail' = mail /\ index' = index /\ userOrg' = userOrg
      /\ orgUser' = orgUser /\ admins' = admins /\ account' = account
      /\ minted' = minted /\ torn' = torn
  BY DEF rowVars, histVars
<1>5. u \in minted /\ mail[u] = SuperEmail
  <2>1. u # NoUser
    BY <1>1, TenancyAssumption DEF TenancyAssumption
  <2> QED BY <1>1, <2>1 DEF TidyInv, IndexLeads
<1>6. /\ at[q] \notin Working \cup Claiming /\ "userorg" \notin Claiming /\ at[q] # "user"
      /\ ~Accounts(q)
  BY DEF Working, Claiming, DeleteSteps, Leaving, Accounts
<1>7. OwnRows(q)
  BY <1>4 DEF OwnRows
<1>8. Overlaps'
  BY <1>2, <1>3, OverlapsStay DEF Claims
<1>9. \A p \in Requests : Walking(p)'
  <2>1. \A p \in Requests \ {q} : Walking(p)'
    BY <1>3, <1>4, WalkingStays
  <2>2. Walking(q)'
    BY <1>1, <1>3, <1>4, <1>5 DEF Walking
  <2> QED BY <2>1, <2>2
<1>10. \A p \in Requests : DoneSoFar(p)'
  <2>1. KindsFit /\ RequestShapes
    BY DEF AddressInv, Shapes
  <2>2. \A p \in Requests \ {q} : DoneSoFar(p)'
    BY <1>3, <1>4, <1>7, <2>1, DoneStays
  <2>3. DoneSoFar(q)'
    BY <1>3 DEF DoneSoFar
  <2> QED BY <2>2, <2>3
<1>11. \A p, r \in Requests : p # r => Alone(p, r)'
  <2> SUFFICES ASSUME NEW p \in Requests, NEW r \in Requests, p # r,
                      who'[p] = who'[r], at'[p] \in Working
               PROVE  at'[r] \notin Claiming /\ (at'[r] \in Working => addr'[p] \in torn')
    BY DEF Alone
  <2>1. ASSUME NEW x \in Requests \ {q}, at[x] \in Working, who[x] = u
        PROVE  addr[x] = SuperEmail /\ SuperEmail \in torn
    <3>1. addr[x] = SuperEmail /\ at[x] # "idle"
      BY <1>5, <2>1 DEF TidyInv, Walking, Working, DeleteSteps, Leaving
    <3> QED BY <1>2, <2>1, <3>1 DEF TidyInv, Overlaps, Running, Claims
  <2>2. CASE p # q /\ r # q
    BY <1>3, <2>2 DEF TidyInv, Alone, MovesOnly, Stays
  <2>3. CASE p = q
    <3>1. at'[r] = at[r] /\ who[r] = u
      BY <1>3, <2>3 DEF MovesOnly, Stays
    <3>2. at[r] \notin Claiming
      BY <3>1 DEF AddressInv, ClaimHolds
    <3> QED BY <1>3, <1>4, <2>1, <2>3, <3>1, <3>2
  <2>4. CASE r = q
    <3>1. at[p] \in Working /\ who[p] = u /\ addr'[p] = addr[p]
      BY <1>3, <2>4 DEF MovesOnly, Stays
    <3> QED BY <1>3, <1>4, <1>6, <2>1, <2>4, <3>1
  <2> QED BY <2>2, <2>3, <2>4
<1>12. \A p \in Requests :
         /\ at'[p] \in Claiming => at[p] \in Claiming /\ who'[p] = who[p] /\ addr'[p] = addr[p]
         /\ at[p] = "user" => at'[p] = "user" /\ who'[p] = who[p]
  BY <1>3, <1>6 DEF MovesOnly, Stays
<1>13. \A e \in Emails : IndexLeads(e)'
  BY <1>4, <1>12 DEF TidyInv, IndexLeads
<1>14. \A e \in Emails : AccountLeads(e)'
  BY <1>3, <1>4, <1>6, AccountStays
<1>15. \A v \in Users : Blank(v)'
  BY <1>4, <1>12 DEF TidyInv, Blank, Bare, NoRows
<1>16. \A v \in Users : \A o \in Orgs : Sided(v, o)'
  BY <1>3, <1>4, <1>6, <1>7, SidedStays
<1>17. RowShapes'
  BY <1>4 DEF TidyInv, RowShapes
<1> QED BY <1>8, <1>9, <1>10, <1>11, <1>13, <1>14, <1>15, <1>16, <1>17 DEF TidyInv

LEMMA FindSuperTidies ==
  ASSUME AddressInv, TidyInv, NEW q \in Requests, FindSuper(q)
  PROVE  TidyInv'
<1>1. /\ orgs' = orgs /\ users' = users /\ mail' = mail /\ index' = index /\ userOrg' = userOrg
      /\ orgUser' = orgUser /\ admins' = admins /\ account' = account
      /\ minted' = minted /\ torn' = torn /\ at[q] = "super"
  BY DEF FindSuper, rowVars, histVars
<1>2. kind[q] = "boot" /\ RequestsShape /\ SuperEmail \in Emails
  BY <1>1, ShapesKnown DEF TidyInv, Walking
<1>3. ~Accounts(q) /\ at[q] \notin Working \cup Claiming /\ account' \in [Emails -> {"none", "untold", "told"}]
  BY <1>1 DEF Accounts, Working, Claiming, DeleteSteps, Leaving, TidyInv, RowShapes
<1>4. CASE Return(q)
  <2>1. MovesOnly(q)
    BY <1>1, <1>2, <1>4, ReturnTidily DEF MovesOnly
  <2>2. \A e \in Emails : AccountLeads(e)'
    BY <1>1, <1>3, <2>1, AccountStays
  <2> HIDE DEF Return
  <2> QED BY <1>1, <1>3, <1>4, <2>2, RequestTidies
<1>5. CASE /\ at' = [at EXCEPT ![q] = "index"] /\ kind' = [kind EXCEPT ![q] = "boot"]
           /\ who' = [who EXCEPT ![q] = NoUser]
           /\ addr' = addr /\ org' = org /\ role' = role /\ todo' = todo
  <2>1. /\ MovesOnly(q) /\ at'[q] = "index" /\ addr'[q] = addr[q] /\ kind'[q] = kind[q]
    BY <1>1, <1>2, <1>5 DEF RequestsShape, MovesOnly, Stays
  <2>2. SameWho(q) /\ Walking(q)' /\ DoneSoFar(q)'
    BY <2>1 DEF SameWho, Walking, DoneSoFar, Working, Claiming, DeleteSteps, Leaving
  <2>3. OwnRows(q) /\ RowShapes'
    BY <1>1, <1>5 DEF OwnRows, TidyInv, RowShapes
  <2>4. \A e \in Emails : AccountLeads(e)'
    BY <1>1, <1>3, <2>1, AccountStays
  <2> QED BY <1>1, <1>3, <2>1, <2>2, <2>3, <2>4, FrameTidies
<1>6. CASE /\ FindByEmail(SuperEmail) # NoUser
           /\ at' = [at EXCEPT ![q] = "userorg"] /\ kind' = [kind EXCEPT ![q] = "reboot"]
           /\ who' = [who EXCEPT ![q] = FindByEmail(SuperEmail)]
           /\ addr' = addr /\ org' = org /\ role' = role /\ todo' = todo
  <2>1. FindByEmail(SuperEmail) \in users /\ index[SuperEmail] = FindByEmail(SuperEmail)
    BY <1>6 DEF FindByEmail
  <2>2. UNCHANGED rowVars /\ UNCHANGED histVars
    BY DEF FindSuper
  <2> HIDE DEF FindByEmail
  <2> QED BY <1>1, <1>6, <2>1, <2>2, SuperFound
<1> HIDE DEF Return, FindByEmail
<1> QED BY <1>4, <1>5, <1>6 DEF FindSuper, Found, AfterBoot

\* A fresh id is claimed: nobody is about it, and it has no rows.
LEMMA IdClaimed ==
  ASSUME AddressInv, TidyInv, NEW q \in Requests, NEW u \in Users \ minted,
         at[q] = "index", index[addr[q]] = NoUser,
         index' = [index EXCEPT ![addr[q]] = u], who' = [who EXCEPT ![q] = u],
         minted' = minted \cup {u}, at' = [at EXCEPT ![q] = "user"],
         orgs' = orgs, users' = users, mail' = mail, userOrg' = userOrg,
         orgUser' = orgUser, admins' = admins, account' = account, torn' = torn,
         kind' = kind, addr' = addr, org' = org, role' = role, todo' = todo
  PROVE  TidyInv'
<1>1. RequestsShape /\ index \in [Emails -> Users \cup {NoUser}] /\ users \subseteq minted
  BY ShapesKnown DEF AddressInv, Shapes
<1>2. /\ at'[q] = "user" /\ who'[q] = u /\ addr[q] \in Emails /\ MovesOnly(q)
      /\ \A e \in Emails : index'[e] = IF e = addr[q] THEN u ELSE index[e]
  BY <1>1 DEF RequestsShape, MovesOnly, Stays
<1>3. /\ at[q] \notin Working \cup Claiming /\ "user" \in Claiming \ Working
      /\ "user" \notin DeleteSteps
  BY DEF Working, Claiming, DeleteSteps, Leaving
<1>4. \A p \in Requests \ {q} : at[p] \in Working \cup Claiming => who[p] \in minted
  BY DEF TidyInv, Walking, AddressInv, ClaimHolds
<1>5. OwnRows(q)
  BY DEF OwnRows
<1>6. Overlaps'
  BY <1>2, OverlapsStay
<1>7. \A p \in Requests : Walking(p)'
  <2>1. \A p \in Requests \ {q} : Walking(p)'
    BY <1>2, WalkingStays
  <2>2. Walking(q)'
    BY <1>2, <1>3 DEF Walking
  <2> QED BY <2>1, <2>2
<1>8. \A p \in Requests : DoneSoFar(p)'
  <2>1. KindsFit /\ RequestShapes /\ at[q] # "idle"
    BY DEF AddressInv, Shapes
  <2>2. \A e \in Emails : index[e] = NoUser /\ index'[e] # NoUser => e = addr[q]
    BY <1>2
  <2>3. \A p \in Requests \ {q} : DoneSoFar(p)'
    BY <1>2, <1>5, <2>1, <2>2, DoneStays
  <2>4. DoneSoFar(q)'
    BY <1>2 DEF DoneSoFar
  <2> QED BY <2>3, <2>4
<1>9. \A p, r \in Requests : p # r => Alone(p, r)'
  BY <1>2, <1>3, <1>4 DEF TidyInv, Alone, MovesOnly, Stays
<1>10. ASSUME NEW e \in Emails PROVE IndexLeads(e)'
  <2>1. CASE e = addr[q]
    <3>1. ASSUME NEW p \in Requests, at'[p] \in Claiming, who'[p] = u PROVE addr'[p] = e
      BY <1>2, <1>4, <2>1, <3>1 DEF MovesOnly, Stays
    <3>2. index'[e] = u /\ u \in minted' /\ u \notin users
      BY <1>1, <1>2, <2>1
    <3> QED BY <1>2, <3>1, <3>2 DEF IndexLeads
  <2>2. CASE e # addr[q]
    <3>1. index'[e] = index[e] /\ IndexLeads(e)
      BY <1>2, <2>2 DEF TidyInv
    <3>2. ASSUME index[e] # NoUser, NEW p \in Requests, at'[p] \in Claiming, who'[p] = index[e]
          PROVE  addr'[p] = e
      BY <1>2, <3>1, <3>2 DEF IndexLeads, MovesOnly, Stays
    <3>3. \A p \in Requests : at[p] = "user" => at'[p] = "user" /\ who'[p] = who[p]
      BY <1>2 DEF MovesOnly, Stays
    <3> QED BY <3>1, <3>2, <3>3 DEF IndexLeads
  <2> QED BY <2>1, <2>2
<1>11. \A e \in Emails : AccountLeads(e)'
  <2>1. Accounts(q) => Accounts(q)' /\ addr'[q] = addr[q]
    BY <1>2 DEF Accounts
  <2> QED BY <1>2, <2>1, AccountStays
<1>12. \A v \in Users : Blank(v)'
  <2>1. \A p \in Requests : at'[p] \in Claiming /\ who'[p] # u => at[p] \in Claiming /\ who'[p] = who[p]
    BY <1>2 DEF MovesOnly, Stays
  <2> QED BY <2>1 DEF TidyInv, Blank, Bare, NoRows
<1>13. \A v \in Users : \A o \in Orgs : Sided(v, o)'
  BY <1>2, <1>3, <1>5, SidedStays
<1>14. RowShapes'
  BY DEF TidyInv, RowShapes
<1> QED BY <1>6, <1>7, <1>8, <1>9, <1>10, <1>11, <1>12, <1>13, <1>14 DEF TidyInv

LEMMA PutIndexTidies ==
  ASSUME AddressInv, TidyInv, NEW q \in Requests, PutIndex(q)
  PROVE  TidyInv'
<1>1. /\ at[q] = "index" /\ orgs' = orgs /\ users' = users /\ mail' = mail
      /\ userOrg' = userOrg /\ orgUser' = orgUser /\ admins' = admins
      /\ account' = account /\ torn' = torn
  BY DEF PutIndex
<1>2. CASE Free(addr[q])
  <2>1. /\ at' = [at EXCEPT ![q] = "user"] /\ kind' = kind /\ addr' = addr /\ org' = org
        /\ role' = role /\ todo' = todo /\ index[addr[q]] = NoUser
        /\ \E u \in Users \ minted :
             /\ index' = [index EXCEPT ![addr[q]] = u]
             /\ who' = [who EXCEPT ![q] = u]
             /\ minted' = minted \cup {u}
    BY <1>2 DEF PutIndex, Free
  <2> QED BY <1>1, <2>1, IdClaimed
<1>3. CASE ~Free(addr[q])
  <2>1. /\ index' = index /\ minted' = minted
        /\ \/ kind[q] = "create" /\ Go(q, "uncognito")
           \/ kind[q] # "create" /\ Return(q)
    BY <1>3 DEF PutIndex, GoOrReturn, Undo
  <2>2. RequestsShape
    BY ShapesKnown
  <2>3. MovesOnly(q)
    BY <1>1, <2>1, <2>2, ReturnTidily, GoTidily DEF MovesOnly
  <2>4. Accounts(q) => Accounts(q)' /\ addr'[q] = addr[q]
    BY <1>1, <2>1, <2>2, GoTidily DEF Accounts
  <2>5. \A e \in Emails : AccountLeads(e)'
    BY <1>1, <2>3, <2>4, AccountStays
  <2>6. "uncognito" \in Steps \ {"idle", "system", "super", "cognito"}
        /\ "uncognito" \notin Claiming \cup Working /\ "uncognito" \notin {"unindex", "unmember"}
    BY DEF Steps, Claiming, Working, DeleteSteps, Leaving
  <2>7. account' \in [Emails -> {"none", "untold", "told"}]
    BY <1>1 DEF TidyInv, RowShapes
  <2> HIDE DEF Steps, Return, Go
  <2> QED BY <1>1, <2>1, <2>5, <2>6, <2>7, RequestTidies
<1> QED BY <1>2, <1>3

\* The claimed id gets its row: it has no memberships yet, on neither side.
LEMMA PutUserTidies ==
  ASSUME AddressInv, TidyInv, NEW q \in Requests, PutUser(q)
  PROVE  TidyInv'
<1>1. PICK u \in Users : u = who[q] /\ u \in minted /\ u \notin users
  BY DEF PutUser, AddressInv, ClaimHolds, Claiming
<1>2. /\ at[q] = "user" /\ users' = users \cup {u} /\ mail' = [mail EXCEPT ![u] = addr[q]]
      /\ Return(q) \/ Go(q, "userorg")
      /\ orgs' = orgs /\ index' = index /\ userOrg' = userOrg /\ orgUser' = orgUser
      /\ admins' = admins /\ account' = account /\ torn' = torn /\ minted' = minted
  BY <1>1 DEF PutUser, GoOrReturn, histVars
<1>3. RequestsShape /\ mail \in [Users -> Emails]
  BY ShapesKnown DEF AddressInv, Shapes
<1>4. /\ MovesOnly(q) /\ at'[q] \in {"idle", "userorg"}
      /\ at'[q] # "idle" => who'[q] = u /\ addr'[q] = addr[q] /\ kind'[q] = kind[q]
      /\ org' \in [Requests -> Orgs \cup {NoOrg}] /\ role' \in [Requests -> Role \cup {NoRole}]
      /\ todo' \in [Requests -> SUBSET Orgs]
  BY <1>1, <1>2, <1>3, ReturnTidily, GoTidily DEF MovesOnly, RequestsShape
<1>5. mail'[u] = addr[q] /\ \A v \in Users \ {u} : mail'[v] = mail[v]
  BY <1>2, <1>3
<1>6. /\ at[q] \in Claiming \ Working /\ {"idle", "userorg"} \cap Claiming = {}
      /\ "idle" \notin Working
  BY <1>2 DEF Working, Claiming, DeleteSteps, Leaving
<1>7. SameWho(q)
  BY <1>1, <1>4, <1>6 DEF SameWho
<1>8. \A p \in Requests \ {q} : at[p] \in Working \cup Claiming => who[p] # u
  BY <1>1, <1>6 DEF TidyInv, Alone, AddressInv, Apart
<1>9. OwnRows(q)
  BY <1>2 DEF OwnRows
<1>10. Overlaps'
  BY <1>2, <1>4, OverlapsStay
<1>11. ASSUME NEW p \in Requests PROVE Walking(p)'
  <2>1. CASE p # q
    <3>1. Stays(p) /\ Walking(p)
      BY <1>4, <2>1 DEF MovesOnly, TidyInv
    <3>2. at[p] \in Working => who[p] # u
      BY <1>8, <2>1
    <3> QED BY <1>2, <1>5, <3>1, <3>2 DEF Stays, Walking
  <2>2. CASE p = q
    BY <1>1, <1>2, <1>4, <1>5, <1>6, <2>2 DEF Walking
  <2> QED BY <2>1, <2>2
<1>12. \A p \in Requests : DoneSoFar(p)'
  <2>1. KindsFit /\ RequestShapes
    BY DEF AddressInv, Shapes
  <2>2. \A p \in Requests \ {q} : DoneSoFar(p)'
    BY <1>2, <1>4, <1>9, <2>1, DoneStays
  <2>3. DoneSoFar(q)'
    BY <1>4 DEF DoneSoFar
  <2> QED BY <2>2, <2>3
<1>13. \A p, r \in Requests : p # r => Alone(p, r)'
  BY <1>4, <1>7, AloneStays
<1>14. ASSUME NEW e \in Emails PROVE IndexLeads(e)'
  <2> SUFFICES ASSUME index[e] # NoUser
               PROVE  /\ index[e] \in minted
                      /\ index[e] \in users' => mail'[index[e]] = e
                      /\ \A p \in Requests : at'[p] \in Claiming /\ who'[p] = index[e] => addr'[p] = e
                      /\ e \notin torn => \/ index[e] \in users'
                                          \/ \E p \in Requests : at'[p] = "user" /\ who'[p] = index[e]
    BY <1>2 DEF IndexLeads
  <2>1. /\ index[e] \in minted /\ index[e] \in Users
        /\ index[e] \in users => mail[index[e]] = e
        /\ \A p \in Requests : at[p] \in Claiming /\ who[p] = index[e] => addr[p] = e
        /\ e \notin torn => \/ index[e] \in users
                            \/ \E p \in Requests : at[p] = "user" /\ who[p] = index[e]
    BY DEF TidyInv, IndexLeads, AddressInv, Shapes
  <2>2. index[e] \in users' => mail'[index[e]] = e
    BY <1>1, <1>2, <1>5, <1>6, <2>1
  <2>3. \A p \in Requests : at'[p] \in Claiming => at[p] \in Claiming /\ who'[p] = who[p] /\ addr'[p] = addr[p]
    BY <1>4, <1>6 DEF MovesOnly, Stays
  <2>4. \A p \in Requests : at[p] = "user" => who[p] = u \/ (at'[p] = "user" /\ who'[p] = who[p])
    BY <1>1, <1>4 DEF MovesOnly, Stays
  <2> QED BY <1>2, <2>1, <2>2, <2>3, <2>4
<1>15. ASSUME NEW e \in Emails PROVE AccountLeads(e)'
  <2> SUFFICES ASSUME e \notin torn, e # SuperEmail, account[e] # "none"
               PROVE  \/ \E v \in users' : mail'[v] = e
                      \/ \E p \in Requests : addr'[p] = e /\ Accounts(p)'
    BY <1>2 DEF AccountLeads
  <2>1. CASE e = addr[q]
    BY <1>2, <1>5, <2>1
  <2>2. CASE \E v \in users : mail[v] = e
    BY <1>1, <1>2, <1>5, <2>2 DEF AddressInv, Shapes
  <2>3. CASE \E p \in Requests \ {q} : addr[p] = e /\ Accounts(p)
    BY <1>4, <2>3 DEF MovesOnly, Stays, Accounts
  <2> QED BY <2>1, <2>2, <2>3 DEF TidyInv, AccountLeads
<1>16. ASSUME NEW v \in Users PROVE Blank(v)'
  <2>1. \A p \in Requests : at'[p] \in Claiming /\ who'[p] = v => v # u /\ at[p] \in Claiming /\ who[p] = v
    BY <1>4, <1>6, <1>8 DEF MovesOnly, Stays
  <2>2. CASE v = u
    BY <1>1, <1>2, <2>1, <2>2 DEF Blank
  <2>3. CASE v # u
    BY <1>2, <1>5, <2>1, <2>3 DEF TidyInv, Blank, Bare, NoRows
  <2> QED BY <2>2, <2>3
<1>17. ASSUME NEW v \in Users, NEW o \in Orgs PROVE Sided(v, o)'
  <2>1. CASE v = u
    <3>1. userOrg[u] = NoRows[u] /\ orgUser[u] = NoRows[u]
      BY <1>1, <1>6 DEF TidyInv, Blank, Bare
    <3> QED BY <1>2, <2>1, <3>1 DEF Sided
  <2>2. CASE v # u
    <3>1. \A p \in Requests : Between(p, v, o) => p # q
      BY <1>2 DEF Between
    <3>2. \A p \in Requests : Between(p, v, o) => Between(p, v, o)'
      BY <1>4, <3>1 DEF Between, MovesOnly, Stays
    <3> QED BY <1>2, <1>5, <2>2, <3>2 DEF TidyInv, Sided
  <2> QED BY <2>1, <2>2
<1>18. RowShapes'
  BY <1>2, <1>4 DEF TidyInv, RowShapes
<1> QED BY <1>10, <1>11, <1>12, <1>13, <1>14, <1>15, <1>16, <1>17, <1>18 DEF TidyInv

\* The index row of the address is taken away, by a rollback or a deletion.
LEMMA IndexDropTidies ==
  ASSUME AddressInv, TidyInv, NEW q \in Requests, DropIndex(q) \/ DeleteIndex(q)
  PROVE  TidyInv'
<1>1. /\ \/ at[q] = "unindex" /\ (Return(q) \/ Go(q, "uncognito"))
         \/ at[q] = "delindex" /\ Go(q, "deluser")
      /\ index' = [index EXCEPT ![addr[q]] = NoUser]
      /\ orgs' = orgs /\ users' = users /\ mail' = mail /\ userOrg' = userOrg
      /\ orgUser' = orgUser /\ admins' = admins /\ account' = account
      /\ torn' = torn /\ minted' = minted
  BY UndoSteps DEF DropIndex, DeleteIndex, GoOrReturn, histVars
<1>2. RequestsShape /\ index \in [Emails -> Users \cup {NoUser}]
  BY ShapesKnown DEF AddressInv, Shapes
<1>3. /\ MovesOnly(q) /\ at'[q] \in {"idle", "uncognito", "deluser"}
      /\ at'[q] # "idle" => who'[q] = who[q] /\ addr'[q] = addr[q] /\ kind'[q] = kind[q]
      /\ at[q] = "delindex" <=> at'[q] = "deluser"
      /\ org' \in [Requests -> Orgs \cup {NoOrg}] /\ role' \in [Requests -> Role \cup {NoRole}]
      /\ todo' \in [Requests -> SUBSET Orgs]
  BY <1>1, <1>2, ReturnTidily, GoTidily DEF MovesOnly, RequestsShape
<1>4. \A e \in Emails : index'[e] = IF e = addr[q] THEN NoUser ELSE index[e]
  BY <1>1, <1>2
<1>5. /\ at[q] # "idle" /\ "deluser" \in Working \ Claiming /\ "delindex" \in Working
      /\ {"idle", "uncognito"} \cap (Working \cup Claiming) = {} /\ "unindex" \notin Working
  BY <1>1 DEF Working, Claiming, DeleteSteps, Leaving
<1>6. SameWho(q) /\ OwnRows(q)
  BY <1>1, <1>3, <1>5 DEF SameWho, OwnRows
<1>7. Overlaps'
  BY <1>3, <1>5, OverlapsStay
<1>8. \A p \in Requests : Walking(p)'
  <2>1. \A p \in Requests \ {q} : Walking(p)'
    BY <1>1, <1>3, WalkingStays
  <2>2. Walking(q)'
    BY <1>1, <1>3, <1>5 DEF TidyInv, Walking
  <2> QED BY <2>1, <2>2
<1>9. \A p \in Requests : DoneSoFar(p)'
  <2>1. KindsFit /\ RequestShapes /\ \A e \in Emails : index[e] = NoUser => index'[e] = NoUser
    BY <1>4 DEF AddressInv, Shapes
  <2>2. \A p \in Requests \ {q} : DoneSoFar(p)'
    BY <1>3, <1>5, <1>6, <2>1, DoneStays
  <2>3. addr[q] \in Emails /\ index'[addr[q]] = NoUser
    BY <1>2, <1>4 DEF RequestsShape
  <2>4. at[q] = "delindex" /\ addr[q] \notin torn => Bare(who[q])
    BY DEF TidyInv, DoneSoFar
  <2>5. DoneSoFar(q)'
    BY <1>1, <1>3, <2>3, <2>4 DEF DoneSoFar, Bare, NoRows
  <2> QED BY <2>2, <2>5
<1>10. \A p, r \in Requests : p # r => Alone(p, r)'
  BY <1>3, <1>6, AloneStays
<1>11. ASSUME NEW e \in Emails PROVE IndexLeads(e)'
  <2>1. \A p \in Requests :
          /\ at'[p] \in Claiming => at[p] \in Claiming /\ who'[p] = who[p] /\ addr'[p] = addr[p]
          /\ at[p] = "user" => at'[p] = "user" /\ who'[p] = who[p]
    BY <1>1, <1>3, <1>5 DEF MovesOnly, Stays
  <2> QED BY <1>1, <1>4, <2>1 DEF TidyInv, IndexLeads
<1>12. \A e \in Emails : AccountLeads(e)'
  <2>1. ~Accounts(q)
    BY <1>1 DEF Accounts
  <2> QED BY <1>1, <1>3, <2>1, AccountStays
<1>13. \A v \in Users : Blank(v)'
  BY <1>1, <1>3, <1>6, BlankStays
<1>14. \A v \in Users : \A o \in Orgs : Sided(v, o)'
  <2>1. at[q] \in Working /\ addr[q] \notin torn' =>
          \A o \in Orgs : userOrg[who[q]][o] = orgUser[who[q]][o]
    BY <1>1, OwnDifference DEF Between
  <2>2. \A v \in Users, o \in Orgs : v = who[q] /\ at[q] \in Working /\ addr[q] \notin torn' =>
          userOrg'[v][o] = orgUser'[v][o] \/ Between(q, v, o)'
    BY <1>1, <2>1
  <2> QED BY <1>1, <1>3, <1>6, <2>2, SidedStays
<1>15. RowShapes'
  BY <1>1, <1>3 DEF TidyInv, RowShapes
<1> QED BY <1>7, <1>8, <1>9, <1>10, <1>11, <1>12, <1>13, <1>14, <1>15 DEF TidyInv

\* The user's row goes last, when no index row leads to it and no other is left.
LEMMA UserDropTidies ==
  ASSUME AddressInv, TidyInv, NEW q \in Requests, DeleteUserRow(q)
  PROVE  TidyInv'
<1>1. /\ at[q] = "deluser" /\ Go(q, "delcognito") /\ users' = users \ {who[q]}
      /\ orgs' = orgs /\ index' = index /\ mail' = mail /\ userOrg' = userOrg
      /\ orgUser' = orgUser /\ admins' = admins /\ account' = account
      /\ torn' = torn /\ minted' = minted
  BY DEF DeleteUserRow, histVars
<1>2. RequestsShape /\ users \subseteq Users
  BY ShapesKnown DEF AddressInv, Shapes
<1>3. /\ MovesOnly(q) /\ at'[q] = "delcognito" /\ who'[q] = who[q] /\ addr'[q] = addr[q]
      /\ kind'[q] = kind[q] /\ org' = org /\ role' = role /\ todo' = todo
  BY <1>1, <1>2, GoTidily DEF MovesOnly
<1>4. at[q] \in Working \ Claiming /\ "delcognito" \in Working \ Claiming /\ at[q] # "idle"
  BY <1>1 DEF Working, Claiming, DeleteSteps, Leaving
<1>5. who[q] \in Users /\ who[q] \in minted /\ mail[who[q]] = addr[q]
  BY <1>4 DEF TidyInv, Walking
<1>6. addr[q] \notin torn => Bare(who[q]) /\ index[addr[q]] = NoUser
  BY <1>1 DEF TidyInv, DoneSoFar
<1>7. \A p \in Requests : at[p] \in Claiming => p # q /\ who[p] # who[q]
  BY <1>4 DEF TidyInv, Alone
<1>8. SameWho(q) /\ OwnRows(q)
  BY <1>1, <1>3, <1>4 DEF SameWho, OwnRows
<1>9. Overlaps'
  BY <1>3, <1>4, OverlapsStay
<1>10. \A p \in Requests : Walking(p)'
  <2>1. \A p \in Requests \ {q} : Walking(p)'
    BY <1>1, <1>3, <1>4, WalkingStays
  <2>2. Walking(q)'
    BY <1>1, <1>3, <1>5 DEF Walking
  <2> QED BY <2>1, <2>2
<1>11. \A p \in Requests : DoneSoFar(p)'
  <2>1. KindsFit /\ RequestShapes
    BY DEF AddressInv, Shapes
  <2>2. \A p \in Requests \ {q} : DoneSoFar(p)'
    BY <1>1, <1>3, <1>4, <1>8, <2>1, DoneStays
  <2>3. DoneSoFar(q)'
    BY <1>1, <1>3, <1>6 DEF DoneSoFar, Bare, NoRows
  <2> QED BY <2>2, <2>3
<1>12. \A p, r \in Requests : p # r => Alone(p, r)'
  BY <1>3, <1>8, AloneStays
<1>13. \A p \in Requests :
         /\ at'[p] \in Claiming => at[p] \in Claiming /\ who'[p] = who[p] /\ addr'[p] = addr[p]
         /\ at[p] = "user" => at'[p] = "user" /\ who'[p] = who[p]
  BY <1>1, <1>3, <1>4 DEF MovesOnly, Stays
<1>14. ASSUME NEW e \in Emails PROVE IndexLeads(e)'
  <2>1. ASSUME index[e] = who[q], e \notin torn, index[e] # NoUser PROVE FALSE
    <3>1. \/ index[e] \in users /\ mail[index[e]] = e
          \/ \E p \in Requests : at[p] = "user" /\ who[p] = index[e]
      BY <2>1 DEF TidyInv, IndexLeads
    <3>2. mail[index[e]] = e
      BY <1>7, <2>1, <3>1 DEF Claiming
    <3> QED BY <1>5, <1>6, <2>1, <3>2
  <2> QED BY <1>1, <1>13, <2>1 DEF TidyInv, IndexLeads
<1>15. ASSUME NEW e \in Emails PROVE AccountLeads(e)'
  <2>1. CASE e = addr[q]
    <3>1. addr'[q] = e /\ Accounts(q)'
      BY <1>3, <2>1 DEF Accounts
    <3> QED BY <3>1 DEF AccountLeads
  <2>2. CASE e # addr[q]
    <3>1. \A v \in users : mail[v] = e => v \in users'
      BY <1>1, <1>5, <2>2
    <3>2. \A p \in Requests : addr[p] = e /\ Accounts(p) => addr'[p] = e /\ Accounts(p)'
      BY <1>3, <2>2 DEF MovesOnly, Stays, Accounts
    <3> QED BY <1>1, <3>1, <3>2 DEF TidyInv, AccountLeads
  <2> QED BY <2>1, <2>2
<1>16. ASSUME NEW v \in Users PROVE Blank(v)'
  <2>1. CASE v = who[q]
    BY <1>1, <1>5, <1>6, <1>7, <1>13, <2>1 DEF Blank, Bare, NoRows
  <2>2. CASE v # who[q]
    BY <1>1, <1>13, <2>2 DEF TidyInv, Blank, Bare, NoRows
  <2> QED BY <2>1, <2>2
<1>17. \A v \in Users : \A o \in Orgs : Sided(v, o)'
  <2>1. addr[q] \notin torn' => \A o \in Orgs : userOrg[who[q]][o] = orgUser[who[q]][o]
    BY <1>1, <1>4, OwnDifference DEF Between
  <2>2. \A v \in Users, o \in Orgs : v = who[q] /\ at[q] \in Working /\ addr[q] \notin torn' =>
          userOrg'[v][o] = orgUser'[v][o] \/ Between(q, v, o)'
    BY <1>1, <2>1
  <2> QED BY <1>1, <1>3, <1>8, <2>2, SidedStays
<1>18. RowShapes'
  BY <1>1, <1>3 DEF TidyInv, RowShapes
<1> QED BY <1>9, <1>10, <1>11, <1>12, <1>14, <1>15, <1>16, <1>17, <1>18 DEF TidyInv

\* Orgs come and go, and passwords become known, whatever the requests do.
LEMMA OtherTidies ==
  ASSUME AddressInv, TidyInv, CreateOrg \/ DeleteOrg \/ TellPassword \/ UNCHANGED vars
  PROVE  TidyInv'
<1>1. /\ users' = users /\ mail' = mail /\ index' = index /\ userOrg' = userOrg
      /\ orgUser' = orgUser /\ admins' = admins /\ torn' = torn /\ minted \subseteq minted'
      /\ at' = at /\ kind' = kind /\ addr' = addr /\ who' = who /\ org' = org
      /\ role' = role /\ todo' = todo
  BY DEF CreateOrg, DeleteOrg, TellPassword, vars, rowVars, reqVars, histVars
<1>2. orgs' \subseteq Orgs
  BY DEF CreateOrg, DeleteOrg, TellPassword, vars, rowVars, TidyInv, RowShapes, Orgs
<1>3. /\ account' \in [Emails -> {"none", "untold", "told"}]
      /\ \A e \in Emails : e # SuperEmail /\ account'[e] # "none" => account[e] # "none"
  <2>1. account \in [Emails -> {"none", "untold", "told"}]
    BY DEF TidyInv, RowShapes
  <2>2. \/ account' = account
        \/ \E e \in Emails : /\ e = SuperEmail \/ account[e] = "untold"
                             /\ account' = [account EXCEPT ![e] = "told"]
    BY DEF CreateOrg, DeleteOrg, TellPassword, vars, rowVars
  <2> QED BY <2>1, <2>2
<1>4. RowShapes' /\ Overlaps'
  BY <1>1, <1>2, <1>3 DEF TidyInv, RowShapes, Overlaps, Running
<1>5. \A q \in Requests : Walking(q)' /\ DoneSoFar(q)'
  BY <1>1 DEF TidyInv, Walking, DoneSoFar, Bare, NoRows
<1>6. \A p, q \in Requests : p # q => Alone(p, q)'
  BY <1>1 DEF TidyInv, Alone
<1>7. \A e \in Emails : IndexLeads(e)'
  BY <1>1 DEF TidyInv, IndexLeads
<1>8. \A e \in Emails : AccountLeads(e)'
  BY <1>1, <1>3 DEF TidyInv, AccountLeads, Accounts
<1>9. \A u \in Users : Blank(u)'
  BY <1>1 DEF TidyInv, Blank, Bare, NoRows
<1>10. \A u \in Users : \A o \in Orgs : Sided(u, o)'
  BY <1>1 DEF TidyInv, Sided, Between
<1> QED BY <1>4, <1>5, <1>6, <1>7, <1>8, <1>9, <1>10 DEF TidyInv

-----------------------------------------------------------------------------
(* What the walk comes to.                                                  *)

\* Tables are empty, or hold superwoman, whole.
LEMMA TidyStart == Init => TidyInv
<1> SUFFICES ASSUME Init PROVE TidyInv
  OBVIOUS
<1>1. /\ at = [q \in Requests |-> "idle"] /\ mail = [u \in Users |-> SuperEmail]
      /\ org = [q \in Requests |-> NoOrg] /\ role = [q \in Requests |-> NoRole]
      /\ todo = [q \in Requests |-> {}] /\ orgUser = userOrg
      /\ \A q \in Requests : at[q] = "idle"
  BY DEF Init
<1>2. /\ orgs \subseteq Orgs /\ userOrg \in [Users -> [Orgs -> Role \cup {NoRole}]]
      /\ account \in [Emails -> {"none", "untold", "told"}]
      /\ \A e \in Emails : e # SuperEmail => account[e] = "none" /\ index[e] = NoUser
      /\ index[SuperEmail] # NoUser => index[SuperEmail] \in users /\ index[SuperEmail] \in minted
      /\ \A u \in Users : u \notin users => Bare(u)
      /\ users \subseteq minted
  <2>1. NoRows \in [Users -> [Orgs -> Role \cup {NoRole}]] /\ "orgadmin" \in Role \cup {NoRole}
    BY DEF NoRows, Role
  <2>2. CASE Empty
    BY <2>1, <2>2, TenancyAssumption DEF Empty, Bare, TenancyAssumption
  <2>3. CASE Bootstrapped
    <3>1. PICK u \in Users, o \in SystemOrgs :
            /\ orgs = {o} /\ users = {u} /\ admins = {u} /\ minted = {u, o}
            /\ index = [e \in Emails |-> IF e = SuperEmail THEN u ELSE NoUser]
            /\ userOrg = [NoRows EXCEPT ![u][o] = "orgadmin"]
            /\ account = [e \in Emails |-> IF e = SuperEmail THEN "told" ELSE "none"]
      BY <2>3 DEF Bootstrapped
    <3>2. /\ userOrg \in [Users -> [Orgs -> Role \cup {NoRole}]]
          /\ \A v \in Users \ {u} : userOrg[v] = NoRows[v]
      BY <2>1, <3>1, RowWritten
    <3>3. orgs \subseteq Orgs /\ SuperEmail \in Emails
      BY <3>1, TenancyAssumption DEF Orgs, TenancyAssumption
    <3> QED BY <3>1, <3>2, <3>3 DEF Bare
  <2> QED BY <2>2, <2>3 DEF Init
<1>3. RowShapes
  BY <1>1, <1>2 DEF RowShapes
<1>4. Overlaps /\ \A q \in Requests : Walking(q) /\ DoneSoFar(q)
  BY <1>1 DEF Overlaps, Running, Walking, DoneSoFar, Working, DeleteSteps, Leaving
<1>5. "idle" \notin Working \cup Claiming
  BY DEF Working, Claiming, DeleteSteps, Leaving
<1>6. \A p, q \in Requests : p # q => Alone(p, q)
  BY <1>1, <1>5 DEF Alone
<1>7. \A e \in Emails : IndexLeads(e) /\ AccountLeads(e)
  <2>1. users \subseteq Users
    BY DEF Init, Empty, Bootstrapped
  <2> QED BY <1>1, <1>2, <1>5, <2>1 DEF IndexLeads, AccountLeads
<1>8. \A u \in Users : Blank(u) /\ \A o \in Orgs : Sided(u, o)
  BY <1>1, <1>2, <1>5 DEF Blank, Bare, Sided
<1> QED BY <1>3, <1>4, <1>6, <1>7, <1>8 DEF TidyInv

LEMMA TidyStep == AddressInv /\ TidyInv /\ [Next]_vars => TidyInv'
<1> SUFFICES ASSUME AddressInv, TidyInv, [Next]_vars PROVE TidyInv'
  OBVIOUS
<1>1. CASE \E q \in Requests : Start(q)
  BY <1>1, StartTidies
<1>2. CASE \E q \in Requests : Step(q)
  BY <1>2, EnsureTidies, FindSuperTidies, FindLoginTidies, CreateAccountTidies, PutIndexTidies,
     PutUserTidies, IndexDropTidies, PutUserOrgTidies, PutOrgUserTidies, DropUserOrgTidies,
     AccountGone, PutAdminTidies, DropAdminTidies, DeleteUserOrgTidies, DeleteOrgUserTidies,
     UserDropTidies, BreakTidies DEF Step
<1>3. CASE CreateOrg \/ DeleteOrg \/ TellPassword \/ UNCHANGED vars
  BY <1>3, OtherTidies
<1> QED BY <1>1, <1>2, <1>3 DEF Next

\* No request about a quiet address runs.
LEMMA QuietIsIdle ==
  ASSUME NEW e, Quiet(e), NEW q \in Requests, addr[q] = e
  PROVE  at[q] = "idle"
BY DEF Quiet, Meets, Running

\* Once nobody is about the user, its USERORG and its ORGUSER rows show the same
\* roles, for any number of requests that meet, in any order of their writes, as
\* long as none of the address broke off (add_membership, remove_membership).
THEOREM SidesStayEqual == Spec => []SidesAgree
<1>1. TidyInv => SidesAgree
  <2> SUFFICES ASSUME TidyInv, NEW u \in minted \cap Users, Quiet(mail[u])
               PROVE  userOrg[u] = orgUser[u]
    BY DEF SidesAgree
  <2>1. ASSUME NEW o \in Orgs PROVE userOrg[u][o] = orgUser[u][o]
    <3>1. ASSUME NEW q \in Requests, Between(q, u, o) PROVE FALSE
      <4>1. at[q] \in Working /\ who[q] = u /\ at[q] # "idle"
        BY <3>1 DEF Between, Working, DeleteSteps, Leaving
      <4>2. addr[q] = mail[u]
        BY <4>1 DEF TidyInv, Walking
      <4> QED BY <4>1, <4>2, QuietIsIdle
    <3> QED BY <3>1 DEF TidyInv, Sided, Quiet
  <2>2. /\ userOrg[u] \in [Orgs -> Role \cup {NoRole}]
        /\ orgUser[u] \in [Orgs -> Role \cup {NoRole}]
    BY DEF TidyInv, RowShapes
  <2> QED BY <2>1, <2>2
<1> QED BY AddressStart, AddressStep, TidyStart, TidyStep, <1>1, PTL DEF Spec

\* A deletion, or a creation that was turned down, leaves an address as if it had
\* never been used: no index row, no account, and no rows of its former users
\* (delete_user, create_user).
THEOREM NothingStaysBehind == Spec => []NothingLeftBehind
<1>1. TidyInv => NothingLeftBehind
  <2> SUFFICES ASSUME TidyInv, NEW e \in Emails, Quiet(e), \A u \in users : mail[u] # e
               PROVE  /\ index[e] = NoUser
                      /\ e # SuperEmail => account[e] = "none"
                      /\ \A u \in minted \cap Users : mail[u] = e =>
                           u \notin admins /\ userOrg[u] = NoRows[u]
    BY DEF NothingLeftBehind
  <2>1. e \notin torn /\ \A q \in Requests : addr[q] = e => at[q] = "idle"
    BY QuietIsIdle DEF Quiet
  <2>2. index[e] = NoUser
    BY <2>1 DEF TidyInv, IndexLeads, Claiming
  <2>3. e # SuperEmail => account[e] = "none"
    BY <2>1 DEF TidyInv, AccountLeads, Accounts
  <2>4. \A u \in minted \cap Users : mail[u] = e => Bare(u)
    BY <2>1 DEF TidyInv, Blank
  <2> QED BY <2>2, <2>3, <2>4 DEF Bare
<1> QED BY AddressStart, AddressStep, TidyStart, TidyStep, <1>1, PTL DEF Spec

-----------------------------------------------------------------------------
(* Powers.                                                                   *)

\* What the policy's chain comes to for the three resources of an org.
LEMMA KeyPower ==
  ASSUME NEW p, NEW o, NEW a, Can(p, a, Resource("alpaca_secret", o))
  PROVE  IsOrgadmin(p, o)
BY DEF Can, Resource, AllowSysadminRead, AllowSysadminSystemConfig,
       AllowSysadminUserMgmt, AllowStrategyAuthorMutate, AllowOrgadminAnyStrategy,
       AllowOperatorCreateStrategy, AllowStrategyRead, AllowOrgadminUserMgmt,
       AllowOrgCreateBySysadmin, AllowOrgMutateByOrgadmin, AllowOrgReadByMember,
       AllowMarketDataRead

LEMMA UserPower ==
  ASSUME NEW p, NEW o, NEW a, Can(p, a, Resource("user", o))
  PROVE  IsOrgadmin(p, o) \/ p.sysadmin
BY DEF Can, Resource, AllowSysadminRead, AllowSysadminSystemConfig,
       AllowSysadminUserMgmt, AllowStrategyAuthorMutate, AllowOrgadminAnyStrategy,
       AllowOperatorCreateStrategy, AllowStrategyRead, AllowOrgadminUserMgmt,
       AllowOrgCreateBySysadmin, AllowOrgMutateByOrgadmin, AllowOrgReadByMember,
       AllowMarketDataRead

LEMMA StrategyPower ==
  ASSUME NEW p, NEW o, NEW u, NEW a, Can(p, a, Authored("strategy", o, u, {}))
  PROVE  \/ HasRole(p, o, {"operator", "orgadmin"})
         \/ a \in Reads /\ (IsOrgMember(p, o) \/ p.sysadmin)
<1>1. \/ HasRole(p, o, {"operator", "orgadmin"})
      \/ IsOrgadmin(p, o)
      \/ a \in Reads /\ (IsOrgMember(p, o) \/ p.sysadmin)
  BY DEF Can, Authored, AllowSysadminRead, AllowSysadminSystemConfig,
       AllowSysadminUserMgmt, AllowStrategyAuthorMutate, AllowOrgadminAnyStrategy,
       AllowOperatorCreateStrategy, AllowStrategyRead, AllowOrgadminUserMgmt,
       AllowOrgCreateBySysadmin, AllowOrgMutateByOrgadmin, AllowOrgReadByMember,
       AllowMarketDataRead
<1> QED BY <1>1 DEF HasRole, IsOrgadmin

\* A principal holds the roles of the USERORG rows.
LEMMA RolesOfRows ==
  ASSUME NEW u, NEW o \in Orgs
  PROVE  /\ IsOrgMember(PrincipalOf(u), o) => userOrg[u][o] # NoRole
         /\ \A R : HasRole(PrincipalOf(u), o, R) => userOrg[u][o] \in R
         /\ PrincipalOf(u).sysadmin <=> u \in admins
BY DEF HasRole, IsOrgMember, PrincipalOf, Joined

\* Over whatever creations, role changes and deletions the rows have come, and in
\* whatever order their writes met, the org's list of members shows every power
\* a user holds over the org's keys, users and strategies, but for a sysadmin's
\* (authz/policy.py over add_membership and remove_membership).
THEOREM PowersAreListed == Spec => []RosterShowsPowers
<1>1. Shapes /\ SidesAgree => RosterShowsPowers
  <2> SUFFICES ASSUME Shapes, SidesAgree,
                      NEW u \in users, NEW o \in Orgs, NEW a \in Action, Quiet(mail[u])
               PROVE  /\ Can(PrincipalOf(u), a, Resource("alpaca_secret", o)) =>
                           orgUser[u][o] = "orgadmin"
                      /\ Can(PrincipalOf(u), a, Resource("user", o)) =>
                           orgUser[u][o] = "orgadmin" \/ u \in admins
                      /\ Can(PrincipalOf(u), a, Authored("strategy", o, u, {})) =>
                           \/ orgUser[u][o] \in {"operator", "orgadmin"}
                           \/ a \in Reads /\ (orgUser[u][o] # NoRole \/ u \in admins)
    BY DEF RosterShowsPowers
  <2>1. orgUser[u][o] = userOrg[u][o]
    BY DEF Shapes, SidesAgree
  <2>2. ASSUME Can(PrincipalOf(u), a, Resource("alpaca_secret", o))
        PROVE  orgUser[u][o] = "orgadmin"
    BY <2>1, <2>2, KeyPower, RolesOfRows DEF IsOrgadmin
  <2>3. ASSUME Can(PrincipalOf(u), a, Resource("user", o))
        PROVE  orgUser[u][o] = "orgadmin" \/ u \in admins
    BY <2>1, <2>3, UserPower, RolesOfRows DEF IsOrgadmin
  <2>4. ASSUME Can(PrincipalOf(u), a, Authored("strategy", o, u, {}))
        PROVE  \/ orgUser[u][o] \in {"operator", "orgadmin"}
               \/ a \in Reads /\ (orgUser[u][o] # NoRole \/ u \in admins)
    BY <2>1, <2>4, StrategyPower, RolesOfRows
  <2> QED BY <2>2, <2>3, <2>4
<1>2. AddressInv => Shapes
  BY DEF AddressInv
<1> QED BY AddressStart, AddressStep, SidesStayEqual, <1>1, <1>2, PTL DEF Spec

-----------------------------------------------------------------------------
(* Types.                                                                   *)

\* What the requests leave in the sets of ids and addresses.
IdShapes ==
  /\ minted \subseteq Users \cup Orgs /\ admins \subseteq Users
  /\ demoted \subseteq Users
  /\ torn \subseteq Emails /\ scarred \subseteq Emails

LEMMA IdStart == Init => IdShapes
<1> SUFFICES ASSUME Init PROVE IdShapes
  OBVIOUS
<1>1. CustomerOrgs \subseteq Orgs /\ SystemOrgs \subseteq Orgs
  BY TenancyAssumption DEF TenancyAssumption, Orgs
<1> QED BY <1>1 DEF Init, IdShapes, Empty, Bootstrapped

\* A request adds its address and its user to them, or an id it mints.
LEMMA IdStep == AddressInv /\ TidyInv /\ IdShapes /\ [Next]_vars => IdShapes'
<1> SUFFICES ASSUME AddressInv, TidyInv, IdShapes, [Next]_vars PROVE IdShapes'
  OBVIOUS
<1>1. SystemOrgs \subseteq Orgs /\ CustomerOrgs \subseteq Orgs
  BY TenancyAssumption DEF TenancyAssumption, Orgs
<1>2. \A q \in Requests : addr[q] \in Emails /\ (at[q] = "grant" => who[q] \in Users)
  BY DEF AddressInv, Shapes, RequestShapes, TidyInv, Walking, Working
<1>3. ASSUME NEW q \in Requests, Start(q) PROVE IdShapes'
  <2>1. UNCHANGED <<minted, admins, demoted>>
    BY <1>3 DEF Start, CreateUser, UpdateUserRole, DeleteUser, GrantSysadmin,
       RevokeSysadmin, Login, Bootstrap, rowVars
  <2>2. \E k, step, u, o, r : \E e \in Emails : Begin(q, k, step, e, u, o, r)
    <3>1. \A u \in users : mail[u] \in Emails
      BY DEF AddressInv, Shapes
    <3>2. SuperEmail \in Emails
      BY TenancyAssumption DEF TenancyAssumption
    <3> HIDE DEF Begin
    <3> QED BY <1>3, <3>1, <3>2 DEF Start, CreateUser, UpdateUserRole, DeleteUser, GrantSysadmin,
         RevokeSysadmin, Login, Bootstrap
  <2>3. PICK e \in Emails : torn' \subseteq torn \cup {e} /\ scarred' \subseteq scarred \cup {e}
    BY <2>2 DEF Begin
  <2> QED BY <2>1, <2>3 DEF IdShapes
<1>4. ASSUME NEW q \in Requests, EnsureSystemOrg(q) \/ PutIndex(q) PROVE IdShapes'
  <2>1. UNCHANGED <<admins, demoted, torn, scarred>>
    BY <1>4 DEF EnsureSystemOrg, PutIndex
  <2>2. minted' = minted \/ \E x \in Users \cup SystemOrgs : minted' = minted \cup {x}
    BY <1>4 DEF EnsureSystemOrg, PutIndex
  <2> QED BY <1>1, <2>1, <2>2 DEF IdShapes
<1>5. ASSUME NEW q \in Requests, PutAdmin(q) \/ DropAdmin(q) PROVE IdShapes'
  <2>1. UNCHANGED <<minted, torn, scarred>>
    BY <1>5 DEF PutAdmin, DropAdmin, histVars
  <2>2. admins' \subseteq Users
    BY <1>2, <1>5 DEF PutAdmin, DropAdmin, IdShapes
  <2>3. demoted' \subseteq demoted \cup admins
    BY <1>5 DEF PutAdmin, DropAdmin, histVars
  <2> QED BY <2>1, <2>2, <2>3 DEF IdShapes
<1>6. ASSUME NEW q \in Requests, Break(q) PROVE IdShapes'
  BY <1>2, <1>6 DEF Break, rowVars, IdShapes
<1>7. ASSUME NEW q \in Requests, Step(q),
             ~(EnsureSystemOrg(q) \/ PutIndex(q) \/ PutAdmin(q) \/ DropAdmin(q) \/ Break(q))
      PROVE  UNCHANGED <<minted, admins, demoted, torn, scarred>>
  BY <1>7 DEF Step, FindSuper, FindLogin, CreateAccount, PutUser, DropIndex, PutUserOrg,
     PutOrgUser, DropUserOrg, DropAccount, DeleteUserOrg, DeleteOrgUser, DeleteIndex,
     DeleteUserRow, DeleteAccount, histVars, rowVars
<1>8. ASSUME CreateOrg \/ DeleteOrg \/ TellPassword PROVE IdShapes'
  <2>1. /\ UNCHANGED <<admins, demoted, torn, scarred>>
        /\ minted' = minted \/ \E o \in CustomerOrgs : minted' = minted \cup {o}
    BY <1>8 DEF CreateOrg, DeleteOrg, TellPassword, histVars
  <2> QED BY <1>1, <2>1 DEF IdShapes
<1>9. CASE UNCHANGED vars
  BY <1>9 DEF vars, rowVars, histVars, IdShapes
<1> HIDE DEF IdShapes
<1>10. ASSUME NEW q \in Requests, Step(q) PROVE IdShapes'
  <2>1. CASE UNCHANGED <<minted, admins, demoted, torn, scarred>>
    BY <2>1 DEF IdShapes
  <2> QED BY <1>4, <1>5, <1>6, <1>7, <1>10, <2>1
<1> QED BY <1>3, <1>8, <1>9, <1>10 DEF Next

\* The rows, accounts and requests keep their types, whatever breaks off
\* (TenancyStore).
THEOREM TenancyTypes == Spec => []TypeOK
<1>1. AddressInv /\ TidyInv /\ IdShapes => TypeOK
  BY DEF AddressInv, Shapes, RequestShapes, TidyInv, RowShapes, IdShapes, TypeOK
<1> QED BY AddressStart, AddressStep, TidyStart, TidyStep, IdStart, IdStep, <1>1, PTL DEF Spec
===============================================================================
