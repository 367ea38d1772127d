---------------------------- MODULE StrategyRows ----------------------------
(***************************************************************************)
(* Strategy rows and the edits proposed for them: the dashboard's requests  *)
(* that create, edit, start, stop and delete a strategy, and those that     *)
(* apply or reject what self-critique proposed.                             *)
(*                                                                         *)
(* A request reads its caller's roles, then the row with its co-authors,    *)
(* then the proposal, and writes on what it read; applying is two writes.   *)
(* Requests interleave with each other and with changes of role, and each   *)
(* call may fail.                                                           *)
(***************************************************************************)
EXTENDS AuthzPolicy, Naturals

CONSTANTS
  Strategies, Users, Orgs, Proposals, Requests,
  StartRoles,     \* the role of each user in each org at the start
  NewRoles,       \* the roles a change of role hands out
  NoUser,
  MaxStarts,      \* requests after which none begins (bound)
  MaxChanges      \* changes of role (bound)

NoRole == "none"
Typed == "typed"  \* a prompt somebody typed, never a proposal's

ASSUME RowsAssumption ==
  /\ NoOrg \notin Orgs /\ NoUser \notin Users /\ NoAuthor \notin Users
  /\ Typed \notin Proposals
  /\ StartRoles \in [Users -> [Orgs -> Role \cup {NoRole}]]
  /\ NewRoles \subseteq Role \cup {NoRole}
  /\ MaxStarts \in Nat /\ MaxChanges \in Nat

VARIABLES
  present,    \* strategies with a row
  org, author, text, status, \* what the rows hold
  broken,     \* rows whose tools no longer validate
  acl,        \* co-authors with a STRATEGYACL# row
  about,      \* the strategy of each proposal
  verdict,    \* the proposals' status
  roles,      \* the members' roles
  at, verb, user, strat, prop, \* requests
  seen,       \* the roles a request's caller had when it was read
  minted,     \* strategies created so far (history)
  worn,       \* proposals whose text a row has had (history)
  crossed,    \* proposals an apply of which overlapped or broke off (history)
  starts, changes

rowVars == <<present, org, author, text, status, broken, acl>>
proposalVars == <<about, verdict>>
reqVars == <<at, verb, user, strat, prop, seen>>
histVars == <<minted, worn, crossed, starts, changes>>
vars == <<rowVars, proposalVars, roles, reqVars, histVars>>

Statuses == {"active", "paused", "stopped"}
NoRoles == [o \in Orgs |-> NoRole]

\* The first strategies were there before; the rest are yet to be created.
Init ==
  /\ present \in SUBSET Strategies
  /\ org \in [Strategies -> Orgs]
  /\ author \in [Strategies -> Users]
  /\ text = [s \in Strategies |-> Typed]
  /\ status = [s \in Strategies |-> "active"]
  /\ broken = {}
  /\ acl \in [Strategies -> SUBSET Users]
  /\ about \in [Proposals -> Strategies]
  /\ verdict = [p \in Proposals |-> "none"]
  /\ roles = StartRoles
  /\ at = [q \in Requests |-> "idle"]
  /\ verb = [q \in Requests |-> "none"]
  /\ user \in [Requests -> Users]
  /\ strat \in [Requests -> Strategies]
  /\ prop \in [Requests -> Proposals]
  /\ seen = [q \in Requests |-> NoRoles]
  /\ minted = present
  /\ worn = {}
  /\ crossed = {}
  /\ starts = 0
  /\ changes = 0

-----------------------------------------------------------------------------
(* Walking through a request.                                               *)

\* The principal a request goes by: the roles read when it began.
Principal(q) ==
  [user |-> user[q],
   roles |-> [o \in {x \in Orgs : seen[q][x] # NoRole} |-> seen[q][o]],
   sysadmin |-> FALSE]

Return(q) ==
  /\ at' = [at EXCEPT ![q] = "idle"]
  /\ verb' = [verb EXCEPT ![q] = "none"]
  /\ seen' = [seen EXCEPT ![q] = NoRoles]
  /\ UNCHANGED <<user, strat, prop>>

Go(q, next) ==
  /\ at' = [at EXCEPT ![q] = next]
  /\ UNCHANGED <<verb, user, strat, prop, seen>>

Verdicts == {"apply", "reject"}

\* Requests under way about proposal p.
Deciding(p) == {q \in Requests : verb[q] \in Verdicts /\ prop[q] = p}

\* _get_principal, then the request's own handler.
Arrive(q) ==
  /\ at[q] = "idle"
  /\ starts < MaxStarts
  /\ starts' = starts + 1
  /\ \E u \in Users, v \in {"create", "update", "status", "delete"} \cup Verdicts,
        s \in Strategies, p \in Proposals :
       /\ v \in Verdicts => about[p] = s
       /\ at' = [at EXCEPT ![q] = IF v = "create" THEN "create" ELSE "check"]
       /\ verb' = [verb EXCEPT ![q] = v]
       /\ user' = [user EXCEPT ![q] = u]
       /\ strat' = [strat EXCEPT ![q] = s]
       /\ prop' = [prop EXCEPT ![q] = IF v \in Verdicts THEN p ELSE @]
       /\ seen' = [seen EXCEPT ![q] = roles[u]]
       /\ crossed' = IF v \in Verdicts /\ Deciding(p) # {}
                     THEN crossed \cup {p} ELSE crossed
  /\ UNCHANGED <<rowVars, proposalVars, roles, minted, worn, changes>>

\* POST /api/strategies: into the caller's active org.
CreateStrategy(q) ==
  /\ at[q] = "create"
  /\ \/ \E s \in Strategies \ minted, o \in Orgs :
          /\ Can(Principal(q), "create", Authored("strategy", o, user[q], {}))
          /\ present' = present \cup {s}
          /\ org' = [org EXCEPT ![s] = o]
          /\ author' = [author EXCEPT ![s] = user[q]]
          /\ acl' = [acl EXCEPT ![s] = {}]
          /\ minted' = minted \cup {s}
     \/ UNCHANGED <<present, org, author, acl, minted>>
  /\ Return(q)
  /\ UNCHANGED <<text, status, broken, proposalVars, roles, worn, crossed,
                 starts, changes>>

Right(v) == IF v = "delete" THEN "delete" ELSE "update"

AfterCheck(v) ==
  CASE v \in Verdicts -> "proposal"
    [] v = "delete" -> "delete"
    [] OTHER -> "update"

\* The row and its co-authors are read and the policy asked: no row is a 404, a
\* row that does not validate a 500.
Check(q) ==
  LET s == strat[q]
      resource == Authored("strategy", org[s], author[s], acl[s])
  IN /\ at[q] = "check"
     /\ \/ /\ s \in present \ broken
           /\ Can(Principal(q), Right(verb[q]), resource)
           /\ Go(q, AfterCheck(verb[q]))
        \/ /\ s \notin present \ broken \/ ~Can(Principal(q), Right(verb[q]), resource)
           /\ Return(q)
     /\ UNCHANGED <<rowVars, proposalVars, roles, histVars>>

\* Neither applied nor rejected so far.
Open(p) == verdict[p] = "pending"

\* The verdict is written first.
AfterRead_slip(v) == "decide"

\* Applying changes the prompt, then writes the verdict.
AfterRead(v) == IF v = "apply" THEN "update" ELSE "decide"

\* proposals.get: not found is a 404, decided before is a 409.
ReadProposal(q) ==
  /\ at[q] = "proposal"
  /\ IF Open(prop[q]) THEN Go(q, AfterRead(verb[q])) ELSE Return(q)
  /\ UNCHANGED <<rowVars, proposalVars, roles, histVars>>

\* update_item creates a row that is not there.
Updatable_slip(s) == TRUE

\* Its condition attribute_exists(pk).
Updatable(s) == s \in present

\* StrategyStore.update.  The request's tools are stored unvalidated; a row that
\* does not validate is written all the same, and then the call raises.
Update(q) ==
  LET s == strat[q]
  IN /\ at[q] = "update"
     /\ \/ /\ Updatable(s)
           /\ present' = present \cup {s}
           /\ \/ /\ verb[q] = "apply"
                 /\ text' = [text EXCEPT ![s] = prop[q]]
                 /\ worn' = worn \cup {prop[q]}
                 /\ UNCHANGED <<status, broken>>
              \/ /\ verb[q] = "status"
                 /\ \E x \in Statuses : status' = [status EXCEPT ![s] = x]
                 /\ UNCHANGED <<text, broken, worn>>
              \/ /\ verb[q] = "update"
                 /\ \E x \in {Typed, text[s]} : text' = [text EXCEPT ![s] = x]
                 /\ \E x \in Statuses : status' = [status EXCEPT ![s] = x]
                 /\ broken' \in {broken, broken \cup {s}, broken \ {s}}
                 /\ UNCHANGED worn
           /\ IF verb[q] = "apply" /\ s \notin broken THEN Go(q, "decide")
              ELSE Return(q)
        \/ /\ ~Updatable(s)
           /\ Return(q)
           /\ UNCHANGED <<present, text, status, broken, worn>>
     /\ crossed' = IF verb[q] = "apply" /\ s \notin present \ broken
                   THEN crossed \cup {prop[q]} ELSE crossed
  /\ UNCHANGED <<org, author, acl, proposalVars, roles, minted, starts, changes>>

\* decide's condition: only what is still pending.
Decidable(p) == verdict[p] = "pending"

\* StrategyProposalsStore.decide: what has been decided in between is a 500.
Decide(q) ==
  LET p == prop[q]
  IN /\ at[q] = "decide"
     /\ \/ /\ Decidable(p)
           /\ verdict' = [verdict EXCEPT ![p] =
                            IF verb[q] = "apply" THEN "applied" ELSE "rejected"]
        \/ ~Decidable(p) /\ UNCHANGED verdict
     /\ Return(q)
  /\ UNCHANGED <<rowVars, about, roles, histVars>>

\* StrategyStore.delete, the row: deleting none is no error.
DeleteRow(q) ==
  /\ at[q] = "delete"
  /\ present' = present \ {strat[q]}
  /\ broken' = broken \ {strat[q]}
  /\ Go(q, "acls")
  /\ UNCHANGED <<org, author, text, status, acl, proposalVars, roles, histVars>>

\* StrategyStore.delete, one of the co-authors' rows.
SweepAcl(q) ==
  /\ at[q] = "acls"
  /\ \/ \E u \in acl[strat[q]] :
          /\ acl' = [acl EXCEPT ![strat[q]] = @ \ {u}]
          /\ Go(q, "acls")
     \/ acl[strat[q]] = {} /\ Return(q) /\ UNCHANGED acl
  /\ UNCHANGED <<present, org, author, text, status, broken, proposalVars,
                 roles, histVars>>

\* The request's call raises, or its process dies.
Break(q) ==
  /\ at[q] # "idle"
  /\ Return(q)
  /\ crossed' = IF verb[q] = "apply" THEN crossed \cup {prop[q]} ELSE crossed
  /\ UNCHANGED <<rowVars, proposalVars, roles, minted, worn, starts, changes>>

-----------------------------------------------------------------------------
(* Beside the requests.                                                     *)

\* propose_strategy_edit: the strategy was there when the critique began.
Propose(p) ==
  /\ about[p] \in minted
  /\ verdict[p] = "none"
  /\ verdict' = [verdict EXCEPT ![p] = "pending"]
  /\ UNCHANGED <<rowVars, about, roles, reqVars, histVars>>

\* Tenancy: a member is given another role, or leaves.
ChangeRole(u, o) ==
  /\ changes < MaxChanges
  /\ changes' = changes + 1
  /\ \E r \in NewRoles : roles' = [roles EXCEPT ![u][o] = r]
  /\ UNCHANGED <<rowVars, proposalVars, reqVars, minted, worn, crossed, starts>>

Step(q) ==
  \/ Arrive(q) \/ CreateStrategy(q) \/ Check(q) \/ ReadProposal(q)
  \/ Update(q) \/ Decide(q) \/ DeleteRow(q) \/ SweepAcl(q) \/ Break(q)

Next ==
  \/ \E q \in Requests : Step(q)
  \/ \E p \in Proposals : Propose(p)
  \/ \E u \in Users, o \in Orgs : ChangeRole(u, o)

Spec == Init /\ [][Next]_vars

-----------------------------------------------------------------------------
(* Properties.                                                              *)

TypeOK ==
  /\ present \subseteq minted /\ minted \subseteq Strategies
  /\ org \in [Strategies -> Orgs]
  /\ author \in [Strategies -> Users]
  /\ text \in [Strategies -> Proposals \cup {Typed}]
  /\ acl \in [Strategies -> SUBSET Users]
  /\ about \in [Proposals -> Strategies]
  /\ verdict \in [Proposals -> {"none", "pending", "applied", "rejected"}]
  /\ roles \in [Users -> [Orgs -> Role \cup {NoRole}]]
  /\ user \in [Requests -> Users]
  /\ strat \in [Requests -> Strategies]
  /\ prop \in [Requests -> Proposals]
  /\ worn \subseteq Proposals

\* A strategy once deleted never comes back: an edit, a change of status or an
\* apply that checked the row before the deletion writes nothing after it.
DeletedStaysDeleted ==
  [][\A s \in minted \ present : s \notin present']_vars

\* A proposal is shown as applied only when its text got into the strategy: the
\* split write of apply fails on the side where the proposal stays pending.
AppliedMeansWorn ==
  \A p \in Proposals : verdict[p] = "applied" => p \in worn

\* The text of a rejected proposal has been in force only when an apply of it
\* overlapped another verdict or broke off between its two writes.
RejectedStaysOut ==
  \A p \in Proposals : verdict[p] = "rejected" /\ p \in worn => p \in crossed

\* The verdict a user is shown agrees with what the strategy's text has been,
\* both ways (apply_strategy_proposal, reject_strategy_proposal).
VerdictMatchesText == AppliedMeansWorn /\ RejectedStaysOut

\* A strategy is changed or deleted only by an operator or orgadmin of its org,
\* author or not, or by one who ceased to be while the request ran.
OnlyItsOrgEdits ==
  [][\A s \in present :
       <<text[s], status[s], s \in present, s \in broken>>'
         # <<text[s], status[s], s \in present, s \in broken>> =>
       \E q \in Requests :
         /\ at[q] # "idle" /\ strat[q] = s
         /\ \/ roles[user[q]][org[s]] \in {"operator", "orgadmin"}
            \/ roles[user[q]] # seen[q]]_vars
=============================================================================
