-------------------------- MODULE StrategyRowsProofs --------------------------
(***************************************************************************)
(* Verdicts agree with what the rows have shown, deleted strategies stay    *)
(* deleted, and rows are changed by editors of their org alone, for any     *)
(* strategies, proposals, members and requests.                             *)
(*                                                                         *)
(* An apply writes the row and then the verdict.  The invariant follows it   *)
(* in between: as long as no other verdict on the proposal is under way, and  *)
(* none broke off, the proposal is still pending, and the text it left in     *)
(* the row is accounted for by the apply that is about to decide.           *)
(*                                                                         *)
(* A request past its check was let through by one of two rules, and both    *)
(* ask for a role in the strategy's org; which org that is never changes, so *)
(* the roles the request read still speak of it when it writes.              *)
(***************************************************************************)
EXTENDS StrategyRows, TLAPS

\* A request that gives a verdict.
Judging(q) == verb[q] \in Verdicts

Places == {"idle", "create", "check", "proposal", "update", "decide", "delete", "acls"}
Verbs == {"none", "create", "update", "status", "delete", "apply", "reject"}
VerdictsGiven == {"none", "pending", "applied", "rejected"}

Shapes ==
  /\ at \in [Requests -> Places] /\ verb \in [Requests -> Verbs]
  /\ prop \in [Requests -> Proposals]
  /\ verdict \in [Proposals -> VerdictsGiven]

\* Requests at rest give no verdict, and only a verdict is read up and decided.
VerbsFit ==
  \A q \in Requests :
    /\ at[q] = "idle" => verb[q] = "none"
    /\ at[q] \in {"proposal", "decide"} => Judging(q)

\* An apply decides on a text it has written.
WrittenFirst ==
  \A q \in Requests : at[q] = "decide" /\ verb[q] = "apply" => prop[q] \in worn

\* Two verdicts on one proposal are under way only when it counts as crossed.
OneAtATime ==
  \A p, q \in Requests :
    p # q /\ Judging(p) /\ Judging(q) /\ prop[p] = prop[q] => prop[p] \in crossed

\* What a verdict has read as pending is so when it writes.
StillPending ==
  \A q \in Requests :
    Judging(q) /\ at[q] \in {"update", "decide"} /\ prop[q] \notin crossed =>
      verdict[prop[q]] = "pending"

\* Text that was written is applied, or about to be.
Accounted ==
  \A p \in worn \ crossed :
    \/ verdict[p] = "applied"
    \/ \E q \in Requests : at[q] = "decide" /\ verb[q] = "apply" /\ prop[q] = p

VerdictInv ==
  /\ Shapes /\ VerbsFit /\ WrittenFirst /\ OneAtATime /\ StillPending /\ Accounted
  /\ AppliedMeansWorn

LEMMA VerdictInvSuffices == VerdictInv => VerdictMatchesText
<1> SUFFICES ASSUME VerdictInv, NEW p \in Proposals, verdict[p] = "rejected", p \in worn,
                    p \notin crossed
             PROVE  FALSE
  BY DEF VerdictInv, VerdictMatchesText, RejectedStaysOut
<1>1. PICK q \in Requests : at[q] = "decide" /\ verb[q] = "apply" /\ prop[q] = p
  BY DEF VerdictInv, Accounted
<1> QED BY <1>1 DEF VerdictInv, StillPending, Judging, Verdicts

LEMMA VerdictStart == Init => VerdictInv
BY DEF Init, VerdictInv, Shapes, VerbsFit, WrittenFirst, OneAtATime, StillPending,
       Accounted, AppliedMeansWorn, Judging, Verdicts, Places, Verbs, VerdictsGiven

\* A request ends without having written a verdict or a text; one that was about
\* to decide on its apply leaves the proposal crossed.
LEMMA ReturnKeeps ==
  ASSUME VerdictInv, NEW q \in Requests, Return(q),
         verdict' = verdict, worn' = worn, crossed \subseteq crossed',
         at[q] = "decide" /\ verb[q] = "apply" => prop[q] \in crossed'
  PROVE  VerdictInv'
<1> USE DEF VerdictInv, Return
<1>1. Shapes' /\ VerbsFit'
  BY DEF Shapes, VerbsFit, Judging, Verdicts, Places, Verbs
<1>2. WrittenFirst' /\ OneAtATime' /\ StillPending'
  BY DEF Shapes, WrittenFirst, OneAtATime, StillPending, Judging, Verdicts
<1>3. Accounted'
  BY DEF Shapes, Accounted
<1>4. AppliedMeansWorn'
  BY DEF AppliedMeansWorn
<1> QED BY <1>1, <1>2, <1>3, <1>4

\* A request goes on to a place from which it does not write a verdict, or from
\* one at which its proposal was pending.
LEMMA GoKeeps ==
  ASSUME VerdictInv, NEW q \in Requests, NEW next \in Places, Go(q, next),
         at[q] \notin {"idle", "decide"}, next # "idle",
         verdict' = verdict, worn' = worn, crossed' = crossed,
         next \in {"update", "decide"} /\ Judging(q) => verdict[prop[q]] = "pending",
         next = "proposal" => Judging(q),
         next = "decide" => verb[q] = "reject"
  PROVE  VerdictInv'
<1> USE DEF VerdictInv, Go
<1>1. Shapes' /\ VerbsFit'
  BY DEF Shapes, VerbsFit, Judging, Verdicts, Places, Verbs
<1>2. WrittenFirst' /\ OneAtATime'
  BY DEF Shapes, WrittenFirst, OneAtATime, Judging
<1>3. StillPending'
  BY DEF Shapes, StillPending, Judging
<1>4. Accounted'
  BY DEF Shapes, Accounted
<1>5. AppliedMeansWorn'
  BY DEF AppliedMeansWorn
<1> QED BY <1>1, <1>2, <1>3, <1>4, <1>5

LEMMA ArriveKeeps ==
  ASSUME VerdictInv, NEW q \in Requests, Arrive(q)
  PROVE  VerdictInv'
<1>1. PICK v \in {"create", "update", "status", "delete"} \cup Verdicts, p \in Proposals :
        /\ at' = [at EXCEPT ![q] = IF v = "create" THEN "create" ELSE "check"]
        /\ verb' = [verb EXCEPT ![q] = v]
        /\ prop' = [prop EXCEPT ![q] = IF v \in Verdicts THEN p ELSE prop[q]]
        /\ crossed' = IF v \in Verdicts /\ Deciding(p) # {} THEN crossed \cup {p} ELSE crossed
  BY DEF Arrive
<1>2. verdict' = verdict /\ worn' = worn /\ at[q] = "idle" /\ verb[q] = "none"
  BY DEF Arrive, proposalVars, VerdictInv, VerbsFit
<1> USE DEF VerdictInv
<1>3. Shapes'
  BY <1>1, <1>2 DEF Shapes, Places, Verbs, Verdicts
<1>4. VerbsFit'
  BY <1>1, <1>2 DEF Shapes, VerbsFit, Judging, Verdicts
<1>5. WrittenFirst' /\ StillPending'
  BY <1>1, <1>2 DEF Shapes, WrittenFirst, StillPending, Judging
<1>6. OneAtATime'
  BY <1>1, <1>2 DEF Shapes, OneAtATime, Judging, Deciding
<1>7. Accounted'
  BY <1>1, <1>2 DEF Shapes, Accounted
<1>8. AppliedMeansWorn'
  BY <1>2 DEF AppliedMeansWorn
<1> QED BY <1>3, <1>4, <1>5, <1>6, <1>7, <1>8

\* An apply writes its text; where the row does not validate it ends crossed.
LEMMA ApplyKeeps ==
  ASSUME VerdictInv, NEW q \in Requests, at[q] = "update", verb[q] = "apply",
         verdict' = verdict, worn' = worn \cup {prop[q]},
         \/ Go(q, "decide") /\ crossed' = crossed
         \/ Return(q) /\ crossed' = crossed \cup {prop[q]}
  PROVE  VerdictInv'
<1> USE DEF VerdictInv
<1>1. CASE Go(q, "decide") /\ crossed' = crossed
  <2> USE <1>1 DEF Go
  <2>1. Shapes' /\ VerbsFit'
    BY DEF Shapes, VerbsFit, Judging, Verdicts, Places, Verbs
  <2>2. WrittenFirst' /\ OneAtATime' /\ StillPending'
    BY DEF Shapes, WrittenFirst, OneAtATime, StillPending, Judging
  <2>3. Accounted'
    BY DEF Shapes, Accounted
  <2>4. AppliedMeansWorn'
    BY DEF AppliedMeansWorn
  <2> QED BY <2>1, <2>2, <2>3, <2>4
<1>2. CASE Return(q) /\ crossed' = crossed \cup {prop[q]}
  <2> USE <1>2 DEF Return
  <2>1. Shapes' /\ VerbsFit'
    BY DEF Shapes, VerbsFit, Judging, Verdicts, Places, Verbs
  <2>2. WrittenFirst' /\ OneAtATime' /\ StillPending'
    BY DEF Shapes, WrittenFirst, OneAtATime, StillPending, Judging, Verdicts
  <2>3. Accounted'
    BY DEF Shapes, Accounted
  <2>4. AppliedMeansWorn'
    BY DEF AppliedMeansWorn
  <2> QED BY <2>1, <2>2, <2>3, <2>4
<1> QED BY <1>1, <1>2

LEMMA UpdateKeeps ==
  ASSUME VerdictInv, NEW q \in Requests, Update(q)
  PROVE  VerdictInv'
<1>1. at[q] = "update" /\ verdict' = verdict /\ crossed \subseteq crossed'
  BY DEF Update, proposalVars
<1>2. CASE verb[q] = "apply" /\ Updatable(strat[q])
  <2>1. worn' = worn \cup {prop[q]}
    BY <1>2 DEF Update
  <2>2. \/ Go(q, "decide") /\ crossed' = crossed
        \/ Return(q) /\ crossed' = crossed \cup {prop[q]}
    BY <1>2 DEF Update, Updatable
  <2> QED BY <1>1, <1>2, <2>1, <2>2, ApplyKeeps
<1>3. CASE verb[q] # "apply" \/ ~Updatable(strat[q])
  <2>1. worn' = worn /\ Return(q)
    BY <1>3 DEF Update
  <2> QED BY <1>1, <2>1, ReturnKeeps
<1> QED BY <1>2, <1>3

\* A verdict is written: nobody else's text or verdict is in the way, or the
\* proposal is crossed.
LEMMA DecideKeeps ==
  ASSUME VerdictInv, NEW q \in Requests, Decide(q)
  PROVE  VerdictInv'
<1> DEFINE p == prop[q]
<1>1. /\ at[q] = "decide" /\ Return(q) /\ worn' = worn /\ crossed' = crossed
      /\ p \in Proposals /\ verb[q] \in Verdicts
      /\ verb[q] = "apply" => p \in worn
  BY DEF Decide, histVars, VerdictInv, Shapes, VerbsFit, Judging, WrittenFirst
<1>2. CASE verdict' = verdict
  <2>1. Decidable(p) => FALSE
    BY <1>1, <1>2 DEF Decide, Decidable, VerdictInv, Shapes, VerdictsGiven
  <2>2. p \in crossed
    BY <1>1, <2>1 DEF Decidable, VerdictInv, StillPending, Judging
  <2> QED BY <1>1, <1>2, <2>2, ReturnKeeps
<1>3. CASE Decidable(p) /\ verdict' = [verdict EXCEPT ![p] =
                              IF verb[q] = "apply" THEN "applied" ELSE "rejected"]
  <2> USE DEF VerdictInv
  <2>1. Shapes' /\ VerbsFit'
    BY <1>1, <1>3 DEF Return, Shapes, VerbsFit, Judging, Verdicts, Places, Verbs, VerdictsGiven
  <2>2. WrittenFirst' /\ OneAtATime'
    BY <1>1 DEF Return, Shapes, WrittenFirst, OneAtATime, Judging, Verdicts
  <2>3. StillPending'
    BY <1>1, <1>3 DEF Return, Shapes, OneAtATime, StillPending, Judging, Verdicts
  <2>4. Accounted'
    <3> SUFFICES ASSUME NEW r \in worn \ crossed, r \in Proposals, verdict'[r] # "applied"
                 PROVE  \E x \in Requests : at'[x] = "decide" /\ verb'[x] = "apply" /\ prop'[x] = r
      BY <1>1, <1>3 DEF Accounted, AppliedMeansWorn, Shapes
    <3>1. verdict[r] # "applied"
      BY <1>3 DEF Decidable, Shapes
    <3>2. PICK x \in Requests : at[x] = "decide" /\ verb[x] = "apply" /\ prop[x] = r
      BY <3>1 DEF Accounted
    <3>3. x # q
      BY <1>1, <1>3, <3>2 DEF Shapes
    <3> QED BY <1>1, <3>2, <3>3 DEF Return, Shapes
  <2>5. AppliedMeansWorn'
    BY <1>1, <1>3 DEF AppliedMeansWorn, Shapes
  <2> QED BY <2>1, <2>2, <2>3, <2>4, <2>5
<1> QED BY <1>2, <1>3 DEF Decide

LEMMA VerdictStep == VerdictInv /\ [Next]_vars => VerdictInv'
<1> SUFFICES ASSUME VerdictInv, [Next]_vars PROVE VerdictInv'
  OBVIOUS
<1>1. ASSUME NEW q \in Requests, CreateStrategy(q) PROVE VerdictInv'
  BY <1>1, ReturnKeeps DEF CreateStrategy, proposalVars
<1>2. ASSUME NEW q \in Requests, Check(q) PROVE VerdictInv'
  <2>1. /\ at[q] = "check" /\ verdict' = verdict /\ worn' = worn /\ crossed' = crossed
        /\ Return(q) \/ Go(q, AfterCheck(verb[q]))
    BY <1>2 DEF Check, proposalVars, histVars
  <2>2. /\ AfterCheck(verb[q]) \in {"proposal", "delete", "update"}
        /\ AfterCheck(verb[q]) = "update" => ~Judging(q)
        /\ AfterCheck(verb[q]) = "proposal" => Judging(q)
    BY DEF AfterCheck, Judging
  <2> DEFINE next == AfterCheck(verb[q])
  <2>3. next \in Places \ {"idle", "decide"}
    BY <2>2 DEF Places
  <2> HIDE DEF next
  <2>4. /\ next \in {"update", "decide"} => ~Judging(q)
        /\ next = "proposal" => Judging(q)
    BY <2>2, <2>3 DEF next
  <2>5. CASE Return(q)
    BY <2>1, <2>5, ReturnKeeps
  <2>6. CASE Go(q, next)
    BY <2>1, <2>3, <2>4, <2>6, GoKeeps
  <2> QED BY <2>1, <2>5, <2>6 DEF next
<1>3. ASSUME NEW q \in Requests, ReadProposal(q) PROVE VerdictInv'
  <2>1. /\ at[q] = "proposal" /\ verdict' = verdict /\ worn' = worn /\ crossed' = crossed
        /\ \/ Return(q)
           \/ Go(q, "update") /\ verdict[prop[q]] = "pending"
           \/ Go(q, "decide") /\ verdict[prop[q]] = "pending" /\ verb[q] # "apply"
    BY <1>3 DEF ReadProposal, Open, AfterRead, proposalVars, histVars
  <2>2. CASE Return(q)
    BY <2>1, <2>2, ReturnKeeps
  <2>3. verb[q] # "apply" => verb[q] = "reject"
    BY <2>1 DEF VerdictInv, VerbsFit, Judging, Verdicts
  <2>4. "update" \in Places /\ "decide" \in Places
    BY DEF Places
  <2>5. CASE Go(q, "update") /\ verdict[prop[q]] = "pending"
    BY <2>1, <2>4, <2>5, GoKeeps
  <2>6. CASE Go(q, "decide") /\ verdict[prop[q]] = "pending" /\ verb[q] = "reject"
    BY <2>1, <2>4, <2>6, GoKeeps
  <2> QED BY <2>1, <2>2, <2>3, <2>5, <2>6
<1>4. ASSUME NEW q \in Requests, DeleteRow(q) PROVE VerdictInv'
  <2>1. /\ at[q] = "delete" /\ verdict' = verdict /\ worn' = worn /\ crossed' = crossed
        /\ Go(q, "acls") /\ "acls" \in Places
    BY <1>4 DEF DeleteRow, proposalVars, histVars, Places
  <2> QED BY <2>1, GoKeeps
<1>5. ASSUME NEW q \in Requests, SweepAcl(q) PROVE VerdictInv'
  <2>1. /\ at[q] = "acls" /\ verdict' = verdict /\ worn' = worn /\ crossed' = crossed
        /\ Go(q, "acls") \/ Return(q)
        /\ "acls" \in Places
    BY <1>5 DEF SweepAcl, proposalVars, histVars, Places
  <2>2. CASE Go(q, "acls")
    BY <2>1, <2>2, GoKeeps
  <2>3. CASE Return(q)
    BY <2>1, <2>3, ReturnKeeps
  <2> QED BY <2>1, <2>2, <2>3
<1>6. ASSUME NEW q \in Requests, Break(q) PROVE VerdictInv'
  <2>1. /\ verdict' = verdict /\ worn' = worn /\ Return(q)
        /\ crossed \subseteq crossed'
        /\ at[q] = "decide" /\ verb[q] = "apply" => prop[q] \in crossed'
    BY <1>6 DEF Break, proposalVars
  <2> QED BY <2>1, ReturnKeeps
\* Nobody has applied or rejected what is proposed only now.
<1>7. ASSUME NEW p \in Proposals, Propose(p) PROVE VerdictInv'
  <2>1. /\ verdict[p] = "none" /\ verdict' = [verdict EXCEPT ![p] = "pending"]
        /\ UNCHANGED <<at, verb, prop, worn, crossed>>
    BY <1>7 DEF Propose, reqVars, histVars
  <2> QED BY <2>1 DEF VerdictInv, Shapes, VerbsFit, WrittenFirst, OneAtATime, StillPending,
        Accounted, AppliedMeansWorn, Judging, VerdictsGiven
<1>8. ASSUME UNCHANGED <<verdict, at, verb, prop, worn, crossed>> PROVE VerdictInv'
  BY <1>8 DEF VerdictInv, Shapes, VerbsFit, WrittenFirst, OneAtATime, StillPending,
    Accounted, AppliedMeansWorn, Judging
<1>9. ASSUME NEW u \in Users, NEW o \in Orgs, ChangeRole(u, o) PROVE VerdictInv'
  BY <1>8, <1>9 DEF ChangeRole, proposalVars, reqVars
<1>10. CASE UNCHANGED vars
  BY <1>8, <1>10 DEF vars, proposalVars, reqVars, histVars
<1>11. ASSUME NEW q \in Requests, Step(q) PROVE VerdictInv'
  BY <1>11, <1>1, <1>2, <1>3, <1>4, <1>5, <1>6, ArriveKeeps, UpdateKeeps, DecideKeeps DEF Step
<1> QED BY <1>7, <1>9, <1>10, <1>11 DEF Next

\* A proposal shown as applied has been in the strategy's text, and one shown as
\* rejected has not, unless an apply of it overlapped another verdict or broke off
\* between its two writes (apply_strategy_proposal, reject_strategy_proposal).
THEOREM VerdictsAreTrue == Spec => []VerdictMatchesText
BY VerdictStart, VerdictStep, VerdictInvSuffices, PTL DEF Spec

\* A strategy that was deleted has no row ever again: the condition of the update
\* stops an edit that had read the row before (StrategyStore.update, delete).
THEOREM DeletedIsGone == Spec => DeletedStaysDeleted
<1> DEFINE Stays == \A s \in minted \ present : s \notin present'
<1>1. [Next]_vars => Stays
  <2> SUFFICES ASSUME [Next]_vars, NEW s \in minted \ present PROVE s \notin present'
    OBVIOUS
  <2>1. ASSUME NEW q \in Requests, Step(q) PROVE s \notin present'
    BY <2>1 DEF Step, Arrive, CreateStrategy, Check, ReadProposal, Update, Updatable, Decide,
       DeleteRow, SweepAcl, Break, rowVars
  <2>2. ASSUME NEW p \in Proposals, Propose(p) PROVE s \notin present'
    BY <2>2 DEF Propose, rowVars
  <2>3. ASSUME NEW u \in Users, NEW o \in Orgs, ChangeRole(u, o) PROVE s \notin present'
    BY <2>3 DEF ChangeRole, rowVars
  <2>4. CASE UNCHANGED vars
    BY <2>4 DEF vars, rowVars
  <2> QED BY <2>1, <2>2, <2>3, <2>4 DEF Next
<1>2. [Next]_vars => [Stays]_vars
  BY <1>1
<1> QED BY <1>2, PTL DEF Spec, DeletedStaysDeleted

-----------------------------------------------------------------------------
(* Types.                                                                   *)

RowTypeInv == TypeOK /\ status \in [Strategies -> Statuses]

LEMMA RowTypeStart == Init => RowTypeInv
BY RowsAssumption DEF RowsAssumption, Init, RowTypeInv, TypeOK, Statuses

LEMMA RequestTypes ==
  ASSUME TypeOK, NEW q \in Requests, Return(q) \/ \E x : Go(q, x)
  PROVE  UNCHANGED <<user, strat, prop>>
BY DEF Return, Go

LEMMA RowTypeStep == RowTypeInv /\ [Next]_vars => RowTypeInv'
<1> SUFFICES ASSUME RowTypeInv, [Next]_vars PROVE RowTypeInv'
  OBVIOUS
<1>1. ASSUME NEW q \in Requests, Arrive(q) PROVE RowTypeInv'
  <2>1. UNCHANGED <<present, org, author, text, status, acl, about, verdict, roles, minted, worn>>
    BY <1>1 DEF Arrive, rowVars, proposalVars
  <2>2. /\ user' \in [Requests -> Users] /\ strat' \in [Requests -> Strategies]
        /\ prop' \in [Requests -> Proposals]
    BY <1>1 DEF Arrive, RowTypeInv, TypeOK
  <2> QED BY <2>1, <2>2 DEF RowTypeInv, TypeOK
<1>2. ASSUME NEW q \in Requests, CreateStrategy(q) PROVE RowTypeInv'
  <2>1. UNCHANGED <<text, status, about, verdict, roles, worn, user, strat, prop>>
    BY <1>2 DEF CreateStrategy, Return, proposalVars
  <2>2. CASE UNCHANGED <<present, org, author, acl, minted>>
    BY <2>1, <2>2 DEF RowTypeInv, TypeOK
  <2>3. ASSUME NEW s \in Strategies, NEW o \in Orgs,
               present' = present \cup {s}, minted' = minted \cup {s},
               org' = [org EXCEPT ![s] = o], author' = [author EXCEPT ![s] = user[q]],
               acl' = [acl EXCEPT ![s] = {}]
        PROVE  RowTypeInv'
    <3>1. org' \in [Strategies -> Orgs]
      BY <2>3 DEF RowTypeInv, TypeOK
    <3>2. author' \in [Strategies -> Users]
      BY <2>3 DEF RowTypeInv, TypeOK
    <3>3. acl' \in [Strategies -> SUBSET Users]
      BY <2>3 DEF RowTypeInv, TypeOK
    <3>4. present' \subseteq minted' /\ minted' \subseteq Strategies
      BY <2>3 DEF RowTypeInv, TypeOK
    <3> QED BY <2>1, <3>1, <3>2, <3>3, <3>4 DEF RowTypeInv, TypeOK
  <2> QED BY <1>2, <2>2, <2>3 DEF CreateStrategy
<1>3. ASSUME NEW q \in Requests, Update(q) PROVE RowTypeInv'
  <2>1. Return(q) \/ Go(q, "decide")
    BY <1>3 DEF Update
  <2>2. UNCHANGED <<org, author, acl, about, verdict, roles, minted, user, strat, prop>>
    BY <1>3, <2>1, RequestTypes DEF Update, proposalVars, RowTypeInv
  <2>3. strat[q] \in Strategies /\ prop[q] \in Proposals
    BY DEF RowTypeInv, TypeOK
  <2>4. present' = present
    BY <1>3 DEF Update, Updatable
  <2>5. text' = text \/ (text' = [text EXCEPT ![strat[q]] = prop[q]])
        \/ \E x \in {Typed, text[strat[q]]} : text' = [text EXCEPT ![strat[q]] = x]
    BY <1>3 DEF Update
  <2>6. text' \in [Strategies -> Proposals \cup {Typed}]
    <3>1. text \in [Strategies -> Proposals \cup {Typed}]
      BY DEF RowTypeInv, TypeOK
    <3>2. ASSUME NEW x \in Proposals \cup {Typed}, text' = [text EXCEPT ![strat[q]] = x]
          PROVE  text' \in [Strategies -> Proposals \cup {Typed}]
      BY <3>1, <3>2
    <3>3. text[strat[q]] \in Proposals \cup {Typed}
      BY <2>3, <3>1
    <3> QED BY <2>3, <2>5, <3>1, <3>2, <3>3
  <2>7. status' = status \/ \E x \in Statuses : status' = [status EXCEPT ![strat[q]] = x]
    BY <1>3 DEF Update
  <2>8. status' \in [Strategies -> Statuses]
    BY <2>3, <2>7 DEF RowTypeInv
  <2>9. worn' \subseteq Proposals
    <3>1. worn' = worn \/ worn' = worn \cup {prop[q]}
      BY <1>3 DEF Update
    <3> QED BY <2>3, <3>1 DEF RowTypeInv, TypeOK
  <2> QED BY <2>2, <2>4, <2>6, <2>8, <2>9 DEF RowTypeInv, TypeOK
<1>4. ASSUME NEW q \in Requests, Decide(q) PROVE RowTypeInv'
  <2>1. UNCHANGED <<present, org, author, text, status, acl, about, roles, minted, worn,
                    user, strat, prop>>
    BY <1>4 DEF Decide, rowVars, histVars, Return
  <2>2. verdict' = verdict
        \/ \E x \in {"applied", "rejected"} : verdict' = [verdict EXCEPT ![prop[q]] = x]
    BY <1>4 DEF Decide
  <2>3. verdict' \in [Proposals -> {"none", "pending", "applied", "rejected"}]
    BY <2>2 DEF RowTypeInv, TypeOK
  <2> QED BY <2>1, <2>3 DEF RowTypeInv, TypeOK
<1>5. ASSUME NEW q \in Requests, DeleteRow(q) PROVE RowTypeInv'
  <2>1. /\ UNCHANGED <<org, author, text, status, acl, about, verdict, roles, minted, worn,
                       user, strat, prop>>
        /\ present' \subseteq present
    BY <1>5 DEF DeleteRow, proposalVars, histVars, Go
  <2> QED BY <2>1 DEF RowTypeInv, TypeOK
<1>6. ASSUME NEW q \in Requests, SweepAcl(q) PROVE RowTypeInv'
  <2>1. UNCHANGED <<present, org, author, text, status, about, verdict, roles, minted, worn,
                    user, strat, prop>>
    BY <1>6 DEF SweepAcl, proposalVars, histVars, Go, Return
  <2>2. acl' = acl \/ \E u \in Users : acl' = [acl EXCEPT ![strat[q]] = acl[strat[q]] \ {u}]
    BY <1>6 DEF SweepAcl, RowTypeInv, TypeOK
  <2>3. acl' \in [Strategies -> SUBSET Users]
    BY <2>2 DEF RowTypeInv, TypeOK
  <2> QED BY <2>1, <2>3 DEF RowTypeInv, TypeOK
<1>7. ASSUME NEW q \in Requests, Check(q) \/ ReadProposal(q) \/ Break(q) PROVE RowTypeInv'
  <2>1. UNCHANGED <<present, org, author, text, status, acl, about, verdict, roles, minted, worn>>
    BY <1>7 DEF Check, ReadProposal, Break, rowVars, proposalVars, histVars
  <2>2. Return(q) \/ \E x : Go(q, x)
    BY <1>7 DEF Check, ReadProposal, Break
  <2>3. UNCHANGED <<user, strat, prop>>
    BY <2>2, RequestTypes DEF RowTypeInv
  <2> QED BY <2>1, <2>3 DEF RowTypeInv, TypeOK
<1>8. ASSUME NEW p \in Proposals, Propose(p) PROVE RowTypeInv'
  <2>1. UNCHANGED <<present, org, author, text, status, acl, about, roles, minted, worn,
                    user, strat, prop>>
    BY <1>8 DEF Propose, rowVars, reqVars, histVars
  <2>2. verdict' \in [Proposals -> {"none", "pending", "applied", "rejected"}]
    BY <1>8 DEF Propose, RowTypeInv, TypeOK
  <2> QED BY <2>1, <2>2 DEF RowTypeInv, TypeOK
<1>9. ASSUME NEW u \in Users, NEW o \in Orgs, ChangeRole(u, o) PROVE RowTypeInv'
  <2>1. UNCHANGED <<present, org, author, text, status, acl, about, verdict, minted, worn,
                    user, strat, prop>>
    BY <1>9 DEF ChangeRole, rowVars, proposalVars, reqVars
  <2>2. PICK r \in NewRoles : roles' = [roles EXCEPT ![u][o] = r]
    BY <1>9 DEF ChangeRole
  <2>3. r \in Role \cup {NoRole}
    BY RowsAssumption DEF RowsAssumption
  <2>4. roles' \in [Users -> [Orgs -> Role \cup {NoRole}]]
    BY <2>2, <2>3 DEF RowTypeInv, TypeOK
  <2> QED BY <2>1, <2>4 DEF RowTypeInv, TypeOK
<1>10. CASE UNCHANGED vars
  BY <1>10 DEF vars, rowVars, proposalVars, reqVars, histVars, RowTypeInv, TypeOK
<1> HIDE DEF RowTypeInv
<1> QED BY <1>1, <1>2, <1>3, <1>4, <1>5, <1>6, <1>7, <1>8, <1>9, <1>10 DEF Next, Step

\* The rows, proposals and requests keep their types (StrategyStore, Role).
THEOREM RowTypes == Spec => []TypeOK
<1>1. RowTypeInv => TypeOK
  BY DEF RowTypeInv
<1> QED BY RowTypeStart, RowTypeStep, <1>1, PTL DEF Spec

-----------------------------------------------------------------------------
(* Who edits.                                                               *)

Editors == {"operator", "orgadmin"}

\* The requests whose check has passed: their caller was read as an editor of
\* the strategy's org, which does not change.
PastCheck == {"proposal", "update", "decide", "delete", "acls"}

EditorInv ==
  /\ present \subseteq minted /\ at \in [Requests -> Places]
  /\ strat \in [Requests -> Strategies] /\ org \in [Strategies -> Orgs]
  /\ DOMAIN seen = Requests
  /\ \A q \in Requests : at[q] \in PastCheck =>
       strat[q] \in minted /\ seen[q][org[strat[q]]] \in Editors

\* Of the rules only two let anybody but a sysadmin edit a strategy, and both ask
\* for a role in its org.
LEMMA EditNeedsRole ==
  ASSUME NEW q \in Requests, NEW o \in Orgs, NEW u, NEW d, NEW a \in Edits,
         Can(Principal(q), a, Authored("strategy", o, u, d))
  PROVE  seen[q][o] \in Editors
<1> DEFINE p == Principal(q)
           r == Authored("strategy", o, u, d)
<1>1. p.sysadmin = FALSE /\ r.type = "strategy" /\ r.org = o /\ a \notin Reads /\ a # "create"
  BY DEF Principal, Authored, Edits, Reads
<1>2. HasRole(p, o, {"operator", "orgadmin"}) \/ HasRole(p, o, {"orgadmin"})
  <2> HIDE DEF p, r
  <2> QED BY <1>1 DEF p, r, Can, AllowSysadminRead, AllowSysadminSystemConfig,
       AllowSysadminUserMgmt, AllowStrategyAuthorMutate, AllowOrgadminAnyStrategy,
       AllowOperatorCreateStrategy, AllowStrategyRead, AllowOrgadminUserMgmt,
       AllowOrgCreateBySysadmin, AllowOrgMutateByOrgadmin, AllowOrgReadByMember,
       AllowMarketDataRead, IsOrgadmin
<1> QED BY <1>2 DEF HasRole, IsOrgMember, Principal, Editors

LEMMA EditorStart == Init => EditorInv
<1> SUFFICES ASSUME Init PROVE EditorInv
  OBVIOUS
<1>1. DOMAIN seen = Requests
  BY DEF Init
<1> QED BY <1>1 DEF Init, EditorInv, Places, PastCheck

LEMMA EditorReturns ==
  ASSUME EditorInv, NEW q \in Requests, Return(q),
         present' \subseteq minted', minted \subseteq minted',
         org' \in [Strategies -> Orgs], \A s \in minted : org'[s] = org[s]
  PROVE  EditorInv'
<1>1. "idle" \in Places \ PastCheck
  BY DEF Places, PastCheck
<1>2. /\ at' \in [Requests -> Places] /\ at'[q] = "idle"
      /\ DOMAIN seen' = Requests /\ strat' = strat
      /\ \A p \in Requests \ {q} : at'[p] = at[p] /\ seen'[p] = seen[p]
  BY <1>1 DEF EditorInv, Return
<1>3. ASSUME NEW p \in Requests, at'[p] \in PastCheck
      PROVE  strat'[p] \in minted' /\ seen'[p][org'[strat'[p]]] \in Editors
  BY <1>1, <1>2, <1>3 DEF EditorInv
<1> QED BY <1>2, <1>3 DEF EditorInv

LEMMA EditorGoes ==
  ASSUME EditorInv, NEW q \in Requests, NEW next \in Places, Go(q, next),
         present' \subseteq minted, minted' = minted, org' = org,
         next \in PastCheck => strat[q] \in minted /\ seen[q][org[strat[q]]] \in Editors
  PROVE  EditorInv'
BY DEF EditorInv, Go

LEMMA EditorStep == RowTypeInv /\ EditorInv /\ [Next]_vars => EditorInv'
<1> SUFFICES ASSUME RowTypeInv, EditorInv, [Next]_vars PROVE EditorInv'
  OBVIOUS
<1>0. PastCheck \subseteq Places
  BY DEF PastCheck, Places
<1>1. ASSUME NEW q \in Requests, Arrive(q) PROVE EditorInv'
  <2>1. PICK u \in Users, s \in Strategies, x \in {"create", "check"} :
          /\ at' = [at EXCEPT ![q] = x] /\ strat' = [strat EXCEPT ![q] = s]
          /\ seen' = [seen EXCEPT ![q] = roles[u]]
    BY <1>1 DEF Arrive
  <2>2. x \in Places \ PastCheck
    BY DEF Places, PastCheck
  <2>3. UNCHANGED <<present, minted, org>>
    BY <1>1 DEF Arrive, rowVars
  <2> QED BY <2>1, <2>2, <2>3 DEF EditorInv
<1>2. ASSUME NEW q \in Requests, CreateStrategy(q) PROVE EditorInv'
  <2>1. Return(q)
    BY <1>2 DEF CreateStrategy
  <2>2. \/ present' = present /\ org' = org /\ minted' = minted
        \/ \E s \in Strategies \ minted, o \in Orgs :
             /\ present' = present \cup {s} /\ minted' = minted \cup {s}
             /\ org' = [org EXCEPT ![s] = o]
    BY <1>2 DEF CreateStrategy
  <2>3. ASSUME NEW s \in Strategies \ minted, NEW o \in Orgs,
               present' = present \cup {s}, minted' = minted \cup {s},
               org' = [org EXCEPT ![s] = o]
        PROVE  EditorInv'
    <3>1. org \in [Strategies -> Orgs] /\ present \subseteq minted /\ minted \subseteq Strategies
      BY DEF EditorInv, RowTypeInv, TypeOK
    <3>2. org' \in [Strategies -> Orgs] /\ \A t \in minted : org'[t] = org[t]
      BY <2>3, <3>1
    <3>3. present' \subseteq minted' /\ minted \subseteq minted'
      BY <2>3, <3>1
    <3> QED BY <2>1, <3>2, <3>3, EditorReturns
  <2>4. CASE present' = present /\ org' = org /\ minted' = minted
    BY <2>1, <2>4, EditorReturns DEF EditorInv
  <2> HIDE DEF EditorInv, Return
  <2> QED BY <2>2, <2>3, <2>4
<1>3. ASSUME NEW q \in Requests, Check(q) PROVE EditorInv'
  <2>1. UNCHANGED <<present, minted, org>> /\ strat[q] \in Strategies
    BY <1>3 DEF Check, rowVars, histVars, EditorInv
  <2>2. CASE Return(q)
    BY <2>1, <2>2, EditorReturns DEF EditorInv
  <2>3. ASSUME strat[q] \in present, Go(q, AfterCheck(verb[q])),
               Can(Principal(q), Right(verb[q]),
                   Authored("strategy", org[strat[q]], author[strat[q]], acl[strat[q]]))
        PROVE  EditorInv'
    <3>1. Right(verb[q]) \in Edits /\ AfterCheck(verb[q]) \in Places
      BY DEF Right, Edits, AfterCheck, Places
    <3>2. org[strat[q]] \in Orgs /\ strat[q] \in minted
      BY <2>1, <2>3 DEF EditorInv
    <3>3. seen[q][org[strat[q]]] \in Editors
      BY <2>3, <3>1, <3>2, EditNeedsRole
    <3>4. present' \subseteq minted
      BY <2>1 DEF EditorInv
    <3> QED BY <2>1, <2>3, <3>1, <3>2, <3>3, <3>4, EditorGoes
  <2> HIDE DEF Return, Go, Can
  <2> QED BY <1>3, <2>2, <2>3 DEF Check
<1>4. ASSUME NEW q \in Requests, at[q] \in PastCheck, NEW next \in PastCheck,
             Return(q) \/ Go(q, next), minted' = minted, org' = org,
             present' \subseteq minted
      PROVE  EditorInv'
  <2>1. org' \in [Strategies -> Orgs] /\ \A s \in minted : org'[s] = org[s]
    BY <1>4 DEF EditorInv
  <2>2. strat[q] \in minted /\ seen[q][org[strat[q]]] \in Editors
    BY <1>4 DEF EditorInv
  <2> HIDE DEF Return, Go
  <2> QED BY <1>0, <1>4, <2>1, <2>2, EditorReturns, EditorGoes
<1>5. ASSUME NEW q \in Requests,
             ReadProposal(q) \/ Update(q) \/ Decide(q) \/ DeleteRow(q) \/ SweepAcl(q)
      PROVE  EditorInv'
  <2>1. /\ minted' = minted /\ org' = org /\ present' \subseteq present
        /\ at[q] \in PastCheck
        /\ Return(q) \/ Go(q, "update") \/ Go(q, "decide") \/ Go(q, "acls")
    BY <1>5 DEF ReadProposal, AfterRead, Update, Updatable, Decide, DeleteRow, SweepAcl,
       rowVars, histVars, PastCheck
  <2>2. present' \subseteq minted /\ {"update", "decide", "acls"} \subseteq PastCheck
    BY <2>1 DEF EditorInv, PastCheck
  <2> HIDE DEF Return, Go
  <2> QED BY <1>4, <2>1, <2>2
<1>6. ASSUME NEW q \in Requests, Break(q) PROVE EditorInv'
  <2>1. Return(q) /\ UNCHANGED <<present, minted, org>>
    BY <1>6 DEF Break, rowVars
  <2> QED BY <2>1, EditorReturns DEF EditorInv
<1>7. ASSUME NEW u \in Users, NEW o \in Orgs, ChangeRole(u, o) PROVE EditorInv'
  <2>1. UNCHANGED <<present, minted, org, at, strat, seen>>
    BY <1>7 DEF ChangeRole, rowVars, reqVars
  <2> QED BY <2>1 DEF EditorInv
<1>8. CASE (\E p \in Proposals : Propose(p)) \/ UNCHANGED vars
  <2>1. UNCHANGED <<present, minted, org, at, strat, seen>>
    BY <1>8 DEF Propose, vars, rowVars, reqVars, histVars
  <2> QED BY <2>1 DEF EditorInv
<1> HIDE DEF EditorInv
<1> QED BY <1>1, <1>2, <1>3, <1>5, <1>6, <1>7, <1>8 DEF Next, Step

\* A strategy's text, status and row are changed by requests of those alone who
\* were operators or orgadmins of its org when the request read them, authors or
\* not (can, _require_strategy_edit).
THEOREM OnlyEditorsEdit == Spec => OnlyItsOrgEdits
<1> DEFINE Row(s) == <<text[s], status[s], s \in present, s \in broken>>
           Entitled(s) ==
             \E q \in Requests :
               /\ at[q] # "idle" /\ strat[q] = s
               /\ \/ roles[user[q]][org[s]] \in {"operator", "orgadmin"}
                  \/ roles[user[q]] # seen[q]
           Edited == \A s \in present : Row(s)' # Row(s) => Entitled(s)
<1>1. RowTypeInv /\ EditorInv /\ [Next]_vars => Edited
  <2> SUFFICES ASSUME RowTypeInv, EditorInv, [Next]_vars, NEW s \in present, ~Entitled(s)
               PROVE  text'[s] = text[s] /\ status'[s] = status[s]
                      /\ (s \in present' <=> s \in present) /\ (s \in broken' <=> s \in broken)
    OBVIOUS
  <2>1. ASSUME NEW q \in Requests, at[q] \in {"update", "delete"} PROVE strat[q] # s
    BY <2>1 DEF EditorInv, PastCheck, Editors
  <2>2. ASSUME NEW q \in Requests, CreateStrategy(q) PROVE UNCHANGED <<text, status, broken>>
                                                          /\ present \subseteq present'
    BY <2>2 DEF CreateStrategy
  <2>3. ASSUME NEW q \in Requests, Update(q)
        PROVE  text'[s] = text[s] /\ status'[s] = status[s]
               /\ (s \in present' <=> s \in present) /\ (s \in broken' <=> s \in broken)
    <3>1. at[q] = "update"
      BY <2>3 DEF Update
    <3>2. strat[q] # s
      BY <2>1, <3>1
    <3>3. /\ DOMAIN text = Strategies /\ DOMAIN status = Strategies /\ s \in Strategies
          /\ present \subseteq Strategies
      BY DEF RowTypeInv, TypeOK
    <3>4. text' = text \/ \E x : text' = [text EXCEPT ![strat[q]] = x]
      BY <2>3 DEF Update
    <3>5. status' = status \/ \E x : status' = [status EXCEPT ![strat[q]] = x]
      BY <2>3 DEF Update
    <3>6. /\ broken' \in {broken, broken \cup {strat[q]}, broken \ {strat[q]}}
          /\ present' = present
      BY <2>3 DEF Update, Updatable
    <3>7. text'[s] = text[s]
      BY <3>2, <3>3, <3>4
    <3>8. status'[s] = status[s]
      BY <3>2, <3>3, <3>5
    <3>9. (s \in broken' <=> s \in broken) /\ (s \in present' <=> s \in present)
      BY <3>2, <3>6
    <3> QED BY <3>7, <3>8, <3>9
  <2>4. ASSUME NEW q \in Requests, DeleteRow(q)
        PROVE  UNCHANGED <<text, status>>
               /\ present' = present \ {strat[q]} /\ broken' = broken \ {strat[q]} /\ strat[q] # s
    BY <2>1, <2>4 DEF DeleteRow
  <2>5. ASSUME NEW q \in Requests,
               Arrive(q) \/ Check(q) \/ ReadProposal(q) \/ Decide(q) \/ SweepAcl(q) \/ Break(q)
        PROVE  UNCHANGED <<text, status, present, broken>>
    BY <2>5 DEF Arrive, Check, ReadProposal, Decide, SweepAcl, Break, rowVars
  <2>6. ASSUME UNCHANGED vars \/ (\E p \in Proposals : Propose(p))
               \/ \E u \in Users, o \in Orgs : ChangeRole(u, o)
        PROVE  UNCHANGED <<text, status, present, broken>>
    BY <2>6 DEF vars, Propose, ChangeRole, rowVars
  <2> HIDE DEF Entitled
  <2> QED BY <2>2, <2>3, <2>4, <2>5, <2>6 DEF Next, Step
<1>2. RowTypeInv /\ EditorInv /\ [Next]_vars => [Edited]_vars
  BY <1>1
<1> QED BY RowTypeStart, RowTypeStep, EditorStart, EditorStep, <1>2, PTL DEF Spec, OnlyItsOrgEdits
===============================================================================
