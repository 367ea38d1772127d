------------------------------ MODULE OrgAudit ------------------------------
(***************************************************************************)
(* The auditor agent of one org.  org_fanout invokes it at night; it reads    *)
(* the ledger snapshots of the active strategies, compares them with the     *)
(* broker's positions, halts the org on any difference and only then asks    *)
(* the model for a narrative, which AgentMemory's writers append.  Meanwhile *)
(* bots trade, users stop strategies and resume the org, and a repeated      *)
(* invocation audits the same org twice at a time.                           *)
(***************************************************************************)
EXTENDS Naturals, FiniteSets, Functions

CONSTANTS
  Bots,       \* the org's strategies
  Audits,     \* invocations there may be at a time
  MaxQty      \* shares a bot holds (bound)

ASSUME AuditAssumption == MaxQty \in Nat /\ IsFiniteSet(Bots)

VARIABLES
  shares,     \* what each bot's orders left at the broker
  manual,     \* shares of the account that no bot bought
  saved,      \* the position in each bot's ledger snapshot
  active,     \* strategies whose row says ACTIVE
  orgHalted,  \* the org's HALT# row
  audit,      \* what each audit is at
  moved       \* (history) audits during which what they compare has changed

worldVars == <<shares, manual, saved, active>>
auditVars == <<worldVars, orgHalted, audit, moved>>

NoAudit == [pc |-> "idle", left |-> {}, sum |-> 0, verdict |-> "none",
            spared |-> FALSE]

AuditInit ==
  /\ shares = [b \in Bots |-> 0] /\ manual = 0
  /\ saved = [b \in Bots |-> 0]
  /\ active = Bots
  /\ orgHalted = FALSE
  /\ audit = [v \in Audits |-> NoAudit]
  /\ moved = {}

Total(q, S) == SumFunctionOnSet(q, S)
Positions == Total(shares, Bots) + manual
Drift == Total(saved, active) # Positions

-----------------------------------------------------------------------------
\* An order fills, the bot's ledger is saved, a strategy is started or stopped,
\* someone trades in the account by hand.
Moves ==
  /\ worldVars' # worldVars
  /\ moved' = Audits
  /\ UNCHANGED <<orgHalted, audit>>

FillOrder(b) ==
  /\ \E q \in 0..MaxQty : shares' = [shares EXCEPT ![b] = q]
  /\ UNCHANGED <<manual, saved, active>>
  /\ Moves

Save(b) ==
  /\ saved' = [saved EXCEPT ![b] = shares[b]]
  /\ UNCHANGED <<shares, manual, active>>
  /\ Moves

SetStatus(b) ==
  /\ active' = (active \cup {b}) \ (active \cap {b})
  /\ UNCHANGED <<shares, manual, saved>>
  /\ Moves

TradeByHand ==
  /\ manual' = 1 - manual
  /\ UNCHANGED <<shares, saved, active>>
  /\ Moves

\* An orgadmin resumes the org.
Resume ==
  /\ orgHalted
  /\ orgHalted' = FALSE
  /\ UNCHANGED <<worldVars, audit, moved>>

At(v, pc) == audit[v].pc = pc
Go(v, pc) == audit' = [audit EXCEPT ![v].pc = pc]
End(v) == audit' = [audit EXCEPT ![v] = NoAudit]

\* The handler, up to the list of active strategies; s foretells an audit in
\* which every call succeeds.
Invoke(v, s) ==
  /\ At(v, "idle")
  /\ audit' = [audit EXCEPT ![v] =
                 [@ EXCEPT !.pc = "ledgers", !.left = active, !.spared = s]]
  /\ moved' = moved \ {v}
  /\ UNCHANGED <<worldVars, orgHalted>>

\* _load_org_ledgers: one snapshot after another.
ReadLedger(v) ==
  /\ At(v, "ledgers")
  /\ \E b \in audit[v].left :
       audit' = [audit EXCEPT ![v] =
                   [@ EXCEPT !.left = audit[v].left \ {b}, !.sum = audit[v].sum + saved[b]]]
  /\ UNCHANGED <<worldVars, orgHalted, moved>>

\* Shares the ledgers know and the broker does not are overlooked.
Verdict_slip(v) == IF audit[v].sum < Positions THEN "fail" ELSE "pass"

\* reconcile_positions.
Verdict(v) == IF audit[v].sum # Positions THEN "fail" ELSE "pass"

\* Two failing checks in a row are required, as of the trading desk; but each
\* invocation starts from none.
DecideHalt_slip(verdict) == FALSE

\* decide_halt.
DecideHalt(verdict) == verdict = "fail"

\* get_positions and the check.
ReadBroker(v) ==
  /\ At(v, "ledgers") /\ audit[v].left = {}
  /\ audit' = [audit EXCEPT ![v] =
                 [@ EXCEPT !.verdict = Verdict(v), !.sum = 0,
                           !.pc = IF DecideHalt(Verdict(v)) THEN "halt" ELSE "ask"]]
  /\ UNCHANGED <<worldVars, orgHalted, moved>>

\* set_org_halt ...
SetHalt(v) ==
  /\ At(v, "halt")
  /\ Go(v, "ask")
  /\ orgHalted' = TRUE
  /\ UNCHANGED <<worldVars, moved>>

\* ... whose failure the audit only reports.
HaltFails(v) ==
  /\ At(v, "halt") /\ ~audit[v].spared
  /\ Go(v, "ask")
  /\ UNCHANGED <<worldVars, orgHalted, moved>>

\* The prior recommendations, the model and the append, each of which may fail.
Narrate(v) ==
  /\ At(v, "ask")
  /\ End(v)
  /\ UNCHANGED <<worldVars, orgHalted, moved>>

\* A read outside a try raises, the broker does not answer, or the time is up.
CutOff(v) ==
  /\ audit[v].pc \in {"ledgers", "halt"} /\ ~audit[v].spared
  /\ End(v)
  /\ UNCHANGED <<worldVars, orgHalted, moved>>

AuditStep(v) ==
  \/ ReadLedger(v) \/ ReadBroker(v) \/ SetHalt(v) \/ HaltFails(v)
  \/ Narrate(v) \/ CutOff(v)

AuditNext ==
  \/ TradeByHand \/ Resume
  \/ \E b \in Bots : FillOrder(b) \/ Save(b) \/ SetStatus(b)
  \/ \E v \in Audits : AuditStep(v) \/ \E s \in BOOLEAN : Invoke(v, s)

AuditSpec == AuditInit /\ [][AuditNext]_auditVars

\* Once its schedule is enabled (it is deployed disabled), audits go on, and
\* again and again one meets no failure.
AuditFairness ==
  /\ \A v \in Audits : WF_auditVars(AuditStep(v))
  /\ SF_auditVars(\E v \in Audits : Invoke(v, TRUE))

-----------------------------------------------------------------------------
AuditTypeOK ==
  /\ shares \in [Bots -> 0..MaxQty] /\ saved \in [Bots -> 0..MaxQty]
  /\ manual \in 0..1
  /\ active \subseteq Bots
  /\ orgHalted \in BOOLEAN
  /\ moved \subseteq Audits
  /\ audit \in [Audits ->
       [pc : {"idle", "ledgers", "halt", "ask"}, left : SUBSET Bots, sum : Nat,
        verdict : {"none", "pass", "fail"}, spared : BOOLEAN]]

\* The snapshots are read one by one and before the broker's positions: the
\* verdict is the truth unless something moved since the audit began.
VerdictIsFounded ==
  \A v \in Audits :
    audit[v].verdict # "none" /\ v \notin moved
      => (audit[v].verdict = "fail") = Drift

\* An org whose books and account differ for good does not trade on for ever.
DriftHalts ==
  <>[](Drift /\ moved = {}) => []<>orgHalted
=============================================================================
