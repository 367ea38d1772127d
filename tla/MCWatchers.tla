----------------------------- MODULE MCWatchers -----------------------------
(* The EDGAR watcher, the platform supervisor or the auditor is at work, or *)
(* a bot's books are kept.                                                  *)
EXTENDS FilingsWatch, Heartbeats, OrgAudit, BotLedger

VARIABLE part

MCInit ==
  /\ part \in {"filings", "beats", "audit", "books"}
  /\ WatchInit /\ BeatsInit /\ AuditInit /\ Init

\* The books have had their fills (the bound of BotLedger).
BooksFull == fills = MaxFills /\ intent = NoIntent /\ UNCHANGED vars

MCNext ==
  /\ UNCHANGED part
  /\ \/ part = "filings" /\ WatchNext /\ UNCHANGED <<beatVars, auditVars, vars>>
     \/ part = "beats" /\ BeatsNext /\ UNCHANGED <<watchVars, auditVars, vars>>
     \/ part = "audit" /\ AuditNext /\ UNCHANGED <<watchVars, beatVars, vars>>
     \/ part = "books" /\ (Next \/ BooksFull) /\ UNCHANGED <<watchVars, beatVars, auditVars>>

\* Each is fair while it is at work; the steps of the others are not enabled.
Fairness ==
  \/ part = "filings" /\ WatchFairness
  \/ part \in {"beats", "books"}
  \/ part = "audit" /\ AuditFairness

MCSpec ==
  MCInit /\ [][MCNext]_<<part, watchVars, beatVars, auditVars, vars>> /\ Fairness
=============================================================================
