------------------------- MODULE MCStrategyRecords -------------------------
(* What is kept of a strategy: its row and the edits proposed for it, or    *)
(* its bot's memory.  One of the two is at work.                            *)
EXTENDS StrategyRows, AgentMemory, TLC

CONSTANTS ann, bob
VARIABLE part

\* Ann runs the org, bob may write strategies in it.
MCStartRoles ==
  [u \in Users |-> [o \in Orgs |-> IF u = ann THEN "orgadmin" ELSE "operator"]]

Alike == Permutations(Requests) \cup Permutations(Processes) \cup Permutations(Advisers)

\* The one start of rows that are not at work.
RowsAtRest ==
  /\ \A s \in Strategies : s \in present /\ author[s] = ann /\ acl[s] = {}
  /\ \A q \in Requests : user[q] = ann

MCInit ==
  /\ part \in {"rows", "memory"}
  /\ Init /\ MemoryInit
  /\ part = "memory" => RowsAtRest

MCNext ==
  /\ UNCHANGED part
  /\ \/ part = "rows" /\ Next /\ UNCHANGED memoryVars
     \/ part = "memory" /\ MemoryNext /\ UNCHANGED vars

MCSpec == MCInit /\ [][MCNext]_<<part, vars, memoryVars>>
=============================================================================
