------------------------------ MODULE HaltStore ------------------------------
(***************************************************************************)
(* The halt rows (CONTROL and CONTROL#org), their audit log and the         *)
(* halt-transition metric.                                                 *)
(*                                                                         *)
(* Any number of callers (dashboard requests, auditor agents) set rows at   *)
(* the same time.  A set reads the row, puts it, and on a change emits the  *)
(* metric and puts an audit row: four remote effects with nothing atomic   *)
(* about them.  A reader asks whether an org is effectively halted with     *)
(* two reads, the system row first.                                        *)
(***************************************************************************)
EXTENDS Naturals, Sequences

CONSTANTS
  Orgs,           \* organisations
  System,         \* the CONTROL row
  Callers,        \* concurrent calls of set_system_halt and set_org_halt
  NoRow,          \* a caller that sets no row
  Serialized,     \* rows that are set by one caller at a time, uninterrupted;
                  \* calls on the others race, and fail half way
  MaxWrites       \* puts after which no call begins (bound)

ASSUME HaltAssumption ==
  /\ System \notin Orgs
  /\ NoRow \notin Orgs \cup {System}
  /\ Serialized \subseteq Orgs \cup {System}
  /\ MaxWrites \in Nat

Rows == Orgs \cup {System}

VARIABLES
  halted,     \* desk_halted of each row
  events,     \* HALT_EVENT# rows of each row, in the order they were put
  metric,     \* halt.transition.count emissions for each row
  at,         \* where each caller waits
  row,        \* the row it sets
  want,       \* the value it sets
  prior,      \* the value it read
  askAt,      \* where the call of is_effective_halted waits
  asking,     \* the org it is asked about
  answer,     \* what it answered
  steady,     \* rows halted ever since it began (history)
  cut,        \* rows put by a call that never recorded the change (history)
  writes      \* puts of halt rows so far (bound)

storeVars == <<halted, events, metric>>
callVars == <<at, row, want, prior>>
askVars == <<askAt, asking, answer, steady>>
histVars == <<cut, writes>>
vars == <<storeVars, callVars, askVars, histVars>>

\* The rows that halt org o.
Covers(o) == {System, o}

\* A call is in the middle of setting row r.
Busy(r) == \E c \in Callers : row[c] = r

Init ==
  /\ halted = [r \in Rows |-> FALSE]
  /\ events = [r \in Rows |-> <<>>]
  /\ metric = [r \in Rows |-> <<>>]
  /\ at = [c \in Callers |-> "idle"]
  /\ row = [c \in Callers |-> NoRow]
  /\ want = [c \in Callers |-> FALSE]
  /\ prior = [c \in Callers |-> FALSE]
  /\ askAt = "idle"
  /\ asking = NoRow
  /\ answer = "none"
  /\ steady = {}
  /\ cut = {}
  /\ writes = 0

-----------------------------------------------------------------------------
(* set_org_halt and set_system_halt.                                        *)

\* The call returns or raises.
Return(c) ==
  /\ at' = [at EXCEPT ![c] = "idle"]
  /\ row' = [row EXCEPT ![c] = NoRow]
  /\ want' = [want EXCEPT ![c] = FALSE]
  /\ prior' = [prior EXCEPT ![c] = FALSE]

\* get_org_state or get_system_state: the first step of a call.
ReadPrior(c) ==
  /\ at[c] = "idle"
  /\ writes < MaxWrites
  /\ \E r \in Rows, v \in BOOLEAN :
       /\ r \in Serialized => ~Busy(r)
       /\ at' = [at EXCEPT ![c] = "put"]
       /\ row' = [row EXCEPT ![c] = r]
       /\ want' = [want EXCEPT ![c] = v]
       /\ prior' = [prior EXCEPT ![c] = halted[r]]
  /\ UNCHANGED <<storeVars, askVars, histVars>>

\* What the reader's history sees of a put of v.
Watched(r, v) ==
  IF askAt \in {"system", "org"} /\ ~v
  THEN steady' = steady \ {r}
  ELSE UNCHANGED steady

\* Every set is recorded.
Changed_slip(c) == TRUE

\* A set of the value the row already had is not recorded.
Changed(c) == prior[c] # want[c]

\* The row is put; the call goes on to record a change, or returns.
PutRow(c) ==
  /\ at[c] = "put"
  /\ halted' = [halted EXCEPT ![row[c]] = want[c]]
  /\ writes' = writes + 1
  /\ \/ /\ Changed(c)
        /\ at' = [at EXCEPT ![c] = "emit"]
        /\ UNCHANGED <<row, want, prior>>
     \/ ~Changed(c) /\ Return(c)
  /\ Watched(row[c], want[c])
  /\ UNCHANGED <<events, metric, askAt, asking, answer, cut>>

\* _emit_transition: the metric line.
Emit(c) ==
  /\ at[c] = "emit"
  /\ metric' = [metric EXCEPT ![row[c]] = Append(@, want[c])]
  /\ at' = [at EXCEPT ![c] = "record"]
  /\ UNCHANGED <<halted, events, row, want, prior, askVars, histVars>>

\* The value an audit row carries: the prior one.
Recorded_slip(c) == prior[c]

\* The value an audit row carries.
Recorded(c) == want[c]

\* _record_transition: the audit row.
PutEvent(c) ==
  /\ at[c] = "record"
  /\ events' = [events EXCEPT ![row[c]] = Append(@, Recorded(c))]
  /\ Return(c)
  /\ UNCHANGED <<halted, metric, askVars, histVars>>

\* A put raises, or the caller is killed between two steps.
Fail(c) ==
  /\ at[c] # "idle"
  /\ row[c] \notin Serialized
  /\ cut' = IF at[c] = "put" THEN cut ELSE cut \cup {row[c]}
  /\ Return(c)
  /\ UNCHANGED <<storeVars, askVars, writes>>

-----------------------------------------------------------------------------
(* is_effective_halted.                                                     *)

\* The call begins.
Ask(o) ==
  /\ askAt \in {"idle", "answered"}
  /\ askAt' = "system"
  /\ asking' = o
  /\ answer' = "none"
  /\ steady' = {r \in Covers(o) : halted[r]}
  /\ UNCHANGED <<storeVars, callVars, histVars>>

Answer(a) ==
  /\ askAt' = "answered"
  /\ answer' = a
  /\ UNCHANGED <<asking, steady>>

\* is_system_halted: yes answers the call, no leads to the org's row.
ReadSystem ==
  /\ askAt = "system"
  /\ \/ halted[System] /\ Answer("halted")
     \/ /\ ~halted[System]
        /\ askAt' = "org"
        /\ UNCHANGED <<asking, answer, steady>>
  /\ UNCHANGED <<storeVars, callVars, histVars>>

\* The org's row is never looked at.
OrgRead_slip == FALSE

\* is_org_halted.
OrgRead == halted[asking]

\* The second read answers the call.
ReadOrg ==
  /\ askAt = "org"
  /\ Answer(IF OrgRead THEN "halted" ELSE "running")
  /\ UNCHANGED <<storeVars, callVars, histVars>>

-----------------------------------------------------------------------------
Set(c) == ReadPrior(c) \/ PutRow(c) \/ Emit(c) \/ PutEvent(c) \/ Fail(c)

Next ==
  \/ \E c \in Callers : Set(c)
  \/ \E o \in Orgs : Ask(o)
  \/ ReadSystem
  \/ ReadOrg

Spec == Init /\ [][Next]_vars

-----------------------------------------------------------------------------
(* Properties.                                                             *)

TypeOK ==
  /\ halted \in [Rows -> BOOLEAN]
  /\ events \in [Rows -> Seq(BOOLEAN)]
  /\ metric \in [Rows -> Seq(BOOLEAN)]
  /\ at \in [Callers -> {"idle", "put", "emit", "record"}]
  /\ row \in [Callers -> Rows \cup {NoRow}]
  /\ want \in [Callers -> BOOLEAN]
  /\ prior \in [Callers -> BOOLEAN]
  /\ askAt \in {"idle", "system", "org", "answered"}
  /\ asking \in IF askAt = "idle" THEN {NoRow} ELSE Orgs
  /\ answer \in {"none", "halted", "running"}
  /\ steady \subseteq Rows
  /\ cut \subseteq Rows
  /\ writes \in Nat

\* A halt that stands for the whole of a check is seen by it, however many
\* other calls set the two rows while is_effective_halted runs.
SteadyHaltSeen == askAt = "answered" /\ steady # {} => answer = "halted"

\* A row that is halted, with no call on it under way, has a halt in its
\* audit log, however the calls that set it interleave: only a call cut off
\* between its put and its audit row (set_org_halt, set_system_halt) can leave
\* a halt without a trace.
HaltLeavesTrace ==
  \A r \in Rows \ cut : halted[r] /\ ~Busy(r) =>
    \E i \in DOMAIN events[r] : events[r][i]

\* The alarm (metric) and the history (audit log) tell the same story of a
\* row no call is working on and none has raced or been cut off on: the
\* docstring of _record_transition.
MetricMatchesAudit == \A r \in Serialized : ~Busy(r) => metric[r] = events[r]

\* Refinement: the flag a reader of the log knows of changes when the audit
\* row is put, until then a call that is recording still has the old value.
Flag(r) ==
  IF \E c \in Callers : row[c] = r /\ at[c] \in {"emit", "record"}
  THEN ~halted[r] ELSE halted[r]

Log == INSTANCE HaltLog WITH
  Rows <- Serialized,
  flag <- [r \in Serialized |-> Flag(r)],
  log <- [r \in Serialized |-> events[r]]

\* Sets of a row one at a time and uninterrupted implement the audit log that
\* set_org_halt's docstring promises: a row per change of state, in order.
AuditsEveryChange == Log!Spec
==============================================================================
