--------------------------- MODULE HaltStoreProofs ---------------------------
(***************************************************************************)
(* HaltStore: types, what a check of the halt rows must see, what the       *)
(* audit log must hold, and the audit log as an implementation of HaltLog.  *)
(***************************************************************************)
EXTENDS HaltStore, TLAPS

(***************************************************************************)
(* Every variable has its type, and a caller in the middle of a call names  *)
(* a row.                                                                   *)
(***************************************************************************)
Types ==
  /\ TypeOK
  /\ \A c \in Callers : at[c] # "idle" => row[c] \in Rows

LEMMA InitTypes == Init => Types
  BY DEF Init, Types, TypeOK, Rows

LEMMA NextTypes == Types /\ [Next]_vars => Types'
  <1> SUFFICES ASSUME Types, [Next]_vars PROVE Types'
    OBVIOUS
  <1> USE HaltAssumption DEF HaltAssumption, Rows
  <1>1. ASSUME NEW c \in Callers, ReadPrior(c) PROVE Types'
    BY <1>1 DEF ReadPrior, Types, TypeOK, storeVars, askVars, histVars
  <1>2. ASSUME NEW c \in Callers, PutRow(c) PROVE Types'
    <2>1. row[c] \in Rows /\ want[c] \in BOOLEAN
      BY <1>2 DEF PutRow, Types, TypeOK
    <2>2. steady' \subseteq Rows
      BY <1>2, <2>1 DEF PutRow, Watched, Types, TypeOK
    <2>3. halted' \in [Rows -> BOOLEAN] /\ writes' \in Nat
      BY <1>2, <2>1 DEF PutRow, Types, TypeOK
    <2>4. CASE Changed(c) /\ UNCHANGED <<row, want, prior>>
      BY <1>2, <2>1, <2>2, <2>3, <2>4 DEF PutRow, Return, Types, TypeOK
    <2>5. CASE ~Changed(c) /\ Return(c)
      BY <1>2, <2>1, <2>2, <2>3, <2>5 DEF PutRow, Return, Types, TypeOK
    <2> QED BY <1>2, <2>4, <2>5 DEF PutRow
  <1>3. ASSUME NEW c \in Callers, Emit(c) PROVE Types'
    BY <1>3 DEF Emit, Types, TypeOK, askVars, histVars
  <1>4. ASSUME NEW c \in Callers, PutEvent(c) PROVE Types'
    BY <1>4 DEF PutEvent, Recorded, Return, Types, TypeOK, askVars, histVars
  <1>5. ASSUME NEW c \in Callers, Fail(c) PROVE Types'
    BY <1>5 DEF Fail, Return, Types, TypeOK, askVars, storeVars
  <1>6. ASSUME NEW o \in Orgs, Ask(o) PROVE Types'
    BY <1>6 DEF Ask, Covers, Types, TypeOK, callVars, storeVars, histVars
  <1>7. CASE ReadSystem
    BY <1>7 DEF ReadSystem, Answer, Types, TypeOK, callVars, storeVars, histVars
  <1>8. CASE ReadOrg
    BY <1>8 DEF ReadOrg, Answer, Types, TypeOK, callVars, storeVars, histVars
  <1>9. CASE UNCHANGED vars
    BY <1>9 DEF vars, Types, TypeOK, callVars, storeVars, histVars, askVars
  <1> QED
    BY <1>1, <1>2, <1>3, <1>4, <1>5, <1>6, <1>7, <1>8, <1>9 DEF Next, Set

\* Every reachable state of the halt rows, their log and the calls on them is
\* well typed.
THEOREM HaltTypes == Spec => []Types
  BY InitTypes, NextTypes, PTL DEF Spec

-----------------------------------------------------------------------------
(***************************************************************************)
(* A halt that stands through a check is seen.  Invariant: a row counted as *)
(* steady covers the org and is halted until the answer is in; the system   *)
(* row is not among them once it was read as not halted; an answer of       *)
(* "running" leaves none.                                                   *)
(***************************************************************************)
Seen ==
  /\ askAt \in {"system", "org"} =>
       steady \subseteq {r \in Covers(asking) : halted[r]}
  /\ askAt = "org" => System \notin steady
  /\ SteadyHaltSeen

LEMMA NextSeen == Types /\ Seen /\ [Next]_vars => Seen'
  <1> SUFFICES ASSUME Types, Seen, [Next]_vars PROVE Seen'
    OBVIOUS
  <1> USE HaltAssumption DEF HaltAssumption, Rows, SteadyHaltSeen
  <1>1. ASSUME NEW c \in Callers, PutRow(c) PROVE Seen'
    <2>1. row[c] \in Rows
      BY <1>1 DEF PutRow, Types
    <2>2. halted \in [Rows -> BOOLEAN] /\ want[c] \in BOOLEAN
      BY DEF Types, TypeOK
    <2>3. CASE askAt \in {"system", "org"}
      <3>1. steady' = IF want[c] THEN steady ELSE steady \ {row[c]}
        BY <1>1, <2>3 DEF PutRow, Watched
      <3>2. \A r \in steady' : r \in Covers(asking) /\ halted'[r]
        BY <1>1, <2>1, <2>2, <2>3, <3>1 DEF PutRow, Seen, Covers, Types, TypeOK
      <3> QED BY <1>1, <2>3, <3>1, <3>2 DEF PutRow, Seen, Covers
    <2>4. CASE askAt \notin {"system", "org"}
      BY <1>1, <2>4 DEF PutRow, Watched, Seen
    <2> QED BY <2>3, <2>4
  <1>2. ASSUME NEW o \in Orgs, Ask(o) PROVE Seen'
    BY <1>2 DEF Ask, Seen, storeVars, Covers
  <1>3. CASE ReadSystem
    BY <1>3 DEF ReadSystem, Answer, Seen, storeVars, Covers
  <1>4. CASE ReadOrg
    <2>1. CASE halted[asking]
      BY <1>4, <2>1 DEF ReadOrg, OrgRead, Answer, Seen
    <2>2. CASE ~halted[asking]
      <3>1. steady = {}
        BY <1>4, <2>2 DEF ReadOrg, Seen, Covers
      <3> QED BY <1>4, <3>1 DEF ReadOrg, Answer, Seen
    <2> QED BY <2>1, <2>2
  <1>5. ASSUME UNCHANGED <<halted, askVars>> PROVE Seen'
    BY <1>5 DEF Seen, askVars, Covers
  <1> QED
    BY <1>1, <1>2, <1>3, <1>4, <1>5
       DEF Next, Set, ReadPrior, Emit, PutEvent, Fail, vars, storeVars

\* is_effective_halted answers yes when one of the two rows is halted for as
\* long as the call takes, for any number of concurrent calls and failures.
THEOREM SteadyHalts == Spec => []SteadyHaltSeen
<1>1. Init => Types /\ Seen
  BY InitTypes DEF Init, Seen, SteadyHaltSeen
<1>2. Types /\ Seen /\ [Next]_vars => (Types /\ Seen)'
  BY NextTypes, NextSeen
<1>3. Seen => SteadyHaltSeen
  BY DEF Seen
<1> QED
  BY <1>1, <1>2, <1>3, PTL DEF Spec

-----------------------------------------------------------------------------
(***************************************************************************)
(* A halt leaves a trace.  Invariant: for a row no call was cut off on,     *)
(* either the log has a halt, or a call is about to log one, or the row has *)
(* never been halted, so that every call that has read it read "running".   *)
(***************************************************************************)
Logged(r) == \E i \in DOMAIN events[r] : events[r][i]

Logging(r) == \E c \in Callers :
                row[c] = r /\ at[c] \in {"emit", "record"} /\ want[c]

NeverHalted(r) ==
  /\ ~halted[r]
  /\ \A c \in Callers : row[c] = r => ~prior[c]

Traced(r) == Logged(r) \/ Logging(r) \/ NeverHalted(r)

Trace == \A r \in Rows \ cut : Traced(r)

LEMMA NextTrace == Types /\ Trace /\ [Next]_vars => Trace'
  <1> SUFFICES ASSUME Types, Trace, [Next]_vars, NEW r \in Rows, r \notin cut'
               PROVE  Traced(r)'
    BY DEF Trace, Rows
  <1> USE HaltAssumption DEF HaltAssumption, Rows
  <1>0. /\ halted \in [Rows -> BOOLEAN]
        /\ events \in [Rows -> Seq(BOOLEAN)]
        /\ at \in [Callers -> {"idle", "put", "emit", "record"}]
        /\ row \in [Callers -> Rows \cup {NoRow}]
        /\ want \in [Callers -> BOOLEAN]
        /\ prior \in [Callers -> BOOLEAN]
        /\ \A c \in Callers : at[c] # "idle" => row[c] \in Rows
    BY DEF Types, TypeOK
  <1>1. r \notin cut
    BY DEF Next, Set, ReadPrior, PutRow, Emit, PutEvent, Fail, Ask, ReadSystem,
           ReadOrg, vars, histVars
  <1>2. Traced(r)
    BY <1>1 DEF Trace
  <1>3. ASSUME NEW c \in Callers, ReadPrior(c) PROVE Traced(r)'
    <2>1. CASE Logged(r)
      BY <1>3, <2>1 DEF ReadPrior, Traced, Logged, storeVars
    <2>2. CASE Logging(r)
      BY <1>0, <1>3, <2>2 DEF ReadPrior, Traced, Logging, storeVars
    <2>3. CASE NeverHalted(r)
      BY <1>0, <1>3, <2>3 DEF ReadPrior, Traced, NeverHalted, storeVars
    <2> QED BY <1>2, <2>1, <2>2, <2>3 DEF Traced
  <1>4. ASSUME NEW c \in Callers, PutRow(c) PROVE Traced(r)'
    <2>1. CASE Logged(r)
      BY <1>4, <2>1 DEF PutRow, Traced, Logged
    <2>2. CASE Logging(r)
      <3>1. PICK d \in Callers :
              row[d] = r /\ at[d] \in {"emit", "record"} /\ want[d]
        BY <2>2 DEF Logging
      <3>2. d # c
        BY <1>4, <3>1 DEF PutRow
      <3>3. row'[d] = row[d] /\ at'[d] = at[d] /\ want'[d] = want[d]
        BY <1>0, <1>4, <3>2 DEF PutRow, Return
      <3> QED BY <3>1, <3>3 DEF Traced, Logging
    <2>3. CASE NeverHalted(r) /\ row[c] = r /\ want[c]
      <3>1. Changed(c)
        BY <1>0, <2>3 DEF NeverHalted, Changed
      <3> QED BY <1>0, <1>4, <2>3, <3>1 DEF PutRow, Traced, Logging
    <2>4. CASE NeverHalted(r) /\ ~(row[c] = r /\ want[c])
      <3>1. ~halted'[r]
        BY <1>0, <1>4, <2>4 DEF PutRow, NeverHalted
      <3>2. ASSUME NEW d \in Callers, row'[d] = r PROVE ~prior'[d]
        BY <1>0, <1>4, <2>4, <3>2 DEF PutRow, NeverHalted, Return
      <3> QED BY <3>1, <3>2 DEF Traced, NeverHalted
    <2> QED BY <1>2, <2>1, <2>2, <2>3, <2>4 DEF Traced
  <1>5. ASSUME NEW c \in Callers, Emit(c) PROVE Traced(r)'
    BY <1>0, <1>2, <1>5 DEF Emit, Traced, Logged, Logging, NeverHalted
  <1>6. ASSUME NEW c \in Callers, PutEvent(c) PROVE Traced(r)'
    <2>0. row[c] \in Rows
      BY <1>0, <1>6 DEF PutEvent
    <2>1. CASE Logged(r)
      <3>1. PICK i \in DOMAIN events[r] : events[r][i]
        BY <2>1 DEF Logged
      <3>2. i \in DOMAIN events'[r] /\ events'[r][i]
        BY <1>0, <1>6, <2>0, <3>1 DEF PutEvent
      <3> QED BY <3>2 DEF Traced, Logged
    <2>2. CASE Logging(r)
      <3>1. PICK d \in Callers :
              row[d] = r /\ at[d] \in {"emit", "record"} /\ want[d]
        BY <2>2 DEF Logging
      <3>2. CASE d = c
        <4>1. events'[r] = Append(events[r], TRUE)
          BY <1>0, <1>6, <3>1, <3>2 DEF PutEvent, Recorded
        <4>2. Len(events[r]) + 1 \in DOMAIN events'[r]
              /\ events'[r][Len(events[r]) + 1] = TRUE
          BY <1>0, <4>1
        <4> QED BY <4>2 DEF Traced, Logged
      <3>3. CASE d # c
        BY <1>0, <1>6, <3>1, <3>3 DEF PutEvent, Return, Traced, Logging
      <3> QED BY <3>2, <3>3
    <2>3. CASE NeverHalted(r)
      BY <1>0, <1>6, <2>3 DEF PutEvent, Return, Traced, NeverHalted
    <2> QED BY <1>2, <2>1, <2>2, <2>3 DEF Traced
  <1>7. ASSUME NEW c \in Callers, Fail(c) PROVE Traced(r)'
    <2>1. CASE Logged(r)
      BY <1>7, <2>1 DEF Fail, Traced, Logged, storeVars
    <2>2. CASE Logging(r)
      <3>1. PICK d \in Callers :
              row[d] = r /\ at[d] \in {"emit", "record"} /\ want[d]
        BY <2>2 DEF Logging
      <3>2. d # c
        BY <1>7, <3>1 DEF Fail
      <3> QED BY <1>0, <1>7, <3>1, <3>2 DEF Fail, Return, Traced, Logging
    <2>3. CASE NeverHalted(r)
      BY <1>0, <1>7, <2>3 DEF Fail, Return, storeVars, Traced, NeverHalted
    <2> QED BY <1>2, <2>1, <2>2, <2>3 DEF Traced
  <1>8. ASSUME UNCHANGED <<storeVars, callVars>> PROVE Traced(r)'
    BY <1>2, <1>8 DEF storeVars, callVars, Traced, Logged, Logging, NeverHalted
  <1> QED
    BY <1>3, <1>4, <1>5, <1>6, <1>7, <1>8
       DEF Next, Set, Ask, ReadSystem, ReadOrg, vars

\* However many calls set a row at once and wherever they are cut off, a row
\* left halted has a halt in its audit log unless a call died between its put
\* and its audit row.
THEOREM HaltsAreLogged == Spec => []HaltLeavesTrace
<1>1. Init => Types /\ Trace
  BY InitTypes DEF Init, Trace, Traced, NeverHalted
<1>2. Types /\ Trace /\ [Next]_vars => (Types /\ Trace)'
  BY NextTypes, NextTrace
<1>3. Trace => HaltLeavesTrace
  BY DEF Trace, Traced, Logged, Logging, NeverHalted, HaltLeavesTrace, Busy
<1> QED
  BY <1>1, <1>2, <1>3, PTL DEF Spec
-----------------------------------------------------------------------------
(***************************************************************************)
(* A row whose sets come one at a time and are never cut off implements     *)
(* HaltLog, whatever happens to the others.  Invariant: such a row has at   *)
(* most one call on it; until that call puts the row it knows its value,    *)
(* afterwards the row has the value it wants.                               *)
(***************************************************************************)
Lone ==
  /\ \A c \in Callers : at[c] = "idle" => row[c] = NoRow
  /\ \A c, d \in Callers : row[c] = row[d] /\ row[c] \in Serialized => c = d
  /\ \A c \in Callers : at[c] = "put" /\ row[c] \in Serialized =>
       (prior[c] <=> halted[row[c]])
  /\ \A c \in Callers : at[c] \in {"emit", "record"} /\ row[c] \in Serialized =>
       (want[c] <=> halted[row[c]])

LEMMA InitLone == Init => Lone
  BY HaltAssumption DEF HaltAssumption, Init, Lone

LEMMA NextLone == Types /\ Lone /\ [Next]_vars => Lone'
  <1> SUFFICES ASSUME Types, Lone, [Next]_vars PROVE Lone'
    OBVIOUS
  <1> USE HaltAssumption DEF HaltAssumption, Rows
  <1>0. /\ halted \in [Rows -> BOOLEAN]
        /\ at \in [Callers -> {"idle", "put", "emit", "record"}]
        /\ row \in [Callers -> Rows \cup {NoRow}]
        /\ want \in [Callers -> BOOLEAN]
        /\ prior \in [Callers -> BOOLEAN]
        /\ \A c \in Callers : at[c] # "idle" => row[c] \in Rows
    BY DEF Types, TypeOK
  <1>1. ASSUME NEW c \in Callers, ReadPrior(c) PROVE Lone'
    BY <1>0, <1>1 DEF ReadPrior, Busy, storeVars, Lone
  <1>2. ASSUME NEW c \in Callers, PutRow(c) PROVE Lone'
    <2>1. row[c] \in Rows /\ row[c] # NoRow
      BY <1>0, <1>2 DEF PutRow
    <2>2. \A d \in Callers : d # c /\ row[c] \in Serialized => row[d] # row[c]
      BY <2>1 DEF Lone
    <2>3. CASE Changed(c) /\ at' = [at EXCEPT ![c] = "emit"]
                          /\ UNCHANGED <<row, want, prior>>
      BY <1>0, <1>2, <2>1, <2>2, <2>3 DEF PutRow, Lone
    <2>4. CASE ~Changed(c) /\ Return(c)
      BY <1>0, <1>2, <2>1, <2>2, <2>4 DEF PutRow, Return, Lone
    <2> QED BY <1>2, <2>3, <2>4 DEF PutRow
  <1>3. ASSUME NEW c \in Callers, Emit(c) PROVE Lone'
    BY <1>0, <1>3 DEF Emit, Lone
  <1>4. ASSUME NEW c \in Callers, PutEvent(c) \/ Fail(c) PROVE Lone'
    BY <1>0, <1>4 DEF PutEvent, Fail, Return, storeVars, Lone
  <1>5. ASSUME UNCHANGED <<halted, callVars>> PROVE Lone'
    BY <1>5 DEF callVars, Lone
  <1> QED
    BY <1>1, <1>2, <1>3, <1>4, <1>5
       DEF Next, Set, Ask, ReadSystem, ReadOrg, vars, storeVars

Flags == [r \in Serialized |-> Flag(r)]
Logs == [r \in Serialized |-> events[r]]

\* Flag and log of a row on which no call moves stay as they are.
LEMMA FlagStays ==
  ASSUME Types, NEW r \in Serialized, halted'[r] = halted[r],
         \A d \in Callers : /\ row[d] = r => row'[d] = r /\ at'[d] = at[d]
                            /\ row'[d] = r => row[d] = r
  PROVE  Flag(r)' = Flag(r)
  BY DEF Flag

LEMMA NextFlips ==
  Types /\ Lone /\ [Next]_vars =>
    [\E r \in Serialized : Log!Flip(r)]_<<Flags, Logs>>
  <1> SUFFICES ASSUME Types, Lone, [Next]_vars
               PROVE  \/ \E r \in Serialized : Log!Flip(r)
                      \/ UNCHANGED <<Flags, Logs>>
    BY DEF Flags
  <1> USE HaltAssumption DEF HaltAssumption, Rows
  <1>0. /\ halted \in [Rows -> BOOLEAN]
        /\ at \in [Callers -> {"idle", "put", "emit", "record"}]
        /\ row \in [Callers -> Rows \cup {NoRow}]
        /\ want \in [Callers -> BOOLEAN]
        /\ prior \in [Callers -> BOOLEAN]
        /\ events \in [Rows -> Seq(BOOLEAN)]
        /\ \A c \in Callers : at[c] # "idle" => row[c] \in Rows
    BY DEF Types, TypeOK
  <1>1. ASSUME NEW c \in Callers, ReadPrior(c) PROVE UNCHANGED <<Flags, Logs>>
    <2>1. \A r \in Serialized : Flag(r)' = Flag(r)
      BY <1>0, <1>1 DEF ReadPrior, Flag, storeVars, Lone
    <2> QED BY <1>1, <2>1 DEF Flags, Logs, ReadPrior, storeVars
  <1>2. ASSUME NEW c \in Callers, PutRow(c) PROVE UNCHANGED <<Flags, Logs>>
    <2>1. PICK q \in Rows : q = row[c]
      BY <1>0, <1>2 DEF PutRow
    <2>2. ASSUME q \in Serialized PROVE \A d \in Callers : d # c => row[d] # q
      BY <2>1, <2>2 DEF Lone
    <2>3. ASSUME NEW r \in Serialized, r # q PROVE Flag(r)' = Flag(r)
      <3>1. halted'[r] = halted[r]
        BY <1>0, <1>2, <2>1, <2>3 DEF PutRow
      <3>2. \A d \in Callers : /\ row[d] = r => row'[d] = r /\ at'[d] = at[d]
                               /\ row'[d] = r => row[d] = r
        BY <1>0, <1>2, <2>1, <2>3 DEF PutRow, Return
      <3> QED BY <3>1, <3>2, FlagStays
    <2>4. ASSUME q \in Serialized PROVE Flag(q)' = Flag(q)
      <3>1. Flag(q) = halted[q] /\ (prior[c] <=> halted[q])
        BY <1>0, <1>2, <2>1, <2>2, <2>4 DEF PutRow, Flag, Lone
      <3>2. halted'[q] = want[c]
        BY <1>0, <1>2, <2>1 DEF PutRow
      <3>3. CASE Changed(c) /\ at' = [at EXCEPT ![c] = "emit"]
                            /\ UNCHANGED <<row, want, prior>>
        <4>1. halted[q] = ~want[c]
          BY <1>0, <2>1, <3>1, <3>3 DEF Changed
        <4>2. row'[c] = q /\ at'[c] = "emit"
          BY <1>0, <2>1, <3>3
        <4>3. Flag(q)' = ~halted'[q]
          BY <4>2 DEF Flag
        <4> QED BY <3>1, <3>2, <4>1, <4>3
      <3>4. CASE ~Changed(c) /\ Return(c)
        <4>1. want[c] = halted[q]
          BY <1>0, <2>1, <3>1, <3>4 DEF Changed
        <4>2. \A d \in Callers : row'[d] # q
          BY <1>0, <2>1, <2>2, <2>4, <3>4 DEF Return
        <4>3. Flag(q)' = halted'[q]
          BY <4>2 DEF Flag
        <4> QED BY <3>1, <3>2, <4>1, <4>3
      <3> QED BY <1>2, <3>3, <3>4 DEF PutRow
    <2> QED BY <1>2, <2>3, <2>4 DEF Flags, Logs, PutRow
  <1>3. ASSUME NEW c \in Callers, Emit(c) PROVE UNCHANGED <<Flags, Logs>>
    <2>1. \A r \in Serialized : Flag(r)' = Flag(r)
      BY <1>0, <1>3 DEF Emit, Flag
    <2> QED BY <1>3, <2>1 DEF Flags, Logs, Emit
  <1>4. ASSUME NEW c \in Callers, PutEvent(c), row[c] \in Serialized
        PROVE  \E q \in Serialized : Log!Flip(q)
    <2>1. PICK q \in Serialized : q = row[c]
      BY <1>4
    <2>2. \A d \in Callers : d # c => row[d] # q
      BY <2>1 DEF Lone
    <2>3. Flag(q) = ~halted[q] /\ want[c] = halted[q]
      BY <1>0, <1>4, <2>1 DEF PutEvent, Flag, Lone
    <2>4. Flag(q)' = halted[q]
      <3>1. \A d \in Callers : row'[d] # q
        BY <1>0, <1>4, <2>1, <2>2 DEF PutEvent, Return
      <3> QED BY <1>4, <3>1 DEF PutEvent, Flag
    <2>5. ASSUME NEW r \in Serialized, r # q PROVE Flag(r)' = Flag(r)
      BY <1>0, <1>4, <2>1, <2>5 DEF PutEvent, Return, Flag
    <2>6. Flags' = [Flags EXCEPT ![q] = ~Flags[q]]
      BY <1>0, <2>3, <2>4, <2>5 DEF Flags
    <2>7. \A r \in Serialized :
            events'[r] = IF r = q THEN Append(events[q], want[c]) ELSE events[r]
      BY <1>0, <1>4, <2>1 DEF PutEvent, Recorded
    <2>8. want[c] = ~Flags[q]
      BY <1>0, <2>3 DEF Flags
    <2>9. Logs' = [Logs EXCEPT ![q] = Append(@, ~Flags[q])]
      BY <2>7, <2>8 DEF Logs
    <2> QED BY <2>6, <2>9 DEF Log!Flip, Flags, Logs
  <1>5. ASSUME NEW c \in Callers, row[c] \in Rows, row[c] \notin Serialized,
               PutEvent(c) \/ Fail(c)
        PROVE  UNCHANGED <<Flags, Logs>>
    <2>1. ASSUME NEW r \in Serialized PROVE Flag(r)' = Flag(r)
      <3>1. halted'[r] = halted[r]
        BY <1>5 DEF PutEvent, Fail, storeVars
      <3>2. \A d \in Callers : /\ row[d] = r => row'[d] = r /\ at'[d] = at[d]
                               /\ row'[d] = r => row[d] = r
        BY <1>0, <1>5, <2>1 DEF PutEvent, Fail, Return
      <3> QED BY <3>1, <3>2, FlagStays
    <2>2. ASSUME NEW r \in Serialized PROVE events'[r] = events[r]
      BY <1>0, <1>5, <2>2 DEF PutEvent, Fail, storeVars
    <2> QED BY <2>1, <2>2 DEF Flags, Logs
  <1>6. ASSUME UNCHANGED <<storeVars, callVars>> PROVE UNCHANGED <<Flags, Logs>>
    BY <1>6 DEF storeVars, callVars, Flags, Logs, Flag
  <1>7. ASSUME NEW c \in Callers, PutEvent(c) \/ Fail(c)
        PROVE  row[c] \in Rows /\ (Fail(c) => row[c] \notin Serialized)
    BY <1>0, <1>7 DEF PutEvent, Fail
  <1> QED
    BY <1>1, <1>2, <1>3, <1>4, <1>5, <1>6, <1>7
       DEF Next, Set, Ask, ReadSystem, ReadOrg, vars

\* When sets of a row come one at a time and are never cut off, the row with its
\* audit log is the flag and the log of HaltLog: one audit row per change of
\* state, in order, as set_org_halt's docstring has it, whatever the calls on
\* the other rows do.
THEOREM AuditRefinesLog == Spec => AuditsEveryChange
<1>1. Init => Log!Init
  BY HaltAssumption DEF HaltAssumption, Rows, Init, Log!Init, Flag
<1>2. Init => Types /\ Lone
  BY InitTypes, InitLone
<1>3. Types /\ Lone /\ [Next]_vars => (Types /\ Lone)'
  BY NextTypes, NextLone
<1>4. Types /\ Lone /\ [Next]_vars =>
        [\E r \in Serialized : Log!Flip(r)]_<<Flags, Logs>>
  BY NextFlips
<1> QED
  BY <1>1, <1>2, <1>3, <1>4, PTL
     DEF Spec, AuditsEveryChange, Log!Spec, Flags, Logs

-----------------------------------------------------------------------------
(***************************************************************************)
(* Metric and log of such a row differ by what the one call on it, if any,  *)
(* has emitted and not yet put.                                             *)
(***************************************************************************)
Emitted(r) == \E c \in Callers : row[c] = r /\ at[c] = "record"

Told ==
  \A r \in Serialized :
    metric[r] = IF Emitted(r) THEN Append(events[r], halted[r]) ELSE events[r]

\* Where neither log nor metric nor the calls at "record" change, all stays told.
LEMMA ToldStays ==
  ASSUME Types, Told, NEW r \in Serialized,
         metric'[r] = metric[r], events'[r] = events[r],
         \A d \in Callers : (row'[d] = r /\ at'[d] = "record")
                              <=> (row[d] = r /\ at[d] = "record"),
         Emitted(r) => halted'[r] = halted[r]
  PROVE  metric'[r] = IF Emitted(r)' THEN Append(events'[r], halted'[r]) ELSE events'[r]
  <1>1. Emitted(r)' <=> Emitted(r)
    BY DEF Emitted
  <1> QED BY <1>1 DEF Told

LEMMA NextTold == Types /\ Lone /\ Told /\ [Next]_vars => Told'
  <1> SUFFICES ASSUME Types, Lone, Told, [Next]_vars, NEW r \in Serialized
               PROVE  metric'[r] = IF Emitted(r)' THEN Append(events'[r], halted'[r])
                                   ELSE events'[r]
    BY DEF Told
  <1> USE HaltAssumption DEF HaltAssumption, Rows
  <1>0. /\ halted \in [Rows -> BOOLEAN]
        /\ at \in [Callers -> {"idle", "put", "emit", "record"}]
        /\ row \in [Callers -> Rows \cup {NoRow}]
        /\ want \in [Callers -> BOOLEAN]
        /\ events \in [Rows -> Seq(BOOLEAN)]
        /\ metric \in [Rows -> Seq(BOOLEAN)]
        /\ \A c \in Callers : at[c] # "idle" => row[c] \in Rows
    BY DEF Types, TypeOK
  <1>1. ASSUME NEW c \in Callers, ReadPrior(c)
        PROVE  metric'[r] = IF Emitted(r)' THEN Append(events'[r], halted'[r]) ELSE events'[r]
    BY <1>0, <1>1, ToldStays DEF ReadPrior, storeVars
  <1>2. ASSUME NEW c \in Callers, PutRow(c)
        PROVE  metric'[r] = IF Emitted(r)' THEN Append(events'[r], halted'[r]) ELSE events'[r]
    <2>1. ASSUME Emitted(r) PROVE halted'[r] = halted[r]
      <3>1. row[c] # r
        BY <1>2, <2>1 DEF Emitted, PutRow, Lone
      <3> QED BY <1>0, <1>2, <3>1 DEF PutRow
    <2>2. \A d \in Callers : (row'[d] = r /\ at'[d] = "record")
                               <=> (row[d] = r /\ at[d] = "record")
      BY <1>0, <1>2 DEF PutRow, Return
    <2> QED BY <1>2, <2>1, <2>2, ToldStays DEF PutRow
  <1>3. ASSUME NEW c \in Callers, Emit(c)
        PROVE  metric'[r] = IF Emitted(r)' THEN Append(events'[r], halted'[r]) ELSE events'[r]
    <2>1. CASE row[c] = r
      <3>1. ~Emitted(r) /\ want[c] = halted[r]
        BY <1>0, <1>3, <2>1 DEF Emitted, Emit, Lone
      <3>2. Emitted(r)'
        BY <1>0, <1>3, <2>1 DEF Emitted, Emit
      <3>3. metric[r] = events[r]
        BY <3>1 DEF Told
      <3>4. metric'[r] = Append(metric[r], want[c]) /\ UNCHANGED <<events, halted>>
        BY <1>0, <1>3, <2>1 DEF Emit
      <3> QED BY <3>1, <3>2, <3>3, <3>4
    <2>2. CASE row[c] # r
      <3>1. metric'[r] = metric[r] /\ UNCHANGED <<events, halted>>
        BY <1>0, <1>3, <2>2 DEF Emit
      <3>2. \A d \in Callers : (row'[d] = r /\ at'[d] = "record")
                                 <=> (row[d] = r /\ at[d] = "record")
        BY <1>0, <1>3, <2>2 DEF Emit
      <3> QED BY <3>1, <3>2, ToldStays
    <2> QED BY <2>1, <2>2
  <1>4. ASSUME NEW c \in Callers, PutEvent(c)
        PROVE  metric'[r] = IF Emitted(r)' THEN Append(events'[r], halted'[r]) ELSE events'[r]
    <2>1. CASE row[c] = r
      <3>0. at[c] = "record"
        BY <1>4 DEF PutEvent
      <3>1. Emitted(r) /\ want[c] = halted[r]
        <4>1. Emitted(r)
          BY <2>1, <3>0 DEF Emitted
        <4>2. want[c] <=> halted[r]
          BY <2>1, <3>0 DEF Lone
        <4> QED BY <1>0, <4>1, <4>2
      <3>2. \A d \in Callers : row'[d] # r
        BY <1>0, <1>4, <2>1 DEF PutEvent, Return, Lone
      <3>3. ~Emitted(r)'
        BY <3>2 DEF Emitted
      <3>4. metric[r] = Append(events[r], halted[r])
        BY <3>1 DEF Told
      <3>5. events'[r] = Append(events[r], want[c]) /\ UNCHANGED <<metric, halted>>
        BY <1>0, <1>4, <2>1 DEF PutEvent, Recorded
      <3> QED BY <3>1, <3>3, <3>4, <3>5
    <2>2. CASE row[c] # r
      <3>1. events'[r] = events[r] /\ UNCHANGED <<metric, halted>>
        BY <1>0, <1>4, <2>2 DEF PutEvent
      <3>2. \A d \in Callers : (row'[d] = r /\ at'[d] = "record")
                                 <=> (row[d] = r /\ at[d] = "record")
        BY <1>0, <1>4, <2>2 DEF PutEvent, Return
      <3> QED BY <3>1, <3>2, ToldStays
    <2> QED BY <2>1, <2>2
  <1>5. ASSUME NEW c \in Callers, Fail(c)
        PROVE  metric'[r] = IF Emitted(r)' THEN Append(events'[r], halted'[r]) ELSE events'[r]
    <2>1. \A d \in Callers : (row'[d] = r /\ at'[d] = "record")
                               <=> (row[d] = r /\ at[d] = "record")
      BY <1>0, <1>5 DEF Fail, Return
    <2> QED BY <1>5, <2>1, ToldStays DEF Fail, storeVars
  <1>6. ASSUME UNCHANGED <<storeVars, callVars>>
        PROVE  metric'[r] = IF Emitted(r)' THEN Append(events'[r], halted'[r]) ELSE events'[r]
    BY <1>6, ToldStays DEF storeVars, callVars
  <1> QED
    BY <1>1, <1>2, <1>3, <1>4, <1>5, <1>6
       DEF Next, Set, Ask, ReadSystem, ReadOrg, vars

\* The alarm and the audit log of such a row agree whenever no call on it is
\* under way (_emit_transition, _record_transition).
THEOREM MetricAgrees == Spec => []MetricMatchesAudit
<1>1. Init => Types /\ Lone /\ Told
  BY InitTypes, InitLone, HaltAssumption
     DEF HaltAssumption, Rows, Init, Told, Emitted
<1>2. Types /\ Lone /\ Told /\ [Next]_vars => (Types /\ Lone /\ Told)'
  BY NextTypes, NextLone, NextTold
<1>3. Told => MetricMatchesAudit
  BY DEF Told, Emitted, MetricMatchesAudit, Busy
<1> QED
  BY <1>1, <1>2, <1>3, PTL DEF Spec
==============================================================================
