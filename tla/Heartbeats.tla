----------------------------- MODULE Heartbeats -----------------------------
(***************************************************************************)
(* Heartbeats and the platform supervisor.  Bots, the subscriber and the    *)
(* review agents overwrite their HEARTBEAT# row; the supervisor, invoked     *)
(* every minute, classifies the rows it finds by their age.  Nothing    *)
(* removes the row of an agent its user stopped but the row's ttl, so until  *)
(* then it is reported missing; an agent without a row is not looked for.    *)
(***************************************************************************)
EXTENDS Naturals

CONSTANTS
  Fast,       \* strategies and subscribers, FAST_CADENCE_AGENT_TYPES
  Slow,       \* review agents, whose cadence exceeds the limits
  Stale, Missing, \* ages at which a row is stale, or its agent missing
  Period,     \* units of time between two checks
  BeatTtl     \* units a row is kept, at least

ASSUME BeatsAssumption ==
  /\ {Stale, Missing, Period, BeatTtl} \subseteq Nat
  /\ 0 < Period /\ 0 < Stale /\ Stale < Missing /\ Missing + Period < BeatTtl

Agents == Fast \cup Slow
NoRow == BeatTtl + 2        \* there is no heartbeat row
Oldest == BeatTtl + 1       \* ages beyond the ttl are one (bound)

VARIABLES
  running,    \* agents whose process is there and not stuck
  age,        \* the age of each agent's row, or NoRow
  phase,      \* time since the last check was due
  due,        \* a check is due
  report      \* what the last check said of each agent

beatVars == <<running, age, phase, due, report>>

BeatsInit ==
  /\ running = {}
  /\ age = [a \in Agents |-> NoRow]
  /\ phase = 0
  /\ due = FALSE
  /\ report = [a \in Agents |-> "unknown"]

\* An agent starts, or its process stops, dies or hangs.
StartAgent(a) ==
  /\ running' = running \cup {a}
  /\ UNCHANGED <<age, phase, due, report>>

StopAgent(a) ==
  /\ running' = running \ {a}
  /\ UNCHANGED <<age, phase, due, report>>

\* HeartbeatStore.beat; a call that fails is suppressed by the caller.
BeatOnce(a) ==
  /\ a \in running
  /\ age' = [age EXCEPT ![a] = 0]
  /\ UNCHANGED <<running, phase, due, report>>

\* The limit itself does not count.
Classify_slip(t) ==
  IF t > Missing THEN "missing" ELSE IF t > Stale THEN "stale" ELSE "healthy"

\* classify_beat.
Classify(t) ==
  IF t >= Missing THEN "missing" ELSE IF t >= Stale THEN "stale" ELSE "healthy"

\* check_health: slow agents are recorded, not classified.
CheckHealth ==
  /\ due
  /\ due' = FALSE
  /\ report' = [a \in Agents |->
       CASE age[a] = NoRow -> "unknown"
         [] age[a] # NoRow /\ a \in Fast -> Classify(age[a])
         [] OTHER -> "untracked"]
  /\ UNCHANGED <<running, age, phase>>

\* Past its ttl a row may go at any time.
Expired(t) == t = Oldest

ExpireRow(a) ==
  /\ Expired(age[a])
  /\ age' = [age EXCEPT ![a] = NoRow]
  /\ UNCHANGED <<running, phase, due, report>>

\* A unit of time passes; the supervisor's invocation is not skipped.
Pass ==
  /\ ~due
  /\ age' = [a \in Agents |-> IF age[a] < Oldest THEN age[a] + 1 ELSE age[a]]
  /\ phase' = (phase + 1) % Period
  /\ due' = (phase' = 0)
  /\ UNCHANGED <<running, report>>

BeatsNext ==
  \/ Pass \/ CheckHealth
  \/ \E a \in Agents :
       StartAgent(a) \/ StopAgent(a) \/ BeatOnce(a) \/ ExpireRow(a)

BeatsSpec == BeatsInit /\ [][BeatsNext]_beatVars

-----------------------------------------------------------------------------
BeatsTypeOK ==
  /\ running \subseteq Agents
  /\ age \in [Agents -> 0..NoRow]
  /\ phase \in 0..(Period - 1)
  /\ due \in BOOLEAN
  /\ report \in [Agents -> {"unknown", "healthy", "stale", "missing", "untracked"}]

\* A bot or subscriber that has beaten once and then hangs or dies is reported
\* missing by the first check after the limit, until its row expires.
SilenceIsReported ==
  \A a \in Fast :
    age[a] # NoRow /\ ~due /\ age[a] >= Missing + phase => report[a] = "missing"
=============================================================================
