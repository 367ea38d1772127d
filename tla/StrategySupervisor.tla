-------------------------- MODULE StrategySupervisor --------------------------
(***************************************************************************)
(* The StrategySupervisor: STRATEGY# rows, the DynamoDB stream of their      *)
(* changes, the streams Lambda and the one-shot reconciler that turn them    *)
(* into ECS services, and ECS itself.                                       *)
(*                                                                         *)
(* The stream is at-least-once: an invocation that dies is run again on a    *)
(* part of its batch, and given up after a number of attempts.  Both         *)
(* Lambdas run the same reconcile; each of its ECS calls is a step of its    *)
(* own, since the other Lambda, ECS and users run in between.               *)
(***************************************************************************)
EXTENDS Naturals, Sequences

CONSTANTS
  Strategies,     \* strategy ids
  NoStrategy,     \* a Lambda that serves no strategy
  Orgless,        \* strategies whose row has no org_id (legacy rows)
  Batch,          \* records per invocation (bound)
  Attempts,       \* invocations of a batch before it is given up
  MaxEdits,       \* user changes of the rows (bound)
  Faults,         \* the faults the environment injects
  OneShots        \* runs of the one-shot reconciler (bound)

FaultKinds == {"ecs", "lambda"}

Statuses == {"active", "paused", "stopped"}
Lambdas == {"streams", "oneshot"}
Actions == {"NOOP", "ENSURE_RUNNING", "PAUSE", "STOP"}

ASSUME SupervisorAssumption ==
  /\ NoStrategy \notin Strategies
  /\ Orgless \subseteq Strategies
  /\ Batch \in Nat \ {0}
  /\ Attempts \in Nat \ {0}
  /\ MaxEdits \in Nat
  /\ OneShots \in Nat
  /\ Faults \subseteq FaultKinds

VARIABLES
  \* DynamoDB
  row,          \* status of each STRATEGY# row, "none" without one
  stream,       \* change records not yet acknowledged, oldest first
  \* the streams Lambda
  size,         \* records in the invocation's batch, 0 between invocations
  index,        \* records of the batch dealt with
  attempts,     \* invocations of this batch so far
  \* the one-shot reconciler
  list,         \* strategies it has still to ensure
  runs,         \* times it was invoked (bound)
  \* reconcile, in either Lambda
  at,           \* the ECS call it waits for
  strategy,     \* the decision's strategy
  action,       \* the decision's action
  \* ECS
  service,      \* status of each strategy's service
  desired,      \* its desired count
  running,      \* tasks of it that have booted and trade
  \* history
  edits,        \* user changes so far (bound)
  doubts        \* why a service may not follow its row

rowVars == <<row, stream, edits>>
batchVars == <<size, index, attempts>>
shotVars == <<list, runs>>
callVars == <<at, strategy, action>>
ecsVars == <<service, desired, running>>
vars == <<rowVars, batchVars, shotVars, callVars, ecsVars, doubts>>

Records == [strategy : Strategies, event : {"INSERT", "MODIFY", "REMOVE"},
            old : Statuses \cup {"none"}, new : Statuses \cup {"none"}]

\* Rows may be older than the stream (LATEST): their services do not exist yet.
Init ==
  /\ row \in [Strategies -> Statuses \cup {"none"}]
  /\ stream = <<>>
  /\ size = 0
  /\ index = 0
  /\ attempts = 0
  /\ list = {}
  /\ runs = 0
  /\ at = [l \in Lambdas |-> "idle"]
  /\ strategy = [l \in Lambdas |-> NoStrategy]
  /\ action = [l \in Lambdas |-> "NOOP"]
  /\ service = [s \in Strategies |-> "MISSING"]
  /\ desired = [s \in Strategies |-> 0]
  /\ running = [s \in Strategies |-> 0]
  /\ edits = 0
  /\ doubts = [s \in Strategies |->
                 IF row[s] = "active" THEN {"cutover"} ELSE {}]

-----------------------------------------------------------------------------
(* Users: StrategyStore and the stream of its changes.                      *)

\* The row of s changes and the stream says so.
Change(s, event, new) ==
  /\ edits < MaxEdits
  /\ edits' = edits + 1
  /\ row' = [row EXCEPT ![s] = new]
  /\ stream' = Append(stream, [strategy |-> s, event |-> event,
                               old |-> row[s], new |-> new])
  /\ UNCHANGED <<batchVars, shotVars, callVars, ecsVars, doubts>>

\* StrategyStore.create: born active.
Create(s) == row[s] = "none" /\ Change(s, "INSERT", "active")

\* StrategyStore.update: any change of the row, of its status or not.
Update(s) == \E new \in Statuses : row[s] # "none" /\ Change(s, "MODIFY", new)

\* StrategyStore.delete.
Delete(s) == row[s] # "none" /\ Change(s, "REMOVE", "none")

-----------------------------------------------------------------------------
(* Decisions.                                                              *)

\* A change of the status to paused is no reason to act.
Classify_slip(rec) ==
  IF rec.event = "REMOVE" \/ rec.new = "stopped" THEN "STOP"
  ELSE IF rec.new = "active" THEN "ENSURE_RUNNING" ELSE "NOOP"

\* classify_record.
Classify(rec) ==
  CASE rec.event = "REMOVE" -> "STOP"
    [] rec.event = "INSERT" ->
         IF rec.new = "active" THEN "ENSURE_RUNNING" ELSE "NOOP"
    [] rec.event = "MODIFY" ->
         IF rec.old = rec.new THEN "NOOP"
         ELSE CASE rec.new = "active" -> "ENSURE_RUNNING"
                [] rec.new = "paused" -> "PAUSE"
                [] rec.new = "stopped" -> "STOP"

\* decisions_from_store: active rows with an org.
Wanted == {s \in Strategies \ Orgless : row[s] = "active"}

\* The Lambda goes on to what it does after reconcile returned or raised.
Done(l) ==
  /\ at' = [at EXCEPT ![l] = "idle"]
  /\ strategy' = [strategy EXCEPT ![l] = NoStrategy]
  /\ action' = [action EXCEPT ![l] = "NOOP"]
  /\ index' = IF l = "streams" THEN index + 1 ELSE index
  /\ UNCHANGED <<size, attempts, shotVars>>

Doubt(s, why) == doubts' = [doubts EXCEPT ![s] = @ \cup {why}]

\* reconcile raised: the exception is logged and counted, nothing more.
Raise(l) ==
  /\ Done(l)
  /\ Doubt(strategy[l], "error")
  /\ UNCHANGED ecsVars

\* reconcile is about to make an ECS call.
Call(l, c) ==
  /\ at' = [at EXCEPT ![l] = c]
  /\ UNCHANGED <<strategy, action, batchVars, shotVars>>

\* reconcile begins on a decision.
Begin(l, s, a) ==
  /\ at' = [at EXCEPT ![l] = "describe"]
  /\ strategy' = [strategy EXCEPT ![l] = s]
  /\ action' = [action EXCEPT ![l] = a]

-----------------------------------------------------------------------------
(* The streams Lambda: _run.                                               *)

\* An invocation on the oldest records.
Invoke ==
  /\ size = 0
  /\ stream # <<>>
  /\ \E n \in 1 .. Batch : n <= Len(stream) /\ size' = n
  /\ index' = 0
  /\ attempts' = 1
  /\ UNCHANGED <<rowVars, shotVars, callVars, ecsVars, doubts>>

\* The next record of the batch: a decision to reconcile, or none.
NextRecord ==
  /\ index < size
  /\ at["streams"] = "idle"
  /\ LET rec == stream[index + 1]
         a == Classify(rec)
     IN \/ /\ a = "NOOP"
           /\ index' = index + 1
           /\ UNCHANGED <<callVars, doubts>>
        \/ /\ a = "ENSURE_RUNNING" /\ rec.strategy \in Orgless
           /\ index' = index + 1       \* assert decision.org_id is not None
           /\ Doubt(rec.strategy, "error")
           /\ UNCHANGED callVars
        \/ /\ a # "NOOP"
           /\ ~(a = "ENSURE_RUNNING" /\ rec.strategy \in Orgless)
           /\ Begin("streams", rec.strategy, a)
           /\ UNCHANGED <<index, doubts>>
  /\ UNCHANGED <<rowVars, size, attempts, shotVars, ecsVars>>

\* The batch is acknowledged.
BatchDone ==
  /\ size > 0
  /\ index = size
  /\ stream' = SubSeq(stream, size + 1, Len(stream))
  /\ size' = 0
  /\ index' = 0
  /\ attempts' = 0
  /\ UNCHANGED <<row, edits, shotVars, callVars, ecsVars, doubts>>

\* The strategies of the first n records.
Touched(n) == {stream[i].strategy : i \in 1 .. n}

\* The invocation dies: the batch, or the first part of it, is tried again
\* from its first record, or is given up.
LambdaDies ==
  /\ "lambda" \in Faults
  /\ size > 0
  /\ at' = [at EXCEPT !["streams"] = "idle"]
  /\ strategy' = [strategy EXCEPT !["streams"] = NoStrategy]
  /\ action' = [action EXCEPT !["streams"] = "NOOP"]
  /\ index' = 0
  /\ \/ /\ attempts < Attempts
        /\ \E n \in 1 .. size : size' = n
        /\ attempts' = attempts + 1
        /\ UNCHANGED <<stream, doubts>>
     \/ /\ attempts = Attempts
        /\ stream' = SubSeq(stream, size + 1, Len(stream))
        /\ doubts' = [s \in Strategies |->
                        IF s \in Touched(size) THEN doubts[s] \cup {"lost"}
                                               ELSE doubts[s]]
        /\ size' = 0
        /\ attempts' = 0
  /\ UNCHANGED <<row, edits, shotVars, ecsVars>>

-----------------------------------------------------------------------------
(* The one-shot reconciler: reconcile_all.                                  *)

\* It lists the active rows.
ListAll ==
  /\ runs < OneShots
  /\ list = {}
  /\ at["oneshot"] = "idle"
  /\ runs' = runs + 1
  /\ list' = Wanted
  /\ UNCHANGED <<rowVars, batchVars, callVars, ecsVars, doubts>>

\* The next decision, from the list as it was read.
NextDecision ==
  /\ at["oneshot"] = "idle"
  /\ \E s \in list :
       /\ list' = list \ {s}
       /\ Begin("oneshot", s, "ENSURE_RUNNING")
  /\ UNCHANGED <<rowVars, batchVars, runs, ecsVars, doubts>>

-----------------------------------------------------------------------------
(* reconcile, by Lambda l.                                                  *)

\* _service_state: a service that is neither missing nor inactive.
Exists(s) == service[s] # "MISSING"

\* A service that exists is left as it is.
IsDown_slip(s) == FALSE

\* The existing service sits at 0.
IsDown(s) == desired[s] < 1

\* describe_services answers: what to call next, or nothing left to do.
Describe(l) ==
  /\ at[l] = "describe"
  /\ LET s == strategy[l]
         a == action[l]
     IN CASE a = "ENSURE_RUNNING" /\ ~Exists(s) -> Call(l, "create")
          [] a = "ENSURE_RUNNING" /\ Exists(s) /\ IsDown(s) -> Call(l, "up")
          [] a \in {"PAUSE", "STOP"} /\ Exists(s) -> Call(l, "down")
          [] OTHER -> Done(l)
  /\ UNCHANGED <<rowVars, ecsVars, doubts>>

\* The one-shot reconciler's decision is older than the row.
Stale(l) == l = "oneshot" /\ row[strategy[l]] # "active"

\* What an ECS call that starts s's service leaves to doubt: nothing, unless
\* the decision is the one-shot reconciler's and is out of date.
Started(l) ==
  LET s == strategy[l]
  IN IF l = "oneshot"
       THEN doubts' = [doubts EXCEPT ![s] =
                         IF Stale(l) THEN @ \cup {"stale"} ELSE @ \ {"cutover"}]
       ELSE UNCHANGED doubts

\* _register_task_def and create_service: refused while a service of that
\* name exists.
CreateService(l) ==
  /\ at[l] = "create"
  /\ LET s == strategy[l]
     IN \/ /\ service[s] = "MISSING"
           /\ service' = [service EXCEPT ![s] = "ACTIVE"]
           /\ desired' = [desired EXCEPT ![s] = 1]
           /\ Started(l)
           /\ Done(l)
           /\ UNCHANGED <<running>>
        \/ service[s] # "MISSING" /\ Raise(l)
  /\ UNCHANGED rowVars

\* update_service(desiredCount=1): refused unless the service is active.
ScaleUp(l) ==
  /\ at[l] = "up"
  /\ LET s == strategy[l]
     IN \/ /\ service[s] = "ACTIVE"
           /\ desired' = [desired EXCEPT ![s] = 1]
           /\ Started(l)
           /\ Done(l)
           /\ UNCHANGED <<service, running>>
        \/ service[s] # "ACTIVE" /\ Raise(l)
  /\ UNCHANGED rowVars

\* update_service(desiredCount=0), the whole of _pause and the first half of
\* _stop.
ScaleDown(l) ==
  /\ at[l] = "down"
  /\ LET s == strategy[l]
     IN \/ /\ service[s] = "ACTIVE"
           /\ desired' = [desired EXCEPT ![s] = 0]
           /\ IF action[l] = "STOP" THEN Call(l, "delete") ELSE Done(l)
           /\ UNCHANGED <<service, running, doubts>>
        \/ service[s] # "ACTIVE" /\ Raise(l)
  /\ UNCHANGED rowVars

\* delete_service(force=True).
DeleteService(l) ==
  /\ at[l] = "delete"
  /\ LET s == strategy[l]
     IN \/ /\ service[s] = "ACTIVE"
           /\ service' = [service EXCEPT ![s] = "DRAINING"]
           /\ desired' = [desired EXCEPT ![s] = 0]
           /\ Done(l)
           /\ UNCHANGED <<running, doubts>>
        \/ service[s] # "ACTIVE" /\ Raise(l)
  /\ UNCHANGED rowVars

\* An ECS call fails: throttled, timed out, refused.
EcsFails(l) ==
  /\ "ecs" \in Faults
  /\ at[l] # "idle"
  /\ Raise(l)
  /\ UNCHANGED rowVars

-----------------------------------------------------------------------------
(* ECS.                                                                    *)

\* load_single_bot_config: a task boots for an active row with an org only.
Boots(s) == s \in Wanted

\* A task is started until one boots.
StartTask(s) ==
  /\ desired[s] = 1 /\ running[s] = 0
  /\ Boots(s)
  /\ running' = [running EXCEPT ![s] = 1]
  /\ UNCHANGED <<rowVars, batchVars, shotVars, callVars, service, desired, doubts>>

\* The task is stopped.
StopTask(s) ==
  /\ desired[s] = 0 /\ running[s] = 1
  /\ running' = [running EXCEPT ![s] = 0]
  /\ UNCHANGED <<rowVars, batchVars, shotVars, callVars, service, desired, doubts>>

\* The service is gone once its task is.
Drained(s) ==
  /\ service[s] = "DRAINING" /\ running[s] = 0
  /\ service' = [service EXCEPT ![s] = "MISSING"]
  /\ UNCHANGED <<rowVars, batchVars, shotVars, callVars, desired, running, doubts>>

-----------------------------------------------------------------------------
Reconcile(l) == \/ Describe(l) \/ CreateService(l) \/ ScaleUp(l)
                \/ ScaleDown(l) \/ DeleteService(l)

Streams == Invoke \/ NextRecord \/ Reconcile("streams") \/ BatchDone
OneShot == NextDecision \/ Reconcile("oneshot")
Ecs(s) == StartTask(s) \/ StopTask(s) \/ Drained(s)

Next ==
  \/ \E s \in Strategies : Create(s) \/ Update(s) \/ Delete(s)
  \/ Streams
  \/ LambdaDies
  \/ ListAll
  \/ OneShot
  \/ \E l \in Lambdas : EcsFails(l)
  \/ \E s \in Strategies : Ecs(s)

Spec == Init /\ [][Next]_vars

\* The stream is polled, Lambdas run to the end, ECS moves to what is desired.
Fairness ==
  /\ WF_vars(Streams)
  /\ WF_vars(OneShot)
  /\ \A s \in Strategies : WF_vars(Ecs(s))

FairSpec == Spec /\ Fairness

-----------------------------------------------------------------------------
(* Properties.                                                             *)

TypeOK ==
  /\ row \in [Strategies -> Statuses \cup {"none"}]
  /\ stream \in Seq(Records)
  /\ size \in 0 .. Len(stream)
  /\ index \in 0 .. size
  /\ attempts \in 0 .. Attempts
  /\ list \subseteq Strategies
  /\ runs \in 0 .. OneShots
  /\ at \in [Lambdas -> {"idle", "describe", "create", "up", "down", "delete"}]
  /\ strategy \in [Lambdas -> Strategies \cup {NoStrategy}]
  /\ action \in [Lambdas -> Actions]
  /\ service \in [Strategies -> {"MISSING", "ACTIVE", "DRAINING"}]
  /\ desired \in [Strategies -> 0 .. 1]
  /\ running \in [Strategies -> 0 .. 1]
  /\ edits \in 0 .. MaxEdits
  /\ doubts \in [Strategies -> SUBSET {"cutover", "error", "lost", "stale"}]

\* No Lambda is at work on s and no change of s is waiting in the stream.
Quiet(s) ==
  /\ \A l \in Lambdas : strategy[l] # s
  /\ s \notin list
  /\ \A i \in 1 .. Len(stream) : stream[i].strategy # s

\* The service of s is what its row asks for.
Follows(s) ==
  IF row[s] = "active" THEN service[s] = "ACTIVE" /\ desired[s] = 1
                       ELSE desired[s] = 0

\* Once every change of a row has been dealt with, the service follows the
\* row, through any redelivery of the stream, unless a call was refused or
\* failed, a batch was given up, the one-shot reconciler worked from an old
\* list, or the row is older than the stream (classify_record, reconcile, _run).
ServiceFollowsRow ==
  \A s \in Strategies : Quiet(s) /\ doubts[s] = {} => Follows(s)

\* When users leave the rows alone every active strategy is traded in the end
\* and no other one is, unless its service is in doubt (Lambdas and ECS).
TasksFollowRows ==
  \A s \in Strategies :
    <>[](doubts[s] = {} => (running[s] = 1 <=> row[s] = "active"))
=============================================================================
