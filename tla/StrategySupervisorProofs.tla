----------------------- MODULE StrategySupervisorProofs -----------------------
(***************************************************************************)
(* Services follow their rows, for any strategies, batches, attempts and     *)
(* faults.  ServiceFollowsRow speaks only of quiet strategies and is not     *)
(* inductive; what holds all the time is that a strategy not in doubt        *)
(* follows its row or has a record ahead that calls for action, and that     *)
(* the last such record calls for what the row asks.                         *)
(***************************************************************************)
EXTENDS StrategySupervisor, SequenceTheorems, TLAPS

\* Record i of the stream is about s and calls for action.
Calls(i, s) == stream[i].strategy = s /\ Classify(stream[i]) # "NOOP"

\* It is the last one of s that does.
CallsLast(i, s) ==
  Calls(i, s) /\ \A j \in 1..Len(stream) : j > i => ~Calls(j, s)

LastCallFits(s) ==
  \A i \in 1..Len(stream) :
    CallsLast(i, s) => (Classify(stream[i]) = "ENSURE_RUNNING" <=> row[s] = "active")

\* The streams Lambda has still to deal with a record of s, or is at it.
Ahead(s) == \E i \in 1..Len(stream) : i > index /\ Calls(i, s)

FollowsOrWill(s) == doubts[s] = {} => Ahead(s) \/ Follows(s)

\* What the Lambdas are at: the record after those dealt with, or a start.
StreamsAtWork ==
  at["streams"] # "idle" =>
    /\ index < size
    /\ strategy["streams"] = stream[index + 1].strategy
    /\ action["streams"] = Classify(stream[index + 1])

\* The one-shot reconciler only starts services.
OneShotStarts ==
  at["oneshot"] # "idle" =>
    action["oneshot"] = "ENSURE_RUNNING" /\ strategy["oneshot"] \in Strategies

\* The call a Lambda waits for is one its action makes.
CallFits(l) ==
  /\ at[l] \in {"create", "up"} => action[l] = "ENSURE_RUNNING"
  /\ at[l] = "down" => action[l] \in {"PAUSE", "STOP"}
  /\ at[l] = "delete" => action[l] = "STOP"
  /\ at[l] # "idle" => strategy[l] \in Strategies /\ action[l] # "NOOP"

\* ECS wants tasks of active services only.
DesiredIsActive == \A s \in Strategies : desired[s] = 1 => service[s] = "ACTIVE"

\* The changes a row can make.
Told ==
  {r \in Records : /\ r.event = "INSERT" => r.new = "active"
                   /\ r.event = "MODIFY" => r.new \in Statuses
                   /\ r.event = "REMOVE" => r.new = "none"}

WorkInv ==
  /\ TypeOK
  /\ stream \in Seq(Told)
  /\ StreamsAtWork
  /\ OneShotStarts
  /\ \A l \in Lambdas : CallFits(l)
  /\ DesiredIsActive

SupInv ==
  /\ WorkInv
  /\ \A s \in Strategies : LastCallFits(s) /\ FollowsOrWill(s)

-----------------------------------------------------------------------------
(* Records and the stream.                                                  *)

\* What classify_record makes of a change of a row.
LEMMA ClassifyFacts ==
  ASSUME NEW rec \in Told
  PROVE  /\ Classify(rec) \in Actions
         /\ Classify(rec) = "NOOP" <=> rec.event = "MODIFY" /\ rec.old = rec.new
         /\ Classify(rec) # "NOOP" => (Classify(rec) = "ENSURE_RUNNING" <=> rec.new = "active")
<1>1. rec.event \in {"INSERT", "MODIFY", "REMOVE"} /\ rec.new \in Statuses \cup {"none"}
  BY DEF Told, Records
<1>2. CASE rec.event = "INSERT"
  BY <1>2 DEF Told, Classify, Actions
<1>3. CASE rec.event = "REMOVE"
  BY <1>3 DEF Told, Classify, Actions
<1>4. CASE rec.event = "MODIFY"
  BY <1>4 DEF Told, Classify, Actions, Statuses
<1> QED BY <1>1, <1>2, <1>3, <1>4

\* The first n records are acknowledged, or given up.
LEMMA Dropped ==
  ASSUME NEW S, stream \in Seq(S), NEW n \in 0 .. Len(stream),
         stream' = SubSeq(stream, n + 1, Len(stream))
  PROVE  /\ stream' \in Seq(S)
         /\ Len(stream') = Len(stream) - n
         /\ \A i \in 1 .. Len(stream') : stream'[i] = stream[i + n]
<1>1. Len(stream) \in Nat /\ \A i \in 1 .. Len(stream) : stream[i] \in S
  BY LenProperties
<1>2. \A i \in (n + 1) .. Len(stream) : stream[i] \in S
  BY <1>1
<1>3. /\ stream' \in Seq(S)
      /\ Len(stream') = IF n + 1 <= Len(stream) THEN Len(stream) - (n + 1) + 1 ELSE 0
      /\ \A i \in 1 .. Len(stream) - (n + 1) + 1 : stream'[i] = stream[n + 1 + i - 1]
  <2> DEFINE m == n + 1
  <2>1. m \in Int /\ Len(stream) \in Int
    BY <1>1
  <2> HIDE DEF m
  <2>2. /\ SubSeq(stream, m, Len(stream)) \in Seq(S)
        /\ Len(SubSeq(stream, m, Len(stream))) =
             IF m <= Len(stream) THEN Len(stream) - m + 1 ELSE 0
        /\ \A i \in 1 .. Len(stream) - m + 1 : SubSeq(stream, m, Len(stream))[i] = stream[m + i - 1]
    BY <1>2, <2>1, SubSeqProperties DEF m
  <2> QED BY <2>2 DEF m
<1>4. Len(stream') = Len(stream) - n
  BY <1>1, <1>3
<1>5. ASSUME NEW i \in 1 .. Len(stream') PROVE stream'[i] = stream[i + n]
  <2>1. i \in 1 .. Len(stream) - (n + 1) + 1 /\ n + 1 + i - 1 = i + n
    BY <1>1, <1>4
  <2> QED BY <1>3, <2>1
<1> QED BY <1>3, <1>4, <1>5

-----------------------------------------------------------------------------
(* Types, and what the Lambdas are at.                                      *)

LEMMA WorkStarts == Init => WorkInv
BY SupervisorAssumption
   DEF Init, WorkInv, TypeOK, StreamsAtWork, OneShotStarts, CallFits, DesiredIsActive, Lambdas,
       Actions

LEMMA RowsKeepWork ==
  ASSUME WorkInv, NEW s \in Strategies, Create(s) \/ Update(s) \/ Delete(s)
  PROVE  WorkInv'
<1>1. PICK event \in {"INSERT", "MODIFY", "REMOVE"}, new \in Statuses \cup {"none"} :
        /\ Change(s, event, new)
        /\ [strategy |-> s, event |-> event, old |-> row[s], new |-> new] \in Told
  BY DEF Create, Update, Delete, Told, Records, Statuses, WorkInv, TypeOK
<1> DEFINE rec == [strategy |-> s, event |-> event, old |-> row[s], new |-> new]
<1>2. stream' = Append(stream, rec) /\ rec \in Told /\ Told \subseteq Records
  BY <1>1 DEF Change, Told
<1> HIDE DEF rec
<1>3. /\ stream' \in Seq(Told) /\ stream' \in Seq(Records)
      /\ Len(stream') = Len(stream) + 1
      /\ \A i \in 1 .. Len(stream) : stream'[i] = stream[i]
  BY <1>2, AppendProperties DEF WorkInv, TypeOK
<1>4. /\ size' = size /\ index' = index /\ size \in 0 .. Len(stream) /\ index \in 0 .. size
      /\ Len(stream) \in Nat
  BY <1>1, LenProperties DEF Change, batchVars, WorkInv, TypeOK
<1>5. edits' = edits + 1 /\ edits < MaxEdits /\ row' = [row EXCEPT ![s] = new]
  BY <1>1 DEF Change
<1>6. TypeOK'
  <2>1. /\ row' \in [Strategies -> Statuses \cup {"none"}] /\ edits' \in 0 .. MaxEdits
        /\ size' \in 0 .. Len(stream') /\ index' \in 0 .. size'
    BY <1>3, <1>4, <1>5, SupervisorAssumption DEF WorkInv, TypeOK
  <2> QED
    BY <1>1, <1>3, <2>1 DEF Change, WorkInv, TypeOK, batchVars, shotVars, callVars, ecsVars
<1>7. StreamsAtWork'
  BY <1>1, <1>3, <1>4 DEF Change, callVars, WorkInv, StreamsAtWork
<1> QED
  BY <1>1, <1>3, <1>6, <1>7
     DEF Change, callVars, ecsVars, WorkInv, OneShotStarts, CallFits, DesiredIsActive

LEMMA BatchKeepsWork ==
  ASSUME WorkInv, Invoke \/ NextRecord \/ BatchDone
  PROVE  WorkInv'
<1>0. /\ Len(stream) \in Nat /\ size \in 0 .. Len(stream) /\ index \in 0 .. size
      /\ \A i \in 1 .. Len(stream) : stream[i] \in Told /\ stream[i] \in Records
  BY LenProperties DEF WorkInv, TypeOK
<1>1. CASE Invoke
  <2>1. PICK n \in 1 .. Batch : n <= Len(stream) /\ size' = n
    BY <1>1 DEF Invoke
  <2>2. size' \in 0 .. Len(stream) /\ index' \in 0 .. size' /\ attempts' \in 0 .. Attempts
    BY <1>0, <1>1, <2>1, SupervisorAssumption DEF Invoke
  <2>3. at["streams"] = "idle"
    BY <1>0, <1>1 DEF Invoke, WorkInv, StreamsAtWork
  <2> QED
    BY <1>1, <2>2, <2>3
       DEF Invoke, WorkInv, TypeOK, StreamsAtWork, OneShotStarts, CallFits, DesiredIsActive,
           rowVars, shotVars, callVars, ecsVars
<1>2. CASE NextRecord
  <2>1. index + 1 \in 1 .. Len(stream) /\ index + 1 \in 0 .. size /\ index < size
    BY <1>0, <1>2 DEF NextRecord
  <2>2. stream[index + 1] \in Told /\ stream[index + 1].strategy \in Strategies
    BY <1>0, <2>1 DEF Records
  <2>3. Classify(stream[index + 1]) \in Actions
    BY <2>2, ClassifyFacts
  <2>4. CASE index' = index + 1 /\ UNCHANGED callVars /\ doubts' = doubts
    BY <1>2, <2>1, <2>4
       DEF NextRecord, WorkInv, TypeOK, StreamsAtWork, OneShotStarts, CallFits,
           DesiredIsActive, rowVars, shotVars, callVars, ecsVars
  <2>5. CASE index' = index + 1 /\ UNCHANGED callVars /\ Doubt(stream[index + 1].strategy, "error")
    BY <1>2, <2>1, <2>2, <2>5
       DEF NextRecord, Doubt, WorkInv, TypeOK, StreamsAtWork, OneShotStarts, CallFits,
           DesiredIsActive, rowVars, shotVars, callVars, ecsVars
  <2>6. CASE /\ Classify(stream[index + 1]) # "NOOP"
             /\ Begin("streams", stream[index + 1].strategy, Classify(stream[index + 1]))
             /\ index' = index /\ doubts' = doubts
    <3>1. /\ at' = [at EXCEPT !["streams"] = "describe"]
          /\ strategy' = [strategy EXCEPT !["streams"] = stream[index + 1].strategy]
          /\ action' = [action EXCEPT !["streams"] = Classify(stream[index + 1])]
      BY <2>6 DEF Begin
    <3>2. TypeOK'
      BY <1>2, <2>2, <2>3, <2>6, <3>1
         DEF NextRecord, WorkInv, TypeOK, rowVars, shotVars, ecsVars, Lambdas
    <3>3. StreamsAtWork' /\ OneShotStarts' /\ \A l \in Lambdas : CallFits(l)'
      BY <1>2, <2>1, <2>2, <2>6, <3>1
         DEF NextRecord, WorkInv, TypeOK, rowVars, Lambdas, StreamsAtWork, OneShotStarts, CallFits
    <3> QED
      BY <1>2, <3>2, <3>3 DEF NextRecord, WorkInv, rowVars, ecsVars, DesiredIsActive
  <2> QED BY <1>2, <2>4, <2>5, <2>6 DEF NextRecord
<1>3. CASE BatchDone
  <2>1. at["streams"] = "idle"
    BY <1>0, <1>3 DEF BatchDone, WorkInv, StreamsAtWork
  <2>2. stream' \in Seq(Records) /\ stream' \in Seq(Told) /\ Len(stream') \in Nat
    BY <1>0, <1>3, Dropped DEF BatchDone, WorkInv, TypeOK
  <2> QED
    BY <1>3, <2>1, <2>2, SupervisorAssumption
       DEF BatchDone, WorkInv, TypeOK, StreamsAtWork, OneShotStarts, CallFits, DesiredIsActive,
           rowVars, shotVars, callVars, ecsVars
<1> QED BY <1>1, <1>2, <1>3

LEMMA DeathKeepsWork ==
  ASSUME WorkInv, LambdaDies
  PROVE  WorkInv'
<1>0. Len(stream) \in Nat /\ size \in 0 .. Len(stream) /\ index \in 0 .. size
  BY LenProperties DEF WorkInv, TypeOK
<1>1. /\ at' = [at EXCEPT !["streams"] = "idle"]
      /\ strategy' = [strategy EXCEPT !["streams"] = NoStrategy]
      /\ action' = [action EXCEPT !["streams"] = "NOOP"]
  BY DEF LambdaDies
<1>2. /\ at' \in [Lambdas -> {"idle", "describe", "create", "up", "down", "delete"}]
      /\ strategy' \in [Lambdas -> Strategies \cup {NoStrategy}]
      /\ action' \in [Lambdas -> Actions]
  BY <1>1 DEF WorkInv, TypeOK, Lambdas, Actions
<1>3. StreamsAtWork' /\ OneShotStarts' /\ \A l \in Lambdas : CallFits(l)'
  BY <1>1 DEF WorkInv, TypeOK, Lambdas, StreamsAtWork, OneShotStarts, CallFits
<1>4. DesiredIsActive'
  BY DEF LambdaDies, ecsVars, WorkInv, DesiredIsActive
<1>5. CASE /\ attempts < Attempts
           /\ \E n \in 1 .. size : size' = n
           /\ attempts' = attempts + 1
           /\ UNCHANGED <<stream, doubts>>
  <2>1. size' \in 0 .. Len(stream) /\ index' \in 0 .. size' /\ attempts' \in 0 .. Attempts
    BY <1>0, <1>5, SupervisorAssumption DEF LambdaDies, WorkInv, TypeOK
  <2> QED
    BY <1>2, <1>3, <1>4, <1>5, <2>1
       DEF LambdaDies, WorkInv, TypeOK, shotVars, ecsVars
<1>6. CASE /\ stream' = SubSeq(stream, size + 1, Len(stream))
           /\ doubts' = [s \in Strategies |->
                           IF s \in Touched(size) THEN doubts[s] \cup {"lost"} ELSE doubts[s]]
           /\ size' = 0
           /\ attempts' = 0
  <2>1. stream' \in Seq(Records) /\ stream' \in Seq(Told) /\ Len(stream') \in Nat
    BY <1>0, <1>6, Dropped DEF WorkInv, TypeOK
  <2>2. doubts' \in [Strategies -> SUBSET {"cutover", "error", "lost", "stale"}]
    BY <1>6 DEF WorkInv, TypeOK
  <2>3. size' \in 0 .. Len(stream') /\ index' \in 0 .. size' /\ attempts' \in 0 .. Attempts
    BY <1>6, <2>1, SupervisorAssumption DEF LambdaDies
  <2> QED
    BY <1>2, <1>3, <1>4, <2>1, <2>2, <2>3
       DEF LambdaDies, WorkInv, TypeOK, shotVars, ecsVars
<1> QED BY <1>5, <1>6 DEF LambdaDies

LEMMA ListKeepsWork ==
  ASSUME WorkInv, ListAll \/ NextDecision
  PROVE  WorkInv'
<1>1. CASE ListAll
  BY <1>1, SupervisorAssumption
     DEF ListAll, Wanted, WorkInv, TypeOK, StreamsAtWork, OneShotStarts, CallFits,
         DesiredIsActive, rowVars, batchVars, callVars, ecsVars
<1>2. CASE NextDecision
  <2>1. PICK s \in list : list' = list \ {s} /\ Begin("oneshot", s, "ENSURE_RUNNING")
    BY <1>2 DEF NextDecision
  <2>2. s \in Strategies
    BY DEF WorkInv, TypeOK
  <2> QED
    BY <1>2, <2>1, <2>2
       DEF NextDecision, Begin, WorkInv, TypeOK, StreamsAtWork, OneShotStarts, CallFits,
           DesiredIsActive, rowVars, batchVars, ecsVars, Lambdas, Actions
<1> QED BY <1>1, <1>2

\* reconcile returned or raised: the Lambda's own part.
LEMMA DoneKeepsWork ==
  ASSUME WorkInv, NEW l \in Lambdas, at[l] # "idle", Done(l), UNCHANGED rowVars,
         service' \in [Strategies -> {"MISSING", "ACTIVE", "DRAINING"}],
         desired' \in [Strategies -> 0 .. 1], UNCHANGED running, DesiredIsActive',
         doubts' \in [Strategies -> SUBSET {"cutover", "error", "lost", "stale"}]
  PROVE  WorkInv'
<1>1. index' \in 0 .. size
  BY LenProperties DEF Done, Lambdas, WorkInv, TypeOK, StreamsAtWork
<1>2. TypeOK'
  BY <1>1 DEF Done, WorkInv, TypeOK, rowVars, shotVars, Lambdas, Actions
<1>3. StreamsAtWork' /\ OneShotStarts' /\ \A k \in Lambdas : CallFits(k)'
  <2>1. CASE l = "streams"
    BY <2>1 DEF Done, WorkInv, TypeOK, Lambdas, StreamsAtWork, OneShotStarts, CallFits
  <2>2. CASE l = "oneshot"
    BY <2>2 DEF Done, WorkInv, TypeOK, rowVars, Lambdas, StreamsAtWork, OneShotStarts, CallFits
  <2> QED BY <2>1, <2>2 DEF Lambdas
<1> QED BY <1>2, <1>3 DEF WorkInv, rowVars

\* reconcile goes on to another call.
LEMMA CallKeepsWork ==
  ASSUME WorkInv, NEW l \in Lambdas, at[l] # "idle", UNCHANGED rowVars,
         NEW c \in {"create", "up", "down", "delete"}, Call(l, c),
         c \in {"create", "up"} => action[l] = "ENSURE_RUNNING",
         c = "down" => action[l] \in {"PAUSE", "STOP"}, c = "delete" => action[l] = "STOP",
         service' \in [Strategies -> {"MISSING", "ACTIVE", "DRAINING"}],
         desired' \in [Strategies -> 0 .. 1], UNCHANGED <<running, doubts>>, DesiredIsActive'
  PROVE  WorkInv'
<1>1. TypeOK'
  BY DEF Call, WorkInv, TypeOK, rowVars, batchVars, shotVars, Lambdas
<1>2. StreamsAtWork' /\ OneShotStarts' /\ \A k \in Lambdas : CallFits(k)'
  BY DEF Call, WorkInv, TypeOK, rowVars, batchVars, Lambdas, StreamsAtWork, OneShotStarts, CallFits
<1> QED BY <1>1, <1>2 DEF WorkInv, rowVars

\* What each call of reconcile does to the services.
LEMMA ReconcileKeepsWork ==
  ASSUME WorkInv, NEW l \in Lambdas, Reconcile(l) \/ EcsFails(l)
  PROVE  WorkInv'
<1>0. /\ at[l] # "idle" /\ UNCHANGED rowVars /\ CallFits(l)
      /\ strategy[l] \in Strategies /\ action[l] \in Actions
      /\ TypeOK /\ DesiredIsActive
  BY DEF Reconcile, Describe, CreateService, ScaleUp, ScaleDown, DeleteService, EcsFails,
         WorkInv, TypeOK, CallFits
<1>1. CASE Describe(l)
  <2>1. UNCHANGED ecsVars /\ doubts' = doubts
    BY <1>1 DEF Describe
  <2>2. \/ Done(l)
        \/ action[l] = "ENSURE_RUNNING" /\ (Call(l, "create") \/ Call(l, "up"))
        \/ action[l] \in {"PAUSE", "STOP"} /\ Call(l, "down")
    BY <1>1 DEF Describe
  <2>3. DesiredIsActive'
    BY <1>0, <2>1 DEF DesiredIsActive, ecsVars
  <2> QED
    BY <1>0, <2>1, <2>2, <2>3, DoneKeepsWork, CallKeepsWork DEF TypeOK, ecsVars
<1>2. CASE Raise(l)
  <2>1. DesiredIsActive'
    BY <1>0, <1>2 DEF Raise, DesiredIsActive, ecsVars
  <2> QED
    BY <1>0, <1>2, <2>1, DoneKeepsWork DEF Raise, Doubt, TypeOK, ecsVars
<1>3. CASE CreateService(l) /\ ~Raise(l)
  <2>1. /\ service' = [service EXCEPT ![strategy[l]] = "ACTIVE"]
        /\ desired' = [desired EXCEPT ![strategy[l]] = 1]
        /\ Started(l) /\ Done(l) /\ UNCHANGED running
    BY <1>3 DEF CreateService
  <2>2. DesiredIsActive'
    BY <1>0, <2>1 DEF DesiredIsActive, TypeOK
  <2> QED BY <1>0, <2>1, <2>2, DoneKeepsWork DEF Started, TypeOK
<1>4. CASE ScaleUp(l) /\ ~Raise(l)
  <2>1. /\ service[strategy[l]] = "ACTIVE" /\ service' = service
        /\ desired' = [desired EXCEPT ![strategy[l]] = 1]
        /\ Started(l) /\ Done(l) /\ UNCHANGED running
    BY <1>4 DEF ScaleUp
  <2>2. DesiredIsActive'
    BY <1>0, <2>1 DEF DesiredIsActive, TypeOK
  <2> QED BY <1>0, <2>1, <2>2, DoneKeepsWork DEF Started, TypeOK
<1>5. CASE ScaleDown(l) /\ ~Raise(l)
  <2>1. /\ service' = service /\ doubts' = doubts /\ UNCHANGED running
        /\ desired' = [desired EXCEPT ![strategy[l]] = 0]
        /\ (action[l] = "STOP" /\ Call(l, "delete")) \/ Done(l)
    BY <1>5 DEF ScaleDown
  <2>2. DesiredIsActive'
    BY <1>0, <2>1 DEF DesiredIsActive, TypeOK
  <2> QED BY <1>0, <2>1, <2>2, DoneKeepsWork, CallKeepsWork DEF TypeOK
<1>6. CASE DeleteService(l) /\ ~Raise(l)
  <2>1. /\ service' = [service EXCEPT ![strategy[l]] = "DRAINING"]
        /\ desired' = [desired EXCEPT ![strategy[l]] = 0]
        /\ Done(l) /\ UNCHANGED <<running, doubts>>
    BY <1>6 DEF DeleteService
  <2>2. DesiredIsActive'
    BY <1>0, <2>1 DEF DesiredIsActive, TypeOK
  <2> QED BY <1>0, <2>1, <2>2, DoneKeepsWork DEF TypeOK
<1> QED BY <1>1, <1>2, <1>3, <1>4, <1>5, <1>6 DEF Reconcile, EcsFails

LEMMA EcsKeepsWork ==
  ASSUME WorkInv, NEW s \in Strategies, Ecs(s)
  PROVE  WorkInv'
BY DEF Ecs, StartTask, StopTask, Drained, WorkInv, TypeOK, StreamsAtWork, OneShotStarts,
       CallFits, DesiredIsActive, rowVars, batchVars, shotVars, callVars

LEMMA WorkKeeps == WorkInv /\ [Next]_vars => WorkInv'
<1>1. ASSUME WorkInv, UNCHANGED vars PROVE WorkInv'
  BY <1>1
     DEF vars, rowVars, batchVars, shotVars, callVars, ecsVars, WorkInv, TypeOK, StreamsAtWork,
         OneShotStarts, CallFits, DesiredIsActive
<1>2. ASSUME WorkInv, Next PROVE WorkInv'
  BY <1>2, RowsKeepWork, BatchKeepsWork, DeathKeepsWork, ListKeepsWork, ReconcileKeepsWork,
     EcsKeepsWork
     DEF Next, Streams, OneShot, Lambdas
<1> QED BY <1>1, <1>2

\* Everything a supervisor's variable holds is of the kind the code keeps there,
\* through deaths of its Lambdas and failing calls (_run, reconcile).
THEOREM SupervisorTypes == Spec => []TypeOK
<1>1. WorkInv => TypeOK
  BY DEF WorkInv
<1> QED BY WorkStarts, WorkKeeps, <1>1, PTL DEF Spec

-----------------------------------------------------------------------------
(* Services and rows.  Each lemma takes one strategy s.                     *)

\* A new service is not wanted; the row decides alone.
LEMMA FollowsAtFirst ==
  ASSUME Init, NEW s \in Strategies
  PROVE  LastCallFits(s) /\ FollowsOrWill(s)
<1>1. Len(stream) = 0
  BY DEF Init
<1>2. row[s] = "active" => doubts[s] # {}
  BY DEF Init
<1>3. row[s] # "active" => desired[s] = 0
  BY DEF Init
<1> QED BY <1>1, <1>2, <1>3 DEF LastCallFits, FollowsOrWill, Follows

\* The records and the row stay, none is passed over, and the service is no
\* further from the row than it was, or a record is ahead.
LEMMA CalmFollows ==
  ASSUME NEW s, LastCallFits(s), FollowsOrWill(s),
         UNCHANGED <<stream, row>>, index' = index \/ index' = 0, index \in Nat,
         doubts'[s] = {} => \/ Ahead(s) \/ Follows(s)'
                            \/ doubts[s] = {} /\ (Follows(s) => Follows(s)')
  PROVE  LastCallFits(s)' /\ FollowsOrWill(s)'
<1>1. LastCallFits(s)'
  BY DEF LastCallFits, CallsLast, Calls
<1>2. Ahead(s) => Ahead(s)'
  <2>1. ASSUME NEW i \in 1 .. Len(stream), i > index, Calls(i, s) PROVE Ahead(s)'
    <3>1. i > index' /\ i \in 1 .. Len(stream') /\ Calls(i, s)'
      BY <2>1 DEF Calls
    <3> QED BY <3>1 DEF Ahead
  <2> QED BY <2>1 DEF Ahead
<1> QED BY <1>1, <1>2 DEF FollowsOrWill

\* The user changes a row.
LEMMA RowFollows ==
  ASSUME WorkInv, NEW s \in Strategies, LastCallFits(s), FollowsOrWill(s),
         NEW r \in Strategies, Create(r) \/ Update(r) \/ Delete(r)
  PROVE  LastCallFits(s)' /\ FollowsOrWill(s)'
<1>0. Len(stream) + 1 \in Nat
  BY LenProperties DEF WorkInv, TypeOK
<1> PICK n \in Nat : n = Len(stream) + 1
  BY <1>0
<1>1. PICK event \in {"INSERT", "MODIFY", "REMOVE"}, new \in Statuses \cup {"none"} :
        /\ Change(r, event, new)
        /\ [strategy |-> r, event |-> event, old |-> row[r], new |-> new] \in Told
  BY DEF Create, Update, Delete, Told, Records, Statuses, WorkInv, TypeOK
<1> DEFINE rec == [strategy |-> r, event |-> event, old |-> row[r], new |-> new]
<1>2. /\ rec.strategy = r /\ rec.old = row[r] /\ rec.new = new /\ rec.event = event
      /\ stream' = Append(stream, rec) /\ rec \in Told
  BY <1>1 DEF Change
<1> HIDE DEF rec
<1>3. /\ Len(stream) \in Nat /\ index \in 0 .. Len(stream)
      /\ Len(stream') = n /\ stream'[n] = rec
      /\ \A i \in 1 .. Len(stream) : stream'[i] = stream[i]
  BY <1>2, AppendProperties, LenProperties DEF WorkInv, TypeOK
<1>4. \A i \in 1 .. Len(stream) : Calls(i, s)' <=> Calls(i, s)
  BY <1>3 DEF Calls
<1>5. /\ row' = [row EXCEPT ![r] = new] /\ r \in DOMAIN row
      /\ UNCHANGED <<index, service, desired, doubts>>
  BY <1>1 DEF Change, batchVars, ecsVars, WorkInv, TypeOK
<1>6. CASE Calls(n, s)'
  <2>1. s = r /\ Classify(rec) # "NOOP"
    BY <1>2, <1>3, <1>6 DEF Calls
  <2>2. Classify(stream'[n]) = "ENSURE_RUNNING" <=> row'[s] = "active"
    BY <1>2, <1>3, <1>5, <2>1, ClassifyFacts
  <2>3. \A i \in 1 .. Len(stream') : CallsLast(i, s)' => i = n
    BY <1>3, <1>6 DEF CallsLast
  <2>4. Ahead(s)'
    BY <1>3, <1>5, <1>6 DEF Ahead
  <2> QED BY <2>2, <2>3, <2>4 DEF LastCallFits, FollowsOrWill
<1>7. CASE ~Calls(n, s)'
  <2>1. row'[s] = row[s]
    <3>1. CASE s # r
      BY <1>5, <3>1
    <3>2. CASE s = r
      <4>1. Classify(rec) = "NOOP"
        BY <1>2, <1>3, <1>7, <3>2 DEF Calls
      <4> QED BY <1>2, <1>5, <3>2, <4>1, ClassifyFacts
    <3> QED BY <3>1, <3>2
  <2>2. LastCallFits(s)'
    <3> SUFFICES ASSUME NEW i \in 1 .. Len(stream'), CallsLast(i, s)'
                 PROVE  (Classify(stream'[i]) = "ENSURE_RUNNING") <=> (row'[s] = "active")
      BY DEF LastCallFits
    <3>1. i \in 1 .. Len(stream) /\ Calls(i, s)
      BY <1>3, <1>4, <1>7 DEF CallsLast
    <3>2. CallsLast(i, s)
      BY <1>3, <1>4, <3>1 DEF CallsLast
    <3> QED BY <1>3, <2>1, <3>1, <3>2 DEF LastCallFits
  <2>3. Ahead(s) => Ahead(s)'
    BY <1>3, <1>4, <1>5 DEF Ahead
  <2>4. Follows(s) => Follows(s)'
    BY <1>5, <2>1 DEF Follows
  <2> QED BY <1>5, <2>2, <2>3, <2>4 DEF FollowsOrWill
<1> QED BY <1>6, <1>7

\* The first n records leave the stream.
LEMMA DropShifts ==
  ASSUME WorkInv, NEW s \in Strategies,
         NEW n \in 0 .. Len(stream), stream' = SubSeq(stream, n + 1, Len(stream))
  PROVE  /\ Len(stream) \in Nat /\ index \in Nat
         /\ \A i \in 1 .. Len(stream') :
              /\ i + n \in 1 .. Len(stream) /\ stream'[i] = stream[i + n]
              /\ Calls(i, s)' <=> Calls(i + n, s)
         /\ \A j \in 1 .. Len(stream) :
              j > n => j - n \in 1 .. Len(stream') /\ (j - n) + n = j
<1>1. /\ Len(stream) \in Nat /\ Len(stream') = Len(stream) - n /\ n \in Nat
      /\ \A i \in 1 .. Len(stream') : stream'[i] = stream[i + n]
      /\ index \in Nat
  <2>1. stream \in Seq(Told) /\ Len(stream) \in Nat
    BY LenProperties DEF WorkInv
  <2>2. n \in Nat
    BY <2>1
  <2>3. size \in Nat /\ index \in 0 .. size
    BY <2>1 DEF WorkInv, TypeOK
  <2>4. /\ Len(stream') = Len(stream) - n
        /\ \A i \in 1 .. Len(stream') : stream'[i] = stream[i + n]
    BY <2>1, Dropped
  <2> QED BY <2>1, <2>2, <2>3, <2>4
<1>2. \A i \in 1 .. Len(stream') : i + n \in 1 .. Len(stream) /\ (Calls(i, s)' <=> Calls(i + n, s))
  BY <1>1 DEF Calls
<1>3. \A j \in 1 .. Len(stream) : j > n => j - n \in 1 .. Len(stream') /\ (j - n) + n = j
  BY <1>1
<1> QED BY <1>1, <1>2, <1>3

LEMMA DropLast ==
  ASSUME WorkInv, NEW s \in Strategies, LastCallFits(s), row' = row,
         NEW n \in 0 .. Len(stream), stream' = SubSeq(stream, n + 1, Len(stream))
  PROVE  LastCallFits(s)'
<1> SUFFICES ASSUME NEW i \in 1 .. Len(stream'), CallsLast(i, s)'
             PROVE  (Classify(stream'[i]) = "ENSURE_RUNNING") <=> (row'[s] = "active")
  BY DEF LastCallFits
<1>1. Calls(i + n, s) /\ i + n \in 1 .. Len(stream) /\ stream'[i] = stream[i + n]
  BY DropShifts DEF CallsLast
<1>2. ASSUME NEW j \in 1 .. Len(stream), j > i + n PROVE ~Calls(j, s)
  <2>1. j - n \in 1 .. Len(stream') /\ j - n > i /\ (j - n) + n = j
    BY <1>2, DropShifts
  <2> QED BY <2>1, DropShifts DEF CallsLast
<1>3. CallsLast(i + n, s)
  BY <1>1, <1>2 DEF CallsLast
<1> QED BY <1>1, <1>3 DEF LastCallFits

\* They were dealt with, or are not about the strategy.
LEMMA DropFollows ==
  ASSUME WorkInv, NEW s \in Strategies, LastCallFits(s), FollowsOrWill(s),
         NEW n \in 0 .. Len(stream), stream' = SubSeq(stream, n + 1, Len(stream)),
         n = index \/ \A i \in 1 .. n : stream[i].strategy # s,
         index' = 0, UNCHANGED <<row, service, desired>>,
         doubts'[s] = {} => doubts[s] = {}
  PROVE  LastCallFits(s)' /\ FollowsOrWill(s)'
<1>1. Ahead(s) => Ahead(s)'
  <2> SUFFICES ASSUME NEW j \in 1 .. Len(stream), j > index, Calls(j, s) PROVE Ahead(s)'
    BY DEF Ahead
  <2>0. Len(stream) \in Nat /\ n \in Nat
    BY LenProperties DEF WorkInv
  <2>1. j > n
    <3>1. n = index \/ j \notin 1 .. n
      BY DEF Calls
    <3> QED BY <2>0, <3>1
  <2>2. j - n \in 1 .. Len(stream') /\ (j - n) + n = j
    BY <2>1, DropShifts
  <2>3. Calls(j - n, s)'
    BY <2>2, DropShifts
  <2>4. j - n > index'
    BY <2>0, <2>1
  <2> QED BY <2>2, <2>3, <2>4 DEF Ahead
<1>2. Follows(s) => Follows(s)'
  BY DEF Follows
<1> QED BY <1>1, <1>2, DropLast DEF FollowsOrWill

\* The streams Lambda is done with a record: if it called for action, and no
\* doubt remains, the service is what the action makes of it.
LEMMA PassFollows ==
  ASSUME WorkInv, NEW s \in Strategies, LastCallFits(s), FollowsOrWill(s),
         UNCHANGED <<stream, row>>, index < size, index' = index + 1,
         doubts'[s] = {} => doubts[s] = {},
         ~Calls(index + 1, s) => (Follows(s) => Follows(s)'),
         Calls(index + 1, s) /\ doubts'[s] = {} =>
           IF Classify(stream[index + 1]) = "ENSURE_RUNNING"
           THEN service'[s] = "ACTIVE" /\ desired'[s] = 1 ELSE desired'[s] = 0
  PROVE  LastCallFits(s)' /\ FollowsOrWill(s)'
<1>1. /\ Len(stream) \in Nat /\ index \in Nat /\ index + 1 \in 1 .. Len(stream)
  BY LenProperties DEF WorkInv, TypeOK
<1>2. LastCallFits(s)'
  BY DEF LastCallFits, CallsLast, Calls
<1>3. ASSUME NEW i \in 1 .. Len(stream), i > index + 1, Calls(i, s) PROVE Ahead(s)'
  <2>1. i > index' /\ i \in 1 .. Len(stream') /\ Calls(i, s)'
    BY <1>3 DEF Calls
  <2> QED BY <2>1 DEF Ahead
<1>4. CASE ~Calls(index + 1, s)
  <2>1. Ahead(s) => \E i \in 1 .. Len(stream) : i > index + 1 /\ Calls(i, s)
    BY <1>1, <1>4 DEF Ahead
  <2> QED BY <1>2, <1>3, <1>4, <2>1 DEF FollowsOrWill
<1>5. CASE /\ Calls(index + 1, s) /\ doubts'[s] = {}
           /\ \A i \in 1 .. Len(stream) : i > index + 1 => ~Calls(i, s)
  <2>1. CallsLast(index + 1, s)
    BY <1>5 DEF CallsLast
  <2>2. Classify(stream[index + 1]) = "ENSURE_RUNNING" <=> row[s] = "active"
    BY <1>1, <2>1 DEF LastCallFits
  <2>3. Follows(s)'
    BY <1>5, <2>2 DEF Follows
  <2> QED BY <1>2, <2>3 DEF FollowsOrWill
<1> QED BY <1>2, <1>3, <1>4, <1>5 DEF FollowsOrWill

\* A step that leaves the records and the row alone and the services at most
\* makes ready to go on: users, batches and ECS.
LEMMA BatchFollows ==
  ASSUME WorkInv, NEW s \in Strategies, LastCallFits(s), FollowsOrWill(s),
         Invoke \/ NextRecord \/ BatchDone \/ LambdaDies
  PROVE  LastCallFits(s)' /\ FollowsOrWill(s)'
<1>0. /\ Len(stream) \in Nat /\ size \in 0 .. Len(stream) /\ index \in 0 .. size
      /\ doubts \in [Strategies -> SUBSET {"cutover", "error", "lost", "stale"}]
  BY LenProperties DEF WorkInv, TypeOK
<1>1. CASE Invoke
  <2>1. UNCHANGED <<stream, row>> /\ doubts' = doubts /\ (Follows(s) => Follows(s)')
    BY <1>1 DEF Invoke, rowVars, ecsVars, Follows
  <2> QED BY <1>0, <1>1, <2>1, CalmFollows DEF Invoke
<1>2. CASE NextRecord
  <2>1. UNCHANGED <<stream, row>> /\ index < size /\ (Follows(s) => Follows(s)')
    BY <1>2 DEF NextRecord, rowVars, ecsVars, Follows
  <2>2. CASE Classify(stream[index + 1]) = "NOOP" /\ index' = index + 1 /\ doubts' = doubts
    <3>1. ~Calls(index + 1, s)
      BY <2>2 DEF Calls
    <3> QED BY <2>1, <2>2, <3>1, PassFollows
  <2>3. CASE index' = index + 1 /\ Doubt(stream[index + 1].strategy, "error")
    <3>1. /\ doubts'[s] = {} => doubts[s] = {}
          /\ Calls(index + 1, s) => doubts'[s] # {}
      BY <1>0, <2>3 DEF Doubt, Calls
    <3> QED BY <2>1, <2>3, <3>1, PassFollows
  <2>4. CASE UNCHANGED <<index, doubts>>
    BY <1>0, <2>1, <2>4, CalmFollows
  <2> QED BY <1>2, <2>1, <2>2, <2>3, <2>4 DEF NextRecord
<1>3. CASE BatchDone
  <2>1. UNCHANGED <<row, service, desired, doubts>>
    BY <1>3 DEF BatchDone, ecsVars
  <2> QED BY <1>0, <1>3, <2>1, DropFollows DEF BatchDone
<1>4. CASE LambdaDies
  <2>1. /\ index' = 0 /\ UNCHANGED <<row, service, desired>> /\ (Follows(s) => Follows(s)')
    BY <1>4 DEF LambdaDies, ecsVars, Follows
  <2>2. CASE UNCHANGED <<stream, doubts>>
    BY <1>0, <2>1, <2>2, CalmFollows
  <2>3. CASE /\ stream' = SubSeq(stream, size + 1, Len(stream))
             /\ doubts' = [r \in Strategies |->
                  IF r \in Touched(size) THEN doubts[r] \cup {"lost"} ELSE doubts[r]]
    <3>1. CASE s \in Touched(size)
      <4>1. doubts'[s] # {}
        BY <2>3, <3>1
      <4>2. LastCallFits(s)'
        BY <1>0, <2>1, <2>3, DropLast
      <4> QED BY <4>1, <4>2 DEF FollowsOrWill
    <3>2. CASE s \notin Touched(size)
      <4>1. \A i \in 1 .. size : stream[i].strategy # s
        BY <3>2 DEF Touched
      <4>2. doubts'[s] = doubts[s]
        BY <2>3, <3>2
      <4> QED BY <1>0, <2>1, <2>3, <4>1, <4>2, DropFollows
    <3> QED BY <3>1, <3>2
  <2> QED BY <1>4, <2>2, <2>3 DEF LambdaDies
<1> QED BY <1>1, <1>2, <1>3, <1>4

\* A Lambda is done with its decision; what its last call did is settled.
LEMMA DoneFollows ==
  ASSUME WorkInv, NEW s \in Strategies, LastCallFits(s), FollowsOrWill(s),
         NEW l \in Lambdas, at[l] # "idle", Done(l), UNCHANGED rowVars,
         s # strategy[l] => service'[s] = service[s] /\ desired'[s] = desired[s],
         doubts'[s] = {} => doubts[s] = {} \/ Follows(s)',
         s = strategy[l] /\ l = "streams" /\ doubts'[s] = {} =>
           /\ doubts[s] = {}
           /\ IF action[l] = "ENSURE_RUNNING"
              THEN service'[s] = "ACTIVE" /\ desired'[s] = 1 ELSE desired'[s] = 0,
         s = strategy[l] /\ l = "oneshot" /\ doubts'[s] = {} =>
           Follows(s)' \/ UNCHANGED <<service, desired>>
  PROVE  LastCallFits(s)' /\ FollowsOrWill(s)'
<1>1. UNCHANGED <<stream, row>> /\ index \in Nat
  BY LenProperties DEF rowVars, WorkInv, TypeOK
<1>2. s # strategy[l] => (Follows(s) => Follows(s)')
  BY <1>1 DEF Follows
<1>3. UNCHANGED <<service, desired>> => (Follows(s) => Follows(s)')
  BY <1>1 DEF Follows
<1>4. CASE l = "oneshot"
  <2>1. index' = index
    BY <1>4 DEF Done
  <2> QED BY <1>1, <1>2, <1>3, <1>4, <2>1, CalmFollows
<1>5. CASE l = "streams"
  <2>1. /\ index' = index + 1 /\ index < size
        /\ strategy[l] = stream[index + 1].strategy
        /\ action[l] = Classify(stream[index + 1]) /\ action[l] # "NOOP"
    BY <1>5 DEF Done, WorkInv, StreamsAtWork, CallFits
  <2>2. Calls(index + 1, s) <=> s = strategy[l]
    BY <2>1 DEF Calls
  <2>3. CASE doubts'[s] = {} => doubts[s] = {}
    BY <1>1, <1>2, <1>5, <2>1, <2>2, <2>3, PassFollows
  <2>4. CASE Follows(s)' /\ s # strategy[l]
    <3>1. LastCallFits(s)'
      BY <1>1 DEF LastCallFits, CallsLast, Calls
    <3> QED BY <2>4, <3>1 DEF FollowsOrWill
  <2> QED BY <1>5, <2>3, <2>4
<1> QED BY <1>4, <1>5 DEF Lambdas

\* reconcile, in either Lambda.
LEMMA ReconcileFollows ==
  ASSUME WorkInv, NEW s \in Strategies, LastCallFits(s), FollowsOrWill(s),
         NEW l \in Lambdas, Reconcile(l) \/ EcsFails(l)
  PROVE  LastCallFits(s)' /\ FollowsOrWill(s)'
<1>0. /\ at[l] # "idle" /\ UNCHANGED rowVars /\ CallFits(l)
      /\ strategy[l] \in Strategies /\ action[l] \in Actions
      /\ TypeOK /\ DesiredIsActive
      /\ l = "oneshot" => action[l] = "ENSURE_RUNNING"
  BY DEF Reconcile, Describe, CreateService, ScaleUp, ScaleDown, DeleteService, EcsFails,
         WorkInv, TypeOK, CallFits, OneShotStarts
<1>1. /\ service[s] \in {"MISSING", "ACTIVE", "DRAINING"} /\ desired[s] \in 0 .. 1
      /\ desired[s] = 1 => service[s] = "ACTIVE"
      /\ UNCHANGED <<stream, row>> /\ index \in Nat
  BY <1>0, LenProperties DEF TypeOK, DesiredIsActive, rowVars
<1>2. CASE Describe(l)
  <2>1. UNCHANGED <<service, desired, doubts>>
    BY <1>2 DEF Describe, ecsVars
  <2>2. ASSUME NEW c, Call(l, c) PROVE LastCallFits(s)' /\ FollowsOrWill(s)'
    <3>1. index' = index /\ (Follows(s) => Follows(s)')
      BY <1>1, <2>1, <2>2 DEF Call, batchVars, Follows
    <3> QED BY <1>1, <2>1, <3>1, CalmFollows
  <2>3. CASE Done(l) /\ \A c : ~Call(l, c)
    <3>1. IF action[l] = "ENSURE_RUNNING" THEN Exists(strategy[l]) /\ ~IsDown(strategy[l])
          ELSE action[l] = "NOOP" \/ ~Exists(strategy[l])
      BY <1>0, <1>2, <2>3 DEF Describe, Actions
    <3>2. action[l] # "NOOP"
      BY <1>0 DEF CallFits
    <3>3. s = strategy[l] =>
            IF action[l] = "ENSURE_RUNNING" THEN service[s] = "ACTIVE" /\ desired[s] = 1
            ELSE desired[s] = 0
      BY <1>1, <3>1, <3>2 DEF Exists, IsDown
    <3> QED BY <1>0, <2>1, <2>3, <3>3, DoneFollows
  <2> QED BY <1>2, <2>2, <2>3 DEF Describe
<1>3. CASE Raise(l)
  <2>1. /\ Done(l) /\ UNCHANGED <<service, desired>>
        /\ doubts' = [doubts EXCEPT ![strategy[l]] = @ \cup {"error"}]
    BY <1>3 DEF Raise, Doubt, ecsVars
  <2>2. (doubts'[s] = {} => doubts[s] = {}) /\ (s = strategy[l] => doubts'[s] # {})
    BY <1>0, <2>1 DEF TypeOK
  <2> QED BY <1>0, <2>1, <2>2, DoneFollows
<1>4. CASE (CreateService(l) \/ ScaleUp(l)) /\ ~Raise(l)
  <2>1. /\ Done(l) /\ Started(l)
        /\ service' = [service EXCEPT ![strategy[l]] = "ACTIVE"]
        /\ desired' = [desired EXCEPT ![strategy[l]] = 1]
    BY <1>0, <1>4 DEF CreateService, ScaleUp, TypeOK
  <2>2. action[l] = "ENSURE_RUNNING"
    BY <1>0, <1>4 DEF CreateService, ScaleUp, CallFits
  <2>3. s # strategy[l] => service'[s] = service[s] /\ desired'[s] = desired[s] /\ doubts'[s] = doubts[s]
    BY <1>0, <2>1 DEF Started, TypeOK
  <2>4. s = strategy[l] => service'[s] = "ACTIVE" /\ desired'[s] = 1
    BY <1>0, <2>1 DEF TypeOK
  <2>5. l = "streams" => doubts' = doubts
    BY <2>1 DEF Started
  <2>6. s = strategy[l] /\ l = "oneshot" /\ doubts'[s] = {} => Follows(s)'
    <3>1. s = strategy[l] /\ l = "oneshot" /\ doubts'[s] = {} => row[s] = "active"
      BY <1>0, <2>1 DEF Started, Stale, TypeOK
    <3> QED BY <1>1, <2>4, <3>1 DEF Follows
  <2>7. doubts'[s] = {} => doubts[s] = {} \/ Follows(s)'
    BY <2>3, <2>5, <2>6 DEF Lambdas
  <2> QED BY <1>0, <2>1, <2>2, <2>3, <2>4, <2>5, <2>6, <2>7, DoneFollows
<1>5. CASE (ScaleDown(l) \/ DeleteService(l)) /\ ~Raise(l)
  <2>1. /\ doubts' = doubts /\ desired' = [desired EXCEPT ![strategy[l]] = 0]
        /\ \A r \in Strategies \ {strategy[l]} : service'[r] = service[r]
        /\ (action[l] = "STOP" /\ Call(l, "delete")) \/ Done(l)
    BY <1>0, <1>5 DEF ScaleDown, DeleteService, TypeOK
  <2>2. action[l] \in {"PAUSE", "STOP"} /\ l = "streams"
    BY <1>0, <1>5 DEF ScaleDown, DeleteService, CallFits, Lambdas
  <2>3. s # strategy[l] => service'[s] = service[s] /\ desired'[s] = desired[s]
    BY <1>0, <2>1 DEF TypeOK
  <2>4. s = strategy[l] => desired'[s] = 0
    BY <1>0, <2>1 DEF TypeOK
  <2>5. CASE Done(l)
    BY <1>0, <2>1, <2>2, <2>3, <2>4, <2>5, DoneFollows
  <2>6. CASE Call(l, "delete")
    <3>1. index' = index
      BY <2>6 DEF Call, batchVars
    <3>2. s # strategy[l] => (Follows(s) => Follows(s)')
      BY <1>1, <2>3 DEF Follows
    <3>3. s = strategy[l] => Ahead(s)
      <4>1. /\ index < size /\ stream[index + 1].strategy = strategy[l]
            /\ Classify(stream[index + 1]) # "NOOP"
        BY <1>0, <2>2 DEF WorkInv, StreamsAtWork
      <4>2. index + 1 \in 1 .. Len(stream) /\ index + 1 > index
        BY <1>0, <4>1, LenProperties DEF TypeOK
      <4> QED BY <4>1, <4>2 DEF Ahead, Calls
    <3> QED BY <1>1, <2>1, <3>1, <3>2, <3>3, CalmFollows
  <2> QED BY <2>1, <2>5, <2>6
<1> QED BY <1>2, <1>3, <1>4, <1>5 DEF Reconcile, EcsFails

\* The lists of the one-shot reconciler, and the steps of ECS.
LEMMA RestFollows ==
  ASSUME WorkInv, NEW s \in Strategies, LastCallFits(s), FollowsOrWill(s),
         ListAll \/ NextDecision \/ \E r \in Strategies : Ecs(r)
  PROVE  LastCallFits(s)' /\ FollowsOrWill(s)'
<1>1. /\ UNCHANGED <<stream, row, index, doubts>> /\ index \in Nat
      /\ desired' = desired /\ (service[s] = "ACTIVE" => service'[s] = "ACTIVE")
  BY LenProperties
     DEF ListAll, NextDecision, Begin, Ecs, StartTask, StopTask, Drained, rowVars, batchVars,
         ecsVars, WorkInv, TypeOK
<1>2. Follows(s) => Follows(s)'
  BY <1>1 DEF Follows
<1> QED BY <1>1, <1>2, CalmFollows

LEMMA SupStarts == Init => SupInv
BY WorkStarts, FollowsAtFirst DEF SupInv

LEMMA SupKeeps == SupInv /\ [Next]_vars => SupInv'
<1> SUFFICES ASSUME SupInv, [Next]_vars, NEW s \in Strategies
             PROVE  LastCallFits(s)' /\ FollowsOrWill(s)'
  BY WorkKeeps DEF SupInv
<1>1. WorkInv /\ LastCallFits(s) /\ FollowsOrWill(s)
  BY DEF SupInv
<1>2. CASE Next
  BY <1>1, <1>2, RowFollows, BatchFollows, ReconcileFollows, RestFollows
     DEF Next, Streams, OneShot, Lambdas
<1>3. CASE UNCHANGED vars
  <2>1. UNCHANGED <<stream, row, index, doubts, service, desired>> /\ index \in Nat
    BY <1>1, <1>3, LenProperties
       DEF vars, rowVars, batchVars, ecsVars, WorkInv, TypeOK
  <2>2. Follows(s) => Follows(s)'
    BY <2>1 DEF Follows
  <2> QED BY <1>1, <2>1, <2>2, CalmFollows
<1> QED BY <1>2, <1>3

\* A quiet strategy has no record ahead.
LEMMA QuietFollows == SupInv => ServiceFollowsRow
BY DEF SupInv, FollowsOrWill, Ahead, Calls, ServiceFollowsRow, Quiet

\* Once the changes of a row are dealt with its service is what the row asks,
\* however often the stream delivers them, Lambdas die, calls interleave with
\* the one-shot reconciler's, and whatever the batches, but for the doubts the
\* model names (classify_record, reconcile, _run).
THEOREM ServicesFollow == Spec => []ServiceFollowsRow
BY SupStarts, SupKeeps, QuietFollows, PTL DEF Spec
===============================================================================
