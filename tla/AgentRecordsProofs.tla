-------------------------- MODULE AgentRecordsProofs --------------------------
(***************************************************************************)
(* The limits of the research tools and what becomes of the memory files,    *)
(* for any quotas, ages, days, processes, windows and overlapping calls.     *)
(***************************************************************************)
EXTENDS ToolCalls, AgentMemory, FiniteSetTheorems, TLAPS

-----------------------------------------------------------------------------
(* ToolCalls.  That a day's external calls stay within the quota is not      *)
(* inductive by itself: a call that has reserved its unit and not yet called *)
(* the service will, on the account of the day it reserved on, although      *)
(* midnight may have passed.  So the calls made and those under way are      *)
(* counted together.                                                        *)


\* The calls that have a unit of the strategy's day and have not used it yet.
Fetching(k) ==
  {c \in Callers : call[c].pc = "fetch" /\ StrategyOf[c] = k[1] /\ call[c].day = k[2]}

Spent(k) ==
  /\ made[k] + Cardinality(Fetching(k)) <= consumed[k]
  /\ made[k] + Cardinality(Fetching(k)) <= Quota

\* An answer on its way to the cache is not older than the time that may take,
\* nor is one in the cache older than that when it was put there.
Recent ==
  /\ \A c \in Callers : call[c].pc = "put" => time <= call[c].asOf + PutTime
  /\ cache.there => cache.cachedAt <= cache.asOf + PutTime

ToolsInv ==
  /\ ToolsTypeOK
  /\ \A k \in Counters : Spent(k)
  /\ Recent

LEMMA FetchingFinite ==
  ASSUME NEW k
  PROVE  IsFiniteSet(Fetching(k)) /\ Cardinality(Fetching(k)) \in Nat
<1>1. Fetching(k) \in SUBSET Callers
  BY DEF Fetching
<1> QED BY <1>1, FS_Subset, FS_CardinalityType, ToolsAssumption DEF ToolsAssumption

\* A day's row of a call's strategy is a counter.
LEMMA RowIsCounter ==
  ASSUME ToolsTypeOK, NEW c \in Callers
  PROVE  QuotaDay \in QuotaDays /\ Row(c) \in Counters
BY DEF ToolsTypeOK, QuotaDay, QuotaDays, Row, Counters, ToolUsers

LEMMA ToolsStart == ToolsInit => ToolsInv
<1> SUFFICES ASSUME ToolsInit PROVE ToolsInv
  OBVIOUS
<1>1. ToolsTypeOK
  <2>1. 0 \in QuotaDays
    BY ToolsAssumption DEF ToolsAssumption, QuotaDays
  <2> QED BY <2>1, ToolsAssumption
         DEF ToolsInit, ToolsTypeOK, ToolsAssumption, NoCall, NoAnswer
<1>2. ASSUME NEW k \in Counters PROVE Spent(k)
  <2>1. Fetching(k) = {}
    BY DEF ToolsInit, Fetching, NoCall
  <2>2. Cardinality(Fetching(k)) = 0
    BY <2>1, FS_EmptySet
  <2> QED BY <2>2, ToolsAssumption DEF ToolsInit, Spent, ToolsAssumption
<1>3. Recent
  BY DEF ToolsInit, Recent, NoCall, NoAnswer
<1> QED BY <1>1, <1>2, <1>3 DEF ToolsInv

\* Units neither given back nor made up: with nothing more under way than before
\* and no call made, the account of a day stays in order.
LEMMA FewerUnderWay ==
  ASSUME ToolsTypeOK, NEW k \in Counters, Spent(k), Fetching(k)' \subseteq Fetching(k),
         made'[k] = made[k], consumed'[k] \in Nat, consumed'[k] >= consumed[k]
  PROVE  Spent(k)'
<1>1. Cardinality(Fetching(k)') <= Cardinality(Fetching(k)) /\ IsFiniteSet(Fetching(k)')
  BY FetchingFinite, FS_Subset
<1>2. Cardinality(Fetching(k)) \in Nat /\ Cardinality(Fetching(k)') \in Nat
  BY <1>1, FetchingFinite, FS_CardinalityType
<1>3. made[k] \in Nat /\ consumed[k] \in Nat /\ Quota \in Nat
  BY ToolsAssumption DEF ToolsTypeOK, ToolsAssumption
<1> QED BY <1>1, <1>2, <1>3 DEF Spent

\* A call that gets a unit is the one more that is under way.
LEMMA ReserveKeeps ==
  ASSUME ToolsInv, NEW c \in Callers, Reserve(c)
  PROVE  ToolsInv'
<1> USE DEF ToolsInv
<1>1. Row(c) \in Counters /\ QuotaDay \in QuotaDays /\ call[c].pc = "reserve"
  BY RowIsCounter DEF Reserve
<1>2. CASE EndCall(c) /\ UNCHANGED consumed
  <2> USE <1>2 DEF Reserve, EndCall, NoCall
  <2>1. ToolsTypeOK'
    <3>1. 0 \in QuotaDays
      BY ToolsAssumption DEF ToolsAssumption, QuotaDays
    <3> QED BY <3>1 DEF ToolsTypeOK
  <2>2. ASSUME NEW k \in Counters PROVE Spent(k)'
    <3>1. Fetching(k)' \subseteq Fetching(k)
      BY DEF Fetching, ToolsTypeOK
    <3> QED BY <3>1, FewerUnderWay DEF ToolsTypeOK
  <2>3. Recent'
    BY DEF Recent, ToolsTypeOK
  <2> QED BY <2>1, <2>2, <2>3
<1>3. CASE ~(EndCall(c) /\ UNCHANGED consumed)
  <2> DEFINE n == consumed[Row(c)] + 1
  <2>1. /\ consumed' = [consumed EXCEPT ![Row(c)] = n]
        /\ n \in Nat
        /\ \/ n <= Quota /\ call' = [call EXCEPT ![c].pc = "fetch", ![c].day = QuotaDay]
           \/ ~(n <= Quota) /\ EndCall(c)
        /\ UNCHANGED <<time, hits, cache, made>>
    BY <1>1, <1>3 DEF Reserve, WithinQuota, ToolsTypeOK
  <2> HIDE DEF n
  <2>2. CASE EndCall(c)
    <3> USE <2>1, <2>2 DEF EndCall, NoCall
    <3>1. ToolsTypeOK'
      <4>1. 0 \in QuotaDays
        BY ToolsAssumption DEF ToolsAssumption, QuotaDays
      <4> QED BY <4>1, <1>1 DEF ToolsTypeOK
    <3>2. ASSUME NEW k \in Counters PROVE Spent(k)'
      <4>1. Fetching(k)' \subseteq Fetching(k)
        BY DEF Fetching, ToolsTypeOK
      <4>2. consumed'[k] \in Nat /\ consumed'[k] >= consumed[k]
        BY <1>1 DEF ToolsTypeOK, n
      <4> QED BY <4>1, <4>2, FewerUnderWay
    <3>3. Recent'
      BY DEF Recent, ToolsTypeOK
    <3> QED BY <3>1, <3>2, <3>3
  <2>3. CASE n <= Quota /\ call' = [call EXCEPT ![c].pc = "fetch", ![c].day = QuotaDay]
    <3>1. ToolsTypeOK'
      BY <1>1, <2>1, <2>3 DEF ToolsTypeOK
    <3>2. ASSUME NEW k \in Counters PROVE Spent(k)'
      <4>1. CASE k = Row(c)
        <5>1. Fetching(k)' = Fetching(k) \cup {c}
          BY <1>1, <2>3, <4>1 DEF Fetching, Row, ToolsTypeOK
        <5>2. c \notin Fetching(k)
          BY <1>1 DEF Fetching
        <5>3. Cardinality(Fetching(k)') = Cardinality(Fetching(k)) + 1
          BY <5>1, <5>2, FetchingFinite, FS_AddElement
        <5>4. consumed'[k] = consumed[k] + 1 /\ made'[k] = made[k]
          BY <1>1, <2>1, <4>1 DEF n, ToolsTypeOK
        <5>5. consumed[k] + 1 <= Quota
          BY <2>3, <4>1 DEF n
        <5>6. Cardinality(Fetching(k)) \in Nat /\ made[k] \in Nat /\ consumed[k] \in Nat
                /\ Quota \in Nat
          BY FetchingFinite, ToolsAssumption DEF ToolsTypeOK, ToolsAssumption
        <5>7. Spent(k)
          OBVIOUS
        <5> QED BY <5>3, <5>4, <5>5, <5>6, <5>7 DEF Spent
      <4>2. CASE k # Row(c)
        <5>1. Fetching(k)' \subseteq Fetching(k)
          BY <1>1, <2>3, <4>2 DEF Fetching, Row, ToolsTypeOK, Counters
        <5>2. consumed'[k] = consumed[k] /\ consumed[k] \in Nat
          BY <1>1, <2>1, <4>2 DEF ToolsTypeOK
        <5> QED BY <2>1, <5>1, <5>2, FewerUnderWay
      <4> QED BY <4>1, <4>2
    <3>3. Recent'
      BY <2>1, <2>3 DEF Recent, ToolsTypeOK
    <3> QED BY <3>1, <3>2, <3>3
  <2> QED BY <2>1, <2>2, <2>3
<1> QED BY <1>2, <1>3

\* A call made is one less under way, on the account of the day it reserved on.
LEMMA FetchKeeps ==
  ASSUME ToolsInv, NEW c \in Callers, Fetch(c)
  PROVE  ToolsInv'
<1> USE DEF ToolsInv
<1> DEFINE day == <<StrategyOf[c], call[c].day>>
<1>1. day \in Counters /\ c \in Fetching(day)
  BY DEF Fetch, Fetching, Counters, ToolUsers, ToolsTypeOK
<1>2. made' = [made EXCEPT ![day] = @ + 1] /\ UNCHANGED <<time, consumed, hits, cache>>
  BY DEF Fetch
<1>3. \/ call' = [call EXCEPT ![c].pc = "put", ![c].asOf = time]
      \/ call' = [call EXCEPT ![c] = NoCall]
  BY DEF Fetch, EndCall
<1>4. 0 \in QuotaDays
  BY ToolsAssumption DEF ToolsAssumption, QuotaDays
<1>5. /\ call' \in [Callers -> [pc : {"idle", "reserve", "fetch", "put", "hit"},
                               day : QuotaDays, asOf : Nat]]
      /\ call'[c].pc # "fetch"
      /\ call'[c].pc = "put" => time <= call'[c].asOf + PutTime
      /\ \A q \in Callers \ {c} : call'[q] = call[q]
  <2>1. CASE call' = [call EXCEPT ![c].pc = "put", ![c].asOf = time]
    <3>1. time \in Nat
      BY DEF ToolsTypeOK
    <3>2. call' \in [Callers -> [pc : {"idle", "reserve", "fetch", "put", "hit"},
                                day : QuotaDays, asOf : Nat]]
      BY <2>1, <3>1 DEF ToolsTypeOK
    <3>3. call'[c].pc = "put" /\ call'[c].asOf = time
      BY <2>1 DEF ToolsTypeOK
    <3>4. \A q \in Callers \ {c} : call'[q] = call[q]
      BY <2>1 DEF ToolsTypeOK
    <3>5. time <= time + PutTime
      BY <3>1, ToolsAssumption DEF ToolsAssumption
    <3> QED BY <3>2, <3>3, <3>4, <3>5
  <2>2. CASE call' = [call EXCEPT ![c] = NoCall]
    BY <1>4, <2>2 DEF ToolsTypeOK, NoCall
  <2> QED BY <1>3, <2>1, <2>2
<1> HIDE DEF day
<1>6. ToolsTypeOK'
  BY <1>1, <1>2, <1>5 DEF ToolsTypeOK
<1>7. ASSUME NEW k \in Counters PROVE Spent(k)'
  <2>1. CASE k = day
    <3>1. Fetching(k)' = Fetching(k) \ {c}
      BY <1>5 DEF Fetching
    <3>2. Cardinality(Fetching(k)') = Cardinality(Fetching(k)) - 1
      BY <1>1, <2>1, <3>1, FetchingFinite, FS_RemoveElement
    <3>3. made'[k] = made[k] + 1 /\ consumed'[k] = consumed[k]
      BY <1>1, <1>2, <2>1 DEF ToolsTypeOK
    <3>4. Cardinality(Fetching(k)) \in Nat /\ made[k] \in Nat
      BY FetchingFinite DEF ToolsTypeOK
    <3>5. Spent(k)
      OBVIOUS
    <3> QED BY <3>2, <3>3, <3>4, <3>5 DEF Spent
  <2>2. CASE k # day
    <3>1. Fetching(k)' \subseteq Fetching(k)
      BY <1>5 DEF Fetching
    <3>2. made'[k] = made[k]
      BY <1>1, <1>2, <2>2 DEF ToolsTypeOK
    <3>3. consumed'[k] = consumed[k] /\ consumed[k] \in Nat
      BY <1>2 DEF ToolsTypeOK
    <3> QED BY <3>1, <3>2, <3>3, FewerUnderWay
  <2> QED BY <2>1, <2>2
<1>8. Recent'
  BY <1>2, <1>5 DEF Recent
<1> QED BY <1>6, <1>7, <1>8

\* The other steps of a call neither use a unit nor reserve one; the answer that
\* is put is not older than it may be.
LEMMA OtherCallsKeep ==
  ASSUME ToolsInv, NEW c \in Callers,
         Miss(c) \/ Put(c) \/ AskFilings(c) \/ CountHit(c) \/ CutOff(c)
  PROVE  ToolsInv'
<1> USE DEF ToolsInv
<1>1. made' = made /\ consumed' = consumed /\ time' = time
  BY DEF Miss, Put, AskFilings, CountHit, CutOff
<1>2. 0 \in QuotaDays
  BY ToolsAssumption DEF ToolsAssumption, QuotaDays
<1>3. /\ call' \in [Callers -> [pc : {"idle", "reserve", "fetch", "put", "hit"},
                               day : QuotaDays, asOf : Nat]]
      /\ call'[c].pc \notin {"fetch", "put"}
      /\ \A q \in Callers \ {c} : call'[q] = call[q]
  <2>1. CASE Miss(c)
    BY <2>1 DEF Miss, ToolsTypeOK
  <2>2. CASE AskFilings(c)
    BY <2>2 DEF AskFilings, ToolsTypeOK
  <2>3. CASE Put(c) \/ CountHit(c) \/ CutOff(c)
    <3>1. call' = [call EXCEPT ![c] = NoCall]
      BY <2>3 DEF Put, CountHit, CutOff, EndCall
    <3> QED BY <1>2, <3>1 DEF NoCall, ToolsTypeOK
  <2> QED BY <2>1, <2>2, <2>3
<1>4. ToolsTypeOK'
  <2>1. Row(c) \in Counters
    BY RowIsCounter
  <2>2. hits' \in [Counters -> Nat]
    BY <2>1 DEF Miss, Put, AskFilings, CountHit, CutOff, ToolsTypeOK
  <2>3. cache' \in [cachedAt : Nat, asOf : Nat, there : BOOLEAN]
    <3>1. CASE Put(c)
      <4>1. time \in Nat /\ call[c].asOf \in Nat
        BY DEF ToolsTypeOK
      <4> QED BY <3>1, <4>1 DEF Put
    <3>2. CASE ~Put(c)
      BY <3>2 DEF Miss, AskFilings, CountHit, CutOff, ToolsTypeOK
    <3> QED BY <3>1, <3>2
  <2> QED BY <1>1, <1>3, <2>2, <2>3 DEF ToolsTypeOK
<1>5. ASSUME NEW k \in Counters PROVE Spent(k)'
  <2>1. Fetching(k)' \subseteq Fetching(k)
    BY <1>3 DEF Fetching
  <2> QED BY <1>1, <2>1, FewerUnderWay DEF ToolsTypeOK
<1>6. Recent'
  <2>1. cache'.there => cache'.cachedAt <= cache'.asOf + PutTime
    <3>1. CASE Put(c)
      BY <3>1 DEF Put, Recent
    <3>2. CASE ~Put(c)
      BY <3>2 DEF Miss, AskFilings, CountHit, CutOff, Recent
    <3> QED BY <3>1, <3>2
  <2> QED BY <1>1, <1>3, <2>1 DEF Recent
<1> QED BY <1>4, <1>5, <1>6

\* Time waits for answers that are about to be put.
LEMMA TimeKeeps ==
  ASSUME ToolsInv, TimePasses
  PROVE  ToolsInv'
<1> USE DEF ToolsInv, TimePasses
<1>1. ToolsTypeOK'
  BY ToolsAssumption DEF ToolsTypeOK, ToolsAssumption
<1>2. ASSUME NEW k \in Counters PROVE Spent(k)'
  <2>1. Fetching(k)' = Fetching(k)
    BY DEF Fetching
  <2> QED BY <2>1 DEF Spent
<1>3. Recent'
  BY ToolsAssumption DEF Recent, ToolsTypeOK, ToolsAssumption
<1> QED BY <1>1, <1>2, <1>3

LEMMA ToolsInvariant == ToolsSpec => []ToolsInv
<1>1. ToolsInv /\ [ToolsNext]_toolVars => ToolsInv'
  <2>1. CASE ToolsNext
    BY <2>1, ReserveKeeps, FetchKeeps, OtherCallsKeep, TimeKeeps DEF ToolsNext
  <2>2. CASE UNCHANGED toolVars
    BY <2>2 DEF toolVars, ToolsInv, ToolsTypeOK, Spent, Fetching, Recent
  <2> QED BY <2>1, <2>2
<1> QED BY ToolsStart, <1>1, PTL DEF ToolsSpec

\* However many calls of a strategy overlap, fail, are cut off or straddle
\* midnight, the calls made on a day's account are within the quota the registry
\* binds the tool with, and are all counted (ToolQuotaStore.reserve).
THEOREM QuotaHolds == ToolsSpec => []RegistryCapHolds
<1>1. ToolsInv => RegistryCapHolds
  <2> SUFFICES ASSUME ToolsInv, NEW k \in Counters
               PROVE  made[k] <= Quota /\ made[k] <= consumed[k]
    BY DEF RegistryCapHolds
  <2> QED BY FetchingFinite, ToolsAssumption
          DEF ToolsInv, ToolsTypeOK, Spent, ToolsAssumption
<1> QED BY <1>1, ToolsInvariant, PTL

\* Counters, cache and calls keep their types (ToolQuotaStore, the tools' caches).
THEOREM ToolTypes == ToolsSpec => []ToolsTypeOK
<1>1. ToolsInv => ToolsTypeOK
  BY DEF ToolsInv
<1> QED BY <1>1, ToolsInvariant, PTL

\* An answer the cache serves left its service no longer ago than the cache's
\* limit and the time an answer takes to be put, whichever calls overtook each
\* other (NewsCache, SocialCache).
THEOREM CacheIsRecent == ToolsSpec => []ServedIsRecent
<1>1. ToolsInv => ServedIsRecent
  BY ToolsAssumption DEF ToolsInv, ToolsTypeOK, Recent, ServedIsRecent, Fresh, ToolsAssumption
<1> QED BY <1>1, ToolsInvariant, PTL
-----------------------------------------------------------------------------
(* The brake of the filings tools: the calls that have read the count and    *)
(* not yet added to it come on top, today and, past midnight, tomorrow.      *)

Of(s) == {c \in Callers : StrategyOf[c] = s}
Hitting(s) == {c \in Callers : call[c].pc = "hit" /\ StrategyOf[c] = s}

BrakeHolds(k) ==
  /\ k[2] > QuotaDay => hits[k] = 0
  /\ k[2] >= QuotaDay => hits[k] + Cardinality(Hitting(k[1])) <= Quota + Cardinality(Of(k[1])) - 1
  /\ hits[k] <= Quota + Cardinality(Of(k[1])) - 1

BrakeInv == \A k \in Counters : BrakeHolds(k)

LEMMA DaysGoOn ==
  ASSUME NEW t \in Nat
  PROVE  t \div DayLength \in Nat /\ t \div DayLength <= (t + 1) \div DayLength
<1>1. t \div DayLength \in Nat
  BY ToolsAssumption DEF ToolsAssumption
<1>2. t \div DayLength <= (t + 1) \div DayLength
  BY ToolsAssumption DEF ToolsAssumption
<1> QED BY <1>1, <1>2

\* The sizes the brake compares, and that a strategy has a caller.
LEMMA BrakeSizes ==
  ASSUME NEW k \in Counters
  PROVE  /\ IsFiniteSet(Hitting(k[1])) /\ Cardinality(Hitting(k[1])) \in Nat
         /\ Cardinality(Of(k[1])) \in Nat \ {0}
         /\ Cardinality(Hitting(k[1])) <= Cardinality(Of(k[1]))
         /\ k[2] \in Nat
         /\ Quota \in Nat
<1>1. Of(k[1]) \in SUBSET Callers /\ Hitting(k[1]) \in SUBSET Of(k[1])
  BY DEF Of, Hitting
<1>2. IsFiniteSet(Of(k[1])) /\ IsFiniteSet(Hitting(k[1]))
  BY <1>1, FS_Subset, ToolsAssumption DEF ToolsAssumption
<1>3. Cardinality(Hitting(k[1])) <= Cardinality(Of(k[1]))
  BY <1>1, <1>2, FS_Subset
<1>4. Of(k[1]) # {}
  BY DEF Of, Counters, ToolUsers
<1>5. Cardinality(Of(k[1])) # 0
  BY <1>2, <1>4, FS_EmptySet
<1>6. k[2] \in Nat
  <2>1. PICK t \in 0..LastTime : k[2] = t \div DayLength
    BY DEF Counters, QuotaDays
  <2> QED BY <2>1, DaysGoOn
<1> QED BY <1>2, <1>3, <1>5, <1>6, FS_CardinalityType, ToolsAssumption DEF ToolsAssumption

\* Fewer calls under way, the same counts and no earlier day keep the brake.
LEMMA FewerHitting ==
  ASSUME ToolsInv, NEW k \in Counters, BrakeHolds(k),
         Hitting(k[1])' \subseteq Hitting(k[1]), hits'[k] = hits[k],
         QuotaDay \in Nat, QuotaDay' \in Nat, QuotaDay <= QuotaDay'
  PROVE  BrakeHolds(k)'
<1>1. Cardinality(Hitting(k[1])') <= Cardinality(Hitting(k[1])) /\ IsFiniteSet(Hitting(k[1])')
  BY BrakeSizes, FS_Subset
<1>2. Cardinality(Hitting(k[1])') \in Nat /\ Of(k[1])' = Of(k[1])
  BY <1>1, FS_CardinalityType DEF Of
<1>3. hits[k] \in Nat
  BY DEF ToolsInv, ToolsTypeOK
<1> QED BY <1>1, <1>2, <1>3, BrakeSizes DEF BrakeHolds

\* A call that reads the count below the quota.
LEMMA AskKeeps ==
  ASSUME ToolsInv, BrakeInv, NEW c \in Callers, AskFilings(c)
  PROVE  BrakeInv'
<1> SUFFICES ASSUME NEW k \in Counters PROVE BrakeHolds(k)'
  BY DEF BrakeInv
<1>1. /\ UNCHANGED <<time, hits>> /\ Quota # 0 /\ ~(hits[Row(c)] >= Quota)
      /\ \A q \in Callers \ {c} : call'[q] = call[q]
  BY DEF AskFilings, Braked, ToolsInv, ToolsTypeOK
<1>2. QuotaDay \in Nat /\ QuotaDay' = QuotaDay
  BY <1>1, DaysGoOn DEF QuotaDay, ToolsInv, ToolsTypeOK
<1>3. CASE k[1] # StrategyOf[c]
  <2>1. Hitting(k[1])' \subseteq Hitting(k[1])
    BY <1>1, <1>3 DEF Hitting
  <2> QED BY <1>1, <1>2, <2>1, FewerHitting DEF BrakeInv
<1>4. CASE k[1] = StrategyOf[c]
  <2>1. Hitting(k[1])' \in SUBSET Of(k[1]) /\ IsFiniteSet(Of(k[1])) /\ Of(k[1])' = Of(k[1])
    BY FS_Subset, ToolsAssumption DEF Hitting, Of, ToolsAssumption
  <2>2. Cardinality(Hitting(k[1])') <= Cardinality(Of(k[1])) /\ Cardinality(Hitting(k[1])') \in Nat
    BY <2>1, FS_Subset, FS_CardinalityType
  <2>3. k[2] = QuotaDay => hits[k] < Quota
    <3> SUFFICES ASSUME k[2] = QuotaDay PROVE hits[k] < Quota
      OBVIOUS
    <3>1. k = Row(c)
      BY <1>4 DEF Row, Counters
    <3> QED BY <1>1, <3>1, BrakeSizes DEF ToolsInv, ToolsTypeOK
  <2>4. BrakeHolds(k) /\ hits[k] \in Nat
    BY DEF BrakeInv, ToolsInv, ToolsTypeOK
  <2> QED BY <1>1, <1>2, <2>1, <2>2, <2>3, <2>4, BrakeSizes DEF BrakeHolds
<1> QED BY <1>3, <1>4

\* A call that adds to it: one less under way, one more counted on today's row.
LEMMA CountKeeps ==
  ASSUME ToolsInv, BrakeInv, NEW c \in Callers, CountHit(c)
  PROVE  BrakeInv'
<1> SUFFICES ASSUME NEW k \in Counters PROVE BrakeHolds(k)'
  BY DEF BrakeInv
<1>1. /\ time' = time /\ hits' = [hits EXCEPT ![Row(c)] = @ + 1]
      /\ call[c].pc = "hit" /\ call'[c].pc # "hit"
      /\ \A q \in Callers \ {c} : call'[q] = call[q]
  BY DEF CountHit, EndCall, NoCall, ToolsInv, ToolsTypeOK
<1>2. QuotaDay \in Nat /\ QuotaDay' = QuotaDay /\ Row(c) \in Counters
  BY <1>1, DaysGoOn, RowIsCounter DEF QuotaDay, ToolsInv, ToolsTypeOK
<1>3. Hitting(k[1])' \subseteq Hitting(k[1])
  BY <1>1 DEF Hitting
<1>4. CASE k # Row(c)
  <2>1. hits'[k] = hits[k]
    BY <1>1, <1>2, <1>4 DEF ToolsInv, ToolsTypeOK
  <2> QED BY <1>2, <1>3, <2>1, FewerHitting DEF BrakeInv
<1>5. CASE k = Row(c)
  <2>1. k[1] = StrategyOf[c] /\ k[2] = QuotaDay
    BY <1>5 DEF Row
  <2>2. Hitting(k[1])' = Hitting(k[1]) \ {c} /\ c \in Hitting(k[1])
    BY <1>1, <2>1 DEF Hitting
  <2>3. Cardinality(Hitting(k[1])') = Cardinality(Hitting(k[1])) - 1
    <3>1. IsFiniteSet(Hitting(k[1]))
      BY BrakeSizes
    <3>2. Cardinality(Hitting(k[1]) \ {c}) = Cardinality(Hitting(k[1])) - 1
      BY <2>2, <3>1, FS_RemoveElement
    <3> QED BY <2>2, <3>2
  <2>4. hits'[k] = hits[k] + 1 /\ hits[k] \in Nat /\ Of(k[1])' = Of(k[1])
    BY <1>1, <1>2, <1>5 DEF ToolsInv, ToolsTypeOK, Of
  <2>5. Cardinality(Hitting(k[1])') \in Nat
    BY <1>3, BrakeSizes, FS_Subset, FS_CardinalityType
  <2>6. BrakeHolds(k)
    BY DEF BrakeInv
  <2> QED BY <1>2, <2>1, <2>3, <2>4, <2>5, <2>6, BrakeSizes DEF BrakeHolds
<1> QED BY <1>4, <1>5

\* However many calls of a strategy read the filings brake before any of them
\* adds to it, also over midnight, a day's count exceeds the quota by the other
\* calls there may be at most (_rate_limit_or_raise, record_cache_hit).
THEOREM BrakeIsLate == ToolsSpec => []FilingsBrake
<1>1. ToolsInit => BrakeInv
  <2> SUFFICES ASSUME ToolsInit, NEW k \in Counters PROVE BrakeHolds(k)
    BY DEF BrakeInv
  <2>1. Hitting(k[1]) = {} /\ hits[k] = 0
    BY DEF ToolsInit, Hitting, NoCall
  <2>2. Cardinality(Hitting(k[1])) = 0
    BY <2>1, FS_EmptySet
  <2> QED BY <2>1, <2>2, BrakeSizes DEF BrakeHolds
<1>2. ToolsInv /\ BrakeInv /\ [ToolsNext]_toolVars => BrakeInv'
  <2> SUFFICES ASSUME ToolsInv, BrakeInv, [ToolsNext]_toolVars PROVE BrakeInv'
    OBVIOUS
  <2>1. QuotaDay \in Nat
    BY DaysGoOn DEF QuotaDay, ToolsInv, ToolsTypeOK
  <2>2. ASSUME NEW c \in Callers, Miss(c) \/ Reserve(c) \/ Fetch(c) \/ Put(c) \/ CutOff(c)
        PROVE  BrakeInv'
    <3>1. hits' = hits /\ time' = time
      BY <2>2 DEF Miss, Reserve, Fetch, Put, CutOff
    <3>2. call'[c].pc # "hit" /\ \A q \in Callers \ {c} : call'[q] = call[q]
      BY <2>2 DEF Miss, Reserve, Fetch, Put, CutOff, EndCall, NoCall, ToolsInv, ToolsTypeOK
    <3>3. \A k \in Counters : Hitting(k[1])' \subseteq Hitting(k[1])
      BY <3>2 DEF Hitting
    <3>4. QuotaDay' = QuotaDay
      BY <3>1 DEF QuotaDay
    <3> QED BY <2>1, <3>1, <3>3, <3>4, FewerHitting DEF BrakeInv
  <2>3. ASSUME TimePasses PROVE BrakeInv'
    <3>1. hits' = hits /\ call' = call /\ time' = time + 1 /\ time \in Nat
      BY <2>3 DEF TimePasses, ToolsInv, ToolsTypeOK
    <3>2. \A k \in Counters : Hitting(k[1])' = Hitting(k[1])
      BY <3>1 DEF Hitting
    <3>3. QuotaDay <= QuotaDay' /\ QuotaDay' \in Nat
      BY <3>1, DaysGoOn DEF QuotaDay
    <3> QED BY <2>1, <3>1, <3>2, <3>3, FewerHitting DEF BrakeInv
  <2>4. ASSUME UNCHANGED toolVars PROVE BrakeInv'
    BY <2>4 DEF toolVars, BrakeInv, BrakeHolds, Hitting, Of, QuotaDay
  <2> QED BY <2>2, <2>3, <2>4, AskKeeps, CountKeeps DEF ToolsNext
<1>3. BrakeInv => FilingsBrake
  BY DEF BrakeInv, BrakeHolds, FilingsBrake, Of
<1> QED BY <1>1, <1>2, <1>3, ToolsInvariant, PTL DEF ToolsSpec
-----------------------------------------------------------------------------
(* AgentMemory.  A day's file is only appended to while the day is young     *)
(* enough, so a summary, made late enough, covers all of it for good.  The   *)
(* invariant says so: what was summarised is what the file holds.            *)

\* The appends that are between their two halves.
Writing(p) == append[p].pc = "write"

AppendRecords ==
  [pc : {"idle", "open", "write"}, line : 0..MaxLines,
   day : Days, seen : SUBSET Lines, since : 0..MaxTime]

\* An append is of a line.
MemoryShapes ==
  /\ MemoryTypeOK
  /\ \A p \in Processes : append[p].pc # "idle" => append[p].line \in Lines

\* Every append under way began on the day it is for, not long ago.
AppendsAreTimely ==
  \A p \in Processes : Writing(p) =>
    /\ append[p].day = append[p].since \div PerDay
    /\ append[p].since <= clock /\ clock <= append[p].since + AppendTime

\* It knows all of its day's file, and no other append is under way for it.
AppendsKnow ==
  \A p \in Processes : Writing(p) =>
    \/ append[p].day \in racedDays
    \/ /\ raw[append[p].day] \subseteq append[p].seen
       /\ \A q \in Processes \ {p} : Writing(q) => append[q].day # append[p].day

\* A day is closed: it is over and nothing is being appended to it.
Closed(d) == d < Today /\ \A p \in Processes : Writing(p) => append[p].day # d

\* A summary, made or being made, is of all of a closed day: of what the day's
\* file holds it keeps one part and leaves out the rest.
SummariesAreWhole ==
  /\ \A d \in Days : compressed[d] # None => Closed(d) /\ compressed[d] \cup omitted[d] = raw[d]
  /\ \A d \in Days : compressed[d] = None => omitted[d] = {}
  /\ compaction.busy => Closed(compaction.day) /\ compaction.seen = raw[compaction.day]

FileIsWhole == \A d \in Days : d \in racedDays \/ lines[d] \subseteq raw[d]

\* The days a critique has still to load, and what it will know after them.
DaysLeft(r) ==
  {d \in Days : d <= run[r].next /\ d + (Window - run[r].read) > run[r].next}

CritiqueKnows(r) ==
  /\ run[r].pc = "idle" => told[r] = {} /\ run[r].read = 0
  /\ run[r].pc = "days" =>
       told[r] \subseteq run[r].seen \cup missed[r] \cup UNION {raw[d] : d \in DaysLeft(r)}
  /\ run[r].pc \in {"open", "write"} => told[r] \subseteq run[r].seen \cup missed[r]

DayInv ==
  /\ MemoryShapes
  /\ AppendsAreTimely /\ AppendsKnow
  /\ SummariesAreWhole /\ FileIsWhole

CritiqueInv == racedDays = {} => \A r \in Runs : CritiqueKnows(r)

\* An entry about to be put into a file goes with all the file holds.
NotesKnow ==
  \A r \in Runs : run[r].pc = "write" =>
    \/ FileOf(r) \in racedFiles
    \/ /\ notes[FileOf(r)] \subseteq run[r].found
       /\ \A q \in Runs \ {r} : run[q].pc = "write" => FileOf(q) # FileOf(r)

LEMMA MemorySizes ==
  /\ AppendTime \in Nat /\ MaxTime \in Nat /\ MaxLines \in Nat
  /\ PerDay \in Nat \ {0} /\ Window \in Nat \ {0} /\ CompactHour \in Nat
  /\ AppendTime < CompactHour
BY MemoryAssumption DEF MemoryAssumption

\* The day of a moment, and the day before.
LEMMA Calendar ==
  ASSUME NEW t \in 0..MaxTime
  PROVE  /\ t \div PerDay \in Days
         /\ t \div PerDay > 0 => (t \div PerDay) - 1 \in Days
<1>1. /\ t \div PerDay \in Nat /\ MaxTime \div PerDay \in Nat
      /\ t \div PerDay <= MaxTime \div PerDay
  BY MemorySizes
<1> QED BY <1>1 DEF Days

LEMMA FirstDay == 0 \in Days /\ Days \subseteq Nat
<1>1. MaxTime \div PerDay \in Nat
  BY MemorySizes
<1> QED BY <1>1 DEF Days

LEMMA DayGrows ==
  ASSUME NEW t \in Nat
  PROVE  /\ t \div PerDay \in Nat /\ (t + 1) \div PerDay \in Nat
         /\ t \div PerDay <= (t + 1) \div PerDay
BY MemorySizes

\* When the compactor is invoked no append of an earlier day can be under way.
LEMMA LateEnough ==
  ASSUME NEW t \in Nat, NEW s \in Nat, t % PerDay >= CompactHour,
         s \div PerDay < t \div PerDay
  PROVE  s + AppendTime < t
<1> DEFINE d == t \div PerDay
           e == s \div PerDay
<1>1. d \in Nat /\ e \in Nat /\ e + 1 <= d
  BY MemorySizes
<1>2. t - PerDay * d = t % PerDay
  BY MemorySizes
<1>3. s < PerDay * (e + 1)
  BY MemorySizes
<1> HIDE DEF d, e
<1>4. PerDay * (e + 1) <= PerDay * d
  BY <1>1, MemorySizes
<1>5. PerDay * (e + 1) \in Nat /\ PerDay * d \in Nat /\ t % PerDay \in Nat
  BY <1>1, MemorySizes
<1> QED BY <1>2, <1>3, <1>4, <1>5, MemorySizes

LEMMA MemoryStarts == MemoryInit => DayInv /\ CritiqueInv /\ NotesKnow /\ NotesAreKept
<1> SUFFICES ASSUME MemoryInit PROVE DayInv /\ CritiqueInv /\ NotesKnow /\ NotesAreKept
  OBVIOUS
<1>1. 0 \in Days /\ 0 \in 0..MaxTime
  BY MemorySizes, Calendar DEF Days
<1>2. MemoryShapes
  BY <1>1, MemorySizes
     DEF MemoryInit, MemoryShapes, MemoryTypeOK, NoAppend, NoCompaction, NoRun
<1>3. DayInv
  BY <1>2 DEF MemoryInit, DayInv, AppendsAreTimely, AppendsKnow, SummariesAreWhole,
              FileIsWhole, Writing, NoAppend, NoCompaction
<1> QED
  BY <1>3 DEF MemoryInit, CritiqueInv, CritiqueKnows, NotesKnow, NotesAreKept, NoRun

-----------------------------------------------------------------------------

\* An append goes on, or ends.
LEMMA AppendShape ==
  ASSUME MemoryShapes, NEW p \in Processes, NEW a \in AppendRecords,
         a.pc # "idle" => a.line \in Lines,
         append' = [append EXCEPT ![p] = a]
  PROVE  /\ append' \in [Processes -> AppendRecords]
         /\ \A q \in Processes : append'[q].pc # "idle" => append'[q].line \in Lines
<1>1. append \in [Processes -> AppendRecords]
  BY DEF MemoryShapes, MemoryTypeOK, AppendRecords
<1> QED BY <1>1 DEF MemoryShapes

LEMMA AppendTypes ==
  ASSUME MemoryShapes, NEW p \in Processes,
         (\E n \in Lines : BotDecides(p, n)) \/ OpenDay(p) \/ WriteDay(p) \/ AppendFails(p)
  PROVE  MemoryShapes'
<1>1. /\ Today \in Days /\ append[p] \in AppendRecords /\ NoAppend \in AppendRecords
      /\ NoAppend.pc = "idle"
  <2>1. Today \in Days
    BY Calendar DEF MemoryShapes, MemoryTypeOK, Today
  <2> QED
    BY <2>1, FirstDay, MemorySizes
       DEF MemoryShapes, MemoryTypeOK, AppendRecords, NoAppend
<1>2. ASSUME NEW n \in Lines, BotDecides(p, n) PROVE MemoryShapes'
  <2> DEFINE a == [append[p] EXCEPT !.pc = "open", !.line = n]
  <2>1. n \in 0..MaxLines
    BY MemorySizes DEF Lines
  <2>2. a \in AppendRecords /\ a.line \in Lines
    BY <1>1, <2>1 DEF AppendRecords
  <2>3. append' = [append EXCEPT ![p] = a]
    BY <1>2 DEF BotDecides
  <2> HIDE DEF a
  <2>4. /\ append' \in [Processes -> AppendRecords]
        /\ \A q \in Processes : append'[q].pc # "idle" => append'[q].line \in Lines
    BY <2>2, <2>3, AppendShape
  <2> QED BY <1>2, <2>4 DEF BotDecides, MemoryShapes, MemoryTypeOK, AppendRecords,
                        dayVars, noteVars, summaryVars, runVars
<1>3. CASE OpenDay(p)
  <2> DEFINE a == [append[p] EXCEPT !.pc = "write", !.day = Today, !.seen = raw[Today],
                                    !.since = clock]
  <2>1. a \in AppendRecords /\ a.line = append[p].line
    BY <1>1 DEF MemoryShapes, MemoryTypeOK, AppendRecords
  <2>2. append' = [append EXCEPT ![p] = a] /\ append[p].line \in Lines
    BY <1>3 DEF OpenDay, MemoryShapes
  <2> HIDE DEF a
  <2>3. /\ append' \in [Processes -> AppendRecords]
        /\ \A q \in Processes : append'[q].pc # "idle" => append'[q].line \in Lines
    BY <2>1, <2>2, AppendShape
  <2>4. racedDays' \subseteq Days
    BY <1>1, <1>3 DEF OpenDay, MemoryShapes, MemoryTypeOK
  <2> QED
    BY <1>3, <2>3, <2>4 DEF OpenDay, MemoryShapes, MemoryTypeOK, AppendRecords, noteVars,
                              summaryVars, runVars
<1>4. CASE WriteDay(p)
  <2>1. append[p].line \in Lines /\ append[p].day \in Days /\ append[p].seen \subseteq Lines
    BY <1>1, <1>4 DEF WriteDay, MemoryShapes, AppendRecords
  <2>2. /\ append' \in [Processes -> AppendRecords]
        /\ \A q \in Processes : append'[q].pc # "idle" => append'[q].line \in Lines
    BY <1>1, <1>4, AppendShape DEF WriteDay
  <2> QED
    BY <1>4, <2>1, <2>2 DEF WriteDay, MemoryShapes, MemoryTypeOK, AppendRecords, noteVars,
                              summaryVars, runVars
<1>5. CASE AppendFails(p)
  <2>1. /\ append' \in [Processes -> AppendRecords]
        /\ \A q \in Processes : append'[q].pc # "idle" => append'[q].line \in Lines
    BY <1>1, <1>5, AppendShape DEF AppendFails
  <2> QED
    BY <1>5, <2>1 DEF AppendFails, MemoryShapes, MemoryTypeOK, AppendRecords, dayVars, noteVars,
                       summaryVars, runVars
<1> QED BY <1>2, <1>3, <1>4, <1>5

LEMMA CompactionTypes ==
  ASSUME MemoryShapes, StartCompaction \/ WriteCompressed \/ CompactionFails
  PROVE  MemoryShapes'
<1>1. 0 \in Days /\ (Today > 0 => Today - 1 \in Days)
  BY Calendar, FirstDay DEF MemoryShapes, MemoryTypeOK, Today
<1>2. CASE StartCompaction
  <2>1. compaction' \in [busy : BOOLEAN, day : Days, seen : SUBSET Lines]
    BY <1>1, <1>2 DEF StartCompaction, DayToCompact, MemoryShapes, MemoryTypeOK
  <2> QED BY <1>2, <2>1 DEF StartCompaction, MemoryShapes, MemoryTypeOK, dayVars, noteVars,
                              summaryVars, runVars
<1>3. CASE WriteCompressed
  <2>1. /\ compressed \in [Days -> (SUBSET Lines) \cup {None}] /\ omitted \in [Days -> SUBSET Lines]
        /\ compaction.seen \in SUBSET Lines
    BY DEF MemoryShapes, MemoryTypeOK
  <2>2. PICK kept \in SUBSET compaction.seen :
          /\ compressed' = [compressed EXCEPT ![compaction.day] = kept]
          /\ omitted' = [omitted EXCEPT ![compaction.day] = compaction.seen \ kept]
    BY <1>3 DEF WriteCompressed
  <2>3. compressed' \in [Days -> (SUBSET Lines) \cup {None}]
    BY <2>1, <2>2
  <2>4. omitted' \in [Days -> SUBSET Lines]
    BY <2>1, <2>2
  <2>5. compaction' \in [busy : BOOLEAN, day : Days, seen : SUBSET Lines]
    BY <1>1, <1>3 DEF WriteCompressed, NoCompaction
  <2> QED
    BY <1>3, <2>3, <2>4, <2>5
       DEF WriteCompressed, MemoryShapes, MemoryTypeOK, dayVars, noteVars, runVars
<1>4. CASE CompactionFails
  BY <1>1, <1>4
     DEF CompactionFails, NoCompaction, MemoryShapes, MemoryTypeOK, dayVars, noteVars,
         summaryVars, runVars
<1> QED BY <1>2, <1>3, <1>4

LEMMA TickTypes ==
  ASSUME MemoryShapes, Tick
  PROVE  MemoryShapes'
BY MemorySizes DEF Tick, MemoryShapes, MemoryTypeOK, dayVars, noteVars, summaryVars, runVars

RunRecords ==
  [pc : {"idle", "days", "open", "write"}, next : Days,
   read : 0..Window, seen : SUBSET Lines, found : SUBSET Runs]

\* A critique or review goes on, or ends.
LEMMA RunTypes ==
  ASSUME MemoryShapes, NEW r \in Runs,
         StartCritique(r) \/ LoadDay(r) \/ Reflect(r) \/ OpenNotes(r) \/ WriteNotes(r) \/ RunFails(r)
  PROVE  MemoryShapes'
<1>1. /\ run \in [Runs -> RunRecords] /\ run[r] \in RunRecords /\ NoRun \in RunRecords
      /\ Today \in Days /\ FileOf(r) \in Files
      /\ told \in [Runs -> SUBSET Lines] /\ missed \in [Runs -> SUBSET Lines]
  <2>1. /\ run \in [Runs -> RunRecords]
        /\ told \in [Runs -> SUBSET Lines] /\ missed \in [Runs -> SUBSET Lines]
    BY DEF MemoryShapes, MemoryTypeOK, RunRecords
  <2>2. NoRun \in RunRecords
    BY FirstDay, MemorySizes DEF RunRecords, NoRun
  <2>3. Today \in Days
    BY Calendar DEF Today, MemoryShapes, MemoryTypeOK
  <2> QED BY <2>1, <2>2, <2>3 DEF FileOf, Files
<1>2. ASSUME NEW a \in RunRecords, run' = [run EXCEPT ![r] = a] PROVE run' \in [Runs -> RunRecords]
  BY <1>1, <1>2
<1>3. CASE StartCritique(r)
  <2> DEFINE a == [run[r] EXCEPT !.pc = "days", !.next = Today]
  <2>1. a \in RunRecords
    BY <1>1 DEF RunRecords
  <2>2. run' \in [Runs -> RunRecords]
    BY <1>2, <1>3, <2>1 DEF StartCritique
  <2>3. told' \in [Runs -> SUBSET Lines]
    <3>1. UNION {raw[d] : d \in WindowDays} \subseteq Lines
      BY DEF MemoryShapes, MemoryTypeOK, WindowDays
    <3> QED BY <1>1, <1>3, <3>1 DEF StartCritique
  <2> QED
    BY <1>3, <2>2, <2>3 DEF StartCritique, MemoryShapes, MemoryTypeOK, RunRecords,
                       dayVars, noteVars, summaryVars
<1>4. CASE LoadDay(r)
  <2> DEFINE n == run[r].next
             seen == run[r].seen \cup ReadCompressed(n)
             next == IF n = 0 THEN 0 ELSE n - 1
             read == IF n = 0 THEN Window ELSE run[r].read + 1
             a == [run[r] EXCEPT !.seen = seen, !.next = next, !.read = read]
  <2>1. n \in Days /\ run[r].read \in 0..Window /\ run[r].read < Window
    BY <1>1, <1>4 DEF LoadDay, RunRecords
  <2>2. seen \in SUBSET Lines
    <3>1. compressed[n] = None \/ compressed[n] \subseteq Lines
      BY <2>1 DEF MemoryShapes, MemoryTypeOK
    <3> QED BY <1>1, <2>1, <3>1 DEF ReadCompressed, RunRecords, MemoryShapes, MemoryTypeOK
  <2>3. next \in Days
    <3>1. MaxTime \div PerDay \in Nat
      BY MemorySizes
    <3> QED BY <2>1, <3>1 DEF Days
  <2>4. read \in 0..Window
    BY <2>1, MemorySizes
  <2>5. run' = [run EXCEPT ![r] = a]
    BY <1>1, <1>4 DEF LoadDay, RunRecords
  <2> HIDE DEF seen, next, read
  <2>6. a \in RunRecords
    BY <1>1, <2>2, <2>3, <2>4 DEF RunRecords
  <2>7. run' \in [Runs -> RunRecords]
    BY <1>2, <2>5, <2>6
  <2>8. missed' \in [Runs -> SUBSET Lines]
    <3>1. omitted[run[r].next] \in SUBSET Lines
      BY <2>1 DEF MemoryShapes, MemoryTypeOK
    <3> QED BY <1>1, <1>4, <3>1 DEF LoadDay
  <2> QED
    BY <1>4, <2>7, <2>8 DEF LoadDay, MemoryShapes, MemoryTypeOK, RunRecords,
                       dayVars, noteVars, summaryVars
<1>5. CASE Reflect(r)
  <2> DEFINE a == [run[r] EXCEPT !.pc = "open"]
  <2>1. a \in RunRecords /\ run' = [run EXCEPT ![r] = a]
    BY <1>1, <1>5 DEF Reflect, RunRecords
  <2>2. run' \in [Runs -> RunRecords]
    BY <1>2, <2>1
  <2> QED
    BY <1>5, <2>2 DEF Reflect, MemoryShapes, MemoryTypeOK, RunRecords,
                       dayVars, noteVars, summaryVars
<1>6. CASE OpenNotes(r)
  <2> DEFINE a == [run[r] EXCEPT !.pc = "write", !.found = notes[FileOf(r)]]
  <2>1. a \in RunRecords
    BY <1>1 DEF RunRecords, MemoryShapes, MemoryTypeOK
  <2>2. run' = [run EXCEPT ![r] = a]
    BY <1>6 DEF OpenNotes, Contents
  <2>3. run' \in [Runs -> RunRecords]
    BY <1>2, <2>1, <2>2
  <2>4. racedFiles' \subseteq Files
    BY <1>1, <1>6 DEF OpenNotes, MemoryShapes, MemoryTypeOK
  <2> QED
    BY <1>6, <2>3, <2>4 DEF OpenNotes, MemoryShapes, MemoryTypeOK, RunRecords, dayVars, summaryVars
<1>7. CASE WriteNotes(r)
  <2>1. run' \in [Runs -> RunRecords]
    BY <1>1, <1>2, <1>7 DEF WriteNotes, EndRun
  <2>2. notes' \in [Files -> SUBSET Runs] /\ noted' \in [Files -> SUBSET Runs]
    <3>1. run[r].found \cup {r} \in SUBSET Runs
      BY <1>1 DEF RunRecords
    <3> QED BY <1>1, <1>7, <3>1 DEF WriteNotes, MemoryShapes, MemoryTypeOK
  <2>3. told' \in [Runs -> SUBSET Lines] /\ missed' \in [Runs -> SUBSET Lines]
    BY <1>1, <1>7 DEF WriteNotes, EndRun
  <2> QED
    BY <1>7, <2>1, <2>2, <2>3 DEF WriteNotes, MemoryShapes, MemoryTypeOK, RunRecords, dayVars,
                                   summaryVars
<1>8. CASE RunFails(r)
  <2>1. /\ run' \in [Runs -> RunRecords]
        /\ told' \in [Runs -> SUBSET Lines] /\ missed' \in [Runs -> SUBSET Lines]
    BY <1>1, <1>2, <1>8 DEF RunFails, EndRun
  <2> QED
    BY <1>8, <2>1 DEF RunFails, MemoryShapes, MemoryTypeOK, RunRecords, dayVars, noteVars,
                       summaryVars
<1> QED BY <1>3, <1>4, <1>5, <1>6, <1>7, <1>8

LEMMA ShapesKeep ==
  ASSUME MemoryShapes, [MemoryNext]_memoryVars
  PROVE  MemoryShapes'
<1>1. CASE UNCHANGED memoryVars
  BY <1>1 DEF memoryVars, dayVars, noteVars, summaryVars, runVars, MemoryShapes, MemoryTypeOK
<1> QED BY <1>1, AppendTypes, CompactionTypes, TickTypes, RunTypes DEF MemoryNext

-----------------------------------------------------------------------------
(* Days.                                                                    *)

\* What leaves the files of the days, and the appends under way, as they are.
LEMMA DaysIdle ==
  ASSUME DayInv, MemoryShapes', UNCHANGED <<clock, append, dayVars, summaryVars, compaction>>
  PROVE  DayInv'
BY DEF DayInv, dayVars, summaryVars, AppendsAreTimely, AppendsKnow, SummariesAreWhole, FileIsWhole,
       Closed, Today, Writing

LEMMA TickDays ==
  ASSUME DayInv, MemoryShapes', Tick
  PROVE  DayInv'
<1>1. /\ UNCHANGED <<append, dayVars, summaryVars, compaction>> /\ clock' = clock + 1
      /\ clock \in Nat
      /\ \A p \in Processes : Writing(p) => clock < append[p].since + AppendTime
  BY DEF Tick, DayInv, MemoryShapes, MemoryTypeOK, Writing
<1>2. Today \in Nat /\ Today' \in Nat /\ Today <= Today'
  BY <1>1, DayGrows DEF Today
<1>3. AppendsAreTimely'
  <2> SUFFICES ASSUME NEW p \in Processes, Writing(p)
               PROVE  /\ append[p].day = append[p].since \div PerDay
                      /\ append[p].since <= clock + 1 /\ clock + 1 <= append[p].since + AppendTime
    BY <1>1 DEF AppendsAreTimely, Writing
  <2>1. append[p].since \in Nat
    BY DEF DayInv, MemoryShapes, MemoryTypeOK
  <2> QED BY <1>1, <2>1, MemorySizes DEF DayInv, AppendsAreTimely
<1>4. \A d \in Days : Closed(d) => Closed(d)'
  BY <1>1, <1>2, FirstDay DEF Closed, Writing
<1>5. SummariesAreWhole'
  BY <1>1, <1>4 DEF DayInv, SummariesAreWhole, dayVars, summaryVars, MemoryShapes, MemoryTypeOK
<1> QED
  BY <1>1, <1>3, <1>5 DEF DayInv, AppendsKnow, FileIsWhole, dayVars, Writing

LEMMA CompactionDays ==
  ASSUME DayInv, MemoryShapes', StartCompaction \/ WriteCompressed \/ CompactionFails
  PROVE  DayInv'
<1>1. UNCHANGED <<clock, append, dayVars>>
  BY DEF StartCompaction, WriteCompressed, CompactionFails, DayInv
<1>2. /\ \A d : Closed(d)' <=> Closed(d)
      /\ AppendsAreTimely' /\ AppendsKnow' /\ FileIsWhole'
  BY <1>1 DEF Closed, Today, Writing, DayInv, AppendsAreTimely, AppendsKnow, FileIsWhole, dayVars
<1>3. CASE StartCompaction
  <2>1. Closed(Today - 1)
    <3>1. Today \in Nat /\ Today > 0 /\ clock \in Nat /\ clock % PerDay >= CompactHour
      BY <1>3, DayGrows DEF StartCompaction, Today, DayInv, MemoryShapes, MemoryTypeOK
    <3>2. ASSUME NEW p \in Processes, Writing(p), append[p].day = Today - 1 PROVE FALSE
      <4>1. /\ append[p].since \in Nat /\ append[p].since \div PerDay = Today - 1
            /\ clock <= append[p].since + AppendTime
        BY <3>2 DEF DayInv, AppendsAreTimely, MemoryShapes, MemoryTypeOK
      <4>2. append[p].since \div PerDay < clock \div PerDay
        BY <3>1, <4>1 DEF Today
      <4>3. append[p].since + AppendTime < clock
        BY <3>1, <4>1, <4>2, LateEnough
      <4>4. clock \in Nat /\ AppendTime \in Nat
        BY <3>1, MemorySizes
      <4> QED BY <4>1, <4>3, <4>4
    <3> QED BY <3>1, <3>2 DEF Closed
  <2>2. compaction' = [busy |-> TRUE, day |-> Today - 1, seen |-> raw[Today - 1]]
    BY <1>3 DEF StartCompaction, DayToCompact
  <2>3. compressed' = compressed /\ omitted' = omitted /\ raw' = raw
    BY <1>1, <1>3 DEF StartCompaction, dayVars, summaryVars
  <2>4. SummariesAreWhole'
    BY <1>2, <2>1, <2>2, <2>3 DEF DayInv, SummariesAreWhole
  <2> QED BY <1>2, <2>4 DEF DayInv
<1>4. CASE WriteCompressed
  <2> DEFINE e == compaction.day
             seen == compaction.seen
  <2>1. PICK kept \in SUBSET seen :
          /\ compressed' = [compressed EXCEPT ![e] = kept]
          /\ omitted' = [omitted EXCEPT ![e] = seen \ kept]
    BY <1>4 DEF WriteCompressed
  <2>2. /\ compaction.busy /\ compaction' = NoCompaction /\ raw' = raw
    BY <1>1, <1>4 DEF WriteCompressed, dayVars
  <2>3. /\ compressed \in [Days -> (SUBSET Lines) \cup {None}] /\ omitted \in [Days -> SUBSET Lines]
        /\ e \in Days /\ seen \subseteq Lines
    BY DEF DayInv, MemoryShapes, MemoryTypeOK
  <2>4. Closed(e) /\ seen = raw[e]
    BY <2>2 DEF DayInv, SummariesAreWhole
  <2>5. kept # None
    BY <2>3 DEF None, Lines
  <2> HIDE DEF e, seen
  <2>6. ASSUME NEW d \in Days
        PROVE  /\ compressed'[d] # None => Closed(d) /\ compressed'[d] \cup omitted'[d] = raw[d]
               /\ compressed'[d] = None => omitted'[d] = {}
    <3>1. CASE d = e
      <4>1. compressed'[d] = kept /\ omitted'[d] = seen \ kept
        BY <2>1, <2>3, <3>1
      <4> QED BY <2>4, <2>5, <3>1, <4>1
    <3>2. CASE d # e
      <4>1. compressed'[d] = compressed[d] /\ omitted'[d] = omitted[d]
        BY <2>1, <2>3, <3>2
      <4> QED BY <4>1 DEF DayInv, SummariesAreWhole
    <3> QED BY <3>1, <3>2
  <2>7. SummariesAreWhole'
    BY <1>2, <2>2, <2>6 DEF SummariesAreWhole, NoCompaction
  <2> QED BY <1>2, <2>7 DEF DayInv
<1>5. CASE CompactionFails
  <2>1. /\ compaction' = NoCompaction /\ raw' = raw
        /\ compressed' = compressed /\ omitted' = omitted
    BY <1>1, <1>5 DEF CompactionFails, dayVars, summaryVars
  <2>2. SummariesAreWhole'
    BY <1>2, <2>1 DEF DayInv, SummariesAreWhole, NoCompaction
  <2> QED BY <1>2, <2>2 DEF DayInv
<1> QED BY <1>3, <1>4, <1>5

\* An append: it is decided, opens its day, writes it, or fails.
LEMMA AppendDays ==
  ASSUME DayInv, MemoryShapes', NEW p \in Processes,
         (\E n \in Lines : BotDecides(p, n)) \/ OpenDay(p) \/ WriteDay(p) \/ AppendFails(p)
  PROVE  DayInv'
<1>1. /\ clock' = clock /\ compaction' = compaction
      /\ compressed' = compressed /\ omitted' = omitted
      /\ racedDays \subseteq racedDays'
      /\ \A q \in Processes \ {p} : append'[q] = append[q]
      /\ Today' = Today /\ Today \in Days /\ Today \in Nat /\ clock \in Nat
  <2>1. append \in [Processes -> AppendRecords] /\ clock \in 0..MaxTime
    BY DEF DayInv, MemoryShapes, MemoryTypeOK, AppendRecords
  <2>2. Today \in Days /\ Today \in Nat /\ clock \in Nat
    <3>1. clock \div PerDay \in Days
      BY <2>1, Calendar
    <3> QED BY <2>1, <3>1, FirstDay, MemorySizes DEF Today
  <2>3. /\ clock' = clock /\ compaction' = compaction
        /\ compressed' = compressed /\ omitted' = omitted
    BY DEF BotDecides, OpenDay, WriteDay, AppendFails, summaryVars
  <2>4. racedDays \subseteq racedDays'
    BY DEF BotDecides, OpenDay, WriteDay, AppendFails, dayVars
  <2>5. \A q \in Processes \ {p} : append'[q] = append[q]
    BY <2>1 DEF BotDecides, OpenDay, WriteDay, AppendFails
  <2> QED BY <2>2, <2>3, <2>4, <2>5 DEF Today
<1>2. ASSUME UNCHANGED dayVars, ~Writing(p)' PROVE DayInv'
  <2>1. \A q \in Processes : Writing(q)' => Writing(q) /\ append'[q] = append[q]
    BY <1>1, <1>2 DEF Writing
  <2>2. \A d \in Days : Closed(d) => Closed(d)'
    BY <1>1, <2>1 DEF Closed
  <2>3. SummariesAreWhole'
    BY <1>1, <1>2, <2>2 DEF DayInv, SummariesAreWhole, dayVars, MemoryShapes, MemoryTypeOK
  <2>4. AppendsAreTimely' /\ AppendsKnow' /\ FileIsWhole'
    BY <1>1, <1>2, <2>1 DEF DayInv, AppendsAreTimely, AppendsKnow, FileIsWhole, dayVars
  <2> QED BY <2>3, <2>4 DEF DayInv
<1>3. CASE (\E n \in Lines : BotDecides(p, n)) \/ AppendFails(p)
  <2>1. UNCHANGED dayVars /\ append'[p].pc \in {"open", "idle"}
    <3>1. append \in [Processes -> AppendRecords]
      BY DEF DayInv, MemoryShapes, MemoryTypeOK, AppendRecords
    <3>2. append[p] \in AppendRecords /\ DOMAIN append = Processes
      BY <3>1
    <3>3. ASSUME NEW n \in Lines, BotDecides(p, n) PROVE append'[p].pc = "open" /\ UNCHANGED dayVars
      BY <3>2, <3>3 DEF BotDecides, AppendRecords
    <3>4. AppendFails(p) => append'[p].pc = "idle" /\ UNCHANGED dayVars
      BY <3>2 DEF AppendFails, NoAppend
    <3> QED BY <1>3, <3>3, <3>4
  <2> QED BY <1>2, <2>1 DEF Writing
<1>4. CASE OpenDay(p)
  <2>1. /\ raw' = raw /\ lines' = lines /\ append[p].pc = "open"
        /\ append'[p].pc = "write" /\ append'[p].day = Today
        /\ append'[p].seen = raw[Today] /\ append'[p].since = clock
        /\ racedDays' = racedDays \cup
             {d \in {Today} : \E q \in Processes : Writing(q) /\ append[q].day = d}
    BY <1>4 DEF OpenDay, Writing, DayInv, MemoryShapes, MemoryTypeOK
  <2>2. AppendsAreTimely'
    BY <1>1, <2>1, MemorySizes DEF DayInv, AppendsAreTimely, Writing, Today
  <2>3. AppendsKnow'
    BY <1>1, <2>1 DEF DayInv, AppendsKnow, Writing
  <2>4. \A d \in Days : Closed(d) => Closed(d)'
    BY <1>1, <2>1, FirstDay DEF Closed, Writing
  <2>5. SummariesAreWhole'
    BY <1>1, <2>1, <2>4 DEF DayInv, SummariesAreWhole, MemoryShapes, MemoryTypeOK
  <2> QED BY <1>1, <2>1, <2>2, <2>3, <2>5 DEF DayInv, FileIsWhole
<1>5. CASE WriteDay(p)
  <2> DEFINE d == append[p].day
  <2>1. /\ Writing(p) /\ ~Writing(p)' /\ racedDays' = racedDays /\ d \in Days
        /\ raw' = [raw EXCEPT ![d] = append[p].seen \cup {append[p].line}]
        /\ lines' = [lines EXCEPT ![d] = @ \cup {append[p].line}]
        /\ raw \in [Days -> SUBSET Lines] /\ lines \in [Days -> SUBSET Lines]
    BY <1>5 DEF WriteDay, Writing, NoAppend, DayInv, MemoryShapes, MemoryTypeOK
  <2> HIDE DEF d
  <2>2. \A q \in Processes : Writing(q)' => Writing(q) /\ append'[q] = append[q] /\ q # p
    BY <1>1, <2>1 DEF Writing
  <2>3. d \in racedDays \/ raw[d] \subseteq append[p].seen
    BY <2>1 DEF DayInv, AppendsKnow, d
  <2>4. AppendsAreTimely'
    BY <1>1, <2>2 DEF DayInv, AppendsAreTimely
  <2>5. AppendsKnow'
    <3> SUFFICES ASSUME NEW q \in Processes, Writing(q)', append'[q].day \notin racedDays'
                 PROVE  /\ raw'[append'[q].day] \subseteq append'[q].seen
                        /\ \A o \in Processes \ {q} : Writing(o)' => append'[o].day # append'[q].day
      BY DEF AppendsKnow
    <3>1. /\ Writing(q) /\ append'[q] = append[q] /\ q # p /\ append[q].day \notin racedDays
      BY <2>1, <2>2
    <3>2. /\ raw[append[q].day] \subseteq append[q].seen /\ d # append[q].day
          /\ \A o \in Processes \ {q} : Writing(o) => append[o].day # append[q].day
      BY <2>1, <3>1 DEF DayInv, AppendsKnow, d
    <3>3. append[q].day \in Days
      BY DEF DayInv, MemoryShapes, MemoryTypeOK
    <3> QED BY <2>1, <2>2, <3>1, <3>2, <3>3
  <2>6. ~Closed(d)
    BY <2>1 DEF Closed, d
  <2>7. \A e \in Days : Closed(e) => Closed(e)' /\ raw'[e] = raw[e]
    BY <1>1, <2>1, <2>2, <2>6 DEF Closed
  <2>8. SummariesAreWhole'
    BY <1>1, <2>7 DEF DayInv, SummariesAreWhole, MemoryShapes, MemoryTypeOK
  <2>9. FileIsWhole'
    BY <2>1, <2>3 DEF DayInv, FileIsWhole
  <2> QED BY <2>4, <2>5, <2>8, <2>9 DEF DayInv
<1> QED BY <1>3, <1>4, <1>5

\* What was written of a day is in its file, and its summary was made of the
\* whole file, for good.
LEMMA DayKeeps ==
  ASSUME DayInv, [MemoryNext]_memoryVars
  PROVE  DayInv'
<1>1. MemoryShapes'
  BY ShapesKeep DEF DayInv
<1>2. CASE UNCHANGED memoryVars
  BY <1>1, <1>2, DaysIdle DEF memoryVars
<1>3. ASSUME NEW r \in Runs,
             StartCritique(r) \/ LoadDay(r) \/ Reflect(r)
             \/ OpenNotes(r) \/ WriteNotes(r) \/ RunFails(r)
      PROVE  DayInv'
  <2>1. UNCHANGED <<clock, append, dayVars, summaryVars, compaction>>
    BY <1>3 DEF StartCritique, LoadDay, Reflect, OpenNotes, WriteNotes, RunFails
  <2> QED BY <1>1, <2>1, DaysIdle
<1> QED BY <1>1, <1>2, <1>3, TickDays, CompactionDays, AppendDays DEF MemoryNext

LEMMA DaysInvariant == MemorySpec => []DayInv
BY MemoryStarts, DayKeeps, PTL DEF MemorySpec

\* What reads as the day, and what its summary leaves out, are the day's file.
LEMMA ReadsAsRaw ==
  ASSUME DayInv, NEW d \in Days
  PROVE  ReadCompressed(d) \cup omitted[d] = raw[d]
BY DEF DayInv, SummariesAreWhole, ReadCompressed

\* The memory's records keep their types (every operation of s3_store's
\* memory files, the compactor, the self critique and the review agents).
THEOREM MemoryTypes == MemorySpec => []MemoryTypeOK
<1>1. DayInv => MemoryTypeOK
  BY DEF DayInv, MemoryShapes
<1> QED BY <1>1, DaysInvariant, PTL

\* What the bot wrote of a day is in its raw file ever after, and every line of
\* it that the readers of the day are not given is one the model was given and
\* left out of the day's summary, a blank one included: no line comes too late
\* for the summary that hides the file.  Two processes of the bot that append to
\* the day's file at a time are excepted (append_to_today, run_compact_day,
\* write_compressed, read_compressed).
THEOREM NoDayForgotten == MemorySpec => []NothingForgotten
<1>1. DayInv => NothingForgotten
  BY ReadsAsRaw DEF DayInv, FileIsWhole, NothingForgotten
<1> QED BY <1>1, DaysInvariant, PTL

-----------------------------------------------------------------------------
(* The critique: what it has read and what it has still to read are the      *)
(* window's lines, as a day's file only grows and reads as it is.            *)

\* Without a race an append leaves in the file what is there.
LEMMA FilesGrow ==
  ASSUME DayInv, [MemoryNext]_memoryVars, racedDays' = {}
  PROVE  racedDays = {} /\ \A d \in Days : raw[d] \subseteq raw'[d]
<1>1. raw \in [Days -> SUBSET Lines]
  BY DEF DayInv, MemoryShapes, MemoryTypeOK
<1>2. ASSUME NEW p \in Processes, WriteDay(p)
      PROVE  racedDays' = racedDays /\ \A d \in Days : racedDays = {} => raw[d] \subseteq raw'[d]
  <2>1. racedDays = {} => raw[append[p].day] \subseteq append[p].seen
    BY <1>2 DEF WriteDay, DayInv, AppendsKnow, Writing
  <2> QED BY <1>1, <1>2, <2>1 DEF WriteDay
<1>3. ASSUME UNCHANGED raw PROVE \A d \in Days : raw[d] \subseteq raw'[d]
  BY <1>3
<1>4. \/ \E p \in Processes : WriteDay(p)
      \/ UNCHANGED raw /\ racedDays \subseteq racedDays'
  BY DEF MemoryNext, memoryVars, dayVars, Tick, BotDecides, OpenDay, AppendFails,
         StartCompaction, WriteCompressed, CompactionFails, StartCritique, LoadDay, Reflect,
         OpenNotes, WriteNotes, RunFails
<1> QED BY <1>2, <1>3, <1>4

\* A run that does nothing goes on knowing what it knew.
LEMMA KnowsMore ==
  ASSUME NEW r \in Runs, CritiqueKnows(r), run'[r] = run[r], told'[r] = told[r],
         missed'[r] = missed[r],
         \A d \in Days : raw[d] \subseteq raw'[d]
  PROVE  CritiqueKnows(r)'
<1>1. DaysLeft(r)' = DaysLeft(r) /\ DaysLeft(r) \subseteq Days
  BY DEF DaysLeft
<1>2. UNION {raw[d] : d \in DaysLeft(r)} \subseteq UNION {raw'[d] : d \in DaysLeft(r)}
  BY <1>1
<1>3. UNION {raw'[d] : d \in DaysLeft(r)'} = UNION {raw'[d] : d \in DaysLeft(r)}
  BY <1>1
<1> QED BY <1>2, <1>3 DEF CritiqueKnows

\* The day a critique loads is the first of those it had left.
LEMMA OneDayLess ==
  ASSUME MemoryShapes, NEW r \in Runs, LoadDay(r)
  PROVE  /\ DaysLeft(r) \subseteq DaysLeft(r)' \cup {run[r].next}
         /\ run[r].next \in Days
<1> DEFINE n == run[r].next
           k == run[r].read
<1>1. /\ run \in [Runs -> RunRecords] /\ n \in Days /\ n \in Nat /\ k \in Nat /\ k < Window
      /\ Window \in Nat
  <2>1. run \in [Runs -> RunRecords]
    BY DEF MemoryShapes, MemoryTypeOK, RunRecords
  <2>2. k < Window
    BY DEF LoadDay
  <2>3. n \in Days /\ k \in 0..Window
    BY <2>1 DEF RunRecords
  <2>4. Window \in Nat
    BY MemorySizes
  <2>5. n \in Nat
    BY <2>3, FirstDay
  <2>6. k \in Nat
    BY <2>3, <2>4
  <2> QED BY <2>1, <2>2, <2>3, <2>4, <2>5, <2>6
<1>2. /\ run'[r].next = IF n = 0 THEN 0 ELSE n - 1
      /\ run'[r].read = IF n = 0 THEN Window ELSE k + 1
  BY <1>1 DEF LoadDay, RunRecords
<1>3. ASSUME NEW d \in DaysLeft(r) PROVE d \in DaysLeft(r)' \/ d = n
  <2>1. d \in Days /\ d \in Nat /\ d <= n /\ d + (Window - k) > n
    BY <1>3, FirstDay DEF DaysLeft
  <2>2. ASSUME d # n PROVE d <= run'[r].next /\ d + (Window - run'[r].read) > run'[r].next
    BY <1>1, <1>2, <2>1, <2>2
  <2> QED BY <2>1, <2>2 DEF DaysLeft
<1> QED BY <1>1, <1>3

LEMMA NoDayLeft ==
  ASSUME MemoryShapes, NEW r \in Runs, run[r].read = Window
  PROVE  DaysLeft(r) = {}
<1>1. Window \in Nat
  BY MemorySizes
<1>2. run[r].next \in Days
  BY DEF MemoryShapes, MemoryTypeOK
<1>3. Window - run[r].read = 0
  BY <1>1
<1>4. ASSUME NEW d \in Days
      PROVE  ~(d <= run[r].next /\ d + (Window - run[r].read) > run[r].next)
  <2>1. d \in Nat /\ run[r].next \in Nat
    BY <1>2, FirstDay
  <2>2. d + (Window - run[r].read) = d
    BY <1>3, <2>1
  <2> QED BY <2>1, <2>2
<1> QED BY <1>4 DEF DaysLeft

LEMMA CritiqueKeeps ==
  ASSUME DayInv, CritiqueInv, [MemoryNext]_memoryVars
  PROVE  CritiqueInv'
<1> SUFFICES ASSUME racedDays' = {}, NEW q \in Runs PROVE CritiqueKnows(q)'
  BY DEF CritiqueInv
<1>1. /\ \A r \in Runs : CritiqueKnows(r)
      /\ \A d \in Days : raw[d] \subseteq raw'[d]
  BY FilesGrow DEF CritiqueInv
<1>2. /\ run \in [Runs -> RunRecords]
      /\ told \in [Runs -> SUBSET Lines] /\ missed \in [Runs -> SUBSET Lines]
      /\ MemoryShapes
  BY DEF DayInv, MemoryShapes, MemoryTypeOK, RunRecords
<1>3. CASE run'[q] = run[q] /\ told'[q] = told[q] /\ missed'[q] = missed[q]
  BY <1>1, <1>3, KnowsMore
<1>4. CASE StartCritique(q)
  <2>1. /\ run[q].pc = "idle" /\ raw' = raw
        /\ run'[q] = [run[q] EXCEPT !.pc = "days", !.next = Today]
        /\ told'[q] = UNION {raw[d] : d \in WindowDays}
    BY <1>2, <1>4 DEF StartCritique, dayVars
  <2>2. run'[q].pc = "days" /\ run'[q].next = Today /\ run'[q].read = 0
    BY <1>1, <1>2, <2>1 DEF CritiqueKnows, RunRecords
  <2>3. DaysLeft(q)' = WindowDays
    <3>1. Window - 0 = Window
      BY MemorySizes
    <3> QED BY <2>2, <3>1 DEF DaysLeft, WindowDays
  <2> QED BY <2>1, <2>2, <2>3 DEF CritiqueKnows
<1>5. CASE LoadDay(q)
  <2> DEFINE n == run[q].next
  <2>1. raw' = raw /\ told' = told /\ run[q].pc = "days"
        /\ run'[q] = [run[q] EXCEPT !.seen = run[q].seen \cup ReadCompressed(n),
                                    !.next = IF n = 0 THEN 0 ELSE n - 1,
                                    !.read = IF n = 0 THEN Window ELSE run[q].read + 1]
    BY <1>2, <1>5 DEF LoadDay, dayVars
  <2>2. DaysLeft(q) \subseteq DaysLeft(q)' \cup {n} /\ n \in Days
    BY <1>2, <1>5, OneDayLess
  <2>3. /\ run'[q].pc = "days"
        /\ run'[q].seen \cup missed'[q] = run[q].seen \cup missed[q] \cup raw[n]
    <3>1. run'[q].pc = "days" /\ run'[q].seen = run[q].seen \cup ReadCompressed(n)
      BY <1>2, <2>1, <2>2 DEF RunRecords
    <3>2. missed'[q] = missed[q] \cup omitted[n]
      BY <1>2, <1>5 DEF LoadDay
    <3>3. ReadCompressed(n) \cup omitted[n] = raw[n]
      BY <2>2, ReadsAsRaw
    <3> HIDE DEF n
    <3> QED BY <3>1, <3>2, <3>3
  <2>4. told[q] \subseteq run[q].seen \cup missed[q] \cup UNION {raw[d] : d \in DaysLeft(q)}
    BY <1>1, <2>1 DEF CritiqueKnows
  <2>5. UNION {raw[d] : d \in DaysLeft(q)} \subseteq raw[n] \cup UNION {raw[d] : d \in DaysLeft(q)'}
    BY <2>2
  <2>6. told'[q] \subseteq run'[q].seen \cup missed'[q] \cup UNION {raw'[d] : d \in DaysLeft(q)'}
    BY <2>1, <2>3, <2>4, <2>5
  <2> QED BY <2>3, <2>6 DEF CritiqueKnows
<1>6. CASE Reflect(q)
  <2>1. told' = told /\ missed' = missed /\ run'[q] = [run[q] EXCEPT !.pc = "open"]
    BY <1>2, <1>6 DEF Reflect
  <2>2. run'[q].pc = "open" /\ run'[q].seen = run[q].seen
    BY <1>2, <2>1 DEF RunRecords
  <2>3. told[q] \subseteq run[q].seen \cup missed[q]
    <3>1. CASE run[q].pc = "days" /\ run[q].read = Window
      <4>1. DaysLeft(q) = {}
        BY <1>2, <3>1, NoDayLeft
      <4>2. UNION {raw[d] : d \in DaysLeft(q)} = {}
        BY <4>1
      <4> QED BY <1>1, <3>1, <4>2 DEF CritiqueKnows
    <3>2. CASE run[q].pc = "idle"
      BY <1>1, <3>2 DEF CritiqueKnows
    <3> QED BY <1>6, <3>1, <3>2 DEF Reflect
  <2> QED BY <2>1, <2>2, <2>3 DEF CritiqueKnows
<1>7. CASE OpenNotes(q)
  <2>1. told' = told /\ missed' = missed
        /\ run'[q] = [run[q] EXCEPT !.pc = "write", !.found = Contents(FileOf(q))]
        /\ run[q].pc = "open"
    BY <1>2, <1>7 DEF OpenNotes
  <2>2. run'[q].pc = "write" /\ run'[q].seen = run[q].seen
    BY <1>2, <2>1 DEF RunRecords
  <2> QED BY <1>1, <2>1, <2>2 DEF CritiqueKnows
<1>8. CASE WriteNotes(q) \/ RunFails(q)
  <2>1. run'[q] = NoRun /\ told'[q] = {}
    BY <1>2, <1>8 DEF WriteNotes, RunFails, EndRun
  <2> QED BY <2>1 DEF CritiqueKnows, NoRun
<1>9. ASSUME NEW r \in Runs, r # q,
             StartCritique(r) \/ LoadDay(r) \/ Reflect(r)
             \/ OpenNotes(r) \/ WriteNotes(r) \/ RunFails(r)
      PROVE  run'[q] = run[q] /\ told'[q] = told[q] /\ missed'[q] = missed[q]
  BY <1>2, <1>9 DEF StartCritique, LoadDay, Reflect, OpenNotes, WriteNotes, RunFails, EndRun
<1>10. \/ UNCHANGED <<run, told, missed>>
       \/ \E r \in Runs : StartCritique(r) \/ LoadDay(r) \/ Reflect(r)
                          \/ OpenNotes(r) \/ WriteNotes(r) \/ RunFails(r)
  BY DEF MemoryNext, memoryVars, runVars, Tick, BotDecides, OpenDay, WriteDay, AppendFails,
         StartCompaction, WriteCompressed, CompactionFails
<1> QED BY <1>3, <1>4, <1>5, <1>6, <1>7, <1>8, <1>9, <1>10

\* A self critique reflects on every line the days of its window held when it
\* began, but for those the model left out of the summaries it was given:
\* nothing is lost to it between the days, whichever of them are summarised
\* while it reads one after another, as long as no two appends to a day
\* overlapped (load_recent_days, read_compressed, run_compact_day).
THEOREM CritiqueReadsWeek == MemorySpec => []WeekIsRead
<1>1. CritiqueInv => WeekIsRead
  BY DEF CritiqueInv, CritiqueKnows, WeekIsRead, Runs
<1>2. MemoryInit => CritiqueInv
  BY MemoryStarts
<1> QED BY <1>1, <1>2, CritiqueKeeps, DaysInvariant, PTL DEF MemorySpec

-----------------------------------------------------------------------------
(* The lessons and the recommendations.                                      *)

LEMMA NotesKnowMore ==
  ASSUME MemoryTypeOK, NotesKnow, NotesAreKept, [MemoryNext]_memoryVars
  PROVE  NotesKnow' /\ NotesAreKept'
<1>1. /\ run \in [Runs -> RunRecords]
      /\ notes \in [Files -> SUBSET Runs] /\ noted \in [Files -> SUBSET Runs]
      /\ \A r \in Runs : FileOf(r) \in Files
  BY DEF MemoryTypeOK, RunRecords, FileOf, Files
<1>2. ASSUME UNCHANGED noteVars,
             \A q \in Runs : run'[q].pc = "write" => run[q].pc = "write" /\ run'[q] = run[q]
      PROVE  NotesKnow' /\ NotesAreKept'
  BY <1>2 DEF NotesKnow, NotesAreKept, noteVars
<1>3. ASSUME UNCHANGED <<run, noteVars>> PROVE NotesKnow' /\ NotesAreKept'
  BY <1>3 DEF NotesKnow, NotesAreKept, noteVars
<1>4. ASSUME NEW r \in Runs, StartCritique(r) \/ LoadDay(r) \/ Reflect(r) \/ RunFails(r)
      PROVE  NotesKnow' /\ NotesAreKept'
  <2>1. UNCHANGED noteVars /\ \A q \in Runs \ {r} : run'[q] = run[q]
    BY <1>1, <1>4 DEF StartCritique, LoadDay, Reflect, RunFails, EndRun
  <2>2. run'[r].pc # "write"
    <3>1. run[r] \in RunRecords
      BY <1>1
    <3>2. StartCritique(r) => run'[r].pc = "days"
      BY <1>1, <3>1 DEF StartCritique, RunRecords
    <3>3. LoadDay(r) => run'[r].pc = "days"
      BY <1>1, <3>1 DEF LoadDay, RunRecords
    <3>4. Reflect(r) => run'[r].pc = "open"
      BY <1>1, <3>1 DEF Reflect, RunRecords
    <3>5. RunFails(r) => run'[r].pc = "idle"
      BY <1>1 DEF RunFails, EndRun, NoRun
    <3> QED BY <1>4, <3>2, <3>3, <3>4, <3>5
  <2> QED BY <1>2, <2>1, <2>2
<1>5. ASSUME NEW r \in Runs, OpenNotes(r) PROVE NotesKnow' /\ NotesAreKept'
  <2>1. /\ UNCHANGED <<notes, noted>> /\ \A q \in Runs \ {r} : run'[q] = run[q]
        /\ run'[r].pc = "write" /\ run'[r].found = notes[FileOf(r)]
        /\ racedFiles' = racedFiles \cup
             {g \in {FileOf(r)} : \E q \in Runs : run[q].pc = "write" /\ FileOf(q) = g}
        /\ run[r].pc = "open"
    <3>1. run[r] \in RunRecords
      BY <1>1
    <3> QED BY <1>1, <1>5, <3>1 DEF OpenNotes, RunRecords, Contents
  <2>2. NotesAreKept'
    BY <2>1 DEF NotesAreKept
  <2>3. ASSUME NEW q \in Runs, run'[q].pc = "write", FileOf(q) \notin racedFiles'
        PROVE  /\ notes'[FileOf(q)] \subseteq run'[q].found
               /\ \A o \in Runs \ {q} : run'[o].pc = "write" => FileOf(o) # FileOf(q)
    <3>1. FileOf(q) \notin racedFiles
      BY <2>1, <2>3
    <3>2. CASE q = r
      BY <2>1, <2>3, <3>2
    <3>3. CASE q # r
      <4>1. run[q].pc = "write" /\ run'[q] = run[q]
        BY <2>1, <2>3, <3>3
      <4>2. FileOf(r) # FileOf(q)
        BY <2>1, <2>3, <4>1
      <4> QED BY <2>1, <3>1, <4>1, <4>2 DEF NotesKnow
    <3> QED BY <3>2, <3>3
  <2> QED BY <2>2, <2>3 DEF NotesKnow, FileOf
<1>6. ASSUME NEW r \in Runs, WriteNotes(r) PROVE NotesKnow' /\ NotesAreKept'
  <2>1. /\ racedFiles' = racedFiles /\ \A q \in Runs \ {r} : run'[q] = run[q]
        /\ run[r].pc = "write" /\ run'[r].pc = "idle"
        /\ notes' = [notes EXCEPT ![FileOf(r)] = run[r].found \cup {r}]
        /\ noted' = [noted EXCEPT ![FileOf(r)] = @ \cup {r}]
    BY <1>1, <1>6 DEF WriteNotes, EndRun, NoRun
  <2>2. FileOf(r) \in racedFiles \/ notes[FileOf(r)] \subseteq run[r].found
    BY <2>1 DEF NotesKnow
  <2>3. NotesAreKept'
    BY <1>1, <2>1, <2>2 DEF NotesAreKept
  <2>4. ASSUME NEW q \in Runs, run'[q].pc = "write", FileOf(q) \notin racedFiles'
        PROVE  /\ notes'[FileOf(q)] \subseteq run'[q].found
               /\ \A o \in Runs \ {q} : run'[o].pc = "write" => FileOf(o) # FileOf(q)
    <3>1. q # r /\ run'[q] = run[q] /\ run[q].pc = "write" /\ FileOf(q) \notin racedFiles
      BY <2>1, <2>4
    <3>2. /\ notes[FileOf(q)] \subseteq run[q].found
          /\ \A o \in Runs \ {q} : run[o].pc = "write" => FileOf(o) # FileOf(q)
      BY <3>1 DEF NotesKnow
    <3>3. notes'[FileOf(q)] = notes[FileOf(q)]
      BY <1>1, <2>1, <3>1, <3>2
    <3> QED BY <2>1, <3>1, <3>2, <3>3
  <2> QED BY <2>3, <2>4 DEF NotesKnow, FileOf
<1>7. UNCHANGED <<run, noteVars>>
      \/ \E r \in Runs : StartCritique(r) \/ LoadDay(r) \/ Reflect(r)
                         \/ OpenNotes(r) \/ WriteNotes(r) \/ RunFails(r)
  BY DEF MemoryNext, memoryVars, runVars, Tick, BotDecides, OpenDay, WriteDay, AppendFails,
         StartCompaction, WriteCompressed, CompactionFails
<1> QED BY <1>3, <1>4, <1>5, <1>6, <1>7

\* A lesson or a recommendation stays in its file, unless two runs had read the
\* file before either put it back (append_lesson, append_recommendation).
THEOREM EntriesAreKept == MemorySpec => []NotesAreKept
<1>1. MemoryInit => NotesKnow /\ NotesAreKept
  BY MemoryStarts
<1> QED BY <1>1, NotesKnowMore, MemoryTypes, PTL DEF MemorySpec
===============================================================================
