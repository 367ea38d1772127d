------------------------------ MODULE ToolCalls ------------------------------
(***************************************************************************)
(* The research tools of a bot.  News and social calls go to a cache shared  *)
(* by all, then count against the strategy's day, call the service and cache *)
(* the answer; filings calls only read, and are braked by the number of      *)
(* calls already counted.  A strategy's calls overlap: its agent runs tools  *)
(* side by side, and two processes may run one strategy.                     *)
(***************************************************************************)
EXTENDS Naturals, FiniteSets

CONSTANTS
  Callers,     \* the calls there may be at a time
  StrategyOf,  \* the strategy each of them is made for
  Quota,       \* calls a day the tools are bound with: the registry's 50
  DailyQuota,  \* calls a day each strategy is configured for; nothing reads it
  CacheTtl,    \* age at which an answer is fetched again, exclusive
  PutTime,     \* longest time from the answer to its place in the cache
  DayLength, LastTime, \* (bound)
  MaxDenied    \* calls refused in a day (bound)

ASSUME ToolsAssumption ==
  /\ {Quota, CacheTtl, PutTime, LastTime, MaxDenied} \subseteq Nat
  /\ DayLength \in Nat \ {0}
  /\ IsFiniteSet(Callers)
  /\ DailyQuota \in [{StrategyOf[c] : c \in Callers} -> Nat]

ToolUsers == {StrategyOf[c] : c \in Callers}
QuotaDays == {t \div DayLength : t \in 0..LastTime}
Counters == ToolUsers \X QuotaDays
NoAnswer == [cachedAt |-> 0, asOf |-> 0, there |-> FALSE]

VARIABLES
  time,       \* in some unit
  consumed,   \* <tool>_consumed of a strategy and day
  hits,       \* filings_cache_hits of a strategy and day
  cache,      \* the cached answer for the symbol
  call,       \* what each call is at, the day it counts for, what it fetched
  made        \* (history) external calls made for a strategy and day

toolVars == <<time, consumed, hits, cache, call, made>>

NoCall == [pc |-> "idle", day |-> 0, asOf |-> 0]
QuotaDay == time \div DayLength
Row(c) == <<StrategyOf[c], QuotaDay>>
EndCall(c) == call' = [call EXCEPT ![c] = NoCall]

ToolsInit ==
  /\ time = 0
  /\ consumed = [k \in Counters |-> 0]
  /\ hits = [k \in Counters |-> 0]
  /\ cache = NoAnswer
  /\ call = [c \in Callers |-> NoCall]
  /\ made = [k \in Counters |-> 0]

\* Staleness is left to the row's ttl.
Fresh_slip == cache.there

\* NewsCache.get and SocialCache.get: an answer that is older does not count.
Fresh == cache.there /\ time - cache.cachedAt <= CacheTtl

\* A call for an answer that is not cached; a hit changes nothing that counts.
Miss(c) ==
  /\ call[c].pc = "idle"
  /\ ~Fresh
  /\ call' = [call EXCEPT ![c].pc = "reserve"]
  /\ UNCHANGED <<time, consumed, hits, cache, made>>

\* The count is compared as it was before this call.
WithinQuota_slip(n) == n - 1 <= Quota

\* reserve: n is the count with this call.
WithinQuota(n) == n <= Quota

\* A tool without quota is refused before it is counted.
Reserve(c) ==
  /\ call[c].pc = "reserve"
  /\ IF Quota = 0
     THEN EndCall(c) /\ UNCHANGED consumed
     ELSE LET n == consumed[Row(c)] + 1 IN
          /\ n <= Quota + MaxDenied
          /\ consumed' = [consumed EXCEPT ![Row(c)] = n]
          /\ IF WithinQuota(n)
             THEN call' = [call EXCEPT ![c].pc = "fetch", ![c].day = QuotaDay]
             ELSE EndCall(c)
  /\ UNCHANGED <<time, hits, cache, made>>

\* The service answers, or fails: the unit stays used.
Fetch(c) ==
  /\ call[c].pc = "fetch"
  /\ made' = [made EXCEPT ![<<StrategyOf[c], call[c].day>>] = @ + 1]
  /\ \/ call' = [call EXCEPT ![c].pc = "put", ![c].asOf = time]
     \/ EndCall(c)
  /\ UNCHANGED <<time, consumed, hits, cache>>

\* put: the age of the answer counts from here.
Put(c) ==
  /\ call[c].pc = "put"
  /\ cache' = [cachedAt |-> time, asOf |-> call[c].asOf, there |-> TRUE]
  /\ EndCall(c)
  /\ UNCHANGED <<time, consumed, hits, made>>

\* The brake is put on one call late.
Braked_slip(n) == Quota = 0 \/ n > Quota

\* _rate_limit_or_raise: no more calls once the count has reached the quota.
Braked(n) == Quota = 0 \/ n >= Quota

\* list_recent_filings and read_filing: the count is read ...
AskFilings(c) ==
  /\ call[c].pc = "idle"
  /\ ~Braked(hits[Row(c)])
  /\ call' = [call EXCEPT ![c].pc = "hit"]
  /\ UNCHANGED <<time, consumed, hits, cache, made>>

\* ... and then added to, on the day it is by then.
CountHit(c) ==
  /\ call[c].pc = "hit"
  /\ hits' = [hits EXCEPT ![Row(c)] = @ + 1]
  /\ EndCall(c)
  /\ UNCHANGED <<time, consumed, cache, made>>

\* The call or its process is cut off, or the table does not answer.
CutOff(c) ==
  /\ call[c].pc # "idle"
  /\ EndCall(c)
  /\ UNCHANGED <<time, consumed, hits, cache, made>>

TimePasses ==
  /\ time < LastTime
  /\ \A c \in Callers : call[c].pc = "put" => time < call[c].asOf + PutTime
  /\ time' = time + 1
  /\ UNCHANGED <<consumed, hits, cache, call, made>>

ToolsNext ==
  \/ TimePasses
  \/ \E c \in Callers :
       \/ Miss(c) \/ Reserve(c) \/ Fetch(c) \/ Put(c)
       \/ AskFilings(c) \/ CountHit(c) \/ CutOff(c)

ToolsSpec == ToolsInit /\ [][ToolsNext]_toolVars

-----------------------------------------------------------------------------
ToolsTypeOK ==
  /\ time \in 0..LastTime
  /\ consumed \in [Counters -> Nat]
  /\ hits \in [Counters -> Nat]
  /\ made \in [Counters -> Nat]
  /\ cache \in [cachedAt : Nat, asOf : Nat, there : BOOLEAN]
  /\ call \in [Callers -> [pc   : {"idle", "reserve", "fetch", "put", "hit"},
                           day  : QuotaDays,
                           asOf : Nat]]

\* However calls overlap, fail or straddle midnight, a strategy makes no more
\* external calls on a day's account than the registry binds the tool with, and
\* than are counted.
RegistryCapHolds ==
  \A k \in Counters : made[k] <= Quota /\ made[k] <= consumed[k]

\* What is documented instead (docs/SPEC/tools.md): the hard stop is at the quota
\* the strategy is configured with for the tool, and 0 is none at all.
StrategyBudget ==
  \A k \in Counters : made[k] <= DailyQuota[k[1]]

\* What the cache would serve now was true at most an hour, and the time an
\* answer takes to be stored, ago, also when a slow call overwrites a newer one.
ServedIsRecent == Fresh => time - cache.asOf <= CacheTtl + PutTime

\* The brake of the filings tools is late by the calls under way at most.
FilingsBrake ==
  \A k \in Counters :
    hits[k] <= Quota + Cardinality({c \in Callers : StrategyOf[c] = k[1]}) - 1
=============================================================================
