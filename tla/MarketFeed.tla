----------------------------- MODULE MarketFeed -----------------------------
(***************************************************************************)
(* The market data island: the subscriber that polls quotes, the store of   *)
(* minute bars, the trading service that records its prices there and may   *)
(* price its bots from it, and what the TA computer reads of it.            *)
(*                                                                         *)
(* A price is abstracted to the moment the broker quoted it, so its real age *)
(* can be compared with the timestamp a bar gives it.  A bar is what one     *)
(* writer's buffer held of that minute when it was flushed, and only its     *)
(* close, the last observation, is followed; the next flush of the minute,   *)
(* by either writer, replaces it.                                           *)
(***************************************************************************)
EXTENDS Naturals, Sequences, FiniteSets, FiniteSetsExt

CONSTANTS
  Symbols,          \* watched by the subscriber or traded
  Traded,           \* those the trading service prices its bots in
  Minute, Hour,     \* units of time in a minute, minutes in an hour
  Staleness,        \* units a stored price stays fresh for the provider
  Lookback,         \* hours the TA computer looks back
  Lag,              \* units between a quote and its recording (bound)
  MaxTime, MaxFaults \* (bounds)

ASSUME FeedAssumption ==
  /\ Traded \subseteq Symbols
  /\ Minute \in Nat \ {0} /\ Hour \in Nat \ {0}
  /\ {Staleness, Lookback, Lag, MaxTime, MaxFaults} \subseteq Nat

Writers == {"subscriber", "trader"}
MinuteOf(t) == t \div Minute
HourOf(t) == MinuteOf(t) \div Hour
Minutes == 0..MinuteOf(MaxTime)
Never == MaxTime + 1

\* A price: when it was quoted by the broker, and whether it came by the store
\* and, if so, had been put there out of the store before.
Quoted(t) == [seen |-> t, via |-> "broker"]
Passed(p) == [p EXCEPT !.via = IF p.via = "broker" THEN "store" ELSE "echo"]
NoPrice == [seen |-> 0, via |-> "none"]
NoBar == [last |-> Never, price |-> NoPrice]
NoQuote == [at |-> Never, price |-> NoPrice]

VARIABLES
  now,
  bars,       \* the stored bar of each symbol and minute
  buffer,     \* the last observation of each minute a writer holds
  sub,        \* the subscriber: where it is in its cycle
  todo,       \* symbols left to poll in the cycle
  slept,      \* when its sleep began
  quotes,     \* prices the trading service fetched and has not recorded
  taken,      \* the minute the subscriber last observed a symbol in (history)
  faults      \* failed writes and deaths so far

feedVars == <<bars, buffer>>
subVars == <<sub, todo, slept>>
histVars == <<taken, faults>>
vars == <<now, feedVars, subVars, quotes, histVars>>

Init ==
  /\ now = 0
  /\ bars = [s \in Symbols |-> [m \in Minutes |-> NoBar]]
  /\ buffer = [w \in Writers |-> [s \in Symbols |-> {}]]
  /\ sub = "down"
  /\ todo = {}
  /\ slept = 0
  /\ quotes = [s \in Symbols |-> NoQuote]
  /\ taken = [s \in Symbols |-> Never]
  /\ faults = 0

Fault == faults < MaxFaults /\ faults' = faults + 1

-----------------------------------------------------------------------------
(* The store.                                                               *)

\* The bar is stamped with the moment it is written.
Stamp_slip(o) == now

\* last_ts: the moment of the last observation of the minute.
Stamp(o) == o.at

\* _flush_one's aggregate: its close is the last observation's price.
BarOf(o) == [last |-> Stamp(o), price |-> o.price]

Buffered(buf, s) == {MinuteOf(o.at) : o \in buf[s]}
Of(buf, s, m) == CHOOSE o \in buf[s] : MinuteOf(o.at) = m

\* What the store holds after the given minutes of a symbol were flushed.
Flushed(stored, buf, s, ms) ==
  [stored EXCEPT ![s] = [m \in Minutes |->
     IF m \in ms THEN BarOf(Of(buf, s, m)) ELSE stored[s][m]]]

\* Minutes of the symbol that are over once it is observed again.
Completed(buf, s) == Buffered(buf, s) \ {MinuteOf(now)}

Kept(buf, s, gone) == [buf EXCEPT ![s] = {o \in buf[s] : MinuteOf(o.at) \notin gone}]

\* The minutes of a symbol that are written before the given one: a buffer's
\* keys are written in the order they came in.
HeldBefore(buf, s, m) == {x \in Buffered(buf, s) : x < m}

\* One more observation, the last of its minute.
Held(buf, s, o) ==
  [buf EXCEPT ![s] = {x \in buf[s] : MinuteOf(x.at) # MinuteOf(o.at)} \cup {o}]

\* record_tick, its writes all done: the observation is buffered and the
\* minutes that are over are flushed.
Record(w, s, o) ==
  /\ bars' = Flushed(bars, buffer[w], s, Completed(buffer[w], s))
  /\ buffer' = [buffer EXCEPT ![w] =
       Held(Kept(buffer[w], s, Completed(buffer[w], s)), s, o)]

\* record_tick, a write raised: the minutes before it are stored, its own was
\* popped and is lost, later ones stay held.
RecordLost(w, s, o) ==
  /\ Fault
  /\ \E m \in Completed(buffer[w], s) :
       LET done == HeldBefore(buffer[w], s, m)
       IN /\ bars' = Flushed(bars, buffer[w], s, done)
          /\ buffer' = [buffer EXCEPT ![w] = Held(Kept(buffer[w], s, done \cup {m}), s, o)]

\* flush: every minute held, the one still being formed too.
FlushAll(w) ==
  /\ bars' = [s \in Symbols |->
       Flushed(bars, buffer[w], s, Buffered(buffer[w], s))[s]]
  /\ buffer' = [buffer EXCEPT ![w] = [s \in Symbols |-> {}]]

\* flush, a write raised: what was written of each symbol before it is stored,
\* one minute is lost, and the rest stays held.
FlushLost(w) ==
  /\ Fault
  /\ \E s \in Symbols : \E upto \in [Symbols -> Minutes \cup {Never}] :
       LET done(z) == HeldBefore(buffer[w], z, upto[z])
           gone(z) == IF z = s THEN done(z) \cup {upto[z]} ELSE done(z)
       IN /\ upto[s] \in Buffered(buffer[w], s)
          /\ bars' = [z \in Symbols |-> Flushed(bars, buffer[w], z, done(z))[z]]
          /\ buffer' = [buffer EXCEPT ![w] =
               [z \in Symbols |-> Kept(buffer[w], z, gone(z))[z]]]

\* get_hour.
HourBars(s, h) ==
  {m \in Minutes : m \div Hour = h /\ bars[s][m] # NoBar}

-----------------------------------------------------------------------------
(* The subscriber.                                                          *)

\* The task starts, on an empty buffer.
StartTask ==
  /\ sub = "down"
  /\ sub' = "start"
  /\ UNCHANGED <<now, feedVars, todo, slept, quotes, histVars>>

\* The top of run_forever: a heartbeat (Heartbeats), then whatever symbols the
\* refresh found, or those of the last one when it failed.
StartCycle ==
  /\ \/ sub = "start"
     \/ sub = "sleep" /\ now > slept
  /\ todo' \in SUBSET Symbols
  /\ sub' = "poll"
  /\ UNCHANGED <<now, feedVars, slept, quotes, histVars>>

\* poll_once, one symbol: a quote recorded, no quote, or a write that raises,
\* which ends the poll.
Poll(s) ==
  /\ sub = "poll"
  /\ s \in todo
  /\ LET o == [at |-> now, price |-> Quoted(now)]
     IN \/ /\ Record("subscriber", s, o)
           /\ todo' = todo \ {s}
           /\ taken' = [taken EXCEPT ![s] = MinuteOf(now)]
           /\ UNCHANGED faults
        \/ /\ RecordLost("subscriber", s, o)
           /\ todo' = {}
           /\ taken' = [taken EXCEPT ![s] = MinuteOf(now)]
        \/ /\ todo' = todo \ {s}
           /\ UNCHANGED <<feedVars, taken, faults>>
  /\ UNCHANGED <<now, sub, slept, quotes>>

\* The end of a cycle: everything held is flushed, then a sleep.
EndCycle ==
  /\ sub = "poll"
  /\ todo = {}
  /\ \/ FlushAll("subscriber") /\ UNCHANGED faults
     \/ FlushLost("subscriber")
  /\ sub' = "sleep"
  /\ slept' = now
  /\ UNCHANGED <<now, todo, quotes, taken>>

\* The process exits with what it holds.
LastFlush_slip == UNCHANGED feedVars /\ UNCHANGED faults

\* One last flush before exit.
LastFlush ==
  \/ FlushAll("subscriber") /\ UNCHANGED faults
  \/ FlushLost("subscriber")

\* SIGTERM while the loop waits: it is cancelled.
Terminate ==
  /\ sub \in {"poll", "sleep"}
  /\ LastFlush
  /\ sub' = "stopped"
  /\ todo' = {}
  /\ UNCHANGED <<now, slept, quotes, taken>>

\* The task is gone, after its exit or because it died.
EndTask ==
  /\ \/ sub = "stopped" /\ UNCHANGED faults
     \/ sub # "stopped" /\ Fault
  /\ sub # "down"
  /\ sub' = "down"
  /\ todo' = {}
  /\ buffer' = [buffer EXCEPT !["subscriber"] = [s \in Symbols |-> {}]]
  /\ UNCHANGED <<now, bars, slept, quotes, taken>>

-----------------------------------------------------------------------------
(* The trading service, its prices read from the store.                     *)

\* This hour, and the one before when there is nothing in it.
HourRead(s) ==
  LET h == HourOf(now)
  IN IF HourBars(s, h) # {} \/ h = 0 THEN HourBars(s, h) ELSE HourBars(s, h - 1)

\* _read_fresh_from_store: the newest bar of what was read, unless stale.
NewestRead(s) == CHOOSE m \in HourRead(s) :
               \A x \in HourRead(s) : bars[s][m].last >= bars[s][x].last

IsFresh(s) ==
  /\ HourRead(s) # {}
  /\ now - bars[s][NewestRead(s)].last <= Staleness

\* get_prices: from the store, else from the broker, else left out.
FetchPrice(s) ==
  /\ quotes[s] = NoQuote
  /\ quotes' = [quotes EXCEPT ![s] =
       [at |-> now,
        price |-> IF IsFresh(s) THEN Passed(bars[s][NewestRead(s)].price)
                  ELSE Quoted(now)]]
  /\ UNCHANGED <<now, feedVars, subVars, histVars>>

\* Orchestrator.tick records the prices it fetched as observations of now.
RecordPrice(s) ==
  /\ quotes[s] # NoQuote
  /\ LET o == [quotes[s] EXCEPT !.at = now]
     IN \/ Record("trader", s, o) /\ UNCHANGED faults
        \/ RecordLost("trader", s, o)
  /\ quotes' = [quotes EXCEPT ![s] = NoQuote]
  /\ UNCHANGED <<now, subVars, taken>>

\* The trading task dies and starts again.
RestartTrader ==
  /\ Fault
  /\ buffer' = [buffer EXCEPT !["trader"] = [s \in Symbols |-> {}]]
  /\ quotes' = [s \in Symbols |-> NoQuote]
  /\ UNCHANGED <<now, bars, subVars, taken>>

-----------------------------------------------------------------------------
(* The TA computer's input.                                                 *)

ByMinute(s, h) ==
  [i \in 1..Cardinality(HourBars(s, h)) |->
     CHOOSE m \in HourBars(s, h) :
       Cardinality({x \in HourBars(s, h) : x < m}) = i - 1]

\* The newest hour first.
HoursBack_slip == [i \in 1..(Lookback + 1) |-> i - 1]

\* The oldest hour first.
HoursBack == [i \in 1..(Lookback + 1) |-> Lookback + 1 - i]

\* _gather_recent_closes: the minutes whose closes go into the indicators.
RecentMinutes(s) ==
  LET Upto[i \in 0..Len(HoursBack)] ==
        IF i = 0 THEN << >>
        ELSE Upto[i - 1] \o
             IF HoursBack[i] > HourOf(now) THEN << >>
             ELSE ByMinute(s, HourOf(now) - HoursBack[i])
  IN Upto[Len(HoursBack)]

-----------------------------------------------------------------------------
\* Time passes; a price that was fetched is recorded soon.
Tick ==
  /\ now < MaxTime
  /\ \A s \in Symbols : quotes[s] # NoQuote => now - quotes[s].at < Lag
  /\ now' = now + 1
  /\ UNCHANGED <<feedVars, subVars, quotes, histVars>>

Next ==
  \/ Tick
  \/ StartTask \/ StartCycle \/ EndCycle \/ Terminate \/ EndTask
  \/ RestartTrader
  \/ \E s \in Symbols : Poll(s)
  \/ \E s \in Traded : FetchPrice(s) \/ RecordPrice(s)

Spec == Init /\ [][Next]_vars

-----------------------------------------------------------------------------
(* Properties.                                                              *)

TypeOK ==
  /\ now \in 0..MaxTime
  /\ sub \in {"down", "start", "poll", "sleep", "stopped"}
  /\ todo \subseteq Symbols
  /\ \A s \in Symbols, m \in Minutes :
       bars[s][m] # NoBar => MinuteOf(bars[s][m].last) = m

\* What is documented (store_provider's module docstring): when the store's
\* price is older than the limit, the subscriber lagging or offline, the broker
\* is asked.  A price from the store would then have left the broker no longer
\* ago than the limit and the recording's delay, whoever recorded it.
StalePriceNotServed ==
  \A s \in Symbols : quotes[s].price.via \in {"store", "echo"} =>
    quotes[s].at - quotes[s].price.seen <= Staleness + Lag

\* A price that came to the store from a broker's quote is served from it only
\* when that quote is no older than the staleness limit and the recording's
\* delay (StoreBackedMarketDataProvider).  Nothing is said of one the trading
\* service had itself read from the store before it recorded it: that one is
\* stamped anew, round after round.
QuotedIsFresh ==
  \A s \in Symbols : quotes[s].price.via = "store" =>
    quotes[s].at - quotes[s].price.seen <= Staleness + Lag

\* A price is served from the store only when no bar of a later minute is in
\* it: the turn of the hour does not bring an older price back.
ServedIsNewest ==
  \A s \in Symbols : IsFresh(s) =>
    \A m \in Minutes : bars[s][m] # NoBar => m <= NewestRead(s)

\* What holds of the prices the trading service takes from the store: the age
\* of those recorded from quotes, the order of all of them.
StorePricesHold == QuotedIsFresh /\ ServedIsNewest

\* Everything the subscriber observed is in the store once it sleeps or has
\* stopped in order, however its cycles, its termination and the trading
\* service's writes to the same minutes interleave, unless a write failed.
ObservedIsStored ==
  sub \in {"sleep", "stopped"} /\ faults = 0 =>
    \A s \in Symbols : taken[s] # Never => bars[s][taken[s]] # NoBar

\* The closes the indicators are computed from are in the order of time, over
\* the turn of the hour and under rewritten minutes (_gather_recent_closes).
ClosesInOrder ==
  \A s \in Symbols :
    LET ms == RecentMinutes(s)
    IN \A i, j \in 1..Len(ms) : i < j => bars[s][ms[i]].last < bars[s][ms[j]].last
=============================================================================
