----------------------------- MODULE FeedProofs -----------------------------
(***************************************************************************)
(* The feeds the bots are run on and the watch kept over them, for any       *)
(* symbols, tickers, filings, agents, limits and overlapping runs: the       *)
(* EDGAR watcher's index, the platform supervisor's report, and the minute   *)
(* bars the trading service and the TA computer read.                        *)
(***************************************************************************)
EXTENDS FilingsWatch, Heartbeats, MarketFeed, FiniteSetTheorems, WellFoundedInduction, TLAPS

-----------------------------------------------------------------------------
(* FilingsWatch: what the filings tool lists it can read.  That the index is *)
(* within the bodies is not inductive by itself: a run about to put an index *)
(* row must have put that filing's body, and the filing it is at must not    *)
(* have changed since.                                                      *)

\* The shape of the runs, as far as the proof needs it.
AnyFilings == Tickers \X Nat

RunShapes ==
  [Runs -> [pc   : {"idle", "filing", "body", "index"}, left : SUBSET Tickers,
            todo : SUBSET AnyFilings, spared : BOOLEAN]]

RunShape == run \in RunShapes

\* A run about to put an index row has put the body.
BodyFirst == \A r \in Runs : run[r].pc = "index" => NextFiling(r) \in bodies

WatchInv ==
  /\ watched \subseteq Tickers
  /\ RunShape
  /\ BodyFirst
  /\ IndexHasBody

\* Only the run at work moves, and bodies are never taken away: what remains to
\* be shown of a step is where its own run gets.
LEMMA OthersKeepTheirBody ==
  ASSUME BodyFirst, NEW r \in Runs, bodies \subseteq bodies',
         \A q \in Runs \ {r} : run'[q] = run[q],
         run'[r].pc = "index" => Newest(run'[r].todo) \in bodies'
  PROVE  BodyFirst'
<1> SUFFICES ASSUME NEW q \in Runs, run'[q].pc = "index"
             PROVE  Newest(run'[q].todo) \in bodies'
  BY DEF BodyFirst, NextFiling
<1>1. CASE q = r
  BY <1>1
<1>2. CASE q # r
  BY <1>2 DEF BodyFirst, NextFiling
<1> QED BY <1>1, <1>2

\* Nothing runs and nothing is indexed at first.
LEMMA WatchStarts == WatchInit => WatchInv
BY DEF WatchInit, WatchInv, RunShape, RunShapes, BodyFirst, IndexHasBody, Idle

\* The feed of a ticker holds filings of that ticker.
LEMMA FeedShape ==
  ASSUME NEW t \in Tickers
  PROVE  Feed(t) \subseteq AnyFilings
BY DEF Feed, AnyFilings

\* Every step of a run keeps the invariant; but for the two puts it only moves
\* the run, and never to the index row of a filing.
LEMMA StepKeeps ==
  ASSUME WatchInv, NEW r \in Runs, WatchStep(r)
  PROVE  WatchInv'
<1>1. CASE FetchFeed(r)
  <2> USE <1>1 DEF FetchFeed, NextTicker, WatchInv
  <2>1. PICK t \in run[r].left :
          /\ run[r].pc = "filing"
          /\ run' = [run EXCEPT ![r].left = @ \ {t}, ![r].todo = Feed(t)]
    OBVIOUS
  <2>2. Feed(t) \subseteq AnyFilings
    BY FeedShape, <2>1 DEF RunShape, RunShapes
  <2>3. RunShape'
    <3> DEFINE rest == run[r].left \ {t}
               feed == Feed(t)
               cut  == [run EXCEPT ![r].left = rest]
    <3>1. rest \in SUBSET Tickers /\ feed \in SUBSET AnyFilings
      BY <2>2 DEF RunShape, RunShapes
    <3>2. run' = [cut EXCEPT ![r].todo = feed]
      BY <2>1
    <3>3. cut \in RunShapes
      <4> HIDE DEF rest
      <4> QED BY <3>1 DEF RunShape, RunShapes
    <3> HIDE DEF rest, feed, cut, FetchFeed, WatchInv
    <3>4. run' \in RunShapes
      BY ONLY <3>1, <3>2, <3>3, r \in Runs DEF RunShapes
    <3> QED BY <3>4 DEF RunShape
  <2>4. BodyFirst'
    BY <2>1, OthersKeepTheirBody DEF RunShape, RunShapes
  <2> QED BY <2>3, <2>4 DEF IndexHasBody
<1>2. CASE FeedFails(r)
  <2> USE <1>2 DEF FeedFails, NextTicker, WatchInv
  <2>1. PICK t \in run[r].left :
          /\ run[r].pc = "filing"
          /\ run' = [run EXCEPT ![r].left = @ \ {t}]
    OBVIOUS
  <2>2. RunShape'
    BY <2>1 DEF RunShape, RunShapes
  <2>3. BodyFirst'
    BY <2>1, OthersKeepTheirBody DEF RunShape, RunShapes
  <2> QED BY <2>2, <2>3 DEF IndexHasBody
<1>3. CASE LookUp(r) \/ BodyFails(r)
  <2> USE <1>3 DEF LookUp, BodyFails, Continue, Skip, WatchInv
  <2>1. RunShape'
    BY DEF RunShape, RunShapes
  <2>2. BodyFirst'
    <3>1. run'[r].pc # "index" /\ \A q \in Runs \ {r} : run'[q] = run[q]
      BY DEF RunShape, RunShapes
    <3> QED BY <3>1, OthersKeepTheirBody
  <2> QED BY <2>1, <2>2 DEF IndexHasBody
<1>4. CASE StoreBody(r)
  <2> USE <1>4 DEF StoreBody, Continue, WatchInv
  <2>1. RunShape'
    BY DEF RunShape, RunShapes
  <2>2. run'[r].todo = run[r].todo
    BY DEF RunShape, RunShapes
  <2>3. Newest(run'[r].todo) \in bodies'
    BY <2>2 DEF NextFiling
  <2>4. \A q \in Runs \ {r} : run'[q] = run[q]
    BY DEF RunShape, RunShapes
  <2>5. BodyFirst'
    BY <2>3, <2>4, OthersKeepTheirBody
  <2> QED BY <2>1, <2>5 DEF IndexHasBody
<1>5. CASE StoreIndex(r)
  <2> USE <1>5 DEF StoreIndex, Skip, WatchInv
  <2>1. RunShape'
    BY DEF RunShape, RunShapes
  <2>2. run'[r].pc # "index" /\ \A q \in Runs \ {r} : run'[q] = run[q]
    BY DEF RunShape, RunShapes
  <2>3. BodyFirst'
    BY <2>2, OthersKeepTheirBody
  <2>4. NextFiling(r) \in bodies
    BY DEF BodyFirst
  <2>5. IndexHasBody'
    BY <2>4 DEF IndexHasBody
  <2> QED BY <2>1, <2>3, <2>5
<1>6. CASE EndRun(r)
  <2> USE <1>6 DEF EndRun, Idle, WatchInv
  <2>1. RunShape'
    BY DEF RunShape, RunShapes
  <2>2. run'[r].pc # "index" /\ \A q \in Runs \ {r} : run'[q] = run[q]
    BY DEF RunShape, RunShapes
  <2>3. BodyFirst'
    BY <2>2, OthersKeepTheirBody
  <2> QED BY <2>1, <2>3 DEF IndexHasBody
<1> QED BY <1>1, <1>2, <1>3, <1>4, <1>5, <1>6 DEF WatchStep

\* The steps of companies and users leave the runs and their filings alone.
LEMMA WorldKeeps ==
  ASSUME WatchInv, NEW t \in Tickers, Release(t) \/ Watch(t)
  PROVE  WatchInv'
BY DEF WatchInv, Release, Watch, RunShape, RunShapes, BodyFirst, NextFiling, IndexHasBody

LEMMA StartKeeps ==
  ASSUME WatchInv, NEW r \in Runs, NEW s \in BOOLEAN, StartRun(r, s)
  PROVE  WatchInv'
<1> USE DEF StartRun, WatchInv
<1>1. RunShape'
  BY DEF RunShape, RunShapes
<1>2. run'[r].pc # "index" /\ \A q \in Runs \ {r} : run'[q] = run[q]
  BY DEF RunShape, RunShapes
<1>3. BodyFirst'
  BY <1>2, OthersKeepTheirBody
<1> QED BY <1>1, <1>3 DEF IndexHasBody

\* Whatever fails, is cut off, retried or overlaps, and however many tickers and
\* filings there are: what the filings tool lists has a body it can read
\* (process_ticker puts the body before the index row).
THEOREM IndexedIsReadable == WatchSpec => []IndexHasBody
<1>1. WatchInv /\ [WatchNext]_watchVars => WatchInv'
  <2>1. CASE WatchNext
    BY <2>1, StepKeeps, WorldKeeps, StartKeeps DEF WatchNext
  <2>2. CASE UNCHANGED watchVars
    BY <2>2 DEF watchVars, WatchInv, RunShape, RunShapes, BodyFirst, NextFiling, IndexHasBody
  <2> QED BY <2>1, <2>2
<1>2. WatchInv => IndexHasBody
  BY DEF WatchInv
<1> QED BY WatchStarts, <1>1, <1>2, PTL DEF WatchSpec

-----------------------------------------------------------------------------
(* Heartbeats: silence is reported.  What the last check said of a row holds *)
(* on while the row and the time since that check grow together: the         *)
(* induction needs their types, and nothing else.                           *)

Clocks ==
  /\ age \in [Agents -> 0..NoRow]
  /\ phase \in 0..(Period - 1)

\* Of a fast agent's row, as SilenceIsReported says.
Reported(a) ==
  age[a] # NoRow /\ ~due /\ age[a] >= Missing + phase => report[a] = "missing"

SilenceInv == Clocks /\ \A a \in Fast : Reported(a)

LEMMA Limits ==
  /\ Stale \in Nat /\ Missing \in Nat /\ Period \in Nat /\ BeatTtl \in Nat
  /\ 0 < Period /\ 0 < Stale /\ Stale < Missing /\ Missing + Period < BeatTtl
BY BeatsAssumption DEF BeatsAssumption

LEMMA SilenceStart == BeatsInit => SilenceInv
BY Limits DEF BeatsInit, SilenceInv, Clocks, Reported, NoRow, Agents

\* Time passes: it goes round a period, and the check is due when it does.
LEMMA PhaseTurns ==
  ASSUME phase \in 0..(Period - 1), Pass
  PROVE  /\ phase' \in 0..(Period - 1)
         /\ due' \/ phase' = phase + 1
<1>1. CASE phase + 1 < Period
  BY <1>1, Limits DEF Pass
<1>2. CASE phase + 1 = Period
  <2>1. Period % Period = 0
    BY Limits
  <2>2. phase' = (phase + 1) % Period /\ due' = (phase' = 0)
    BY DEF Pass
  <2>3. phase' = 0
    BY <1>2, <2>1, <2>2
  <2>4. due'
    BY <2>2, <2>3
  <2> QED BY <2>3, <2>4, Limits
<1> QED BY <1>1, <1>2, Limits

LEMMA PassKeeps ==
  ASSUME SilenceInv, Pass
  PROVE  SilenceInv'
<1>1. phase' \in 0..(Period - 1) /\ (due' \/ phase' = phase + 1)
  BY PhaseTurns DEF SilenceInv, Clocks
<1>2. /\ ~due /\ report' = report
      /\ age' = [a \in Agents |-> IF age[a] < Oldest THEN age[a] + 1 ELSE age[a]]
  BY DEF Pass
<1>3. age' \in [Agents -> 0..NoRow]
  BY <1>2, Limits DEF SilenceInv, Clocks, Oldest, NoRow
<1>4. ASSUME NEW a \in Fast, age'[a] # NoRow, ~due', age'[a] >= Missing + phase'
      PROVE  report'[a] = "missing"
  <2>1. a \in Agents /\ age[a] \in 0..NoRow /\ phase \in 0..(Period - 1) /\ phase' = phase + 1
    BY <1>1, <1>4 DEF SilenceInv, Clocks, Agents
  <2>2. age'[a] = IF age[a] < Oldest THEN age[a] + 1 ELSE age[a]
    BY <1>2, <2>1
  <2>3. age[a] # NoRow /\ age[a] >= Missing + phase
    BY <1>4, <2>1, <2>2, Limits DEF Oldest, NoRow
  <2> QED BY <1>2, <2>3 DEF SilenceInv, Reported
<1> QED BY <1>1, <1>3, <1>4 DEF SilenceInv, Clocks, Reported

LEMMA CheckKeeps ==
  ASSUME SilenceInv, CheckHealth
  PROVE  SilenceInv'
<1>1. age' = age /\ phase' = phase
  BY DEF CheckHealth
<1>2. ASSUME NEW a \in Fast, age[a] # NoRow, age[a] >= Missing + phase
      PROVE  report'[a] = "missing"
  <2>1. a \in Agents /\ age[a] \in 0..NoRow /\ phase \in 0..(Period - 1)
    BY <1>2 DEF SilenceInv, Clocks, Agents
  <2>2. Classify(age[a]) = "missing"
    BY <1>2, <2>1, Limits DEF Classify, NoRow
  <2> QED BY <1>2, <2>1, <2>2 DEF CheckHealth
<1> QED BY <1>1, <1>2 DEF SilenceInv, Clocks, Reported

LEMMA SilenceStep == SilenceInv /\ [BeatsNext]_beatVars => SilenceInv'
<1> SUFFICES ASSUME SilenceInv, [BeatsNext]_beatVars PROVE SilenceInv'
  OBVIOUS
<1>1. ASSUME NEW b \in Agents, StartAgent(b) \/ StopAgent(b) PROVE SilenceInv'
  BY <1>1 DEF StartAgent, StopAgent, SilenceInv, Clocks, Reported
<1>2. ASSUME NEW b \in Agents, BeatOnce(b) PROVE SilenceInv'
  <2>1. /\ age' = [age EXCEPT ![b] = 0]
        /\ phase' = phase /\ due' = due /\ report' = report
    BY <1>2 DEF BeatOnce
  <2>2. Clocks'
    BY <2>1, Limits DEF SilenceInv, Clocks, NoRow
  <2>3. ASSUME NEW a \in Fast PROVE Reported(a)'
    BY <2>1, <2>3, Limits DEF SilenceInv, Clocks, Reported, Agents
  <2> QED BY <2>2, <2>3 DEF SilenceInv
<1>3. ASSUME NEW b \in Agents, ExpireRow(b) PROVE SilenceInv'
  <2>1. /\ age' = [age EXCEPT ![b] = NoRow]
        /\ phase' = phase /\ due' = due /\ report' = report
    BY <1>3 DEF ExpireRow
  <2>2. Clocks'
    BY <2>1, Limits DEF SilenceInv, Clocks, NoRow
  <2>3. ASSUME NEW a \in Fast PROVE Reported(a)'
    BY <2>1, <2>3 DEF SilenceInv, Clocks, Reported, Agents
  <2> QED BY <2>2, <2>3 DEF SilenceInv
<1>4. CASE UNCHANGED beatVars
  BY <1>4 DEF beatVars, SilenceInv, Clocks, Reported
<1> QED BY <1>1, <1>2, <1>3, <1>4, PassKeeps, CheckKeeps DEF BeatsNext

\* A bot or subscriber that has beaten and then falls silent is reported missing
\* from the first check after the limit until its row expires, whatever the
\* limits, the period and the other agents (classify_beat, check_health).
THEOREM SilenceIsHeard == BeatsSpec => []SilenceIsReported
<1>1. SilenceInv => SilenceIsReported
  BY DEF SilenceInv, Reported, SilenceIsReported
<1> QED BY SilenceStart, SilenceStep, <1>1, PTL DEF BeatsSpec

LEMMA BeatsKeepTypes == SilenceInv /\ BeatsTypeOK /\ [BeatsNext]_beatVars => BeatsTypeOK'
<1> SUFFICES ASSUME SilenceInv, BeatsTypeOK, [BeatsNext]_beatVars PROVE BeatsTypeOK'
  OBVIOUS
<1>1. age' \in [Agents -> 0..NoRow] /\ phase' \in 0..(Period - 1)
  BY SilenceStep DEF SilenceInv, Clocks
<1>2. running' \subseteq Agents
  BY DEF BeatsTypeOK, BeatsNext, beatVars, Pass, CheckHealth, StartAgent, StopAgent,
     BeatOnce, ExpireRow
<1>3. due' \in BOOLEAN
  BY DEF BeatsTypeOK, BeatsNext, beatVars, Pass, CheckHealth, StartAgent, StopAgent,
     BeatOnce, ExpireRow
<1>4. report' \in [Agents -> {"unknown", "healthy", "stale", "missing", "untracked"}]
  <2>1. CASE CheckHealth
    BY <2>1 DEF CheckHealth, Classify
  <2>2. CASE report' = report
    BY <2>2 DEF BeatsTypeOK
  <2> QED
    BY <2>1, <2>2 DEF BeatsNext, beatVars, Pass, StartAgent, StopAgent, BeatOnce, ExpireRow
<1> QED BY <1>1, <1>2, <1>3, <1>4 DEF BeatsTypeOK

\* Ages, reports and the check's clock keep their types (check_health, beat).
THEOREM BeatsTypes == BeatsSpec => []BeatsTypeOK
<1>1. BeatsInit => BeatsTypeOK
  BY SilenceStart DEF BeatsInit, BeatsTypeOK, SilenceInv, Clocks
<1> QED BY SilenceStart, SilenceStep, BeatsKeepTypes, <1>1, PTL DEF BeatsSpec

-----------------------------------------------------------------------------
(* MarketFeed: what the store holds of prices is as old as it says.  The     *)
(* properties speak of what is served and of what is stored at rest; what    *)
(* makes them inductive is what every observation on its way to the store    *)
(* carries: a time already past, a quote recorded within the lag, and, while *)
(* no write failed, nothing of the subscriber's in neither place.            *)

PriceSet == [seen : 0..MaxTime, via : {"broker", "store", "echo", "none"}]
ObservationSet == [at : 0..MaxTime, price : PriceSet]
BarSet == [last : 0..Never, price : PriceSet]

Clock == now \in 0..MaxTime

StoreShape ==
  /\ bars \in [Symbols -> [Minutes -> BarSet]]
  /\ buffer \in [Writers -> [Symbols -> SUBSET ObservationSet]]

DeskShape ==
  /\ quotes \in [Symbols -> [at : 0..Never, price : PriceSet]]
  /\ taken \in [Symbols -> Minutes \cup {Never}]
  /\ sub \in {"down", "start", "poll", "sleep", "stopped"}
  /\ todo \subseteq Symbols
  /\ faults \in Nat

\* A price recorded at a time had left the broker at most a lag before it,
\* if it came from there.
Prompt(at, price) == price.via = "broker" => at <= price.seen + Lag

GoodBar(b, m) ==
  b # NoBar => b.last <= now /\ MinuteOf(b.last) = m /\ Prompt(b.last, b.price)

BarsHold == \A s \in Symbols : \A m \in Minutes : GoodBar(bars[s][m], m)

BuffersHold ==
  \A w \in Writers : \A s \in Symbols : \A o \in buffer[w][s] :
    o.at <= now /\ Prompt(o.at, o.price)

GoodQuote(q) ==
  q # NoQuote =>
    /\ q.at <= now /\ now <= q.at + Lag
    /\ q.price.via = "broker" => q.price.seen = q.at
    /\ q.price.via = "store" => q.at <= q.price.seen + Staleness + Lag

QuotesHold == \A s \in Symbols : GoodQuote(quotes[s])

\* Nothing the subscriber observed is lost without a fault: it holds what is
\* not stored, and nothing between its cycles.
NothingDropped ==
  faults = 0 =>
    \A s \in Symbols :
      /\ taken[s] # Never => \/ bars[s][taken[s]] # NoBar
                             \/ taken[s] \in Buffered(buffer["subscriber"], s)
      /\ sub # "poll" => buffer["subscriber"][s] = {}

FeedInv ==
  /\ Clock /\ StoreShape /\ DeskShape
  /\ BarsHold /\ BuffersHold /\ QuotesHold /\ NothingDropped

-----------------------------------------------------------------------------
(* Minutes and buffers.                                                     *)

LEMMA DivIsMonotone ==
  ASSUME NEW P \in Nat \ {0}, NEW t \in Nat, NEW u \in Nat, t <= u
  PROVE  t \div P \in Nat /\ u \div P \in Nat /\ t \div P <= u \div P
OBVIOUS

LEMMA MinutesInOrder ==
  ASSUME NEW t \in 0..MaxTime, NEW u \in 0..MaxTime, t <= u
  PROVE  MinuteOf(t) \in Minutes /\ MinuteOf(u) \in Minutes /\ MinuteOf(t) <= MinuteOf(u)
<1>1. Minute \in Nat \ {0} /\ MaxTime \in Nat
  BY FeedAssumption
<1>2. t \in Nat /\ u \in Nat /\ u <= MaxTime
  BY <1>1
<1>3. t \div Minute \in Nat /\ u \div Minute \in Nat /\ t \div Minute <= u \div Minute
  BY <1>1, <1>2, DivIsMonotone
<1>4. MaxTime \div Minute \in Nat /\ u \div Minute <= MaxTime \div Minute
  BY <1>1, <1>2, DivIsMonotone
<1> QED BY <1>3, <1>4 DEF MinuteOf, Minutes

\* The observation a buffer holds of a minute it holds.
LEMMA OfIsHeld ==
  ASSUME NEW buf, NEW s, NEW m \in Buffered(buf, s)
  PROVE  Of(buf, s, m) \in buf[s] /\ MinuteOf(Of(buf, s, m).at) = m
<1> PICK o \in buf[s] : MinuteOf(o.at) = m
  BY DEF Buffered
<1> QED BY DEF Of

\* The bar a good observation becomes.
LEMMA BarIsGood ==
  ASSUME Clock, NEW o \in ObservationSet, o.at <= now, Prompt(o.at, o.price)
  PROVE  /\ BarOf(o) \in BarSet
         /\ BarOf(o) # NoBar
         /\ GoodBar(BarOf(o), MinuteOf(o.at))
<1>1. o.at \in 0..MaxTime /\ o.price \in PriceSet
  BY DEF ObservationSet
<1>2. BarOf(o).last = o.at /\ BarOf(o).price = o.price /\ BarOf(o) = [last |-> o.at, price |-> o.price]
  BY DEF BarOf, Stamp
<1>3. MaxTime \in Nat
  BY FeedAssumption
<1>4. o.at # Never /\ o.at \in 0..Never
  BY <1>1, <1>3 DEF Never
<1>5. NoBar.last = Never
  BY DEF NoBar
<1>6. BarOf(o) # NoBar
  BY <1>2, <1>4, <1>5
<1>7. BarOf(o) \in BarSet
  BY <1>1, <1>2, <1>4 DEF BarSet
<1> QED BY <1>2, <1>6, <1>7 DEF GoodBar

\* One symbol's minutes are flushed.
LEMMA FlushedHolds ==
  ASSUME Clock, StoreShape, BarsHold, BuffersHold,
         NEW w \in Writers, NEW s \in Symbols, NEW ms \in SUBSET Buffered(buffer[w], s)
  PROVE  /\ Flushed(bars, buffer[w], s, ms) \in [Symbols -> [Minutes -> BarSet]]
         /\ \A z \in Symbols : \A m \in Minutes :
              /\ GoodBar(Flushed(bars, buffer[w], s, ms)[z][m], m)
              /\ bars[z][m] # NoBar => Flushed(bars, buffer[w], s, ms)[z][m] # NoBar
         /\ \A m \in Minutes \cap ms : Flushed(bars, buffer[w], s, ms)[s][m] # NoBar
<1> DEFINE row == [m \in Minutes |-> IF m \in ms THEN BarOf(Of(buffer[w], s, m)) ELSE bars[s][m]]
           after == Flushed(bars, buffer[w], s, ms)
<1>1. after = [bars EXCEPT ![s] = row]
  BY DEF Flushed
<1>2. ASSUME NEW m \in ms
      PROVE  BarOf(Of(buffer[w], s, m)) \in BarSet /\ BarOf(Of(buffer[w], s, m)) # NoBar
             /\ GoodBar(BarOf(Of(buffer[w], s, m)), m)
  <2>1. Of(buffer[w], s, m) \in buffer[w][s] /\ MinuteOf(Of(buffer[w], s, m).at) = m
    BY OfIsHeld
  <2>2. Of(buffer[w], s, m) \in ObservationSet
    BY <2>1 DEF StoreShape
  <2>3. Of(buffer[w], s, m).at <= now /\ Prompt(Of(buffer[w], s, m).at, Of(buffer[w], s, m).price)
    BY <2>1 DEF BuffersHold
  <2> HIDE DEF row, after
  <2> QED BY <2>1, <2>2, <2>3, BarIsGood
<1>3. bars \in [Symbols -> [Minutes -> BarSet]] /\ \A z \in Symbols : \A m \in Minutes : GoodBar(bars[z][m], m)
  BY DEF StoreShape, BarsHold
<1>4. row \in [Minutes -> BarSet]
  BY <1>2, <1>3
<1>5. \A m \in Minutes : GoodBar(row[m], m)
  BY <1>2, <1>3
<1>6. \A m \in Minutes : bars[s][m] # NoBar => row[m] # NoBar
  BY <1>2
<1>7. \A m \in Minutes \cap ms : row[m] # NoBar
  BY <1>2
<1> HIDE DEF row
<1>8. after \in [Symbols -> [Minutes -> BarSet]] /\ after[s] = row
      /\ \A z \in Symbols : z # s => after[z] = bars[z]
  BY <1>1, <1>3, <1>4
<1> HIDE DEF after
<1>9. \A z \in Symbols : \A m \in Minutes :
        GoodBar(after[z][m], m) /\ (bars[z][m] # NoBar => after[z][m] # NoBar)
  BY <1>3, <1>5, <1>6, <1>8
<1>10. \A m \in Minutes \cap ms : after[s][m] # NoBar
  BY <1>7, <1>8
<1> QED BY <1>8, <1>9, <1>10 DEF after

-----------------------------------------------------------------------------
(* What a write to the store keeps.                                         *)

Grows == \A s \in Symbols : \A m \in Minutes : bars[s][m] # NoBar => bars'[s][m] # NoBar

\* The part of the invariant the store's operations move.
StoreHolds == StoreShape /\ BarsHold /\ BuffersHold

\* Only the writer's own buffer changes.
OthersHeld(w) == \A v \in Writers \ {w} : buffer'[v] = buffer[v]

\* A buffer some minutes are taken from, with an observation of now put in.
LEMMA HeldHolds ==
  ASSUME StoreHolds, NEW w \in Writers, NEW s \in Symbols, NEW gone,
         NEW o \in ObservationSet, o.at = now, Prompt(o.at, o.price), Clock,
         now' = now,
         buffer' = [buffer EXCEPT ![w] = Held(Kept(buffer[w], s, gone), s, o)]
  PROVE  /\ buffer' \in [Writers -> [Symbols -> SUBSET ObservationSet]]
         /\ BuffersHold'
         /\ OthersHeld(w)
         /\ \A z \in Symbols \ {s} : buffer'[w][z] = buffer[w][z]
         /\ MinuteOf(now) \in Buffered(buffer'[w], s)
<1> DEFINE kept == {x \in buffer[w][s] : MinuteOf(x.at) \notin gone}
           held == {x \in kept : MinuteOf(x.at) # MinuteOf(o.at)} \cup {o}
           after == [buffer[w] EXCEPT ![s] = held]
<1>1. buffer \in [Writers -> [Symbols -> SUBSET ObservationSet]]
  BY DEF StoreHolds, StoreShape
<1>2. \A x \in held : x \in buffer[w][s] \/ x = o
  OBVIOUS
<1>3. held \in SUBSET ObservationSet /\ o \in held
  BY <1>1, <1>2
<1>4. Held(Kept(buffer[w], s, gone), s, o) = after
  <2>1. Kept(buffer[w], s, gone) = [buffer[w] EXCEPT ![s] = kept]
    BY DEF Kept
  <2>2. Kept(buffer[w], s, gone)[s] = kept
    BY <1>1, <2>1
  <2>3. Held(Kept(buffer[w], s, gone), s, o) = [[buffer[w] EXCEPT ![s] = kept] EXCEPT ![s] = held]
    BY <2>1, <2>2 DEF Held
  <2> HIDE DEF kept, held
  <2> QED BY <1>1, <2>3
<1> HIDE DEF held
<1>5. after \in [Symbols -> SUBSET ObservationSet] /\ after[s] = held
      /\ \A z \in Symbols \ {s} : after[z] = buffer[w][z]
  BY <1>1, <1>3
<1> HIDE DEF after
<1>6. buffer' = [buffer EXCEPT ![w] = after]
  BY <1>4
<1>7. /\ buffer' \in [Writers -> [Symbols -> SUBSET ObservationSet]]
      /\ buffer'[w] = after
      /\ \A v \in Writers \ {w} : buffer'[v] = buffer[v]
  BY <1>1, <1>5, <1>6
<1>8. ASSUME NEW v \in Writers, NEW z \in Symbols, NEW x \in buffer'[v][z]
      PROVE  x.at <= now /\ Prompt(x.at, x.price)
  <2>1. CASE v # w \/ z # s
    <3>1. x \in buffer[v][z]
      BY <1>5, <1>7, <2>1
    <3> QED BY <3>1 DEF StoreHolds, BuffersHold
  <2>2. CASE v = w /\ z = s
    <3>1. x \in held
      BY <1>5, <1>7, <2>2
    <3>2. x \in buffer[w][s] \/ x = o
      BY <1>2, <3>1
    <3>3. now \in Nat
      BY FeedAssumption DEF Clock
    <3> QED BY <3>2, <3>3 DEF StoreHolds, BuffersHold
  <2> QED BY <2>1, <2>2
<1>9. BuffersHold'
  BY <1>8 DEF BuffersHold, Prompt
<1>10. MinuteOf(now) \in Buffered(buffer'[w], s)
  BY <1>3, <1>5, <1>7 DEF Buffered
<1> QED BY <1>5, <1>7, <1>9, <1>10 DEF OthersHeld

LEMMA RecordKeeps ==
  ASSUME StoreHolds, NEW w \in Writers, NEW s \in Symbols,
         NEW o \in ObservationSet, o.at = now, Prompt(o.at, o.price), Clock,
         now' = now, Record(w, s, o)
  PROVE  /\ StoreHolds' /\ Grows /\ OthersHeld(w)
         /\ \A z \in Symbols \ {s} : buffer'[w][z] = buffer[w][z]
         /\ MinuteOf(now) \in Buffered(buffer'[w], s)
<1> DEFINE gone == Completed(buffer[w], s)
<1>1. gone \in SUBSET Buffered(buffer[w], s)
  BY DEF Completed
<1>2. bars' = Flushed(bars, buffer[w], s, gone)
      /\ buffer' = [buffer EXCEPT ![w] = Held(Kept(buffer[w], s, gone), s, o)]
  BY DEF Record
<1> HIDE DEF gone
<1>3. StoreShape /\ BarsHold /\ BuffersHold
  BY DEF StoreHolds
<1>4. /\ bars' \in [Symbols -> [Minutes -> BarSet]]
      /\ \A z \in Symbols : \A m \in Minutes :
           GoodBar(bars'[z][m], m) /\ (bars[z][m] # NoBar => bars'[z][m] # NoBar)
  BY <1>1, <1>2, <1>3, FlushedHolds
<1>5. BarsHold' /\ Grows
  BY <1>4 DEF BarsHold, GoodBar, Grows, Prompt
<1>6. /\ buffer' \in [Writers -> [Symbols -> SUBSET ObservationSet]]
      /\ BuffersHold' /\ OthersHeld(w)
      /\ \A z \in Symbols \ {s} : buffer'[w][z] = buffer[w][z]
      /\ MinuteOf(now) \in Buffered(buffer'[w], s)
  BY <1>2, HeldHolds
<1> QED BY <1>4, <1>5, <1>6 DEF StoreHolds, StoreShape

LEMMA RecordLostKeeps ==
  ASSUME StoreHolds, NEW w \in Writers, NEW s \in Symbols,
         NEW o \in ObservationSet, o.at = now, Prompt(o.at, o.price), Clock,
         now' = now, RecordLost(w, s, o)
  PROVE  StoreHolds' /\ Grows /\ OthersHeld(w)
<1>1. PICK m \in Completed(buffer[w], s) :
        /\ bars' = Flushed(bars, buffer[w], s, HeldBefore(buffer[w], s, m))
        /\ buffer' = [buffer EXCEPT ![w] =
             Held(Kept(buffer[w], s, HeldBefore(buffer[w], s, m) \cup {m}), s, o)]
  BY DEF RecordLost
<1> DEFINE done == HeldBefore(buffer[w], s, m)
<1>2. done \in SUBSET Buffered(buffer[w], s)
  BY DEF HeldBefore
<1>3. StoreShape /\ BarsHold /\ BuffersHold
  BY DEF StoreHolds
<1>4. /\ bars' = Flushed(bars, buffer[w], s, done)
      /\ buffer' = [buffer EXCEPT ![w] = Held(Kept(buffer[w], s, done \cup {m}), s, o)]
  BY <1>1
<1> HIDE DEF done
<1>5. /\ bars' \in [Symbols -> [Minutes -> BarSet]]
      /\ \A z \in Symbols : \A x \in Minutes :
           GoodBar(bars'[z][x], x) /\ (bars[z][x] # NoBar => bars'[z][x] # NoBar)
  BY <1>2, <1>3, <1>4, FlushedHolds
<1>6. BarsHold' /\ Grows
  BY <1>5 DEF BarsHold, GoodBar, Grows, Prompt
<1>7. /\ buffer' \in [Writers -> [Symbols -> SUBSET ObservationSet]]
      /\ BuffersHold' /\ OthersHeld(w)
  BY <1>4, HeldHolds
<1> QED BY <1>5, <1>6, <1>7 DEF StoreHolds, StoreShape

\* A buffer of which some is taken away.
LEMMA FewerHold ==
  ASSUME StoreHolds, NEW w \in Writers, NEW b \in [Symbols -> SUBSET ObservationSet],
         \A s \in Symbols : b[s] \subseteq buffer[w][s],
         now' = now, buffer' = [buffer EXCEPT ![w] = b]
  PROVE  /\ buffer' \in [Writers -> [Symbols -> SUBSET ObservationSet]]
         /\ BuffersHold' /\ OthersHeld(w) /\ buffer'[w] = b
<1>1. buffer \in [Writers -> [Symbols -> SUBSET ObservationSet]]
  BY DEF StoreHolds, StoreShape
<1>2. /\ buffer' \in [Writers -> [Symbols -> SUBSET ObservationSet]]
      /\ buffer'[w] = b
      /\ \A v \in Writers \ {w} : buffer'[v] = buffer[v]
  BY <1>1
<1>3. \A v \in Writers : \A s \in Symbols : buffer'[v][s] \subseteq buffer[v][s]
  BY <1>2
<1>4. BuffersHold'
  BY <1>3 DEF StoreHolds, BuffersHold, Prompt
<1> QED BY <1>2, <1>4 DEF OthersHeld

LEMMA NoObservations == [s \in Symbols |-> {}] \in [Symbols -> SUBSET ObservationSet]
OBVIOUS

LEMMA FlushKeeps ==
  ASSUME StoreHolds, NEW w \in Writers, Clock, now' = now, FlushAll(w)
  PROVE  /\ StoreHolds' /\ Grows /\ OthersHeld(w)
         /\ \A s \in Symbols :
              /\ buffer'[w][s] = {}
              /\ \A m \in Minutes \cap Buffered(buffer[w], s) : bars'[s][m] # NoBar
<1>1. StoreShape /\ BarsHold /\ BuffersHold
  BY DEF StoreHolds
<1>2. bars' = [s \in Symbols |-> Flushed(bars, buffer[w], s, Buffered(buffer[w], s))[s]]
      /\ buffer' = [buffer EXCEPT ![w] = [s \in Symbols |-> {}]]
  BY DEF FlushAll
<1>3. ASSUME NEW s \in Symbols
      PROVE  /\ bars'[s] \in [Minutes -> BarSet]
             /\ \A m \in Minutes :
                  GoodBar(bars'[s][m], m) /\ (bars[s][m] # NoBar => bars'[s][m] # NoBar)
             /\ \A m \in Minutes \cap Buffered(buffer[w], s) : bars'[s][m] # NoBar
  <2> DEFINE f == Flushed(bars, buffer[w], s, Buffered(buffer[w], s))
  <2>1. bars'[s] = f[s]
    BY <1>2
  <2>2. /\ f \in [Symbols -> [Minutes -> BarSet]]
        /\ \A z \in Symbols : \A m \in Minutes :
             GoodBar(f[z][m], m) /\ (bars[z][m] # NoBar => f[z][m] # NoBar)
        /\ \A m \in Minutes \cap Buffered(buffer[w], s) : f[s][m] # NoBar
    BY <1>1, FlushedHolds
  <2> HIDE DEF f
  <2> QED BY <2>1, <2>2
<1>4. bars' \in [Symbols -> [Minutes -> BarSet]]
  BY <1>2, <1>3
<1>5. BarsHold' /\ Grows
  BY <1>3 DEF BarsHold, GoodBar, Grows, Prompt
<1>6. /\ buffer' \in [Writers -> [Symbols -> SUBSET ObservationSet]]
      /\ BuffersHold' /\ OthersHeld(w) /\ buffer'[w] = [s \in Symbols |-> {}]
  BY <1>2, FewerHold, NoObservations
<1> QED BY <1>3, <1>4, <1>5, <1>6 DEF StoreHolds, StoreShape

LEMMA FlushLostKeeps ==
  ASSUME StoreHolds, NEW w \in Writers, Clock, now' = now, FlushLost(w)
  PROVE  StoreHolds' /\ Grows /\ OthersHeld(w)
<1>1. PICK s \in Symbols, upto \in [Symbols -> Minutes \cup {Never}] :
        /\ bars' = [z \in Symbols |->
             Flushed(bars, buffer[w], z, HeldBefore(buffer[w], z, upto[z]))[z]]
        /\ buffer' = [buffer EXCEPT ![w] = [z \in Symbols |->
             Kept(buffer[w], z, IF z = s THEN HeldBefore(buffer[w], z, upto[z]) \cup {upto[z]}
                                ELSE HeldBefore(buffer[w], z, upto[z]))[z]]]
  BY DEF FlushLost
<1> DEFINE done(z) == HeldBefore(buffer[w], z, upto[z])
           gone(z) == IF z = s THEN done(z) \cup {upto[z]} ELSE done(z)
           left == [z \in Symbols |-> Kept(buffer[w], z, gone(z))[z]]
<1>2. StoreShape /\ BarsHold /\ BuffersHold /\ buffer[w] \in [Symbols -> SUBSET ObservationSet]
  BY DEF StoreHolds, StoreShape
<1>3. ASSUME NEW z \in Symbols
      PROVE  /\ bars'[z] \in [Minutes -> BarSet]
             /\ \A m \in Minutes :
                  GoodBar(bars'[z][m], m) /\ (bars[z][m] # NoBar => bars'[z][m] # NoBar)
  <2> DEFINE f == Flushed(bars, buffer[w], z, done(z))
  <2>1. bars'[z] = f[z]
    BY <1>1
  <2>2. done(z) \in SUBSET Buffered(buffer[w], z)
    BY DEF HeldBefore
  <2> HIDE DEF done
  <2>3. /\ f \in [Symbols -> [Minutes -> BarSet]]
        /\ \A y \in Symbols : \A m \in Minutes :
             GoodBar(f[y][m], m) /\ (bars[y][m] # NoBar => f[y][m] # NoBar)
    BY <1>2, <2>2, FlushedHolds
  <2> HIDE DEF f
  <2> QED BY <2>1, <2>3
<1>4. bars' \in [Symbols -> [Minutes -> BarSet]]
  <2>1. DOMAIN bars' = Symbols /\ bars' = [z \in Symbols |-> bars'[z]]
    BY <1>1
  <2> QED BY <1>3, <2>1
<1>5. BarsHold' /\ Grows
  BY <1>3 DEF BarsHold, GoodBar, Grows, Prompt
<1>6. buffer' = [buffer EXCEPT ![w] = left]
  BY <1>1
<1> HIDE DEF done
<1>7. ASSUME NEW z \in Symbols
      PROVE  Kept(buffer[w], z, gone(z))[z] \subseteq buffer[w][z]
  <2> HIDE DEF gone
  <2> QED BY <1>2 DEF Kept
<1> HIDE DEF gone
<1>8. /\ left \in [Symbols -> SUBSET ObservationSet]
      /\ \A z \in Symbols : left[z] \subseteq buffer[w][z]
  BY <1>2, <1>7
<1> HIDE DEF left
<1>9. /\ buffer' \in [Writers -> [Symbols -> SUBSET ObservationSet]]
      /\ BuffersHold' /\ OthersHeld(w)
  BY <1>6, <1>8, FewerHold
<1> QED BY <1>4, <1>5, <1>9 DEF StoreHolds, StoreShape

\* A writer's buffer is gone with its process.
LEMMA DropKeeps ==
  ASSUME StoreHolds, NEW w \in Writers, now' = now, bars' = bars,
         buffer' = [buffer EXCEPT ![w] = [s \in Symbols |-> {}]]
  PROVE  StoreHolds' /\ Grows /\ OthersHeld(w) /\ buffer'[w] = [s \in Symbols |-> {}]
<1>1. /\ buffer' \in [Writers -> [Symbols -> SUBSET ObservationSet]]
      /\ BuffersHold' /\ OthersHeld(w) /\ buffer'[w] = [s \in Symbols |-> {}]
  BY FewerHold, NoObservations
<1> QED BY <1>1 DEF StoreHolds, StoreShape, BarsHold, GoodBar, Prompt, Grows

-----------------------------------------------------------------------------
(* The steps.                                                               *)

LEMMA FeedStarts == Init => FeedInv
<1> SUFFICES ASSUME Init PROVE FeedInv
  OBVIOUS
<1>1. MaxTime \in Nat /\ 0 \in 0..MaxTime /\ Never \in 0..Never
  BY FeedAssumption DEF Never
<1>2. NoPrice \in PriceSet
  BY <1>1 DEF NoPrice, PriceSet
<1>3. NoBar \in BarSet /\ NoQuote \in [at : 0..Never, price : PriceSet]
  BY <1>1, <1>2 DEF NoBar, NoQuote, BarSet
<1>4. Clock /\ StoreShape /\ DeskShape
  BY <1>1, <1>3 DEF Init, Clock, StoreShape, DeskShape
<1>5. BarsHold /\ QuotesHold
  BY DEF Init, BarsHold, GoodBar, QuotesHold, GoodQuote
<1>6. BuffersHold /\ NothingDropped
  BY DEF Init, BuffersHold, NothingDropped, Writers
<1> QED BY <1>4, <1>5, <1>6 DEF FeedInv

LEMMA TickKeepsFeed == FeedInv /\ Tick => FeedInv'
<1> SUFFICES ASSUME FeedInv, Tick PROVE FeedInv'
  OBVIOUS
<1>1. MaxTime \in Nat /\ Lag \in Nat /\ now \in 0..MaxTime /\ now' \in 0..MaxTime /\ now' = now + 1
  BY FeedAssumption DEF FeedInv, Clock, Tick
<1>2. bars' = bars /\ buffer' = buffer /\ quotes' = quotes /\ sub' = sub /\ todo' = todo
      /\ taken' = taken /\ faults' = faults
  BY DEF Tick, feedVars, subVars, histVars
<1>3. Clock' /\ StoreShape' /\ DeskShape' /\ NothingDropped'
  BY <1>1, <1>2 DEF FeedInv, Clock, StoreShape, DeskShape, NothingDropped, Buffered
<1>4. BarsHold'
  <2> SUFFICES ASSUME NEW s \in Symbols, NEW m \in Minutes, bars[s][m] # NoBar
               PROVE  bars[s][m].last <= now' /\ MinuteOf(bars[s][m].last) = m
                      /\ Prompt(bars[s][m].last, bars[s][m].price)
    BY <1>2 DEF BarsHold, GoodBar, Prompt
  <2>1. bars[s][m].last <= now /\ MinuteOf(bars[s][m].last) = m
        /\ Prompt(bars[s][m].last, bars[s][m].price)
    BY DEF FeedInv, BarsHold, GoodBar
  <2>2. bars[s][m].last \in 0..Never
    BY DEF FeedInv, StoreShape, BarSet
  <2>3. Never \in Nat
    BY <1>1 DEF Never
  <2>4. bars[s][m].last <= now'
    BY <1>1, <2>1, <2>2, <2>3
  <2> QED BY <2>1, <2>4
<1>5. BuffersHold'
  <2> SUFFICES ASSUME NEW w \in Writers, NEW s \in Symbols, NEW o \in buffer[w][s]
               PROVE  o.at <= now' /\ Prompt(o.at, o.price)
    BY <1>2 DEF BuffersHold, Prompt
  <2>1. o.at <= now /\ Prompt(o.at, o.price)
    BY DEF FeedInv, BuffersHold
  <2>2. o.at \in 0..MaxTime
    BY DEF FeedInv, StoreShape, ObservationSet
  <2> QED BY <1>1, <2>1, <2>2
<1>6. QuotesHold'
  <2> SUFFICES ASSUME NEW s \in Symbols, quotes[s] # NoQuote
               PROVE  /\ quotes[s].at <= now' /\ now' <= quotes[s].at + Lag
                      /\ quotes[s].price.via = "broker" => quotes[s].price.seen = quotes[s].at
                      /\ quotes[s].price.via = "store" =>
                           quotes[s].at <= quotes[s].price.seen + Staleness + Lag
    BY <1>2 DEF QuotesHold, GoodQuote
  <2>1. /\ quotes[s].at <= now
        /\ quotes[s].price.via = "broker" => quotes[s].price.seen = quotes[s].at
        /\ quotes[s].price.via = "store" =>
             quotes[s].at <= quotes[s].price.seen + Staleness + Lag
    BY DEF FeedInv, QuotesHold, GoodQuote
  <2>2. now - quotes[s].at < Lag
    BY DEF Tick
  <2>3. quotes[s].at \in 0..Never /\ Never \in Nat
    BY <1>1 DEF FeedInv, DeskShape, Never
  <2>4. quotes[s].at <= now' /\ now' <= quotes[s].at + Lag
    BY <1>1, <2>1, <2>2, <2>3
  <2> QED BY <2>1, <2>4
<1> QED BY <1>3, <1>4, <1>5, <1>6 DEF FeedInv

\* Nothing of the store moves.
LEMMA StillStore ==
  ASSUME FeedInv, now' = now, bars' = bars, buffer' = buffer
  PROVE  Clock' /\ StoreHolds'
BY DEF FeedInv, Clock, StoreHolds, StoreShape, BarsHold, BuffersHold, GoodBar, Prompt

LEMMA StartTaskKeepsFeed == FeedInv /\ StartTask => FeedInv'
<1> SUFFICES ASSUME FeedInv, StartTask PROVE FeedInv'
  OBVIOUS
<1>1. Clock' /\ StoreHolds'
  BY StillStore DEF StartTask, feedVars
<1>2. DeskShape' /\ QuotesHold' /\ NothingDropped'
  BY DEF FeedInv, StartTask, DeskShape, QuotesHold, GoodQuote, NothingDropped, Buffered,
         feedVars, histVars
<1> QED BY <1>1, <1>2 DEF FeedInv, StoreHolds

LEMMA StartCycleKeepsFeed == FeedInv /\ StartCycle => FeedInv'
<1> SUFFICES ASSUME FeedInv, StartCycle PROVE FeedInv'
  OBVIOUS
<1>1. Clock' /\ StoreHolds'
  BY StillStore DEF StartCycle, feedVars
<1>2. DeskShape' /\ QuotesHold' /\ NothingDropped'
  BY DEF FeedInv, StartCycle, DeskShape, QuotesHold, GoodQuote, NothingDropped, Buffered,
         feedVars, histVars
<1> QED BY <1>1, <1>2 DEF FeedInv, StoreHolds

\* An observation the subscriber, or the trading service, makes.
LEMMA FreshObservation ==
  ASSUME Clock
  PROVE  /\ [at |-> now, price |-> Quoted(now)] \in ObservationSet
         /\ [at |-> now, price |-> Quoted(now)].at = now
         /\ Prompt(now, Quoted(now))
<1>1. Lag \in Nat /\ MaxTime \in Nat /\ now \in 0..MaxTime
  BY FeedAssumption DEF Clock
<1>2. Quoted(now) = [seen |-> now, via |-> "broker"]
  BY DEF Quoted
<1>3. Quoted(now) \in PriceSet /\ Quoted(now).seen = now
  BY <1>1, <1>2 DEF PriceSet
<1>4. Prompt(now, Quoted(now))
  BY <1>1, <1>3 DEF Prompt
<1> QED BY <1>1, <1>3, <1>4 DEF ObservationSet

LEMMA PollKeepsFeed ==
  ASSUME FeedInv, NEW s \in Symbols, Poll(s)
  PROVE  FeedInv'
<1> DEFINE o == [at |-> now, price |-> Quoted(now)]
<1>1. now' = now /\ sub' = sub /\ sub = "poll" /\ quotes' = quotes /\ Clock /\ Clock' /\ StoreHolds
      /\ s \in todo
  BY DEF Poll, FeedInv, Clock, StoreHolds
<1>2. o \in ObservationSet /\ o.at = now /\ Prompt(o.at, o.price)
  BY <1>1, FreshObservation
<1>3. "subscriber" \in Writers
  BY DEF Writers
<1>4. MinuteOf(now) \in Minutes
  BY <1>1, MinutesInOrder, FeedAssumption DEF Clock
<1>5. QuotesHold'
  BY <1>1 DEF FeedInv, QuotesHold, GoodQuote
<1>6. CASE /\ Record("subscriber", s, o)
           /\ todo' = todo \ {s}
           /\ taken' = [taken EXCEPT ![s] = MinuteOf(now)]
           /\ UNCHANGED faults
  <2> HIDE DEF o
  <2>1. /\ StoreHolds' /\ Grows
        /\ \A z \in Symbols \ {s} : buffer'["subscriber"][z] = buffer["subscriber"][z]
        /\ MinuteOf(now) \in Buffered(buffer'["subscriber"], s)
    BY <1>1, <1>2, <1>3, <1>6, RecordKeeps
  <2>2. DeskShape'
    BY <1>1, <1>4, <1>6 DEF FeedInv, DeskShape
  <2>3. taken'[s] = MinuteOf(now) /\ \A z \in Symbols \ {s} : taken'[z] = taken[z]
    BY <1>6 DEF FeedInv, DeskShape
  <2>4. ASSUME faults' = 0, NEW z \in Symbols, taken'[z] # Never
        PROVE  bars'[z][taken'[z]] # NoBar \/ taken'[z] \in Buffered(buffer'["subscriber"], z)
    <3>1. CASE z = s
      BY <2>1, <2>3, <3>1
    <3>2. CASE z # s
      <4>1. taken'[z] = taken[z] /\ taken[z] \in Minutes /\ faults = 0
        BY <1>6, <2>3, <2>4, <3>2 DEF FeedInv, DeskShape
      <4>2. bars[z][taken[z]] # NoBar \/ taken[z] \in Buffered(buffer["subscriber"], z)
        BY <2>4, <4>1 DEF FeedInv, NothingDropped
      <4>3. Buffered(buffer'["subscriber"], z) = Buffered(buffer["subscriber"], z)
        BY <2>1, <3>2 DEF Buffered
      <4> QED BY <2>1, <4>1, <4>2, <4>3 DEF Grows
    <3> QED BY <3>1, <3>2
  <2>5. NothingDropped'
    BY <1>1, <2>4 DEF NothingDropped
  <2> QED BY <1>1, <1>5, <2>1, <2>2, <2>5 DEF FeedInv, StoreHolds
<1>7. CASE /\ RecordLost("subscriber", s, o)
           /\ todo' = {}
           /\ taken' = [taken EXCEPT ![s] = MinuteOf(now)]
  <2> HIDE DEF o
  <2>1. StoreHolds'
    BY <1>1, <1>2, <1>3, <1>7, RecordLostKeeps
  <2>2. faults' = faults + 1 /\ faults \in Nat
    BY <1>7 DEF RecordLost, Fault, FeedInv, DeskShape
  <2>3. DeskShape'
    BY <1>1, <1>4, <1>7, <2>2 DEF FeedInv, DeskShape
  <2>4. NothingDropped'
    BY <2>2 DEF NothingDropped
  <2> QED BY <1>1, <1>5, <2>1, <2>3, <2>4 DEF FeedInv, StoreHolds
<1>8. CASE /\ todo' = todo \ {s}
           /\ UNCHANGED <<feedVars, taken, faults>>
  <2>1. StoreHolds'
    BY <1>1, <1>8, StillStore DEF feedVars
  <2>2. DeskShape' /\ NothingDropped'
    BY <1>1, <1>8 DEF FeedInv, DeskShape, NothingDropped, Buffered, feedVars
  <2> QED BY <1>1, <1>5, <2>1, <2>2 DEF FeedInv, StoreHolds
<1> QED BY <1>6, <1>7, <1>8 DEF Poll

\* A whole flush leaves all that was observed in the store, a failed one is a fault.
LEMMA SubscriberFlush ==
  ASSUME FeedInv, now' = now, taken' = taken,
         \/ FlushAll("subscriber") /\ UNCHANGED faults
         \/ FlushLost("subscriber")
  PROVE  StoreHolds' /\ faults' \in Nat /\ NothingDropped'
<1>1. StoreHolds /\ Clock /\ faults \in Nat /\ "subscriber" \in Writers
  BY DEF FeedInv, StoreHolds, DeskShape, Writers
<1>2. CASE FlushAll("subscriber") /\ UNCHANGED faults
  <2>1. /\ StoreHolds' /\ Grows
        /\ \A s \in Symbols :
             /\ buffer'["subscriber"][s] = {}
             /\ \A m \in Minutes \cap Buffered(buffer["subscriber"], s) : bars'[s][m] # NoBar
    BY <1>1, <1>2, FlushKeeps
  <2>2. ASSUME faults = 0, NEW s \in Symbols, taken[s] # Never
        PROVE  bars'[s][taken[s]] # NoBar
    <3>1. taken[s] \in Minutes
      BY <2>2 DEF FeedInv, DeskShape
    <3>2. bars[s][taken[s]] # NoBar \/ taken[s] \in Buffered(buffer["subscriber"], s)
      BY <2>2 DEF FeedInv, NothingDropped
    <3> QED BY <2>1, <3>1, <3>2 DEF Grows
  <2> QED BY <1>1, <1>2, <2>1, <2>2 DEF NothingDropped
<1>3. CASE FlushLost("subscriber")
  <2>1. StoreHolds'
    BY <1>1, <1>3, FlushLostKeeps
  <2>2. faults' = faults + 1
    BY <1>3 DEF FlushLost, Fault
  <2> QED BY <1>1, <2>1, <2>2 DEF NothingDropped
<1> QED BY <1>2, <1>3

LEMMA EndCycleKeepsFeed == FeedInv /\ EndCycle => FeedInv'
<1> SUFFICES ASSUME FeedInv, EndCycle PROVE FeedInv'
  OBVIOUS
<1>1. now' = now /\ taken' = taken /\ quotes' = quotes /\ todo' = todo /\ sub' = "sleep"
  BY DEF EndCycle
<1>2. StoreHolds' /\ faults' \in Nat /\ NothingDropped'
  BY <1>1, SubscriberFlush DEF EndCycle
<1>3. Clock' /\ DeskShape' /\ QuotesHold'
  BY <1>1, <1>2 DEF FeedInv, Clock, DeskShape, QuotesHold, GoodQuote
<1> QED BY <1>2, <1>3 DEF FeedInv, StoreHolds

LEMMA TerminateKeepsFeed == FeedInv /\ Terminate => FeedInv'
<1> SUFFICES ASSUME FeedInv, Terminate PROVE FeedInv'
  OBVIOUS
<1>1. now' = now /\ taken' = taken /\ quotes' = quotes /\ todo' = {} /\ sub' = "stopped"
  BY DEF Terminate
<1>2. StoreHolds' /\ faults' \in Nat /\ NothingDropped'
  BY <1>1, SubscriberFlush DEF Terminate, LastFlush
<1>3. Clock' /\ DeskShape' /\ QuotesHold'
  BY <1>1, <1>2 DEF FeedInv, Clock, DeskShape, QuotesHold, GoodQuote
<1> QED BY <1>2, <1>3 DEF FeedInv, StoreHolds

LEMMA EndTaskKeepsFeed == FeedInv /\ EndTask => FeedInv'
<1> SUFFICES ASSUME FeedInv, EndTask PROVE FeedInv'
  OBVIOUS
<1>1. now' = now /\ bars' = bars /\ taken' = taken /\ quotes' = quotes /\ todo' = {} /\ sub' = "down"
      /\ buffer' = [buffer EXCEPT !["subscriber"] = [s \in Symbols |-> {}]]
  BY DEF EndTask
<1>2. StoreHolds /\ "subscriber" \in Writers /\ faults \in Nat
  BY DEF FeedInv, StoreHolds, DeskShape, Writers
<1>3. StoreHolds' /\ buffer'["subscriber"] = [s \in Symbols |-> {}]
  BY <1>1, <1>2, DropKeeps
<1>4. \/ sub = "stopped" /\ faults' = faults
      \/ faults' = faults + 1
  BY DEF EndTask, Fault
<1>5. Clock' /\ DeskShape' /\ QuotesHold'
  BY <1>1, <1>2, <1>4 DEF FeedInv, Clock, DeskShape, QuotesHold, GoodQuote
<1>6. NothingDropped'
  <2> SUFFICES ASSUME faults' = 0, NEW s \in Symbols
               PROVE  /\ taken[s] # Never => bars[s][taken[s]] # NoBar
                      /\ buffer'["subscriber"][s] = {}
    BY <1>1 DEF NothingDropped
  <2>1. faults = 0 /\ sub = "stopped"
    BY <1>2, <1>4
  <2>2. /\ taken[s] # Never => \/ bars[s][taken[s]] # NoBar
                               \/ taken[s] \in Buffered(buffer["subscriber"], s)
        /\ buffer["subscriber"][s] = {}
    BY <2>1 DEF FeedInv, NothingDropped
  <2>3. Buffered(buffer["subscriber"], s) = {}
    BY <2>2 DEF Buffered
  <2> QED BY <1>3, <2>2, <2>3
<1> QED BY <1>3, <1>5, <1>6 DEF FeedInv, StoreHolds

-----------------------------------------------------------------------------
(* The newest bar the provider reads.                                       *)

LEMMA LeastNumber ==
  ASSUME NEW T \in SUBSET Nat, T # {}
  PROVE  \E n \in T : \A k \in T : n <= k
<1>1. IsWellFoundedOn(OpToRel(<, Nat), Nat)
  BY NatLessThanWellFounded
<1>2. PICK n \in T : \A k \in T : ~ (<<k, n>> \in OpToRel(<, Nat))
  BY <1>1, WFMin
<1>3. \A k \in T : ~ (k < n)
  BY <1>2 DEF OpToRel
<1> QED BY <1>3

\* Bars of a symbol: their age is their minute's.
LEMMA BarFacts ==
  ASSUME Clock, StoreShape, BarsHold, NEW s \in Symbols, NEW m \in Minutes, bars[s][m] # NoBar
  PROVE  /\ bars[s][m].last \in 0..MaxTime /\ bars[s][m].last <= now
         /\ MinuteOf(bars[s][m].last) = m /\ m <= MinuteOf(now)
         /\ bars[s][m].price \in PriceSet
         /\ Prompt(bars[s][m].last, bars[s][m].price)
<1>1. MaxTime \in Nat /\ now \in 0..MaxTime /\ Never \in Nat
  BY FeedAssumption DEF Clock, Never
<1>2. bars[s][m].last \in 0..Never /\ bars[s][m].price \in PriceSet
  BY DEF StoreShape, BarSet
<1>3. /\ bars[s][m].last <= now /\ MinuteOf(bars[s][m].last) = m
      /\ Prompt(bars[s][m].last, bars[s][m].price)
  BY DEF BarsHold, GoodBar
<1>4. bars[s][m].last \in 0..MaxTime
  BY <1>1, <1>2, <1>3
<1>5. m <= MinuteOf(now)
  BY <1>1, <1>3, <1>4, MinutesInOrder
<1> QED BY <1>2, <1>3, <1>4, <1>5

\* Of two bars the one with the later stamp is of the later minute.
LEMMA LaterBar ==
  ASSUME Clock, StoreShape, BarsHold, NEW s \in Symbols, NEW m \in Minutes, NEW n \in Minutes,
         bars[s][m] # NoBar, bars[s][n] # NoBar, bars[s][n].last >= bars[s][m].last
  PROVE  m <= n
<1>1. bars[s][m].last \in 0..MaxTime /\ MinuteOf(bars[s][m].last) = m
  BY BarFacts
<1>2. bars[s][n].last \in 0..MaxTime /\ MinuteOf(bars[s][n].last) = n
  BY BarFacts
<1>3. bars[s][m].last <= bars[s][n].last
  BY <1>1, <1>2, FeedAssumption
<1> QED BY <1>1, <1>2, <1>3, MinutesInOrder

\* The hour read has no bar after it.
LEMMA HourReadIsLast ==
  ASSUME Clock, StoreShape, BarsHold, NEW s \in Symbols, HourRead(s) # {}
  PROVE  \E h \in Nat : /\ HourRead(s) = HourBars(s, h)
                        /\ \A m \in Minutes : bars[s][m] # NoBar => m \div Hour <= h
<1>1. Hour \in Nat \ {0} /\ MaxTime \in Nat /\ now \in 0..MaxTime
  BY FeedAssumption DEF Clock
<1>2. MinuteOf(now) \in Minutes /\ MinuteOf(now) \in Nat
  BY <1>1, MinutesInOrder DEF Minutes
<1>3. HourOf(now) \in Nat
  BY <1>1, <1>2, DivIsMonotone DEF HourOf
<1>4. ASSUME NEW m \in Minutes, bars[s][m] # NoBar
      PROVE  m \div Hour \in Nat /\ m \div Hour <= HourOf(now)
  <2>1. m <= MinuteOf(now)
    BY <1>4, BarFacts
  <2>2. m \in Nat
    BY DEF Minutes
  <2> QED BY <1>1, <1>2, <2>1, <2>2, DivIsMonotone DEF HourOf
<1>5. CASE HourBars(s, HourOf(now)) # {}
  BY <1>3, <1>4, <1>5 DEF HourRead
<1>6. CASE HourBars(s, HourOf(now)) = {}
  <2>1. HourOf(now) # 0 /\ HourRead(s) = HourBars(s, HourOf(now) - 1)
    BY <1>6 DEF HourRead
  <2>2. HourOf(now) - 1 \in Nat
    BY <1>3, <2>1
  <2>3. ASSUME NEW m \in Minutes, bars[s][m] # NoBar
        PROVE  m \div Hour <= HourOf(now) - 1
    <3>1. m \div Hour # HourOf(now)
      BY <1>6, <2>3 DEF HourBars
    <3>2. m \div Hour \in Nat /\ m \div Hour <= HourOf(now)
      BY <1>4, <2>3
    <3> QED BY <1>3, <3>1, <3>2
  <2> QED BY <2>1, <2>2, <2>3
<1> QED BY <1>5, <1>6

\* There is a newest bar in what is read.
LEMMA NewestIsRead ==
  ASSUME Clock, StoreShape, BarsHold, NEW s \in Symbols, HourRead(s) # {}
  PROVE  /\ NewestRead(s) \in HourRead(s) /\ NewestRead(s) \in Minutes
         /\ bars[s][NewestRead(s)] # NoBar
         /\ \A m \in HourRead(s) : bars[s][NewestRead(s)].last >= bars[s][m].last
<1> DEFINE ages == {MaxTime - bars[s][m].last : m \in HourRead(s)}
<1>1. MaxTime \in Nat
  BY FeedAssumption
<1>2. HourRead(s) \subseteq {m \in Minutes : bars[s][m] # NoBar}
  BY DEF HourRead, HourBars
<1>3. \A m \in HourRead(s) : bars[s][m].last \in 0..MaxTime
  BY <1>2, BarFacts
<1>4. ages \in SUBSET Nat /\ ages # {}
  BY <1>1, <1>3
<1>5. PICK a \in ages : \A k \in ages : a <= k
  BY <1>4, LeastNumber
<1>6. PICK n \in HourRead(s) : a = MaxTime - bars[s][n].last
  OBVIOUS
<1>7. ASSUME NEW m \in HourRead(s)
      PROVE  bars[s][n].last >= bars[s][m].last
  <2>1. MaxTime - bars[s][n].last <= MaxTime - bars[s][m].last
    BY <1>5, <1>6
  <2>2. bars[s][n].last \in 0..MaxTime /\ bars[s][m].last \in 0..MaxTime
    BY <1>3
  <2> QED BY <1>1, <2>1, <2>2
<1>8. /\ NewestRead(s) \in HourRead(s)
      /\ \A m \in HourRead(s) : bars[s][NewestRead(s)].last >= bars[s][m].last
  BY <1>7 DEF NewestRead
<1> QED BY <1>2, <1>8

LEMMA NewestIsServed == Clock /\ StoreShape /\ BarsHold => ServedIsNewest
<1> SUFFICES ASSUME Clock, StoreShape, BarsHold, NEW s \in Symbols, HourRead(s) # {},
                    NEW m \in Minutes, bars[s][m] # NoBar
             PROVE  m <= NewestRead(s)
  BY DEF ServedIsNewest, IsFresh
<1> DEFINE n == NewestRead(s)
<1>1. n \in HourRead(s) /\ n \in Minutes /\ bars[s][n] # NoBar
      /\ \A x \in HourRead(s) : bars[s][n].last >= bars[s][x].last
  BY NewestIsRead
<1>2. PICK h \in Nat : /\ HourRead(s) = HourBars(s, h)
                       /\ \A x \in Minutes : bars[s][x] # NoBar => x \div Hour <= h
  BY HourReadIsLast
<1> HIDE DEF n
<1>3. CASE m \div Hour = h
  <2>1. m \in HourRead(s)
    BY <1>2, <1>3 DEF HourBars
  <2> QED BY <1>1, <2>1, LaterBar DEF n
<1>4. CASE m \div Hour # h
  <2>1. n \div Hour = h /\ m \div Hour <= h
    BY <1>1, <1>2 DEF HourBars
  <2>2. m \in Nat /\ n \in Nat /\ Hour \in Nat \ {0}
    BY <1>1, FeedAssumption DEF Minutes
  <2>3. n <= m => n \div Hour <= m \div Hour
    BY <2>2, DivIsMonotone
  <2>4. m \div Hour \in Nat
    BY <2>2, DivIsMonotone
  <2> QED BY <1>4, <2>1, <2>2, <2>3, <2>4 DEF n
<1> QED BY <1>3, <1>4

-----------------------------------------------------------------------------
(* The trading service's steps, and the theorems.                           *)

\* What the provider passes on of a stored price: as old as it was stored with,
\* unless it had been there before.
LEMMA PassedIsFresh ==
  ASSUME Clock, StoreShape, BarsHold, NEW s \in Symbols, IsFresh(s)
  PROVE  LET p == Passed(bars[s][NewestRead(s)].price)
         IN p \in PriceSet /\ p.via # "broker"
            /\ (p.via = "store" => now <= p.seen + Staleness + Lag)
<1> DEFINE b == bars[s][NewestRead(s)]
           p == Passed(b.price)
<1>1. MaxTime \in Nat /\ Staleness \in Nat /\ Lag \in Nat /\ now \in 0..MaxTime
  BY FeedAssumption DEF Clock
<1>2. NewestRead(s) \in Minutes /\ b # NoBar
  BY NewestIsRead DEF IsFresh
<1>3. b.last \in 0..MaxTime /\ b.last <= now /\ b.price \in PriceSet /\ Prompt(b.last, b.price)
  BY <1>2, BarFacts
<1>4. now - b.last <= Staleness
  BY DEF IsFresh
<1> HIDE DEF b
<1>5. CASE b.price.via = "broker"
  <2>1. p = [b.price EXCEPT !.via = "store"]
    BY <1>5 DEF Passed
  <2>2. p \in PriceSet /\ p.via = "store" /\ p.seen = b.price.seen /\ b.price.seen \in 0..MaxTime
    BY <1>3, <2>1 DEF PriceSet
  <2>3. b.last <= b.price.seen + Lag
    BY <1>3, <1>5 DEF Prompt
  <2>4. now <= b.price.seen + Staleness + Lag
    BY <1>1, <1>3, <1>4, <2>2, <2>3
  <2> QED BY <2>2, <2>4 DEF b
<1>6. CASE b.price.via # "broker"
  <2>1. p = [b.price EXCEPT !.via = "echo"]
    BY <1>6 DEF Passed
  <2>2. p \in PriceSet /\ p.via = "echo"
    BY <1>3, <2>1 DEF PriceSet
  <2> QED BY <2>2 DEF b
<1> QED BY <1>5, <1>6

LEMMA FetchKeepsFeed ==
  ASSUME FeedInv, NEW s \in Symbols, FetchPrice(s)
  PROVE  FeedInv'
<1> DEFINE price == IF IsFresh(s) THEN Passed(bars[s][NewestRead(s)].price) ELSE Quoted(now)
           q == [at |-> now, price |-> price]
<1>1. MaxTime \in Nat /\ Staleness \in Nat /\ Lag \in Nat /\ now \in 0..MaxTime
      /\ Clock /\ StoreShape /\ BarsHold
  BY FeedAssumption DEF FeedInv, Clock
<1>2. quotes' = [quotes EXCEPT ![s] = q] /\ now' = now /\ bars' = bars /\ buffer' = buffer
      /\ sub' = sub /\ todo' = todo /\ taken' = taken /\ faults' = faults
  BY DEF FetchPrice, feedVars, subVars, histVars
<1>3. /\ price \in PriceSet
      /\ price.via = "broker" => price.seen = now
      /\ price.via = "store" => now <= price.seen + Staleness + Lag
  <2>1. CASE IsFresh(s)
    <3>1. price = Passed(bars[s][NewestRead(s)].price)
      BY <2>1
    <3> QED BY <1>1, <2>1, <3>1, PassedIsFresh
  <2>2. CASE ~IsFresh(s)
    <3>1. price = [seen |-> now, via |-> "broker"]
      BY <2>2 DEF Quoted
    <3> QED BY <1>1, <3>1 DEF PriceSet
  <2> QED BY <2>1, <2>2
<1> HIDE DEF price
<1>4. q.at = now /\ q.price = price /\ q \in [at : 0..Never, price : PriceSet]
  BY <1>1, <1>3 DEF Never
<1>5. now <= now + Lag
  BY <1>1
<1>6. GoodQuote(q)
  BY <1>1, <1>3, <1>4, <1>5 DEF GoodQuote
<1> HIDE DEF q
<1>7. Clock' /\ StoreHolds'
  BY <1>2, StillStore
<1>8. DeskShape'
  BY <1>2, <1>4 DEF FeedInv, DeskShape
<1>9. QuotesHold'
  <2>1. ASSUME NEW z \in Symbols PROVE GoodQuote(quotes'[z])
    <3>1. quotes'[z] = IF z = s THEN q ELSE quotes[z]
      BY <1>2 DEF FeedInv, DeskShape
    <3> QED BY <1>6, <3>1 DEF FeedInv, QuotesHold
  <2> QED BY <1>2, <2>1 DEF QuotesHold, GoodQuote
<1>10. NothingDropped'
  BY <1>2 DEF FeedInv, NothingDropped, Buffered
<1> QED BY <1>7, <1>8, <1>9, <1>10 DEF FeedInv, StoreHolds

LEMMA RecordPriceKeepsFeed ==
  ASSUME FeedInv, NEW s \in Symbols, RecordPrice(s)
  PROVE  FeedInv'
<1> DEFINE o == [quotes[s] EXCEPT !.at = now]
<1>1. MaxTime \in Nat /\ Lag \in Nat /\ now \in 0..MaxTime /\ Clock /\ StoreHolds
      /\ "trader" \in Writers /\ "subscriber" \in Writers \ {"trader"} /\ faults \in Nat
  BY FeedAssumption DEF FeedInv, Clock, StoreHolds, DeskShape, Writers
<1>2. now' = now /\ sub' = sub /\ todo' = todo /\ taken' = taken /\ quotes[s] # NoQuote
      /\ quotes' = [quotes EXCEPT ![s] = NoQuote]
      /\ ((Record("trader", s, o) /\ UNCHANGED faults) \/ RecordLost("trader", s, o))
  BY DEF RecordPrice, subVars
<1>3. quotes \in [Symbols -> [at : 0..Never, price : PriceSet]]
  BY DEF FeedInv, DeskShape
<1>4. o \in ObservationSet /\ o.at = now /\ o.price = quotes[s].price
  BY <1>1, <1>3 DEF ObservationSet
<1>5. Prompt(now, quotes[s].price)
  <2> SUFFICES ASSUME quotes[s].price.via = "broker" PROVE now <= quotes[s].price.seen + Lag
    BY DEF Prompt
  <2> QED BY <1>2 DEF FeedInv, QuotesHold, GoodQuote
<1>6. Prompt(o.at, o.price)
  BY <1>4, <1>5
<1> HIDE DEF o
<1>7. StoreHolds' /\ Grows /\ OthersHeld("trader")
  <2>1. CASE Record("trader", s, o)
    BY <1>1, <1>2, <1>4, <1>6, <2>1, RecordKeeps
  <2>2. CASE RecordLost("trader", s, o)
    BY <1>1, <1>2, <1>4, <1>6, <2>2, RecordLostKeeps
  <2> QED BY <1>2, <2>1, <2>2
<1>8. faults' = faults \/ faults' = faults + 1
  BY <1>2 DEF RecordLost, Fault
<1>9. NoQuote \in [at : 0..Never, price : PriceSet]
  BY <1>1 DEF NoQuote, NoPrice, PriceSet, Never
<1>10. Clock' /\ DeskShape'
  BY <1>1, <1>2, <1>8, <1>9 DEF FeedInv, Clock, DeskShape
<1>11. QuotesHold'
  <2>1. ASSUME NEW z \in Symbols PROVE GoodQuote(quotes'[z])
    <3>1. quotes'[z] = IF z = s THEN NoQuote ELSE quotes[z]
      BY <1>2, <1>3
    <3> QED BY <3>1 DEF FeedInv, QuotesHold, GoodQuote
  <2> QED BY <1>2, <2>1 DEF QuotesHold, GoodQuote
<1>12. NothingDropped'
  <2> SUFFICES ASSUME faults' = 0, NEW z \in Symbols
               PROVE  /\ taken[z] # Never => \/ bars'[z][taken[z]] # NoBar
                                             \/ taken[z] \in Buffered(buffer'["subscriber"], z)
                      /\ sub # "poll" => buffer'["subscriber"][z] = {}
    BY <1>2 DEF NothingDropped
  <2>1. faults = 0
    BY <1>1, <1>8
  <2>2. buffer'["subscriber"] = buffer["subscriber"]
    BY <1>1, <1>7 DEF OthersHeld
  <2>3. /\ taken[z] # Never => \/ bars[z][taken[z]] # NoBar
                               \/ taken[z] \in Buffered(buffer["subscriber"], z)
        /\ sub # "poll" => buffer["subscriber"][z] = {}
    BY <2>1 DEF FeedInv, NothingDropped
  <2>4. taken[z] # Never => taken[z] \in Minutes
    BY DEF FeedInv, DeskShape
  <2>5. Buffered(buffer'["subscriber"], z) = Buffered(buffer["subscriber"], z)
    BY <2>2 DEF Buffered
  <2> QED BY <1>7, <2>2, <2>3, <2>4, <2>5 DEF Grows
<1> QED BY <1>7, <1>10, <1>11, <1>12 DEF FeedInv, StoreHolds

LEMMA RestartTraderKeepsFeed == FeedInv /\ RestartTrader => FeedInv'
<1> SUFFICES ASSUME FeedInv, RestartTrader PROVE FeedInv'
  OBVIOUS
<1>1. now' = now /\ bars' = bars /\ sub' = sub /\ todo' = todo /\ taken' = taken
      /\ buffer' = [buffer EXCEPT !["trader"] = [s \in Symbols |-> {}]]
      /\ quotes' = [s \in Symbols |-> NoQuote] /\ faults' = faults + 1
  BY DEF RestartTrader, Fault, subVars
<1>2. StoreHolds /\ "trader" \in Writers /\ faults \in Nat
  BY DEF FeedInv, StoreHolds, DeskShape, Writers
<1>3. StoreHolds'
  BY <1>1, <1>2, DropKeeps
<1>4. NoQuote \in [at : 0..Never, price : PriceSet]
  BY FeedAssumption DEF NoQuote, NoPrice, PriceSet, Never
<1>5. Clock' /\ DeskShape'
  BY <1>1, <1>2, <1>4 DEF FeedInv, Clock, DeskShape
<1>6. QuotesHold'
  BY <1>1 DEF QuotesHold, GoodQuote
<1>7. NothingDropped'
  BY <1>1, <1>2 DEF NothingDropped
<1> QED BY <1>3, <1>5, <1>6, <1>7 DEF FeedInv, StoreHolds

LEMMA FeedSteps == FeedInv /\ [Next]_vars => FeedInv'
<1> SUFFICES ASSUME FeedInv, [Next]_vars PROVE FeedInv'
  OBVIOUS
<1>1. CASE Tick
  BY <1>1, TickKeepsFeed
<1>2. CASE StartTask \/ StartCycle \/ EndCycle \/ Terminate \/ EndTask
  BY <1>2, StartTaskKeepsFeed, StartCycleKeepsFeed, EndCycleKeepsFeed, TerminateKeepsFeed,
     EndTaskKeepsFeed
<1>3. CASE RestartTrader
  BY <1>3, RestartTraderKeepsFeed
<1>4. CASE \E s \in Symbols : Poll(s) \/ FetchPrice(s) \/ RecordPrice(s)
  BY <1>4, PollKeepsFeed, FetchKeepsFeed, RecordPriceKeepsFeed
<1>5. CASE UNCHANGED vars
  <2>1. Clock' /\ StoreHolds'
    BY <1>5, StillStore DEF vars, feedVars
  <2>2. DeskShape' /\ QuotesHold' /\ NothingDropped'
    BY <1>5 DEF FeedInv, DeskShape, QuotesHold, GoodQuote, NothingDropped, Buffered,
                vars, feedVars, subVars, histVars
  <2> QED BY <2>1, <2>2 DEF FeedInv, StoreHolds
<1>6. Traded \subseteq Symbols
  BY FeedAssumption
<1> QED BY <1>1, <1>2, <1>3, <1>4, <1>5, <1>6 DEF Next

LEMMA FeedHolds == Spec => []FeedInv
BY FeedStarts, FeedSteps, PTL DEF Spec

\* The subscriber's states, and that a bar is under the minute its stamp is of
\* (market_data_store).
THEOREM FeedTypes == Spec => []TypeOK
<1>1. FeedInv => TypeOK
  <2> SUFFICES ASSUME FeedInv PROVE TypeOK
    OBVIOUS
  <2>1. now \in 0..MaxTime /\ sub \in {"down", "start", "poll", "sleep", "stopped"}
        /\ todo \subseteq Symbols
    BY DEF FeedInv, Clock, DeskShape
  <2>2. \A s \in Symbols, m \in Minutes :
          bars[s][m] # NoBar => MinuteOf(bars[s][m].last) = m
    BY DEF FeedInv, BarsHold, GoodBar
  <2> QED BY <2>1, <2>2 DEF TypeOK
<1> QED BY <1>1, FeedHolds, PTL

\* A price the trading service takes from the store, if it was recorded there
\* from a broker's quote, is no older than the staleness limit and the
\* recording's delay allow; and whatever the price, no later bar of the symbol
\* is stored (StoreBackedMarketDataProvider._read_fresh_from_store), whoever
\* wrote the bars and in whatever order.  Of the age of a price the service had
\* read from the store and recorded again nothing is claimed.
THEOREM ServedPricesHold == Spec => []StorePricesHold
<1>1. FeedInv => StorePricesHold
  <2> SUFFICES ASSUME FeedInv PROVE StorePricesHold
    OBVIOUS
  <2>1. ServedIsNewest
    BY NewestIsServed DEF FeedInv
  <2>2. QuotedIsFresh
    <3> SUFFICES ASSUME NEW s \in Symbols, quotes[s].price.via = "store"
                 PROVE  quotes[s].at - quotes[s].price.seen <= Staleness + Lag
      BY DEF QuotedIsFresh
    <3>1. quotes[s] # NoQuote
      BY DEF NoQuote, NoPrice
    <3>2. quotes[s].at <= quotes[s].price.seen + Staleness + Lag
      BY <3>1 DEF FeedInv, QuotesHold, GoodQuote
    <3>3. quotes[s].at \in Nat /\ quotes[s].price.seen \in Nat
      BY FeedAssumption DEF FeedInv, DeskShape, PriceSet, Never
    <3>4. Staleness \in Nat /\ Lag \in Nat
      BY FeedAssumption
    <3> QED BY <3>2, <3>3, <3>4
  <2> QED BY <2>1, <2>2 DEF StorePricesHold
<1> QED BY <1>1, FeedHolds, PTL

\* The subscriber's last flush, of each cycle and before its exit, leaves every
\* minute it observed in the store unless a write failed (run_forever).
THEOREM NothingObservedIsLost == Spec => []ObservedIsStored
<1>1. FeedInv => ObservedIsStored
  <2> SUFFICES ASSUME FeedInv, sub \in {"sleep", "stopped"}, faults = 0,
                      NEW s \in Symbols, taken[s] # Never
               PROVE  bars[s][taken[s]] # NoBar
    BY DEF ObservedIsStored
  <2>1. buffer["subscriber"][s] = {}
        /\ (bars[s][taken[s]] # NoBar \/ taken[s] \in Buffered(buffer["subscriber"], s))
    BY DEF FeedInv, NothingDropped
  <2> QED BY <2>1 DEF Buffered
<1> QED BY <1>1, FeedHolds, PTL

-----------------------------------------------------------------------------
(* The TA computer's input.                                                 *)

Ascends(q) == \A i, j \in 1..Len(q) : i < j => q[i] < q[j]

\* How many of a set of minutes come before one.
Before(H, n) == {x \in H : x < n}

LEMMA MinutesFinite ==
  ASSUME NEW H \in SUBSET Minutes, NEW n
  PROVE  /\ H \subseteq Nat /\ IsFiniteSet(H) /\ Cardinality(H) \in Nat
         /\ IsFiniteSet(Before(H, n)) /\ Cardinality(Before(H, n)) \in Nat
<1>1. MaxTime \in Nat /\ Minute \in Nat \ {0}
  BY FeedAssumption
<1>2. MinuteOf(MaxTime) \in Nat
  BY <1>1, DivIsMonotone DEF MinuteOf
<1>3. IsFiniteSet(Minutes)
  BY <1>2, FS_Interval DEF Minutes
<1>4. IsFiniteSet(H)
  BY <1>3, FS_Subset
<1>5. IsFiniteSet(Before(H, n))
  BY <1>4, FS_Subset DEF Before
<1>6. H \subseteq Nat
  BY <1>2 DEF Minutes
<1> QED BY <1>4, <1>6, <1>5, FS_CardinalityType

LEMMA MoreBefore ==
  ASSUME NEW H \in SUBSET Nat, NEW m \in Nat, NEW n \in Nat, m <= n
  PROVE  Before(H, m) \subseteq Before(H, n)
<1> SUFFICES ASSUME NEW x \in H, x < m PROVE x < n
  BY DEF Before
<1>1. x \in Nat
  OBVIOUS
<1> QED BY <1>1

\* Every place in the order of a set of minutes is taken by one of them.
LEMMA EveryRank ==
  ASSUME NEW H \in SUBSET Minutes, NEW k \in 0..(Cardinality(H) - 1)
  PROVE  \E m \in H : Cardinality(Before(H, m)) = k
<1>1. Cardinality(H) \in Nat /\ k \in Nat /\ k < Cardinality(H)
  BY MinutesFinite
<1>2. MinuteOf(MaxTime) \in Nat
  BY FeedAssumption, DivIsMonotone DEF MinuteOf
<1>3. \A x \in H : x \in Nat /\ x <= MinuteOf(MaxTime)
  BY <1>2 DEF Minutes
<1> DEFINE T == {n \in Nat : Cardinality(Before(H, n)) > k}
<1>4. MinuteOf(MaxTime) + 1 \in T
  <2>1. Before(H, MinuteOf(MaxTime) + 1) = H
    BY <1>2, <1>3 DEF Before
  <2> QED BY <1>1, <1>2, <2>1
<1>5. PICK n \in T : \A u \in T : n <= u
  <2> HIDE DEF T
  <2>1. T \in SUBSET Nat
    BY DEF T
  <2> QED BY <1>4, <2>1, LeastNumber
<1>6. n \in Nat /\ Cardinality(Before(H, n)) > k
  OBVIOUS
<1>7. n # 0
  <2> SUFFICES ASSUME n = 0 PROVE FALSE
    OBVIOUS
  <2>1. Before(H, n) = {}
    BY <1>3 DEF Before
  <2>2. Cardinality(Before(H, n)) = 0
    BY <2>1, FS_EmptySet
  <2> QED BY <1>1, <1>6, <2>2
<1>8. n - 1 \in Nat /\ n - 1 \notin T
  BY <1>5, <1>6, <1>7
<1>9. Cardinality(Before(H, n - 1)) <= k /\ Cardinality(Before(H, n - 1)) \in Nat
  BY <1>1, <1>8, MinutesFinite
<1>10. Before(H, n) = Before(H, n - 1) \cup (H \cap {n - 1})
  BY <1>3, <1>6, <1>8 DEF Before
<1>11. n - 1 \in H
  BY <1>1, <1>6, <1>9, <1>10
<1>12. n - 1 \notin Before(H, n - 1)
  BY <1>8 DEF Before
<1>13. Before(H, n) = Before(H, n - 1) \cup {n - 1}
  BY <1>10, <1>11
<1>14. Cardinality(Before(H, n)) = Cardinality(Before(H, n - 1)) + 1
  <2>1. IsFiniteSet(Before(H, n - 1))
    BY MinutesFinite
  <2> QED BY <1>12, <1>13, <2>1, FS_AddElement
<1>15. Cardinality(Before(H, n - 1)) = k
  BY <1>1, <1>6, <1>9, <1>14
<1> QED BY <1>11, <1>15

\* The bars of an hour, one after the other.
LEMMA HourAscends ==
  ASSUME NEW s \in Symbols, NEW h
  PROVE  /\ ByMinute(s, h) \in Seq(HourBars(s, h))
         /\ Ascends(ByMinute(s, h))
<1> DEFINE H == HourBars(s, h)
           q == ByMinute(s, h)
<1>1. H \in SUBSET Minutes
  BY DEF HourBars
<1>2. Cardinality(H) \in Nat
  BY <1>1, MinutesFinite
<1>3. q = [i \in 1..Cardinality(H) |-> CHOOSE m \in H : Cardinality(Before(H, m)) = i - 1]
  BY DEF ByMinute, Before
<1> HIDE DEF H, q
<1>4. ASSUME NEW i \in 1..Cardinality(H)
      PROVE  q[i] \in H /\ Cardinality(Before(H, q[i])) = i - 1
  <2>1. i - 1 \in 0..(Cardinality(H) - 1)
    BY <1>2
  <2>2. \E m \in H : Cardinality(Before(H, m)) = i - 1
    BY <1>1, <2>1, EveryRank
  <2>3. q[i] = CHOOSE m \in H : Cardinality(Before(H, m)) = i - 1
    BY <1>3
  <2> QED BY <2>2, <2>3
<1>5. q \in Seq(H) /\ Len(q) = Cardinality(H)
  <2>1. q \in [1..Cardinality(H) -> H]
    BY <1>3, <1>4
  <2> QED BY <1>2, <2>1
<1>6. Ascends(q)
  <2> SUFFICES ASSUME NEW i \in 1..Len(q), NEW j \in 1..Len(q), i < j
               PROVE  q[i] < q[j]
    BY DEF Ascends
  <2>1. q[i] \in H /\ Cardinality(Before(H, q[i])) = i - 1
        /\ q[j] \in H /\ Cardinality(Before(H, q[j])) = j - 1
    BY <1>4, <1>5
  <2>2. H \subseteq Nat /\ q[i] \in Nat /\ q[j] \in Nat
    BY <1>1, <2>1, MinutesFinite
  <2>3. CASE q[j] <= q[i]
    <3>1. Before(H, q[j]) \subseteq Before(H, q[i])
      BY <2>2, <2>3, MoreBefore
    <3>2. Cardinality(Before(H, q[j])) <= Cardinality(Before(H, q[i]))
      BY <1>1, <3>1, MinutesFinite, FS_Subset
    <3>3. i \in Int /\ j \in Int
      BY <1>2, <1>5
    <3> QED BY <2>1, <3>2, <3>3
  <2> QED BY <2>2, <2>3
<1> QED BY <1>5, <1>6 DEF H, q

\* The pieces the closes are gathered from.
PieceOf(s, i) ==
  IF HoursBack[i] > HourOf(now) THEN << >> ELSE ByMinute(s, HourOf(now) - HoursBack[i])

\* The first n pieces put together, one step at a time.
Gathers(f, s, n) ==
  f = [i \in 0..n |-> IF i = 0 THEN << >> ELSE f[i - 1] \o PieceOf(s, i)]

LEMMA HoursBackShape ==
  /\ Lookback \in Nat /\ Len(HoursBack) = Lookback + 1
  /\ \A i \in 1..(Lookback + 1) : HoursBack[i] = Lookback + 1 - i
<1>1. Lookback \in Nat
  BY FeedAssumption
<1>2. HoursBack \in [1..(Lookback + 1) -> Int]
  BY <1>1 DEF HoursBack
<1>3. \A i \in 1..(Lookback + 1) : HoursBack[i] = Lookback + 1 - i
  BY DEF HoursBack
<1>4. Lookback + 1 \in Nat
  BY <1>1
<1>5. Len(HoursBack) = Lookback + 1
  BY <1>2, <1>4
<1> QED BY <1>1, <1>3, <1>5

\* The pieces can be put together, up to any of them.
LEMMA GatheringExists ==
  ASSUME NEW s \in Symbols, NEW n \in Nat
  PROVE  \E f : Gathers(f, s, n)
<1> SUFFICES ASSUME ~ \E f : Gathers(f, s, n) PROVE FALSE
  OBVIOUS
<1> DEFINE T == {k \in Nat : ~ \E f : Gathers(f, s, k)}
<1>1. n \in T /\ T \in SUBSET Nat
  OBVIOUS
<1>2. PICK k \in T : \A u \in T : k <= u
  <2> HIDE DEF T
  <2> QED BY <1>1, LeastNumber
<1>3. k \in Nat /\ ~ \E f : Gathers(f, s, k)
  OBVIOUS
<1>4. CASE k = 0
  <2> DEFINE f == [i \in 0..0 |-> << >>]
  <2>1. f = [i \in 0..0 |-> IF i = 0 THEN << >> ELSE f[i - 1] \o PieceOf(s, i)]
    <3>1. \A i \in 0..0 : (IF i = 0 THEN << >> ELSE f[i - 1] \o PieceOf(s, i)) = << >>
      OBVIOUS
    <3> QED BY <3>1
  <2> HIDE DEF f
  <2>2. Gathers(f, s, 0)
    BY <2>1 DEF Gathers
  <2> QED BY <1>3, <1>4, <2>2
<1>5. CASE k # 0
  <2>1. k - 1 \in Nat /\ k - 1 \notin T
    BY <1>2, <1>3, <1>5
  <2>2. PICK g : Gathers(g, s, k - 1)
    BY <2>1
  <2> DEFINE f == [i \in 0..k |-> IF i = k THEN g[k - 1] \o PieceOf(s, k) ELSE g[i]]
  <2>3. ASSUME NEW i \in 0..k
        PROVE  f[i] = IF i = 0 THEN << >> ELSE f[i - 1] \o PieceOf(s, i)
    <3>1. i \in Int /\ 0 <= i /\ i <= k
      BY <1>3
    <3>2. CASE i = k
      <4>1. k - 1 \in 0..k /\ k - 1 # k
        BY <1>3, <2>1
      <4>2. f[k - 1] = g[k - 1] /\ f[i] = g[k - 1] \o PieceOf(s, k)
        BY <3>2, <4>1
      <4> HIDE DEF f
      <4> QED BY <1>5, <3>2, <4>2
    <3>3. CASE i # k
      <4>1. i \in 0..(k - 1)
        BY <1>3, <3>1, <3>3
      <4>2. g[i] = IF i = 0 THEN << >> ELSE g[i - 1] \o PieceOf(s, i)
        BY <2>2, <4>1 DEF Gathers
      <4>3. f[i] = g[i]
        BY <3>3
      <4>4. i # 0 => i - 1 \in 0..k /\ i - 1 # k
        BY <1>3, <3>1
      <4>5. i # 0 => f[i - 1] = g[i - 1]
        BY <4>4
      <4> HIDE DEF f
      <4> QED BY <4>2, <4>3, <4>5
    <3> QED BY <3>2, <3>3
  <2>4. f = [i \in 0..k |-> f[i]]
    OBVIOUS
  <2> HIDE DEF f
  <2>5. Gathers(f, s, k)
    BY <2>3, <2>4 DEF Gathers
  <2> QED BY <1>3, <2>5
<1> QED BY <1>4, <1>5

LEMMA RecentAreGathered ==
  ASSUME NEW s \in Symbols
  PROVE  \E f : Gathers(f, s, Lookback + 1) /\ RecentMinutes(s) = f[Lookback + 1]
<1>1. Lookback + 1 \in Nat /\ Len(HoursBack) = Lookback + 1
  BY HoursBackShape
<1> DEFINE f == CHOOSE f : Gathers(f, s, Lookback + 1)
<1>2. Gathers(f, s, Lookback + 1)
  BY <1>1, GatheringExists
<1>3. RecentMinutes(s) = f[Lookback + 1]
  BY <1>1 DEF RecentMinutes, Gathers, PieceOf
<1> QED BY <1>2, <1>3

\* Two ascending sequences, all of one before all of the other.
LEMMA ConcatAscends ==
  ASSUME NEW p \in Seq(Nat), NEW q \in Seq(Nat), Ascends(p), Ascends(q),
         \A i \in 1..Len(p), j \in 1..Len(q) : p[i] < q[j]
  PROVE  Ascends(p \o q)
<1> SUFFICES ASSUME NEW i \in 1..Len(p \o q), NEW j \in 1..Len(p \o q), i < j
             PROVE  (p \o q)[i] < (p \o q)[j]
  BY DEF Ascends
<1>1. Len(p) \in Nat /\ Len(q) \in Nat /\ Len(p \o q) = Len(p) + Len(q)
  OBVIOUS
<1>2. \A k \in 1..Len(p \o q) :
        (p \o q)[k] = IF k <= Len(p) THEN p[k] ELSE q[k - Len(p)]
  OBVIOUS
<1>3. i \in Int /\ j \in Int /\ 1 <= i /\ j <= Len(p) + Len(q)
  BY <1>1
<1>4. CASE j <= Len(p)
  BY <1>1, <1>2, <1>3, <1>4 DEF Ascends
<1>5. CASE i <= Len(p) /\ j > Len(p)
  <2>1. i \in 1..Len(p) /\ j - Len(p) \in 1..Len(q)
    BY <1>1, <1>3, <1>5
  <2> QED BY <1>2, <1>5, <2>1, <1>1, <1>3
<1>6. CASE i > Len(p)
  <2>1. i - Len(p) \in 1..Len(q) /\ j - Len(p) \in 1..Len(q) /\ i - Len(p) < j - Len(p)
        /\ ~ (i <= Len(p)) /\ ~ (j <= Len(p))
    BY <1>1, <1>3, <1>6
  <2>2. q[i - Len(p)] < q[j - Len(p)]
    BY <2>1 DEF Ascends
  <2> QED BY <1>2, <2>1, <2>2
<1> QED BY <1>1, <1>3, <1>4, <1>5, <1>6

\* Minutes with a bar, none of an hour after the one given.
Until(s, h) == {m \in Minutes : bars[s][m] # NoBar /\ m \div Hour <= h}

LEMMA HourIsLast ==
  ASSUME NEW s \in Symbols, NEW h \in Int, NEW g \in Int, g < h
  PROVE  /\ HourBars(s, h) \subseteq Until(s, h) /\ Until(s, g) \subseteq Until(s, h)
         /\ \A m \in Until(s, g), n \in HourBars(s, h) : m < n
<1>1. Minutes \subseteq Nat /\ Hour \in Nat \ {0}
  BY MinutesFinite, FeedAssumption
<1>2. HourBars(s, h) \subseteq Until(s, h)
  BY DEF HourBars, Until
<1>3. \A m \in Minutes : m \div Hour \in Nat
  BY <1>1, DivIsMonotone
<1>4. Until(s, g) \subseteq Until(s, h)
  BY <1>3 DEF Until
<1>5. ASSUME NEW m \in Until(s, g), NEW n \in HourBars(s, h)
      PROVE  m < n
  <2>1. m \in Nat /\ n \in Nat /\ m \div Hour <= g /\ n \div Hour = h /\ m \div Hour \in Nat
    BY <1>1, <1>3 DEF Until, HourBars
  <2>2. n <= m => n \div Hour <= m \div Hour
    BY <1>1, <2>1, DivIsMonotone
  <2> QED BY <2>1, <2>2
<1> QED BY <1>2, <1>4, <1>5

\* The oldest hour first: what is gathered stays in order, and before the hours
\* still to be read.
LEMMA GatheredAscend ==
  ASSUME Clock, NEW s \in Symbols, NEW f, Gathers(f, s, Lookback + 1), NEW n \in 0..(Lookback + 1)
  PROVE  /\ f[n] \in Seq(Until(s, HourOf(now) - (Lookback + 1 - n)))
         /\ Ascends(f[n])
<1> DEFINE hour(k) == HourOf(now) - (Lookback + 1 - k)
           Good(k) == f[k] \in Seq(Until(s, hour(k))) /\ Ascends(f[k])
           T == {k \in 0..(Lookback + 1) : ~ Good(k)}
<1> SUFFICES ASSUME T # {} PROVE FALSE
  OBVIOUS
<1>1. Lookback \in Nat /\ HourOf(now) \in Nat
  <2>1. now \in Nat /\ Minute \in Nat \ {0} /\ Hour \in Nat \ {0}
    BY FeedAssumption DEF Clock
  <2>2. now \div Minute \in Nat
    <3> HIDE DEF T
    <3> QED BY ONLY <2>1, DivIsMonotone
  <2>3. MinuteOf(now) \in Nat
    BY <2>2 DEF MinuteOf
  <2> QED BY <2>1, <2>3, DivIsMonotone, HoursBackShape DEF HourOf
<1>2. PICK k \in T : \A u \in T : k <= u
  <2>1. T \in SUBSET Nat
    BY <1>1
  <2> HIDE DEF T
  <2> QED BY <2>1, LeastNumber
<1>3. k \in 0..(Lookback + 1) /\ ~ Good(k)
  OBVIOUS
<1>4. f[k] = IF k = 0 THEN << >> ELSE f[k - 1] \o PieceOf(s, k)
  BY <1>3 DEF Gathers
<1>5. CASE k = 0
  <2>1. f[k] = << >>
    BY <1>4, <1>5
  <2>2. f[k] \in Seq(Until(s, hour(k))) /\ Len(f[k]) = 0
    BY <2>1
  <2>3. Ascends(f[k])
    BY <2>2 DEF Ascends
  <2> QED BY <1>3, <2>2, <2>3
<1>6. CASE k # 0
  <2>1. k \in Int /\ k - 1 \in 0..(Lookback + 1) /\ k \in 1..(Lookback + 1)
    BY <1>1, <1>3, <1>6
  <2>2. k - 1 \notin T
    BY <1>2, <2>1
  <2>3. Good(k - 1)
    BY <2>1, <2>2
  <2>4. hour(k - 1) \in Int /\ hour(k) \in Int /\ hour(k - 1) < hour(k)
    BY <1>1, <2>1
  <2>5. HoursBack[k] = Lookback + 1 - k
    BY <2>1, HoursBackShape
  <2>6. HourOf(now) - HoursBack[k] = hour(k)
    BY <2>5
  <2> DEFINE p == f[k - 1]
             q == PieceOf(s, k)
             h == hour(k)
             g == hour(k - 1)
  <2>7. f[k] = p \o q /\ p \in Seq(Until(s, g)) /\ Ascends(p) /\ g \in Int /\ h \in Int /\ g < h
    BY <1>4, <1>6, <2>3, <2>4
  <2>8. q = << >> \/ q = ByMinute(s, h)
    BY <2>6 DEF PieceOf
  <2> HIDE DEF p, q, h, g, Good, T
  <2>9. /\ HourBars(s, h) \subseteq Until(s, h) /\ Until(s, g) \subseteq Until(s, h)
        /\ \A m \in Until(s, g), x \in HourBars(s, h) : m < x
    BY <2>7, HourIsLast
  <2>10. q \in Seq(HourBars(s, h)) /\ Ascends(q)
    <3>1. CASE q = << >>
      <4>1. q \in Seq(HourBars(s, h)) /\ Len(q) = 0
        BY <3>1
      <4> QED BY <4>1 DEF Ascends
    <3>2. CASE q = ByMinute(s, h)
      BY <3>2, HourAscends
    <3> QED BY <2>8, <3>1, <3>2
  <2>11. Until(s, h) \subseteq Nat
    BY MinutesFinite DEF Until
  <2>12. p \in Seq(Until(s, h)) /\ q \in Seq(Until(s, h)) /\ p \in Seq(Nat) /\ q \in Seq(Nat)
    BY <2>7, <2>9, <2>10, <2>11
  <2>13. \A i \in 1..Len(p), j \in 1..Len(q) : p[i] < q[j]
    <3> SUFFICES ASSUME NEW i \in 1..Len(p), NEW j \in 1..Len(q) PROVE p[i] < q[j]
      OBVIOUS
    <3>1. p[i] \in Until(s, g) /\ q[j] \in HourBars(s, h)
      BY <2>7, <2>10
    <3> QED BY <2>9, <3>1
  <2>14. Ascends(p \o q)
    BY <2>7, <2>10, <2>12, <2>13, ConcatAscends
  <2>15. p \o q \in Seq(Until(s, h))
    BY <2>12
  <2> QED BY <1>3, <2>7, <2>14, <2>15 DEF Good, h
<1> QED BY <1>5, <1>6

\* The closes of the last hours reach the indicators in the order of time: the
\* oldest hour first, over the turn of the hour and whichever writer wrote a
\* minute last (_gather_recent_closes).
THEOREM ClosesAscend == Spec => []ClosesInOrder
<1>1. FeedInv => ClosesInOrder
  <2> SUFFICES ASSUME FeedInv, NEW s \in Symbols,
                      NEW i \in 1..Len(RecentMinutes(s)), NEW j \in 1..Len(RecentMinutes(s)), i < j
               PROVE  bars[s][RecentMinutes(s)[i]].last < bars[s][RecentMinutes(s)[j]].last
    BY DEF ClosesInOrder
  <2> DEFINE ms == RecentMinutes(s)
  <2>1. Clock /\ StoreShape /\ BarsHold
    BY DEF FeedInv
  <2>2. PICK f : Gathers(f, s, Lookback + 1) /\ ms = f[Lookback + 1]
    BY RecentAreGathered
  <2>3. Lookback + 1 \in 0..(Lookback + 1)
    BY HoursBackShape
  <2>4. ms \in Seq(Until(s, HourOf(now) - (Lookback + 1 - (Lookback + 1)))) /\ Ascends(ms)
    BY <2>1, <2>2, <2>3, GatheredAscend
  <2> HIDE DEF ms
  <2>5. /\ ms[i] \in Minutes /\ bars[s][ms[i]] # NoBar
        /\ ms[j] \in Minutes /\ bars[s][ms[j]] # NoBar
        /\ ms[i] < ms[j]
    <3>1. i \in 1..Len(ms) /\ j \in 1..Len(ms)
      BY DEF ms
    <3> QED BY <2>4, <3>1 DEF Ascends, Until
  <2>6. bars[s][ms[i]].last \in 0..MaxTime /\ bars[s][ms[j]].last \in 0..MaxTime
    BY <2>1, <2>5, BarFacts
  <2>7. bars[s][ms[i]].last >= bars[s][ms[j]].last => ms[j] <= ms[i]
    BY <2>1, <2>5, LaterBar
  <2>8. ms[i] \in Nat /\ ms[j] \in Nat /\ MaxTime \in Nat
    BY <2>5, MinutesFinite, FeedAssumption
  <2>9. bars[s][ms[i]].last < bars[s][ms[j]].last
    BY <2>5, <2>6, <2>7, <2>8
  <2> QED BY <2>9 DEF ms
<1> QED BY <1>1, FeedHolds, PTL
=============================================================================
