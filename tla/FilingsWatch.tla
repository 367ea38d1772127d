---------------------------- MODULE FilingsWatch ----------------------------
(***************************************************************************)
(* The EDGAR watcher.  Every 15 minutes a run lists the symbols of the       *)
(* active strategies and, one ticker after another, copies the filings its   *)
(* index does not have yet: the body into S3, then the index row that the    *)
(* filings tool finds it by.  Runs are cut off at 5 minutes or by an         *)
(* exception, and an invocation that is retried overlaps the next one.       *)
(***************************************************************************)
EXTENDS Naturals, FiniteSets

CONSTANTS
  Tickers,      \* numbers, in the order runs take them
  Runs,         \* invocations there may be at a time
  MaxPerTicker, \* filings of a ticker considered by a run
  MaxFilings    \* filings of all tickers together (bound)

ASSUME WatchAssumption ==
  /\ Tickers \subseteq Nat
  /\ MaxPerTicker \in Nat \ {0} /\ MaxFilings \in Nat

Filings == Tickers \X (1..MaxFilings)

VARIABLES
  released,   \* number of filings of each ticker EDGAR lists
  watched,    \* symbols of active strategies
  bodies,     \* filings whose body is in S3
  index,      \* filings with an index row
  run         \* what each run is at: the tickers left, the feed of the last
              \* one, and whether the run is spared failures (foreseen)

watchVars == <<released, watched, bodies, index, run>>

Idle == [pc |-> "idle", left |-> {}, todo |-> {}, spared |-> FALSE]

WatchInit ==
  /\ released = [t \in Tickers |-> 0]
  /\ watched = {}
  /\ bodies = {} /\ index = {}
  /\ run = [r \in Runs |-> Idle]

\* parse_submissions_json: the newest filings of the ticker.
Feed(t) ==
  {<<t, n>> : n \in {k \in 1..released[t] : k + MaxPerTicker > released[t]}}

\* A company files, or a user changes what the active strategies watch.
Release(t) ==
  /\ Cardinality({f \in Filings : f[2] <= released[f[1]]}) < MaxFilings
  /\ released' = [released EXCEPT ![t] = @ + 1]
  /\ UNCHANGED <<watched, bodies, index, run>>

Watch(t) ==
  /\ watched' = (watched \cup {t}) \ (watched \cap {t})
  /\ UNCHANGED <<released, bodies, index, run>>

\* _run: the symbols of the active strategies and the ticker map; a run for
\* which either fails does nothing.
StartRun(r, s) ==
  /\ run[r].pc = "idle"
  /\ watched # {}
  /\ run' = [run EXCEPT ![r] = 
       [pc |-> "filing", left |-> watched, todo |-> {}, spared |-> s]]
  /\ UNCHANGED <<released, watched, bodies, index>>

Newest(fs) == CHOOSE f \in fs : \A g \in fs : g[2] <= f[2]
NextFiling(r) == Newest(run[r].todo)

\* The run is through with a ticker and t is next.
NextTicker(r, t) ==
  /\ run[r].pc = "filing" /\ run[r].todo = {}
  /\ \A u \in run[r].left : t <= u

\* process_ticker: the submissions of the next ticker, or none if that fails.
FetchFeed(r) ==
  /\ \E t \in run[r].left :
       /\ NextTicker(r, t)
       /\ run' = [run EXCEPT ![r].left = @ \ {t}, ![r].todo = Feed(t)]
  /\ UNCHANGED <<released, watched, bodies, index>>

FeedFails(r) ==
  /\ ~run[r].spared
  /\ \E t \in run[r].left :
       NextTicker(r, t) /\ run' = [run EXCEPT ![r].left = @ \ {t}]
  /\ UNCHANGED <<released, watched, bodies, index>>

\* A filing counts as known once its body is there.
Known_slip(f) == f \in bodies

\* index_store.get: what is known is not fetched again.
Known(f) == f \in index

\* What a run does next with the filings that remain.
Continue(r, pc) == run' = [run EXCEPT ![r].pc = pc]
Skip(r) ==
  run' = [run EXCEPT ![r].pc = "filing", ![r].todo = @ \ {NextFiling(r)}]

LookUp(r) ==
  /\ run[r].pc = "filing" /\ run[r].todo # {}
  /\ \/ Known(NextFiling(r)) /\ Skip(r)
     \/ ~Known(NextFiling(r)) /\ Continue(r, "body")
  /\ UNCHANGED <<released, watched, bodies, index>>

\* The index row is written first, or whether or not the body is there.
StoreBody_slip(r) ==
  /\ run[r].pc = "body"
  /\ Continue(r, "index")
  /\ bodies' \in {bodies, bodies \cup {NextFiling(r)}}
  /\ UNCHANGED <<released, watched, index>>

\* client.filing_body, then body_store.put.
StoreBody(r) ==
  /\ run[r].pc = "body"
  /\ Continue(r, "index")
  /\ bodies' = bodies \cup {NextFiling(r)}
  /\ UNCHANGED <<released, watched, index>>

\* If either fails, the run goes on with the next filing.
BodyFails(r) ==
  /\ run[r].pc = "body" /\ ~run[r].spared
  /\ Skip(r)
  /\ UNCHANGED <<released, watched, bodies, index>>

StoreIndex(r) ==
  /\ run[r].pc = "index"
  /\ index' = index \cup {NextFiling(r)}
  /\ Skip(r)
  /\ UNCHANGED <<released, watched, bodies>>

\* The run ends: no ticker is left, an index call raised (there is
\* no try around it), or the time is up.
EndRun(r) ==
  /\ run[r].pc # "idle"
  /\ run[r].spared => run[r].left = {} /\ run[r].todo = {}
  /\ run' = [run EXCEPT ![r] = Idle]
  /\ UNCHANGED <<released, watched, bodies, index>>

WatchStep(r) ==
  \/ FetchFeed(r) \/ FeedFails(r) \/ LookUp(r)
  \/ StoreBody(r) \/ BodyFails(r) \/ StoreIndex(r) \/ EndRun(r)

WatchNext ==
  \/ \E t \in Tickers : Release(t) \/ Watch(t)
  \/ \E r \in Runs : WatchStep(r) \/ \E s \in BOOLEAN : StartRun(r, s)

WatchSpec == WatchInit /\ [][WatchNext]_watchVars

\* Runs go on, and again and again one goes through without a failure.
WatchFairness ==
  /\ \A r \in Runs : WF_watchVars(WatchStep(r))
  /\ SF_watchVars(\E r \in Runs : StartRun(r, TRUE))

-----------------------------------------------------------------------------
WatchTypeOK ==
  /\ released \in [Tickers -> 0..MaxFilings]
  /\ watched \subseteq Tickers
  /\ bodies \subseteq Filings /\ index \subseteq Filings
  /\ run \in [Runs -> [pc   : {"idle", "filing", "body", "index"},
                       left : SUBSET Tickers,
                       todo : SUBSET Filings,
                       spared : BOOLEAN]]

\* What the filings tool lists it can read, wherever a run was cut off.
IndexHasBody == index \subseteq bodies

\* A filing of a ticker that stays watched is indexed in the end, though calls
\* fail and runs are cut off, unless newer filings crowd it out of the feed.
EveryFilingLands ==
  \A f \in Filings :
    <>[](f[1] \in watched /\ f \in Feed(f[1])) => <>[](f \in index)
=============================================================================
