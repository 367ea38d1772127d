# TradingStrands in TLA+

Specifications of the parts of TradingStrands whose correctness depends on the
order of events: which orders reach a broker, what the ledgers say afterwards,
what a halt stops, which tasks trade a strategy, who belongs to which org, what
a review agent reads and what it may conclude. Paths below are relative to
`src/src/trading_strands/` unless they start with `src/`. `PROJECT.json` maps
every definition to the lines it models and lists components, runs, mutants,
hazards and theorems.

## The system

TradingStrands runs strategy bots for organisations. One DynamoDB table holds
nearly everything that outlives a process; every process reads and writes single
items of it, and no DynamoDB transaction is used anywhere.

| Process | Code | State it keeps | How it talks to the others |
|---|---|---|---|
| Trading service (Fargate) | `app.py`, `orchestrator/`, `coordinator/`, `risk/`, `ledger/`, `strategies/` | ledgers, brokers per org, desk halt flag, failed reconcile cycles | tick loop and poll loop as two asyncio tasks; reads STRATEGY# and CONTROL rows, writes LEDGER# rows and events; orders to Alpaca |
| Per-strategy service (Fargate) | `app.py` single-bot mode | the same for one bot, no poll loop | started and stopped by the supervisor through ECS |
| Strategy supervisor (Lambda) | `supervisor/strategy_supervisor.py` | none | DynamoDB stream of STRATEGY# rows in, ECS calls out |
| One-shot reconciler (Lambda) | `supervisor/reconcile_all.py` | none | lists the rows, the same ECS calls |
| Dashboard (FastAPI) | `dashboard/` | sessions | sets rows: strategies, ACLs, halts, users, memberships, proposals, secrets; Cognito accounts |
| Market data subscriber (Fargate) | `marketdata_subscriber/`, `marketdata_store/` | minute buffers | MARKETDATA# rows, read by `marketdata/store_provider.py` and `ta_computer/` |
| Review agents (Lambdas) | `auditor_agent/`, `risk_agent/`, `compliance_agent/`, `self_critique/`, `memory_compactor/` | S3 objects of agent memory | started by `provisioner/` and `org_fanout/`; the auditor sets the org's halt row |
| Data fetchers (Lambdas) | `edgar_watcher/`, `calendar_fetcher/`, `ta_computer/` | cached rows and S3 bodies | read by tools and prompts |
| Platform supervisor (Lambda) | `platform_supervisor/`, `heartbeat/` | HEARTBEAT# rows | metrics |
| Bootstrap (CI) | `bootstrap/` | none | creates the system org, the first user and memberships |

What makes each part correct, and what makes that hard:

* **Desk and coordinator.** A bot's ledger says what the broker executed for
  it; no order after a halt or for a bot that was dropped. Hard: the tick loop
  awaits the network at every step while the poll loop pops ledgers; a task can
  die between the fill, the event and the snapshot; a market order is usually
  answered before it fills.
* **Ledger and risk manager.** The books balance; the limits of the risk
  configuration hold over sequences of orders. Hard: rounding, partial fills,
  sells that exceed what is held, limits that are checked per order.
* **Halt store.** A halted row is seen by every later check and leaves a trace
  in the audit log; alarm and log agree. Hard: four remote effects per call,
  two reads per check, concurrent callers, failures between the steps.
* **Supervisor.** Services follow rows. Hard: at-least-once delivery, batches
  given up, two Lambdas reconciling the same service, services that drain.
* **Tenancy and bootstrap.** An address belongs to one user, the two sides of a
  membership agree, a deletion leaves nothing, there is always a sysadmin.
  Hard: every request is a walk over unconditional puts with hand-written
  rollbacks, beside logins that provision users.
* **Strategy rows and proposals.** A deleted strategy stays deleted; the
  verdict on a proposal agrees with the text; only the org's own people edit.
  Hard: check, then read, then write, in separate calls.
* **Market data.** A provider never answers with an older price than it
  promises; what was observed is stored. Hard: two writers that replace each
  other's bars, flushes in the middle of a minute, failing updates, the turn of
  the hour.
* **Agent memory.** An entry is written once and not lost, a summary hides
  nothing but what the model left out. Hard: read-modify-write of whole objects,
  retried invocations.
* **Tool quota, heartbeats, filings, audit.** A quota bounds overlapping calls;
  silence is reported; an index row has its body; an audit's verdict is true.
  Hard: midnight, expiry, cut-off runs, snapshots read one after another.

## Modules

| Module | Models | Checked by | Proved in |
|---|---|---|---|
| `TradingDesk` | tick loop, poll loop, coordinator, ledgers, snapshots and events, halts, reconciler, crash and boot | `Desk*` through `MCTradingDesk` | `TradingDeskProofs` |
| `BotLedger` | money in one ledger, risk limits, fills | `Watchers` through `MCWatchers` | `LedgerProofs` |
| `HaltLog` | what the halt rows promise: a flag and a log of its changes | refined by `HaltStore` | |
| `HaltStore` | halt rows, metric, audit log, effective-halt check | `HaltRows` through `MCHaltStore` | `HaltStoreProofs` |
| `StrategySupervisor` | strategy rows, stream, both Lambdas, ECS | `SupServices` through `MCStrategySupervisor` | `StrategySupervisorProofs` |
| `AuthzPolicy` | the authorization rules | with `Tenancy` and `StrategyRows`, which extend it | `TenancyProofs` |
| `Tenancy` | users, addresses, orgs, memberships, sysadmins, accounts, bootstrap | `TenantRows` through `MCTenancy` | `TenancyProofs` |
| `StrategyRows` | the requests about strategies and proposals | `StrategyRecords` through `MCStrategyRecords` | `StrategyRowsProofs` |
| `MarketFeed` | subscriber, store of bars, provider, the TA computer's input | `BotInputs`, `FeedEcho` through `MCBotInputs` | `FeedProofs` |
| `ToolCalls` | quota, cache and brake of the research tools | `BotInputs`, `ToolBudget` through `MCBotInputs` | `AgentRecordsProofs` |
| `AgentMemory` | memory files, compactor, self critique, review agents | `StrategyRecords` | `AgentRecordsProofs` |
| `FilingsWatch` | the EDGAR watcher, bodies and index | `Watchers` through `MCWatchers` | `FeedProofs` |
| `Heartbeats` | heartbeat rows and the platform supervisor | `Watchers` | `FeedProofs` |
| `OrgAudit` | the auditor agent among trading bots | `Watchers` | `LedgerProofs` |

`MCBotInputs`, `MCStrategyRecords` and `MCWatchers` put components that share no
state side by side: `part` says in the initial state which of them is at work, so
a run explores each of them alone, not their product.

Three markers are used in the declarations: *(history)* for variables that
only record what happened, *(bound)* for constants that only stop inputs, and
*(foreseen)* for a choice made earlier than the program makes it (`spared`,
under Fairness).

### TradingDesk

State: what DynamoDB holds (strategy status, halt rows, snapshot and event log
per bot), what the process holds (the ledgers, the cached broker of each org,
the in-memory halt flag, the count of failed reconciles, where the tick loop
and the poll loop wait), what the broker holds (the position each account and
each bot's fills amount to, working orders), and history variables that say
what happened (orders sent after a halt, causes by which a ledger may differ).

The two loops are asyncio tasks of one thread: whatever happens between two
awaits is one action, and every await is a place where the other loop, users,
the broker or a crash can step in. `TickStart` to `EndOfBots` are
`Orchestrator._tick`, `GateSystem` to `SaveSnapshot` the coordinator's `execute`,
`SamplePositions` and `Compare` the reconcile, `PollScan` to `PollSleep` the
poll, `Crash` and `Boot` the end and the start of the task. The ledger of a bot
is the number of units it holds: what goes wrong between loops goes wrong with
whole fills, and money has a module of its own.

A property that must allow for a known cause says so: `LedgerFollowsFills` is
"equal unless one of these causes occurred for this bot". The causes are steps
the model names (a late fill, a crash before the save, a refused sell, ...), so
the property fails when anything else separates ledger and broker.

### BotLedger

`Submit` is `RiskManager.evaluate` with the quotes as read, `Fill` is
`Ledger.record_fill` on a broker's answer of at most the order's quantity at
any price. Amounts are integers and a quotient is rounded half to even, which is
what Decimal does in its last digit: rounding then happens in nearly every
average instead of in the 28th digit, and `slack` bounds what it may cost.
`order_history` is the balance of shares it adds up to.

### HaltStore and HaltLog

A call of `set_system_halt` or `set_org_halt` reads (`ReadPrior`), puts
(`PutRow`) and, on a change, emits the metric (`Emit`) and puts the audit row
(`PutEvent`); `Fail` ends it anywhere. `Ask`, `ReadSystem`, `ReadOrg` are
`is_effective_halted`. `HaltLog` is the abstract specification: a flag that
changes together with its log. `AuditsEveryChange` is the refinement, with the
flag mapped to the old value until the change is recorded; it holds for rows in
`Serialized`, written by one uninterrupted call at a time. Neither assumption
can be dropped: two calls that read the same old value record one change twice,
and a call that fails between metric and audit row leaves them apart.

### StrategySupervisor

Users change rows, every change appends a stream record; `Invoke` takes a
batch, `NextRecord` classifies, then `Describe`, `CreateService`, `ScaleUp`,
`ScaleDown` and `DeleteService` are the ECS calls of `reconcile`, shared by the
streams Lambda and the one-shot reconciler, each a step of its own. ECS is
external: it refuses updates of a draining service and the creation of a
service that exists, and moves running tasks to the desired count. `doubts`
holds the reasons for which a service may not follow its row: a swallowed
error, a batch given up, a decision from an old list, a row older than the
stream.

### Tenancy and AuthzPolicy

`AuthzPolicy` is `authz/policy.py`: one operator per rule, `Can` their
disjunction. `Tenancy` holds the rows of `tenancy/store.py` (`users`, `mail`,
`index`, `userOrg`, `orgUser`, `admins`, `orgs`) and the Cognito accounts. A
request of `dashboard/api.py` begins with its checks (`CreateUser`,
`UpdateUserRole`, `DeleteUser`, `GrantSysadmin`, `RevokeSysadmin`, `Login`,
`Bootstrap`) and then walks: `at` names its next remote call and each action
from `EnsureSystemOrg` to `DeleteAccount` is one such call. `Break` is a call
that raises, after which `AfterError` goes to the handler's rollback or to the
next step where `delete_user` suppresses the error, or a process that dies. The
history variables `torn`, `scarred` and `risked` record that requests about an
address or revocations overlapped or broke: the properties promise nothing
more there, since the code does not (see below).

### StrategyRows

The requests of `dashboard/api.py` on strategies and proposals, as calls:
`Arrive` reads the principal, `Check` the row, its co-authors and the policy,
`ReadProposal` the proposal, `Update`, `Decide`, `DeleteRow`, `SweepAcl` write.
`Update` and `Decide` carry the conditions of their conditional writes
(`Updatable`, `Decidable`). `Propose` is the self critique's proposal and
`ChangeRole` what `Tenancy` may do to the caller meanwhile.

### MarketFeed

A price is abstracted to the moment the broker quoted it, so the age a bar
claims can be compared with the price's real age; of a bar only the last
observation is followed. `Record` is `record_tick` (flush the minutes that are
over, then buffer), `FlushAll` the flush, and `RecordLost` and `FlushLost` what
a failed write leaves. A flush writes minute by minute, so what was written
before the write that failed is stored (`HeldBefore`); only a flush of several
symbols has such a part, as a symbol never has two minutes that are over in its
buffer. `Poll`, `EndCycle`, `Terminate` and `EndTask` are the subscriber,
`FetchPrice` and `RecordPrice` the trading service, `HourRead`, `NewestRead` and
`IsFresh` the provider's read over the turn of the hour, `RecentMinutes` the
series the TA computer gathers.

### ToolCalls and AgentMemory

`ToolCalls`: `Miss`, `Reserve`, `Fetch`, `Put` are a cached tool's call,
`AskFilings` and `CountHit` a filings tool's, which checks the brake first and
adds its hit later. `Quota` is what the registry binds the tools with,
`DailyQuota` what the strategy's row configures. `AgentMemory`: an append is
`OpenDay` and `WriteDay` (S3 objects are read and put back whole),
`StartCompaction` and `WriteCompressed` the nightly summary. The summary is a
language model's: it keeps any part of the lines it was given, none when the
answer is blank, and replaces them for readers all the same (`omitted` records
what it left out). `StartCritique`, `LoadDay`, `Reflect` are a critique,
`OpenNotes` and `WriteNotes` the appends of critiques and review agents.

### FilingsWatch, Heartbeats and OrgAudit

`FilingsWatch`: a run takes ticker after ticker (`FetchFeed`), looks each filing
of the feed up (`LookUp`), puts its body (`StoreBody`) and its index row
(`StoreIndex`); a failing feed or body skips on, an exception outside the
handlers ends the run. `Heartbeats`: ages of rows instead of timestamps; `Pass`
is a unit of time, `CheckHealth` the check that is due each `Period`.
`OrgAudit`: an audit reads the snapshots one by one (`ReadLedger`), then the
positions (`ReadBroker`), halts on a difference (`SetHalt`) and asks for a
narrative (`Narrate`), while bots fill and save and users stop and resume.

## Runs

Nine runs finish without an error. Three, `DeskMismatch`, `ToolBudget` and
`FeedEcho`, state what the documentation says of the program and end in a
counterexample: there the code does something else (`findings`).

| Run | Shows | Bounds |
|---|---|---|
| `DeskLedgers` | ledger and event log follow the broker but for named causes | 1 bot, 2 orders, crashes, failing saves and appends, late fills, refusals, poll failures |
| `DeskTwoOrgs` | at most one order that had passed the gate follows a halt, not counting gates that could not read the rows; none follows a drop but the one in hand | 2 orgs, both kinds of halt rows, 3 orders, one bot paused and reloaded, failing reads of rows and secrets |
| `DeskLive` | the halt flag follows the row, but for the reconciler's own halt; paused bots leave, started bots join | 2 bots, 1 order, fair loops, failing reads of the halt row, quotes, prices and positions |
| `DeskMismatch` | refuted: a lasting mismatch stops trading | 1 bot, 2 orders, a late fill, no halt row set |
| `HaltRows` | refinement of `HaltLog` and metric for the serialized row; on any row a standing halt is seen and a halted row has a trace | 2 orgs, one serialized, 3 callers, 3 puts |
| `SupServices` | services follow rows but for named causes, one row's trouble is not the other's; in the end tasks follow rows | 1 strategy and 4 edits, or 2 strategies, one without an org, and 2 edits; 2 attempts, failing ECS, 1 one-shot run, fair Lambdas and ECS |
| `TenantRows` | one user per address, agreeing sides, nothing left of the deleted, a sysadmin remains, revocations stick, an org's list of members shows the powers over it | 3 users, 2 addresses, 2 orgs, 2 requests at a time, 4 in all, 1 fault |
| `StrategyRecords` | rows: deletions are final, verdicts agree with texts, only the org's people edit; memory: only what a summary leaves out is forgotten or kept from a critique, notes stay | 1 strategy, 1 proposal, 2 users, 2 requests at a time, 4 in all, 1 change of role; 2 processes, 1 critique, 2 review runs, 2 lines, 2 days; any number of failures |
| `BotInputs` | prices recorded from quotes are fresh and newest, observations are stored, closes in order; the registry's quota, cache age and brake hold | 1 symbol over 2 hours of 2 minutes of 2 units, the last one begun, or 2 symbols over the first minutes, 1 fault; 2 calls over 2 days, quota 2 |
| `ToolBudget` | refuted: a strategy's `daily_quota` is the hard stop | as `BotInputs`, a strategy configured for 1 call a day |
| `FeedEcho` | refuted: no price older than the limit is served | 1 symbol, no fault |
| `Watchers` | an index row has its body and every filing lands; silence is reported; an audit's verdict is founded and drift halts; books balance, exposure and drawdown limits hold | 2 runs, 2 tickers, 2 filings each; 1 bot and 1 review agent; 2 bots and 1 audit; 2 symbols, 4 fills, sizes 1, 2, 4, quotes 0, 1, 4, fills at 1 or 6, capital 20 |

Why these bounds are enough. Every mechanism needs few participants: a race two
callers, a ledger and a detached ledger one bot that is dropped and reloaded, a
halt one order before the gate and one behind it. Two orders allow one that goes
wrong and one that builds on what it left. In the supervisor four edits cover
start, stop, start, stop, with a batch that is redelivered once and given up
once; two strategies share a batch. In the ledger four fills cover an average of
an average and a sell of a part of it, and losses at these prices bring equity
to zero and below. In `TenantRows` two requests at a time give every pair of
overlapping kinds, four in all a creation, a deletion and a re-creation beside a
login, three ids a re-creation under a new id. In `BotInputs` two minutes an
hour and two hours cross both boundaries, and two symbols give a flush a second
write to fail at. In `StrategyRecords` and `Watchers` two overlapping calls of
each kind and one boundary of a day are what each hazard takes. Bounds only stop
inputs and faults, never a reaction of the program; that is why runs may end in
a state without successors where the cfg says `CHECK_DEADLOCK FALSE`. Symmetry
is used for interchangeable requests, callers, processes and ids, and in no run
that checks liveness.

Every property of a passing run is broken by a mutant of a modelled definition (the
`_slip` operators, listed under `mutants`).

## Fairness

* Desk (`DeskLive`): weak fairness for the tick loop and for booting (ECS
  restarts the task), strong fairness for the poll loop, which may be disabled
  again and again while the tick loop runs: asyncio serves its ready queue in
  order, so a task that is ready again and again runs; and strong fairness for
  the start of a tick that can read the CONTROL row: single reads fail, not every
  one for ever. None for users, the broker's late fills or crashes.
* Supervisor (`SupServices`): weak fairness for the streams Lambda (the stream is
  polled), the one-shot reconciler (a Lambda that was invoked runs to its end)
  and ECS (it moves to the desired state). None for users, for failures, or for
  starting the one-shot reconciler.
* Filings and audits (`Watchers`): a run that began goes on (weak fairness of its
  steps; Lambda bounds its time), and again and again a run begins that meets no
  failure (strong fairness of starting a `spared` one). The schedules are
  EventBridge rules; those of the auditor, the compactor and the reviews are
  deployed with `enabled=False` (`src/infra/stacks/trading_stack.py:847`, `:945`,
  `:1049`, `:1069`), so `DriftHalts` speaks of a deployment that enabled them.
  `spared` is chosen when a run begins; nothing the run does reads it but the
  choice of failing. No fairness for users, bots, filings or failures.

## Proofs

All for every value of the constants that meets the modules' assumptions.

* `TradingDeskProofs`: `DeskTypes`, `DroppedBots`, `Halts`, `Ledgers`,
  `EventLog`. `LedgerFollowsFills` is not inductive: it says nothing of a fill
  that was executed and not yet recorded. The invariant adds the order in
  flight (what the coordinator has in hand is the difference between broker and
  ledger until it is recorded), that an order in hand belongs to a loaded or a
  detached ledger, and the same for the event log with its own causes. Each is
  preserved action by action, in steps named after the actions.
* `HaltStoreProofs`: `HaltTypes`; `SteadyHalts` from the invariant that a
  reader between its two reads has a standing halt only on the org's row;
  `HaltsAreLogged` from the invariant that a halted row has a halt in its log,
  or a call about to put it, or was cut; `AuditRefinesLog`, step by step: reads,
  puts without a change, metrics and the reader stutter, and putting the audit
  row is `Flip`; `MetricAgrees`, counting the entry a call has emitted and not
  yet put.
* `StrategySupervisorProofs`: `SupervisorTypes` and `ServicesFollow`.
  `ServiceFollowsRow` speaks of strategies whose changes are dealt with and says
  nothing of the rest. `SupInv` does: a strategy not in doubt follows its row or
  has a record ahead that calls for action, and the last such record calls for
  what the row asks now (`LastCallFits`; the records before it may call for
  anything). A Lambda at work on a record is about the first one ahead
  (`WorkInv`); the step that finishes it either makes the service follow or
  leaves a later record that will.
* `LedgerProofs`: `BooksStayBalanced` is about sums over the symbols, whose fold
  is shown to add up by taking the least set on which it would not
  (`FiniteSets` induction being out of reach): a fill changes one term, and the
  rounding of its average moves the sum by at most what `slack` gains.
  `DrawdownLimit`: the high water mark is the peak of realized equity, from
  which the limit on buys follows. `ExposureLimit`: an order in hand has passed
  the check at the quotes it carries, and a part of it at any price leaves no
  more than the check allowed; stated under the hypothesis that the position
  limit or the drawdown limit is below 100 %, without which it is false (see
  below). `VerdictsAreFounded`: an audit nothing overtook has the sum of the
  snapshots it has read; every move of a bot, a user or by hand overtakes it.
  `LedgerTypes`, `AuditTypes`.
* `TenancyProofs`: `AddressIsUnique`. `OneUserPerAddress` alone breaks between
  the index and the user's row, so the invariant follows the requests: one
  about to put a user's row or to take its index back holds the index row for
  an id nobody else works on; a deletion holds its user's index row until it
  deletes that; two deletions of one address scar it. Most steps are `Calm`:
  they write no row of the address and take no request further on these two
  ways; the lemma `CalmKeeps` covers them, and six steps remain.
  `PowersAreListed` joins the rules to the rows: each rule that gives power over
  an org's keys, users or strategies asks for a role of the user's side or a
  sysadmin's row (`KeyPower`, `UserPower`, `StrategyPower`), and by
  `SidesStayEqual` the org's side shows the same role.
  `SomebodyAdministers`: unless the platform took a risk, nobody is being ousted
  or some sysadmin is not; a second removal that meets the first is a risk
  (lemma `SparedStays`). `DemotedStayDemoted`: whom a bootstrap run sets up has
  a newly minted id, which nobody demoted. `SidesStayEqual` and
  `NothingStaysBehind` rest on a third invariant, `TidyInv`, with a lemma for
  each write: the two sides of a membership differ only while the one request
  between their writes is there (`Sided`, `Between`); a user whose row is gone
  has no other row left (`Blank`); an address without a user has a request about
  it or neither index row nor account (`IndexLeads`, `AccountLeads`); all while
  the address is not torn. What makes it inductive is `Overlaps` and `Alone`:
  requests that meet on an address that is not torn only look it up or claim it,
  so no two of them write one user's rows. `TenancyTypes`.
* `StrategyRowsProofs`: `VerdictsAreTrue` from the invariant that an apply in
  between its two writes accounts for the text it wrote and that what it read
  as pending still is, unless verdicts overlapped; `DeletedIsGone` from the
  condition of the update; `OnlyEditorsEdit` from the lemma that only two of the
  rules let anybody but a sysadmin edit a strategy and both ask for a role in its
  org (`EditNeedsRole`), and from the invariant that a request past its check
  carries such a role for an org that never changes. `RowTypes`.
* `FeedProofs`. The watcher, `IndexedIsReadable`: a run about to put an index
  row has put the body of the very filing it is at. The heartbeats,
  `SilenceIsHeard`: a row's age and the time since the last check grow together;
  the check itself falls where `Pass` turns the period; `BeatsTypes`. The market
  feed, `FeedTypes`, `ServedPricesHold` (of prices recorded from quotes:
  `FeedEcho` refutes it of the others), `NothingObservedIsLost` and
  `ClosesAscend` from `FeedInv`: every observation buffered or stored carries a
  time already past and, when its price came from the broker, one recorded
  within `Lag`, and a minute's bar was last observed within its minute; while no
  write failed, a minute the subscriber took is in its buffer or in the store
  (`NothingDropped`). The order of closes follows from that of the minutes; that
  the function which concatenates the hours exists and yields the minutes in
  order is shown by the least hour at which it would not.
* `AgentRecordsProofs`. `QuotaHolds` (what is counted covers the calls reserved
  and not yet made), `CacheIsRecent` (each answer in hand is at most `PutTime`
  old), `BrakeIsLate` (hits plus calls that passed the brake), `ToolTypes`. The
  memory, `MemoryTypes` and `NoDayForgotten`: a summary of a day is made when no
  append for it can be under way any more (`AppendTime` is shorter than the
  compactor's hour), so it was made of the whole day (`SummariesAreWhole`) and
  what its readers miss is what the model left out.
  `CritiqueReadsWeek`: what a critique has read and the days it has still to
  read cover what its window held when it began, but for what the summaries it
  was given had left out (`missed`). `EntriesAreKept`: a run about to put a file
  has read all of it, unless two had read it before either put it back.

Not proved, only model-checked: the liveness properties, `SystemHaltReachesDesk`,
`PausedBotIsDropped`, `StartedBotIsLoaded`, `TasksFollowRows`,
`EveryFilingLands` and `DriftHalts`. TLAPS does not reach liveness under
fairness. Every invariant and every action property of a passing run is stated
by a theorem.

What the theorems assume of the constants is what the modules' `ASSUME`s say,
and TLC evaluates those on every run; `ExposureLimit` has the hypothesis named
above as well.

## Seen while modelling

In three places the code does something other than the documentation says; a run
of its own shows each.

* **The reconciler's kill switch lasts one tick** (`DeskMismatch`). It sets the
  risk manager's flag in memory (`orchestrator/engine.py:287`); the next tick's
  `_check_remote_halt` finds the CONTROL row not halted and clears the flag
  (`:344`), so orders go out while the mismatch lasts. `src/docs/SPEC.md:282` says
  that a mismatch that persists is `halt-and-stop-trading`, `:314` that this verb
  means no new orders. `SystemHaltReachesDesk` leaves the reconciler's halt out.
* **A strategy's `daily_quota` stops nothing** (`ToolBudget`). The registry binds
  every tool with a quota of 50 (`tools/registry.py:30`, `:42`, `:50`), and
  nothing reads the configured one, which `src/docs/SPEC/tools.md:120` and `:213`
  call a hard stop with 0 as disabled. `RegistryCapHolds` is about the registry's.
* **The store's prices outlive the subscriber** (`FeedEcho`). The trading service
  records the prices it read from the store as observations of now
  (`orchestrator/engine.py:177`), so the freshness test of
  `marketdata/store_provider.py:82` passes for ever on a price of any age, against
  its docstring (`:7`). `StorePricesHold` speaks of prices recorded from quotes.

The rest is what the models had to allow for, or leave to a condition of a
property; each is a place to know.

Desk, supervisor, halts:

* The poll loop drops a paused bot's ledger while its position stays at the
  broker (`app.py:819`), and `_maybe_reconcile` compares the ledgers of all orgs
  with the platform account alone (`orchestrator/engine.py:273`): a mismatch
  does not imply that a ledger is wrong.
* A secret that cannot be read makes an org trade through the platform account
  (`app.py:237`; compare `coordinator/coordinator.py:3`), and one row that
  cannot be loaded ends each poll before paused bots are dropped (`app.py:824`).
* When the halt rows cannot be read the gate lets intents through
  (`coordinator/coordinator.py:201`); the in-memory flag its comment relies on
  mirrors the system row only. `HaltBound` counts these orders apart (`blind`).
* A halt moved from the org's row to the system's between the two reads of
  `is_effective_halted` is seen in neither. `SteadyHaltSeen` is what holds.
* A start that meets a draining service fails and is not tried again until the
  row changes (`supervisor/strategy_supervisor.py:265`, `:395`); the one-shot
  reconciler may scale up a strategy paused after it read its list.
* The trading service registers active strategies that also have a service of
  their own (`app.py:771`); both would trade.
* The per-position limit values the new order alone (`risk/manager.py:109`);
  the daily loss is never recorded (`risk/manager.py:99`); drawdown is measured
  on realized equity (`ledger/models.py:126`), not on marked equity.
* A ledger without equity counts an order as 100 % of it and skips the exposure
  check (`risk/manager.py:110`, `:126`). With a position limit and a drawdown limit of
  100 % or more such a bot buys whatever its exposure: TLC finds it with
  `MaxPositionPct = 100`, `MaxDrawdownPct = 400` and `StartingCapital = 4`, and
  nothing validates the limits on their way in (`ir/compiler.py:108`). Below
  100 %, one of the two stops it: hence the hypothesis of `ExposureLimit`.

Tenancy and strategies:

* `add_membership`'s rollback deletes the user's side even when it was there
  before the call (`tenancy/store.py:226`); two role changes of one member can
  leave its sides apart (`:222`); a crash between index and user leaves an
  address nobody can register (`:124`). `torn` marks these.
* Concurrent revocations can remove the last two sysadmins
  (`dashboard/api.py:3029`), and deleting a user does not look whether it is the
  last one. `risked` marks these. A bootstrap run that dies between creating
  superwoman and granting leaves a platform without a sysadmin, as a re-run
  grants none.
* A login that finds no user provisions one, also while a deletion is between
  its steps. `delete_org` removes the org's row and leaves memberships and
  secrets. A strategy's tools are stored unvalidated, and the row then cannot be
  read; a deletion that is cut off leaves ACL rows.
* Applying a proposal writes the text, then the verdict: cut in between, the
  text is in force and the proposal still pending; `crossed` marks these.

Data and agents:

* Each flush replaces the minute's bar
  by what was observed since the last one; a failed write in `record_tick` ends
  the poll and loses the minute.
* Overlapping appends to one S3 object lose lines (`agent_memory/store.py:167`):
  `racedDays` and `racedFiles` mark them. A blank answer of the compactor's model
  is stored as a newline (`memory_compactor/runner.py:132`), which is not empty
  (`agent_memory/store.py:139`) and hides the day: `omitted` records it.
* The filings brake is checked before and counted after; the cache's key is the
  symbol and not the hours asked for.
* Index look-ups and puts of the EDGAR watcher are outside its handlers: one
  failure ends the run.
* The heartbeat row of a bot that was stopped raises the alarm until it
  expires, and when a dead agent's row expires its alarm ends.
* A fill between an audit's snapshots and its positions is a false alarm that
  halts the org; a broker that cannot be read ends the audit before any check;
  a halt that cannot be written is only reported.

## Assumptions and abstractions

* The broker executes no short sale: a sell fills at most what its account
  holds. Global credentials exist, so `BrokerUnavailableError` does not occur.
* Reconciliation, every sixtieth tick in the code, is a choice at every tick.
  The count of failed cycles stops at its threshold. SIGTERM is a crash that
  may happen anywhere in the desk; in the subscriber, which handles it, an
  action of its own.
* A scan of the table is one read. Items are linearizable: the code uses the
  default client, and stale reads of its eventually consistent mode are not
  modelled.
* A call that fails has no effect; a call that took effect and whose answer is
  lost is a death of the caller after it.
* The second-granular order of audit rows, reasons and listings are left out of
  the halt store. The supervisor's stream has one shard.
* `BotLedger` covers one trading session and one order at a time: the tick loop
  sends a bot's next intent after the previous one was recorded.
* Ids are new (`uuid4`); one bootstrap run at a time (CI). In `Tenancy` a
  session belongs to any existing user, and a principal is read at once.
* An append takes at most `AppendTime`, an answer at most `PutTime` to be
  cached, a fetched price at most `Lag` to be recorded; the compactor is invoked
  later than any append of the day before can still be under way.
* In `OrgAudit` totals stand for the comparison symbol by symbol.
* Wording of prompts, metrics and logs is left out everywhere.

## Not modelled

* `dashboard/validators.py`, `risk/killswitch.py`, `whatif/`, `skills_store/`,
  `org_tools/`, `models/`, `ddb/`: pure functions of one value, rows with
  single puts, code nothing calls, or a loop over pages.
* Telemetry, metrics and recommendations rows: written and read by nothing else.
* Views of the dashboard, cookies, tokens and headers: local to one request.
* Prompts, the predicate tree and its compilation (`ir/`): the input of a
  language model and a pure evaluation; a bot's decision is a choice in
  `TradingDesk`.
* Calendars and snapshots: scheduled overwrites of one row each.
* The rest of `src/infra/`: declarations, used here for what they connect.

`PROJECT.json` gives the status of each component.

## Plan

What is left, in this order.

1. Composition of `OrgAudit` with `HaltStore`'s rows, so that the halt of an
   audit is the call `HaltStoreProofs` speaks of.
2. `WatchTypeOK` as a theorem: its bound on releases is the one type that needs
   counting.
3. The calendar fetcher's and the TA computer's rows, once something relates
   them to a second writer.
4. Liveness of the poll loop under failing loads: with two bots that come and go
   the state graph of `DeskLive` is too large for it beside the reconciler.
