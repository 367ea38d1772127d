----------------------------- MODULE TradingDesk -----------------------------
(***************************************************************************)
(* The trading process (app.run) and everything it shares with the rest of *)
(* the platform: the orchestrator's tick loop, the coordinator's execute   *)
(* pipeline, the strategy poll loop, the in-memory ledgers and their        *)
(* DynamoDB snapshots, the halt rows and the broker accounts.               *)
(*                                                                         *)
(* The process is a single event loop with two tasks, the tick loop and    *)
(* the poll loop.  A task runs alone between two awaits, so one action is   *)
(* what a task does from one await to the next, cut further only where     *)
(* another process (dashboard, broker) or a crash can come between two      *)
(* writes.  Positions are net share counts of one symbol.                  *)
(***************************************************************************)
EXTENDS Integers, FiniteSets, FiniteSetsExt

CONSTANTS
  Bots,             \* bot ids ("strategy-" + strategy id)
  Orgs,             \* organisations
  OrgOf,            \* the org of each bot
  OwnCreds,         \* orgs that have a broker secret of their own
  Platform,         \* the account behind the global credentials
  System,           \* the CONTROL row (system-wide halt)
  NoBot,            \* the tick loop serves no bot
  NoLedger,         \* coordinator.ledgers has no entry
  NoBroker,         \* coordinator._broker_cache has no entry
  MismatchCycles,   \* AuditConfig.position_mismatch_cycles
  Poison,           \* bots whose strategy row raises in _register_strategy
  MaxQty,           \* largest order quantity (bound)
  MaxOrders,        \* number of orders sent to the broker (bound)
  Faults,           \* the faults the environment injects
  Operated,         \* the halt rows operators write (bound)
  Managed           \* the bots users start and pause (bound)

FaultKinds == {"crash", "halt_read", "prices", "positions", "secret", "quote",
               "reject", "late", "append", "save", "poll"}

Rows == Orgs \cup {System}
Accounts == Orgs \cup {Platform}
Sizes == (-MaxQty .. MaxQty) \ {0}      \* a buy is positive, a sell negative

ASSUME DeskAssumption ==
  /\ OrgOf \in [Bots -> Orgs]
  /\ IsFiniteSet(Bots)
  /\ OwnCreds \subseteq Orgs
  /\ System \notin Orgs
  /\ NoBot \notin Bots
  /\ NoLedger \notin Nat
  /\ NoBroker \notin Accounts
  /\ MismatchCycles \in Nat \ {0}
  /\ MaxQty \in Nat \ {0}
  /\ MaxOrders \in Nat
  /\ Poison \subseteq Bots
  /\ Faults \subseteq FaultKinds
  /\ Operated \subseteq Rows
  /\ Managed \subseteq Bots

VARIABLES
  \* DynamoDB
  status,       \* STRATEGY# rows: is the strategy active
  control,      \* CONTROL and CONTROL# rows: desk_halted
  snapshot,     \* LEDGER# rows: the position in the saved ledger
  eventLog,     \* LEDGER_EVENT# rows: the position their replay gives
  \* the broker
  account,      \* shares held in each account
  working,      \* orders accepted and not yet filled
  \* the trading process
  up,           \* the task is running
  registered,   \* orchestrator._bots
  ledger,       \* coordinator.ledgers
  deskHalted,   \* risk_manager._desk_halted
  brokerOf,     \* coordinator._broker_cache
  failedCycles, \* orchestrator._reconciler_cycles_failed
  \* the tick loop: _tick and the execute it calls
  pc,           \* where it waits
  todo,         \* bots it has still to wake
  seen,         \* the broker positions it sampled
  bot,          \* the bot it serves
  qty,          \* the quantity of the bot's intent, later of its fill
  acct,         \* the account behind the broker execute resolved
  live,         \* execute's ledger object is the one in coordinator.ledgers
  held,         \* the position in that object once it is not
  failOpen,     \* the halt gate let the intent through on a read error
  \* the poll loop: _poll_strategies
  pollPc,       \* where it waits
  scan,         \* the active bots it found
  \* history
  filled,       \* shares the broker executed for each bot
  cause,        \* what can have made a bot's records differ from that
  orders,       \* orders sent to the broker
  sent,         \* orders sent for a row's bots since that row was halted
  blind         \* orders sent by a gate whose read of the halt rows failed

dbVars == <<status, control, snapshot, eventLog>>
brokerVars == <<account, working>>
deskVars == <<registered, ledger, deskHalted, brokerOf, failedCycles>>
histVars == <<filled, cause, orders, sent, blind>>
execVars == <<bot, qty, acct, live, held, failOpen>>
tickVars == <<pc, todo, seen, execVars>>
pollVars == <<pollPc, scan>>
vars == <<dbVars, brokerVars, up, deskVars, tickVars, pollVars, histVars>>

-----------------------------------------------------------------------------
(* Local state of the two tasks.                                           *)

Waits == {"idle", "prices", "bots", "deciding", "gateOrg", "quotes",
          "submitting", "answered", "appended", "positions", "compare"}

\* execute has returned or raised; its locals are gone.
ExecDone ==
  /\ bot' = NoBot
  /\ qty' = 0
  /\ acct' = NoBroker
  /\ live' = TRUE
  /\ held' = 0
  /\ failOpen' = FALSE

\* Back to the loop over the bots.
NextBot == pc' = "bots" /\ ExecDone /\ UNCHANGED <<todo, seen>>

\* The tick is over.
TickDone == pc' = "idle" /\ todo' = {} /\ seen' = 0 /\ ExecDone

\* The tick goes on to the next await; execute's locals stay.
Await(w) == pc' = w /\ UNCHANGED <<todo, seen, execVars>>

\* No await lies between the two halves of these steps, so the poll loop
\* cannot run there; other processes and a crash can.
Synchronous == pc \in {"gateOrg", "appended"}

Active == {b \in Bots : status[b]}

\* The rows whose halt stops bot b.
Covers(b) == {System, OrgOf[b]}

\* The position in the ledger object execute captured.
Holding == IF live THEN ledger[bot] ELSE held

\* Aggregate position of the ledgers in coordinator.ledgers.
LedgerTotal ==
  MapThenSumSet(LAMBDA b : ledger[b], {b \in Bots : ledger[b] # NoLedger})

\* Each *_slip below is a slip the definition after it guards against; the
\* mutants of PROJECT.json put it in the definition's place.

\* A restarted bot begins with an empty ledger.
LoadLedger_slip(b) == 0

\* _register_strategy: the saved ledger, or a fresh one (position 0) when
\* there is none.
LoadLedger(b) == snapshot[b]

\* Bots are looked up once, when the tick copies its list.
HasLedger_slip(b) == TRUE

\* coordinator.ledgers has an entry for b.
HasLedger(b) == ledger[b] # NoLedger

\* The two reads of HaltStore.is_effective_halted.
SystemHaltRead == control[System]
OrgHaltRead_slip(b) == FALSE              \* only the system row is read
OrgHaltRead(b) == control[OrgOf[b]]

\* The ledger takes the fill: it never sells more than it holds.
TakesFill == Holding + qty >= 0

\* The event is appended by the owner of the live ledger only.
AppendEvent_slip(b, n) == eventLog' = IF live
                                      THEN [eventLog EXCEPT ![b] = @ + n]
                                      ELSE eventLog

\* LedgerStore.append_event.
AppendEvent(b, n) == eventLog' = [eventLog EXCEPT ![b] = @ + n]

\* A halt is taken over, its end is not.
CheckRemoteHalt_slip == deskHalted' = (deskHalted \/ control[System])

\* Orchestrator._check_remote_halt: set or clear the flag as the row says.
CheckRemoteHalt == deskHalted' = control[System]

\* Bots are loaded on an empty desk only; an empty scan is not believed.
Missing_slip == {b \in scan \ registered : registered = {}}
Gone_slip == {b \in registered \ scan : scan # {}}

\* What the poll loop has to load and to unload.
Missing == scan \ registered
Gone == registered \ scan

\* Add a cause of drift for bot b.
Blame(b, c) == [cause EXCEPT ![b] = @ \cup {c}]

-----------------------------------------------------------------------------
Init ==
  /\ status \in [Bots -> BOOLEAN]
  /\ control = [r \in Rows |-> FALSE]
  /\ snapshot = [b \in Bots |-> 0]
  /\ eventLog = [b \in Bots |-> 0]
  /\ account = [a \in Accounts |-> 0]
  /\ working = {}
  /\ up = FALSE
  /\ registered = {}
  /\ ledger = [b \in Bots |-> NoLedger]
  /\ deskHalted = FALSE
  /\ brokerOf = [o \in Orgs |-> NoBroker]
  /\ failedCycles = 0
  /\ pc = "idle"
  /\ todo = {}
  /\ seen = 0
  /\ bot = NoBot
  /\ qty = 0
  /\ acct = NoBroker
  /\ live = TRUE
  /\ held = 0
  /\ failOpen = FALSE
  /\ pollPc = "sleep"
  /\ scan = {}
  /\ filled = [b \in Bots |-> 0]
  /\ cause = [b \in Bots |-> {}]
  /\ orders = 0
  /\ sent = [r \in Rows |-> 0]
  /\ blind = 0

-----------------------------------------------------------------------------
(* The tick loop: Orchestrator._tick and TradeCoordinator.execute.         *)

\* _check_remote_halt, then the empty-desk return or the wait for prices.
TickStart ==
  /\ up
  /\ pc = "idle"
  /\ \/ CheckRemoteHalt
     \/ "halt_read" \in Faults /\ UNCHANGED deskHalted
  /\ Await(IF registered = {} THEN "idle" ELSE "prices")
  /\ UNCHANGED <<dbVars, brokerVars, up, registered, ledger, brokerOf,
                 failedCycles, pollVars, histVars>>

\* The prices are in, or could not be had and the tick is over.
GetPrices ==
  /\ pc = "prices"
  /\ \/ pc' = "bots" /\ todo' = registered /\ UNCHANGED <<seen, execVars>>
     \/ "prices" \in Faults /\ TickDone
  /\ UNCHANGED <<dbVars, brokerVars, up, deskVars, pollVars, histVars>>

\* The next bot: no ledger, or its predicate does not fire, or it decides.
WakeBot ==
  /\ pc = "bots"
  /\ \E b \in todo :
       /\ todo' = todo \ {b}
       /\ \/ UNCHANGED <<pc, bot>>
          \/ HasLedger(b) /\ pc' = "deciding" /\ bot' = b
  /\ UNCHANGED <<dbVars, brokerVars, up, deskVars, seen, qty, acct, live,
                 held, failOpen, pollVars, histVars>>

\* decide returns nothing, HOLD, or raises.
Hold ==
  /\ pc = "deciding"
  /\ NextBot
  /\ UNCHANGED <<dbVars, brokerVars, up, deskVars, pollVars, histVars>>

\* broker_for: the cached adapter, or one built from the org's secret, from
\* the global credentials when there is none or it cannot be read; then the
\* ledger is captured and the quotes are fetched.
ResolveBroker ==
  LET org == OrgOf[bot] IN
  /\ acct' \in IF brokerOf[org] # NoBroker THEN {brokerOf[org]}
               ELSE (IF org \in OwnCreds THEN {org} ELSE {Platform})
                      \cup (IF "secret" \in Faults THEN {Platform} ELSE {})
  /\ brokerOf' = [brokerOf EXCEPT ![org] = acct']
  /\ pc' = "quotes"
  /\ UNCHANGED <<todo, seen, bot, live, held>>

\* decide returns an intent and execute starts.
HasIntent == pc = "deciding" /\ orders < MaxOrders

\* execute does not know the bot and raises, or the system is halted.
RefuseIntent ==
  /\ HasIntent
  /\ ~HasLedger(bot) \/ SystemHaltRead
  /\ NextBot
  /\ UNCHANGED <<dbVars, brokerVars, up, deskVars, pollVars, histVars>>

\* The system is not halted: on to the org's row.
GateSystem ==
  /\ HasIntent
  /\ HasLedger(bot)
  /\ ~SystemHaltRead
  /\ qty' \in Sizes
  /\ pc' = "gateOrg"
  /\ UNCHANGED <<dbVars, brokerVars, up, deskVars, todo, seen, bot, acct,
                 live, held, failOpen, pollVars, histVars>>

\* The org's row: halted.
RefuseOrg ==
  /\ pc = "gateOrg"
  /\ OrgHaltRead(bot)
  /\ NextBot
  /\ UNCHANGED <<dbVars, brokerVars, up, deskVars, pollVars, histVars>>

\* The org's row: not halted, or unreadable.
GateOrg ==
  /\ pc = "gateOrg"
  /\ \/ ~OrgHaltRead(bot) /\ UNCHANGED failOpen
     \/ "halt_read" \in Faults /\ failOpen' = TRUE
  /\ ResolveBroker
  /\ UNCHANGED <<dbVars, brokerVars, up, registered, ledger, deskHalted,
                 failedCycles, qty, pollVars, histVars>>

\* The system's row cannot be read: the gate fails open at once.
GateBlind ==
  /\ HasIntent
  /\ HasLedger(bot)
  /\ "halt_read" \in Faults
  /\ qty' \in Sizes
  /\ failOpen' = TRUE
  /\ ResolveBroker
  /\ UNCHANGED <<dbVars, brokerVars, up, registered, ledger, deskHalted,
                 failedCycles, pollVars, histVars>>

\* The risk check rejects (or a quote cannot be had): nothing is sent.  A
\* sell that reaches the limits is always approved.
RiskReject ==
  /\ pc = "quotes"
  /\ deskHalted \/ qty > 0 \/ "quote" \in Faults
  /\ NextBot
  /\ UNCHANGED <<dbVars, brokerVars, up, deskVars, pollVars, histVars>>

\* The risk check approves and the order goes to the broker.
Submit ==
  /\ pc = "quotes"
  /\ ~deskHalted
  /\ Await("submitting")
  /\ orders' = orders + 1
  /\ sent' = [r \in Rows |-> IF r \in Covers(bot) /\ control[r]
                             THEN sent[r] + 1 ELSE sent[r]]
  /\ blind' = IF failOpen THEN blind + 1 ELSE blind
  /\ UNCHANGED <<dbVars, brokerVars, up, deskVars, pollVars, filled, cause>>

-----------------------------------------------------------------------------
(* The broker, and the record of its answer.                               *)

\* Shares of a quantity q that account a can execute: no sell goes short.
Executable(a, q) == IF q > 0 THEN 0 .. q
                    ELSE {n \in q .. 0 : account[a] + n >= 0}

\* An order at the broker; sent orders are numbered.
SentOrder == [id |-> orders, bot |-> bot, acct |-> acct, qty |-> qty]

\* The part of order o the broker still works on once n shares are executed.
Rest(o, n) ==
  IF o.qty = n THEN {}
  ELSE {[id |-> o.id, bot |-> o.bot, acct |-> o.acct, qty |-> o.qty - n]}

\* The answer reports what was executed by then.  Nothing executed records
\* nothing; a rest goes on working at the broker.
BrokerFill ==
  /\ pc = "submitting"
  /\ \E n \in Executable(acct, qty) :
       /\ n = qty \/ "late" \in Faults
       /\ account' = [account EXCEPT ![acct] = @ + n]
       /\ filled' = [filled EXCEPT ![bot] = @ + n]
       /\ working' = working \cup Rest(SentOrder, n)
       /\ \/ n = 0 /\ NextBot
          \/ /\ n # 0
             /\ pc' = "answered"
             /\ qty' = n
             /\ UNCHANGED <<todo, seen, bot, acct, live, held, failOpen>>
  /\ UNCHANGED <<dbVars, up, deskVars, pollVars, cause, orders, sent, blind>>

\* submit_order raises: the broker refused the order, or took it and the
\* answer was lost.
BrokerError ==
  /\ pc = "submitting"
  /\ \/ /\ "reject" \in Faults \/ qty \notin Executable(acct, qty)
        /\ UNCHANGED working
     \/ /\ "late" \in Faults
        /\ working' = working \cup {SentOrder}
  /\ NextBot
  /\ UNCHANGED <<dbVars, account, up, deskVars, pollVars, histVars>>

\* record_fill refuses to sell more than the ledger holds: nothing is
\* recorded anywhere.
RefuseFill ==
  /\ pc = "answered"
  /\ ~TakesFill
  /\ cause' = Blame(bot, "short")
  /\ NextBot
  /\ UNCHANGED <<dbVars, brokerVars, up, deskVars, pollVars, filled, orders,
                 sent, blind>>

\* A fill recorded in a ledger that a newer one has replaced is lost to it.
Orphaned == ~live /\ HasLedger(bot)

\* record_fill and append_event.  When append_event raises, the snapshot is
\* saved all the same (try/finally).
RecordFill ==
  /\ pc = "answered"
  /\ TakesFill
  /\ pc' = "appended"
  /\ IF live
     THEN ledger' = [ledger EXCEPT ![bot] = @ + qty] /\ UNCHANGED held
     ELSE held' = held + qty /\ UNCHANGED ledger
  /\ LET lost == IF Orphaned THEN {"orphan"} ELSE {} IN
     \/ /\ AppendEvent(bot, qty)
        /\ cause' = [cause EXCEPT ![bot] = @ \cup lost]
     \/ /\ "append" \in Faults
        /\ cause' = [cause EXCEPT ![bot] = @ \cup lost \cup {"unlogged"}]
        /\ UNCHANGED eventLog
  /\ UNCHANGED <<status, control, snapshot, brokerVars, up, registered,
                 deskHalted, brokerOf, failedCycles, todo, seen, bot, qty,
                 acct, live, failOpen, pollVars, filled, orders, sent, blind>>

\* save_snapshot, which may fail.
SaveSnapshot ==
  /\ pc = "appended"
  /\ \/ /\ snapshot' = [snapshot EXCEPT ![bot] = Holding]
        /\ UNCHANGED cause
     \/ /\ "save" \in Faults
        /\ cause' = Blame(bot, "unsaved")
        /\ UNCHANGED snapshot
  /\ NextBot
  /\ UNCHANGED <<status, control, eventLog, brokerVars, up, deskVars,
                 pollVars, filled, orders, sent, blind>>

-----------------------------------------------------------------------------
(* Periodic reconciliation, Orchestrator._maybe_reconcile.                 *)

\* All bots are served: the tick ends, in one of 60 with a reconciliation.
EndOfBots ==
  /\ pc = "bots"
  /\ todo = {}
  /\ Await("idle") \/ Await("positions")
  /\ UNCHANGED <<dbVars, brokerVars, up, deskVars, pollVars, histVars>>

\* The broker answers get_positions for the platform account.
SamplePositions ==
  /\ pc = "positions"
  /\ \/ /\ pc' = "compare"
        /\ seen' = account[Platform]
        /\ UNCHANGED <<todo, execVars>>
     \/ "positions" \in Faults /\ TickDone
  /\ UNCHANGED <<dbVars, brokerVars, up, deskVars, pollVars, histVars>>

\* reconcile_positions against the ledgers as they are now; the counter is
\* only compared with the threshold, so it stops there.
Compare ==
  /\ pc = "compare"
  /\ failedCycles' = IF LedgerTotal = seen THEN 0
                     ELSE IF failedCycles < MismatchCycles
                          THEN failedCycles + 1 ELSE MismatchCycles
  /\ deskHalted' = (deskHalted \/ failedCycles' >= MismatchCycles)
  /\ TickDone
  /\ UNCHANGED <<dbVars, brokerVars, up, registered, ledger, brokerOf,
                 pollVars, filled, cause, orders, sent, blind>>

-----------------------------------------------------------------------------
(* The poll loop, _poll_strategies in app.run.                             *)

\* The poll loop sleeps until its next turn.
PollDone == pollPc' = "sleep" /\ scan' = {}

\* get_strategies.
PollScan ==
  /\ up
  /\ ~Synchronous
  /\ pollPc = "sleep"
  /\ pollPc' = "sync"
  /\ scan' = Active
  /\ UNCHANGED <<dbVars, brokerVars, up, deskVars, tickVars, histVars>>

\* coordinator.ledgers[b] is replaced by l.  A ledger object the tick loop
\* captured lives on in execute.
Replace(b, l) ==
  /\ ledger' = [ledger EXCEPT ![b] = l]
  /\ IF bot = b /\ live /\ pc \in {"quotes", "submitting", "answered"}
     THEN live' = FALSE /\ held' = ledger[b]
     ELSE UNCHANGED <<live, held>>

\* Hot-load an active bot: its ledger comes from the snapshot.
PollRegister ==
  /\ ~Synchronous
  /\ pollPc = "sync"
  /\ \E b \in Missing \ Poison :
       /\ registered' = registered \cup {b}
       /\ Replace(b, LoadLedger(b))
  /\ UNCHANGED <<dbVars, brokerVars, up, deskHalted, brokerOf, failedCycles,
                 pc, todo, seen, bot, qty, acct, failOpen, pollVars, histVars>>

\* _register_strategy raises, before or after it stored the ledger: the
\* poll gives up until the next one, unregistering nothing.  A ledger it
\* stored belongs to a bot that is not registered.
PollRaise ==
  /\ ~Synchronous
  /\ pollPc = "sync"
  /\ \E b \in Missing :
       /\ "poll" \in Faults \/ b \in Poison
       /\ \/ UNCHANGED <<ledger, live, held>>
          \/ Replace(b, LoadLedger(b))
  /\ PollDone
  /\ UNCHANGED <<dbVars, brokerVars, up, registered, deskHalted, brokerOf,
                 failedCycles, pc, todo, seen, bot, qty, acct, failOpen,
                 histVars>>

\* Unload a bot that is no longer active.
PollUnregister ==
  /\ ~Synchronous
  /\ pollPc = "sync"
  /\ Missing = {}
  /\ \E b \in Gone :
       /\ registered' = registered \ {b}
       /\ Replace(b, NoLedger)
  /\ UNCHANGED <<dbVars, brokerVars, up, deskHalted, brokerOf, failedCycles,
                 pc, todo, seen, bot, qty, acct, failOpen, pollVars, histVars>>

\* Nothing left to load or unload.
PollSleep ==
  /\ ~Synchronous
  /\ pollPc = "sync"
  /\ Missing = {}
  /\ Gone = {}
  /\ PollDone
  /\ UNCHANGED <<dbVars, brokerVars, up, deskVars, tickVars, histVars>>

-----------------------------------------------------------------------------
(* The world outside the process.                                          *)

\* A user starts or pauses a strategy.
SetStatus ==
  /\ \E b \in Managed : status' = [status EXCEPT ![b] = ~@]
  /\ UNCHANGED <<control, snapshot, eventLog, brokerVars, up, deskVars,
                 tickVars, pollVars, histVars>>

\* A sysadmin, an orgadmin or the Auditor sets a halt row.
SetControl ==
  /\ \E r \in Operated :
       /\ control' = [control EXCEPT ![r] = ~@]
       /\ sent' = [sent EXCEPT ![r] = 0]
  /\ UNCHANGED <<status, snapshot, eventLog, brokerVars, up, deskVars,
                 tickVars, pollVars, filled, cause, orders, blind>>

\* A working order is executed, with nobody listening.
LateFill ==
  /\ \E o \in working : \E n \in Executable(o.acct, o.qty) \ {0} :
       /\ account' = [account EXCEPT ![o.acct] = @ + n]
       /\ filled' = [filled EXCEPT ![o.bot] = @ + n]
       /\ cause' = Blame(o.bot, "unseen")
       /\ working' = (working \ {o}) \cup Rest(o, n)
  /\ UNCHANGED <<dbVars, up, deskVars, tickVars, pollVars, orders, sent,
                 blind>>

\* A working order is cancelled or expires at the end of the day.
Expire ==
  /\ \E o \in working : working' = working \ {o}
  /\ UNCHANGED <<dbVars, account, up, deskVars, tickVars, pollVars, histVars>>

\* The task dies and its memory is gone; an order on its way may arrive.
Crash ==
  /\ "crash" \in Faults
  /\ up
  /\ up' = FALSE
  /\ registered' = {}
  /\ ledger' = [b \in Bots |-> NoLedger]
  /\ deskHalted' = FALSE
  /\ brokerOf' = [o \in Orgs |-> NoBroker]
  /\ failedCycles' = 0
  /\ TickDone
  /\ PollDone
  /\ working' = IF pc = "submitting" THEN working \cup {SentOrder}
                ELSE working
  /\ cause' = CASE pc = "answered" -> Blame(bot, "forgotten")
                [] pc = "appended" -> Blame(bot, "unsaved")
                [] OTHER -> cause
  /\ UNCHANGED <<dbVars, account, filled, orders, sent, blind>>

\* The scheduler starts a new task, which loads every active strategy.  A
\* row that raises takes the whole task down again.
Boot ==
  /\ ~up
  /\ Active \cap Poison = {}
  /\ up' = TRUE
  /\ registered' = Active
  /\ ledger' = [b \in Bots |-> IF status[b] THEN LoadLedger(b) ELSE NoLedger]
  /\ UNCHANGED <<dbVars, brokerVars, deskHalted, brokerOf, failedCycles,
                 tickVars, pollVars, histVars>>

-----------------------------------------------------------------------------
GateStep == \/ RefuseIntent \/ GateSystem \/ RefuseOrg \/ GateOrg
            \/ GateBlind \/ RiskReject \/ Submit

FillStep == \/ BrokerFill \/ BrokerError \/ RefuseFill \/ RecordFill
            \/ SaveSnapshot

LoopStep == \/ TickStart \/ GetPrices \/ WakeBot \/ Hold \/ EndOfBots
            \/ SamplePositions \/ Compare

TickStep == LoopStep \/ GateStep \/ FillStep

PollStep == PollScan \/ PollRegister \/ PollRaise \/ PollUnregister \/ PollSleep

World == SetStatus \/ SetControl \/ LateFill \/ Expire \/ Crash

Next == TickStep \/ PollStep \/ World \/ Boot

Spec == Init /\ [][Next]_vars

\* The event loop runs both tasks (its ready queue is first-in first-out, so
\* the poll loop gets its turn even though the tick loop holds the loop now
\* and then), remote calls return or raise, the read of the CONTROL row does
\* not fail on every tick for ever, and the scheduler restarts the task.
\* Users, operators and the broker owe nothing.
Fairness == /\ WF_vars(TickStep)
            /\ SF_vars(TickStart /\ CheckRemoteHalt)
            /\ SF_vars(PollStep)
            /\ WF_vars(Boot)

FairSpec == Spec /\ Fairness

-----------------------------------------------------------------------------
(* Properties.                                                             *)

FlagsOK == /\ up \in BOOLEAN
           /\ deskHalted \in BOOLEAN
           /\ live \in BOOLEAN
           /\ failOpen \in BOOLEAN

\* Every variable has its type: no ledger, snapshot or detached ledger is
\* ever short, and a ledger execute works with is there.
TypeOK ==
  /\ FlagsOK
  /\ status \in [Bots -> BOOLEAN]
  /\ control \in [Rows -> BOOLEAN]
  /\ snapshot \in [Bots -> Nat]
  /\ eventLog \in [Bots -> Int]
  /\ account \in [Accounts -> Int]
  /\ working \subseteq [id : Nat, bot : Bots, acct : Accounts, qty : Int]
  /\ registered \subseteq Bots
  /\ ledger \in [Bots -> Nat \cup {NoLedger}]
  /\ brokerOf \in [Orgs -> Accounts \cup {NoBroker}]
  /\ failedCycles \in 0 .. MismatchCycles
  /\ pc \in Waits
  /\ todo \subseteq Bots
  /\ seen \in Int
  /\ bot \in Bots \cup {NoBot}
  /\ qty \in Int
  /\ acct \in Accounts \cup {NoBroker}
  /\ held \in Nat
  /\ pollPc \in {"sleep", "sync"}
  /\ scan \subseteq Bots
  /\ filled \in [Bots -> Int]
  /\ cause \in [Bots -> SUBSET {"unseen", "short", "orphan", "unlogged",
                               "unsaved", "forgotten"}]
  /\ orders \in Nat
  /\ sent \in [Rows -> Nat]
  /\ blind \in Nat

\* A halt reaches the desk at the next intent: once a halt row is set, at
\* most the one order that had passed the gate is still sent for the bots
\* the row covers, not counting orders whose gate could not read the rows
\* (execute checks the rows before its awaits, and only there).
HaltBound == \A r \in Rows : control[r] => sent[r] <= 1 + blind

\* No order is sent for a bot the poll loop has dropped, although the tick's
\* list of bots is older than the drop, unless the bot was dropped while
\* execute had its intent past the gate (WakeBot and Decide look for the
\* ledger again).
DroppedBotSendsNothing ==
  [][orders' # orders /\ ledger[bot] = NoLedger => ~live]_vars

\* What the records say bot b holds: its ledger in memory when there is one,
\* else its snapshot; and the fill execute has in hand.
Recorded(b) == IF pc = "appended" /\ bot = b THEN Holding
               ELSE IF ledger[b] # NoLedger THEN ledger[b] ELSE snapshot[b]
InHand(b) == IF pc = "answered" /\ bot = b THEN qty ELSE 0

\* A bot's ledger is what the broker executed for it, through restarts,
\* pauses and reloads, unless one of these happened: an execution nobody was
\* listening for, a sell the ledger refused, a crash between the broker's
\* answer and the snapshot, a failed save, or a fill recorded in a ledger
\* the poll loop had already replaced.
LedgerFollowsFills ==
  \A b \in Bots : cause[b] \subseteq {"unlogged"} =>
                  Recorded(b) + InHand(b) = filled[b]

\* The event log has every fill the process saw: replaying it repairs a
\* ledger that lost fills to a failed save, to a crash before the save, or
\* to a replaced ledger (record_and_persist appends before it saves).
EventLogRecovers ==
  \A b \in Bots : cause[b] \subseteq {"unsaved", "orphan"} =>
                  eventLog[b] + InHand(b) = filled[b]

\* The system halt flag the risk check reads follows the CONTROL row although
\* reads of the row fail now and then (_check_remote_halt): a set row halts
\* the desk, a cleared one resumes it.  The second part is about a desk the
\* reconciler has not stopped: what becomes of its own halt is
\* MismatchStopsTrading's question.
SystemHaltReachesDesk ==
  /\ control[System] ~> deskHalted \/ ~control[System]
  /\ ~control[System] /\ failedCycles < MismatchCycles
       ~> ~deskHalted \/ control[System] \/ failedCycles >= MismatchCycles

\* A position mismatch over MismatchCycles reconciliations stops trading: no
\* order is sent while it lasts, as SPEC.md 5.6.3 and 6.1 say of the
\* auditor's halt-and-stop-trading (_maybe_reconcile halts the desk in
\* memory; the next _check_remote_halt finds no halt row and resumes it).
MismatchStopsTrading ==
  [][orders' # orders => failedCycles < MismatchCycles]_vars

\* A paused bot leaves the desk (unless it is started again first).
PausedBotIsDropped ==
  \A b \in Bots : ~status[b] ~> b \notin registered \/ status[b]

\* A started bot is loaded.
StartedBotIsLoaded ==
  \A b \in Bots : status[b] ~> b \in registered \/ ~status[b]

=============================================================================
