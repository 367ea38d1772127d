-------------------------- MODULE TradingDeskProofs --------------------------
(***************************************************************************)
(* Theorems about TradingDesk, for every value of its constants: types,    *)
(* DroppedBotSendsNothing, HaltBound, LedgerFollowsFills and                *)
(* EventLogRecovers.                                                       *)
(***************************************************************************)
EXTENDS TradingDesk, TLAPS

-----------------------------------------------------------------------------
(* The invariant.  A snapshot or a held position is a number only because  *)
(* the ledger execute works with exists, so the type invariant needs the   *)
(* relation between the two tasks that Captured states.                     *)

\* The tick loop serves a bot.
Serving == {"deciding", "gateOrg", "quotes", "submitting", "answered",
            "appended"}

\* The gate is passed and execute has its broker and its ledger.
Equipped == {"quotes", "submitting", "answered", "appended"}

Captured ==
  /\ pc \in Serving => bot \in Bots
  /\ pc = "gateOrg" => ledger[bot] # NoLedger
  /\ pc \in Equipped => acct \in Accounts /\ (live => ledger[bot] # NoLedger)
  /\ pc \notin Equipped => live

\* A process that is down has no task waiting anywhere.
DownIsBlank == ~up => pc = "idle" /\ pollPc = "sleep"

DeskInv == TypeOK /\ Captured /\ DownIsBlank

\* The initial states satisfy the invariant.
LEMMA DeskInit == Init => DeskInv
<1> SUFFICES ASSUME Init PROVE DeskInv
  OBVIOUS
<1>1. FlagsOK
  BY Zenon DEF Init, FlagsOK
<1>2. TypeOK
  BY <1>1, DeskAssumption DEF DeskAssumption, Init, TypeOK, Waits
<1>3. Captured /\ DownIsBlank
  BY DEF Init, Captured, DownIsBlank, Serving, Equipped
<1> QED BY <1>2, <1>3 DEF DeskInv

\* Every step keeps the flags Boolean.
LEMMA FlagsStep == ASSUME TypeOK, Next PROVE FlagsOK'
<1>1. FlagsOK /\ control \in [Rows -> BOOLEAN] /\ System \in Rows
  BY DEF TypeOK, Rows
<1>2. control[System] \in BOOLEAN
  BY <1>1
<1> USE <1>1 DEF FlagsOK, deskVars, histVars, execVars, tickVars, ExecDone,
      NextBot, TickDone, Await
<1>3. CASE LoopStep
  BY <1>2, <1>3 DEF LoopStep, TickStart, CheckRemoteHalt, GetPrices, WakeBot,
       Hold, EndOfBots, SamplePositions, Compare
<1>4. CASE GateStep
  BY <1>4 DEF GateStep, RefuseIntent, GateSystem, RefuseOrg, GateOrg,
       GateBlind, ResolveBroker, RiskReject, Submit
<1>5. CASE FillStep
  BY <1>5 DEF FillStep, BrokerFill, BrokerError, RefuseFill, RecordFill,
       SaveSnapshot
<1>6. CASE PollStep
  BY <1>6 DEF PollStep, PollScan, PollRegister, PollRaise, PollUnregister,
       Replace,
       PollSleep
<1>7. CASE World \/ Boot
  BY <1>7 DEF World, SetStatus, SetControl, LateFill, Expire, Crash, Boot
<1> QED BY <1>3, <1>4, <1>5, <1>6, <1>7 DEF Next, TickStep

\* The steps of the tick loop outside execute keep it.
LEMMA DeskLoop == ASSUME DeskInv, LoopStep, FlagsOK' PROVE DeskInv'
<1> USE DeskAssumption DEF DeskAssumption, DeskInv, TypeOK, Captured,
      DownIsBlank, Waits, Serving, Equipped, Rows, Accounts, dbVars,
      brokerVars, deskVars, histVars, execVars, pollVars, ExecDone, NextBot,
      TickDone, Await
<1>1. CASE TickStart
  BY <1>1 DEF TickStart, CheckRemoteHalt
<1>2. CASE GetPrices
  <2>1. CASE pc' = "bots" /\ todo' = registered /\ UNCHANGED <<seen, execVars>>
    BY <1>2, <2>1 DEF GetPrices
  <2>2. CASE TickDone
    BY <1>2, <2>2 DEF GetPrices
  <2> QED BY <1>2, <2>1, <2>2 DEF GetPrices
<1>3. CASE WakeBot
  BY <1>3 DEF WakeBot, HasLedger
<1>4. CASE Hold
  BY <1>4 DEF Hold
<1>5. CASE EndOfBots
  BY <1>5 DEF EndOfBots
<1>6. CASE SamplePositions
  <2>1. CASE pc' = "compare"
    BY <1>6, <2>1 DEF SamplePositions
  <2>2. CASE TickDone
    BY <1>6, <2>2 DEF SamplePositions
  <2> QED BY <1>6, <2>1, <2>2 DEF SamplePositions
<1>7. CASE Compare
  BY <1>7 DEF Compare
<1> QED BY <1>1, <1>2, <1>3, <1>4, <1>5, <1>6, <1>7 DEF LoopStep

\* The steps of execute up to the order keep it.
LEMMA DeskGate == ASSUME DeskInv, GateStep, FlagsOK' PROVE DeskInv'
<1> USE DeskAssumption DEF DeskAssumption, DeskInv, TypeOK, Captured,
      DownIsBlank, Waits, Serving, Equipped, Rows, Accounts, Sizes, dbVars,
      brokerVars, deskVars, histVars, execVars, pollVars, ExecDone, NextBot,
      Await
<1>1. CASE RefuseIntent
  BY <1>1 DEF RefuseIntent, HasIntent
<1>2. CASE GateSystem
  BY <1>2 DEF GateSystem, HasIntent, HasLedger
<1>3. CASE RefuseOrg
  BY <1>3 DEF RefuseOrg
<1>4. CASE GateOrg
  BY <1>4 DEF GateOrg, ResolveBroker
<1>5. CASE GateBlind
  BY <1>5 DEF GateBlind, HasIntent, HasLedger, ResolveBroker
<1>6. CASE RiskReject
  BY <1>6 DEF RiskReject
<1>7. CASE Submit
  BY <1>7 DEF Submit
<1> QED BY <1>1, <1>2, <1>3, <1>4, <1>5, <1>6, <1>7 DEF GateStep

\* The broker's answer and its record keep it.
LEMMA DeskFill == ASSUME DeskInv, FillStep, FlagsOK' PROVE DeskInv'
<1> USE DeskAssumption DEF DeskAssumption, DeskInv, TypeOK, Captured,
      DownIsBlank, Waits, Serving, Equipped, Rows, Accounts, dbVars,
      brokerVars, deskVars, histVars, execVars, pollVars, ExecDone, NextBot
<1>1. CASE BrokerFill
  BY <1>1 DEF BrokerFill, Executable, Rest, SentOrder
<1>2. CASE BrokerError
  BY <1>2 DEF BrokerError, SentOrder
<1>3. CASE RefuseFill
  BY <1>3 DEF RefuseFill, Blame
<1>4. CASE RecordFill
  BY <1>4 DEF RecordFill, TakesFill, Holding, AppendEvent
<1>5. CASE SaveSnapshot
  BY <1>5 DEF SaveSnapshot, Holding, Blame
<1> QED BY <1>1, <1>2, <1>3, <1>4, <1>5 DEF FillStep

\* The poll loop keeps it: a ledger it drops is the captured one or not.
LEMMA DeskPoll == ASSUME DeskInv, PollStep, FlagsOK' PROVE DeskInv'
<1> USE DeskAssumption DEF DeskAssumption, DeskInv, TypeOK, Captured,
      DownIsBlank, Waits, Serving, Equipped, Rows, Accounts, Synchronous,
      dbVars, brokerVars, deskVars, histVars, execVars, tickVars, pollVars,
      PollDone
<1>1. CASE PollScan
  BY <1>1 DEF PollScan, Active
<1>2. CASE PollRegister
  BY <1>2 DEF PollRegister, Replace, Missing, LoadLedger
<1>3. CASE PollRaise
  BY <1>3 DEF PollRaise, Replace, Missing, LoadLedger
<1>4. CASE PollUnregister
  BY <1>4 DEF PollUnregister, Replace, Gone
<1>5. CASE PollSleep
  BY <1>5 DEF PollSleep
<1> QED BY <1>1, <1>2, <1>3, <1>4, <1>5 DEF PollStep

\* Users, operators, the broker, a crash and a restart keep it.
LEMMA DeskWorld == ASSUME DeskInv, World \/ Boot, FlagsOK' PROVE DeskInv'
<1> USE DeskAssumption DEF DeskAssumption, DeskInv, TypeOK, Captured,
      DownIsBlank, Waits, Serving, Equipped, Rows, Accounts, dbVars,
      brokerVars, deskVars, histVars, execVars, tickVars, pollVars,
      ExecDone, TickDone, PollDone
<1>1. CASE SetStatus
  BY <1>1 DEF SetStatus
<1>2. CASE SetControl
  BY <1>2 DEF SetControl
<1>3. CASE LateFill
  BY <1>3 DEF LateFill, Executable, Rest, Blame
<1>4. CASE Expire
  BY <1>4 DEF Expire
<1>5. CASE Crash
  BY <1>5 DEF Crash, SentOrder, Blame
<1>6. CASE Boot
  BY <1>6 DEF Boot, Active, LoadLedger
<1> QED BY <1>1, <1>2, <1>3, <1>4, <1>5, <1>6 DEF World

\* Every step keeps the invariant.
LEMMA DeskStep == DeskInv /\ [Next]_vars => DeskInv'
<1> SUFFICES ASSUME DeskInv, [Next]_vars PROVE DeskInv'
  OBVIOUS
<1>1. CASE Next
  BY <1>1, FlagsStep, DeskLoop, DeskGate, DeskFill, DeskPoll, DeskWorld DEF Next, TickStep, DeskInv
<1>2. CASE UNCHANGED vars
  BY <1>2 DEF DeskInv, TypeOK, FlagsOK, Captured, DownIsBlank, vars, dbVars,
       brokerVars, deskVars, histVars, execVars, tickVars, pollVars
<1> QED BY <1>1, <1>2

\* Reachable states satisfy the invariant.
THEOREM DeskInvariant == Spec => []DeskInv
BY DeskInit, DeskStep, PTL DEF Spec

\* Every variable of the desk has its type in every reachable state.
THEOREM DeskTypes == Spec => []TypeOK
<1>1. DeskInv => TypeOK
  BY DEF DeskInv
<1> QED BY <1>1, DeskInvariant, PTL

\* A bot the poll loop dropped sends no order, unless execute already had its
\* ledger when it was dropped (the order is sent by Submit only, where the
\* captured ledger is either live and there, or detached).
THEOREM DroppedBots == Spec => DroppedBotSendsNothing
<1>1. DeskInv /\ [Next]_vars =>
        [orders' # orders /\ ledger[bot] = NoLedger => ~live]_vars
  <2> SUFFICES ASSUME DeskInv, Next, orders' # orders, ledger[bot] = NoLedger
               PROVE  ~live
    OBVIOUS
  <2>1. Submit
    BY DEF Next, TickStep, LoopStep, GateStep, FillStep, PollStep, World,
         TickStart, GetPrices, WakeBot, Hold, EndOfBots, SamplePositions,
         Compare, RefuseIntent, GateSystem, RefuseOrg, GateOrg, GateBlind,
         RiskReject, BrokerFill, BrokerError, RefuseFill, RecordFill,
         SaveSnapshot, PollScan, PollRegister, PollRaise, PollUnregister,
       Replace,
         PollSleep, SetStatus, SetControl, LateFill, Expire, Crash, Boot,
         histVars
  <2> QED BY <2>1 DEF Submit, DeskInv, Captured, Equipped
<1> QED BY <1>1, DeskInvariant, PTL DEF Spec, DroppedBotSendsNothing

-----------------------------------------------------------------------------
(* The bound on orders after a halt.  An intent past the read of a halted  *)
(* row is an order that may still be sent: counting it makes the bound     *)
(* inductive.  The system's row is read one step before the org's.         *)

\* The intent in hand has passed the read of row r.
PastRead(r) ==
  /\ ~failOpen
  /\ r \in Covers(bot)
  /\ pc = "quotes" \/ (pc = "gateOrg" /\ r = System)

InFlight(r) == IF PastRead(r) THEN 1 ELSE 0

HaltInv == \A r \in Rows : control[r] => sent[r] + InFlight(r) <= 1 + blind

\* Nothing is in flight, and no row halted, in an initial state.
LEMMA HaltInit == Init => HaltInv
BY DEF Init, HaltInv

\* A step after which no new intent is past a row's read keeps the bound, if
\* it leaves the rows and the counts alone.
LEMMA HaltFrame ==
  ASSUME TypeOK, HaltInv, UNCHANGED <<control, sent, blind>>,
         \A r \in Rows : control[r] /\ PastRead(r)' => PastRead(r)
  PROVE  HaltInv'
BY DEF TypeOK, HaltInv, InFlight

\* Every step keeps the bound.
LEMMA HaltStep ==
  ASSUME DeskInv, HaltInv, Next PROVE HaltInv'
<1> USE DeskAssumption DEF DeskAssumption, DeskInv, dbVars, histVars,
      execVars, tickVars, Covers, PastRead
<1>1. CASE LoopStep
  BY <1>1, HaltFrame DEF LoopStep, TickStart, GetPrices, WakeBot, Hold,
       EndOfBots, SamplePositions, Compare, ExecDone, NextBot, TickDone, Await
<1>2. CASE RefuseIntent \/ RefuseOrg \/ RiskReject
  BY <1>2, HaltFrame DEF RefuseIntent, RefuseOrg, RiskReject, NextBot
<1>3. CASE GateSystem
  BY <1>3, HaltFrame DEF GateSystem, SystemHaltRead
<1>4. CASE GateOrg
  BY <1>4, HaltFrame DEF GateOrg, OrgHaltRead, ResolveBroker
<1>5. CASE GateBlind
  BY <1>5, HaltFrame DEF GateBlind, ResolveBroker
<1>6. CASE Submit
  <2> SUFFICES ASSUME NEW r \in Rows, control[r]
               PROVE  sent'[r] + InFlight(r)' <= 1 + blind'
    BY <1>6 DEF Submit, HaltInv
  <2>1. InFlight(r)' = 0
    BY <1>6 DEF Submit, Await, InFlight
  <2>2. sent[r] \in Nat /\ blind \in Nat
    BY DEF TypeOK
  <2>3. CASE r \in Covers(bot) /\ failOpen
    BY <1>6, <2>1, <2>2, <2>3 DEF Submit, HaltInv, InFlight
  <2>4. CASE r \in Covers(bot) /\ ~failOpen
    BY <1>6, <2>1, <2>2, <2>4 DEF Submit, HaltInv, InFlight
  <2>5. CASE r \notin Covers(bot)
    BY <1>6, <2>1, <2>2, <2>5 DEF Submit, HaltInv, InFlight
  <2> QED BY <2>3, <2>4, <2>5
<1>7. CASE FillStep
  BY <1>7, HaltFrame DEF FillStep, BrokerFill, BrokerError, RefuseFill,
       RecordFill, SaveSnapshot, NextBot
<1>8. CASE PollStep
  BY <1>8, HaltFrame DEF PollStep, PollScan, PollRegister, PollRaise,
       PollUnregister, Replace, PollSleep
<1>9. CASE SetStatus \/ LateFill \/ Expire \/ Boot
  BY <1>9, HaltFrame DEF SetStatus, LateFill, Expire, Boot
<1>10. CASE SetControl
  BY <1>10 DEF SetControl, TypeOK, HaltInv, InFlight
<1>11. CASE Crash
  BY <1>11, HaltFrame DEF Crash, TickDone
<1> QED BY <1>1, <1>2, <1>3, <1>4, <1>5, <1>6, <1>7, <1>8, <1>9, <1>10, <1>11
        DEF Next, TickStep, GateStep, World

\* After a halt at most one order that had passed the gate is still sent,
\* besides those of gates that could not read the rows.
THEOREM Halts == Spec => []HaltBound
<1>1. DeskInv /\ HaltInv /\ [Next]_vars => HaltInv'
  <2>1. CASE Next
    BY <2>1, HaltStep
  <2>2. ASSUME HaltInv, UNCHANGED vars PROVE HaltInv'
    BY <2>2 DEF vars, dbVars, histVars, execVars, tickVars, HaltInv,
         InFlight, PastRead, Covers
  <2> QED BY <2>1, <2>2
<1>2. DeskInv /\ HaltInv => HaltBound
  BY DEF DeskInv, TypeOK, HaltInv, InFlight, HaltBound
<1> QED BY <1>1, <1>2, HaltInit, DeskInvariant, PTL DEF Spec

-----------------------------------------------------------------------------
(* Ledgers and event log.  Between two orders a bot's ledger and snapshot  *)
(* agree with the broker; from the broker's answer to the snapshot the     *)
(* difference is the fill in hand.  A ledger object that was detached while *)
(* execute held it still has the snapshot's position.                       *)

Clean(b) == cause[b] \subseteq {"unlogged"}

\* Bot b's fill is in the ledger and not yet in the snapshot.
Unsaved(b) == pc = "appended" /\ bot = b

LedgerInv ==
  \A b \in Bots : Clean(b) =>
    /\ Unsaved(b) => Holding = filled[b] /\ (ledger[b] # NoLedger => live)
    /\ ~Unsaved(b) => /\ ledger[b] \in {NoLedger, snapshot[b]}
                      /\ snapshot[b] + InHand(b) = filled[b]
                      /\ pc \in Equipped /\ bot = b /\ ~live
                           => held = snapshot[b]

EventInv == EventLogRecovers

\* Nothing is executed or recorded in an initial state.
LEMMA LedgerInit == Init => LedgerInv /\ EventInv
BY DEF Init, LedgerInv, EventInv, EventLogRecovers, InHand, Unsaved, Equipped

\* A step that leaves the records alone, and execute's part of them, keeps
\* both invariants.
LEMMA LedgerFrame ==
  ASSUME LedgerInv, EventInv,
         UNCHANGED <<snapshot, ledger, filled, cause, eventLog>>,
         pc \notin {"answered", "appended"}, pc' \notin {"answered", "appended"},
         pc' \in Equipped /\ ~live' =>
           pc \in Equipped /\ UNCHANGED <<bot, live, held>>
  PROVE  LedgerInv' /\ EventInv'
BY DEF LedgerInv, EventInv, EventLogRecovers, InHand, Clean, Unsaved, Equipped

\* So does a step that changes nothing they speak of.
LEMMA LedgerSame ==
  ASSUME LedgerInv, EventInv,
         UNCHANGED <<snapshot, ledger, filled, cause, eventLog, pc, bot, qty,
                     live, held>>
  PROVE  LedgerInv' /\ EventInv'
BY DEF LedgerInv, EventInv, EventLogRecovers, InHand, Clean, Unsaved, Holding

\* The steps of the tick loop that record nothing.
LEMMA LedgerQuiet ==
  ASSUME DeskInv, LedgerInv, EventInv, LoopStep \/ GateStep \/ BrokerError
  PROVE  LedgerInv' /\ EventInv'
<1> USE DEF DeskInv, Captured, dbVars, deskVars, histVars, execVars, ExecDone,
      NextBot, TickDone, Await, Equipped
<1>1. CASE LoopStep
  BY <1>1, LedgerFrame DEF LoopStep, TickStart, GetPrices, WakeBot, Hold,
       EndOfBots, SamplePositions, Compare
<1>2. CASE RefuseIntent \/ GateSystem \/ RefuseOrg \/ RiskReject \/ Submit
  BY <1>2, LedgerFrame DEF RefuseIntent, GateSystem, HasIntent, RefuseOrg,
       RiskReject, Submit
<1>3. CASE GateOrg \/ GateBlind
  BY <1>3, LedgerFrame DEF GateOrg, GateBlind, HasIntent, ResolveBroker
<1>4. CASE BrokerError
  BY <1>4, LedgerFrame DEF BrokerError
<1> QED BY <1>1, <1>2, <1>3, <1>4 DEF GateStep

\* The broker's answer and its record keep both invariants.
LEMMA LedgerFill ==
  ASSUME DeskInv, LedgerInv, EventInv, FillStep
  PROVE  LedgerInv' /\ EventInv'
<1> USE DEF DeskInv, TypeOK, Captured, Serving, Equipped, LedgerInv, EventInv,
      EventLogRecovers, InHand, Clean, Unsaved, Holding, execVars, deskVars,
      dbVars, ExecDone, NextBot
<1>1. CASE BrokerFill
  BY <1>1 DEF BrokerFill, Executable
<1>2. CASE RefuseFill
  BY <1>2 DEF RefuseFill, Blame
<1>3. CASE RecordFill
  <2> USE DEF RecordFill, AppendEvent, Orphaned, HasLedger
  <2>1. bot \in Bots /\ pc' = "appended" /\ UNCHANGED <<bot, live, filled, snapshot>>
    BY <1>3
  <2>2. \A b \in Bots \ {bot} : /\ ledger'[b] = ledger[b]
                               /\ cause'[b] = cause[b]
                               /\ eventLog'[b] = eventLog[b]
    BY <1>3
  <2>3. cause[bot] \subseteq cause'[bot]
    BY <1>3
  <2>4. ASSUME cause'[bot] \subseteq {"unlogged"}
        PROVE  Holding' = filled[bot] /\ (ledger'[bot] # NoLedger => live)
    <3>1. CASE live
      BY <1>3, <2>3, <2>4, <3>1
    <3>2. CASE ~live
      <4>1. ledger' = ledger /\ held' = held + qty
        BY <1>3, <3>2
      <4>2. ledger[bot] # NoLedger => "orphan" \in cause'[bot]
        BY <1>3, <3>2
      <4>3. ledger'[bot] = NoLedger
        BY <2>4, <4>1, <4>2
      <4>4. held + qty = filled[bot]
        BY <1>3, <2>3, <2>4, <3>2
      <4> QED BY <2>1, <3>2, <4>1, <4>3, <4>4
    <3> QED BY <3>1, <3>2
  <2>5. ASSUME cause'[bot] \subseteq {"unsaved", "orphan"}
        PROVE  eventLog'[bot] = filled[bot]
    BY <1>3, <2>3, <2>5
  <2>6. LedgerInv'
    BY <1>3, <2>1, <2>2, <2>4
  <2>7. EventInv'
    BY <1>3, <2>1, <2>2, <2>5
  <2> QED BY <2>6, <2>7
<1>4. CASE SaveSnapshot
  <2> USE DEF SaveSnapshot, Blame
  <2>1. bot \in Bots /\ pc' = "bots" /\ UNCHANGED <<ledger, filled, eventLog>>
    BY <1>4
  <2>2. \A b \in Bots \ {bot} : /\ cause'[b] = cause[b]
                               /\ snapshot'[b] = snapshot[b]
    BY <1>4
  <2>3. cause[bot] \subseteq cause'[bot]
    BY <1>4
  <2>4. ASSUME cause'[bot] \subseteq {"unlogged"}
        PROVE  /\ snapshot'[bot] = filled[bot]
               /\ ledger[bot] \in {NoLedger, snapshot'[bot]}
    <3>1. Holding = filled[bot] /\ (ledger[bot] # NoLedger => live)
      BY <1>4, <2>3, <2>4
    <3>2. "unsaved" \notin cause'[bot]
      BY <2>4
    <3>3. snapshot' = [snapshot EXCEPT ![bot] = Holding]
      BY <1>4, <3>2
    <3>4. snapshot'[bot] = Holding
      BY <2>1, <3>3
    <3> QED BY <2>1, <3>1, <3>4
  <2>5. LedgerInv'
    <3> SUFFICES ASSUME NEW b \in Bots, Clean(b)'
                 PROVE  /\ ledger'[b] \in {NoLedger, snapshot'[b]}
                        /\ snapshot'[b] = filled'[b]
      BY <2>1
    <3>1. CASE b = bot
      BY <2>1, <2>4, <3>1
    <3>2. CASE b # bot
      BY <1>4, <2>1, <2>2, <3>2
    <3> QED BY <3>1, <3>2
  <2>6. EventInv'
    BY <1>4, <2>1, <2>2, <2>3
  <2> QED BY <2>5, <2>6
<1> QED BY <1>1, <1>2, <1>3, <1>4, LedgerQuiet DEF FillStep

\* The poll loop keeps both: it loads a ledger from its snapshot, and runs
\* neither between the gate and the capture nor during a save.
LEMMA LedgerPoll ==
  ASSUME DeskInv, LedgerInv, EventInv, PollStep
  PROVE  LedgerInv' /\ EventInv'
<1> USE DEF DeskInv, TypeOK, Captured, Serving, Equipped, LedgerInv, EventInv,
      EventLogRecovers, InHand, Clean, Unsaved, Synchronous, execVars,
      tickVars, deskVars, dbVars, histVars
<1>1. CASE PollScan \/ PollSleep
  BY <1>1, LedgerSame DEF PollScan, PollSleep
<1>2. CASE PollRegister \/ PollRaise
  BY <1>2 DEF PollRegister, PollRaise, Replace, Missing, LoadLedger
<1>3. CASE PollUnregister
  BY <1>3 DEF PollUnregister, Replace, Gone
<1> QED BY <1>1, <1>2, <1>3 DEF PollStep

\* The rest of the world keeps both.
LEMMA LedgerWorld ==
  ASSUME DeskInv, LedgerInv, EventInv, World \/ Boot
  PROVE  LedgerInv' /\ EventInv'
<1> USE DEF DeskInv, TypeOK, Captured, DownIsBlank, Serving, Equipped,
      LedgerInv, EventInv, EventLogRecovers, InHand, Clean, Unsaved, Holding,
      execVars, tickVars, deskVars, dbVars, histVars
<1>1. CASE SetStatus \/ SetControl \/ Expire
  BY <1>1, LedgerSame DEF SetStatus, SetControl, Expire
<1>2. CASE LateFill
  <2>1. PICK o \in working :
          /\ \E n \in Executable(o.acct, o.qty) :
               filled' = [filled EXCEPT ![o.bot] = @ + n]
          /\ cause' = [cause EXCEPT ![o.bot] = @ \cup {"unseen"}]
    BY <1>2 DEF LateFill, Blame
  <2>2. o.bot \in Bots
    OBVIOUS
  <2>3. "unseen" \in cause'[o.bot]
    BY <2>1, <2>2
  <2>4. \A b \in Bots \ {o.bot} : filled'[b] = filled[b] /\ cause'[b] = cause[b]
    BY <2>1, <2>2
  <2> QED BY <1>2, <2>3, <2>4 DEF LateFill
<1>3. CASE Crash
  BY <1>3 DEF Crash, TickDone, Blame
<1>4. CASE Boot
  BY <1>4 DEF Boot, LoadLedger
<1> QED BY <1>1, <1>2, <1>3, <1>4 DEF World

\* Both invariants, in every reachable state.
LEMMA LedgerInvariant == Spec => [](DeskInv /\ LedgerInv /\ EventInv)
<1>1. DeskInv /\ LedgerInv /\ EventInv /\ [Next]_vars => LedgerInv' /\ EventInv'
  <2>1. ASSUME DeskInv, LedgerInv, EventInv, Next PROVE LedgerInv' /\ EventInv'
    BY <2>1, LedgerQuiet, LedgerFill, LedgerPoll, LedgerWorld
       DEF Next, TickStep
  <2>2. ASSUME LedgerInv, EventInv, UNCHANGED vars
        PROVE  LedgerInv' /\ EventInv'
    BY <2>2, LedgerSame DEF vars, dbVars, deskVars, histVars, execVars,
         tickVars
  <2> QED BY <2>1, <2>2
<1> QED BY <1>1, LedgerInit, DeskInvariant, PTL DEF Spec

\* A ledger differs from what the broker executed only for a listed cause.
THEOREM Ledgers == Spec => []LedgerFollowsFills
<1>1. DeskInv /\ LedgerInv => LedgerFollowsFills
  BY DEF DeskInv, TypeOK, LedgerInv, LedgerFollowsFills, Clean, Unsaved,
       Recorded, InHand
<1> QED BY <1>1, LedgerInvariant, PTL

\* The event log has every fill the process saw.
THEOREM EventLog == Spec => []EventLogRecovers
<1>1. EventInv => EventLogRecovers
  BY DEF EventInv
<1> QED BY <1>1, LedgerInvariant, PTL
=============================================================================
