------------------------------ MODULE BotLedger ------------------------------
(***************************************************************************)
(* One bot's ledger and the risk check in front of it, in money.            *)
(*                                                                         *)
(* An intent is checked at the quotes just read, becomes a market order,    *)
(* and the broker's answer (a part of it, all of it or nothing, at a price  *)
(* of its own) is recorded.  Amounts are whole units: a quotient is         *)
(* rounded half to even as Decimal rounds its last digit.  All steps belong *)
(* to one trading session.                                                 *)
(***************************************************************************)
EXTENDS Integers, FiniteSets, Functions

CONSTANTS
  Symbols,            \* what the bot trades
  Quotes,             \* mid prices a quote can have
  Prices,             \* prices a fill can have
  Quantities,         \* sizes of intents and fills
  Fees,               \* fees of a sell (a buy has none)
  StartingCapital,
  MaxPositionPct,     \* RiskConfig, in percent
  MaxTotalExposurePct,
  MaxDrawdownPct,
  DailyLossCapPct,
  MaxFills,           \* fills (bound)
  NoIntent            \* nothing at the broker

ASSUME LedgerAssumption ==
  /\ IsFiniteSet(Symbols)
  /\ Quotes \subseteq Nat
  /\ Prices \subseteq Nat
  /\ Fees \subseteq Nat
  /\ Quantities \subseteq Nat \ {0}
  /\ StartingCapital \in Nat \ {0}
  /\ {MaxPositionPct, MaxTotalExposurePct, MaxDrawdownPct, DailyLossCapPct} \subseteq Nat
  /\ MaxFills \in Nat
  /\ NoIntent \notin [symbol : Symbols, side : {"buy", "sell"}, qty : Quantities,
                      quotes : [Symbols -> Quotes]]

Intents == [symbol : Symbols, side : {"buy", "sell"}, qty : Quantities,
            quotes : [Symbols -> Quotes]]

VARIABLES
  realized_pnl,
  high_water_mark,
  held,               \* open_positions: the quantity of each symbol
  basis,              \* open_positions: the burdened cost basis of a unit
  order_history,      \* for each symbol, bought less sold by order_history
  intent,             \* the intent whose order is at the broker
  cash,               \* what the recorded fills left of the capital (history)
  slack,              \* twice what rounding may have cost (history)
  peak,               \* the highest equity so far (history)
  refused,            \* the quantity of each symbol in refused sells (history)
  fills               \* fills so far (bound)

ledgerVars == <<realized_pnl, high_water_mark, held, basis, order_history>>
histVars == <<cash, slack, peak, refused, fills>>
vars == <<ledgerVars, intent, histVars>>

\* Closed positions only.
Equity == StartingCapital + realized_pnl

\* The quantities h of all symbols valued at the prices p.
Valued(h, p) == SumFunction([s \in Symbols |-> h[s] * p[s]])

\* a/b rounded half to even.
Quotient(a, b) ==
  LET q == a \div b
      r == a % b
  IN  IF 2 * r < b \/ (2 * r = b /\ q % 2 = 0) THEN q ELSE q + 1

Init ==
  /\ realized_pnl = 0
  /\ high_water_mark = StartingCapital
  /\ held = [s \in Symbols |-> 0]
  /\ basis = [s \in Symbols |-> 0]
  /\ order_history = [s \in Symbols |-> 0]
  /\ intent = NoIntent
  /\ cash = StartingCapital
  /\ slack = 0
  /\ peak = StartingCapital
  /\ refused = [s \in Symbols |-> 0]
  /\ fills = 0

-----------------------------------------------------------------------------
(* RiskManager.evaluate.  A part is above a percentage of a whole when       *)
(* 100 parts are above the percentage times the whole.                      *)

Above(part, pct, whole) == 100 * part > pct * whole

\* Equity has fallen too far below the high water mark.
DrawdownExceeded == Above(high_water_mark - Equity, MaxDrawdownPct, high_water_mark)

\* RiskManager._daily_loss: nothing calls record_daily_loss.
DailyLoss == 0

DailyLossExceeded == Equity > 0 /\ Above(DailyLoss, DailyLossCapPct, Equity)

\* The order alone is too large a part of equity.
PositionExceeded(i) ==
  IF Equity > 0
  THEN Above(i.qty * i.quotes[i.symbol], MaxPositionPct, Equity)
  ELSE 100 > MaxPositionPct

\* The exposure check without the order itself.
ExposureExceeded_slip(i) ==
  Equity > 0 /\ Above(Valued(held, i.quotes), MaxTotalExposurePct, Equity)

\* The open positions and the order are too large a part of equity.
ExposureExceeded(i) ==
  /\ Equity > 0
  /\ Above(Valued(held, i.quotes) + i.qty * i.quotes[i.symbol], MaxTotalExposurePct, Equity)

\* Sells pass, buys pass all four limits.
Approved(i) ==
  \/ i.side = "sell"
  \/ /\ ~DrawdownExceeded
     /\ ~DailyLossExceeded
     /\ ~PositionExceeded(i)
     /\ ~ExposureExceeded(i)

\* An approved intent is sent to the broker; a rejected one leaves no trace.
Submit(i) ==
  /\ intent = NoIntent
  /\ fills < MaxFills
  /\ Approved(i)
  /\ intent' = i
  /\ UNCHANGED <<ledgerVars, histVars>>

\* submit_order raises, or nothing is filled.
NoFill ==
  /\ intent # NoIntent
  /\ intent' = NoIntent
  /\ UNCHANGED <<ledgerVars, histVars>>

-----------------------------------------------------------------------------
(* Ledger.record_fill.                                                      *)

\* The average of the two prices, whatever their quantities.
Averaged_slip(s, qty, price) == Quotient(basis[s] + price, 2)

\* The weighted average of the cost basis.
Averaged(s, qty, price) == Quotient(basis[s] * held[s] + price * qty, held[s] + qty)

\* _handle_buy: a new position, or more of one.
Buy(s, qty, price) ==
  /\ held' = [held EXCEPT ![s] = @ + qty]
  /\ basis' = [basis EXCEPT ![s] = IF held[s] = 0 THEN price ELSE Averaged(s, qty, price)]
  /\ cash' = cash - price * qty
  /\ slack' = IF held[s] = 0 THEN slack ELSE slack + held[s] + qty
  /\ UNCHANGED <<realized_pnl, refused>>

\* _handle_sell: profit is what the sale brings above the cost of what is sold.
Sell(s, qty, price, fee) ==
  /\ qty <= held[s]
  /\ realized_pnl' = realized_pnl + price * qty - fee - basis[s] * qty
  /\ held' = [held EXCEPT ![s] = @ - qty]
  /\ basis' = [basis EXCEPT ![s] = IF held[s] = qty THEN 0 ELSE @]
  /\ cash' = cash + price * qty - fee
  /\ UNCHANGED <<slack, refused>>

\* _handle_sell raises: more than is held.
RefuseSell(s, qty) ==
  /\ qty > held[s]
  /\ refused' = [refused EXCEPT ![s] = @ + qty]
  /\ UNCHANGED <<realized_pnl, held, basis, high_water_mark, cash, slack, peak>>

\* The mark follows equity down as well.
RaisedMark_slip == StartingCapital + realized_pnl'

\* The high water mark after a fill.
RaisedMark ==
  IF StartingCapital + realized_pnl' > high_water_mark
  THEN StartingCapital + realized_pnl' ELSE high_water_mark

\* The rest of record_fill, after the positions changed.
UpdateMark ==
  /\ high_water_mark' = RaisedMark
  /\ peak' = IF StartingCapital + realized_pnl' > peak
             THEN StartingCapital + realized_pnl' ELSE peak

\* The broker filled qty at price: history first, then positions, then the mark.
Fill(qty, price, fee) ==
  /\ intent # NoIntent
  /\ qty <= intent.qty
  /\ LET s == intent.symbol IN
       \/ /\ intent.side = "buy"
          /\ order_history' = [order_history EXCEPT ![s] = @ + qty]
          /\ Buy(s, qty, price)
          /\ UpdateMark
       \/ /\ intent.side = "sell"
          /\ order_history' = [order_history EXCEPT ![s] = @ - qty]
          /\ \/ Sell(s, qty, price, fee) /\ UpdateMark
             \/ RefuseSell(s, qty)
  /\ intent' = NoIntent
  /\ fills' = fills + 1

Next ==
  \/ \E i \in Intents : Submit(i)
  \/ NoFill
  \/ \E qty \in Quantities, price \in Prices, fee \in Fees : Fill(qty, price, fee)

Spec == Init /\ [][Next]_vars

-----------------------------------------------------------------------------
(* Properties.                                                              *)

\* Money and positions keep the types Ledger and Position give them.
TypeOK ==
  /\ realized_pnl \in Int
  /\ high_water_mark \in Nat
  /\ held \in [Symbols -> Nat]
  /\ basis \in [Symbols -> Nat]
  /\ order_history \in [Symbols -> Int]
  /\ intent \in Intents \cup {NoIntent}
  /\ cash \in Int
  /\ slack \in Nat
  /\ peak \in Nat
  /\ refused \in [Symbols -> Nat]
  /\ fills \in Nat

\* Double entry (record_fill).  In money: the cash left and the positions at
\* cost are the starting capital and the realized profit, but for the rounding
\* of the averages.  In shares: the positions are what order_history adds up
\* to, but for the sells it holds although they were refused.
BooksBalance ==
  /\ LET gap == 2 * (cash + Valued(held, basis) - Equity)
     IN  gap <= slack /\ -gap <= slack
  /\ \A s \in Symbols : held[s] = order_history[s] + refused[s]

\* The exposure limit (evaluate): a buy that fills, in part or in full and at
\* any price, leaves the open positions within the limit at the quotes the
\* risk check saw.
ExposureCapped ==
  [][intent # NoIntent /\ held' # held /\ intent.side = "buy" =>
       ~Above(Valued(held', intent.quotes), MaxTotalExposurePct, StartingCapital + realized_pnl')]_vars

\* The drawdown limit (evaluate, record_fill): no buy is sent while realized
\* equity is further below its peak than the limit allows.
NoBuyAfterFall ==
  [][intent = NoIntent /\ intent' # NoIntent /\ intent'.side = "buy" =>
       ~Above(peak - Equity, MaxDrawdownPct, peak)]_vars
=============================================================================
