------------------------------ MODULE LedgerProofs ------------------------------
(***************************************************************************)
(* The books: a bot's ledger and the risk check in front of it, for any      *)
(* symbols, prices, quantities and limits, and the auditor that compares the *)
(* ledgers of an org's bots with the broker, for any bots and overlapping    *)
(* audits.  Both add up what is held, so sums come first.                    *)
(***************************************************************************)
EXTENDS BotLedger, OrgAudit, FiniteSetTheorems, WellFoundedInduction, TLAPS

-----------------------------------------------------------------------------
(* Sums over finite sets.  The sum takes some element of the set after the   *)
(* other; that it may take any of them next is shown of a smallest set for   *)
(* which it is not so.                                                      *)

Pick(s) == CHOOSE x \in s : TRUE

\* t sums f over every subset of S.
Adds(f, t, S) ==
  t = [s \in SUBSET S |-> IF s = {} THEN 0 ELSE f[Pick(s)] + t[s \ {Pick(s)}]]

LEMMA SmallestSet ==
  ASSUME NEW S, IsFiniteSet(S), NEW T \in SUBSET (SUBSET S), T # {}
  PROVE  \E m \in T : \A u \in T : u \subseteq m => u = m
<1>1. IsWellFoundedOn(StrictSubsetOrdering(S), SUBSET S)
  BY FS_StrictSubsetOrderingWellFounded, FS_FiniteSubsetsOfFinite
<1>2. PICK m \in T : \A u \in T : ~(<<u, m>> \in StrictSubsetOrdering(S))
  BY <1>1, WFMin
<1> QED BY <1>2 DEF StrictSubsetOrdering

LEMMA PickIsIn ==
  ASSUME NEW s, s # {}
  PROVE  Pick(s) \in s
BY DEF Pick

\* Two functions that sum agree where both do.
LEMMA SumsAgree ==
  ASSUME NEW f, NEW S, NEW R \in SUBSET S, IsFiniteSet(S), NEW t, NEW g,
         Adds(f, t, S), Adds(f, g, R)
  PROVE  t[R] = g[R]
<1> SUFFICES ASSUME t[R] # g[R] PROVE FALSE
  OBVIOUS
<1> DEFINE T == {s \in SUBSET R : t[s] # g[s]}
<1>1. T \in SUBSET (SUBSET S) /\ T # {}
  OBVIOUS
<1>2. PICK m \in T : \A u \in T : u \subseteq m => u = m
  <2> HIDE DEF T
  <2> QED BY <1>1, SmallestSet
<1>3. m # {}
  BY DEF Adds
<1>4. Pick(m) \in m
  BY <1>3, PickIsIn
<1>5. t[m \ {Pick(m)}] = g[m \ {Pick(m)}]
  BY <1>2, <1>4
<1>6. t[m] = f[Pick(m)] + t[m \ {Pick(m)}] /\ g[m] = f[Pick(m)] + g[m \ {Pick(m)}]
  BY <1>3 DEF Adds
<1> QED BY <1>5, <1>6

LEMMA SumsExist ==
  ASSUME NEW f, NEW S, IsFiniteSet(S)
  PROVE  \E t : Adds(f, t, S)
<1> SUFFICES ASSUME ~\E t : Adds(f, t, S) PROVE FALSE
  OBVIOUS
<1> DEFINE T == {s \in SUBSET S : ~\E t : Adds(f, t, s)}
<1>1. T \in SUBSET (SUBSET S) /\ T # {}
  OBVIOUS
<1>2. PICK m \in T : \A u \in T : u \subseteq m => u = m
  <2> HIDE DEF T
  <2> QED BY <1>1, SmallestSet
<1> DEFINE Fn(u) == CHOOSE t : Adds(f, t, u)
<1>3. \A u \in SUBSET m : u # m => Adds(f, Fn(u), u)
  BY <1>2
<1> DEFINE Value(u) == IF u = {} THEN 0 ELSE f[Pick(u)] + Fn(u \ {Pick(u)})[u \ {Pick(u)}]
           total == [u \in SUBSET m |-> Value(u)]
<1>4. ASSUME NEW u \in SUBSET m, u # m PROVE Fn(u)[u] = Value(u)
  <2>1. Adds(f, Fn(u), u)
    BY <1>3, <1>4
  <2>2. CASE u = {}
    BY <2>1, <2>2 DEF Adds
  <2>3. CASE u # {}
    <3> DEFINE v == u \ {Pick(u)}
    <3>1. v \in SUBSET u /\ v # m /\ v \in SUBSET m
      BY <1>4, <2>3, PickIsIn
    <3>2. Adds(f, Fn(v), v)
      BY <1>3, <3>1
    <3>3. IsFiniteSet(u)
      BY FS_Subset
    <3>4. Fn(u)[v] = Fn(v)[v]
      <4> HIDE DEF Fn, v
      <4> QED BY <2>1, <3>1, <3>2, <3>3, SumsAgree
    <3>5. Fn(u)[u] = f[Pick(u)] + Fn(u)[v]
      <4> HIDE DEF Fn
      <4> QED BY <2>1, <2>3 DEF Adds
    <3> HIDE DEF Fn
    <3> QED BY <2>3, <3>4, <3>5
  <2> QED BY <2>2, <2>3
<1>5. Adds(f, total, m)
  <2>1. ASSUME NEW u \in SUBSET m, u # {}
        PROVE  total[u] = f[Pick(u)] + total[u \ {Pick(u)}]
    <3> DEFINE v == u \ {Pick(u)}
    <3>1. v \in SUBSET m /\ v # m
      BY <2>1, PickIsIn
    <3>2. total[v] = Fn(v)[v]
      <4> HIDE DEF Fn, v
      <4> QED BY <1>4, <3>1
    <3> HIDE DEF Fn
    <3> QED BY <2>1, <3>2
  <2>2. total[{}] = 0
    BY DEF Value
  <2>3. total = [u \in SUBSET m |-> IF u = {} THEN 0 ELSE f[Pick(u)] + total[u \ {Pick(u)}]]
    <3>1. \A u \in SUBSET m : Value(u) = IF u = {} THEN 0 ELSE f[Pick(u)] + total[u \ {Pick(u)}]
      <4> SUFFICES ASSUME NEW u \in SUBSET m
                   PROVE  total[u] = IF u = {} THEN 0 ELSE f[Pick(u)] + total[u \ {Pick(u)}]
        OBVIOUS
      <4> HIDE DEF total
      <4> QED BY <2>1, <2>2
    <3> HIDE DEF Value
    <3> QED BY <3>1
  <2> HIDE DEF total
  <2> QED BY <2>3 DEF Adds
<1> QED BY <1>2, <1>5

LEMMA SumTakesPick ==
  ASSUME NEW f, NEW S, IsFiniteSet(S)
  PROVE  SumFunctionOnSet(f, S) =
           IF S = {} THEN 0
           ELSE f[Pick(S)] + SumFunctionOnSet(f, S \ {Pick(S)})
<1> DEFINE Fn(u) == CHOOSE t : Adds(f, t, u)
           R == S \ {Pick(S)}
<1>1. \A u : SumFunctionOnSet(f, u) = Fn(u)[u]
  BY DEF SumFunctionOnSet, FoldFunctionOnSet, MapThenFoldSet, Adds, Pick
<1>2. IsFiniteSet(R) /\ R \in SUBSET S
  BY FS_Subset
<1>3. Adds(f, Fn(S), S) /\ Adds(f, Fn(R), R)
  BY <1>2, SumsExist
<1> HIDE DEF Fn
<1>4. Fn(S)[R] = Fn(R)[R]
  BY <1>2, <1>3, SumsAgree
<1>5. Fn(S)[S] = IF S = {} THEN 0 ELSE f[Pick(S)] + Fn(S)[R]
  BY <1>3 DEF Adds
<1> QED BY <1>1, <1>4, <1>5

LEMMA SumOfInts ==
  ASSUME NEW S, IsFiniteSet(S), NEW f, \A x \in S : f[x] \in Int
  PROVE  SumFunctionOnSet(f, S) \in Int
<1> SUFFICES ASSUME SumFunctionOnSet(f, S) \notin Int PROVE FALSE
  OBVIOUS
<1> DEFINE T == {s \in SUBSET S : SumFunctionOnSet(f, s) \notin Int}
<1>1. PICK m \in T : \A u \in T : u \subseteq m => u = m
  <2>1. T \in SUBSET (SUBSET S) /\ T # {}
    OBVIOUS
  <2> HIDE DEF T
  <2> QED BY <2>1, SmallestSet
<1>2. IsFiniteSet(m) /\ (m # {} => Pick(m) \in m)
  BY FS_Subset, PickIsIn
<1>3. m # {} => SumFunctionOnSet(f, m \ {Pick(m)}) \in Int
  BY <1>1, <1>2
<1> QED BY <1>2, <1>3, SumTakesPick

\* Any element can be taken out of a sum.
LEMMA SumTakesAny ==
  ASSUME NEW S, IsFiniteSet(S), NEW f, \A x \in S : f[x] \in Int, NEW x \in S
  PROVE  SumFunctionOnSet(f, S) = f[x] + SumFunctionOnSet(f, S \ {x})
<1> DEFINE Sum(s) == SumFunctionOnSet(f, s)
           TakesAny(s) == \A y \in s : Sum(s) = f[y] + Sum(s \ {y})
<1> SUFFICES ASSUME ~TakesAny(S) PROVE FALSE
  OBVIOUS
<1> DEFINE T == {s \in SUBSET S : ~TakesAny(s)}
<1>1. PICK m \in T : \A u \in T : u \subseteq m => u = m
  <2>1. T \in SUBSET (SUBSET S) /\ T # {}
    OBVIOUS
  <2> HIDE DEF T
  <2> QED BY <2>1, SmallestSet
<1>2. PICK y \in m : Sum(m) # f[y] + Sum(m \ {y})
  OBVIOUS
<1> DEFINE p == Pick(m)
<1>3. p \in m /\ IsFiniteSet(m) /\ Sum(m) = f[p] + Sum(m \ {p})
  BY FS_Subset, PickIsIn, SumTakesPick
<1>4. p # y
  BY <1>2, <1>3
<1>5. m \ {p} \subseteq m /\ m \ {p} # m /\ m \ {y} # m /\ m \ {p} \in SUBSET S /\ m \ {y} \in SUBSET S
  BY <1>3
<1>6. TakesAny(m \ {p}) /\ TakesAny(m \ {y})
  <2>1. \A u \in SUBSET S : u \subseteq m /\ u # m => TakesAny(u)
    <3> HIDE DEF TakesAny
    <3> QED BY <1>1
  <2> HIDE DEF TakesAny, p
  <2> QED BY <1>5, <2>1
<1>7. Sum(m \ {p}) = f[y] + Sum((m \ {p}) \ {y}) /\ Sum(m \ {y}) = f[p] + Sum((m \ {y}) \ {p})
  <2>1. y \in m \ {p} /\ p \in m \ {y}
    BY <1>3, <1>4
  <2> HIDE DEF Sum, p
  <2> QED BY <1>6, <2>1
<1>8. (m \ {p}) \ {y} = (m \ {y}) \ {p}
  OBVIOUS
<1>9. Sum((m \ {p}) \ {y}) \in Int /\ f[p] \in Int /\ f[y] \in Int
  <2>1. IsFiniteSet((m \ {p}) \ {y})
    BY <1>3, FS_Subset
  <2>2. \A z \in (m \ {p}) \ {y} : f[z] \in Int
    OBVIOUS
  <2>3. f[p] \in Int /\ f[y] \in Int
    BY <1>3
  <2> DEFINE r == (m \ {p}) \ {y}
  <2> HIDE DEF p
  <2>4. IsFiniteSet(r) /\ \A z \in r : f[z] \in Int
    BY <2>1, <2>2
  <2> HIDE DEF r
  <2>5. SumFunctionOnSet(f, r) \in Int
    BY <2>4, SumOfInts
  <2> QED BY <2>3, <2>5 DEF r
<1>10. PICK r \in Int : Sum(m \ {p}) = f[y] + r /\ Sum(m \ {y}) = f[p] + r
  <2> HIDE DEF Sum, p
  <2> QED BY <1>7, <1>8, <1>9
<1>11. f[y] + (f[p] + r) = f[p] + (f[y] + r)
  <2>1. f[p] \in Int /\ f[y] \in Int
    BY <1>9
  <2> HIDE DEF Sum, p
  <2> QED BY <2>1
<1> HIDE DEF Sum, p
<1> QED BY <1>2, <1>3, <1>10, <1>11

\* Only the values on the set count.
LEMMA SumOfEquals ==
  ASSUME NEW S, IsFiniteSet(S), NEW f, NEW g, \A x \in S : f[x] = g[x]
  PROVE  SumFunctionOnSet(f, S) = SumFunctionOnSet(g, S)
<1> SUFFICES ASSUME SumFunctionOnSet(f, S) # SumFunctionOnSet(g, S) PROVE FALSE
  OBVIOUS
<1> DEFINE T == {s \in SUBSET S : SumFunctionOnSet(f, s) # SumFunctionOnSet(g, s)}
<1>1. PICK m \in T : \A u \in T : u \subseteq m => u = m
  <2>1. T \in SUBSET (SUBSET S) /\ T # {}
    OBVIOUS
  <2> HIDE DEF T
  <2> QED BY <2>1, SmallestSet
<1>2. IsFiniteSet(m) /\ (m # {} => Pick(m) \in m)
  BY FS_Subset, PickIsIn
<1>3. m # {} => SumFunctionOnSet(f, m \ {Pick(m)}) = SumFunctionOnSet(g, m \ {Pick(m)})
  BY <1>1, <1>2
<1>4. SumFunctionOnSet(f, m) = SumFunctionOnSet(g, m)
  BY <1>2, <1>3, SumTakesPick
<1> QED BY <1>4

LEMMA SumOfZeros ==
  ASSUME NEW S, IsFiniteSet(S), NEW f, \A x \in S : f[x] = 0
  PROVE  SumFunctionOnSet(f, S) = 0
<1> SUFFICES ASSUME SumFunctionOnSet(f, S) # 0 PROVE FALSE
  OBVIOUS
<1> DEFINE T == {s \in SUBSET S : SumFunctionOnSet(f, s) # 0}
<1>1. PICK m \in T : \A u \in T : u \subseteq m => u = m
  <2>1. T \in SUBSET (SUBSET S) /\ T # {}
    OBVIOUS
  <2> HIDE DEF T
  <2> QED BY <2>1, SmallestSet
<1>2. IsFiniteSet(m) /\ (m # {} => Pick(m) \in m)
  BY FS_Subset, PickIsIn
<1>3. m # {} => SumFunctionOnSet(f, m \ {Pick(m)}) = 0 /\ f[Pick(m)] = 0
  BY <1>1, <1>2
<1>4. SumFunctionOnSet(f, m) = 0
  BY <1>2, <1>3, SumTakesPick
<1> QED BY <1>4

\* What a sum changes by when one of its values does.
LEMMA SumOfChanged ==
  ASSUME NEW S, IsFiniteSet(S), NEW x \in S,
         NEW f, \A y \in S : f[y] \in Int, NEW g, g[x] \in Int,
         \A y \in S \ {x} : g[y] = f[y]
  PROVE  SumFunctionOnSet(g, S) = SumFunctionOnSet(f, S) + g[x] - f[x]
<1>1. \A y \in S : g[y] \in Int
  OBVIOUS
<1>2. IsFiniteSet(S \ {x})
  BY FS_Subset
<1>3. SumFunctionOnSet(g, S \ {x}) = SumFunctionOnSet(f, S \ {x})
  BY <1>2, SumOfEquals
<1>4. /\ SumFunctionOnSet(f, S) = f[x] + SumFunctionOnSet(f, S \ {x})
      /\ SumFunctionOnSet(g, S) = g[x] + SumFunctionOnSet(g, S \ {x})
  BY <1>1, SumTakesAny
<1>5. SumFunctionOnSet(f, S \ {x}) \in Int
  BY <1>2, SumOfInts
<1> QED BY <1>3, <1>4, <1>5

-----------------------------------------------------------------------------
(* BotLedger: the high water mark is the peak of realized equity, so the     *)
(* drawdown check stands for a fall from that peak.                          *)

\* The mark record_fill keeps is the highest equity there has been.
MarkIsPeak == high_water_mark = peak

\* A new ledger starts with both at its capital.
LEMMA PeakInit == Init => MarkIsPeak
  BY DEF Init, MarkIsPeak

\* Every step keeps them equal: a fill that is booked raises both alike, and a
\* refused one leaves both.
LEMMA PeakNext == MarkIsPeak /\ [Next]_vars => MarkIsPeak'
<1> SUFFICES ASSUME MarkIsPeak, [Next]_vars PROVE MarkIsPeak'
  OBVIOUS
<1>1. ASSUME NEW i \in Intents, Submit(i) PROVE MarkIsPeak'
  BY <1>1 DEF Submit, ledgerVars, histVars, MarkIsPeak
<1>2. CASE NoFill
  BY <1>2 DEF NoFill, ledgerVars, histVars, MarkIsPeak
<1>3. ASSUME NEW qty \in Quantities, NEW price \in Prices, NEW fee \in Fees,
             Fill(qty, price, fee)
      PROVE  MarkIsPeak'
  <2>1. UpdateMark => MarkIsPeak'
    BY DEF UpdateMark, RaisedMark, MarkIsPeak
  <2>2. RefuseSell(intent.symbol, qty) => MarkIsPeak'
    BY DEF RefuseSell, MarkIsPeak
  <2>3. UpdateMark \/ RefuseSell(intent.symbol, qty)
    BY <1>3 DEF Fill
  <2> QED BY <2>1, <2>2, <2>3
<1>4. CASE UNCHANGED vars
  BY <1>4 DEF vars, ledgerVars, histVars, MarkIsPeak
<1> QED BY <1>1, <1>2, <1>3, <1>4 DEF Next

\* Only Submit puts an intent at the broker, and it sends no buy past the
\* drawdown check.
LEMMA SubmitStep ==
  ASSUME MarkIsPeak, [Next]_vars, intent = NoIntent, intent' # NoIntent,
         intent'.side = "buy"
  PROVE  ~Above(peak - Equity, MaxDrawdownPct, peak)
<1>1. ASSUME NEW i \in Intents, Submit(i)
      PROVE  ~Above(peak - Equity, MaxDrawdownPct, peak)
  <2>1. intent' = i /\ Approved(i)
    BY <1>1 DEF Submit
  <2>2. i.side # "sell"
    BY <2>1
  <2>3. ~DrawdownExceeded
    BY <2>1, <2>2 DEF Approved
  <2> QED BY <2>3 DEF DrawdownExceeded, MarkIsPeak
<1>2. ~NoFill
  BY DEF NoFill
<1>3. ASSUME NEW qty \in Quantities, NEW price \in Prices, NEW fee \in Fees
      PROVE  ~Fill(qty, price, fee)
  BY DEF Fill
<1>4. ~UNCHANGED vars
  BY DEF vars
<1> QED BY <1>1, <1>2, <1>3, <1>4 DEF Next

\* RiskManager.evaluate's drawdown limit: no buy is sent while realized equity
\* is further below its peak than the limit allows.
THEOREM DrawdownLimit == Spec => NoBuyAfterFall
<1>1. Spec => []MarkIsPeak
  BY PeakInit, PeakNext, PTL DEF Spec
<1>2. MarkIsPeak /\ [Next]_vars =>
        [intent = NoIntent /\ intent' # NoIntent /\ intent'.side = "buy" =>
           ~Above(peak - Equity, MaxDrawdownPct, peak)]_vars
  BY SubmitStep
<1> QED BY <1>1, <1>2, PTL DEF Spec, NoBuyAfterFall

-----------------------------------------------------------------------------
(* Double entry.                                                            *)

LEMMA LedgerSizes ==
  /\ IsFiniteSet(Symbols)
  /\ Quotes \subseteq Nat /\ Prices \subseteq Nat /\ Fees \subseteq Nat
  /\ Quantities \subseteq Nat \ {0} /\ StartingCapital \in Nat \ {0}
  /\ MaxPositionPct \in Nat /\ MaxTotalExposurePct \in Nat /\ MaxDrawdownPct \in Nat
  /\ NoIntent \notin Intents
BY LedgerAssumption DEF LedgerAssumption, Intents

LEMMA ValuedIsInt ==
  ASSUME NEW h \in [Symbols -> Nat], NEW p \in [Symbols -> Nat]
  PROVE  Valued(h, p) \in Int
<1> DEFINE f == [s \in Symbols |-> h[s] * p[s]]
<1>1. DOMAIN f = Symbols /\ \A s \in Symbols : f[s] \in Int
  OBVIOUS
<1> HIDE DEF f
<1>2. SumFunctionOnSet(f, DOMAIN f) \in Int
  BY <1>1, SumOfInts, LedgerSizes
<1> QED BY <1>2 DEF Valued, SumFunction, f

\* What the positions are worth changes by what one of them does.
LEMMA ValuedChanges ==
  ASSUME NEW h \in [Symbols -> Nat], NEW p \in [Symbols -> Nat],
         NEW i \in [Symbols -> Nat], NEW q \in [Symbols -> Nat], NEW s \in Symbols,
         \A x \in Symbols \ {s} : i[x] = h[x] /\ q[x] = p[x]
  PROVE  Valued(i, q) = Valued(h, p) + i[s] * q[s] - h[s] * p[s]
<1> DEFINE f == [x \in Symbols |-> h[x] * p[x]]
           g == [x \in Symbols |-> i[x] * q[x]]
<1>1. /\ DOMAIN f = Symbols /\ DOMAIN g = Symbols
      /\ \A x \in Symbols : f[x] \in Int
      /\ \A x \in Symbols : g[x] \in Int
      /\ \A x \in Symbols \ {s} : g[x] = f[x]
      /\ f[s] = h[s] * p[s] /\ g[s] = i[s] * q[s]
  OBVIOUS
<1> HIDE DEF f, g
<1>2. SumFunctionOnSet(g, Symbols) = SumFunctionOnSet(f, Symbols) + g[s] - f[s]
  BY <1>1, SumOfChanged, LedgerSizes
<1>3. Valued(i, q) = SumFunctionOnSet(g, Symbols) /\ Valued(h, p) = SumFunctionOnSet(f, Symbols)
  BY <1>1 DEF Valued, SumFunction, f, g
<1> QED BY <1>1, <1>2, <1>3

\* Rounding is off by at most half of a unit.
LEMMA QuotientIsClose ==
  ASSUME NEW a \in Nat, NEW b \in Nat \ {0}
  PROVE  /\ Quotient(a, b) \in Nat
         /\ 2 * (b * Quotient(a, b) - a) <= b
         /\ -(2 * (b * Quotient(a, b) - a)) <= b
<1> DEFINE q == a \div b
           r == a % b
<1>1. q \in Nat /\ r \in 0..(b - 1) /\ a - b * q = r
  OBVIOUS
<1>2. \/ Quotient(a, b) = q /\ 2 * r <= b
      \/ Quotient(a, b) = q + 1 /\ 2 * r >= b
  <2>1. Quotient(a, b) = IF 2 * r < b \/ (2 * r = b /\ q % 2 = 0) THEN q ELSE q + 1
    BY DEF Quotient
  <2> HIDE DEF q, r
  <2> QED BY <1>1, <2>1
<1> HIDE DEF q, r
<1>3. b * (q + 1) = b * q + b /\ b * q \in Nat
  BY <1>1
<1> QED BY <1>1, <1>2, <1>3

LEMMA MarkTypes ==
  ASSUME TypeOK, UpdateMark, realized_pnl' \in Int
  PROVE  high_water_mark' \in Nat /\ peak' \in Nat
<1> DEFINE e == StartingCapital + realized_pnl'
<1>1. e \in Int /\ high_water_mark \in Nat /\ peak \in Nat
  BY LedgerSizes DEF TypeOK
<1>2. /\ high_water_mark' = IF e > high_water_mark THEN e ELSE high_water_mark
      /\ peak' = IF e > peak THEN e ELSE peak
  BY DEF UpdateMark, RaisedMark
<1> HIDE DEF e
<1> QED BY <1>1, <1>2

LEMMA BuyTypes ==
  ASSUME TypeOK, NEW s \in Symbols, NEW qty \in Quantities, NEW price \in Prices,
         Buy(s, qty, price)
  PROVE  /\ held' \in [Symbols -> Nat] /\ basis' \in [Symbols -> Nat]
         /\ cash' \in Int /\ slack' \in Nat /\ realized_pnl' \in Int /\ refused' = refused
<1>1. qty \in Nat \ {0} /\ price \in Nat /\ held[s] \in Nat /\ basis[s] \in Nat
  BY LedgerSizes DEF TypeOK
<1>2. Averaged(s, qty, price) \in Nat
  <2>1. basis[s] * held[s] + price * qty \in Nat /\ held[s] + qty \in Nat \ {0}
    BY <1>1
  <2> QED BY <2>1, QuotientIsClose DEF Averaged
<1>3. held' \in [Symbols -> Nat] /\ basis' \in [Symbols -> Nat]
  BY <1>1, <1>2 DEF Buy, TypeOK
<1>4. cash' \in Int /\ slack' \in Nat
  <2>1. price * qty \in Int
    BY <1>1
  <2> QED BY <1>1, <2>1 DEF Buy, TypeOK
<1> QED BY <1>3, <1>4 DEF Buy, TypeOK

LEMMA SellTypes ==
  ASSUME TypeOK, NEW s \in Symbols, NEW qty \in Quantities, NEW price \in Prices,
         NEW fee \in Fees, Sell(s, qty, price, fee)
  PROVE  /\ held' \in [Symbols -> Nat] /\ basis' \in [Symbols -> Nat]
         /\ cash' \in Int /\ slack' \in Nat /\ realized_pnl' \in Int /\ refused' = refused
<1>1. qty \in Nat \ {0} /\ price \in Nat /\ fee \in Nat /\ held[s] \in Nat /\ basis[s] \in Nat
  BY LedgerSizes DEF TypeOK
<1>2. price * qty \in Int /\ basis[s] * qty \in Int
  BY <1>1
<1>3. held' \in [Symbols -> Nat] /\ basis' \in [Symbols -> Nat]
  BY <1>1 DEF Sell, TypeOK
<1>4. cash' \in Int /\ realized_pnl' \in Int
  BY <1>1, <1>2 DEF Sell, TypeOK
<1> QED BY <1>3, <1>4 DEF Sell, TypeOK

\* What a fill means for the books: its intent, the positions before and after.
LEMMA FillIsBooked ==
  ASSUME TypeOK, NEW qty \in Quantities, NEW price \in Prices, NEW fee \in Fees,
         Fill(qty, price, fee)
  PROVE  /\ intent \in Intents /\ intent.symbol \in Symbols /\ qty <= intent.qty
         /\ intent' = NoIntent /\ fills' = fills + 1
         /\ \/ /\ intent.side = "buy"
               /\ Buy(intent.symbol, qty, price) /\ UpdateMark
               /\ order_history' = [order_history EXCEPT ![intent.symbol] = @ + qty]
            \/ /\ intent.side = "sell"
               /\ \/ Sell(intent.symbol, qty, price, fee) /\ UpdateMark
                  \/ RefuseSell(intent.symbol, qty)
               /\ order_history' = [order_history EXCEPT ![intent.symbol] = @ - qty]
<1>1. intent \in Intents
  BY DEF Fill, TypeOK
<1>2. intent.symbol \in Symbols
  BY <1>1 DEF Intents
<1> QED BY <1>1, <1>2 DEF Fill

LEMMA LedgerTypesKeep ==
  ASSUME TypeOK, [Next]_vars
  PROVE  TypeOK'
<1>1. ASSUME NEW i \in Intents, Submit(i) PROVE TypeOK'
  BY <1>1 DEF Submit, TypeOK, ledgerVars, histVars
<1>2. CASE NoFill
  BY <1>2 DEF NoFill, TypeOK, ledgerVars, histVars
<1>3. ASSUME NEW qty \in Quantities, NEW price \in Prices, NEW fee \in Fees,
             Fill(qty, price, fee)
      PROVE  TypeOK'
  <2> DEFINE s == intent.symbol
  <2>1. /\ s \in Symbols /\ intent' = NoIntent /\ fills' = fills + 1
        /\ \/ Buy(s, qty, price) /\ UpdateMark
           \/ Sell(s, qty, price, fee) /\ UpdateMark
           \/ RefuseSell(s, qty)
        /\ \/ order_history' = [order_history EXCEPT ![s] = @ + qty]
           \/ order_history' = [order_history EXCEPT ![s] = @ - qty]
    BY <1>3, FillIsBooked
  <2> HIDE DEF s
  <2>2. qty \in Nat /\ fills' \in Nat /\ order_history' \in [Symbols -> Int]
    BY <2>1, LedgerSizes DEF TypeOK
  <2>3. CASE Buy(s, qty, price) /\ UpdateMark
    <3>1. /\ held' \in [Symbols -> Nat] /\ basis' \in [Symbols -> Nat]
          /\ cash' \in Int /\ slack' \in Nat /\ realized_pnl' \in Int /\ refused' = refused
      BY <2>1, <2>3, BuyTypes
    <3> QED BY <2>1, <2>2, <2>3, <3>1, MarkTypes DEF TypeOK
  <2>4. CASE Sell(s, qty, price, fee) /\ UpdateMark
    <3>1. /\ held' \in [Symbols -> Nat] /\ basis' \in [Symbols -> Nat]
          /\ cash' \in Int /\ slack' \in Nat /\ realized_pnl' \in Int /\ refused' = refused
      BY <2>1, <2>4, SellTypes
    <3> QED BY <2>1, <2>2, <2>4, <3>1, MarkTypes DEF TypeOK
  <2>5. CASE RefuseSell(s, qty)
    BY <2>1, <2>2, <2>5 DEF RefuseSell, TypeOK
  <2> QED BY <2>1, <2>3, <2>4, <2>5
<1>4. CASE UNCHANGED vars
  BY <1>4 DEF vars, ledgerVars, histVars, TypeOK
<1> QED BY <1>1, <1>2, <1>3, <1>4 DEF Next

\* Ledger's and Position's fields keep the types they are declared with; no
\* position is short and none has a negative cost (record_fill).
THEOREM LedgerTypes == Spec => []TypeOK
<1>1. Init => TypeOK
  BY LedgerSizes DEF Init, TypeOK
<1> QED BY <1>1, LedgerTypesKeep, PTL DEF Spec

\* Twice what the books are out by.
Gap == 2 * (cash + Valued(held, basis) - Equity)

\* A buy moves money from the cash to the positions, at most a rounding apart.
LEMMA BuyBalances ==
  ASSUME TypeOK, BooksBalance, NEW s \in Symbols, NEW qty \in Quantities,
         NEW price \in Prices, Buy(s, qty, price)
  PROVE  Gap' <= slack' /\ -Gap' <= slack'
<1>1. /\ held' \in [Symbols -> Nat] /\ basis' \in [Symbols -> Nat] /\ cash' \in Int
      /\ realized_pnl' = realized_pnl
  BY BuyTypes DEF Buy
<1>2. /\ held \in [Symbols -> Nat] /\ basis \in [Symbols -> Nat]
      /\ \A x \in Symbols \ {s} : held'[x] = held[x] /\ basis'[x] = basis[x]
      /\ held'[s] = held[s] + qty
      /\ basis'[s] = IF held[s] = 0 THEN price ELSE Averaged(s, qty, price)
      /\ cash' = cash - price * qty
      /\ slack' = IF held[s] = 0 THEN slack ELSE slack + held[s] + qty
  BY DEF Buy, TypeOK
<1>3. Valued(held', basis') = Valued(held, basis) + held'[s] * basis'[s] - held[s] * basis[s]
  <2>1. /\ held \in [Symbols -> Nat] /\ basis \in [Symbols -> Nat]
        /\ held' \in [Symbols -> Nat] /\ basis' \in [Symbols -> Nat]
        /\ \A x \in Symbols \ {s} : held'[x] = held[x] /\ basis'[x] = basis[x]
    BY <1>1, <1>2
  <2> QED BY <2>1, ValuedChanges
<1>4. /\ qty \in Nat \ {0} /\ price \in Nat /\ held[s] \in Nat /\ basis[s] \in Nat
      /\ cash \in Int /\ slack \in Nat /\ realized_pnl \in Int /\ StartingCapital \in Nat
  BY LedgerSizes DEF TypeOK
<1>5. PICK v \in Int : v = Valued(held, basis)
  BY <1>2, ValuedIsInt
<1>6. /\ 2 * (cash + v - (StartingCapital + realized_pnl)) <= slack
      /\ -(2 * (cash + v - (StartingCapital + realized_pnl))) <= slack
  BY <1>5 DEF BooksBalance, Equity
<1>7. Gap' = 2 * (cash' + Valued(held', basis') - (StartingCapital + realized_pnl))
  BY <1>1 DEF Gap, Equity, Valued
<1>8. CASE held[s] = 0
  <2>1. held'[s] * basis'[s] = price * qty /\ held[s] * basis[s] = 0 /\ price * qty \in Int
    BY <1>2, <1>4, <1>8
  <2>2. Gap' = 2 * (cash + v - (StartingCapital + realized_pnl))
    BY <1>2, <1>3, <1>4, <1>5, <1>7, <2>1
  <2> QED BY <1>2, <1>6, <1>8, <2>2
<1>9. CASE held[s] # 0
  <2> DEFINE a == basis[s] * held[s] + price * qty
             n == held[s] + qty
             c == Quotient(a, n)
  <2>1. a \in Nat /\ n \in Nat \ {0}
    BY <1>4
  <2>2. c \in Nat /\ 2 * (n * c - a) <= n /\ -(2 * (n * c - a)) <= n
    <3> HIDE DEF a, n
    <3> QED BY <2>1, QuotientIsClose
  <2>3. held'[s] = n /\ basis'[s] = c
    BY <1>2, <1>9 DEF Averaged
  <2>4. PICK w \in Int : w = n * c
    <3> HIDE DEF a, n, c
    <3> QED BY <2>1, <2>2
  <2>5. held[s] * basis[s] = basis[s] * held[s] /\ basis[s] * held[s] \in Int /\ price * qty \in Int
    BY <1>4
  <2> HIDE DEF c
  <2>6. Gap' = 2 * (cash + v - (StartingCapital + realized_pnl)) + 2 * (w - a)
    BY <1>2, <1>3, <1>4, <1>5, <1>7, <2>3, <2>4, <2>5
  <2>7. slack' = slack + n
    BY <1>2, <1>4, <1>9
  <2> HIDE DEF a, n
  <2> QED BY <1>4, <1>6, <2>1, <2>2, <2>4, <2>6, <2>7
<1> QED BY <1>8, <1>9

\* A sale brings its price in, less the fee, and takes its cost out.
LEMMA SellBalances ==
  ASSUME TypeOK, BooksBalance, NEW s \in Symbols, NEW qty \in Quantities,
         NEW price \in Prices, NEW fee \in Fees, Sell(s, qty, price, fee)
  PROVE  Gap' <= slack' /\ -Gap' <= slack'
<1>1. /\ held' \in [Symbols -> Nat] /\ basis' \in [Symbols -> Nat] /\ slack' = slack
  BY SellTypes DEF Sell
<1>2. /\ held \in [Symbols -> Nat] /\ basis \in [Symbols -> Nat]
      /\ \A x \in Symbols \ {s} : held'[x] = held[x] /\ basis'[x] = basis[x]
      /\ held'[s] = held[s] - qty /\ qty <= held[s]
      /\ basis'[s] = IF held[s] = qty THEN 0 ELSE basis[s]
      /\ cash' = cash + price * qty - fee
      /\ realized_pnl' = realized_pnl + price * qty - fee - basis[s] * qty
  BY DEF Sell, TypeOK
<1>3. Valued(held', basis') = Valued(held, basis) + held'[s] * basis'[s] - held[s] * basis[s]
  <2>1. /\ held \in [Symbols -> Nat] /\ basis \in [Symbols -> Nat]
        /\ held' \in [Symbols -> Nat] /\ basis' \in [Symbols -> Nat]
        /\ \A x \in Symbols \ {s} : held'[x] = held[x] /\ basis'[x] = basis[x]
    BY <1>1, <1>2
  <2> QED BY <2>1, ValuedChanges
<1>4. /\ qty \in Nat \ {0} /\ price \in Nat /\ fee \in Nat /\ held[s] \in Nat /\ basis[s] \in Nat
      /\ cash \in Int /\ slack \in Nat /\ realized_pnl \in Int /\ StartingCapital \in Nat
  BY LedgerSizes DEF TypeOK
<1>5. PICK v \in Int : v = Valued(held, basis)
  BY <1>2, ValuedIsInt
<1>6. held'[s] * basis'[s] - held[s] * basis[s] = -(basis[s] * qty)
  <2>1. CASE held[s] = qty
    BY <1>2, <1>4, <2>1
  <2>2. CASE held[s] # qty
    BY <1>2, <1>4, <2>2
  <2> QED BY <2>1, <2>2
<1>7. price * qty \in Int /\ basis[s] * qty \in Int
      /\ held'[s] * basis'[s] \in Int /\ held[s] * basis[s] \in Int
  BY <1>1, <1>4
<1>8. Gap' = 2 * (cash' + Valued(held', basis') - (StartingCapital + realized_pnl'))
  BY DEF Gap, Equity, Valued
<1>9. Gap' = 2 * (cash + v - (StartingCapital + realized_pnl))
  BY <1>2, <1>3, <1>4, <1>5, <1>6, <1>7, <1>8
<1>10. /\ 2 * (cash + v - (StartingCapital + realized_pnl)) <= slack
       /\ -(2 * (cash + v - (StartingCapital + realized_pnl))) <= slack
  BY <1>5 DEF BooksBalance, Equity
<1> QED BY <1>1, <1>9, <1>10

LEMMA BooksKeep ==
  ASSUME TypeOK, BooksBalance, [Next]_vars
  PROVE  BooksBalance'
<1>1. /\ order_history \in [Symbols -> Int] /\ refused \in [Symbols -> Nat]
      /\ held \in [Symbols -> Nat] /\ Gap <= slack /\ -Gap <= slack
      /\ \A s \in Symbols : held[s] = order_history[s] + refused[s]
  BY DEF TypeOK, BooksBalance, Gap
<1>2. ASSUME UNCHANGED <<ledgerVars, histVars>> PROVE BooksBalance'
  BY <1>2 DEF ledgerVars, histVars, BooksBalance, Valued, Equity
<1>3. ASSUME NEW qty \in Quantities, NEW price \in Prices, NEW fee \in Fees,
             Fill(qty, price, fee)
      PROVE  BooksBalance'
  <2> DEFINE s == intent.symbol
  <2>1. /\ s \in Symbols
        /\ \/ /\ Buy(s, qty, price)
              /\ order_history' = [order_history EXCEPT ![s] = @ + qty]
           \/ /\ Sell(s, qty, price, fee) \/ RefuseSell(s, qty)
              /\ order_history' = [order_history EXCEPT ![s] = @ - qty]
    BY <1>3, FillIsBooked
  <2> HIDE DEF s
  <2>2. qty \in Nat
    BY LedgerSizes
  <2>3. CASE Buy(s, qty, price) /\ order_history' = [order_history EXCEPT ![s] = @ + qty]
    <3>1. Gap' <= slack' /\ -Gap' <= slack'
      BY <2>1, <2>3, BuyBalances
    <3>2. held' = [held EXCEPT ![s] = @ + qty] /\ refused' = refused
      BY <2>3 DEF Buy
    <3>3. \A x \in Symbols : held'[x] = order_history'[x] + refused'[x]
      BY <1>1, <2>1, <2>2, <2>3, <3>2
    <3> QED BY <3>1, <3>3 DEF BooksBalance, Gap
  <2>4. CASE Sell(s, qty, price, fee) /\ order_history' = [order_history EXCEPT ![s] = @ - qty]
    <3>1. Gap' <= slack' /\ -Gap' <= slack'
      BY <2>1, <2>4, SellBalances
    <3>2. held' = [held EXCEPT ![s] = @ - qty] /\ refused' = refused
      BY <2>4 DEF Sell
    <3>3. \A x \in Symbols : held'[x] = order_history'[x] + refused'[x]
      BY <1>1, <2>1, <2>2, <2>4, <3>2
    <3> QED BY <3>1, <3>3 DEF BooksBalance, Gap
  <2>5. CASE RefuseSell(s, qty) /\ order_history' = [order_history EXCEPT ![s] = @ - qty]
    <3>1. /\ UNCHANGED <<realized_pnl, held, basis, cash, slack>>
          /\ refused' = [refused EXCEPT ![s] = @ + qty]
      BY <2>5 DEF RefuseSell
    <3>2. Gap' = Gap /\ slack' = slack
      BY <3>1 DEF Gap, Equity, Valued
    <3>3. \A x \in Symbols : held'[x] = order_history'[x] + refused'[x]
      BY <1>1, <2>1, <2>2, <2>5, <3>1
    <3> QED BY <1>1, <3>2, <3>3 DEF BooksBalance, Gap
  <2> QED BY <2>1, <2>3, <2>4, <2>5
<1>4. CASE \E i \in Intents : Submit(i)
  BY <1>2, <1>4 DEF Submit
<1>5. CASE NoFill \/ UNCHANGED vars
  BY <1>2, <1>5 DEF NoFill, vars
<1> QED BY <1>3, <1>4, <1>5 DEF Next

\* Whatever is bought and sold, in parts, at any prices and fees, and however
\* the averages are rounded: cash and positions at cost are the capital and the
\* realized profit, and the positions what the history adds up to, but for the
\* sells record_fill puts there although it refuses them.
THEOREM BooksStayBalanced == Spec => []BooksBalance
<1>1. Init => BooksBalance
  <2> SUFFICES ASSUME Init PROVE BooksBalance
    OBVIOUS
  <2> DEFINE z == [s \in Symbols |-> 0]
  <2>1. Valued(z, z) = 0
    <3>1. \A s \in Symbols : z[s] * z[s] = 0
      OBVIOUS
    <3>2. [s \in Symbols |-> z[s] * z[s]] = z
      BY <3>1
    <3>3. SumFunctionOnSet(z, Symbols) = 0
      BY SumOfZeros, LedgerSizes
    <3> HIDE DEF z
    <3> QED BY <3>2, <3>3 DEF Valued, SumFunction, z
  <2>2. Gap = 0 /\ slack = 0
    BY <2>1, LedgerSizes DEF Init, Gap, Equity
  <2> QED BY <2>2 DEF Init, BooksBalance, Gap
<1> QED BY <1>1, BooksKeep, LedgerTypes, PTL DEF Spec

-----------------------------------------------------------------------------
(* The exposure limit.  Between the check and the fill nothing else is        *)
(* booked, so the order was checked against what it is added to.             *)

CheckedBuy ==
  intent # NoIntent /\ intent.side = "buy" => ~PositionExceeded(intent) /\ ~ExposureExceeded(intent)
                                             /\ ~DrawdownExceeded

MarkIsPositive == high_water_mark > 0

LEMMA CheckedBuyKeeps ==
  ASSUME TypeOK, CheckedBuy, MarkIsPositive, [Next]_vars
  PROVE  CheckedBuy' /\ MarkIsPositive'
<1>1. ASSUME NEW i \in Intents, Submit(i) PROVE CheckedBuy' /\ MarkIsPositive'
  <2>1. UNCHANGED ledgerVars /\ intent' = i /\ Approved(i)
    BY <1>1 DEF Submit
  <2> QED
    BY <2>1 DEF CheckedBuy, MarkIsPositive, Approved, ledgerVars, PositionExceeded,
                ExposureExceeded, DrawdownExceeded, Above, Valued, Equity
<1>2. CASE NoFill
  BY <1>2 DEF NoFill, CheckedBuy, MarkIsPositive, ledgerVars
<1>3. ASSUME NEW qty \in Quantities, NEW price \in Prices, NEW fee \in Fees,
             Fill(qty, price, fee)
      PROVE  CheckedBuy' /\ MarkIsPositive'
  <2>1. intent' = NoIntent
        /\ (UpdateMark \/ high_water_mark' = high_water_mark)
    BY <1>3 DEF Fill, RefuseSell
  <2>2. high_water_mark' >= high_water_mark /\ high_water_mark \in Nat /\ high_water_mark' \in Nat
    <3>1. TypeOK'
      BY LedgerTypesKeep
    <3>2. StartingCapital + realized_pnl' \in Int
      BY <3>1, LedgerSizes DEF TypeOK
    <3> QED BY <2>1, <3>1, <3>2 DEF TypeOK, UpdateMark, RaisedMark
  <2> QED BY <2>1, <2>2 DEF CheckedBuy, MarkIsPositive
<1>4. CASE UNCHANGED vars
  BY <1>4 DEF vars, ledgerVars, CheckedBuy, MarkIsPositive, PositionExceeded,
              ExposureExceeded, DrawdownExceeded, Above, Valued, Equity
<1> QED BY <1>1, <1>2, <1>3, <1>4 DEF Next

\* A buy that is at the broker was checked by a bot with equity left, as one of
\* the two limits has stopped it otherwise.
LEMMA BuyerIsSolvent ==
  ASSUME TypeOK, CheckedBuy, MarkIsPositive, intent # NoIntent, intent.side = "buy",
         MaxPositionPct < 100 \/ MaxDrawdownPct < 100
  PROVE  Equity > 0
<1> SUFFICES ASSUME ~(Equity > 0) PROVE FALSE
  OBVIOUS
<1>1. Equity \in Int /\ high_water_mark \in Nat \ {0}
  BY LedgerSizes DEF TypeOK, Equity, MarkIsPositive
<1>2. ~(100 > MaxPositionPct)
  BY DEF CheckedBuy, PositionExceeded
<1>3. MaxDrawdownPct \in Nat /\ MaxDrawdownPct < 100
  BY <1>2, LedgerSizes
<1>4. MaxDrawdownPct * high_water_mark < 100 * high_water_mark
  BY <1>1, <1>3
<1>5. MaxDrawdownPct * high_water_mark \in Nat
  BY <1>1, <1>3
<1>6. 100 * (high_water_mark - Equity) > MaxDrawdownPct * high_water_mark
  BY <1>1, <1>4, <1>5
<1> QED BY <1>6 DEF CheckedBuy, DrawdownExceeded, Above

\* The exposure limit (evaluate): at the quotes the check saw, the positions a
\* buy leaves, whatever part of it fills and at whatever price, are within the
\* limit.  One of the two limits below 100 percent must be: with both switched
\* off, evaluate lets a bot whose equity is gone buy without looking at its
\* exposure.
THEOREM ExposureLimit ==
  ASSUME MaxPositionPct < 100 \/ MaxDrawdownPct < 100
  PROVE  Spec => ExposureCapped
<1>1. Init => CheckedBuy /\ MarkIsPositive
  BY LedgerSizes DEF Init, CheckedBuy, MarkIsPositive
<1>2. ASSUME TypeOK, CheckedBuy, MarkIsPositive, Next,
             intent # NoIntent, held' # held, intent.side = "buy"
      PROVE  ~Above(Valued(held', intent.quotes), MaxTotalExposurePct,
                    StartingCapital + realized_pnl')
  <2>1. PICK qty \in Quantities, price \in Prices, fee \in Fees : Fill(qty, price, fee)
    BY <1>2 DEF Next, Submit, NoFill, ledgerVars
  <2> DEFINE s == intent.symbol
             p == intent.quotes
  <2>2. /\ intent \in Intents /\ s \in Symbols /\ qty <= intent.qty /\ Buy(s, qty, price)
        /\ p \in [Symbols -> Nat] /\ intent.qty \in Nat
    <3>1. /\ intent \in Intents /\ s \in Symbols /\ qty <= intent.qty
          /\ Buy(s, qty, price)
      BY <1>2, <2>1, FillIsBooked
    <3> QED BY <3>1, LedgerSizes DEF Intents
  <2> HIDE DEF s, p
  <2>3. /\ qty \in Nat /\ held \in [Symbols -> Nat] /\ held' = [held EXCEPT ![s] = @ + qty]
        /\ held' \in [Symbols -> Nat] /\ realized_pnl' = realized_pnl
        /\ p[s] \in Nat /\ held[s] \in Nat
    BY <1>2, <2>2, LedgerSizes DEF Buy, TypeOK
  <2>4. Valued(held', p) = Valued(held, p) + held'[s] * p[s] - held[s] * p[s]
    <3> DEFINE h == held'
    <3>1. /\ h \in [Symbols -> Nat] /\ held \in [Symbols -> Nat] /\ p \in [Symbols -> Nat]
          /\ s \in Symbols
          /\ \A x \in Symbols \ {s} : h[x] = held[x] /\ p[x] = p[x]
      BY <2>2, <2>3
    <3> HIDE DEF h
    <3>2. Valued(h, p) = Valued(held, p) + h[s] * p[s] - held[s] * p[s]
      BY <3>1, ValuedChanges
    <3> QED BY <3>2 DEF h
  <2>5. held'[s] * p[s] = held[s] * p[s] + qty * p[s]
    BY <2>2, <2>3
  <2>6. qty * p[s] <= intent.qty * p[s] /\ qty * p[s] \in Nat /\ intent.qty * p[s] \in Nat
        /\ held[s] * p[s] \in Nat
    BY <2>2, <2>3
  <2>7. PICK v \in Int : v = Valued(held, p)
    BY <2>2, <2>3, ValuedIsInt
  <2>8. Valued(held', p) = v + qty * p[s]
    BY <2>4, <2>5, <2>6, <2>7
  <2>9. Equity > 0 /\ ~ExposureExceeded(intent)
    BY <1>2, BuyerIsSolvent DEF CheckedBuy
  <2>10. ~(100 * (v + intent.qty * p[s]) > MaxTotalExposurePct * Equity)
    BY <2>7, <2>9 DEF ExposureExceeded, Above, s, p
  <2>11. StartingCapital + realized_pnl' = Equity /\ MaxTotalExposurePct * Equity \in Int
    <3>1. Equity \in Int
      BY <1>2, LedgerSizes DEF Equity, TypeOK
    <3> QED BY <2>3, <3>1, LedgerSizes DEF Equity
  <2>12. ~(100 * Valued(held', p) > MaxTotalExposurePct * Equity)
    BY <2>6, <2>8, <2>10, <2>11
  <2> QED BY <2>11, <2>12 DEF Above, p
<1>3. TypeOK /\ CheckedBuy /\ MarkIsPositive /\ [Next]_vars =>
        [intent # NoIntent /\ held' # held /\ intent.side = "buy" =>
           ~Above(Valued(held', intent.quotes), MaxTotalExposurePct,
                  StartingCapital + realized_pnl')]_vars
  BY <1>2
<1>4. TypeOK /\ CheckedBuy /\ MarkIsPositive /\ [Next]_vars => CheckedBuy' /\ MarkIsPositive'
  BY CheckedBuyKeeps
<1> QED BY <1>1, <1>3, <1>4, LedgerTypes, PTL DEF Spec, ExposureCapped

-----------------------------------------------------------------------------
(* OrgAudit.  While nothing moves, an audit has added up the snapshots of     *)
(* exactly the active strategies it does not have left.                      *)

LEMMA AuditSizes == MaxQty \in Nat /\ IsFiniteSet(Bots)
BY AuditAssumption DEF AuditAssumption

AuditRecords ==
  [pc : {"idle", "ledgers", "halt", "ask"}, left : SUBSET Bots, sum : Nat,
   verdict : {"none", "pass", "fail"}, spared : BOOLEAN]

AuditKnows(v) ==
  /\ audit[v].pc = "idle" => audit[v] = NoAudit
  /\ audit[v].pc = "ledgers" =>
       /\ audit[v].verdict = "none"
       /\ v \in moved \/ /\ audit[v].left \subseteq active
                         /\ audit[v].sum = Total(saved, active \ audit[v].left)
  /\ audit[v].verdict = "none" \/ v \in moved \/ (audit[v].verdict = "fail" <=> Drift)

AuditInv == AuditTypeOK /\ \A v \in Audits : AuditKnows(v)

LEMMA AuditStarts == AuditInit => AuditInv
<1> SUFFICES ASSUME AuditInit PROVE AuditInv
  OBVIOUS
<1>1. NoAudit \in AuditRecords /\ NoAudit.pc = "idle" /\ NoAudit.verdict = "none"
  BY DEF NoAudit, AuditRecords
<1>2. audit = [v \in Audits |-> NoAudit]
  BY DEF AuditInit
<1>3. AuditTypeOK
  <2>1. audit \in [Audits -> AuditRecords]
    BY <1>1, <1>2
  <2>2. 0 \in 0..MaxQty /\ 0 \in 0..1
    BY AuditSizes
  <2> QED BY <2>1, <2>2 DEF AuditInit, AuditTypeOK, AuditRecords
<1>4. \A v \in Audits : AuditKnows(v)
  BY <1>1, <1>2 DEF AuditKnows
<1> QED BY <1>3, <1>4 DEF AuditInv

\* Bots and users move: every audit under way is known to be overtaken.
LEMMA MovesKeep ==
  ASSUME AuditInv,
         TradeByHand \/ \E b \in Bots : FillOrder(b) \/ Save(b) \/ SetStatus(b)
  PROVE  AuditInv'
<1>1. Moves /\ moved' = Audits /\ audit' = audit /\ orgHalted' = orgHalted
  BY DEF TradeByHand, FillOrder, Save, SetStatus, Moves
<1>2. \A v \in Audits : AuditKnows(v)'
  BY <1>1 DEF AuditInv, AuditKnows
<1>3. ASSUME NEW b \in Bots, FillOrder(b) \/ Save(b) \/ SetStatus(b) PROVE AuditTypeOK'
  <2>1. /\ shares \in [Bots -> 0..MaxQty] /\ saved \in [Bots -> 0..MaxQty] /\ active \subseteq Bots
        /\ manual \in 0..1
    BY DEF AuditInv, AuditTypeOK
  <2>2. /\ shares' \in [Bots -> 0..MaxQty] /\ saved' \in [Bots -> 0..MaxQty] /\ active' \subseteq Bots
        /\ manual' \in 0..1
    <3>1. CASE FillOrder(b)
      BY <2>1, <3>1 DEF FillOrder
    <3>2. CASE Save(b)
      BY <2>1, <3>2 DEF Save
    <3>3. CASE SetStatus(b)
      BY <2>1, <3>3 DEF SetStatus
    <3> QED BY <1>3, <3>1, <3>2, <3>3
  <2> QED BY <1>1, <2>2 DEF AuditInv, AuditTypeOK
<1>4. CASE TradeByHand
  <2>1. manual \in 0..1 /\ manual' = 1 - manual /\ UNCHANGED <<shares, saved, active>>
    BY <1>4 DEF AuditInv, AuditTypeOK, TradeByHand
  <2>2. manual' \in 0..1
    BY <2>1
  <2>3. /\ shares' \in [Bots -> 0..MaxQty] /\ saved' \in [Bots -> 0..MaxQty]
        /\ active' \subseteq Bots
    BY <2>1 DEF AuditInv, AuditTypeOK
  <2> QED BY <1>1, <1>2, <2>2, <2>3 DEF AuditInv, AuditTypeOK
<1> QED BY <1>2, <1>3, <1>4 DEF AuditInv

\* Only the audit at work changes, in a world that stands still.
LEMMA OneAuditMoves ==
  ASSUME AuditInv, NEW v \in Audits, NEW a \in AuditRecords,
         audit' = [audit EXCEPT ![v] = a], UNCHANGED worldVars,
         orgHalted' \in BOOLEAN, moved' = moved \/ moved' = moved \ {v}, AuditKnows(v)'
  PROVE  AuditInv'
<1>1. audit \in [Audits -> AuditRecords]
  BY DEF AuditInv, AuditTypeOK, AuditRecords
<1>2. AuditTypeOK'
  <2>1. audit' \in [Audits -> AuditRecords]
    BY <1>1
  <2> QED BY <2>1 DEF AuditInv, AuditTypeOK, AuditRecords, worldVars
<1>3. Drift' = Drift
  BY DEF Drift, Positions, worldVars
<1>4. ASSUME NEW u \in Audits, u # v PROVE AuditKnows(u)'
  <2>1. audit'[u] = audit[u] /\ (u \in moved' <=> u \in moved)
        /\ active' = active /\ saved' = saved /\ AuditKnows(u)
    BY <1>1, <1>4 DEF AuditInv, worldVars
  <2> QED BY <1>3, <2>1 DEF AuditKnows
<1> QED BY <1>2, <1>4 DEF AuditInv

LEMMA InvokeKeeps ==
  ASSUME AuditInv, NEW v \in Audits, NEW s \in BOOLEAN, Invoke(v, s)
  PROVE  AuditInv'
<1> DEFINE a == [audit[v] EXCEPT !.pc = "ledgers", !.left = active, !.spared = s]
<1>1. audit[v] = NoAudit /\ audit \in [Audits -> AuditRecords]
  BY DEF AuditInv, AuditKnows, Invoke, At, AuditTypeOK, AuditRecords
<1>2. /\ a \in AuditRecords /\ a.pc = "ledgers" /\ a.verdict = "none"
      /\ a.left = active /\ a.sum = 0
  <2>1. active \in SUBSET Bots /\ audit[v] \in AuditRecords
    BY <1>1 DEF AuditInv, AuditTypeOK
  <2>2. a \in AuditRecords /\ a.verdict = audit[v].verdict /\ a.sum = audit[v].sum
    BY <2>1 DEF AuditRecords
  <2>3. a.pc = "ledgers" /\ a.left = active
    BY <2>1 DEF AuditRecords
  <2> QED BY <1>1, <2>2, <2>3 DEF NoAudit
<1>3. /\ audit' = [audit EXCEPT ![v] = a] /\ UNCHANGED <<worldVars, orgHalted>>
      /\ moved' = moved \ {v}
  BY DEF Invoke
<1> HIDE DEF a
<1>4. Total(saved, {}) = 0
  BY SumTakesPick, FS_EmptySet DEF Total
<1>5. AuditKnows(v)'
  <2>1. audit'[v] = a /\ active' = active /\ saved' = saved
    BY <1>1, <1>3 DEF worldVars
  <2>2. active \ active = {}
    OBVIOUS
  <2> QED BY <1>2, <1>4, <2>1, <2>2 DEF AuditKnows
<1> QED BY <1>2, <1>3, <1>5, OneAuditMoves DEF AuditInv, AuditTypeOK

\* One more snapshot is added up.
LEMMA ReadLedgerKeeps ==
  ASSUME AuditInv, NEW v \in Audits, ReadLedger(v)
  PROVE  AuditInv'
<1>1. PICK b \in audit[v].left :
        audit' = [audit EXCEPT ![v] =
          [@ EXCEPT !.left = audit[v].left \ {b}, !.sum = audit[v].sum + saved[b]]]
  BY DEF ReadLedger
<1> DEFINE a == [audit[v] EXCEPT !.left = audit[v].left \ {b}, !.sum = audit[v].sum + saved[b]]
<1>2. /\ audit \in [Audits -> AuditRecords] /\ saved \in [Bots -> 0..MaxQty] /\ active \subseteq Bots
      /\ audit[v].pc = "ledgers" /\ AuditKnows(v)
  BY DEF AuditInv, AuditTypeOK, AuditRecords, ReadLedger, At
<1>3. audit[v] \in AuditRecords /\ audit[v].left \subseteq Bots /\ audit[v].sum \in Nat
      /\ b \in Bots /\ saved[b] \in Nat
  BY <1>2, AuditSizes DEF AuditRecords
<1>4. /\ a \in AuditRecords /\ a.pc = "ledgers" /\ a.verdict = audit[v].verdict
      /\ a.left = audit[v].left \ {b} /\ a.sum = audit[v].sum + saved[b]
  <2>1. audit[v].sum + saved[b] \in Nat /\ audit[v].left \ {b} \in SUBSET Bots
    BY <1>3
  <2> QED BY <1>2, <1>3, <2>1 DEF AuditRecords
<1>5. audit' = [audit EXCEPT ![v] = a] /\ UNCHANGED <<worldVars, orgHalted, moved>>
  BY <1>1 DEF ReadLedger
<1> HIDE DEF a
<1>6. ASSUME v \notin moved
      PROVE  a.left \subseteq active /\ a.sum = Total(saved, active \ a.left)
  <2> DEFINE R == active \ a.left
  <2>1. audit[v].left \subseteq active /\ audit[v].sum = Total(saved, active \ audit[v].left)
    BY <1>2, <1>6 DEF AuditKnows
  <2>2. b \in R /\ R \ {b} = active \ audit[v].left /\ R \subseteq Bots
    BY <1>2, <1>4, <2>1
  <2>3. IsFiniteSet(R) /\ \A x \in R : saved[x] \in Int
    BY <1>2, <2>2, FS_Subset, AuditSizes
  <2> HIDE DEF R
  <2>4. Total(saved, R) = saved[b] + Total(saved, R \ {b})
    BY <2>2, <2>3, SumTakesAny DEF Total
  <2>5. Total(saved, R \ {b}) = audit[v].sum
    BY <2>1, <2>2
  <2>6. a.sum = Total(saved, R)
    BY <1>3, <1>4, <2>4, <2>5
  <2> QED BY <1>4, <2>1, <2>6 DEF R
<1>7. AuditKnows(v)'
  <2>1. audit'[v] = a /\ active' = active /\ saved' = saved /\ moved' = moved
    BY <1>2, <1>5 DEF worldVars
  <2>2. audit[v].verdict = "none"
    BY <1>2 DEF AuditKnows
  <2> QED BY <1>4, <1>6, <2>1, <2>2 DEF AuditKnows
<1> QED BY <1>4, <1>5, <1>7, OneAuditMoves DEF AuditInv, AuditTypeOK

\* All of them are, and the broker is asked.
LEMMA ReadBrokerKeeps ==
  ASSUME AuditInv, NEW v \in Audits, ReadBroker(v)
  PROVE  AuditInv'
<1> DEFINE next == IF DecideHalt(Verdict(v)) THEN "halt" ELSE "ask"
           a == [audit[v] EXCEPT !.verdict = Verdict(v), !.sum = 0, !.pc = next]
<1>1. /\ audit \in [Audits -> AuditRecords] /\ AuditKnows(v)
      /\ audit[v].pc = "ledgers" /\ audit[v].left = {}
      /\ Verdict(v) \in {"pass", "fail"} /\ next \in {"halt", "ask"}
  BY DEF AuditInv, AuditTypeOK, AuditRecords, ReadBroker, At, Verdict
<1>2. audit' = [audit EXCEPT ![v] = a] /\ UNCHANGED <<worldVars, orgHalted, moved>>
  BY DEF ReadBroker
<1> HIDE DEF next
<1>3. a \in AuditRecords /\ a.pc \in {"halt", "ask"} /\ a.verdict = Verdict(v)
  BY <1>1 DEF AuditRecords
<1> HIDE DEF a
<1>4. v \notin moved => (Verdict(v) = "fail" <=> Drift)
  <2> SUFFICES ASSUME v \notin moved PROVE Verdict(v) = "fail" <=> Drift
    OBVIOUS
  <2>1. audit[v].sum = Total(saved, active)
    <3>1. active \ audit[v].left = active
      BY <1>1
    <3> QED BY <1>1, <3>1 DEF AuditKnows
  <2> QED BY <2>1 DEF Verdict, Drift
<1>5. AuditKnows(v)'
  <2>1. audit'[v] = a /\ moved' = moved /\ Drift' = Drift
    BY <1>1, <1>2 DEF worldVars, Drift, Positions
  <2> QED BY <1>1, <1>3, <1>4, <2>1 DEF AuditKnows
<1> QED BY <1>2, <1>3, <1>5, OneAuditMoves DEF AuditInv, AuditTypeOK

\* The halt, the narrative and an early end decide nothing more.
LEMMA AuditEndKeeps ==
  ASSUME AuditInv, NEW v \in Audits,
         SetHalt(v) \/ HaltFails(v) \/ Narrate(v) \/ CutOff(v)
  PROVE  AuditInv'
<1>1. audit \in [Audits -> AuditRecords] /\ AuditKnows(v) /\ orgHalted \in BOOLEAN
  BY DEF AuditInv, AuditTypeOK, AuditRecords
<1>2. UNCHANGED <<worldVars, moved>> /\ orgHalted' \in BOOLEAN
  BY <1>1 DEF SetHalt, HaltFails, Narrate, CutOff
<1>3. Drift' = Drift
  BY <1>2 DEF worldVars, Drift, Positions
<1>4. CASE SetHalt(v) \/ HaltFails(v)
  <2> DEFINE a == [audit[v] EXCEPT !.pc = "ask"]
  <2>1. audit' = [audit EXCEPT ![v] = a]
    BY <1>4 DEF SetHalt, HaltFails, Go
  <2>2. a \in AuditRecords /\ a.pc = "ask" /\ a.verdict = audit[v].verdict
    BY <1>1 DEF AuditRecords
  <2> HIDE DEF a
  <2>3. AuditKnows(v)'
    BY <1>1, <1>2, <1>3, <2>1, <2>2 DEF AuditKnows
  <2> QED BY <1>2, <2>1, <2>2, <2>3, OneAuditMoves
<1>5. CASE Narrate(v) \/ CutOff(v)
  <2>1. audit' = [audit EXCEPT ![v] = NoAudit]
    BY <1>5 DEF Narrate, CutOff, End
  <2>2. NoAudit \in AuditRecords /\ NoAudit.pc = "idle" /\ NoAudit.verdict = "none"
    BY DEF NoAudit, AuditRecords
  <2>3. AuditKnows(v)'
    BY <1>1, <2>1, <2>2 DEF AuditKnows
  <2> QED BY <1>2, <2>1, <2>2, <2>3, OneAuditMoves
<1> QED BY <1>4, <1>5

LEMMA AuditKeeps ==
  ASSUME AuditInv, [AuditNext]_auditVars
  PROVE  AuditInv'
<1>1. CASE UNCHANGED auditVars \/ Resume
  <2>1. UNCHANGED <<worldVars, audit, moved>> /\ orgHalted' \in BOOLEAN
    BY <1>1 DEF auditVars, Resume, AuditInv, AuditTypeOK
  <2> QED BY <2>1 DEF AuditInv, AuditTypeOK, AuditKnows, Drift, Positions, worldVars
<1> QED
  BY <1>1, MovesKeep, InvokeKeeps, ReadLedgerKeeps, ReadBrokerKeeps, AuditEndKeeps
     DEF AuditNext, AuditStep

\* Overlapping audits, bots that trade, users that stop strategies and failing
\* calls: an audit that nothing overtook says of the org exactly what is so
\* (_load_org_ledgers, reconcile_positions).
THEOREM VerdictsAreFounded == AuditSpec => []VerdictIsFounded
<1>1. AuditInv => VerdictIsFounded
  BY DEF AuditInv, AuditKnows, VerdictIsFounded, Drift
<1> QED BY <1>1, AuditStarts, AuditKeeps, PTL DEF AuditSpec

\* The rows an audit reads and what it holds of them keep their types, whoever
\* moves meanwhile (run_auditor).
THEOREM AuditTypes == AuditSpec => []AuditTypeOK
<1>1. AuditInv => AuditTypeOK
  BY DEF AuditInv
<1> QED BY <1>1, AuditStarts, AuditKeeps, PTL DEF AuditSpec
===============================================================================
