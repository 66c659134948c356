--------------------------- MODULE SimulationProofs ---------------------------
(***************************************************************************)
(* Theorems about Simulation: the types, the ledger of the balance, what a *)
(* trade can lose, and the order of the trades.                            *)
(***************************************************************************)
EXTENDS Simulation, SequenceTheorems, TLAPS

\* A position or a trade of the size that the policies admit.
SizeOK(p) ==
    /\ 100 * p.entry * p.quantity <= cfg.leverage * p.balanceBefore
    /\ cfg.sizing = "FIXED_RISK"
         => 10000 * Abs(p.entry - p.initialStop) * p.quantity <= cfg.sizeBy * p.balanceBefore

PositionInv ==
    Open => /\ SizeOK(position)
            /\ position.entry > 0 /\ position.balanceBefore = balance
            /\ position.entryFee = position.entry * position.quantity * cfg.entryFee
            /\ position.target # NaN => IF Longs(position) THEN position.entry <= position.target
                                        ELSE position.target <= position.entry

\* A position is held from an earlier bar, and none of the candles checked on
\* this one came to its initial stop, or it is an entry of this bar.
Survived(n) ==
    \A i \in 1 .. n : IF Longs(position) THEN position.initialStop < bar[i].low
                      ELSE bar[i].high < position.initialStop
Held ==
    /\ position.entryTime <= BarClose(k) - 3
    /\ Survived(part - 1) /\ (pc # "exits" => part = cfg.parts + 1)
Fresh ==
    /\ pc \in {"next", "end", "done", "cancelled"} /\ (pc = "end" => k = Window)
    /\ position.entryTime \in {BarClose(k), BarClose(k) + 1}
    /\ cfg.entryFill # "NEXT_OPEN" \/ ahead = <<>> => position.entryTime = BarClose(k)
    /\ cfg.entryFill = "CLOSE" /\ cfg.slippageBps = 0
         => LET at == bar[cfg.parts].close * 10000
            IN position.entry = IF Longs(position) THEN RoundUp(at, 10000) ELSE RoundDown(at, 10000)

ClockInv ==
    /\ pc \in {"exits", "signal", "settled", "entry"} \/ Open => k > 0
    /\ k > 0 => bar \in BarsOf(cfg)
    /\ k < Window => ahead \in BarsOf(cfg)
    /\ ~DataBeyond /\ k = Window => ahead = <<>>
    /\ pc = "exits" => part <= cfg.parts
    /\ pc \in {"exits", "signal"} => ~exited
    /\ pc = "signal" => Open
    /\ pc = "entry" => ~Open /\ ~exited
    /\ pc = "done" /\ cfg.endOfTest = "CLOSE" => ~Open
    /\ Open => Held \/ Fresh

\* No entry is filled at a price from after the window.
Sealed == ~DataBeyond \/ \A c \in Configs : c.entryFill # "NEXT_OPEN"

TradeOK(t) ==
    /\ SizeOK(t)
    /\ /\ cfg.slippageBps = 0
       /\ ~(t.reason = "STRATEGY_EXIT" /\ cfg.exitFill = "NEXT_OPEN")
       /\ cfg.entryFill = "CLOSE" \/ t.entryTime < t.exitTime
       => (IF t.side = "LONG" THEN t.entry - t.exit ELSE t.exit - t.entry)
             < Abs(t.entry - t.initialStop) + Tick
    /\ t.exitTime <= BarClose(k)
    /\ Sealed => t.entryTime <= t.exitTime

TradesInv ==
    /\ \A i \in DOMAIN trades : /\ TradeOK(trades[i])
                                /\ i > 1 => trades[i - 1].exitTime <= trades[i].entryTime
    /\ Open /\ trades # <<>> => trades[Len(trades)].exitTime <= position.entryTime

Inv == TypeOK /\ PositionInv /\ ClockInv /\ Accounted /\ TradesInv

-----------------------------------------------------------------------------
(* Arithmetic. *)

LEMMA DivBounds ==
  ASSUME NEW a \in Int, NEW d \in Nat \ {0}
  PROVE  a \div d \in Int /\ d * (a \div d) <= a /\ a < d * (a \div d) + d
  OBVIOUS

\* A quotient rounded down, multiplied again, and what is below it.
LEMMA BelowQuotient ==
  ASSUME NEW a \in Int, NEW d \in Nat \ {0}, NEW q \in Int, q <= a \div d
  PROVE  d * q <= a
  OBVIOUS

LEMMA Products ==
  ASSUME NEW a \in Nat, NEW b \in Int, NEW c \in Int, b <= c
  PROVE  a * b \in Int /\ a * b <= a * c
  OBVIOUS

LEMMA FeesOfFills ==
  ASSUME NEW q \in Int, NEW e \in Int, NEW f \in Int, NEW c \in Int, NEW x \in Int
  PROVE  q * (e * f + c * x) = e * q * f + c * q * x
<1>1. e * f \in Int /\ c * x \in Int /\ e * q \in Int /\ c * q \in Int
  OBVIOUS
<1>2. q * (e * f) = e * q * f /\ q * (c * x) = c * q * x
  OBVIOUS
<1>3. PICK a \in Int, b \in Int : a = e * f /\ b = c * x
  BY <1>1
<1>4. q * (a + b) = q * a + q * b
  OBVIOUS
<1> QED
  BY <1>2, <1>3, <1>4

LEMMA Clock ==
  ASSUME NEW m \in Nat, NEW n \in Nat, m <= n
  PROVE  BarClose(m) \in Int /\ BarClose(n) \in Int /\ BarClose(m) <= BarClose(n)
  BY DEF BarClose

LEMMA MaxOfTwo ==
  ASSUME NEW a \in Int, NEW b \in Int
  PROVE  Max({a, b}) = IF a >= b THEN a ELSE b
  BY DEF Max

LEMMA MinOfTwo ==
  ASSUME NEW a \in Int, NEW b \in Int
  PROVE  Min({a, b}) = IF a <= b THEN a ELSE b
  BY DEF Min

\* A number rounded down and the number rounded up are at most one apart.
LEMMA QuotientsMeet ==
  ASSUME NEW n \in Int, NEW d \in Nat \ {0}, NEW q \in Int, NEW r \in Int,
         d * q <= n, n < d * q + d, d * r <= - n, - n < d * r + d
  PROVE  - r - q <= 1
<1>1. d * q + d * r = d * (q + r) /\ d * q \in Int /\ d * r \in Int
  OBVIOUS
<1>2. d * (q + r) + 2 * d > 0
  BY <1>1
<1>3. CASE q + r <= -2
  <2>1. d * (q + r) <= d * (-2)
    BY <1>3, Products
  <2> QED
    BY <1>2, <2>1
<1> QED
  BY <1>3

LEMMA RoundBounds ==
  ASSUME NEW n \in Int
  PROVE  /\ RoundDown(n, 10000) \in Int /\ RoundUp(n, 10000) \in Int
         /\ 10000 * RoundDown(n, 10000) <= n /\ n < 10000 * RoundDown(n, 10000) + 10000 * Tick
         /\ n <= 10000 * RoundUp(n, 10000) /\ 10000 * RoundUp(n, 10000) < n + 10000 * Tick
         /\ RoundUp(n, 10000) - RoundDown(n, 10000) <= Tick
<1>1. Tick \in Nat \ {0}
  BY SimulationAssumption
<1>2. PICK d \in Nat \ {0} : d = 10000 * Tick
  BY <1>1
<1>3. PICK m \in Int : m = - n
  OBVIOUS
<1>4. PICK q \in Int : q = n \div d /\ d * q <= n /\ n < d * q + d
  BY DivBounds
<1>5. PICK r \in Int : r = m \div d /\ d * r <= m /\ m < d * r + d
  BY DivBounds
<1>6. RoundDown(n, 10000) = q * Tick /\ RoundUp(n, 10000) = - (r * Tick)
  BY <1>1, <1>2, <1>3, <1>4, <1>5 DEF RoundDown, RoundUp
<1>7. d * q = 10000 * (q * Tick) /\ d * r = 10000 * (r * Tick) /\ q * Tick \in Int /\ r * Tick \in Int
  BY <1>1, <1>2
<1>8. - r - q <= 1
  BY <1>3, <1>4, <1>5, QuotientsMeet
<1>9. - (r * Tick) - q * Tick <= Tick
  <2>1. Tick * (- r - q) <= Tick * 1
    BY <1>1, <1>4, <1>5, <1>8, Products
  <2> QED
    BY <1>1, <1>4, <1>5, <2>1
<1> QED
  BY <1>1, <1>2, <1>3, <1>4, <1>5, <1>6, <1>7, <1>9

-----------------------------------------------------------------------------
(* Configurations, candles and fills. *)

LEMMA ConfigFacts ==
  ASSUME cfg \in Configs
  PROVE  /\ cfg.parts \in {1, 2} /\ cfg.directions \subseteq Sides
         /\ {cfg.entryFill, cfg.exitFill} \subseteq {"CLOSE", "WORST_CASE", "NEXT_OPEN"}
         /\ cfg.stop \in {"PERCENTAGE", "ATR", "STRUCTURE"} /\ cfg.target \in {"NONE", "R_MULTIPLE", "PERCENTAGE"}
         /\ cfg.trail \in {"NONE", "PERCENTAGE", "ATR", "LEVEL"}
         /\ cfg.sizing \in {"FIXED_NOTIONAL", "EQUITY_PERCENT", "FIXED_RISK", "VOLATILITY_BASED"}
         /\ cfg.initial \in Nat /\ cfg.entryFee \in Nat /\ cfg.exitFee \in Nat /\ cfg.funding \in Int
         /\ cfg.stopBy \in Nat /\ cfg.trailBy \in Nat /\ cfg.targetBy \in Nat
         /\ cfg.sizeBy \in Nat /\ cfg.leverage \in Nat
         /\ cfg.levels \subseteq Int \cup {NaN} /\ cfg.atrs \subseteq Int \cup {NaN}
<1>1. cfg.parts \in {1, 2} /\ cfg.directions \subseteq Sides
  BY ConfigAssumption DEF Sides
<1>2. {cfg.initial, cfg.entryFee, cfg.exitFee, cfg.stopBy, cfg.trailBy, cfg.targetBy, cfg.sizeBy, cfg.leverage}
        \subseteq Nat
  BY ConfigAssumption
<1>3. cfg.funding \in Int /\ cfg.levels \cup cfg.atrs \subseteq Int \cup {NaN}
  BY ConfigAssumption
<1>4. /\ {cfg.entryFill, cfg.exitFill} \subseteq {"CLOSE", "WORST_CASE", "NEXT_OPEN"}
      /\ cfg.stop \in {"PERCENTAGE", "ATR", "STRUCTURE"} /\ cfg.target \in {"NONE", "R_MULTIPLE", "PERCENTAGE"}
      /\ cfg.trail \in {"NONE", "PERCENTAGE", "ATR", "LEVEL"}
      /\ cfg.sizing \in {"FIXED_NOTIONAL", "EQUITY_PERCENT", "FIXED_RISK", "VOLATILITY_BASED"}
  BY ConfigAssumption
<1> QED
  BY <1>1, <1>2, <1>3, <1>4

LEMMA SlippageFacts == ASSUME cfg \in Configs PROVE cfg.slippageBps \in Nat /\ cfg.slippageBps <= 10000
  BY ConfigAssumption

LEMMA CandleFacts ==
  ASSUME NEW b \in Bars
  PROVE  /\ b.open \in Nat \ {0} /\ b.high \in Nat \ {0} /\ b.low \in Nat \ {0} /\ b.close \in Nat \ {0}
         /\ b.low <= b.open /\ b.low <= b.close /\ b.open <= b.high /\ b.close <= b.high
  BY SimulationAssumption

\* A bar of one candle or two, and the candle of the trigger timeframe.
LEMMA BarFacts ==
  ASSUME cfg \in Configs, NEW s \in BarsOf(cfg)
  PROVE  /\ s \in Seq(Bars) /\ Len(s) = cfg.parts /\ s # <<>>
         /\ \A i \in 1 .. cfg.parts : s[i] \in Bars
         /\ Head(s) = s[1] /\ Trigger(s).open = s[1].open /\ Trigger(s).close = s[cfg.parts].close
         /\ \E i \in 1 .. cfg.parts : Trigger(s).low = s[i].low
         /\ \E i \in 1 .. cfg.parts : Trigger(s).high = s[i].high
<1>1. cfg.parts \in {1, 2}
  BY ConfigFacts
<1>2. s \in [1 .. cfg.parts -> Bars]
  BY DEF BarsOf
<1>3. s \in Seq(Bars) /\ Len(s) = cfg.parts
  BY <1>1, <1>2, SeqDef, LenProperties
<1>4. s # <<>> /\ Head(s) = s[1] /\ Last(s) = s[cfg.parts]
  BY <1>1, <1>3 DEF Last
<1>5. \A i \in 1 .. cfg.parts : s[i] \in Bars /\ s[i].low \in Int /\ s[i].high \in Int
  BY <1>2, CandleFacts
<1>6. CASE cfg.parts = 1
  <2>1. {s[i].high : i \in DOMAIN s} = {s[1].high, s[1].high} /\ {s[i].low : i \in DOMAIN s} = {s[1].low, s[1].low}
    BY <1>2, <1>6
  <2>2. Max({s[1].high, s[1].high}) = s[1].high /\ Min({s[1].low, s[1].low}) = s[1].low
    BY <1>5, <1>6, MaxOfTwo, MinOfTwo
  <2>3. Trigger(s).high = s[1].high /\ Trigger(s).low = s[1].low
    BY <2>1, <2>2 DEF Trigger
  <2> QED
    BY <1>3, <1>4, <1>5, <1>6, <2>3 DEF Trigger
<1>7. CASE cfg.parts = 2
  <2>1. {s[i].high : i \in DOMAIN s} = {s[1].high, s[2].high} /\ {s[i].low : i \in DOMAIN s} = {s[1].low, s[2].low}
    BY <1>2, <1>7
  <2>2. /\ Max({s[1].high, s[2].high}) \in {s[1].high, s[2].high}
        /\ Min({s[1].low, s[2].low}) \in {s[1].low, s[2].low}
    BY <1>5, <1>7, MaxOfTwo, MinOfTwo
  <2>3. Trigger(s).high \in {s[1].high, s[2].high} /\ Trigger(s).low \in {s[1].low, s[2].low}
    BY <2>1, <2>2 DEF Trigger
  <2> QED
    BY <1>3, <1>4, <1>5, <1>7, <2>3 DEF Trigger
<1> QED
  BY <1>1, <1>6, <1>7

LEMMA FillsWithoutSlippage ==
  ASSUME cfg.slippageBps = 0, NEW price \in Int
  PROVE  Bought(price) = RoundUp(price * 10000, 10000) /\ Sold(price) = RoundDown(price * 10000, 10000)
<1>1. price * (10000 + cfg.slippageBps) = price * 10000 /\ price * (10000 - cfg.slippageBps) = price * 10000
  OBVIOUS
<1> QED
  BY <1>1 DEF Bought, Sold

LEMMA FillBounds ==
  ASSUME cfg \in Configs, NEW price \in Int
  PROVE  /\ Bought(price) \in Int /\ Sold(price) \in Int
         /\ cfg.slippageBps = 0 => Bought(price) < price + Tick /\ price < Sold(price) + Tick
<1>1. PICK bps \in Nat : bps = cfg.slippageBps /\ bps <= 10000
  BY SlippageFacts
<1>2. PICK n \in Int : n = price * (10000 + bps)
  OBVIOUS
<1>3. PICK m \in Int : m = price * (10000 - bps)
  OBVIOUS
<1>4. Bought(price) = RoundUp(n, 10000) /\ Sold(price) = RoundDown(m, 10000)
  BY <1>1, <1>2, <1>3 DEF Bought, Sold
<1>5. Tick \in Nat
  BY SimulationAssumption
<1>6. /\ RoundUp(n, 10000) \in Int /\ RoundDown(m, 10000) \in Int
      /\ n <= 10000 * RoundUp(n, 10000) /\ 10000 * RoundUp(n, 10000) < n + 10000 * Tick
      /\ 10000 * RoundDown(m, 10000) <= m /\ m < 10000 * RoundDown(m, 10000) + 10000 * Tick
  BY RoundBounds
<1>7. ASSUME bps = 0 PROVE n = price * 10000 /\ m = price * 10000
  BY <1>2, <1>3, <1>7
<1> QED
  BY <1>1, <1>4, <1>5, <1>6, <1>7

\* A price at or above the low of some candle.
LEMMA FillPositive ==
  ASSUME cfg \in Configs, NEW b \in Bars, NEW price \in Int, b.low <= price
  PROVE  Bought(price) > 0 /\ Sold(price) > 0
<1>1. PICK bps \in Nat : bps = cfg.slippageBps /\ bps <= 10000
  BY SlippageFacts
<1>2. PICK n \in Int : n = price * (10000 + bps)
  OBVIOUS
<1>3. PICK m \in Int : m = price * (10000 - bps)
  OBVIOUS
<1>4. Bought(price) = RoundUp(n, 10000) /\ Sold(price) = RoundDown(m, 10000)
  BY <1>1, <1>2, <1>3 DEF Bought, Sold
<1>5. b.low \in Nat \ {0} /\ Tick \in Nat \ {0}
  BY CandleFacts, SimulationAssumption
<1>6. /\ 10000 - bps \in Nat
      /\ b.low \in Int
  BY <1>1, <1>5
<1>7. m >= 10000 * Tick
  <2>1. PICK f \in Nat : f = 10000 - bps
    BY <1>6
  <2>2. PICK low \in Int : low = b.low
    BY <1>6
  <2>3. low * f >= 10000 * Tick
    BY <1>1, <2>1, <2>2, TickAssumption
  <2>4. low <= price
    BY <2>2
  <2>5. f * low \in Int /\ f * low <= f * price
    BY <2>4, Products
  <2>6. PICK x \in Int, y \in Int : x = f * low /\ y = f * price
    OBVIOUS
  <2>7. low * f = x /\ m = y
    BY <1>3, <2>1, <2>6
  <2>8. x >= 10000 * Tick /\ x <= y
    BY <2>3, <2>5, <2>6, <2>7
  <2> QED
    BY <1>5, <2>7, <2>8
<1>8. n > 0
  <2>1. price > 0 /\ 10000 + bps \in Nat /\ 10000 + bps > 0
    BY <1>5
  <2> QED
    BY <1>2, <2>1
<1>9. RoundUp(n, 10000) \in Int /\ RoundDown(m, 10000) \in Int
      /\ n <= 10000 * RoundUp(n, 10000) /\ m < 10000 * RoundDown(m, 10000) + 10000 * Tick
  BY RoundBounds
<1> QED
  BY <1>4, <1>5, <1>7, <1>8, <1>9

LEMMA CountFacts ==
  ASSUME NEW f \in [Counters -> Nat], NEW key \in Counters
  PROVE  /\ Count(f, key) \in [Counters -> Nat]
         /\ \A c \in Counters : Count(f, key)[c] = IF c = key THEN f[c] + 1 ELSE f[c]
  BY DEF Count

-----------------------------------------------------------------------------
(* What the invariant says of the parts. *)

LEMMA Facts ==
  ASSUME Inv
  PROVE  /\ cfg \in Configs /\ cfg.parts \in {1, 2} /\ k \in 0 .. Window /\ part \in 1 .. cfg.parts + 1
         /\ exited \in BOOLEAN /\ balance \in Int /\ trades \in Seq(TradeRecord)
         /\ funnel \in [Counters -> Nat] /\ Window \in Nat \ {0} /\ Tick \in Nat \ {0}
         /\ Open => position \in Position
  BY SimulationAssumption, ConfigFacts DEF Inv, TypeOK, Open

LEMMA SidesOfPosition ==
  ASSUME NEW p \in Position
  PROVE  /\ p # NoPosition /\ p.side \in Sides /\ Longs(p) \in BOOLEAN
         /\ p.entry \in Int /\ p.entryTime \in Int /\ p.quantity \in Int /\ p.stop \in Int
         /\ p.initialStop \in Int /\ p.target \in Int \cup {NaN} /\ p.entryFee \in Int
         /\ p.balanceBefore \in Int
<1>1. p.side \in Sides
  BY DEF Position
<1>2. p # NoPosition
  BY <1>1 DEF NoPosition, Sides
<1> QED
  BY <1>1, <1>2 DEF Position, Longs

\* The trade that closes a position, and what the fee audit makes of it.
LEMMA TradeFacts ==
  ASSUME cfg \in Configs, NEW p \in Position, NEW price \in Int, NEW at \in Int,
         NEW reason \in Reasons, p.entryFee = p.entry * p.quantity * cfg.entryFee
  PROVE  LET t == Trade(p, price, at, reason)
         IN /\ t \in TradeRecord /\ t.net = Recomputed(t)
            /\ t.side = p.side /\ t.entry = p.entry /\ t.exit = ExitFill(p.side, price)
            /\ t.quantity = p.quantity /\ t.entryTime = p.entryTime /\ t.exitTime = at
            /\ t.initialStop = p.initialStop /\ t.balanceBefore = p.balanceBefore
            /\ t.reason = reason
<1>1. PICK exit \in Int : exit = ExitFill(p.side, price)
  BY FillBounds DEF ExitFill
<1>2. PICK e \in Int, q \in Int, s \in Sides : e = p.entry /\ q = p.quantity /\ s = p.side
  BY SidesOfPosition
<1>3. PICK f \in Int, x \in Int : f = cfg.entryFee /\ x = cfg.exitFee
  BY ConfigFacts
<1>4. PICK gross \in Int : gross = 100 * q * (IF Longs(p) THEN exit - e ELSE e - exit)
  BY SidesOfPosition
<1>5. PICK fees \in Int : fees = p.entryFee + exit * q * x
  BY SidesOfPosition
<1> DEFINE charge == p.entry * p.quantity * cfg.funding * Holding(p.entryTime, at)
<1>6. charge \in Int
  <2>1. Holding(p.entryTime, at) \in Int
    BY SidesOfPosition DEF Holding
  <2>2. PICK h \in Int : h = Holding(p.entryTime, at)
    BY <2>1
  <2>3. PICK fund \in Int : fund = cfg.funding
    BY ConfigFacts
  <2>4. e * q * fund * h \in Int
    OBVIOUS
  <2> QED
    BY <1>2, <2>2, <2>3, <2>4
<1> HIDE DEF charge
<1>7. PICK fund \in Int : fund = IF Longs(p) THEN - charge ELSE charge
  BY <1>6, SidesOfPosition
<1>8. PICK net \in Int : net = gross - fees + fund
  OBVIOUS
<1>9. net = gross - fees - (IF Longs(p) THEN charge ELSE - charge)
  BY <1>6, <1>7, <1>8, SidesOfPosition
<1>10. PICK t : t = [side |-> p.side, entryTime |-> p.entryTime, exitTime |-> at, entry |-> p.entry,
                    exit |-> exit, rawExit |-> price, quantity |-> p.quantity, net |-> net,
                    fees |-> fees, funding |-> fund, reason |-> reason,
                    initialStop |-> p.initialStop, balanceBefore |-> p.balanceBefore]
  OBVIOUS
<1>11. Trade(p, price, at, reason) = t
  BY <1>1, <1>2, <1>3, <1>4, <1>5, <1>7, <1>9, <1>10 DEF Trade, charge
<1>12. t \in TradeRecord
  BY <1>10, SidesOfPosition DEF TradeRecord
<1>13. t.net = Recomputed(t)
  <2>1. Recomputed(t) = 100 * q * (IF s = "LONG" THEN exit - e ELSE e - exit) - q * (e * f + exit * x) + fund
    BY <1>2, <1>3, <1>10 DEF Recomputed
  <2>2. fees = e * q * f + exit * q * x
    BY <1>2, <1>3, <1>5
  <2>3. q * (e * f + exit * x) = e * q * f + exit * q * x
    BY FeesOfFills
  <2>4. gross = 100 * q * (IF s = "LONG" THEN exit - e ELSE e - exit)
    BY <1>2, <1>4 DEF Longs
  <2>5. PICK g \in Int, c \in Int : g = gross /\ c = e * q * f + exit * q * x
    OBVIOUS
  <2>6. Recomputed(t) = g - c + fund
    BY <2>1, <2>3, <2>4, <2>5
  <2>7. net = g - c + fund
    BY <1>7, <1>8, <2>2, <2>5, SidesOfPosition
  <2> QED
    BY <1>10, <2>6, <2>7
<1> QED
  BY <1>1, <1>10, <1>11, <1>12, <1>13

-----------------------------------------------------------------------------
(* Closing a position. *)

\* The position, with another stop.
Moved(p) ==
    /\ p \in Position /\ p.side = position.side /\ p.entry = position.entry
    /\ p.entryTime = position.entryTime /\ p.quantity = position.quantity
    /\ p.initialStop = position.initialStop /\ p.target = position.target
    /\ p.entryFee = position.entryFee /\ p.balanceBefore = position.balanceBefore

\* Closing it at a price loses no more than its initial stop allows.
LossOK(price, at, reason) ==
    /\ cfg.slippageBps = 0
    /\ ~(reason = "STRATEGY_EXIT" /\ cfg.exitFill = "NEXT_OPEN")
    /\ cfg.entryFill = "CLOSE" \/ position.entryTime < at
    => (IF Longs(position) THEN position.entry - ExitFill(position.side, price)
        ELSE ExitFill(position.side, price) - position.entry)
          < Abs(position.entry - position.initialStop) + Tick

FunnelInv ==
    /\ funnel \in [Counters -> Nat]
    /\ funnel.ambiguousFills = funnel.conservativeResolutions + funnel.favorableResolutions

LEMMA CloseStep ==
  ASSUME Inv, Open, NEW p, Moved(p), NEW price \in Int, NEW at \in Int, NEW reason \in Reasons,
         Close(p, price, at, reason), LossOK(price, at, reason), at <= BarClose(k),
         Sealed => position.entryTime <= at, cfg' = cfg, k' = k,
         FunnelInv', funnel'.acceptedEntries = funnel.acceptedEntries
  PROVE  /\ balance' \in Int /\ trades' \in Seq(TradeRecord) /\ position' = NoPosition
         /\ Accounted' /\ TradesInv'
<1>1. PICK n \in Nat : n = Len(trades)
  BY Facts, LenProperties
<1>2. /\ cfg \in Configs /\ k \in Nat /\ trades \in Seq(TradeRecord) /\ balance \in Int /\ n \in Nat
      /\ DOMAIN trades = 1 .. n /\ \A i \in 1 .. n : trades[i] \in TradeRecord
  BY <1>1, Facts, LenProperties, ElementOfSeq
<1>3. p \in Position /\ position \in Position /\ p.side = position.side
  BY Facts DEF Moved
<1>4. /\ SizeOK(position) /\ position.balanceBefore = balance
      /\ position.entryFee = position.entry * position.quantity * cfg.entryFee
  BY DEF Inv, PositionInv
<1>5. PICK t : t = Trade(p, price, at, reason)
  OBVIOUS
<1>6. /\ t \in TradeRecord /\ t.net = Recomputed(t)
      /\ t.side = position.side /\ t.entry = position.entry /\ t.exit = ExitFill(position.side, price)
      /\ t.quantity = position.quantity /\ t.entryTime = position.entryTime /\ t.exitTime = at
      /\ t.initialStop = position.initialStop /\ t.balanceBefore = balance /\ t.reason = reason
  BY <1>2, <1>3, <1>4, <1>5, TradeFacts DEF Moved
<1>7. balance' = balance + t.net /\ trades' = Append(trades, t) /\ position' = NoPosition
  BY <1>5 DEF Close
<1>8. /\ trades' \in Seq(TradeRecord) /\ Len(trades') = n + 1 /\ DOMAIN trades' = 1 .. n + 1
      /\ \A i \in 1 .. n : trades'[i] = trades[i]
      /\ trades'[n + 1] = t
  <2>1. /\ trades' \in Seq(TradeRecord) /\ Len(trades') = Len(trades) + 1
        /\ \A i \in 1 .. Len(trades) : trades'[i] = trades[i]
        /\ trades'[Len(trades) + 1] = t
    BY <1>2, <1>6, <1>7, AppendProperties
  <2> QED
    BY <1>1, <2>1, LenProperties
<1>9. balance' \in Int
  BY <1>2, <1>6, <1>7 DEF TradeRecord
<1>10. Accounted'
  <2>1. ASSUME NEW i \in 1 .. n PROVE trades'[i].balanceBefore = BalanceAfter(i - 1)'
    <3>1. trades[i].balanceBefore = BalanceAfter(i - 1)
      BY <1>2 DEF Inv, Accounted
    <3>2. i # 1 => i - 1 \in 1 .. n
      BY <1>2
    <3> QED
      BY <1>2, <1>8, <3>1, <3>2 DEF BalanceAfter, Recomputed
  <2>2. t.balanceBefore = BalanceAfter(n)'
    <3>1. balance = BalanceAfter(n)
      BY <1>1 DEF Inv, Accounted
    <3>2. n # 0 => n \in 1 .. n
      BY <1>2
    <3> QED
      BY <1>2, <1>6, <1>8, <3>1, <3>2 DEF BalanceAfter, Recomputed
  <2>3. balance' = BalanceAfter(n + 1)'
    <3>1. BalanceAfter(n + 1)' = t.balanceBefore + Recomputed(t)
      BY <1>2, <1>8 DEF BalanceAfter, Recomputed
    <3> QED
      BY <1>6, <1>7, <3>1
  <2>4. \A i \in DOMAIN trades' : trades'[i].balanceBefore = BalanceAfter(i - 1)'
    <3>1. n + 1 - 1 = n /\ \A i \in 1 .. n + 1 : i \in 1 .. n \/ i = n + 1
      BY <1>2
    <3> QED
      BY <1>8, <2>1, <2>2, <3>1
  <2>5. funnel'.acceptedEntries = Len(trades') + (IF Open' THEN 1 ELSE 0)
    <3>1. funnel.acceptedEntries = n + 1
      BY <1>1 DEF Inv, Accounted
    <3> QED
      BY <1>2, <1>7, <1>8, <3>1 DEF Open
  <2> QED
    BY <1>8, <2>3, <2>4, <2>5 DEF Accounted, FunnelInv
<1>11. TradesInv'
  <2>1. ASSUME NEW i \in 1 .. n
        PROVE  TradeOK(trades[i])' /\ (i > 1 => trades'[i - 1].exitTime <= trades'[i].entryTime)
    <3>1. TradeOK(trades[i]) /\ (i > 1 => trades[i - 1].exitTime <= trades[i].entryTime)
      BY <1>2 DEF Inv, TradesInv
    <3>2. i > 1 => i - 1 \in 1 .. n
      BY <1>2
    <3> QED
      BY <1>8, <3>1, <3>2 DEF TradeOK, SizeOK
  <2>2. TradeOK(t)'
    BY <1>3, <1>4, <1>6 DEF TradeOK, SizeOK, LossOK, Longs, Sealed
  <2>3. n >= 1 => trades[n].exitTime <= t.entryTime
    BY <1>1, <1>2, <1>6 DEF Inv, TradesInv
  <2>4. \A i \in 1 .. n + 1 : i \in 1 .. n \/ i = n + 1
    BY <1>2
  <2>5. ASSUME NEW i \in 1 .. n + 1
        PROVE  TradeOK(trades[i])' /\ (i > 1 => trades'[i - 1].exitTime <= trades'[i].entryTime)
    BY <1>2, <1>8, <2>1, <2>2, <2>3, <2>4
  <2> QED
    BY <1>7, <1>8, <2>5 DEF TradesInv, Open
<1> QED
  BY <1>7, <1>8, <1>9, <1>10, <1>11

-----------------------------------------------------------------------------
(* Steps that leave the account alone. *)

LEMMA TradesFrame ==
  ASSUME Inv, cfg' = cfg, trades' = trades, k' \in Nat, k <= k',
         \/ position' = NoPosition
         \/ Open /\ position'.entryTime = position.entryTime
         \/ position'.entryTime \in Int /\ BarClose(k) <= position'.entryTime
  PROVE  TradesInv'
<1>1. /\ k \in Nat /\ trades \in Seq(TradeRecord) /\ DOMAIN trades = 1 .. Len(trades) /\ Len(trades) \in Nat
      /\ \A i \in DOMAIN trades : trades[i] \in TradeRecord
  BY Facts, LenProperties, ElementOfSeq
<1>2. BarClose(k) \in Int /\ BarClose(k) <= BarClose(k') /\ BarClose(k') \in Int
  BY <1>1, Clock
<1>3. ASSUME NEW i \in DOMAIN trades PROVE TradeOK(trades[i])' /\ trades[i].exitTime <= BarClose(k)
  <2>1. TradeOK(trades[i]) /\ trades[i].exitTime \in Int
    BY <1>1 DEF Inv, TradesInv, TradeRecord
  <2>2. trades[i].exitTime <= BarClose(k)'
    BY <1>2, <2>1 DEF TradeOK, BarClose
  <2> QED
    BY <2>1, <2>2 DEF TradeOK, SizeOK, Sealed
<1>4. \A i \in DOMAIN trades : i > 1 => trades[i - 1].exitTime <= trades[i].entryTime
  BY DEF Inv, TradesInv
<1>5. Open' /\ trades # <<>> => trades[Len(trades)].exitTime <= position'.entryTime
  <2>1. CASE Open /\ position'.entryTime = position.entryTime
    BY <2>1 DEF Inv, TradesInv
  <2>2. CASE position'.entryTime \in Int /\ BarClose(k) <= position'.entryTime
    <3>1. trades # <<>> => Len(trades) \in DOMAIN trades
      BY <1>1
    <3>2. ASSUME trades # <<>>
          PROVE  trades[Len(trades)].exitTime \in Int /\ trades[Len(trades)].exitTime <= BarClose(k)
      BY <1>1, <1>3, <3>1, <3>2 DEF TradeRecord
    <3> QED
      BY <1>2, <2>2, <3>2
  <2>3. CASE position' = NoPosition
    BY <2>3 DEF Open
  <2> QED
    BY <2>1, <2>2, <2>3
<1> QED
  BY <1>3, <1>4, <1>5 DEF TradesInv

LEMMA AccountedFrame ==
  ASSUME Inv, cfg' = cfg, trades' = trades, balance' = balance, FunnelInv',
         funnel'.acceptedEntries = Len(trades) + (IF Open' THEN 1 ELSE 0)
  PROVE  Accounted'
<1>1. /\ \A i \in DOMAIN trades : trades[i].balanceBefore = BalanceAfter(i - 1)
      /\ balance = BalanceAfter(Len(trades))
  BY DEF Inv, Accounted
<1>2. ASSUME NEW i \in DOMAIN trades PROVE trades'[i].balanceBefore = BalanceAfter(i - 1)'
  BY <1>1, <1>2 DEF BalanceAfter, Recomputed
<1>3. balance' = BalanceAfter(Len(trades))'
  BY <1>1 DEF BalanceAfter, Recomputed
<1> QED
  BY <1>2, <1>3 DEF Accounted, FunnelInv

LEMMA Untouched ==
  ASSUME Inv, TypeOK', ClockInv', k' \in Nat, k <= k',
         UNCHANGED <<cfg, position, balance, trades, funnel>>
  PROVE  Inv'
<1>1. Open' <=> Open
  BY DEF Open
<1>2. PositionInv'
  BY <1>1 DEF Inv, PositionInv, SizeOK
<1>3. FunnelInv'
  BY Facts DEF Inv, Accounted, FunnelInv
<1>4. Accounted'
  BY <1>1, <1>3, AccountedFrame DEF Inv, Accounted
<1>5. TradesInv'
  BY <1>1, TradesFrame DEF Open
<1> QED
  BY <1>2, <1>4, <1>5 DEF Inv

\* ... and the types, with what the steps change of the clock.
LEMMA TypesFrame ==
  ASSUME Inv, UNCHANGED <<cfg, position, balance, trades, funnel>>,
         k' \in 0 .. Window, bar' \in BarsOf(cfg) \cup {<<>>}, ahead' \in BarsOf(cfg) \cup {<<>>},
         part' \in 1 .. cfg.parts + 1, exited' \in BOOLEAN,
         pc' \in {"next", "exits", "signal", "settled", "entry", "end", "done", "cancelled"},
         exited' => ~Open
  PROVE  TypeOK'
  BY DEF Inv, TypeOK, Open, BarsOf, Longs

LEMMA NextBarStep == ASSUME Inv, NextBar PROVE Inv'
<1>1. /\ pc = "next" /\ k < Window /\ k' = k + 1 /\ bar' = ahead /\ pc' = "exits" /\ part' = 1
      /\ exited' = FALSE /\ UNCHANGED <<cfg, position, balance, trades, funnel>>
  BY DEF NextBar
<1>2. /\ ahead' \in BarsOf(cfg) \cup {<<>>} /\ (k + 1 < Window => ahead' \in BarsOf(cfg))
      /\ (~DataBeyond /\ k + 1 = Window => ahead' = <<>>)
  <2>1. k \in Nat /\ Window \in Nat
    BY Facts
  <2> QED
    BY <2>1 DEF NextBar
<1>3. ahead \in BarsOf(cfg)
  BY <1>1 DEF Inv, ClockInv
<1>4. TypeOK'
  <2>1. k' \in 0 .. Window /\ part' \in 1 .. cfg.parts + 1
    BY <1>1, Facts
  <2> QED
    BY <1>1, <1>2, <1>3, <2>1, TypesFrame
<1>5. Open => Held'
  <2>1. ASSUME Open PROVE position.entryTime <= BarClose(k) + 1 /\ position.entryTime \in Int
    BY <1>1, <2>1, Facts, SidesOfPosition DEF Inv, ClockInv, Held, Fresh, BarClose
  <2> QED
    BY <1>1, <2>1, Facts DEF Held, Survived, BarClose
<1>6. ClockInv'
  BY <1>1, <1>2, <1>3, <1>5, Facts DEF ClockInv, BarsOf, Open
<1> QED
  BY <1>1, <1>4, <1>6, Facts, Untouched

\* The steps that only choose what comes next.
Chooses == UNCHANGED <<cfg, k, bar, ahead, part, exited, position, balance, trades, funnel>>

LEMMA ChooseStep ==
  ASSUME Inv, Chooses,
         pc' \in {"next", "settled", "entry", "end", "done", "cancelled"},
         pc' = "done" => ~ClosesAtEnd,
         pc' = "entry" => ~Open /\ ~exited /\ k > 0,
         pc' = "settled" => ~Open /\ k > 0,
         pc' = "end" /\ Open => Held \/ k = Window,
         Open => pc # "exits"
  PROVE  Inv'
<1>1. TypeOK'
  <2>1. bar \in BarsOf(cfg) \cup {<<>>} /\ ahead \in BarsOf(cfg) \cup {<<>>}
    BY DEF Inv, TypeOK
  <2> QED
    BY <2>1, Facts, TypesFrame DEF Chooses, Inv, TypeOK
<1>2. Open' <=> Open
  BY DEF Chooses, Open
<1>3. ASSUME Open, Held PROVE Held'
  BY <1>3 DEF Chooses, Held, Survived, BarClose, Longs
<1>4. ASSUME Open, Fresh, ~Held PROVE Fresh'
  BY <1>4 DEF Chooses, Fresh, BarClose, Longs
<1>5. ClockInv'
  BY <1>2, <1>3, <1>4, Facts DEF Inv, ClockInv, Chooses, BarsOf, ClosesAtEnd
<1> QED
  BY <1>1, <1>5, Facts, Untouched DEF Chooses

LEMMA CancelStep == ASSUME Inv, Cancel PROVE Inv'
  BY ChooseStep DEF Cancel, Chooses

LEMMA WindowEndsStep == ASSUME Inv, WindowEnds PROVE Inv'
  BY ChooseStep DEF WindowEnds, Chooses

LEMMA NothingOpenStep == ASSUME Inv, NothingOpen PROVE Inv'
  BY ChooseStep DEF NothingOpen, Chooses, Inv, ClockInv

LEMMA NoEntryStep == ASSUME Inv, NoEntry PROVE Inv'
  BY ChooseStep DEF NoEntry, Chooses, Inv, ClockInv

LEMMA NoNextOpenStep == ASSUME Inv, NoNextOpen PROVE Inv'
  BY ChooseStep DEF NoNextOpen, Chooses, Inv, ClockInv

LEMMA SettledStep == ASSUME Inv, Settled PROVE Inv'
<1>1. pc = "settled" /\ Chooses /\ k > 0 /\ (Open => Held)
  BY DEF Settled, Chooses, Inv, ClockInv, Fresh
<1>2. \/ pc' = "end"
      \/ pc' = "next"
      \/ pc' = "entry" /\ ~Open /\ ~exited
  BY Facts DEF Settled
<1> QED
  BY <1>1, <1>2, ChooseStep

-----------------------------------------------------------------------------
(* Steps that close the position. *)

\* The stop lies on the losing side of the entry.
LEMMA StopFacts ==
  ASSUME Inv, Open
  PROVE  /\ position \in Position /\ position.quantity > 0 /\ position.entry > 0
         /\ IF Longs(position) THEN position.initialStop < position.entry /\ position.initialStop <= position.stop
            ELSE position.entry < position.initialStop /\ position.stop <= position.initialStop
         /\ position.target # NaN => IF Longs(position) THEN position.entry <= position.target
                                     ELSE position.target <= position.entry
  BY Facts DEF Inv, TypeOK, PositionInv

\* A close at the initial stop or on the better side of it.
LEMMA LossAtStop ==
  ASSUME Inv, Open, NEW price \in Int, NEW at, NEW reason,
         IF Longs(position) THEN position.initialStop <= price ELSE price <= position.initialStop
  PROVE  LossOK(price, at, reason)
<1>1. PICK e \in Int, s \in Int : e = position.entry /\ s = position.initialStop
  BY StopFacts, SidesOfPosition
<1>2. cfg \in Configs /\ Tick \in Nat \ {0}
  BY Facts
<1>3. CASE Longs(position)
  <2>1. Abs(e - s) = e - s
    BY <1>1, <1>3, StopFacts DEF Abs
  <2>2. s <= price /\ ExitFill(position.side, price) = Sold(price) /\ Sold(price) \in Int
    BY <1>1, <1>2, <1>3, FillBounds DEF ExitFill, Longs
  <2>3. ASSUME cfg.slippageBps = 0 PROVE e - Sold(price) < (e - s) + Tick
    BY <1>2, <2>2, <2>3, FillBounds
  <2> QED
    BY <1>1, <1>3, <2>1, <2>2, <2>3 DEF LossOK
<1>4. CASE ~Longs(position)
  <2>1. Abs(e - s) = s - e
    BY <1>1, <1>4, StopFacts DEF Abs
  <2>2. price <= s /\ ExitFill(position.side, price) = Bought(price) /\ Bought(price) \in Int
    BY <1>1, <1>2, <1>4, FillBounds DEF ExitFill, Longs
  <2>3. ASSUME cfg.slippageBps = 0 PROVE Bought(price) - e < (s - e) + Tick
    BY <1>2, <2>2, <2>3, FillBounds
  <2> QED
    BY <1>1, <1>4, <2>1, <2>2, <2>3 DEF LossOK
<1> QED
  BY <1>3, <1>4

\* An entry at the close of the bar, closed at the same close.
LEMMA LossOfFresh ==
  ASSUME Inv, Open, Fresh, NEW reason
  PROVE  LossOK(bar[cfg.parts].close, BarClose(k), reason)
<1>1. PICK e \in Int, s \in Int : e = position.entry /\ s = position.initialStop
  BY StopFacts, SidesOfPosition
<1>2. cfg \in Configs /\ Tick \in Nat \ {0} /\ k \in Nat /\ BarClose(k) \in Int
  BY Facts, Clock
<1>3. bar[cfg.parts] \in Bars
  BY Facts, BarFacts DEF Inv, ClockInv
<1>4. PICK c \in Int : c = bar[cfg.parts].close
  BY <1>3, CandleFacts
<1>5. PICK n \in Int : n = c * 10000
  OBVIOUS
<1>6. ~(position.entryTime < BarClose(k))
  BY <1>2 DEF Fresh
<1>7. RoundUp(n, 10000) \in Int /\ RoundDown(n, 10000) \in Int
      /\ RoundUp(n, 10000) - RoundDown(n, 10000) <= Tick
  BY RoundBounds
<1>8. ASSUME cfg.slippageBps = 0, cfg.entryFill = "CLOSE"
      PROVE  (IF Longs(position) THEN e - ExitFill(position.side, c) ELSE ExitFill(position.side, c) - e)
               < Abs(e - s) + Tick
  <2>1. e = IF Longs(position) THEN RoundUp(n, 10000) ELSE RoundDown(n, 10000)
    BY <1>1, <1>4, <1>5, <1>8 DEF Fresh
  <2>2. ExitFill(position.side, c) = IF Longs(position) THEN RoundDown(n, 10000) ELSE RoundUp(n, 10000)
    <3>1. Sold(c) = RoundDown(n, 10000) /\ Bought(c) = RoundUp(n, 10000)
      <4>1. /\ Sold(c) = RoundDown(c * 10000, 10000)
            /\ Bought(c) = RoundUp(c * 10000, 10000)
        BY <1>8, FillsWithoutSlippage
      <4> QED
        BY <1>5, <4>1
    <3> QED
      BY <3>1 DEF ExitFill, Longs
  <2>3. Abs(e - s) \in Int /\ Abs(e - s) > 0
    BY <1>1, StopFacts DEF Abs
  <2> QED
    BY <1>2, <1>7, <2>1, <2>2, <2>3
<1> QED
  BY <1>1, <1>4, <1>6, <1>8 DEF LossOK

LEMMA ClosingStep ==
  ASSUME Inv, Open, NEW p, Moved(p), NEW price \in Int, NEW at \in Int, NEW reason \in Reasons,
         Close(p, price, at, reason), LossOK(price, at, reason), at <= BarClose(k),
         Sealed => position.entryTime <= at, UNCHANGED <<cfg, k, bar, ahead, part>>,
         FunnelInv', funnel'.acceptedEntries = funnel.acceptedEntries,
         pc' \in {"settled", "done"}, exited' \in BOOLEAN
  PROVE  Inv'
<1>1. /\ balance' \in Int /\ trades' \in Seq(TradeRecord) /\ position' = NoPosition
      /\ Accounted' /\ TradesInv'
  BY CloseStep
<1>2. ~Open'
  BY <1>1 DEF Open
<1>3. TypeOK'
  <2>1. bar \in BarsOf(cfg) \cup {<<>>} /\ ahead \in BarsOf(cfg) \cup {<<>>}
    BY DEF Inv, TypeOK
  <2> QED
    BY <1>1, <1>2, <2>1, Facts DEF TypeOK, FunnelInv, BarsOf
<1>4. ClockInv'
  BY <1>2, Facts DEF Inv, ClockInv, BarsOf
<1> QED
  BY <1>1, <1>2, <1>3, <1>4 DEF Inv, PositionInv

LEMMA EndOfTestStep == ASSUME Inv, EndOfTest PROVE Inv'
<1>1. pc = "end" /\ pc' = "done" /\ UNCHANGED <<cfg, k, bar, ahead, part, exited, funnel>>
  BY DEF EndOfTest
<1>2. CASE ~ClosesAtEnd
  BY <1>1, <1>2, ChooseStep DEF EndOfTest, Chooses
<1>3. CASE ClosesAtEnd
  <2>1. Open /\ Moved(position) /\ bar \in BarsOf(cfg) /\ (Held \/ Fresh)
    BY <1>3, Facts DEF ClosesAtEnd, Moved, Inv, ClockInv
  <2>2. Trigger(bar).close = bar[cfg.parts].close /\ bar[cfg.parts] \in Bars
    BY <2>1, Facts, BarFacts
  <2>3. PICK c \in Int : c = bar[cfg.parts].close
    BY <2>2, CandleFacts
  <2>4. Close(position, c, BarClose(k), "END_OF_TEST")
    BY <1>3, <2>2, <2>3 DEF EndOfTest
  <2>5. BarClose(k) \in Int /\ "END_OF_TEST" \in Reasons /\ position.entryTime \in Int
    BY <2>1, Facts, SidesOfPosition DEF Reasons, BarClose
  <2>6. LossOK(c, BarClose(k), "END_OF_TEST") /\ (Sealed => position.entryTime <= BarClose(k))
    <3>1. CASE Held
      <4>1. IF Longs(position) THEN position.initialStop < bar[cfg.parts].low
            ELSE bar[cfg.parts].high < position.initialStop
        BY <1>1, <3>1, Facts DEF Held, Survived
      <4>2. IF Longs(position) THEN position.initialStop <= c ELSE c <= position.initialStop
        <5>1. /\ bar[cfg.parts].low <= c /\ c <= bar[cfg.parts].high
              /\ bar[cfg.parts].low \in Int /\ bar[cfg.parts].high \in Int /\ position.initialStop \in Int
          BY <2>1, <2>2, <2>3, CandleFacts, Facts, SidesOfPosition
        <5> QED
          BY <4>1, <5>1
      <4>3. position.entryTime <= BarClose(k)
        BY <2>5, <3>1 DEF Held
      <4> QED
        BY <2>1, <4>2, <4>3, LossAtStop
    <3>2. CASE Fresh
      <4>1. Sealed => cfg.entryFill # "NEXT_OPEN" \/ ahead = <<>>
        BY <1>1, <3>2, Facts DEF Sealed, Fresh, Inv, ClockInv
      <4>2. Sealed => position.entryTime = BarClose(k)
        BY <3>2, <4>1 DEF Fresh
      <4> QED
        BY <2>1, <2>3, <2>5, <3>2, <4>2, LossOfFresh
    <3> QED
      BY <2>1, <3>1, <3>2
  <2>7. FunnelInv' /\ funnel'.acceptedEntries = funnel.acceptedEntries /\ exited' \in BOOLEAN
    BY <1>1, Facts DEF FunnelInv, Inv, Accounted
  <2> QED
    BY <1>1, <2>1, <2>4, <2>5, <2>6, <2>7, ClosingStep
<1> QED
  BY <1>2, <1>3

\* The price of an exit condition on a bar that the position survived.
LEMMA SignalPrice ==
  ASSUME Inv, Open, bar \in BarsOf(cfg), Survived(cfg.parts), NEW at
  PROVE  /\ ExitPrice(position.side) \in Int
         /\ LossOK(ExitPrice(position.side), at, "STRATEGY_EXIT")
<1>1. /\ cfg \in Configs /\ cfg.parts \in {1, 2}
      /\ cfg.exitFill \in {"CLOSE", "WORST_CASE", "NEXT_OPEN"}
  BY Facts, ConfigFacts
<1>2. \A i \in 1 .. cfg.parts : bar[i] \in Bars
  BY <1>1, BarFacts
<1>3. PICK c \in Int, l \in Int, h \in Int :
        c = Trigger(bar).close /\ l = Trigger(bar).low /\ h = Trigger(bar).high
  BY <1>1, <1>2, BarFacts, CandleFacts
<1>4. IF Longs(position) THEN position.initialStop < c /\ position.initialStop < l
      ELSE c < position.initialStop /\ h < position.initialStop
  <2>1. PICK i \in 1 .. cfg.parts : l = bar[i].low
    BY <1>1, <1>3, BarFacts
  <2>2. PICK j \in 1 .. cfg.parts : h = bar[j].high
    BY <1>1, <1>3, BarFacts
  <2>3. c = bar[cfg.parts].close /\ cfg.parts \in 1 .. cfg.parts
    BY <1>1, <1>3, BarFacts
  <2>4. PICK s \in Int : s = position.initialStop
    BY StopFacts, SidesOfPosition
  <2>5. CASE Longs(position)
    <3>1. s < bar[cfg.parts].low /\ s < l
      BY <2>1, <2>3, <2>4, <2>5 DEF Survived
    <3> QED
      BY <1>2, <2>3, <2>4, <2>5, <3>1, CandleFacts
  <2>6. CASE ~Longs(position)
    <3>1. bar[cfg.parts].high < s /\ h < s
      BY <2>2, <2>3, <2>4, <2>6 DEF Survived
    <3> QED
      BY <1>2, <2>3, <2>4, <2>6, <3>1, CandleFacts
  <2> QED
    BY <2>5, <2>6
<1>5. CASE cfg.exitFill = "NEXT_OPEN"
  <2>1. ExitPrice(position.side) \in Int
    <3>1. ahead # <<>> => Head(ahead).open \in Int
      <4>1. ASSUME ahead # <<>> PROVE ahead \in BarsOf(cfg)
        BY <4>1 DEF Inv, TypeOK
      <4>2. ASSUME ahead # <<>> PROVE Head(ahead) = ahead[1] /\ ahead[1] \in Bars
        BY <1>1, <4>1, <4>2, BarFacts
      <4> QED
        BY <4>2, CandleFacts
    <3> QED
      BY <1>3, <1>5, <3>1 DEF ExitPrice
  <2> QED
    BY <1>5, <2>1 DEF LossOK
<1>6. CASE cfg.exitFill # "NEXT_OPEN"
  <2>1. ExitPrice(position.side) \in {c, IF Longs(position) THEN l ELSE h}
    BY <1>1, <1>3, <1>6 DEF ExitPrice, Longs
  <2>2. PICK x \in Int : x = ExitPrice(position.side)
    BY <1>3, <2>1
  <2>3. IF Longs(position) THEN position.initialStop <= x ELSE x <= position.initialStop
    BY <1>3, <1>4, <2>1, <2>2, StopFacts, SidesOfPosition
  <2>4. LossOK(x, at, "STRATEGY_EXIT")
    BY <2>3, LossAtStop
  <2> QED
    BY <2>2, <2>4
<1> QED
  BY <1>5, <1>6

LEMMA SignalExitStep == ASSUME Inv, SignalExit PROVE Inv'
<1>1. /\ pc = "signal" /\ pc' = "settled" /\ UNCHANGED <<cfg, k, bar, ahead, part, funnel>>
      /\ Open /\ Held /\ k > 0 /\ bar \in BarsOf(cfg)
  BY DEF SignalExit, Inv, ClockInv, Fresh
<1>2. Survived(cfg.parts)
  BY <1>1, Facts DEF Held
<1>3. CASE /\ Close(position, ExitPrice(position.side), BarClose(k), "STRATEGY_EXIT")
           /\ exited' = TRUE
  <2>1. PICK x \in Int : x = ExitPrice(position.side) /\ LossOK(x, BarClose(k), "STRATEGY_EXIT")
    BY <1>1, <1>2, SignalPrice
  <2>2. Moved(position) /\ position.entryTime \in Int /\ "STRATEGY_EXIT" \in Reasons
    BY <1>1, Facts, SidesOfPosition DEF Moved, Reasons
  <2>3. BarClose(k) \in Int /\ position.entryTime <= BarClose(k)
    <3>1. position.entryTime <= BarClose(k) - 3
      BY <1>1 DEF Held
    <3>2. BarClose(k) \in Int
      BY Facts, Clock
    <3> QED
      BY <2>2, <3>1, <3>2
  <2>4. FunnelInv' /\ funnel'.acceptedEntries = funnel.acceptedEntries
    BY <1>1, Facts DEF FunnelInv, Inv, Accounted
  <2>5. Close(position, x, BarClose(k), "STRATEGY_EXIT")
    BY <1>3, <2>1
  <2> QED
    BY <1>1, <1>3, <2>1, <2>2, <2>3, <2>4, <2>5, ClosingStep
<1>4. CASE UNCHANGED <<position, balance, trades, exited>>
  <2>1. TypeOK'
    BY <1>1, <1>4, Facts, TypesFrame DEF Inv, TypeOK
  <2>2. Open' /\ Held'
    BY <1>1, <1>4 DEF Open, Held, Survived, Longs, BarClose
  <2>3. ClockInv'
    BY <1>1, <1>4, <2>2, Facts DEF Inv, ClockInv, BarsOf
  <2>4. k' \in Nat /\ k <= k'
    BY <1>1, Facts
  <2> QED
    BY <1>1, <1>4, <2>1, <2>3, <2>4, Untouched
<1> QED
  BY <1>3, <1>4 DEF SignalExit

-----------------------------------------------------------------------------
(* A candle is checked. *)

\* A trail moves the stop to the better side only.
LEMMA TrailTightens ==
  ASSUME Inv, Open, NEW c \in Bars, NEW v \in Int \cup {NaN}
  PROVE  /\ Trailed(position, c, v) \in Int
         /\ IF Longs(position) THEN position.stop <= Trailed(position, c, v)
            ELSE Trailed(position, c, v) <= position.stop
<1>1. /\ cfg.trail \in {"NONE", "PERCENTAGE", "ATR", "LEVEL"} /\ cfg.trailBy \in Nat
      /\ position.stop \in Int /\ Longs(position) \in BOOLEAN /\ c.high \in Int /\ c.low \in Int
  BY Facts, ConfigFacts, CandleFacts, SidesOfPosition
<1>2. ASSUME NEW x \in Int
      PROVE  /\ Ratchet(position, x) \in Int
             /\ IF Longs(position) THEN position.stop <= Ratchet(position, x)
                ELSE Ratchet(position, x) <= position.stop
  <2>1. Ratchet(position, x) = IF Longs(position) THEN IF position.stop >= x THEN position.stop ELSE x
                               ELSE IF position.stop <= x THEN position.stop ELSE x
    BY <1>1, MaxOfTwo, MinOfTwo DEF Ratchet
  <2> QED
    BY <1>1, <2>1
<1>3. PICK extreme \in Int : extreme = IF Longs(position) THEN c.high ELSE c.low
  BY <1>1
<1>4. PICK sign \in Int : sign = IF Longs(position) THEN -1 ELSE 1
  BY <1>1
<1>5. PICK b \in Int : b = cfg.trailBy
  BY <1>1
<1>6. PICK x \in Int : x = (extreme * (100 + sign * b)) \div 100
  <2>1. PICK y \in Int : y = extreme * (100 + sign * b)
    OBVIOUS
  <2>2. y \div 100 \in Int
    BY DivBounds
  <2> QED
    BY <2>1, <2>2
<1>7. CASE cfg.trail = "PERCENTAGE"
  BY <1>2, <1>3, <1>4, <1>5, <1>6, <1>7 DEF Trailed
<1>8. CASE cfg.trail = "ATR" /\ v # NaN
  <2>1. v \in Int
    BY <1>8
  <2>2. PICK y \in Int : y = extreme + sign * v * b
    BY <2>1
  <2> QED
    BY <1>2, <1>3, <1>4, <1>5, <1>8, <2>2 DEF Trailed
<1>9. CASE cfg.trail = "LEVEL" /\ v # NaN
  BY <1>2, <1>9 DEF Trailed
<1>10. CASE cfg.trail = "NONE" \/ (cfg.trail \in {"ATR", "LEVEL"} /\ v = NaN)
  <2>1. Trailed(position, c, v) = position.stop
    BY <1>10 DEF Trailed
  <2> QED
    BY <1>1, <2>1
<1> QED
  BY <1>1, <1>7, <1>8, <1>9, <1>10

\* What checking a candle does to the counters and the clock.
Resolves ==
    \/ funnel' = funnel
    \/ \E key \in {"favorableResolutions", "conservativeResolutions"} :
          funnel' = Count(Count(funnel, "ambiguousFills"), key)
EndsBar == exited' = TRUE /\ pc' = "settled" /\ part' = part
GoesOn ==
    /\ part' = part + 1
    /\ pc' = IF part < Len(bar) THEN "exits" ELSE IF Len(bar) > 1 THEN "signal" ELSE "settled"
    /\ UNCHANGED <<balance, trades, exited, funnel>>
Missed(p, c) == ~(IF Longs(p) THEN c.low <= p.stop ELSE c.high >= p.stop)

\* p is the position with the trailed stop.
Checked(v, p) ==
    /\ p = [position EXCEPT !.stop = Trailed(position, bar[part], v)]
    /\ \/ /\ Resolves /\ EndsBar
          /\ \/ p.target # NaN /\ \E reason \in Reasons : Close(p, p.target, PartClose, reason)
             \/ \E reason \in Reasons : Close(p, p.stop, PartClose, reason)
       \/ /\ Missed(p, bar[part]) /\ funnel' = funnel /\ EndsBar /\ Len(bar) <= 1
          /\ Close(p, ExitPrice(p.side), BarClose(k), "STRATEGY_EXIT")
       \/ Missed(p, bar[part]) /\ position' = p /\ GoesOn

LEMMA CheckShape ==
  ASSUME CheckCandle, Len(bar) \in Nat
  PROVE  \E v \in cfg.levels : \E p : Checked(v, p)
<1> DEFINE c == bar[part]
<1>1. PICK v \in cfg.levels, signal \in IF Len(bar) > 1 THEN {FALSE}
                                        ELSE {ExitPasses(env) : env \in Environments} :
           CheckExit(c, v, signal)
  BY DEF CheckCandle
<1>2. signal => Len(bar) <= 1
  <2>1. CASE Len(bar) > 1
    BY <1>1, <2>1
  <2>2. CASE ~(Len(bar) > 1)
    <3>1. Len(bar) <= 1
      BY <2>2
    <3> QED
      BY <3>1
  <2> QED
    BY <2>1, <2>2
<1>3. PICK p : p = [position EXCEPT !.stop = Trailed(position, c, v)]
  OBVIOUS
<1> DEFINE stopHit == IF Longs(p) THEN c.low <= p.stop ELSE c.high >= p.stop
           targetHit == p.target # NaN /\ IF Longs(p) THEN c.high >= p.target ELSE c.low <= p.target
           atTarget == targetHit /\ (stopHit => cfg.sameBar = "TARGET_FIRST")
<1>4. CASE /\ stopHit \/ targetHit
           /\ Close(p, IF atTarget THEN p.target ELSE p.stop, PartClose,
                    IF atTarget THEN "TAKE_PROFIT" ELSE StopReason)
           /\ funnel' = IF stopHit /\ targetHit
                        THEN Count(Count(funnel, "ambiguousFills"),
                                   IF atTarget THEN "favorableResolutions" ELSE "conservativeResolutions")
                        ELSE funnel
           /\ exited' = TRUE /\ pc' = "settled" /\ part' = part
  <2>1. StopReason \in Reasons /\ "TAKE_PROFIT" \in Reasons
    BY DEF StopReason, Reasons
  <2>2. Resolves /\ EndsBar
    BY <1>4 DEF Resolves, EndsBar
  <2>3. CASE atTarget
    BY <1>3, <1>4, <2>1, <2>2, <2>3 DEF Checked
  <2>4. CASE ~atTarget
    BY <1>3, <1>4, <2>1, <2>2, <2>4 DEF Checked
  <2> QED
    BY <2>3, <2>4
<1>5. CASE /\ ~stopHit /\ ~targetHit
           /\ \/ /\ signal
                 /\ Close(p, ExitPrice(p.side), BarClose(k), "STRATEGY_EXIT")
                 /\ exited' = TRUE /\ pc' = "settled" /\ part' = part
              \/ /\ ~signal
                 /\ position' = p /\ part' = part + 1
                 /\ pc' = IF part < Len(bar) THEN "exits" ELSE IF Len(bar) > 1 THEN "signal" ELSE "settled"
                 /\ UNCHANGED <<balance, trades, exited>>
           /\ UNCHANGED funnel
  <2>1. CASE signal
    BY <1>2, <1>3, <1>5, <2>1 DEF Missed, EndsBar, Checked
  <2>2. CASE ~signal
    BY <1>3, <1>5, <2>2 DEF Missed, GoesOn, Checked
  <2> QED
    BY <2>1, <2>2
<1> QED
  BY <1>1, <1>3, <1>4, <1>5 DEF CheckExit

\* Resolving an ambiguous fill keeps the counters in step.
LEMMA ResolutionCounts ==
  ASSUME Inv, Resolves
  PROVE  FunnelInv' /\ funnel'.acceptedEntries = funnel.acceptedEntries
<1>1. FunnelInv
  BY Facts DEF Inv, Accounted, FunnelInv
<1>2. CASE funnel' = funnel
  BY <1>1, <1>2 DEF FunnelInv
<1>3. ASSUME NEW key \in {"favorableResolutions", "conservativeResolutions"},
             funnel' = Count(Count(funnel, "ambiguousFills"), key)
      PROVE  FunnelInv' /\ funnel'.acceptedEntries = funnel.acceptedEntries
  <2>1. PICK f : f = Count(funnel, "ambiguousFills")
    OBVIOUS
  <2>2. /\ f \in [Counters -> Nat]
        /\ \A c \in Counters : f[c] = IF c = "ambiguousFills" THEN funnel[c] + 1 ELSE funnel[c]
    BY <1>1, <2>1, CountFacts DEF FunnelInv, Counters
  <2>3. /\ funnel' \in [Counters -> Nat]
        /\ \A c \in Counters : funnel'[c] = IF c = key THEN f[c] + 1 ELSE f[c]
    <3>1. key \in Counters
      BY DEF Counters
    <3>2. funnel' = Count(f, key)
      BY <1>3, <2>1
    <3> QED
      BY <2>2, <3>1, <3>2, CountFacts
  <2>4. /\ funnel'["ambiguousFills"] = funnel["ambiguousFills"] + 1
        /\ funnel'["acceptedEntries"] = funnel["acceptedEntries"]
        /\ \/ /\ funnel'["favorableResolutions"] = funnel["favorableResolutions"] + 1
              /\ funnel'["conservativeResolutions"] = funnel["conservativeResolutions"]
           \/ /\ funnel'["favorableResolutions"] = funnel["favorableResolutions"]
              /\ funnel'["conservativeResolutions"] = funnel["conservativeResolutions"] + 1
    BY <1>3, <2>2, <2>3 DEF Counters
  <2>5. /\ funnel["ambiguousFills"] = funnel["conservativeResolutions"] + funnel["favorableResolutions"]
        /\ funnel["conservativeResolutions"] \in Nat /\ funnel["favorableResolutions"] \in Nat
    BY <1>1 DEF FunnelInv, Counters
  <2> QED
    BY <2>3, <2>4, <2>5 DEF FunnelInv
<1> QED
  BY <1>2, <1>3 DEF Resolves

\* The position stays open, with a stop that the trail may have moved.
LEMMA StaysOpen ==
  ASSUME Inv, pc = "exits", Open, NEW p, Moved(p), position' = p,
         p.stop \in Int, IF Longs(position) THEN position.stop <= p.stop ELSE p.stop <= position.stop,
         Missed(p, bar[part]), GoesOn, UNCHANGED <<cfg, k, bar, ahead>>
  PROVE  Inv'
<1> USE DEF GoesOn, Missed
<1>1. /\ Open' /\ position' \in Position /\ position \in Position
      /\ (Longs(position') <=> Longs(position)) /\ (Longs(p) <=> Longs(position))
  BY SidesOfPosition, Facts DEF Moved, Open, Longs
<1>2. /\ cfg \in Configs /\ bar \in BarsOf(cfg) /\ part \in 1 .. cfg.parts /\ Len(bar) = cfg.parts
      /\ cfg.parts \in {1, 2} /\ k > 0 /\ Held
  BY Facts, BarFacts DEF Inv, ClockInv, Fresh
<1>3. /\ part' \in 1 .. cfg.parts + 1 /\ pc' \in {"exits", "signal", "settled"}
      /\ (pc' = "exits" => part' <= cfg.parts) /\ (pc' # "exits" => part' = cfg.parts + 1)
  BY <1>2
<1>4. /\ p.initialStop \in Int /\ p.initialStop = position.initialStop /\ position.stop \in Int
      /\ p.entry = position.entry /\ p.side = position.side /\ p.quantity = position.quantity
  BY <1>1, SidesOfPosition DEF Moved
<1>5. TypeOK'
  <2>1. IF Longs(p) THEN p.initialStop < p.entry /\ p.initialStop <= p.stop
        ELSE p.entry < p.initialStop /\ p.stop <= p.initialStop
    BY <1>1, <1>4, StopFacts
  <2>2. p.side \in cfg.directions /\ p.quantity > 0
    BY <1>4 DEF Inv, TypeOK
  <2>3. ~exited
    BY DEF Inv, ClockInv
  <2> QED
    BY <1>1, <1>2, <1>3, <2>1, <2>2, <2>3, Facts DEF Inv, TypeOK, BarsOf
<1>6. PositionInv'
  BY <1>1 DEF Moved, Inv, PositionInv, SizeOK
<1>7. Held'
  <2>1. position'.entryTime <= BarClose(k)' - 3
    BY <1>2 DEF Held, BarClose, Moved
  <2>2. ASSUME NEW i \in 1 .. part
        PROVE  IF Longs(p) THEN p.initialStop < bar[i].low ELSE bar[i].high < p.initialStop
    <3>1. CASE i = part
      <4>1. bar[i] \in Bars
        BY <1>2, <3>1, BarFacts
      <4> QED
        BY <1>1, <1>4, <3>1, <4>1, StopFacts, CandleFacts
    <3>2. CASE i # part
      <4>1. i \in 1 .. part - 1
        BY <1>2, <3>2
      <4> QED
        BY <1>1, <1>2, <1>4, <4>1 DEF Held, Survived
    <3> QED
      BY <3>1, <3>2
  <2>3. part' - 1 = part
    BY <1>2
  <2>4. Survived(part - 1)'
    BY <2>2, <2>3 DEF Survived
  <2> QED
    BY <1>3, <2>1, <2>4 DEF Held
<1>8. ClockInv'
  BY <1>1, <1>2, <1>3, <1>7 DEF Inv, ClockInv, BarsOf
<1>9. Accounted'
  <2>1. FunnelInv' /\ funnel'.acceptedEntries = Len(trades) + (IF Open' THEN 1 ELSE 0)
    <3>1. Resolves
      BY DEF Resolves
    <3>2. funnel.acceptedEntries = Len(trades) + 1
      BY DEF Inv, Accounted
    <3> QED
      BY <1>1, <3>1, <3>2, ResolutionCounts
  <2> QED
    BY <2>1, AccountedFrame
<1>10. TradesInv'
  <2>1. k' \in Nat /\ k <= k'
    BY Facts
  <2> QED
    BY <2>1, TradesFrame DEF Moved
<1> QED
  BY <1>5, <1>6, <1>8, <1>9, <1>10 DEF Inv

LEMMA CheckCandleStep == ASSUME Inv, CheckCandle PROVE Inv'
<1>1. /\ pc = "exits" /\ Open /\ UNCHANGED <<cfg, k, bar, ahead>>
      /\ cfg \in Configs /\ bar \in BarsOf(cfg) /\ part \in 1 .. cfg.parts /\ Held /\ k > 0
      /\ position \in Position
  BY Facts DEF CheckCandle, Inv, ClockInv, Fresh
<1>2. PICK v, p : v \in cfg.levels /\ Checked(v, p)
  <2>1. Len(bar) \in Nat
    BY <1>1, Facts, BarFacts
  <2> QED
    BY <2>1, CheckShape
<1>3. v \in Int \cup {NaN} /\ bar[part] \in Bars /\ Len(bar) = cfg.parts
  BY <1>1, <1>2, ConfigFacts, BarFacts
<1>4. p = [position EXCEPT !.stop = Trailed(position, bar[part], v)]
  BY <1>2 DEF Checked
<1>5. /\ Moved(p) /\ p.stop \in Int
      /\ IF Longs(position) THEN position.stop <= p.stop ELSE p.stop <= position.stop
  <2>1. Trailed(position, bar[part], v) \in Int
    BY <1>1, <1>3, TrailTightens
  <2>2. p.stop = Trailed(position, bar[part], v) /\ p \in Position
    BY <1>1, <1>4, <2>1 DEF Position
  <2>3. Moved(p)
    BY <1>1, <1>4, <2>2 DEF Moved, Position
  <2> QED
    BY <1>1, <1>3, <2>1, <2>2, <2>3, TrailTightens
<1>6. /\ PartClose \in Int /\ PartClose <= BarClose(k) /\ position.entryTime <= PartClose
      /\ BarClose(k) \in Int /\ position.entryTime <= BarClose(k)
  <2>1. BarClose(k) \in Int /\ position.entryTime \in Int
    BY <1>1, Facts, Clock, SidesOfPosition
  <2>2. position.entryTime <= BarClose(k) - 3
    BY <1>1 DEF Held
  <2>3. PartClose \in {BarClose(k) - 2, BarClose(k)}
    BY DEF PartClose
  <2> QED
    BY <2>1, <2>2, <2>3
<1>7. ASSUME NEW price \in Int, NEW at \in Int, NEW reason \in Reasons, Close(p, price, at, reason),
             LossOK(price, at, reason), at \in {PartClose, BarClose(k)},
             Resolves, EndsBar
      PROVE  Inv'
  <2>1. at <= BarClose(k) /\ position.entryTime <= at
    BY <1>6, <1>7
  <2>2. FunnelInv' /\ funnel'.acceptedEntries = funnel.acceptedEntries
    BY <1>7, ResolutionCounts
  <2> QED
    BY <1>1, <1>5, <1>7, <2>1, <2>2, ClosingStep DEF EndsBar
<1>8. ASSUME NEW reason \in Reasons, Close(p, p.stop, PartClose, reason),
             Resolves, EndsBar
      PROVE  Inv'
  <2>1. PICK s \in Int : s = p.stop
    BY <1>5
  <2>2. IF Longs(position) THEN position.initialStop <= s ELSE s <= position.initialStop
    BY <1>1, <1>5, <2>1, StopFacts, SidesOfPosition
  <2>3. LossOK(s, PartClose, reason)
    BY <1>1, <2>2, LossAtStop
  <2> QED
    BY <1>6, <1>7, <1>8, <2>1, <2>3
<1>9. ASSUME NEW reason \in Reasons, p.target # NaN, Close(p, p.target, PartClose, reason),
             Resolves, EndsBar
      PROVE  Inv'
  <2>1. PICK s \in Int : s = p.target /\ s = position.target
    BY <1>1, <1>5, <1>9, SidesOfPosition DEF Moved
  <2>2. IF Longs(position) THEN position.initialStop <= s ELSE s <= position.initialStop
    BY <1>1, <1>5, <1>9, <2>1, StopFacts, SidesOfPosition
  <2>3. LossOK(s, PartClose, reason)
    BY <1>1, <2>2, LossAtStop
  <2> QED
    BY <1>6, <1>7, <1>9, <2>1, <2>3
<1>10. ASSUME Missed(p, bar[part]), funnel' = funnel, EndsBar, Len(bar) <= 1,
              Close(p, ExitPrice(p.side), BarClose(k), "STRATEGY_EXIT")
       PROVE  Inv'
  <2>1. cfg.parts = 1 /\ part = 1
    BY <1>1, <1>2, <1>3, <1>10, Facts
  <2>2. Survived(cfg.parts)
    <3>1. Longs(p) <=> Longs(position)
      BY <1>5 DEF Moved, Longs
    <3>2. IF Longs(position) THEN position.initialStop < bar[1].low ELSE bar[1].high < position.initialStop
      BY <1>1, <1>3, <1>5, <1>10, <2>1, <3>1, StopFacts, CandleFacts, SidesOfPosition DEF Missed
    <3>3. \A i \in 1 .. 1 : i = 1
      OBVIOUS
    <3> QED
      BY <2>1, <3>2, <3>3 DEF Survived
  <2>3. PICK x \in Int : x = ExitPrice(position.side) /\ LossOK(x, BarClose(k), "STRATEGY_EXIT")
    BY <1>1, <2>2, SignalPrice
  <2>4. p.side = position.side /\ "STRATEGY_EXIT" \in Reasons
    BY <1>5 DEF Moved, Reasons
  <2> QED
    BY <1>6, <1>7, <1>10, <2>3, <2>4 DEF Resolves
<1>11. ASSUME Missed(p, bar[part]), position' = p, GoesOn
       PROVE  Inv'
  BY <1>1, <1>5, <1>11, StaysOpen
<1> QED
  BY <1>2, <1>8, <1>9, <1>10, <1>11 DEF Checked

-----------------------------------------------------------------------------
(* An entry is made. *)

LEMMA SideFacts ==
  ASSUME cfg \in Configs, NEW side \in Signals \ {"NONE"}
  PROVE  side \in cfg.directions /\ side \in Sides
<1>1. PICK env \in Environments : side = SideOf(env)
  BY DEF Signals
<1>2. side \in {"LONG", "SHORT"} /\ side \in cfg.directions
  BY <1>1 DEF SideOf
<1> QED
  BY <1>2 DEF Sides

\* A price to enter at is one that a candle came to.
LEMMA EntryPriceFacts ==
  ASSUME Inv, pc = "entry", NEW side \in Sides, EntryPrice(side) # NaN
  PROVE  /\ EntryPrice(side) \in Int
         /\ \E b \in Bars : b.low <= EntryPrice(side)
         /\ cfg.entryFill = "CLOSE" => EntryPrice(side) = bar[cfg.parts].close
         /\ cfg.entryFill = "NEXT_OPEN" => ahead # <<>>
<1>1. /\ cfg \in Configs /\ cfg.parts \in {1, 2} /\ bar \in BarsOf(cfg)
      /\ cfg.entryFill \in {"CLOSE", "WORST_CASE", "NEXT_OPEN"}
  BY Facts, ConfigFacts DEF Inv, ClockInv
<1>2. \A i \in 1 .. cfg.parts : bar[i] \in Bars
  BY <1>1, BarFacts
<1>3. CASE cfg.entryFill = "CLOSE"
  <2>1. EntryPrice(side) = bar[cfg.parts].close /\ bar[cfg.parts] \in Bars
    BY <1>1, <1>2, <1>3, BarFacts DEF EntryPrice
  <2> QED
    BY <1>3, <2>1, CandleFacts
<1>4. CASE cfg.entryFill = "WORST_CASE"
  <2>1. PICK i \in 1 .. cfg.parts, j \in 1 .. cfg.parts :
          Trigger(bar).low = bar[i].low /\ Trigger(bar).high = bar[j].high
    BY <1>1, BarFacts
  <2>2. EntryPrice(side) \in {bar[i].low, bar[j].high}
    BY <1>4, <2>1 DEF EntryPrice
  <2>3. bar[i] \in Bars /\ bar[j] \in Bars
    BY <1>2
  <2>4. bar[i].low <= bar[i].low /\ bar[j].low <= bar[j].high /\ bar[i].low \in Int /\ bar[j].high \in Int
    BY <2>3, CandleFacts
  <2> QED
    BY <1>4, <2>2, <2>3, <2>4
<1>5. CASE cfg.entryFill = "NEXT_OPEN"
  <2>1. ahead # <<>> /\ EntryPrice(side) = Head(ahead).open
    BY <1>5 DEF EntryPrice
  <2>2. ahead \in BarsOf(cfg)
    BY <2>1 DEF Inv, TypeOK
  <2>3. Head(ahead) \in Bars
    BY <1>1, <2>2, BarFacts
  <2> QED
    BY <1>5, <2>1, <2>3, CandleFacts
<1> QED
  BY <1>1, <1>3, <1>4, <1>5

\* The fill of an entry.
LEMMA EntryFillFacts ==
  ASSUME Inv, pc = "entry", NEW side \in Sides, EntryPrice(side) # NaN,
         NEW entry, entry = EntryFill(side, EntryPrice(side))
  PROVE  /\ entry \in Int /\ entry > 0
         /\ cfg.entryFill = "CLOSE" /\ cfg.slippageBps = 0
              => LET at == bar[cfg.parts].close * 10000
                 IN entry = IF side = "LONG" THEN RoundUp(at, 10000) ELSE RoundDown(at, 10000)
<1>1. cfg \in Configs
  BY Facts
<1>2. PICK price \in Int : price = EntryPrice(side)
  BY EntryPriceFacts
<1>3. \E b \in Bars : b.low <= price
  BY <1>2, EntryPriceFacts
<1>4. Bought(price) \in Int /\ Sold(price) \in Int /\ Bought(price) > 0 /\ Sold(price) > 0
  BY <1>1, <1>3, FillBounds, FillPositive
<1>5. entry = IF side = "LONG" THEN Bought(price) ELSE Sold(price)
  BY <1>2 DEF EntryFill
<1>6. ASSUME cfg.slippageBps = 0
      PROVE  entry = IF side = "LONG" THEN RoundUp(price * 10000, 10000) ELSE RoundDown(price * 10000, 10000)
  BY <1>5, <1>6, FillsWithoutSlippage
<1>7. cfg.entryFill = "CLOSE" => price = bar[cfg.parts].close
  BY <1>2, EntryPriceFacts
<1> QED
  BY <1>4, <1>5, <1>6, <1>7

LEMMA StopIsNumber ==
  ASSUME cfg \in Configs, NEW side, NEW entry \in Int, NEW v \in Int \cup {NaN}
  PROVE  StopAt(side, entry, v) \in Int \cup {NaN}
<1>1. cfg.stop \in {"PERCENTAGE", "ATR", "STRUCTURE"}
  BY ConfigFacts
<1>2. PICK b \in Int : b = cfg.stopBy
  BY ConfigFacts
<1>3. PICK sign \in Int : sign = IF side = "LONG" THEN -1 ELSE 1
  OBVIOUS
<1>4. CASE cfg.stop = "PERCENTAGE"
  <2>1. PICK n \in Int : n = entry * (100 + sign * b)
    OBVIOUS
  <2>2. n \div 100 \in Int
    BY DivBounds
  <2> QED
    BY <1>2, <1>3, <1>4, <2>1, <2>2 DEF StopAt
<1>5. CASE cfg.stop = "ATR" /\ v # NaN
  <2>1. v \in Int
    BY <1>5
  <2>2. entry + sign * v * b \in Int
    BY <2>1
  <2> QED
    BY <1>2, <1>3, <1>5, <2>2 DEF StopAt
<1>6. CASE cfg.stop = "STRUCTURE"
  BY <1>6 DEF StopAt
<1>7. CASE cfg.stop = "ATR" /\ v = NaN
  <2>1. StopAt(side, entry, v) = NaN
    BY <1>7 DEF StopAt
  <2> QED
    BY <2>1
<1> QED
  BY <1>1, <1>4, <1>5, <1>6, <1>7

\* The target lies on the winning side of the entry.
LEMMA TargetFacts ==
  ASSUME cfg \in Configs, NEW side \in Sides, NEW entry \in Nat, NEW risk \in Nat
  PROVE  /\ TargetAt(side, entry, risk) \in Int \cup {NaN}
         /\ TargetAt(side, entry, risk) # NaN
              => IF side = "LONG" THEN entry <= TargetAt(side, entry, risk)
                 ELSE TargetAt(side, entry, risk) <= entry
<1>1. cfg.target \in {"NONE", "R_MULTIPLE", "PERCENTAGE"}
  BY ConfigFacts
<1>2. PICK b \in Nat : b = cfg.targetBy
  BY ConfigFacts
<1>3. PICK sign \in {1, -1} : sign = IF side = "LONG" THEN 1 ELSE -1
  OBVIOUS
<1>4. CASE cfg.target = "NONE"
  BY <1>4 DEF TargetAt
<1>5. CASE cfg.target = "R_MULTIPLE"
  <2>1. PICK m \in Nat : m = risk * b
    OBVIOUS
  <2>2. sign * risk * b = sign * m
    BY <2>1
  <2>3. TargetAt(side, entry, risk) = entry + sign * m
    BY <1>2, <1>3, <1>5, <2>2 DEF TargetAt
  <2> QED
    BY <1>3, <2>1, <2>3
<1>6. CASE cfg.target = "PERCENTAGE"
  <2>1. PICK m \in Nat : m = entry * b
    OBVIOUS
  <2>2. PICK n \in Int : n = entry * (100 + sign * b)
    OBVIOUS
  <2>3. n = 100 * entry + sign * m
    BY <1>3, <2>1, <2>2
  <2>4. PICK q \in Int : q = n \div 100 /\ 100 * q <= n /\ n < 100 * q + 100
    BY DivBounds
  <2>5. TargetAt(side, entry, risk) = q
    BY <1>2, <1>3, <1>6, <2>2, <2>4 DEF TargetAt
  <2>6. IF side = "LONG" THEN entry <= q ELSE q <= entry
    BY <1>3, <2>1, <2>3, <2>4
  <2> QED
    BY <2>4, <2>5, <2>6
<1> QED
  BY <1>1, <1>4, <1>5, <1>6

\* The quantity is within the leverage and, with fixed risk, within the risked
\* part of the balance.
LEMMA QuantityFacts ==
  ASSUME cfg \in Configs, balance \in Int, NEW entry \in Nat \ {0}, NEW risk \in Nat \ {0}, NEW a,
         cfg.sizing = "VOLATILITY_BASED" => a \in Nat \ {0}
  PROVE  /\ Quantity(entry, risk, a) \in Int
         /\ 100 * entry * Quantity(entry, risk, a) <= cfg.leverage * balance
         /\ cfg.sizing = "FIXED_RISK" => 10000 * risk * Quantity(entry, risk, a) <= cfg.sizeBy * balance
<1>1. cfg.sizing \in {"FIXED_NOTIONAL", "EQUITY_PERCENT", "FIXED_RISK", "VOLATILITY_BASED"}
  BY ConfigFacts
<1>2. PICK by \in Int, leverage \in Int : by = cfg.sizeBy /\ leverage = cfg.leverage
  BY ConfigFacts
<1>3. PICK n \in Int : n = balance * by
  OBVIOUS
<1>4. PICK m \in Int : m = balance * leverage
  OBVIOUS
<1>5. PICK d \in Nat \ {0} : d = 100 * entry
  OBVIOUS
<1>6. PICK r \in Nat \ {0} : r = 10000 * risk
  OBVIOUS
<1>7. PICK cap \in Int : cap = m \div d
  BY DivBounds
<1>8. PICK s \in Int : s = Sized(entry, risk, a) /\ (cfg.sizing = "FIXED_RISK" => s = n \div r)
  <2>1. CASE cfg.sizing = "FIXED_NOTIONAL"
    <3>1. by \div entry \in Int
      BY DivBounds
    <3> QED
      BY <1>2, <2>1, <3>1 DEF Sized
  <2>2. CASE cfg.sizing = "EQUITY_PERCENT"
    <3>1. PICK e \in Nat \ {0} : e = 10000 * entry
      OBVIOUS
    <3>2. n \div e \in Int
      BY DivBounds
    <3> QED
      BY <1>2, <1>3, <2>2, <3>1, <3>2 DEF Sized
  <2>3. CASE cfg.sizing = "FIXED_RISK"
    <3>1. n \div r \in Int
      BY DivBounds
    <3> QED
      BY <1>2, <1>3, <1>6, <2>3, <3>1 DEF Sized
  <2>4. CASE cfg.sizing = "VOLATILITY_BASED"
    <3>1. PICK e \in Nat \ {0} : e = 10000 * a
      BY <2>4
    <3>2. n \div e \in Int
      BY DivBounds
    <3> QED
      BY <1>2, <1>3, <2>4, <3>1, <3>2 DEF Sized
  <2> QED
    BY <1>1, <2>1, <2>2, <2>3, <2>4
<1>9. PICK q \in Int : q = Quantity(entry, risk, a) /\ q <= cap /\ q <= s
  <2>1. Quantity(entry, risk, a) = Min({s, cap})
    BY <1>2, <1>4, <1>5, <1>7, <1>8 DEF Quantity
  <2>2. Min({s, cap}) = IF s <= cap THEN s ELSE cap
    BY MinOfTwo
  <2> QED
    BY <2>1, <2>2
<1>10. d * q <= m
  BY <1>7, <1>9, BelowQuotient
<1>11. ASSUME cfg.sizing = "FIXED_RISK" PROVE r * q <= n
  BY <1>8, <1>9, <1>11, BelowQuotient
<1>12. leverage * balance = m /\ by * balance = n
  BY <1>3, <1>4
<1> QED
  BY <1>2, <1>5, <1>6, <1>9, <1>10, <1>11, <1>12

LEMMA OutcomeFacts ==
  ASSUME NEW side, NEW entry, NEW quality, NEW stop, NEW a,
         NEW risk, risk = (IF side = "LONG" THEN entry - stop ELSE stop - entry)
  PROVE  /\ Outcome(side, entry, quality, stop, a) \in
              {"rejectedWarmup", "entryQualityRejected", "uncounted", "exchangeRejected", "acceptedEntries"}
         /\ Outcome(side, entry, quality, stop, a) = "acceptedEntries"
              => /\ stop # NaN /\ ~(risk <= 0) /\ ~(Quantity(entry, risk, a) <= 0)
                 /\ cfg.sizing = "VOLATILITY_BASED" => a # NaN /\ ~(a <= 0)
  BY DEF Outcome

\* Counting what became of a signal.
LEMMA OutcomeCounts ==
  ASSUME Inv,
         NEW outcome \in {"rejectedWarmup", "entryQualityRejected", "uncounted", "exchangeRejected",
                          "acceptedEntries"},
         funnel' = IF outcome = "uncounted" THEN funnel ELSE Count(funnel, outcome)
  PROVE  /\ FunnelInv'
         /\ funnel'.acceptedEntries = funnel.acceptedEntries + (IF outcome = "acceptedEntries" THEN 1 ELSE 0)
<1>1. FunnelInv
  BY Facts DEF Inv, Accounted, FunnelInv
<1>2. CASE outcome = "uncounted"
  BY <1>1, <1>2 DEF FunnelInv, Counters
<1>3. CASE outcome # "uncounted"
  <2>1. outcome \in Counters /\ funnel' = Count(funnel, outcome)
    BY <1>3 DEF Counters
  <2>2. /\ funnel' \in [Counters -> Nat]
        /\ \A c \in Counters : funnel'[c] = IF c = outcome THEN funnel[c] + 1 ELSE funnel[c]
    BY <1>1, <2>1, CountFacts DEF FunnelInv
  <2>3. /\ funnel'["ambiguousFills"] = funnel["ambiguousFills"]
        /\ funnel'["conservativeResolutions"] = funnel["conservativeResolutions"]
        /\ funnel'["favorableResolutions"] = funnel["favorableResolutions"]
    BY <1>3, <2>2 DEF Counters
  <2>4. funnel'["acceptedEntries"] = IF outcome = "acceptedEntries" THEN funnel["acceptedEntries"] + 1
                                     ELSE funnel["acceptedEntries"]
    BY <2>2 DEF Counters
  <2>5. funnel["acceptedEntries"] \in Nat
    BY <1>1 DEF FunnelInv, Counters
  <2> QED
    BY <1>1, <2>2, <2>3, <2>4, <2>5 DEF FunnelInv
<1> QED
  BY <1>2, <1>3

\* The position that an accepted signal opens.
Opened(p, side) ==
    /\ p \in Position /\ p.side = side /\ p.entry > 0 /\ p.quantity > 0
    /\ p.entryTime = EntryTime /\ p.stop = p.initialStop
    /\ IF side = "LONG" THEN p.initialStop < p.entry ELSE p.entry < p.initialStop
    /\ p.target # NaN => IF side = "LONG" THEN p.entry <= p.target ELSE p.target <= p.entry
    /\ SizeOK(p) /\ p.entryFee = p.entry * p.quantity * cfg.entryFee /\ p.balanceBefore = balance
    /\ cfg.entryFill = "CLOSE" /\ cfg.slippageBps = 0
         => LET at == bar[cfg.parts].close * 10000
            IN p.entry = IF side = "LONG" THEN RoundUp(at, 10000) ELSE RoundDown(at, 10000)

LEMMA OpenedFacts ==
  ASSUME Inv, pc = "entry", NEW side \in Sides, EntryPrice(side) # NaN,
         NEW entry, entry = EntryFill(side, EntryPrice(side)),
         NEW quality, NEW v \in cfg.levels, NEW a \in cfg.atrs,
         NEW stop, stop = StopAt(side, entry, v),
         NEW risk, risk = (IF side = "LONG" THEN entry - stop ELSE stop - entry),
         Outcome(side, entry, quality, stop, a) = "acceptedEntries",
         NEW p,
         p = [side |-> side, entry |-> entry, entryTime |-> EntryTime,
              quantity |-> Quantity(entry, risk, a), stop |-> stop, initialStop |-> stop,
              target |-> TargetAt(side, entry, risk),
              entryFee |-> entry * Quantity(entry, risk, a) * cfg.entryFee,
              balanceBefore |-> balance]
  PROVE  Opened(p, side)
<1>1. cfg \in Configs /\ balance \in Int /\ k \in Nat
  BY Facts
<1>2. entry \in Nat \ {0}
  <2>1. entry \in Int /\ entry > 0
    BY EntryFillFacts
  <2> QED
    BY <2>1
<1>3. v \in Int \cup {NaN} /\ a \in Int \cup {NaN}
  BY <1>1, ConfigFacts
<1>4. /\ stop # NaN /\ ~(risk <= 0) /\ ~(Quantity(entry, risk, a) <= 0)
      /\ cfg.sizing = "VOLATILITY_BASED" => a # NaN /\ ~(a <= 0)
  BY OutcomeFacts
<1>5. stop \in Int
  BY <1>1, <1>2, <1>3, <1>4, StopIsNumber
<1>6. risk \in Nat \ {0}
  BY <1>2, <1>4, <1>5
<1>7. cfg.sizing = "VOLATILITY_BASED" => a \in Nat \ {0}
  BY <1>3, <1>4
<1>8. PICK q \in Int : q = Quantity(entry, risk, a)
  BY <1>1, <1>2, <1>6, <1>7, QuantityFacts
<1>9. /\ 100 * entry * q <= cfg.leverage * balance
      /\ cfg.sizing = "FIXED_RISK" => 10000 * risk * q <= cfg.sizeBy * balance
      /\ q > 0
  <2>1. /\ 100 * entry * Quantity(entry, risk, a) <= cfg.leverage * balance
        /\ cfg.sizing = "FIXED_RISK" => 10000 * risk * Quantity(entry, risk, a) <= cfg.sizeBy * balance
    BY <1>1, <1>2, <1>6, <1>7, QuantityFacts
  <2>2. q > 0
    BY <1>4, <1>8
  <2> QED
    BY <1>8, <2>1, <2>2
<1>10. PICK target \in Int \cup {NaN} : target = TargetAt(side, entry, risk)
  BY <1>1, <1>2, <1>6, TargetFacts
<1>11. target # NaN => IF side = "LONG" THEN entry <= target ELSE target <= entry
  BY <1>1, <1>2, <1>6, <1>10, TargetFacts
<1>12. PICK at \in Int : at = EntryTime
  <2>1. BarClose(k) \in Int
    BY <1>1, Clock
  <2> QED
    BY <2>1 DEF EntryTime
<1>13. PICK fee \in Int : fee = entry * q * cfg.entryFee
  <2>1. PICK f \in Int : f = cfg.entryFee
    BY <1>1, ConfigFacts
  <2>2. entry * q * f \in Int
    BY <1>2
  <2> QED
    BY <2>1, <2>2
<1>14. p = [side |-> side, entry |-> entry, entryTime |-> at, quantity |-> q, stop |-> stop,
            initialStop |-> stop, target |-> target, entryFee |-> fee, balanceBefore |-> balance]
  BY <1>8, <1>10, <1>12, <1>13
<1>15. p \in Position
  BY <1>1, <1>2, <1>5, <1>14 DEF Position
<1>16. Abs(entry - stop) = risk /\ IF side = "LONG" THEN stop < entry ELSE entry < stop
  BY <1>2, <1>5, <1>6 DEF Abs
<1>17. SizeOK(p)
  BY <1>9, <1>14, <1>16 DEF SizeOK
<1>18. cfg.entryFill = "CLOSE" /\ cfg.slippageBps = 0
         => LET close == bar[cfg.parts].close * 10000
            IN entry = IF side = "LONG" THEN RoundUp(close, 10000) ELSE RoundDown(close, 10000)
  BY EntryFillFacts
<1> QED
  BY <1>2, <1>9, <1>11, <1>12, <1>13, <1>14, <1>15, <1>16, <1>17, <1>18 DEF Opened

LEMMA TakeSignalStep == ASSUME Inv, NEW side \in Signals \ {"NONE"}, TakeSignal(side) PROVE Inv'
<1>1. /\ pc = "entry" /\ EntryPrice(side) # NaN /\ pc' = "next"
      /\ UNCHANGED <<cfg, k, bar, ahead, part, exited, balance, trades>>
  BY DEF TakeSignal
<1>2. /\ ~Open /\ ~exited /\ k > 0 /\ k \in Nat /\ bar \in BarsOf(cfg) /\ cfg \in Configs
      /\ side \in cfg.directions /\ side \in Sides
  BY <1>1, Facts, SideFacts DEF Inv, ClockInv
<1>3. PICK entry : entry = EntryFill(side, EntryPrice(side))
  OBVIOUS
<1>4. PICK quality \in Qualities(side, entry), v \in cfg.levels, a \in cfg.atrs :
        LET stop == StopAt(side, entry, v)
            risk == IF side = "LONG" THEN entry - stop ELSE stop - entry
            outcome == Outcome(side, entry, quality, stop, a)
        IN /\ funnel' = IF outcome = "uncounted" THEN funnel ELSE Count(funnel, outcome)
           /\ position' = IF outcome # "acceptedEntries" THEN NoPosition
                          ELSE [side |-> side, entry |-> entry, entryTime |-> EntryTime,
                                quantity |-> Quantity(entry, risk, a), stop |-> stop, initialStop |-> stop,
                                target |-> TargetAt(side, entry, risk),
                                entryFee |-> entry * Quantity(entry, risk, a) * cfg.entryFee,
                                balanceBefore |-> balance]
  BY <1>3 DEF TakeSignal
<1>5. PICK stop, risk : /\ stop = StopAt(side, entry, v)
                        /\ risk = IF side = "LONG" THEN entry - stop ELSE stop - entry
  OBVIOUS
<1>6. PICK outcome : outcome = Outcome(side, entry, quality, stop, a)
  OBVIOUS
<1>7. /\ funnel' = IF outcome = "uncounted" THEN funnel ELSE Count(funnel, outcome)
      /\ position' = IF outcome # "acceptedEntries" THEN NoPosition
                     ELSE [side |-> side, entry |-> entry, entryTime |-> EntryTime,
                           quantity |-> Quantity(entry, risk, a), stop |-> stop, initialStop |-> stop,
                           target |-> TargetAt(side, entry, risk),
                           entryFee |-> entry * Quantity(entry, risk, a) * cfg.entryFee,
                           balanceBefore |-> balance]
  BY <1>4, <1>5, <1>6
<1>8. /\ entry = EntryFill(side, EntryPrice(side))
      /\ stop = StopAt(side, entry, v)
      /\ risk = IF side = "LONG" THEN entry - stop ELSE stop - entry
      /\ outcome = Outcome(side, entry, quality, stop, a)
  BY <1>3, <1>5, <1>6
<1>9. outcome \in {"rejectedWarmup", "entryQualityRejected", "uncounted", "exchangeRejected", "acceptedEntries"}
  BY <1>8, OutcomeFacts
<1>10. /\ FunnelInv'
       /\ funnel'.acceptedEntries = funnel.acceptedEntries + (IF outcome = "acceptedEntries" THEN 1 ELSE 0)
  BY <1>7, <1>9, OutcomeCounts
<1>11. funnel.acceptedEntries = Len(trades) /\ Len(trades) \in Nat
  BY <1>2, Facts, LenProperties DEF Inv, Accounted
<1>12. bar \in BarsOf(cfg) \cup {<<>>} /\ ahead \in BarsOf(cfg) \cup {<<>>}
  BY DEF Inv, TypeOK
<1>13. CASE outcome # "acceptedEntries"
  <2>1. position' = NoPosition /\ ~Open'
    BY <1>7, <1>13 DEF Open
  <2>2. TypeOK'
    BY <1>1, <1>2, <1>10, <1>12, <2>1, Facts DEF TypeOK, FunnelInv, BarsOf
  <2>3. ClockInv'
    BY <1>1, <1>2, <2>1, Facts DEF Inv, ClockInv, BarsOf
  <2>4. Accounted'
    BY <1>1, <1>10, <1>11, <1>13, <2>1, AccountedFrame
  <2>5. TradesInv'
    BY <1>1, <1>2, <2>1, TradesFrame
  <2> QED
    BY <2>1, <2>2, <2>3, <2>4, <2>5 DEF Inv, PositionInv
<1>14. CASE outcome = "acceptedEntries"
  <2>1. PICK p : p = position' /\ Opened(p, side)
    <3>1. PICK p : p = [side |-> side, entry |-> entry, entryTime |-> EntryTime,
                        quantity |-> Quantity(entry, risk, a), stop |-> stop, initialStop |-> stop,
                        target |-> TargetAt(side, entry, risk),
                        entryFee |-> entry * Quantity(entry, risk, a) * cfg.entryFee,
                        balanceBefore |-> balance]
      OBVIOUS
    <3>2. /\ pc = "entry" /\ side \in Sides /\ EntryPrice(side) # NaN
          /\ Outcome(side, entry, quality, stop, a) = "acceptedEntries"
      BY <1>1, <1>2, <1>8, <1>14
    <3>3. Opened(p, side)
      BY <1>8, <3>1, <3>2, OpenedFacts
    <3> QED
      BY <1>7, <1>14, <3>1, <3>3
  <2>2. p \in Position /\ p.side = side /\ (Longs(p) <=> side = "LONG")
    BY <2>1 DEF Opened, Longs
  <2>3. Open' /\ position' \in Position
    BY <2>1, <2>2, SidesOfPosition DEF Open
  <2>4. TypeOK'
    <3>1. IF Longs(p) THEN p.initialStop < p.entry /\ p.initialStop <= p.stop
          ELSE p.entry < p.initialStop /\ p.stop <= p.initialStop
      BY <2>1, <2>2, SidesOfPosition DEF Opened
    <3>2. p.side \in cfg.directions /\ p.quantity > 0
      BY <1>2, <2>1, <2>2 DEF Opened
    <3> QED
      BY <1>1, <1>2, <1>10, <1>12, <2>1, <2>3, <3>1, <3>2, Facts DEF TypeOK, FunnelInv, BarsOf
  <2>5. PositionInv'
    BY <1>1, <2>1, <2>2 DEF PositionInv, Opened, SizeOK, Longs
  <2>6. p.entryTime = EntryTime /\ BarClose(k) \in Int
    BY <1>2, <2>1, Clock DEF Opened
  <2>7. Fresh'
    <3>1. EntryTime \in {BarClose(k), BarClose(k) + 1}
      BY DEF EntryTime
    <3>2. cfg.entryFill # "NEXT_OPEN" \/ ahead = <<>> => EntryTime = BarClose(k)
      BY <1>1, <1>2, EntryPriceFacts DEF EntryTime
    <3>3. BarClose(k)' = BarClose(k)
      BY <1>1 DEF BarClose
    <3>4. cfg.entryFill = "CLOSE" /\ cfg.slippageBps = 0
            => LET at == bar[cfg.parts].close * 10000
               IN p.entry = IF Longs(p) THEN RoundUp(at, 10000) ELSE RoundDown(at, 10000)
      BY <2>1, <2>2 DEF Opened, Longs
    <3> QED
      BY <1>1, <2>1, <2>6, <3>1, <3>2, <3>3, <3>4 DEF Fresh
  <2>8. ClockInv'
    BY <1>1, <1>2, <2>7, Facts DEF Inv, ClockInv, BarsOf
  <2>9. Accounted'
    BY <1>1, <1>10, <1>11, <1>14, <2>3, AccountedFrame
  <2>10. TradesInv'
    <3>1. p.entryTime \in Int /\ BarClose(k) <= p.entryTime
      BY <2>6 DEF EntryTime
    <3> QED
      BY <1>1, <1>2, <2>1, <3>1, TradesFrame
  <2> QED
    BY <2>4, <2>5, <2>8, <2>9, <2>10 DEF Inv
<1> QED
  BY <1>13, <1>14

-----------------------------------------------------------------------------
(* The theorems. *)

LEMMA ElementAt ==
  ASSUME NEW S, NEW s \in Seq(S), NEW i \in DOMAIN s
  PROVE  s[i] \in S
  BY ElementOfSeq, LenProperties

LEMMA InitInv == ASSUME Init PROVE Inv
<1>1. /\ cfg \in Configs /\ k = 0 /\ bar = <<>> /\ ahead \in BarsOf(cfg) /\ pc = "next" /\ part = 1
      /\ exited = FALSE /\ position = NoPosition /\ balance = cfg.initial /\ trades = <<>> /\ funnel = Funnel
  BY DEF Init
<1>2. /\ ~Open /\ Window \in Nat \ {0} /\ cfg.parts \in {1, 2} /\ cfg.initial \in Nat
      /\ Len(trades) = 0 /\ DOMAIN trades = {}
  BY <1>1, SimulationAssumption, ConfigFacts DEF Open
<1>3. Funnel \in [Counters -> Nat] /\ \A c \in Counters : Funnel[c] = 0
  BY DEF Funnel
<1>4. balance \in Int /\ trades \in Seq(TradeRecord)
  BY <1>1, <1>2
<1>5. TypeOK
  <2>1. part \in 1 .. cfg.parts + 1 /\ k \in 0 .. Window
    BY <1>1, <1>2
  <2>2. funnel \in [Counters -> Nat]
    BY <1>1, <1>3
  <2>3. position \in Position \cup {NoPosition}
    BY <1>1
  <2> QED
    BY <1>1, <1>2, <1>4, <2>1, <2>2, <2>3 DEF TypeOK
<1>6. ClockInv
  BY <1>1, <1>2 DEF ClockInv
<1>7. Accounted
  <2>1. /\ funnel["acceptedEntries"] = 0 /\ funnel["ambiguousFills"] = 0
        /\ funnel["conservativeResolutions"] = 0 /\ funnel["favorableResolutions"] = 0
    BY <1>1, <1>3 DEF Counters
  <2> QED
    BY <1>1, <1>2, <2>1 DEF Accounted, BalanceAfter
<1> QED
  BY <1>1, <1>2, <1>5, <1>6, <1>7 DEF Inv, PositionInv, TradesInv

LEMMA StutterStep == ASSUME Inv, UNCHANGED vars PROVE Inv'
<1>1. Chooses /\ pc' = pc
  BY DEF vars, Chooses
<1>2. TypeOK' /\ ClockInv'
  BY <1>1 DEF Chooses, Inv, TypeOK, ClockInv, Open, Held, Fresh, Survived, BarsOf, BarClose, Longs
<1> QED
  BY <1>1, <1>2, Facts, Untouched DEF Chooses

LEMMA NextInv == ASSUME Inv, [Next]_vars PROVE Inv'
<1>1. CASE NextBar
  BY <1>1, NextBarStep
<1>2. CASE Cancel
  BY <1>2, CancelStep
<1>3. CASE WindowEnds
  BY <1>3, WindowEndsStep
<1>4. CASE EndOfTest
  BY <1>4, EndOfTestStep
<1>5. CASE CheckCandle
  BY <1>5, CheckCandleStep
<1>6. CASE NothingOpen
  BY <1>6, NothingOpenStep
<1>7. CASE SignalExit
  BY <1>7, SignalExitStep
<1>8. CASE Settled
  BY <1>8, SettledStep
<1>9. CASE NoEntry
  BY <1>9, NoEntryStep
<1>10. CASE NoNextOpen
  BY <1>10, NoNextOpenStep
<1>11. CASE \E side \in Signals \ {"NONE"} : TakeSignal(side)
  BY <1>11, TakeSignalStep
<1>12. CASE UNCHANGED vars
  BY <1>12, StutterStep
<1> QED
  BY <1>1, <1>2, <1>3, <1>4, <1>5, <1>6, <1>7, <1>8, <1>9, <1>10, <1>11, <1>12 DEF Next

\* The inductive invariant of the bar loop: what is known of the position
\* between two bars and between two candles of one, and of every trade made.
THEOREM InvAlways == Spec => []Inv
<1>1. Init => Inv
  BY InitInv
<1>2. Inv /\ [Next]_vars => Inv'
  BY NextInv
<1> QED
  BY <1>1, <1>2, PTL DEF Spec

\* Every value the loop computes stays a number of its kind: no stop, fill or
\* quantity of an open position is the missing value, and the initial stop of
\* a position lies on the losing side of its entry.
THEOREM TypeCorrect == Spec => []TypeOK
<1>1. Inv => TypeOK
  BY DEF Inv
<1> QED
  BY <1>1, InvAlways, PTL

\* The balance is the initial one and what the fills of the trades made, and
\* no accepted entry is lost, whatever exits, fees and funding there were.
THEOREM AccountedAlways == Spec => []Accounted
<1>1. Inv => Accounted
  BY DEF Inv
<1> QED
  BY <1>1, InvAlways, PTL

\* A trade is within the leverage and the risked part of the balance, and loses
\* no more than its initial stop allows but for a tick.
THEOREM LossBoundedAlways == Spec => []LossBounded
<1>1. ASSUME Inv PROVE LossBounded
  <2>1. ASSUME NEW i \in DOMAIN trades PROVE TradeOK(trades[i])
    BY <1>1 DEF Inv, TradesInv
  <2> QED
    BY <2>1 DEF LossBounded, TradeOK, SizeOK
<1> QED
  BY <1>1, InvAlways, PTL

\* Trades lie in the window and follow each other, and a test that runs to its
\* end leaves none open that it should close, when there are no candles after
\* the window or entries are not filled at the next open.
THEOREM TradesInOrderAlways == ASSUME Sealed PROVE Spec => []TradesInOrder
<1>1. ASSUME Inv PROVE TradesInOrder
  <2>1. k \in Nat /\ Window \in Nat /\ k <= Window /\ trades \in Seq(TradeRecord)
    BY <1>1, Facts
  <2>2. BarClose(k) \in Int /\ BarClose(Window) \in Int /\ BarClose(k) <= BarClose(Window)
    BY <2>1, Clock
  <2>3. ASSUME NEW i \in DOMAIN trades
        PROVE  /\ trades[i].entryTime <= trades[i].exitTime /\ trades[i].exitTime <= BarClose(Window)
               /\ i > 1 => trades[i - 1].exitTime <= trades[i].entryTime
    <3>1. TradeOK(trades[i]) /\ (i > 1 => trades[i - 1].exitTime <= trades[i].entryTime)
      BY <1>1 DEF Inv, TradesInv
    <3>2. trades[i].exitTime \in Int
      <4>1. trades[i] \in TradeRecord
        BY <2>1, ElementAt
      <4> QED
        BY <4>1 DEF TradeRecord
    <3>3. trades[i].entryTime <= trades[i].exitTime /\ trades[i].exitTime <= BarClose(k)
      BY <3>1 DEF TradeOK
    <3> QED
      BY <2>2, <3>1, <3>2, <3>3
  <2> QED
    BY <1>1, <2>3 DEF TradesInOrder, Inv, ClockInv
<1> QED
  BY <1>1, InvAlways, PTL

\* Nor is a trade opened at a price from after the end of the window then.
THEOREM NoFuturePriceAlways == ASSUME Sealed PROVE Spec => []NoFuturePrice
<1>1. ASSUME Inv PROVE NoFuturePrice
  <2>1. k \in Nat /\ Window \in Nat /\ k <= Window /\ trades \in Seq(TradeRecord)
    BY <1>1, Facts
  <2>2. BarClose(k) \in Int /\ BarClose(Window) \in Int /\ BarClose(k) <= BarClose(Window)
    BY <2>1, Clock
  <2>3. ASSUME NEW i \in DOMAIN trades PROVE trades[i].entryTime <= BarClose(Window)
    <3>1. trades[i].exitTime \in Int /\ trades[i].entryTime \in Int
      <4>1. trades[i] \in TradeRecord
        BY <2>1, ElementAt
      <4> QED
        BY <4>1 DEF TradeRecord
    <3>2. trades[i].entryTime <= trades[i].exitTime /\ trades[i].exitTime <= BarClose(k)
      BY <1>1 DEF Inv, TradesInv, TradeOK
    <3> QED
      BY <2>2, <3>1, <3>2
  <2> QED
    BY <2>3 DEF NoFuturePrice
<1> QED
  BY <1>1, InvAlways, PTL

=============================================================================
