------------------------------ MODULE Simulation ------------------------------
(***************************************************************************)
(* The historical simulation of one strategy over one window: bar by bar   *)
(* the exits of the open position, then an entry; fills, sizing, fees,     *)
(* funding and the balance.  Candles and the values of the references in   *)
(* conditions, stops and filters are chosen freely; the arithmetic is      *)
(* exact, in these units:                                                  *)
(*   a price is a multiple of 1/Tick of the tick size, a quantity of the   *)
(*   step size, money of price * quantity / 100;                           *)
(*   a bar closes at time 4 * k and the next one opens at 4 * k + 1.       *)
(***************************************************************************)
EXTENDS Integers, Sequences, FiniteSets, SequencesExt

CONSTANTS
    Configs,     \* the strategy configurations
    Conditions,  \* the nodes of their conditions
    Bars,        \* candles: [open, high, low, close]
    Window,      \* bound: bars in the window
    DataBeyond,  \* whether there are candles after the end of the window
    CancelEvery, \* bars between two looks at shouldCancel
    Tick,        \* price units in a tick
    NaN          \* what the code writes as null, undefined or not a number

ASSUME SimulationAssumption ==
    /\ {Window, CancelEvery, Tick} \subseteq Nat \ {0}
    /\ DataBeyond \in BOOLEAN
    /\ NaN \notin Int
    /\ \A b \in Bars : /\ {b.open, b.high, b.low, b.close} \subseteq Nat \ {0}
                       /\ {b.open, b.close} \subseteq b.low .. b.high

\* What the schema of a configuration demands.
ASSUME ConfigAssumption ==
    \A c \in Configs :
        /\ c.parts \in {1, 2} /\ c.directions \subseteq {"LONG", "SHORT"}
        /\ {c.entryFill, c.exitFill} \subseteq {"CLOSE", "WORST_CASE", "NEXT_OPEN"}
        /\ c.stop \in {"PERCENTAGE", "ATR", "STRUCTURE"} /\ c.target \in {"NONE", "R_MULTIPLE", "PERCENTAGE"}
        /\ c.trail \in {"NONE", "PERCENTAGE", "ATR", "LEVEL"}
        /\ c.sizing \in {"FIXED_NOTIONAL", "EQUITY_PERCENT", "FIXED_RISK", "VOLATILITY_BASED"}
        /\ {c.initial, c.entryFee, c.exitFee, c.stopBy, c.trailBy, c.targetBy, c.sizeBy, c.leverage} \subseteq Nat
        /\ {c.funding, c.minimumRiskReward, c.minQty, c.minNotional} \subseteq Int
        /\ c.levels \cup c.atrs \subseteq Int \cup {NaN}
        /\ c.slippageBps \in Nat /\ c.slippageBps <= 10000

\* Prices are worth a tick after slippage: sizes are quotients by the entry.
ASSUME TickAssumption ==
    \A c \in Configs : \A b \in Bars : b.low * (10000 - c.slippageBps) >= 10000 * Tick

\* The operators of conditions on one right operand, on none and on two.
Scalar    == {">", ">=", "<", "<=", "==", "!=", "crosses_above", "crosses_below"}
Flags     == {"is_true", "is_false"}
Intervals == {"between", "outside"}
Leaves    == Scalar \cup Flags \cup Intervals

\* A group's children are nodes too, and a leaf has as many right operands as
\* its operator takes.
ASSUME ConditionAssumption ==
    /\ \A c \in Configs : {c.longEntry, c.shortEntry, c.longExit, c.shortExit} \subseteq Conditions
    /\ \A n \in Conditions :
          /\ n.op \in Scalar => Len(n.right) = 1
          /\ n.op \in Flags => n.right = <<>>
          /\ n.op \in Intervals => Len(n.right) = 2
    /\ \A n \in Conditions : n.op \in {"AND", "OR", "NOT"} => n.children \in Seq(Conditions) \ {<<>>}

VARIABLES
    cfg,       \* the configuration
    k,         \* bars begun so far
    bar,       \* the execution candles of the current bar, one or two
    ahead,     \* those of the next bar, <<>> if there is none
    pc,        \* what comes next
    part,      \* the execution candle that is checked next
    exited,    \* whether the position was closed on this bar
    position,  \* the open position, or NoPosition
    balance,
    trades,    \* the completed trades
    funnel     \* counts of what became of the signals

vars == <<cfg, k, bar, ahead, pc, part, exited, position, balance, trades, funnel>>

NoPosition == [side |-> "NONE"]
Longs(p) == p.side = "LONG"
Open == position # NoPosition

Counters == {"acceptedEntries", "rejectedWarmup", "entryQualityRejected", "exchangeRejected",
             "ambiguousFills", "conservativeResolutions", "favorableResolutions"}
Funnel == [counter \in Counters |-> 0]
Count(f, key) == [f EXCEPT ![key] = @ + 1]

BarClose(n) == 4 * n
\* With a lower execution timeframe, the first of the two candles of a bar.
PartClose == IF part < Len(bar) THEN BarClose(k) - 2 ELSE BarClose(k)
\* The candle of the trigger timeframe.
Trigger(parts) ==
    [open  |-> Head(parts).open, close |-> Last(parts).close,
     high  |-> Max({parts[i].high : i \in DOMAIN parts}),
     low   |-> Min({parts[i].low : i \in DOMAIN parts})]
BarsOf(c) == [1 .. c.parts -> Bars]

Sides == {"LONG", "SHORT"}
Reasons == {"STOP_LOSS", "TRAILING_STOP", "TAKE_PROFIT", "STRATEGY_EXIT", "END_OF_TEST"}
Position ==
    [side : Sides, entry : Int, entryTime : Int, quantity : Int, stop : Int, initialStop : Int,
     target : Int \cup {NaN}, entryFee : Int, balanceBefore : Int]
TradeRecord ==
    [side : Sides, entryTime : Int, exitTime : Int, entry : Int, exit : Int, rawExit : Int,
     quantity : Int, net : Int, fees : Int, funding : Int, initialStop : Int, balanceBefore : Int,
     reason : Reasons]

TypeOK ==
    /\ cfg \in Configs /\ k \in 0 .. Window
    /\ pc \in {"next", "exits", "signal", "settled", "entry", "end", "done", "cancelled"}
    /\ bar \in BarsOf(cfg) \cup {<<>>} /\ ahead \in BarsOf(cfg) \cup {<<>>}
    /\ part \in 1 .. cfg.parts + 1 /\ exited \in BOOLEAN
    /\ balance \in Int /\ trades \in Seq(TradeRecord) /\ funnel \in [Counters -> Nat]
    /\ position \in Position \cup {NoPosition}
    /\ Open => /\ position.side \in cfg.directions /\ position.quantity > 0
               /\ IF Longs(position) THEN position.initialStop < position.entry /\ position.initialStop <= position.stop
                  ELSE position.entry < position.initialStop /\ position.stop <= position.initialStop
    /\ exited => ~Open

Init ==
    /\ cfg \in Configs /\ k = 0 /\ bar = <<>>
    /\ ahead \in BarsOf(cfg)
    /\ pc = "next" /\ part = 1 /\ exited = FALSE
    /\ position = NoPosition /\ balance = cfg.initial /\ trades = <<>> /\ funnel = Funnel

-----------------------------------------------------------------------------
(* Conditions.  A reference has a value now, the one before it, and a      *)
(* statement on why it would have none.                                    *)

Environments == [{"x", "y", "z"} -> cfg.values]

Missing == {"MISSING_REQUIRED_DATA", "EXPECTED_WARMUP_MISSING"}
Verdict(passed) == IF passed THEN "TRUE" ELSE "FALSE"

\* r holds the right operands.  The value before may be missing: no comparison
\* with it holds.
Compares(op, l, r) ==
    CASE op = ">" -> l.now > r[1].now
      [] op = ">=" -> l.now >= r[1].now
      [] op = "<" -> l.now < r[1].now
      [] op = "<=" -> l.now <= r[1].now
      [] op = "==" -> l.now = r[1].now
      [] op = "!=" -> l.now # r[1].now
      [] op = "is_true" -> l.now # 0
      [] op = "is_false" -> l.now = 0
      [] op = "between" -> r[1].now <= l.now /\ l.now <= r[2].now
      [] op = "outside" -> l.now < r[1].now \/ r[2].now < l.now
      [] op = "crosses_above" -> NaN \notin {l.before, r[1].before} /\ l.before <= r[1].before /\ l.now > r[1].now
      [] op = "crosses_below" -> NaN \notin {l.before, r[1].before} /\ l.before >= r[1].before /\ l.now < r[1].now

Leaf(node, env) ==
    LET l == env[node.left]
        r == [i \in DOMAIN node.right |-> env[node.right[i]]]
        refs == {l} \cup ToSet(r)
        why == {ref.why : ref \in refs}
    IN IF \A ref \in refs : ref.now # NaN THEN Verdict(Compares(node.op, l, r))
       ELSE CASE "MISSING_REQUIRED_DATA" \in why -> "MISSING_REQUIRED_DATA"
              [] why \cap Missing = {"EXPECTED_WARMUP_MISSING"} -> "EXPECTED_WARMUP_MISSING"
              [] OTHER -> "NON_FINITE_VALUE"

\* A group in which a child is neither true nor false is what that child is.
Group(op, results) ==
    LET errors == SelectSeq(results, LAMBDA r : r \notin {"TRUE", "FALSE"})
    IN IF errors # <<>> THEN Head(errors)
       ELSE CASE op = "NOT" -> Verdict(results[1] = "FALSE")
              [] op = "AND" -> Verdict("FALSE" \notin ToSet(results))
              [] op = "OR" -> Verdict("TRUE" \in ToSet(results))

evaluateCondition(root, env) ==
    LET status[node \in Conditions] ==
            CASE node.op = "NONE" -> "FALSE"
              [] node.op \in Leaves -> Leaf(node, env)
              [] node.op \in {"AND", "OR", "NOT"} ->
                   Group(node.op, [i \in DOMAIN node.children |-> status[node.children[i]]])
    IN status[root]

Passes(node, env) == evaluateCondition(node, env) = "TRUE"
ExitPasses(env) == Passes(IF Longs(position) THEN cfg.longExit ELSE cfg.shortExit, env)

-----------------------------------------------------------------------------
(* Fills. *)

RoundDown(num, den) == (num \div (den * Tick)) * Tick
RoundUp(num, den)   == - ((- num) \div (den * Tick)) * Tick

\* The fill of a buy is moved up, of a sell down, and rounded to a tick in the
\* same direction.
Bought(price) == RoundUp(price * (10000 + cfg.slippageBps), 10000)
Sold(price)   == RoundDown(price * (10000 - cfg.slippageBps), 10000)
EntryFill(side, price) == IF side = "LONG" THEN Bought(price) ELSE Sold(price)
ExitFill(side, price)  == IF side = "LONG" THEN Sold(price) ELSE Bought(price)

\* The price a signal is filled at before slippage, NaN when there is none.
EntryPrice(side) ==
    CASE cfg.entryFill = "CLOSE" -> Trigger(bar).close
      [] cfg.entryFill = "WORST_CASE" -> IF side = "LONG" THEN Trigger(bar).high ELSE Trigger(bar).low
      [] cfg.entryFill = "NEXT_OPEN" -> IF ahead = <<>> THEN NaN ELSE Head(ahead).open
EntryTime == IF cfg.entryFill = "NEXT_OPEN" THEN BarClose(k) + 1 ELSE BarClose(k)
ExitPrice(side) ==
    CASE cfg.exitFill = "CLOSE" -> Trigger(bar).close
      [] cfg.exitFill = "WORST_CASE" -> IF side = "LONG" THEN Trigger(bar).low ELSE Trigger(bar).high
      [] cfg.exitFill = "NEXT_OPEN" -> IF ahead = <<>> THEN Trigger(bar).close ELSE Head(ahead).open

\* Half bars between two times: funding accrues per half bar.
Holding(from, to) == IF to <= from THEN 0 ELSE (to - from + 1) \div 2

\* closePosition: the trade of a position that is closed at a price.
Trade(p, price, at, reason) ==
    LET exit  == ExitFill(p.side, price)
        gross == 100 * p.quantity * (IF Longs(p) THEN exit - p.entry ELSE p.entry - exit)
        fees  == p.entryFee + exit * p.quantity * cfg.exitFee
        charge == p.entry * p.quantity * cfg.funding * Holding(p.entryTime, at)
        net   == gross - fees - (IF Longs(p) THEN charge ELSE - charge)
    IN [side |-> p.side, entryTime |-> p.entryTime, exitTime |-> at, entry |-> p.entry, exit |-> exit,
        rawExit |-> price, quantity |-> p.quantity, net |-> net, fees |-> fees,
        funding |-> (IF Longs(p) THEN - charge ELSE charge), reason |-> reason,
        initialStop |-> p.initialStop, balanceBefore |-> p.balanceBefore]

\* DropsEntryFee: a slip, the balance is charged the fee of the exit only.
DropsEntryFee(p, price, at, reason) ==
    LET t == Trade(p, price, at, reason)
    IN balance' = balance + t.net + p.entryFee /\ trades' = Append(trades, t) /\ position' = NoPosition
Close(p, price, at, reason) ==
    LET t == Trade(p, price, at, reason)
    IN balance' = balance + t.net /\ trades' = Append(trades, t) /\ position' = NoPosition

-----------------------------------------------------------------------------
(* Exits. *)

\* LoosensStop: a slip, the stop follows the trail in both directions.
LoosensStop(p, candidate) == candidate
\* A trail may tighten a stop, never loosen it.
Ratchet(p, candidate) == IF Longs(p) THEN Max({p.stop, candidate}) ELSE Min({p.stop, candidate})

\* The stop after the trailing policy has seen a candle; v is the value of
\* its indicator.
Trailed(p, c, v) ==
    LET extreme == IF Longs(p) THEN c.high ELSE c.low
        sign == IF Longs(p) THEN -1 ELSE 1
    IN CASE cfg.trail = "NONE" -> p.stop
         [] cfg.trail = "PERCENTAGE" -> Ratchet(p, (extreme * (100 + sign * cfg.trailBy)) \div 100)
         [] cfg.trail = "ATR" -> IF v = NaN THEN p.stop ELSE Ratchet(p, extreme + sign * v * cfg.trailBy)
         [] cfg.trail = "LEVEL" -> IF v = NaN THEN p.stop ELSE Ratchet(p, v)

StopReason == IF cfg.trail = "NONE" THEN "STOP_LOSS" ELSE "TRAILING_STOP"

\* checkExit: the trail, then stop and target, of which the policy chooses
\* when the candle reaches both, then the exit condition.
CheckExit(c, v, signal) ==
    LET p == [position EXCEPT !.stop = Trailed(position, c, v)]
        stopHit == IF Longs(p) THEN c.low <= p.stop ELSE c.high >= p.stop
        targetHit == p.target # NaN /\ IF Longs(p) THEN c.high >= p.target ELSE c.low <= p.target
        atTarget == targetHit /\ (stopHit => cfg.sameBar = "TARGET_FIRST")
    IN \/ /\ stopHit \/ targetHit
          /\ Close(p, IF atTarget THEN p.target ELSE p.stop, PartClose,
                   IF atTarget THEN "TAKE_PROFIT" ELSE StopReason)
          /\ funnel' = IF stopHit /\ targetHit
                       THEN Count(Count(funnel, "ambiguousFills"),
                                  IF atTarget THEN "favorableResolutions" ELSE "conservativeResolutions")
                       ELSE funnel
          /\ exited' = TRUE /\ pc' = "settled" /\ part' = part
       \/ /\ ~stopHit /\ ~targetHit
          /\ \/ /\ signal
                /\ Close(p, ExitPrice(p.side), BarClose(k), "STRATEGY_EXIT")
                /\ exited' = TRUE /\ pc' = "settled" /\ part' = part
             \/ /\ ~signal
                /\ position' = p /\ part' = part + 1
                /\ pc' = IF part < Len(bar) THEN "exits" ELSE IF Len(bar) > 1 THEN "signal" ELSE "settled"
                /\ UNCHANGED <<balance, trades, exited>>
          /\ UNCHANGED funnel

\* A candle of the execution timeframe; the exit condition is evaluated with
\* it when it is the trigger candle.
CheckCandle ==
    /\ pc = "exits" /\ Open
    /\ \E v \in cfg.levels :
          \E signal \in IF Len(bar) > 1 THEN {FALSE} ELSE {ExitPasses(env) : env \in Environments} :
             CheckExit(bar[part], v, signal)
    /\ UNCHANGED <<cfg, k, bar, ahead>>

NothingOpen ==
    /\ pc = "exits" /\ ~Open
    /\ pc' = "settled"
    /\ UNCHANGED <<cfg, k, bar, ahead, part, exited, position, balance, trades, funnel>>

\* With a lower execution timeframe, the exit condition of the trigger candle.
SignalExit ==
    /\ pc = "signal" /\ pc' = "settled"
    /\ \E env \in Environments :
          \/ /\ ExitPasses(env)
             /\ Close(position, ExitPrice(position.side), BarClose(k), "STRATEGY_EXIT") /\ exited' = TRUE
          \/ ~ExitPasses(env) /\ UNCHANGED <<position, balance, trades, exited>>
    /\ UNCHANGED <<cfg, k, bar, ahead, part, funnel>>

\* A depleted balance ends the test; a bar with an exit or an open position
\* takes no entry.
Settled ==
    /\ pc = "settled"
    /\ pc' = CASE balance <= 0 -> "end" [] balance > 0 /\ (exited \/ Open) -> "next" [] OTHER -> "entry"
    /\ UNCHANGED <<cfg, k, bar, ahead, part, exited, position, balance, trades, funnel>>

-----------------------------------------------------------------------------
(* Entries. *)

\* When both conditions pass the entry is long.
SideOf(env) ==
    CASE "LONG" \in cfg.directions /\ Passes(cfg.longEntry, env) -> "LONG"
      [] ~("LONG" \in cfg.directions /\ Passes(cfg.longEntry, env)) ->
           IF "SHORT" \in cfg.directions /\ Passes(cfg.shortEntry, env) THEN "SHORT" ELSE "NONE"
Signals == {SideOf(env) : env \in Environments}

Abs(x) == IF x < 0 THEN - x ELSE x

\* The four filters of an entry; one that is not configured is NaN.  r is its
\* reference, a an ATR, seen[i] what the breakout condition was i bars ago.
PriceExtension(entry, r, a) ==
    CASE cfg.quality.extension = NaN -> "PASS"
      [] cfg.quality.extension # NaN /\ (NaN \in {r, a} \/ a <= 0) -> "WARMUP"
      [] OTHER -> IF Abs(entry - r) > a * cfg.quality.extension THEN "QUALITY" ELSE "PASS"
ReferenceDistance(entry, r) ==
    CASE cfg.quality.distance = NaN -> "PASS"
      [] cfg.quality.distance # NaN /\ r \in {NaN, 0} -> "WARMUP"
      [] OTHER -> IF 100 * Abs(entry - r) > Abs(r) * cfg.quality.distance THEN "QUALITY" ELSE "PASS"
BarsSinceBreakout(seen) ==
    LET at == {i \in DOMAIN seen : seen[i] = "TRUE"}
        before == IF at = {} THEN DOMAIN seen ELSE 0 .. Min(at) - 1
    IN CASE cfg.quality.breakout = NaN -> "PASS"
         [] cfg.quality.breakout # NaN /\ at = {} ->
              IF \E i \in before : seen[i] \in Missing THEN "WARMUP" ELSE "QUALITY"
         [] OTHER -> IF Min(at) > cfg.quality.breakout THEN "QUALITY" ELSE "PASS"
LevelDistance(side, entry, r) ==
    CASE cfg.quality.level = NaN -> "PASS"
      [] cfg.quality.level # NaN /\ r = NaN -> "WARMUP"
      [] OTHER -> IF 100 * (IF side = "LONG" THEN r - entry ELSE entry - r) < entry * cfg.quality.level
                  THEN "QUALITY" ELSE "PASS"

\* What each filter may find, and the first that does not pass.
References(filter) == IF filter = NaN THEN {NaN} ELSE cfg.references
Breakouts == [0 .. cfg.quality.lookback -> {"TRUE", "FALSE", "EXPECTED_WARMUP_MISSING", "NON_FINITE_VALUE"}]
entryQualityResult(side, entry, r1, a, r2, seen, r3) ==
    LET results == <<PriceExtension(entry, r1, a), ReferenceDistance(entry, r2),
                     BarsSinceBreakout(seen), LevelDistance(side, entry, r3)>>
        failed == SelectSeq(results, LAMBDA r : r # "PASS")
    IN IF failed = <<>> THEN "PASS" ELSE Head(failed)
Qualities(side, entry) ==
    {entryQualityResult(side, entry, r1, a, r2, seen, r3) :
        r1 \in References(cfg.quality.extension), a \in cfg.atrs, r2 \in References(cfg.quality.distance),
        seen \in Breakouts, r3 \in References(cfg.quality.level)}

\* The initial stop at an entry, NaN when its indicator is not available.
StopAt(side, entry, v) ==
    LET sign == IF side = "LONG" THEN -1 ELSE 1
    IN CASE cfg.stop = "PERCENTAGE" -> (entry * (100 + sign * cfg.stopBy)) \div 100
         [] cfg.stop = "ATR" -> IF v = NaN THEN NaN ELSE entry + sign * v * cfg.stopBy
         [] cfg.stop = "STRUCTURE" -> v

TargetAt(side, entry, risk) ==
    LET sign == IF side = "LONG" THEN 1 ELSE -1
    IN CASE cfg.target = "NONE" -> NaN
         [] cfg.target = "R_MULTIPLE" -> entry + sign * risk * cfg.targetBy
         [] cfg.target = "PERCENTAGE" -> (entry * (100 + sign * cfg.targetBy)) \div 100

\* The quantity the sizing policy asks for; a is the ATR of volatility sizing.
Sized(entry, risk, a) ==
    CASE cfg.sizing = "FIXED_NOTIONAL" -> cfg.sizeBy \div entry
      [] cfg.sizing = "EQUITY_PERCENT" -> (balance * cfg.sizeBy) \div (10000 * entry)
      [] cfg.sizing = "FIXED_RISK" -> (balance * cfg.sizeBy) \div (10000 * risk)
      [] cfg.sizing = "VOLATILITY_BASED" -> (balance * cfg.sizeBy) \div (10000 * a)

\* IgnoresLeverage: a slip, the quantity is not capped.
IgnoresLeverage(entry, risk, a) == Sized(entry, risk, a)
\* The quantity is capped by the maximum leverage.
Quantity(entry, risk, a) == Min({Sized(entry, risk, a), (balance * cfg.leverage) \div (100 * entry)})

\* What becomes of a signal, in the order of the code's tests; a stop on the
\* wrong side of the entry is counted nowhere.
Outcome(side, entry, quality, stop, a) ==
    LET risk == IF side = "LONG" THEN entry - stop ELSE stop - entry
        target == TargetAt(side, entry, risk)
        quantity == Quantity(entry, risk, a)
    IN IF quality # "PASS" THEN IF quality = "WARMUP" THEN "rejectedWarmup" ELSE "entryQualityRejected"
       ELSE IF stop = NaN THEN "rejectedWarmup"
       ELSE IF risk <= 0 THEN "uncounted"
       ELSE IF cfg.minimumRiskReward > 0
                 /\ (target = NaN \/ Abs(target - entry) < cfg.minimumRiskReward * risk)
            THEN "entryQualityRejected"
       ELSE IF cfg.sizing = "VOLATILITY_BASED" /\ (a = NaN \/ a <= 0) THEN "rejectedWarmup"
       ELSE IF quantity <= 0 \/ quantity < cfg.minQty \/ entry * quantity < cfg.minNotional
            THEN "exchangeRejected"
       ELSE "acceptedEntries"

NoEntry ==
    /\ pc = "entry" /\ "NONE" \in Signals /\ pc' = "next"
    /\ UNCHANGED <<cfg, k, bar, ahead, part, exited, position, balance, trades, funnel>>

\* No candle follows whose open could fill the entry: the test ends.
NoNextOpen ==
    /\ pc = "entry" /\ \E side \in Signals \ {"NONE"} : EntryPrice(side) = NaN
    /\ pc' = "end"
    /\ UNCHANGED <<cfg, k, bar, ahead, part, exited, position, balance, trades, funnel>>

\* A signal; v is the value of the stop's indicator and a the ATR of the size.
TakeSignal(side) ==
    /\ pc = "entry" /\ EntryPrice(side) # NaN /\ pc' = "next"
    /\ \E quality \in Qualities(side, EntryFill(side, EntryPrice(side))) : \E v \in cfg.levels : \E a \in cfg.atrs :
          LET entry == EntryFill(side, EntryPrice(side))
              stop == StopAt(side, entry, v)
              risk == IF side = "LONG" THEN entry - stop ELSE stop - entry
              outcome == Outcome(side, entry, quality, stop, a)
          IN /\ funnel' = IF outcome = "uncounted" THEN funnel ELSE Count(funnel, outcome)
             /\ position' = IF outcome # "acceptedEntries" THEN NoPosition
                            ELSE [side |-> side, entry |-> entry, entryTime |-> EntryTime,
                                  quantity |-> Quantity(entry, risk, a), stop |-> stop, initialStop |-> stop,
                                  target |-> TargetAt(side, entry, risk),
                                  entryFee |-> entry * Quantity(entry, risk, a) * cfg.entryFee,
                                  balanceBefore |-> balance]
    /\ UNCHANGED <<cfg, k, bar, ahead, part, exited, balance, trades>>

-----------------------------------------------------------------------------

\* The next bar of the window.
NextBar ==
    /\ pc = "next" /\ k < Window
    /\ k' = k + 1 /\ bar' = ahead
    /\ ahead' \in IF k + 1 < Window THEN BarsOf(cfg)
                  ELSE IF DataBeyond THEN BarsOf(cfg) ELSE {<<>>}
    /\ pc' = "exits" /\ part' = 1 /\ exited' = FALSE
    /\ UNCHANGED <<cfg, position, balance, trades, funnel>>

\* shouldCancel: the result so far is returned and an open position left.
Cancel ==
    /\ pc = "next" /\ k < Window /\ k % CancelEvery = 0
    /\ pc' = "cancelled"
    /\ UNCHANGED <<cfg, k, bar, ahead, part, exited, position, balance, trades, funnel>>

\* The window ends.
WindowEnds ==
    /\ pc = "next" /\ k = Window /\ pc' = "end"
    /\ UNCHANGED <<cfg, k, bar, ahead, part, exited, position, balance, trades, funnel>>

\* OpensAtEnd: a slip, the entries made on the last bar are left open.
OpensAtEnd == Open /\ cfg.endOfTest = "CLOSE" /\ position.entryTime < BarClose(Window)
\* An open position is closed at the close of the last bar if the policy says so.
ClosesAtEnd == Open /\ cfg.endOfTest = "CLOSE"

EndOfTest ==
    /\ pc = "end" /\ pc' = "done"
    /\ \/ ClosesAtEnd /\ Close(position, Trigger(bar).close, BarClose(k), "END_OF_TEST")
       \/ ~ClosesAtEnd /\ UNCHANGED <<position, balance, trades>>
    /\ UNCHANGED <<cfg, k, bar, ahead, part, exited, funnel>>

Next ==
    \/ NextBar \/ Cancel \/ WindowEnds \/ EndOfTest
    \/ CheckCandle \/ NothingOpen \/ SignalExit \/ Settled
    \/ NoEntry \/ NoNextOpen \/ (\E side \in Signals \ {"NONE"} : TakeSignal(side))

Spec == Init /\ [][Next]_vars

-----------------------------------------------------------------------------
(* Properties. *)

\* The balance is the initial one and what the trades made, trade by trade,
\* recomputed from their fills as the fee audit does; every entry is a trade or
\* the open position; a fill that was ambiguous was resolved one way.
Recomputed(t) ==
    100 * t.quantity * (IF t.side = "LONG" THEN t.exit - t.entry ELSE t.entry - t.exit)
      - t.quantity * (t.entry * cfg.entryFee + t.exit * cfg.exitFee) + t.funding
BalanceAfter(n) == IF n = 0 THEN cfg.initial ELSE trades[n].balanceBefore + Recomputed(trades[n])

Accounted ==
    /\ \A i \in DOMAIN trades : trades[i].balanceBefore = BalanceAfter(i - 1)
    /\ balance = BalanceAfter(Len(trades))
    /\ funnel.acceptedEntries = Len(trades) + (IF Open THEN 1 ELSE 0)
    /\ funnel.ambiguousFills = funnel.conservativeResolutions + funnel.favorableResolutions

\* What a trade can lose: a quantity within the leverage and, with fixed risk,
\* within the risked part of the balance, and no more per unit than the
\* initial stop allows, whatever trail, order of the tests or end of test, but
\* for slippage, a tick of rounding, exits filled at the next open, and
\* an entry at the extreme of the last bar or after it, which the end of the test
\* closes before its stop was looked at.
LossBounded ==
    \A i \in DOMAIN trades :
        LET t == trades[i]
            risk == Abs(t.entry - t.initialStop)
            lost == IF t.side = "LONG" THEN t.entry - t.exit ELSE t.exit - t.entry
        IN /\ 100 * t.entry * t.quantity <= cfg.leverage * t.balanceBefore
           /\ cfg.sizing = "FIXED_RISK" => 10000 * risk * t.quantity <= cfg.sizeBy * t.balanceBefore
           /\ /\ cfg.slippageBps = 0
              /\ ~(t.reason = "STRATEGY_EXIT" /\ cfg.exitFill = "NEXT_OPEN")
              /\ cfg.entryFill = "CLOSE" \/ t.entryTime < t.exitTime
              => lost < risk + Tick

\* Trades lie in the window, end after they begin and follow each other.
TradesInOrder ==
    /\ \A i \in DOMAIN trades :
          /\ trades[i].entryTime <= trades[i].exitTime /\ trades[i].exitTime <= BarClose(Window)
          /\ i > 1 => trades[i - 1].exitTime <= trades[i].entryTime
    /\ pc = "done" /\ cfg.endOfTest = "CLOSE" => ~Open

\* No trade is opened at a price from after the end of the window.
NoFuturePrice == \A i \in DOMAIN trades : trades[i].entryTime <= BarClose(Window)

=============================================================================
