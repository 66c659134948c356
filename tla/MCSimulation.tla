---------------------------- MODULE MCSimulation ----------------------------
(* Instances of Simulation: candles, and configurations that among them take *)
(* every policy once. *)
EXTENDS Simulation

Candle(o, h, l, c) == [open |-> o, high |-> h, low |-> l, close |-> c]

\* A quiet bar, a rally, a bar that reaches stop and target, a gap down.
FourBars == {Candle(1000, 1000, 1000, 1000), Candle(1000, 1300, 1000, 1200),
             Candle(1000, 1300, 800, 1000), Candle(700, 800, 600, 700)}

\* References: the values of a rising, a falling and a missing one.
Known == [now |-> 2, before |-> 1, why |-> "AVAILABLE"]
Falling == [now |-> 1, before |-> 2, why |-> "AVAILABLE"]
First == [now |-> 2, before |-> NaN, why |-> "AVAILABLE"]
Warming == [now |-> NaN, before |-> NaN, why |-> "EXPECTED_WARMUP_MISSING"]
Absent == [now |-> NaN, before |-> NaN, why |-> "MISSING_REQUIRED_DATA"]
Undefined == [now |-> NaN, before |-> 1, why |-> "AVAILABLE"]
Zero == [now |-> 0, before |-> 1, why |-> "AVAILABLE"]
Test(op) == [op |-> op, left |-> "x", right |-> IF op \in Scalar THEN <<"y">> ELSE IF op \in Flags THEN <<>> ELSE <<"y", "z">>]
Node(op, children) == [op |-> op, children |-> children]
None == [op |-> "NONE"]

NoFilter == [extension |-> NaN, distance |-> NaN, breakout |-> NaN, lookback |-> 0, level |-> NaN]

Basic ==
    [directions |-> {"LONG"}, parts |-> 1, initial |-> 500000,
     entryFill |-> "CLOSE", exitFill |-> "CLOSE", slippageBps |-> 0,
     entryFee |-> 1, exitFee |-> 2, funding |-> 0,
     stop |-> "PERCENTAGE", stopBy |-> 10, trail |-> "NONE", trailBy |-> 0,
     target |-> "R_MULTIPLE", targetBy |-> 2, minimumRiskReward |-> 2, sameBar |-> "STOP_FIRST",
     sizing |-> "FIXED_RISK", sizeBy |-> 10, leverage |-> 1, minQty |-> 1, minNotional |-> 0,
     levels |-> {NaN}, atrs |-> {NaN}, quality |-> NoFilter, references |-> {},
     values |-> {Known, Falling}, longEntry |-> Test(">"), shortEntry |-> None, longExit |-> Test(">"), shortExit |-> Test("<="), endOfTest |-> "CLOSE"]

FiveConfigs ==
    {Basic,
     \* both directions, the next open, a percentage trail and slippage
     [Basic EXCEPT !.directions = {"LONG", "SHORT"}, !.entryFill = "NEXT_OPEN", !.exitFill = "NEXT_OPEN", !.stopBy = 20,
        !.trail = "PERCENTAGE", !.trailBy = 10, !.slippageBps = 50, !.target = "NONE",
        !.minimumRiskReward = 0, !.sizing = "EQUITY_PERCENT", !.sizeBy = 50, !.funding = 1,
        !.values = {Known, Falling, First, Warming}, !.longEntry = Test("crosses_above"),
        !.shortEntry = Node("OR", <<Test("outside"), Test("crosses_below")>>)],
     \* a lower execution timeframe, a level trail and a target first
     [Basic EXCEPT !.directions = {"SHORT"}, !.parts = 2, !.trail = "LEVEL", !.levels = {NaN, 900, 1100},
        !.sameBar = "TARGET_FIRST", !.entryFill = "WORST_CASE", !.exitFill = "WORST_CASE",
        !.target = "PERCENTAGE", !.targetBy = 10, !.minimumRiskReward = 0,
        !.shortEntry = Node("NOT", <<Test("is_false")>>), !.shortExit = Test("between"),
        !.values = {Known, Falling, Zero}, !.references = {NaN, 0, - 900, 900, 1000},
        !.quality = [NoFilter EXCEPT !.distance = 20, !.level = 5]],
     \* ATR stops, trails and sizes, and entries that are filtered
     [Basic EXCEPT !.stop = "ATR", !.stopBy = 1, !.trail = "ATR", !.trailBy = 2, !.levels = {NaN, 100},
        !.atrs = {NaN, 100}, !.sizing = "VOLATILITY_BASED", !.sizeBy = 20, !.minNotional = 8000,
        !.values = {Known, Falling, Warming, Absent, Undefined}, !.longEntry = Node("AND", <<Test(">"), Test("crosses_above")>>),
        !.references = {NaN, 900, 1000},
        !.quality = [NoFilter EXCEPT !.extension = 2, !.breakout = 1, !.lookback = 2]],
     \* a structure stop, a leverage that can deplete the balance, and positions left open
     [Basic EXCEPT !.stop = "STRUCTURE", !.levels = {NaN, 600, 900, 1300}, !.target = "NONE",
        !.minimumRiskReward = 0, !.longEntry = Node("AND", <<Test(">="), Test("!="), Test("is_true")>>),
        !.longExit = Node("OR", <<Test("<"), Test("==")>>), !.sizing = "FIXED_NOTIONAL", !.sizeBy = 20000, !.leverage = 4,
        !.endOfTest = "OPEN"]}

\* The nodes of their conditions.
AllConditions ==
    LET roots == UNION {{c.longEntry, c.shortEntry, c.longExit, c.shortExit} : c \in FiveConfigs}
    IN roots \cup UNION {ToSet(n.children) : n \in {n \in roots : n.op \in {"AND", "OR", "NOT"}}}

NextOpenOnly == {c \in FiveConfigs : c.entryFill = "NEXT_OPEN"}

=============================================================================
