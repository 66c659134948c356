------------------------- MODULE MCResearchGeneration -------------------------
(* Instances of ResearchGeneration: candidates of every kind, and generators *)
(* that mix them. *)
EXTENDS ResearchGeneration

M(trades, profit, loss) == [trades |-> trades, grossProfit |-> profit, grossLoss |-> loss, return |-> 0, maxDrawdownPct |-> 0]
Good == M(2, 4, 2)
Bad  == M(1, 2, 2)
Won  == M(2, 4, 0)  \* no losing trade

C(hash, signals, is, oos, holdout) ==
    [hash |-> hash, valid |-> TRUE, accepted |-> TRUE, signals |-> signals, is |-> is, oos |-> oos, holdout |-> holdout]

\* Two finalists, one of them without a loss, one that repeats the signals of
\* the first, rejects of every stage, and one the preflight rejects with the
\* signals of the second.
Kinds ==
    {C(1, 1, Good, Good, Good), C(2, 2, Won, Won, Bad), C(3, 1, Bad, Bad, Bad), C(4, 4, Good, Bad, Bad),
     [C(6, 6, Bad, Bad, Bad) EXCEPT !.valid = FALSE], [C(7, 2, Bad, Bad, Bad) EXCEPT !.accepted = FALSE]}

\* At least two trades, a profit factor of 1 and any drawdown.
TwoTrades == [stage \in {"is", "oos", "holdout"} |-> [minTrades |-> 2, minProfitFactor |-> 1, maxDrawdownPct |-> 100]]

\* Whatever four attempts make.
AnyFour == [1 .. MaxAttempts -> Kinds \cup {Error}]

=============================================================================
