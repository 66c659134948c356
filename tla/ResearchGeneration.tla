-------------------------- MODULE ResearchGeneration --------------------------
(***************************************************************************)
(* What one execution after the other does with the candidates of a        *)
(* research run: generate, validate, deduplicate, evaluate on the          *)
(* in-sample and out-of-sample periods, select, evaluate on the hold-out,  *)
(* reconcile.  Every write to the database is a step, so that requests,    *)
(* crashes and a relaunch come between two of them; what an execution      *)
(* keeps in memory is lost with it and loaded again from the rows.         *)
(*                                                                         *)
(* Who may execute the run, leases and claims are ResearchRuns' matter:    *)
(* there is at most one execution here.  The generator is deterministic    *)
(* and so are the simulations, so a candidate is given with its metrics.   *)
(***************************************************************************)
EXTENDS Integers, Sequences, FiniteSets, SequencesExt

CONSTANTS
    Candidates,   \* what the generator can make, see Candidate
    Generators,   \* functions from 1 .. MaxAttempts to Candidates and Error
    Error,        \* the generator throws
    Gate,         \* the quality gate of each stage, see QualityFails
    Budget,       \* candidateBudget
    MaxAttempts,  \* maxGenerationAttempts
    MaxHoldout,   \* maximumHoldoutCandidates
    MaxTrouble    \* bound: crashes, pauses and cancellations

\* The metrics of a simulation.
Metrics == [trades : Nat, grossProfit : Nat, grossLoss : Nat, return : Int, maxDrawdownPct : Nat]
\* valid: what the static checks and complexityOf say; signals: the
\* fingerprint of the preflight, which accepts the candidate or not; then
\* what its simulations on the three periods give.
Candidate == [hash : Nat, valid : BOOLEAN, accepted : BOOLEAN, signals : Nat,
              is : Metrics, oos : Metrics, holdout : Metrics]

ASSUME GenerationAssumption ==
    /\ {Budget, MaxAttempts, MaxHoldout, MaxTrouble} \subseteq Nat
    /\ \A c \in Candidates : c \in Candidate
    /\ Gate \in [{"is", "oos", "holdout"} -> [minTrades : Nat, minProfitFactor : Nat, maxDrawdownPct : Nat]]
    /\ Generators \subseteq [1 .. MaxAttempts -> Candidates \cup {Error}]

VARIABLES
    generator,
    status,       \* research_runs.status
    outcome,      \* research_runs.terminal_outcome
    attemptCount, \* research_runs.generation_attempt_count
    rows,         \* research_candidates, in the order of insertion
    attempts,     \* research_generation_attempts
    failure,      \* why the last execution failed
    pc, mem,      \* the execution: what it does next and what it remembers
    trouble

run  == <<status, outcome, failure>>
vars == <<generator, run, attemptCount, rows, attempts, pc, mem, trouble>>

RowStatuses == {"GENERATED", "STRUCTURAL_REJECTED", "IS_REJECTED", "OOS_REJECTED", "FINALIST",
                "HOLDOUT_REJECTED", "COMPLETED", "PROMOTED", "PINNED", "REJECTED"}
Transient == {"GENERATED", "FINALIST"}
\* EvaluatedOnly: a slip, a candidate without a verdict is not counted.
EvaluatedOnly == RowStatuses \ {"STRUCTURAL_REJECTED", "REJECTED", "GENERATED"}
\* The statuses that a new execution counts towards the budget.
CountedStatuses == RowStatuses \ {"STRUCTURAL_REJECTED", "REJECTED"}
Results == {"GENERATION_ERROR", "STATIC_REJECTED", "PREFLIGHT_REJECTED", "EXACT_DUPLICATE",
            "SEMANTIC_DUPLICATE", "ACCEPTED_FOR_EVALUATION"}

NaN == -1000000
Row == [candidate : Candidates, attempt : 1 .. MaxAttempts, status : RowStatuses, validation : {"VALID", "INVALID"}]
Valid == {i \in DOMAIN rows : rows[i].validation = "VALID"}

NoMemory == [attempt |-> 0, accepted |-> 0, hashes |-> {}, signals |-> {},
             finalists |-> {}, selected |-> {}, result |-> "NONE"]

TypeOK ==
    /\ generator \in Generators
    /\ status \in {"DRAFT", "QUEUED", "RUNNING", "PAUSING", "PAUSED", "RESUMING", "CANCELLING",
                   "CANCELLED", "FAILED", "COMPLETED"}
    /\ outcome \in {"PENDING", "COMPLETED", "PARTIAL", "EXHAUSTED", "FAILED", "CANCELLED"}
    /\ failure \in {"NONE", "CRASH", "NO_CANDLES", "TRANSITION", "CHECK_CONSTRAINT", "UNIQUE_CONSTRAINT"}
    /\ attemptCount \in 0 .. MaxAttempts
    /\ rows \in Seq(Row)
    /\ \A i, j \in DOMAIN rows : rows[i].candidate.hash = rows[j].candidate.hash => i = j
    /\ attempts \subseteq [index : 1 .. MaxAttempts, result : Results]
    /\ \A a, b \in attempts : a.index = b.index => a = b
    /\ pc \in {"idle", "loop", "generate", "record", "evaluate", "select", "holdout", "reconcile", "finish"}
    /\ mem.attempt \in 0 .. MaxAttempts /\ mem.accepted \in Nat
    /\ mem.selected \subseteq mem.finalists
    /\ \A f \in mem.finalists : rows[f.row].status = "FINALIST"
    /\ pc = "evaluate" => Last(rows).status = "GENERATED"
    /\ mem.finalists \subseteq [row : DOMAIN rows, score : Int \cup {NaN}]
    /\ trouble \in 0 .. MaxTrouble

Init ==
    /\ generator \in Generators
    /\ status = "DRAFT" /\ outcome = "PENDING" /\ failure = "NONE"
    /\ attemptCount = 0 /\ rows = <<>> /\ attempts = {}
    /\ pc = "idle" /\ mem = NoMemory /\ trouble = 0

-----------------------------------------------------------------------------
(* Quality gates and scores. *)

\* A profit factor without losses is infinite and passes every gate.
QualityFails(stage, m) ==
    \/ m.trades < Gate[stage].minTrades
    \/ (m.grossLoss > 0 \/ m.grossProfit = 0) /\ m.grossProfit < Gate[stage].minProfitFactor * m.grossLoss
    \/ m.grossLoss = 0 /\ m.grossProfit = 0 /\ Gate[stage].minProfitFactor > 0
    \/ m.maxDrawdownPct > Gate[stage].maxDrawdownPct

\* The status in-sample and out-of-sample metrics lead to.
Verdict(c) ==
    CASE QualityFails("is", c.is) -> "IS_REJECTED"
      [] ~QualityFails("is", c.is) /\ QualityFails("oos", c.oos) -> "OOS_REJECTED"
      [] OTHER -> "FINALIST"
Confirmed(c) == ~QualityFails("holdout", c.holdout)

\* A finalist's score; an infinite profit factor is the text "INF" by then,
\* and the score is not a number.
Scored(m) ==
    CASE m.grossLoss > 0 -> (100 * m.grossProfit) \div m.grossLoss + m.return - m.maxDrawdownPct
      [] m.grossLoss = 0 /\ m.grossProfit = 0 -> m.return - m.maxDrawdownPct
      [] OTHER -> NaN
\* What the row keeps of it, and an execution reads from it.
StoredScore(m) == IF Scored(m) = NaN THEN 0 ELSE Scored(m)

-----------------------------------------------------------------------------
(* Requests and the worker process. *)

Launch ==
    /\ status \in {"DRAFT", "FAILED", "CANCELLED", "PAUSED"}
    /\ status' = "QUEUED" /\ outcome' = "PENDING" /\ failure' = "NONE"
    /\ UNCHANGED <<generator, attemptCount, rows, attempts, pc, mem, trouble>>

Trouble == trouble < MaxTrouble /\ trouble' = trouble + 1

Pause ==
    /\ Trouble /\ status = "RUNNING" /\ status' = "PAUSING"
    /\ UNCHANGED <<generator, outcome, failure, attemptCount, rows, attempts, pc, mem>>

Resume ==
    /\ status = "PAUSED" /\ status' = "RESUMING"
    /\ UNCHANGED <<generator, outcome, failure, attemptCount, rows, attempts, pc, mem, trouble>>

RequestCancel ==
    /\ Trouble /\ status \in {"QUEUED", "RUNNING", "PAUSING", "PAUSED", "RESUMING"}
    /\ status' = "CANCELLING"
    /\ UNCHANGED <<generator, outcome, failure, attemptCount, rows, attempts, pc, mem>>

Failed(why) == status' = "FAILED" /\ outcome' = "FAILED" /\ failure' = why
Leave == pc' = "idle" /\ mem' = NoMemory

\* The process dies, or its lease runs out, and the run is failed for it; so is
\* one that is being cancelled and has no execution.
Crash ==
    /\ Trouble /\ pc # "idle" /\ Failed("CRASH") /\ Leave
    /\ UNCHANGED <<generator, attemptCount, rows, attempts>>
RecoverStaleLeases ==
    /\ pc = "idle" /\ status = "CANCELLING" /\ Failed("CRASH")
    /\ UNCHANGED <<generator, attemptCount, rows, attempts, pc, mem, trouble>>

\* execute throws.
Throw(why) ==
    /\ Failed(why) /\ Leave
    /\ UNCHANGED <<generator, attemptCount, rows, attempts, trouble>>

\* ForgetsSignals: a slip, an execution knows the fingerprints of its own
\* candidates only.
ForgetsSignals == {}
\* The fingerprints of the candidates that are stored.
StoredSignals == {rows[i].candidate.signals : i \in {j \in DOMAIN rows : rows[j].status # "STRUCTURAL_REJECTED"}}

IndicesWith(statuses) == {i \in DOMAIN rows : rows[i].status \in statuses}

\* An execution begins: it is claimed and loads what the rows say.
Begin ==
    /\ pc = "idle" /\ status \in {"QUEUED", "RESUMING"}
    /\ status' = "RUNNING" /\ outcome' = "PENDING" /\ pc' = "loop"
    /\ mem' = [attempt   |-> Max({attemptCount} \cup {rows[i].attempt : i \in DOMAIN rows}),
               accepted  |-> Cardinality(IndicesWith(CountedStatuses)),
               hashes    |-> {rows[i].candidate.hash : i \in DOMAIN rows},
               signals   |-> StoredSignals,
               finalists |-> {[row |-> i, score |-> StoredScore(rows[i].candidate.oos)] : i \in IndicesWith({"FINALIST"})},
               selected  |-> {}, result |-> "NONE"]
    /\ UNCHANGED <<generator, failure, attemptCount, rows, attempts, trouble>>

\* There are no candles in the period or the warm-up before it.
NoCandles ==
    /\ Trouble /\ pc = "idle" /\ status \in {"QUEUED", "RESUMING"} /\ Failed("NO_CANDLES")
    /\ UNCHANGED <<generator, attemptCount, rows, attempts, pc, mem>>

\* The execution sees a cancellation and ends the run.
Cancelled ==
    /\ status' = "CANCELLED" /\ outcome' = "CANCELLED" /\ Leave
    /\ UNCHANGED <<generator, failure, attemptCount, rows, attempts, trouble>>

Paused ==
    /\ status' = "PAUSED" /\ Leave
    /\ UNCHANGED <<generator, outcome, failure, attemptCount, rows, attempts, trouble>>

-----------------------------------------------------------------------------
(* Generation. *)

\* OneTooMany: a slip, one attempt more than the limit.
OneTooMany == mem.accepted < Budget /\ mem.attempt <= MaxAttempts
More == mem.accepted < Budget /\ mem.attempt < MaxAttempts

\* The head of the loop; the attempt is counted before it is made.
NextAttempt ==
    /\ pc = "loop" /\ More
    /\ \/ status = "CANCELLING" /\ Cancelled
       \/ status = "PAUSING" /\ Paused
       \/ /\ status = "RUNNING"
          /\ mem' = [mem EXCEPT !.attempt = @ + 1] /\ attemptCount' = mem.attempt + 1
          /\ pc' = "generate"
          /\ UNCHANGED <<generator, run, rows, attempts, trouble>>

\* What becomes of a candidate, in the order of the tests.
ResultOf(c) ==
    CASE c = Error -> "GENERATION_ERROR"
      [] c # Error /\ c.hash \in mem.hashes -> "EXACT_DUPLICATE"
      [] OTHER -> CASE ~c.valid -> "STATIC_REJECTED"
                    [] c.valid /\ ~c.accepted -> "PREFLIGHT_REJECTED"
                    [] c.valid /\ c.accepted /\ c.signals \in mem.signals -> "SEMANTIC_DUPLICATE"
                    [] OTHER -> "ACCEPTED_FOR_EVALUATION"

StatusOf(result) ==
    CASE result = "STATIC_REJECTED" -> "STRUCTURAL_REJECTED"
      [] result = "ACCEPTED_FOR_EVALUATION" -> "GENERATED"
      [] OTHER -> "REJECTED"

\* The row of a candidate.
Stored(c, result) ==
    [candidate |-> c, attempt |-> mem.attempt, status |-> StatusOf(result),
     validation |-> IF result = "ACCEPTED_FOR_EVALUATION" THEN "VALID" ELSE "INVALID"]

\* The candidate is made, tested and, unless it is an exact duplicate, stored.
Generate ==
    /\ pc = "generate" /\ pc' = "record"
    /\ LET c == generator[mem.attempt]
           result == ResultOf(c)
       IN IF result \in {"GENERATION_ERROR", "EXACT_DUPLICATE"}
          THEN mem' = [mem EXCEPT !.result = result] /\ UNCHANGED rows
          ELSE /\ rows' = Append(rows, Stored(c, result))
               /\ mem' = [mem EXCEPT !.result = result, !.hashes = @ \cup {c.hash},
                                     !.signals = IF result = "STATIC_REJECTED" THEN @ ELSE @ \cup {c.signals}]
    /\ UNCHANGED <<generator, run, attemptCount, attempts, trouble>>

\* attempt_index is unique in a run.
AttemptTaken == \E a \in attempts : a.index = mem.attempt
Recorded == attempts \cup {[index |-> mem.attempt, result |-> mem.result]}

\* recordAttempt: a second row of an attempt is refused and the execution ends.
RecordAttempt ==
    /\ pc = "record"
    /\ IF AttemptTaken
       THEN Throw("UNIQUE_CONSTRAINT")
       ELSE /\ attempts' = Recorded
            /\ IF mem.result = "ACCEPTED_FOR_EVALUATION"
               THEN pc' = "evaluate" /\ mem' = [mem EXCEPT !.accepted = @ + 1]
               ELSE pc' = "loop" /\ UNCHANGED mem
            /\ UNCHANGED <<generator, run, attemptCount, rows, trouble>>

\* updateCandidate; it refuses a change of a terminal status, which TypeOK
\* shows is never asked for.
WithStatus(i, new) == [rows EXCEPT ![i].status = new]

\* The in-sample simulation, and when it passes the out-of-sample one; a
\* cancellation that comes meanwhile leaves the candidate as it is.
Evaluate ==
    /\ pc = "evaluate"
    /\ IF status = "CANCELLING" THEN Cancelled
       ELSE LET i == Len(rows)
                verdict == Verdict(rows[i].candidate)
            IN /\ rows' = WithStatus(i, verdict)
               /\ mem' = [mem EXCEPT !.finalists = IF verdict = "FINALIST" THEN @ \cup {[row |-> i, score |-> Scored(rows[i].candidate.oos)]} ELSE @]
               /\ pc' = "loop"
               /\ UNCHANGED <<generator, run, attemptCount, attempts, trouble>>

-----------------------------------------------------------------------------
(* Hold-out and finalization. *)

Better(f, g) == f.score > g.score \/ (f.score = g.score /\ f.row < g.row)

\* With a score that is not a number the comparison is inconsistent and the
\* order that sort leaves is any; else the best come first.
Unordered == \E f \in mem.finalists : f.score = NaN
Leading(f, others) == Unordered \/ \A g \in others : f = g \/ Better(f, g)

\* slice(0, maximumHoldoutCandidates) of the sorted finalists.
Selections ==
    {S \in SUBSET mem.finalists :
        /\ Cardinality(S) = Min({MaxHoldout, Cardinality(mem.finalists)})
        /\ \A f \in S : Leading(f, mem.finalists \ S)}

EndGeneration ==
    /\ pc = "loop" /\ ~More
    /\ \E chosen \in Selections : mem' = [mem EXCEPT !.selected = chosen]
    /\ pc' = "select"
    /\ UNCHANGED <<generator, run, attemptCount, rows, attempts, trouble>>

\* Finalists that are not selected are rejected, one write each.
RejectFinalist ==
    /\ pc = "select"
    /\ LET rest == mem.finalists \ mem.selected
       IN IF rest = {} THEN pc' = "holdout" /\ UNCHANGED <<rows, mem>>
          ELSE \E f \in rest :
                  /\ Leading(f, rest)
                  /\ rows' = WithStatus(f.row, "REJECTED")
                  /\ mem' = [mem EXCEPT !.finalists = @ \ {f}] /\ pc' = pc
    /\ UNCHANGED <<generator, run, attemptCount, attempts, trouble>>

\* The selected are simulated on the hold-out, the best first.
Holdout ==
    /\ pc = "holdout"
    /\ IF mem.selected = {}
       THEN pc' = "reconcile" /\ UNCHANGED <<generator, run, attemptCount, rows, attempts, mem, trouble>>
       ELSE IF status = "CANCELLING" THEN Cancelled
       ELSE \E f \in mem.selected :
               /\ Leading(f, mem.selected)
               /\ rows' = WithStatus(f.row, IF Confirmed(rows[f.row].candidate) THEN "COMPLETED" ELSE "HOLDOUT_REJECTED")
               /\ mem' = [mem EXCEPT !.selected = @ \ {f}, !.finalists = @ \ {f}] /\ pc' = pc
               /\ UNCHANGED <<generator, run, attemptCount, attempts, trouble>>

\* FinalistsOnly: a slip, candidates that were never evaluated are overlooked.
FinalistsOnly == IndicesWith({"FINALIST"})
\* The candidates without a verdict.
Unreconciled == IndicesWith(Transient)

\* reconcileGeneration counts the attempts that have a row.
CountedAttempts == Cardinality(attempts)

\* EVALUATION_FAILED, which such a candidate is to become, is not among the
\* statuses the table's CHECK admits: the execution throws.  The attempts are
\* counted by their rows, which always partition into the named results.
Reconcile ==
    /\ pc = "reconcile"
    /\ IF Unreconciled # {} THEN Throw("CHECK_CONSTRAINT")
       ELSE /\ attemptCount' = CountedAttempts /\ pc' = "finish"
            /\ UNCHANGED <<generator, run, rows, attempts, mem, trouble>>

\* resolveResearchTerminalOutcome
TerminalOutcome ==
    IF mem.accepted >= Budget THEN "COMPLETED" ELSE IF mem.accepted > 0 THEN "PARTIAL" ELSE "EXHAUSTED"

\* No transition leads from PAUSING or CANCELLING to COMPLETED: a request that
\* came after the last look at the row makes the execution throw.
Finish ==
    /\ pc = "finish"
    /\ IF status # "RUNNING" THEN Throw("TRANSITION")
       ELSE /\ status' = "COMPLETED" /\ outcome' = TerminalOutcome /\ Leave
            /\ UNCHANGED <<generator, failure, attemptCount, rows, attempts, trouble>>

\* A confirmed candidate is promoted, also while others are still evaluated.
Promote ==
    /\ \E i \in DOMAIN rows : rows[i].status = "COMPLETED" /\ rows' = [rows EXCEPT ![i].status = "PROMOTED"]
    /\ UNCHANGED <<generator, run, attemptCount, attempts, pc, mem, trouble>>

Next ==
    \/ Launch \/ Pause \/ Resume \/ RequestCancel \/ Promote
    \/ Begin \/ NoCandles \/ Crash \/ RecoverStaleLeases
    \/ NextAttempt \/ Generate \/ RecordAttempt \/ Evaluate
    \/ EndGeneration \/ RejectFinalist \/ Holdout \/ Reconcile \/ Finish

Spec == Init /\ [][Next]_vars

-----------------------------------------------------------------------------
(* Properties. *)

\* No two candidates that are accepted for evaluation give the same signals,
\* also when they were accepted by different executions, and none has those of
\* a candidate the preflight had rejected before.
SignalsUnique ==
    \A i \in Valid : \A j \in 1 .. i - 1 :
        rows[j].status = "STRUCTURAL_REJECTED" \/ rows[i].candidate.signals # rows[j].candidate.signals

\* A completed run has a verdict for every candidate it accepted, that of the
\* candidate's simulations or of the selection, tested no unselected finalist,
\* and says COMPLETED only when the budget was reached.
CompletedIsSettled ==
    status = "COMPLETED" =>
        /\ \A i \in Valid :
             LET row == rows[i]
             IN IF Verdict(row.candidate) # "FINALIST" THEN row.status = Verdict(row.candidate)
                ELSE \/ row.status = "REJECTED"
                     \/ row.status = "HOLDOUT_REJECTED" /\ ~Confirmed(row.candidate)
                     \/ row.status \in {"COMPLETED", "PROMOTED"} /\ Confirmed(row.candidate)
        /\ outcome = "COMPLETED" => Cardinality(Valid) >= Budget
        /\ outcome = "EXHAUSTED" => Valid \subseteq IndicesWith({"REJECTED"})

\* The candidates that were accepted and are still in use: the unselected, the
\* only ones that become REJECTED after they were accepted, are not.
InUse == Valid \ IndicesWith({"REJECTED"})

\* However often the run is launched, cancelled and launched again, and
\* wherever an execution dies, no more candidates are in use than the budget,
\* also while one is stored that the execution has not counted yet.
BudgetKept == Cardinality(InUse) <= Budget

\* docs/strategy-discovery-audit.md: finalization converts unreconciled
\* transient rows before it marks the run complete; it does not fail on them.
FinalizationConverts == failure # "CHECK_CONSTRAINT"

=============================================================================
