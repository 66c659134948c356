---------------------- MODULE ResearchGenerationProofs ----------------------
(***************************************************************************)
(* Proofs about ResearchGeneration, for every generator, budget, gate and  *)
(* number of attempts, crashes, pauses and cancellations.                  *)
(***************************************************************************)
EXTENDS ResearchGeneration, FiniteSetTheorems, SequenceTheorems, WellFoundedInduction, TLAPS

-----------------------------------------------------------------------------
(* The candidates' rows.                                                   *)

Accepted == "ACCEPTED_FOR_EVALUATION"

\* A row's status is the verdict on its candidate, or one on the way to it.
Settles(row) ==
    /\ row.validation = "INVALID" => row.status \in {"STRUCTURAL_REJECTED", "REJECTED"}
    /\ row.validation = "VALID" /\ row.status # "GENERATED" =>
         /\ Verdict(row.candidate) # "FINALIST" => row.status = Verdict(row.candidate)
         /\ Verdict(row.candidate) = "FINALIST" =>
              \/ row.status \in {"FINALIST", "REJECTED"}
              \/ row.status = "HOLDOUT_REJECTED" /\ ~Confirmed(row.candidate)
              \/ row.status \in {"COMPLETED", "PROMOTED"} /\ Confirmed(row.candidate)

HashesUnique ==
    \A i, j \in DOMAIN rows : rows[i].candidate.hash = rows[j].candidate.hash => i = j

RowsInv ==
    /\ rows \in Seq(Row)
    /\ HashesUnique
    /\ SignalsUnique
    /\ \A i \in DOMAIN rows : Settles(rows[i])

LEMMA VerdictType == ASSUME NEW c PROVE Verdict(c) \in {"IS_REJECTED", "OOS_REJECTED", "FINALIST"}
  BY DEF Verdict

LEMMA ScoreType == ASSUME NEW c \in Candidates PROVE Scored(c.oos) \in Int /\ StoredScore(c.oos) \in Int
<1>1. c.oos \in Metrics
  BY GenerationAssumption DEF Candidate
<1>2. Scored(c.oos) \in Int
  BY <1>1 DEF Metrics, Scored, NaN
<1> QED
  BY <1>2 DEF StoredScore

LEMMA RowsFacts ==
  ASSUME rows \in Seq(Row)
  PROVE  /\ Len(rows) \in Nat /\ DOMAIN rows = 1 .. Len(rows)
         /\ \A i \in DOMAIN rows : rows[i] \in Row
         /\ \A S : IsFiniteSet(IndicesWith(S)) /\ IndicesWith(S) \subseteq DOMAIN rows
         /\ IsFiniteSet(Valid) /\ Cardinality(Valid) \in Nat /\ Valid \subseteq DOMAIN rows
<1>1. Len(rows) \in Nat /\ DOMAIN rows = 1 .. Len(rows) /\ \A i \in DOMAIN rows : rows[i] \in Row
  OBVIOUS
<1>2. IsFiniteSet(1 .. Len(rows))
  BY <1>1, FS_Interval
<1>3. ASSUME NEW S PROVE IsFiniteSet(IndicesWith(S)) /\ IndicesWith(S) \subseteq DOMAIN rows
  <2>1. IndicesWith(S) \subseteq 1 .. Len(rows)
    BY <1>1 DEF IndicesWith
  <2> QED
    BY <1>1, <1>2, <2>1, FS_Subset
<1>4. Valid \subseteq 1 .. Len(rows)
  BY <1>1 DEF Valid
<1>5. IsFiniteSet(Valid) /\ Cardinality(Valid) \in Nat
  BY <1>2, <1>4, FS_Subset, FS_CardinalityType
<1> QED
  BY <1>1, <1>3, <1>4, <1>5

\* A status changes, not from or to STRUCTURAL_REJECTED.
LEMMA StatusWrite ==
  ASSUME RowsInv, NEW i \in DOMAIN rows, NEW new \in RowStatuses \ {"STRUCTURAL_REJECTED"},
         rows[i].status # "STRUCTURAL_REJECTED", Settles([rows[i] EXCEPT !.status = new]),
         rows' = WithStatus(i, new)
  PROVE  /\ RowsInv' /\ DOMAIN rows' = DOMAIN rows /\ Len(rows') = Len(rows) /\ Valid' = Valid
         /\ \A j \in DOMAIN rows :
              /\ rows'[j].candidate = rows[j].candidate
              /\ rows'[j].validation = rows[j].validation
              /\ rows'[j].attempt = rows[j].attempt
              /\ rows'[j].status = IF j = i THEN new ELSE rows[j].status
<1>1. PICK row : row = [rows[i] EXCEPT !.status = new]
  OBVIOUS
<1>2. rows \in Seq(Row) /\ rows[i] \in Row
  BY DEF RowsInv
<1>3. /\ row \in Row /\ row.candidate = rows[i].candidate /\ row.validation = rows[i].validation
      /\ row.attempt = rows[i].attempt /\ row.status = new
  BY <1>1, <1>2 DEF Row
<1>4. rows' = [rows EXCEPT ![i] = row]
  BY <1>1 DEF WithStatus
<1>5. /\ rows' \in Seq(Row) /\ DOMAIN rows' = DOMAIN rows /\ Len(rows') = Len(rows)
      /\ \A j \in DOMAIN rows : rows'[j] = IF j = i THEN row ELSE rows[j]
  BY <1>2, <1>3, <1>4, ExceptSeq
<1>6. \A j \in DOMAIN rows :
        /\ rows'[j].candidate = rows[j].candidate
        /\ rows'[j].validation = rows[j].validation
        /\ rows'[j].attempt = rows[j].attempt
        /\ rows'[j].status = IF j = i THEN new ELSE rows[j].status
  BY <1>3, <1>5
<1>7. Valid' = Valid
  BY <1>5, <1>6 DEF Valid
<1>8. HashesUnique'
  BY <1>5, <1>6 DEF RowsInv, HashesUnique
<1>9. SignalsUnique'
  <2>1. \A j \in DOMAIN rows : rows'[j].status = "STRUCTURAL_REJECTED" <=> rows[j].status = "STRUCTURAL_REJECTED"
    BY <1>6
  <2>2. \A k \in Valid : \A j \in 1 .. k - 1 : j \in DOMAIN rows /\ k \in DOMAIN rows
    BY <1>2 DEF Valid
  <2> QED
    BY <1>6, <1>7, <2>1, <2>2 DEF RowsInv, SignalsUnique
<1>10. \A j \in DOMAIN rows' : Settles(rows'[j])
  BY <1>1, <1>5 DEF RowsInv
<1> QED
  BY <1>5, <1>6, <1>7, <1>8, <1>9, <1>10 DEF RowsInv, Settles

-----------------------------------------------------------------------------
(* The execution.                                                          *)

Finalist == [row : Nat, score : Int]
Memory == [attempt : 0 .. MaxAttempts, accepted : Nat, hashes : SUBSET Nat,
           signals : SUBSET Nat, finalists : SUBSET Finalist, selected : SUBSET Finalist,
           result : Results \cup {"NONE"}]

MemInv ==
    /\ mem \in Memory
    /\ mem.selected \subseteq mem.finalists
    /\ \A f \in mem.finalists : f.row \in DOMAIN rows /\ rows[f.row].status = "FINALIST"
    /\ \A f, g \in mem.finalists : f.row = g.row => f = g

\* Nothing that is stored is unknown to the execution.
KnowsRows ==
    \A i \in DOMAIN rows :
        /\ rows[i].candidate.hash \in mem.hashes
        /\ rows[i].status # "STRUCTURAL_REJECTED" => rows[i].candidate.signals \in mem.signals

\* A candidate is stored and not yet counted.
Pending == pc = "record" /\ mem.result = Accepted

\* The budget is spent on candidates that are stored; none is overlooked.
Counts ==
    /\ ~Pending => /\ mem.accepted <= Cardinality(Valid)
                   /\ mem.accepted = 0 => Valid \subseteq IndicesWith({"REJECTED"})
    /\ Pending => mem.accepted + 1 <= Cardinality(Valid)

Awaiting ==
    Pending \/ pc = "evaluate" =>
        /\ rows # <<>>
        /\ rows[Len(rows)].status = "GENERATED" /\ rows[Len(rows)].validation = "VALID"

PCs == {"idle", "loop", "generate", "record", "evaluate", "select", "holdout", "reconcile", "finish"}
Executing == {"RUNNING", "PAUSING", "CANCELLING"}

Works ==
    /\ status \in Executing
    /\ KnowsRows /\ Counts /\ Awaiting
    /\ pc \in {"generate", "record"} => mem.attempt # 0
    /\ pc = "evaluate" => mem.accepted # 0
    /\ pc = "record" => mem.result # "NONE"
    /\ pc = "finish" => Unreconciled = {}

ExecInv ==
    /\ pc \in PCs /\ MemInv
    /\ pc # "idle" => Works

AttemptsInv ==
    /\ attempts \subseteq [index : 1 .. MaxAttempts, result : Results]
    /\ IsFiniteSet(attempts)
    /\ \A a, b \in attempts : a.index = b.index => a = b
    /\ attemptCount \in 0 .. MaxAttempts

RunInv ==
    /\ status \in {"DRAFT", "QUEUED", "RUNNING", "PAUSING", "PAUSED", "RESUMING", "CANCELLING",
                   "CANCELLED", "FAILED", "COMPLETED"}
    /\ outcome \in {"PENDING", "COMPLETED", "PARTIAL", "EXHAUSTED", "FAILED", "CANCELLED"}
    /\ failure \in {"NONE", "CRASH", "NO_CANDLES", "TRANSITION", "CHECK_CONSTRAINT", "UNIQUE_CONSTRAINT"}
    /\ status = "COMPLETED" =>
         /\ pc = "idle" /\ Unreconciled = {}
         /\ outcome = "COMPLETED" => Cardinality(Valid) >= Budget
         /\ outcome = "EXHAUSTED" => Valid \subseteq IndicesWith({"REJECTED"})

TroubleInv == trouble \in 0 .. MaxTrouble
Inv == generator \in Generators /\ RowsInv /\ ExecInv /\ AttemptsInv /\ RunInv /\ TroubleInv

LEMMA Bounds == /\ Budget \in Nat /\ MaxAttempts \in Nat /\ MaxHoldout \in Nat /\ MaxTrouble \in Nat
                /\ \A c \in Candidates : c.hash \in Nat /\ c.signals \in Nat
  BY GenerationAssumption DEF Candidate

LEMMA NoMemoryOK == ASSUME RowsInv, mem = NoMemory PROVE MemInv
  BY Bounds DEF MemInv, NoMemory, Memory, Finalist

LEMMA InitInv == ASSUME Init PROVE Inv
<1>1. rows = <<>> /\ attempts = {} /\ attemptCount = 0 /\ mem = NoMemory /\ trouble = 0
  BY DEF Init
<1>2. rows \in Seq(Row) /\ DOMAIN rows = {}
  BY <1>1, EmptySeq
<1>3. Valid = {}
  BY <1>2 DEF Valid
<1>4. RowsInv
  BY <1>2, <1>3 DEF RowsInv, HashesUnique, SignalsUnique
<1>5. ExecInv
  BY <1>1, <1>4, NoMemoryOK DEF Init, ExecInv, PCs
<1>6. AttemptsInv
  BY <1>1, FS_EmptySet, Bounds DEF AttemptsInv
<1>7. RunInv
  BY DEF Init, RunInv
<1>8. TroubleInv
  BY <1>1, Bounds DEF TroubleInv
<1> QED
  BY <1>4, <1>5, <1>6, <1>7, <1>8 DEF Init, Inv

-----------------------------------------------------------------------------
(* Steps that write no candidate.                                          *)

LEMMA RowsKept ==
  ASSUME RowsInv, rows' = rows
  PROVE  RowsInv' /\ Valid' = Valid /\ Unreconciled' = Unreconciled
         /\ IndicesWith({"REJECTED"})' = IndicesWith({"REJECTED"})
<1>1. Valid' = Valid
  BY DEF Valid
<1> QED
  BY <1>1 DEF RowsInv, HashesUnique, SignalsUnique, Unreconciled, IndicesWith

\* Only the row of the run changes.
LEMMA OnlyRun ==
  ASSUME Inv, UNCHANGED <<generator, attemptCount, rows, attempts, pc, mem>>,
         status' \in Executing \/ (pc = "idle" /\ status' \in {"QUEUED", "PAUSED", "RESUMING", "FAILED"}),
         outcome' \in {outcome, "PENDING", "FAILED"}, failure' \in {failure, "NONE", "CRASH", "NO_CANDLES"},
         TroubleInv'
  PROVE  Inv'
<1>1. /\ RowsInv' /\ Valid' = Valid /\ Unreconciled' = Unreconciled
      /\ IndicesWith({"REJECTED"})' = IndicesWith({"REJECTED"})
  BY RowsKept DEF Inv
<1>2. ExecInv'
  <2>1. MemInv'
    BY DEF Inv, ExecInv, MemInv
  <2>2. ASSUME pc' # "idle" PROVE Works'
    <3>1. Works /\ status' \in Executing
      BY <2>2 DEF Inv, ExecInv
    <3> QED
      BY <1>1, <3>1 DEF Works, KnowsRows, Counts, Awaiting, Pending
  <2> QED
    BY <2>1, <2>2 DEF Inv, ExecInv
<1>3. AttemptsInv'
  BY DEF Inv, AttemptsInv
<1>4. RunInv'
  BY DEF Inv, RunInv, Executing
<1> QED
  BY <1>1, <1>2, <1>3, <1>4 DEF Inv

LEMMA RunStep ==
  ASSUME Inv, Launch \/ Pause \/ Resume \/ RequestCancel \/ RecoverStaleLeases \/ NoCandles
  PROVE  Inv'
<1>1. pc # "idle" => status \in Executing
  BY DEF Inv, ExecInv, Works
<1>2. TroubleInv'
  BY Bounds DEF Inv, TroubleInv, Trouble, Launch, Pause, Resume, RequestCancel, RecoverStaleLeases, NoCandles
<1>3. CASE Launch
  BY <1>1, <1>2, <1>3, OnlyRun DEF Launch, Executing
<1>4. CASE Pause
  BY <1>1, <1>2, <1>4, OnlyRun DEF Pause, Executing
<1>5. CASE Resume
  BY <1>1, <1>2, <1>5, OnlyRun DEF Resume, Executing
<1>6. CASE RequestCancel
  BY <1>1, <1>2, <1>6, OnlyRun DEF RequestCancel, Executing
<1>7. CASE RecoverStaleLeases
  BY <1>1, <1>2, <1>7, OnlyRun DEF RecoverStaleLeases, Failed
<1>8. CASE NoCandles
  BY <1>1, <1>2, <1>8, OnlyRun DEF NoCandles, Failed
<1> QED
  BY <1>3, <1>4, <1>5, <1>6, <1>7, <1>8

\* The execution ends and writes no candidate.
LEMMA Leaving ==
  ASSUME Inv, UNCHANGED <<generator, attemptCount, rows, attempts>>, Leave,
         TroubleInv', RunInv'
  PROVE  Inv'
<1>1. RowsInv'
  BY RowsKept DEF Inv
<1>2. MemInv'
  BY Bounds DEF Leave, MemInv, NoMemory, Memory
<1>3. ExecInv'
  BY <1>2 DEF Leave, ExecInv, PCs
<1>4. AttemptsInv'
  BY DEF Inv, AttemptsInv
<1> QED
  BY <1>1, <1>3, <1>4 DEF Inv

LEMMA FailedRun ==
  ASSUME Inv, NEW why \in {"CRASH", "TRANSITION", "CHECK_CONSTRAINT", "UNIQUE_CONSTRAINT"}, Failed(why)
  PROVE  RunInv'
  BY DEF Failed, RunInv

LEMMA TroubleKept == ASSUME Inv, trouble' = trouble PROVE TroubleInv'
  BY DEF Inv, TroubleInv

LEMMA CrashStep == ASSUME Inv, Crash PROVE Inv'
<1>1. TroubleInv'
  BY Bounds DEF Inv, TroubleInv, Crash, Trouble
<1> QED
  BY <1>1, FailedRun, Leaving DEF Crash

LEMMA ThrowStep ==
  ASSUME Inv, NEW why \in {"TRANSITION", "CHECK_CONSTRAINT", "UNIQUE_CONSTRAINT"}, Throw(why)
  PROVE  Inv'
  BY FailedRun, Leaving, TroubleKept DEF Throw

LEMMA CancelledStep == ASSUME Inv, Cancelled \/ Paused PROVE Inv'
<1>1. RunInv'
  BY DEF Inv, RunInv, Cancelled, Paused
<1> QED
  BY <1>1, Leaving, TroubleKept DEF Cancelled, Paused

LEMMA FinishStep == ASSUME Inv, Finish PROVE Inv'
<1>1. CASE status # "RUNNING"
  BY <1>1, ThrowStep DEF Finish
<1>2. CASE status = "RUNNING"
  <2>1. /\ status' = "COMPLETED" /\ outcome' = TerminalOutcome /\ Leave
        /\ UNCHANGED <<generator, failure, attemptCount, rows, attempts, trouble>>
    BY <1>2 DEF Finish
  <2>2. pc = "finish" /\ Works
    BY DEF Finish, Inv, ExecInv
  <2>3. /\ mem.accepted <= Cardinality(Valid) /\ Unreconciled = {}
        /\ mem.accepted = 0 => Valid \subseteq IndicesWith({"REJECTED"})
    BY <2>2 DEF Works, Counts, Pending
  <2>4. mem.accepted \in Nat /\ Cardinality(Valid) \in Nat
    BY RowsFacts DEF Inv, RowsInv, ExecInv, MemInv, Memory
  <2>5. /\ Valid' = Valid /\ Unreconciled' = Unreconciled
        /\ IndicesWith({"REJECTED"})' = IndicesWith({"REJECTED"})
    BY <2>1, RowsKept DEF Inv
  <2>6. /\ TerminalOutcome \in {"COMPLETED", "PARTIAL", "EXHAUSTED"}
        /\ TerminalOutcome = "COMPLETED" => Cardinality(Valid) >= Budget
        /\ TerminalOutcome = "EXHAUSTED" => mem.accepted = 0
    BY <2>3, <2>4, Bounds DEF TerminalOutcome
  <2>7. pc' = "idle"
    BY <2>1 DEF Leave
  <2>8. RunInv'
    BY <2>1, <2>3, <2>5, <2>6, <2>7 DEF RunInv, Inv
  <2> QED
    BY <2>1, <2>8, Leaving, TroubleKept
<1> QED
  BY <1>1, <1>2

\* The execution goes on and writes no candidate.
LEMMA GoesOn ==
  ASSUME Inv, pc # "idle", pc' \in PCs \ {"idle"}, UNCHANGED <<generator, run, rows, trouble>>,
         MemInv', Works', AttemptsInv'
  PROVE  Inv'
<1>1. RowsInv'
  BY RowsKept DEF Inv
<1>2. RunInv'
  BY DEF Inv, RunInv, run, ExecInv, Works, Executing
<1> QED
  BY <1>1, <1>2, TroubleKept DEF Inv, ExecInv

LEMMA WorksFacts ==
  ASSUME Inv, pc # "idle"
  PROVE  Works /\ MemInv /\ RowsInv /\ AttemptsInv /\ mem \in Memory
  BY DEF Inv, ExecInv, MemInv

LEMMA NextAttemptStep == ASSUME Inv, NextAttempt PROVE Inv'
<1>1. CASE Cancelled \/ Paused
  BY <1>1, CancelledStep
<1>2. CASE /\ mem' = [mem EXCEPT !.attempt = @ + 1] /\ attemptCount' = mem.attempt + 1
           /\ pc' = "generate" /\ status = "RUNNING"
           /\ UNCHANGED <<generator, run, rows, attempts, trouble>>
  <2>1. pc = "loop" /\ mem.attempt < MaxAttempts
    BY DEF NextAttempt, More
  <2>2. Works /\ MemInv /\ AttemptsInv /\ mem \in Memory
    BY <2>1, WorksFacts
  <2>3. mem.attempt + 1 \in 0 .. MaxAttempts /\ mem.attempt + 1 # 0
    BY <2>1, <2>2, Bounds DEF Memory
  <2>4. /\ mem' \in Memory /\ mem'.attempt = mem.attempt + 1 /\ mem'.accepted = mem.accepted
        /\ mem'.hashes = mem.hashes /\ mem'.signals = mem.signals
        /\ mem'.finalists = mem.finalists /\ mem'.selected = mem.selected
    BY <1>2, <2>2, <2>3 DEF Memory
  <2>5. MemInv'
    BY <1>2, <2>2, <2>4 DEF MemInv
  <2>6. AttemptsInv'
    BY <1>2, <2>2, <2>3 DEF AttemptsInv
  <2>7. Valid' = Valid /\ IndicesWith({"REJECTED"})' = IndicesWith({"REJECTED"})
    BY <1>2, RowsKept DEF Inv
  <2>8. Works'
    BY <1>2, <2>1, <2>2, <2>3, <2>4, <2>7 DEF Works, KnowsRows, Counts, Awaiting, Pending, run
  <2> QED
    BY <1>2, <2>1, <2>5, <2>6, <2>8, GoesOn DEF PCs
<1> QED
  BY <1>1, <1>2 DEF NextAttempt

LEMMA RecordAttemptStep == ASSUME Inv, RecordAttempt PROVE Inv'
<1>1. CASE Throw("UNIQUE_CONSTRAINT")
  BY <1>1, ThrowStep
<1>2. CASE ~AttemptTaken
  <2>1. /\ pc = "record" /\ attempts' = Recorded
        /\ UNCHANGED <<generator, run, attemptCount, rows, trouble>>
    BY <1>2 DEF RecordAttempt
  <2>2. Works /\ MemInv /\ AttemptsInv /\ mem \in Memory
    BY <2>1, WorksFacts
  <2>3. /\ mem.attempt \in 1 .. MaxAttempts /\ mem.result \in Results
    BY <2>1, <2>2, Bounds DEF Memory, Works
  <2>4. AttemptsInv'
    <3>1. PICK row : row = [index |-> mem.attempt, result |-> mem.result]
      OBVIOUS
    <3>2. /\ row \in [index : 1 .. MaxAttempts, result : Results]
          /\ \A a \in attempts : a.index # row.index
      BY <1>2, <2>3, <3>1 DEF AttemptTaken
    <3>3. attempts' = attempts \cup {row}
      BY <2>1, <3>1 DEF Recorded
    <3>4. IsFiniteSet(attempts')
      BY <2>2, <3>3, FS_AddElement DEF AttemptsInv
    <3> QED
      BY <2>1, <2>2, <3>2, <3>3, <3>4 DEF AttemptsInv
  <2>5. Valid' = Valid /\ IndicesWith({"REJECTED"})' = IndicesWith({"REJECTED"})
    BY <2>1, RowsKept DEF Inv
  <2>6. CASE mem.result = Accepted
    <3>1. pc' = "evaluate" /\ mem' = [mem EXCEPT !.accepted = @ + 1]
      BY <1>2, <2>6 DEF RecordAttempt, Accepted
    <3>2. /\ mem' \in Memory /\ mem'.accepted = mem.accepted + 1 /\ mem'.accepted # 0
          /\ mem'.hashes = mem.hashes /\ mem'.signals = mem.signals
          /\ mem'.finalists = mem.finalists /\ mem'.selected = mem.selected
      BY <2>2, <3>1 DEF Memory
    <3>3. MemInv'
      BY <2>1, <2>2, <3>2 DEF MemInv
    <3>4. Pending /\ ~Pending'
      BY <2>1, <2>6, <3>1 DEF Pending
    <3>5. Works'
      BY <2>1, <2>2, <2>5, <3>1, <3>2, <3>4 DEF Works, KnowsRows, Counts, Awaiting, run
    <3> QED
      BY <2>1, <2>4, <3>1, <3>3, <3>5, GoesOn DEF PCs
  <2>7. CASE mem.result # Accepted
    <3>1. pc' = "loop" /\ mem' = mem
      BY <1>2, <2>7 DEF RecordAttempt, Accepted
    <3>2. MemInv'
      BY <2>1, <2>2, <3>1 DEF MemInv
    <3>3. ~Pending /\ ~Pending'
      BY <2>1, <2>7, <3>1 DEF Pending
    <3>4. Works'
      BY <2>1, <2>2, <2>5, <3>1, <3>3 DEF Works, KnowsRows, Counts, Awaiting, run
    <3> QED
      BY <2>1, <2>4, <3>1, <3>2, <3>4, GoesOn DEF PCs
  <2> QED
    BY <2>6, <2>7
<1> QED
  BY <1>1, <1>2 DEF RecordAttempt

LEMMA EndGenerationStep == ASSUME Inv, EndGeneration PROVE Inv'
<1>1. /\ pc = "loop" /\ pc' = "select"
      /\ UNCHANGED <<generator, run, attemptCount, rows, attempts, trouble>>
  BY DEF EndGeneration
<1>2. PICK chosen \in SUBSET mem.finalists : mem' = [mem EXCEPT !.selected = chosen]
  BY DEF EndGeneration, Selections
<1>3. Works /\ MemInv /\ AttemptsInv /\ mem \in Memory
  BY <1>1, WorksFacts
<1>4. /\ mem' \in Memory /\ mem'.accepted = mem.accepted /\ mem'.selected = chosen
      /\ mem'.hashes = mem.hashes /\ mem'.signals = mem.signals
      /\ mem'.finalists = mem.finalists
  BY <1>2, <1>3 DEF Memory
<1>5. MemInv' /\ AttemptsInv'
  BY <1>1, <1>2, <1>3, <1>4 DEF MemInv, AttemptsInv
<1>6. Valid' = Valid /\ IndicesWith({"REJECTED"})' = IndicesWith({"REJECTED"})
  BY <1>1, RowsKept DEF Inv
<1>7. Works'
  BY <1>1, <1>3, <1>4, <1>6 DEF Works, KnowsRows, Counts, Awaiting, Pending, run
<1> QED
  BY <1>1, <1>5, <1>7, GoesOn DEF PCs

\* The attempts that have a row are at most as many as the attempts made.
LEMMA AttemptsBounded ==
  ASSUME AttemptsInv
  PROVE  CountedAttempts \in 0 .. MaxAttempts
<1>1. IsFiniteSet(1 .. MaxAttempts) /\ Cardinality(1 .. MaxAttempts) = MaxAttempts
  BY Bounds, FS_Interval
<1>2. Cardinality(attempts) \in Nat
  BY FS_CardinalityType DEF AttemptsInv
<1>3. ASSUME MaxAttempts < Cardinality(attempts) PROVE FALSE
  <2> DEFINE indexOf == [a \in attempts |-> a.index]
  <2>1. indexOf \in [attempts -> 1 .. MaxAttempts]
    BY DEF AttemptsInv
  <2>2. IsFiniteSet(attempts)
    BY DEF AttemptsInv
  <2>3. \A a \in attempts : indexOf[a] = a.index
    OBVIOUS
  <2> HIDE DEF indexOf
  <2>4. \E a, b \in attempts : a # b /\ indexOf[a] = indexOf[b]
    BY <1>1, <1>3, <2>1, <2>2, FS_PigeonHole
  <2> QED
    BY <2>3, <2>4 DEF AttemptsInv
<1> QED
  BY <1>2, <1>3, Bounds DEF CountedAttempts

LEMMA ReconcileStep == ASSUME Inv, Reconcile PROVE Inv'
<1>1. CASE Throw("CHECK_CONSTRAINT")
  BY <1>1, ThrowStep
<1>2. CASE Unreconciled = {}
  <2>1. /\ pc = "reconcile" /\ pc' = "finish" /\ attemptCount' = CountedAttempts
        /\ UNCHANGED <<generator, run, rows, attempts, mem, trouble>>
    BY <1>2 DEF Reconcile
  <2>2. Works /\ MemInv /\ AttemptsInv
    BY <2>1, WorksFacts
  <2>3. MemInv' /\ AttemptsInv'
    BY <2>1, <2>2, AttemptsBounded DEF MemInv, AttemptsInv
  <2>4. /\ Valid' = Valid /\ Unreconciled' = Unreconciled
        /\ IndicesWith({"REJECTED"})' = IndicesWith({"REJECTED"})
    BY <2>1, RowsKept DEF Inv
  <2>5. Works'
    BY <1>2, <2>1, <2>2, <2>4 DEF Works, KnowsRows, Counts, Awaiting, Pending, run
  <2> QED
    BY <2>1, <2>3, <2>5, GoesOn DEF PCs
<1> QED
  BY <1>1, <1>2 DEF Reconcile

\* A bounded set of naturals has a largest element, so Max is one of a set's own.
LEMMA LessOnNaturals ==
  \E less : IsWellFoundedOn(less, Nat) /\ \A m, n \in Nat : m < n => <<m, n>> \in less
<1>1. \A m, n \in Nat : m < n => <<m, n>> \in OpToRel(<, Nat)
  BY DEF OpToRel
<1> WITNESS OpToRel(<, Nat)
<1> QED
  BY <1>1, NatLessThanWellFounded

LEMMA LeastOfNaturals ==
  ASSUME NEW S \in SUBSET Nat, S # {}
  PROVE  \E m \in S : \A n \in S : m <= n
<1>1. PICK less : IsWellFoundedOn(less, Nat) /\ \A m, n \in Nat : m < n => <<m, n>> \in less
  BY LessOnNaturals
<1>2. PICK m \in S : \A n \in S : ~(<<n, m>> \in less)
  <2>1. IsWellFoundedOn(less, Nat) /\ S \subseteq Nat
    BY <1>1
  <2> QED
    BY <2>1, WFMin
<1>3. \A n \in S : ~(n < m)
  BY <1>1, <1>2
<1> QED
  BY <1>3

LEMMA LargestOfBounded ==
  ASSUME NEW b \in Nat, NEW S \in SUBSET (0 .. b), S # {}
  PROVE  \E m \in S : \A n \in S : m >= n
<1> DEFINE T == {b - n : n \in S}
<1>1. T \subseteq Nat
  OBVIOUS
<1>2. T # {}
  <2>1. PICK s \in S : TRUE
    OBVIOUS
  <2>2. b - s \in T
    BY <2>1
  <2> QED
    BY <2>2
<1>3. PICK t \in T : \A u \in T : t <= u
  BY <1>1, <1>2, LeastOfNaturals
<1>4. PICK m \in S : t = b - m
  OBVIOUS
<1>5. \A n \in S : b - m <= b - n
  BY <1>3, <1>4
<1> QED
  BY <1>5

LEMMA BeginStep == ASSUME Inv, Begin PROVE Inv'
<1> DEFINE attempt   == Max({attemptCount} \cup {rows[i].attempt : i \in DOMAIN rows})
           counted   == IndicesWith(CountedStatuses)
           hashes    == {rows[i].candidate.hash : i \in DOMAIN rows}
           finalists == {[row |-> i, score |-> StoredScore(rows[i].candidate.oos)] :
                           i \in IndicesWith({"FINALIST"})}
<1>1. /\ mem' = [attempt |-> attempt, accepted |-> Cardinality(counted), hashes |-> hashes,
                 signals |-> StoredSignals, finalists |-> finalists, selected |-> {},
                 result |-> "NONE"]
      /\ pc = "idle" /\ pc' = "loop" /\ status' = "RUNNING" /\ outcome' = "PENDING"
      /\ UNCHANGED <<generator, failure, attemptCount, rows, attempts, trouble>>
  BY DEF Begin
<1>2. RowsInv /\ AttemptsInv /\ rows \in Seq(Row)
  BY DEF Inv, RowsInv
<1>3. \A i \in DOMAIN rows : rows[i].candidate \in Candidates /\ rows[i].attempt \in 1 .. MaxAttempts
  <2>1. \A i \in DOMAIN rows : rows[i] \in Row
    BY <1>2, RowsFacts
  <2> QED
    BY <2>1 DEF Row
<1>4. attempt \in 0 .. MaxAttempts
  <2> DEFINE A == {attemptCount} \cup {rows[i].attempt : i \in DOMAIN rows}
  <2>1. A \in SUBSET (0 .. MaxAttempts) /\ A # {}
    BY <1>2, <1>3, Bounds DEF AttemptsInv
  <2> HIDE DEF A
  <2>2. \E m \in A : \A n \in A : m >= n
    BY <2>1, Bounds, LargestOfBounded
  <2>3. Max(A) \in A
    BY <2>2 DEF Max
  <2> QED
    BY <2>1, <2>3 DEF A
<1>5. /\ counted \subseteq Valid
      /\ counted = {} => Valid \subseteq IndicesWith({"REJECTED"})
  <2>1. \A i \in DOMAIN rows : rows[i].validation \in {"VALID", "INVALID"} /\ rows[i].status \in RowStatuses
    <3>1. \A i \in DOMAIN rows : rows[i] \in Row
      BY <1>2, RowsFacts
    <3> QED
      BY <3>1 DEF Row
  <2>2. \A i \in DOMAIN rows :
          /\ rows[i].validation = "INVALID" => rows[i].status \in {"STRUCTURAL_REJECTED", "REJECTED"}
          /\ rows[i].validation = "VALID" => rows[i].status # "STRUCTURAL_REJECTED"
    BY <1>2, VerdictType DEF RowsInv, Settles
  <2> QED
    BY <2>1, <2>2 DEF Valid, IndicesWith, CountedStatuses
<1>6. /\ Cardinality(counted) \in Nat /\ Cardinality(counted) <= Cardinality(Valid)
      /\ Cardinality(counted) = 0 => counted = {}
  BY <1>2, <1>5, RowsFacts, FS_Subset, FS_CardinalityType, FS_EmptySet
<1>7. hashes \in SUBSET Nat /\ StoredSignals \in SUBSET Nat
  BY <1>3, Bounds DEF StoredSignals
<1>8. finalists \in SUBSET Finalist
  BY <1>2, <1>3, RowsFacts, ScoreType DEF Finalist, IndicesWith
<1>9. \A f \in finalists : f.row \in DOMAIN rows /\ rows[f.row].status = "FINALIST"
  BY DEF IndicesWith
<1>10. \A f, g \in finalists : f.row = g.row => f = g
  OBVIOUS
<1>11. \A i \in DOMAIN rows :
         /\ rows[i].candidate.hash \in hashes
         /\ rows[i].status # "STRUCTURAL_REJECTED" => rows[i].candidate.signals \in StoredSignals
  BY DEF StoredSignals
<1> HIDE DEF attempt, counted, hashes, finalists
<1>12. MemInv'
  BY <1>1, <1>4, <1>6, <1>7, <1>8, <1>9, <1>10 DEF MemInv, Memory
<1>13. /\ RowsInv' /\ Valid' = Valid
       /\ IndicesWith({"REJECTED"})' = IndicesWith({"REJECTED"})
  BY <1>1, <1>2, RowsKept
<1>14. KnowsRows'
  BY <1>1, <1>11 DEF KnowsRows
<1>15. Counts' /\ Awaiting'
  BY <1>1, <1>5, <1>6, <1>13 DEF Counts, Awaiting, Pending
<1>16. ExecInv'
  BY <1>1, <1>12, <1>14, <1>15 DEF ExecInv, Works, PCs, Executing
<1>17. AttemptsInv' /\ RunInv'
  BY <1>1, <1>2 DEF AttemptsInv, RunInv, Inv
<1> QED
  BY <1>1, <1>13, <1>16, <1>17, TroubleKept DEF Inv

-----------------------------------------------------------------------------
(* Steps that write a candidate.                                           *)

\* What a row that awaits its verdict is.
LEMMA RowOf ==
  ASSUME RowsInv, NEW i \in DOMAIN rows
  PROVE  /\ rows[i] \in Row /\ rows[i].candidate \in Candidates
         /\ rows[i].status \in {"FINALIST", "COMPLETED"} =>
              rows[i].validation = "VALID" /\ Verdict(rows[i].candidate) = "FINALIST"
         /\ rows[i].status = "COMPLETED" => Confirmed(rows[i].candidate)
<1>1. rows[i] \in Row /\ Settles(rows[i])
  BY DEF RowsInv
<1>2. rows[i].validation \in {"VALID", "INVALID"} /\ rows[i].candidate \in Candidates
  BY <1>1 DEF Row
<1>3. Verdict(rows[i].candidate) \in {"IS_REJECTED", "OOS_REJECTED", "FINALIST"}
  BY VerdictType
<1> QED
  BY <1>1, <1>2, <1>3 DEF Settles

LEMMA VerdictWrite ==
  ASSUME RowsInv, NEW i \in DOMAIN rows, NEW new \in RowStatuses \ {"STRUCTURAL_REJECTED"},
         rows[i].validation = "VALID",
         rows[i].status \notin {"STRUCTURAL_REJECTED", "REJECTED"},
         Settles([rows[i] EXCEPT !.status = new]), rows' = WithStatus(i, new),
         KnowsRows, Counts, Pending' <=> Pending,
         mem'.accepted = mem.accepted, mem'.hashes = mem.hashes, mem'.signals = mem.signals
  PROVE  /\ RowsInv' /\ DOMAIN rows' = DOMAIN rows /\ Len(rows') = Len(rows) /\ Valid' = Valid
         /\ \A j \in DOMAIN rows :
              /\ rows'[j].candidate = rows[j].candidate
              /\ rows'[j].validation = rows[j].validation
              /\ rows'[j].status = IF j = i THEN new ELSE rows[j].status
         /\ KnowsRows' /\ Counts'
<1>1. /\ RowsInv' /\ DOMAIN rows' = DOMAIN rows /\ Len(rows') = Len(rows) /\ Valid' = Valid
      /\ \A j \in DOMAIN rows :
           /\ rows'[j].candidate = rows[j].candidate
           /\ rows'[j].validation = rows[j].validation
           /\ rows'[j].status = IF j = i THEN new ELSE rows[j].status
  BY StatusWrite
<1>2. KnowsRows'
  BY <1>1 DEF KnowsRows
<1>3. i \in Valid /\ i \notin IndicesWith({"REJECTED"})
  BY DEF Valid, IndicesWith
<1>4. Counts'
  BY <1>1, <1>3 DEF Counts
<1> QED
  BY <1>1, <1>2, <1>4

\* The row of the run stays as it is while the execution writes.
LEMMA Writes ==
  ASSUME Inv, pc # "idle", pc' \in PCs \ {"idle"}, pc' # "finish",
         UNCHANGED <<generator, run, attemptCount, attempts, trouble>>,
         RowsInv', MemInv', KnowsRows', Counts', Awaiting',
         pc' \in {"generate", "record"} => mem'.attempt # 0,
         pc' = "evaluate" => mem'.accepted # 0, pc' = "record" => mem'.result # "NONE"
  PROVE  Inv'
<1>1. Works' /\ pc' \in PCs
  BY WorksFacts DEF Works, run
<1>2. status # "COMPLETED"
  BY WorksFacts DEF Works, Executing
<1>3. RunInv' /\ AttemptsInv'
  BY <1>2 DEF Inv, RunInv, AttemptsInv, run
<1> QED
  BY <1>1, <1>3, TroubleKept DEF Inv, ExecInv

LEMMA EvaluateStep == ASSUME Inv, Evaluate PROVE Inv'
<1>1. CASE status = "CANCELLING"
  BY <1>1, CancelledStep DEF Evaluate
<1>2. CASE status # "CANCELLING"
  <2>1. PICK i : i = Len(rows)
    OBVIOUS
  <2>2. PICK verdict : verdict = Verdict(rows[i].candidate)
    OBVIOUS
  <2>3. /\ pc = "evaluate" /\ pc' = "loop" /\ rows' = WithStatus(i, verdict)
        /\ mem' = [mem EXCEPT !.finalists = IF verdict = "FINALIST"
                     THEN @ \cup {[row |-> i, score |-> Scored(rows[i].candidate.oos)]} ELSE @]
        /\ UNCHANGED <<generator, run, attemptCount, attempts, trouble>>
    BY <1>2, <2>1, <2>2 DEF Evaluate
  <2>4. Works /\ MemInv /\ RowsInv /\ mem \in Memory
    BY <2>3, WorksFacts
  <2>5. i \in DOMAIN rows /\ rows[i].status = "GENERATED" /\ rows[i].validation = "VALID"
    <3>1. rows # <<>> /\ rows \in Seq(Row)
      BY <2>3, <2>4 DEF Works, Awaiting, RowsInv
    <3>2. Len(rows) \in DOMAIN rows
      BY <3>1, EmptySeq
    <3> QED
      BY <2>1, <2>3, <2>4, <3>2 DEF Works, Awaiting
  <2>6. rows[i] \in Row /\ rows[i].candidate \in Candidates
    BY <2>4, <2>5, RowOf
  <2>7. verdict \in {"IS_REJECTED", "OOS_REJECTED", "FINALIST"}
    BY <2>2, VerdictType
  <2>8. PICK new : new = [rows[i] EXCEPT !.status = verdict]
    OBVIOUS
  <2>9. /\ new.status = verdict /\ new.validation = "VALID"
        /\ new.candidate = rows[i].candidate
    BY <2>5, <2>6, <2>8 DEF Row
  <2>10. Settles(new)
    BY <2>2, <2>7, <2>9 DEF Settles
  <2>11. PICK f : f = [row |-> i, score |-> Scored(rows[i].candidate.oos)]
    OBVIOUS
  <2>12. i \in Nat /\ f \in Finalist /\ f.row = i
    BY <2>1, <2>4, <2>6, <2>11, ScoreType, RowsFacts DEF Finalist, RowsInv
  <2>13. /\ mem' \in Memory /\ mem'.accepted = mem.accepted
         /\ mem'.hashes = mem.hashes /\ mem'.signals = mem.signals
         /\ mem'.selected = mem.selected
         /\ mem'.finalists = IF verdict = "FINALIST" THEN mem.finalists \cup {f} ELSE mem.finalists
    BY <2>3, <2>4, <2>11, <2>12 DEF Memory
  <2>14. ~Pending /\ ~Pending'
    BY <2>3 DEF Pending
  <2>15. /\ RowsInv' /\ DOMAIN rows' = DOMAIN rows
         /\ \A j \in DOMAIN rows : rows'[j].status = IF j = i THEN verdict ELSE rows[j].status
         /\ KnowsRows' /\ Counts'
    BY <2>3, <2>4, <2>5, <2>7, <2>8, <2>10, <2>13, <2>14, VerdictWrite DEF Works, RowStatuses
  <2>16. MemInv'
    <3>1. \A g \in mem.finalists : g.row \in DOMAIN rows /\ g.row # i
      BY <2>4, <2>5 DEF MemInv
    <3> QED
      BY <2>4, <2>5, <2>12, <2>13, <2>15, <3>1 DEF MemInv
  <2>17. Awaiting'
    BY <2>3, <2>14 DEF Awaiting
  <2> QED
    BY <2>3, <2>15, <2>16, <2>17, Writes DEF PCs
<1> QED
  BY <1>1, <1>2

\* A finalist gets its verdict and leaves the memory.
LEMMA FinalistWrite ==
  ASSUME Inv, pc \in {"select", "holdout"}, pc' = pc, NEW f \in mem.finalists,
         NEW new \in {"REJECTED", "COMPLETED", "HOLDOUT_REJECTED"},
         new = "COMPLETED" => Confirmed(rows[f.row].candidate),
         new = "HOLDOUT_REJECTED" => ~Confirmed(rows[f.row].candidate),
         rows' = WithStatus(f.row, new),
         NEW chosen \in SUBSET (mem.finalists \ {f}),
         mem' = [mem EXCEPT !.finalists = @ \ {f}, !.selected = chosen],
         UNCHANGED <<generator, run, attemptCount, attempts, trouble>>
  PROVE  Inv'
<1>1. Works /\ MemInv /\ RowsInv /\ mem \in Memory
  BY WorksFacts
<1>2. PICK i : i = f.row
  OBVIOUS
<1>3. i \in DOMAIN rows /\ rows[i].status = "FINALIST"
  BY <1>1, <1>2 DEF MemInv
<1>4. /\ rows[i] \in Row /\ rows[i].validation = "VALID"
      /\ Verdict(rows[i].candidate) = "FINALIST"
  BY <1>1, <1>3, RowOf
<1>5. PICK row : row = [rows[i] EXCEPT !.status = new]
  OBVIOUS
<1>6. row.status = new /\ row.validation = "VALID" /\ row.candidate = rows[i].candidate
  BY <1>4, <1>5 DEF Row
<1>7. Settles(row)
  BY <1>2, <1>4, <1>6 DEF Settles
<1>8. /\ mem' \in Memory /\ mem'.accepted = mem.accepted
      /\ mem'.hashes = mem.hashes /\ mem'.signals = mem.signals
      /\ mem'.finalists = mem.finalists \ {f} /\ mem'.selected = chosen
  BY <1>1 DEF Memory
<1>9. ~Pending /\ ~Pending'
  BY DEF Pending
<1>10. /\ RowsInv' /\ DOMAIN rows' = DOMAIN rows
       /\ \A j \in DOMAIN rows : rows'[j].status = IF j = i THEN new ELSE rows[j].status
       /\ KnowsRows' /\ Counts'
  BY <1>1, <1>2, <1>3, <1>4, <1>5, <1>7, <1>8, <1>9, VerdictWrite DEF Works, RowStatuses
<1>11. MemInv'
  <2>1. \A g \in mem.finalists \ {f} : g.row # i
    BY <1>1, <1>2 DEF MemInv
  <2> QED
    BY <1>1, <1>8, <1>10, <2>1 DEF MemInv
<1>12. Awaiting'
  BY <1>9 DEF Awaiting
<1> QED
  BY <1>10, <1>11, <1>12, Writes DEF PCs

\* Nothing to do at a stage: the next one.
LEMMA StageEnds ==
  ASSUME Inv, pc \in {"select", "holdout"}, pc' \in {"holdout", "reconcile"},
         UNCHANGED <<generator, run, attemptCount, rows, attempts, mem, trouble>>
  PROVE  Inv'
<1>1. Works /\ MemInv /\ AttemptsInv
  BY WorksFacts
<1>2. Valid' = Valid /\ IndicesWith({"REJECTED"})' = IndicesWith({"REJECTED"})
  BY RowsKept DEF Inv
<1>3. MemInv' /\ AttemptsInv'
  BY <1>1 DEF MemInv, AttemptsInv
<1>4. Works'
  BY <1>1, <1>2 DEF Works, KnowsRows, Counts, Awaiting, Pending, run
<1> QED
  BY <1>3, <1>4, GoesOn DEF PCs

LEMMA RejectFinalistStep == ASSUME Inv, RejectFinalist PROVE Inv'
<1>1. /\ pc = "select" /\ UNCHANGED <<generator, run, attemptCount, attempts, trouble>>
  BY DEF RejectFinalist
<1>2. CASE mem.finalists \ mem.selected = {}
  <2>1. pc' = "holdout" /\ UNCHANGED <<rows, mem>>
    BY <1>2 DEF RejectFinalist
  <2> QED
    BY <1>1, <2>1, StageEnds
<1>3. CASE mem.finalists \ mem.selected # {}
  <2>1. PICK f \in mem.finalists \ mem.selected :
          /\ rows' = WithStatus(f.row, "REJECTED")
          /\ mem' = [mem EXCEPT !.finalists = @ \ {f}] /\ pc' = pc
    BY <1>3 DEF RejectFinalist
  <2>2. mem \in Memory /\ mem.selected \subseteq mem.finalists
    BY <1>1, WorksFacts DEF MemInv
  <2>3. mem.selected \in SUBSET (mem.finalists \ {f})
    BY <2>1, <2>2
  <2>4. mem' = [mem EXCEPT !.finalists = @ \ {f}, !.selected = mem.selected]
    BY <2>1, <2>2 DEF Memory
  <2> QED
    BY <1>1, <2>1, <2>3, <2>4, FinalistWrite
<1> QED
  BY <1>2, <1>3

LEMMA HoldoutStep == ASSUME Inv, Holdout PROVE Inv'
<1>1. pc = "holdout"
  BY DEF Holdout
<1>2. CASE mem.selected = {}
  BY <1>1, <1>2, StageEnds DEF Holdout
<1>3. CASE Cancelled
  BY <1>3, CancelledStep
<1>4. CASE mem.selected # {} /\ status # "CANCELLING"
  <2>1. PICK f \in mem.selected :
          /\ rows' = WithStatus(f.row, IF Confirmed(rows[f.row].candidate) THEN "COMPLETED" ELSE "HOLDOUT_REJECTED")
          /\ mem' = [mem EXCEPT !.selected = @ \ {f}, !.finalists = @ \ {f}] /\ pc' = pc
          /\ UNCHANGED <<generator, run, attemptCount, attempts, trouble>>
    BY <1>4 DEF Holdout
  <2>2. mem \in Memory /\ mem.selected \subseteq mem.finalists
    BY <1>1, WorksFacts DEF MemInv
  <2>3. f \in mem.finalists /\ mem.selected \ {f} \in SUBSET (mem.finalists \ {f})
    BY <2>1, <2>2
  <2>4. mem' = [mem EXCEPT !.finalists = @ \ {f}, !.selected = mem.selected \ {f}]
    BY <2>1, <2>2 DEF Memory
  <2>5. PICK new : new = IF Confirmed(rows[f.row].candidate) THEN "COMPLETED" ELSE "HOLDOUT_REJECTED"
    OBVIOUS
  <2>6. /\ new \in {"COMPLETED", "HOLDOUT_REJECTED"}
        /\ new = "COMPLETED" => Confirmed(rows[f.row].candidate)
        /\ new = "HOLDOUT_REJECTED" => ~Confirmed(rows[f.row].candidate)
    BY <2>5
  <2>7. rows' = WithStatus(f.row, new)
    BY <2>1, <2>5
  <2> QED
    BY <1>1, <2>1, <2>3, <2>4, <2>6, <2>7, FinalistWrite
<1> QED
  BY <1>2, <1>3, <1>4 DEF Holdout

\* A candidate that no row has is stored.
LEMMA RowAppend ==
  ASSUME RowsInv, NEW row \in Row, Settles(row), rows' = Append(rows, row),
         \A j \in DOMAIN rows : rows[j].candidate.hash # row.candidate.hash,
         row.validation = "VALID" =>
           \A j \in DOMAIN rows :
             rows[j].status = "STRUCTURAL_REJECTED" \/ rows[j].candidate.signals # row.candidate.signals
  PROVE  /\ RowsInv' /\ Len(rows') = Len(rows) + 1
         /\ DOMAIN rows' = DOMAIN rows \cup {Len(rows) + 1}
         /\ \A j \in DOMAIN rows : rows'[j] = rows[j]
         /\ rows'[Len(rows) + 1] = row
         /\ Valid' = IF row.validation = "VALID" THEN Valid \cup {Len(rows) + 1} ELSE Valid
<1>1. rows \in Seq(Row) /\ Len(rows) \in Nat /\ DOMAIN rows = 1 .. Len(rows)
  BY RowsFacts DEF RowsInv
<1>2. PICK n : n = Len(rows) + 1
  OBVIOUS
<1>3. /\ rows' \in Seq(Row) /\ Len(rows') = n /\ DOMAIN rows' = 1 .. n
      /\ \A j \in DOMAIN rows : rows'[j] = rows[j]
      /\ rows'[n] = row
  BY <1>1, <1>2, AppendProperties
<1>4. n \in Nat /\ n \notin DOMAIN rows /\ DOMAIN rows' = DOMAIN rows \cup {n}
  BY <1>1, <1>2, <1>3
<1>5. HashesUnique'
  <2>1. \A i, j \in DOMAIN rows : rows[i].candidate.hash = rows[j].candidate.hash => i = j
    BY DEF RowsInv, HashesUnique
  <2>2. ASSUME NEW i \in DOMAIN rows', NEW j \in DOMAIN rows',
               rows'[i].candidate.hash = rows'[j].candidate.hash
        PROVE  i = j
    BY <1>3, <1>4, <2>1, <2>2
  <2> QED
    BY <2>2 DEF HashesUnique
<1>6. Valid' = IF row.validation = "VALID" THEN Valid \cup {n} ELSE Valid
  BY <1>3, <1>4 DEF Valid
<1>7. SignalsUnique'
  <2>1. \A i \in Valid : \A j \in 1 .. i - 1 : i \in DOMAIN rows /\ j \in DOMAIN rows
    BY <1>1 DEF Valid
  <2>2. \A j \in 1 .. n - 1 : j \in DOMAIN rows
    BY <1>1, <1>2
  <2>3. ASSUME NEW i \in Valid', NEW j \in 1 .. i - 1
        PROVE  rows'[j].status = "STRUCTURAL_REJECTED" \/ rows'[i].candidate.signals # rows'[j].candidate.signals
    <3>1. CASE i \in Valid
      BY <1>3, <2>1, <3>1 DEF RowsInv, SignalsUnique
    <3>2. CASE i = n /\ row.validation = "VALID"
      BY <1>3, <2>2, <3>2
    <3> QED
      BY <1>6, <3>1, <3>2
  <2> QED
    BY <2>3 DEF SignalsUnique
<1>8. \A i \in DOMAIN rows' : Settles(rows'[i])
  BY <1>3, <1>4 DEF RowsInv
<1> QED
  BY <1>2, <1>3, <1>4, <1>5, <1>6, <1>7, <1>8 DEF RowsInv, Settles

LEMMA GenerateStep == ASSUME Inv, Generate PROVE Inv'
<1>1. PICK c : c = generator[mem.attempt]
  OBVIOUS
<1>2. PICK result : result = ResultOf(c)
  OBVIOUS
<1>3. pc = "generate" /\ pc' = "record" /\ UNCHANGED <<generator, run, attemptCount, attempts, trouble>>
  BY DEF Generate
<1>4. Works /\ MemInv /\ RowsInv /\ mem \in Memory
  BY <1>3, WorksFacts
<1>5. mem.attempt \in 1 .. MaxAttempts
  BY <1>3, <1>4, Bounds DEF Works, Memory
<1>6. c \in Candidates \cup {Error}
  BY <1>1, <1>5, GenerationAssumption DEF Inv
<1>7. result \in Results
  BY <1>2 DEF ResultOf, Results
<1>8. ~Pending /\ (Pending' <=> mem'.result = Accepted)
  BY <1>3 DEF Pending
<1>9. mem.accepted \in Nat /\ Cardinality(Valid) \in Nat
  BY <1>4, RowsFacts DEF RowsInv, Memory
<1>10. CASE result \in {"GENERATION_ERROR", "EXACT_DUPLICATE"}
  <2>1. mem' = [mem EXCEPT !.result = result] /\ rows' = rows
    BY <1>1, <1>2, <1>10 DEF Generate
  <2>2. /\ mem' \in Memory /\ mem'.attempt = mem.attempt /\ mem'.accepted = mem.accepted
        /\ mem'.hashes = mem.hashes /\ mem'.signals = mem.signals
        /\ mem'.finalists = mem.finalists /\ mem'.selected = mem.selected /\ mem'.result = result
    BY <1>4, <1>7, <2>1 DEF Memory
  <2>3. /\ RowsInv' /\ Valid' = Valid
        /\ IndicesWith({"REJECTED"})' = IndicesWith({"REJECTED"})
    BY <1>4, <2>1, RowsKept
  <2>4. ~Pending'
    BY <1>8, <1>10, <2>2 DEF Accepted
  <2>5. MemInv' /\ KnowsRows' /\ Counts' /\ Awaiting'
    BY <1>3, <1>4, <1>8, <2>1, <2>2, <2>3, <2>4 DEF MemInv, Works, KnowsRows, Counts, Awaiting
  <2>6. mem'.result # "NONE" /\ mem'.attempt # 0
    BY <1>5, <1>10, <2>2
  <2> QED
    BY <1>3, <2>3, <2>5, <2>6, Writes DEF PCs
<1>11. CASE result \notin {"GENERATION_ERROR", "EXACT_DUPLICATE"}
  <2>1. PICK row : row = Stored(c, result)
    OBVIOUS
  <2>2. /\ rows' = Append(rows, row)
        /\ mem' = [mem EXCEPT !.result = result, !.hashes = @ \cup {c.hash},
                              !.signals = IF result = "STATIC_REJECTED" THEN @ ELSE @ \cup {c.signals}]
    BY <1>1, <1>2, <1>11, <2>1 DEF Generate
  <2>3. /\ c \in Candidates /\ c.hash \notin mem.hashes
        /\ result = Accepted => c.signals \notin mem.signals
    BY <1>2, <1>6, <1>11 DEF ResultOf, Accepted
  <2>4. /\ row.candidate = c /\ row.attempt = mem.attempt /\ row.status = StatusOf(result)
        /\ row.validation = IF result = Accepted THEN "VALID" ELSE "INVALID"
        /\ row = [candidate |-> row.candidate, attempt |-> row.attempt,
                  status |-> row.status, validation |-> row.validation]
    BY <2>1 DEF Stored, Accepted
  <2>5. /\ row.status \in {"STRUCTURAL_REJECTED", "GENERATED", "REJECTED"}
        /\ row.status = "GENERATED" <=> result = Accepted
        /\ row.status = "STRUCTURAL_REJECTED" <=> result = "STATIC_REJECTED"
    BY <2>4 DEF StatusOf, Accepted
  <2>6. row \in Row
    BY <1>5, <2>3, <2>4, <2>5 DEF Row, RowStatuses
  <2>7. Settles(row)
    BY <2>4, <2>5 DEF Settles
  <2>8. \A j \in DOMAIN rows :
          /\ rows[j].candidate.hash \in mem.hashes
          /\ rows[j].status # "STRUCTURAL_REJECTED" => rows[j].candidate.signals \in mem.signals
    BY <1>4 DEF Works, KnowsRows
  <2>9. PICK n : n = Len(rows) + 1
    OBVIOUS
  <2>10. /\ RowsInv' /\ Len(rows') = n /\ DOMAIN rows' = DOMAIN rows \cup {n}
         /\ \A j \in DOMAIN rows : rows'[j] = rows[j]
         /\ rows'[n] = row
         /\ Valid' = IF result = Accepted THEN Valid \cup {n} ELSE Valid
    BY <1>4, <2>2, <2>3, <2>4, <2>6, <2>7, <2>8, <2>9, RowAppend
  <2>11. c.hash \in Nat /\ c.signals \in Nat
    BY <2>3, Bounds
  <2>12. /\ mem'.attempt = mem.attempt /\ mem'.accepted = mem.accepted
         /\ mem'.hashes = mem.hashes \cup {c.hash}
         /\ mem'.signals = IF result = "STATIC_REJECTED" THEN mem.signals ELSE mem.signals \cup {c.signals}
         /\ mem'.finalists = mem.finalists /\ mem'.selected = mem.selected /\ mem'.result = result
         /\ mem' \in Memory
    BY <1>4, <1>7, <2>2, <2>11 DEF Memory
  <2>13. MemInv'
    BY <1>4, <2>10, <2>12 DEF MemInv
  <2>14. KnowsRows'
    BY <2>4, <2>5, <2>8, <2>10, <2>12 DEF KnowsRows
  <2>15. n \notin DOMAIN rows
    <3>1. Len(rows) \in Nat /\ DOMAIN rows = 1 .. Len(rows)
      BY <1>4, RowsFacts DEF RowsInv
    <3> QED
      BY <2>9, <3>1
  <2>16. Counts'
    <3>1. CASE result = Accepted
      <4>1. n \notin Valid /\ IsFiniteSet(Valid)
        BY <1>4, <2>15, RowsFacts DEF RowsInv, Valid
      <4>2. Cardinality(Valid') = Cardinality(Valid) + 1
        BY <2>10, <3>1, <4>1, FS_AddElement
      <4> QED
        BY <1>4, <1>8, <1>9, <2>12, <3>1, <4>2 DEF Works, Counts
    <3>2. CASE result # Accepted
      <4>1. Valid \subseteq IndicesWith({"REJECTED"}) => Valid \subseteq IndicesWith({"REJECTED"})'
        BY <2>10 DEF IndicesWith
      <4> QED
        BY <1>4, <1>8, <2>10, <2>12, <3>2, <4>1 DEF Works, Counts
    <3> QED
      BY <3>1, <3>2
  <2>17. Awaiting'
    <3>1. ASSUME result = Accepted
          PROVE  rows' # <<>> /\ rows'[Len(rows')].status = "GENERATED" /\ rows'[Len(rows')].validation = "VALID"
      <4>1. n \in DOMAIN rows'
        BY <2>10
      <4> QED
        BY <2>4, <2>5, <2>10, <3>1, <4>1
    <3> QED
      BY <1>3, <1>8, <2>12, <3>1 DEF Awaiting
  <2>18. mem'.result # "NONE" /\ mem'.attempt # 0
    BY <1>5, <1>7, <2>12 DEF Results
  <2> QED
    BY <1>3, <2>10, <2>13, <2>14, <2>16, <2>17, <2>18, Writes DEF PCs
<1> QED
  BY <1>10, <1>11

LEMMA PromoteStep == ASSUME Inv, Promote PROVE Inv'
<1>1. /\ UNCHANGED <<generator, run, attemptCount, attempts, pc, mem, trouble>>
      /\ UNCHANGED <<status, outcome, failure>>
  BY DEF Promote, run
<1>2. PICK i \in DOMAIN rows : rows[i].status = "COMPLETED" /\ rows' = WithStatus(i, "PROMOTED")
  BY DEF Promote, WithStatus
<1>3. RowsInv /\ ExecInv /\ RunInv
  BY DEF Inv
<1>4. /\ rows[i] \in Row /\ rows[i].validation = "VALID"
      /\ Verdict(rows[i].candidate) = "FINALIST" /\ Confirmed(rows[i].candidate)
  BY <1>2, <1>3, RowOf
<1>5. PICK row : row = [rows[i] EXCEPT !.status = "PROMOTED"]
  OBVIOUS
<1>6. row.status = "PROMOTED" /\ row.validation = "VALID" /\ row.candidate = rows[i].candidate
  BY <1>4, <1>5 DEF Row
<1>7. Settles(row)
  BY <1>4, <1>6 DEF Settles
<1>8. /\ RowsInv' /\ DOMAIN rows' = DOMAIN rows /\ Len(rows') = Len(rows) /\ Valid' = Valid
      /\ \A j \in DOMAIN rows :
           /\ rows'[j].candidate = rows[j].candidate
           /\ rows'[j].validation = rows[j].validation
           /\ rows'[j].status = IF j = i THEN "PROMOTED" ELSE rows[j].status
  BY <1>2, <1>3, <1>5, <1>7, StatusWrite DEF RowStatuses
<1>9. /\ IndicesWith({"REJECTED"})' = IndicesWith({"REJECTED"})
      /\ Unreconciled' = Unreconciled
  BY <1>2, <1>8 DEF IndicesWith, Unreconciled, Transient
<1>10. MemInv'
  BY <1>1, <1>2, <1>3, <1>8 DEF ExecInv, MemInv
<1>11. ASSUME pc' # "idle" PROVE Works'
  <2>1. Works
    BY <1>1, <1>3, <1>11 DEF ExecInv
  <2>2. KnowsRows' /\ Counts'
    BY <1>1, <1>2, <1>8, <1>9, <2>1 DEF Works, KnowsRows, Counts, Pending
  <2>3. Awaiting'
    <3>1. SUFFICES ASSUME Pending' \/ pc' = "evaluate"
                   PROVE  rows' # <<>> /\ rows'[Len(rows')].status = "GENERATED" /\ rows'[Len(rows')].validation = "VALID"
      BY DEF Awaiting
    <3>2. rows # <<>> /\ rows[Len(rows)].status = "GENERATED" /\ rows[Len(rows)].validation = "VALID"
      BY <1>1, <2>1, <3>1 DEF Works, Awaiting, Pending
    <3>3. Len(rows) \in DOMAIN rows
      BY <1>3, <3>2, EmptySeq DEF RowsInv
    <3> QED
      BY <1>2, <1>8, <3>2, <3>3
  <2> QED
    BY <1>1, <1>9, <2>1, <2>2, <2>3 DEF Works
<1>12. ExecInv'
  BY <1>1, <1>3, <1>10, <1>11 DEF ExecInv
<1>13. RunInv' /\ AttemptsInv'
  BY <1>1, <1>3, <1>8, <1>9 DEF Inv, RunInv, AttemptsInv
<1> QED
  BY <1>1, <1>8, <1>12, <1>13, TroubleKept DEF Inv

LEMMA StutterStep == ASSUME Inv, UNCHANGED vars PROVE Inv'
<1>1. /\ UNCHANGED <<generator, attemptCount, rows, attempts, pc, mem, trouble>>
      /\ UNCHANGED <<status, outcome, failure>>
  BY DEF vars, run
<1>2. /\ RowsInv' /\ Valid' = Valid /\ Unreconciled' = Unreconciled
      /\ IndicesWith({"REJECTED"})' = IndicesWith({"REJECTED"})
  BY <1>1, RowsKept DEF Inv
<1>3. MemInv' /\ (Works => Works')
  BY <1>1, <1>2 DEF Inv, ExecInv, MemInv, Works, KnowsRows, Counts, Awaiting, Pending
<1>4. ExecInv'
  BY <1>1, <1>3 DEF Inv, ExecInv
<1>5. RunInv' /\ AttemptsInv'
  BY <1>1, <1>2 DEF Inv, RunInv, AttemptsInv
<1> QED
  BY <1>1, <1>2, <1>4, <1>5, TroubleKept DEF Inv

-----------------------------------------------------------------------------
(* The budget.                                                             *)

\* What the candidates in use have to do with the execution's count: it has
\* counted them all but one that is stored and about to be recorded, and makes
\* one more only while there is room.
BudgetInv ==
    /\ BudgetKept
    /\ pc # "idle" /\ ~Pending => Cardinality(InUse) <= mem.accepted /\ mem.accepted <= Budget
    /\ Pending => Cardinality(InUse) <= mem.accepted + 1 /\ mem.accepted < Budget
    /\ pc = "generate" => mem.accepted < Budget

LEMMA InUseFacts ==
  ASSUME RowsInv
  PROVE  /\ IsFiniteSet(InUse) /\ Cardinality(InUse) \in Nat
         /\ \A S \in SUBSET InUse : IsFiniteSet(S) /\ Cardinality(S) \in Nat /\ Cardinality(S) <= Cardinality(InUse)
<1>1. IsFiniteSet(Valid)
  BY RowsFacts DEF RowsInv
<1>2. InUse \subseteq Valid
  BY DEF InUse
<1>3. IsFiniteSet(InUse)
  BY <1>1, <1>2, FS_Subset
<1> QED
  BY <1>3, FS_Subset, FS_CardinalityType

\* A candidate in use gets another status, and no other comes into use.
LEMMA StatusShrinks ==
  ASSUME RowsInv, NEW i \in DOMAIN rows, rows[i].status # "REJECTED", NEW new \in RowStatuses,
         rows' = WithStatus(i, new)
  PROVE  InUse' \subseteq InUse
<1>1. rows \in Seq(Row) /\ rows[i] \in Row
  BY DEF RowsInv
<1>2. PICK row : row = [rows[i] EXCEPT !.status = new]
  OBVIOUS
<1>3. row \in Row /\ row.validation = rows[i].validation
  BY <1>1, <1>2 DEF Row
<1>4. rows' = [rows EXCEPT ![i] = row]
  BY <1>2 DEF WithStatus
<1>5. DOMAIN rows' = DOMAIN rows /\ \A j \in DOMAIN rows : rows'[j] = IF j = i THEN row ELSE rows[j]
  BY <1>1, <1>3, <1>4, ExceptSeq
<1> QED
  BY <1>3, <1>5 DEF InUse, Valid, IndicesWith

LEMMA RowsSame == ASSUME rows' = rows PROVE InUse' = InUse
  BY DEF InUse, Valid, IndicesWith

\* Steps that bring no candidate into use and leave the count as it is.
LEMMA BudgetShrinks ==
  ASSUME Inv, BudgetInv, InUse' \subseteq InUse,
         \/ pc' = "idle"
         \/ /\ pc # "idle" /\ mem'.accepted = mem.accepted
            /\ Pending' <=> Pending
            /\ pc' = "generate" => pc = "generate"
  PROVE  BudgetInv'
<1>1. Cardinality(InUse) \in Nat /\ Cardinality(InUse') \in Nat /\ Cardinality(InUse') <= Cardinality(InUse)
  BY InUseFacts DEF Inv
<1>2. mem.accepted \in Nat
  BY DEF Inv, ExecInv, MemInv, Memory
<1>3. BudgetKept'
  BY <1>1, Bounds DEF BudgetInv, BudgetKept
<1>4. CASE pc' = "idle"
  BY <1>3, <1>4 DEF BudgetInv, Pending
<1>5. CASE /\ pc # "idle" /\ mem'.accepted = mem.accepted
           /\ Pending' <=> Pending
           /\ pc' = "generate" => pc = "generate"
  BY <1>1, <1>2, <1>3, <1>5, Bounds DEF BudgetInv
<1> QED
  BY <1>4, <1>5

LEMMA BeginBudget == ASSUME Inv, BudgetInv, Begin PROVE BudgetInv'
<1>1. rows' = rows /\ pc' = "loop" /\ mem'.accepted = Cardinality(IndicesWith(CountedStatuses))
  BY DEF Begin
<1>2. IndicesWith(CountedStatuses) = InUse
  <2>1. RowsInv
    BY DEF Inv
  <2>2. \A i \in DOMAIN rows : rows[i].validation \in {"VALID", "INVALID"} /\ rows[i].status \in RowStatuses
    <3>1. \A i \in DOMAIN rows : rows[i] \in Row
      BY <2>1, RowsFacts DEF RowsInv
    <3> QED
      BY <3>1 DEF Row
  <2>3. \A i \in DOMAIN rows :
          /\ rows[i].validation = "INVALID" => rows[i].status \in {"STRUCTURAL_REJECTED", "REJECTED"}
          /\ rows[i].validation = "VALID" => rows[i].status # "STRUCTURAL_REJECTED"
    BY <2>1, VerdictType DEF RowsInv, Settles
  <2> QED
    BY <2>2, <2>3 DEF InUse, Valid, IndicesWith, CountedStatuses
<1>3. InUse' = InUse /\ ~Pending'
  BY <1>1, RowsSame DEF Pending
<1>4. Cardinality(InUse) \in Nat
  BY InUseFacts DEF Inv
<1> QED
  BY <1>1, <1>2, <1>3, <1>4, Bounds DEF BudgetInv, BudgetKept

LEMMA NextAttemptBudget == ASSUME Inv, BudgetInv, NextAttempt PROVE BudgetInv'
<1>1. pc = "loop" /\ mem.accepted < Budget /\ rows' = rows
  BY DEF NextAttempt, More, Cancelled, Paused
<1>2. InUse' = InUse
  BY <1>1, RowsSame
<1>3. CASE pc' = "idle"
  BY <1>2, <1>3, BudgetShrinks
<1>4. CASE pc' = "generate" /\ mem' = [mem EXCEPT !.attempt = @ + 1]
  <2>1. mem'.accepted = mem.accepted
    BY <1>4 DEF Inv, ExecInv, MemInv, Memory
  <2> QED
    BY <1>1, <1>2, <1>4, <2>1 DEF BudgetInv, BudgetKept, Pending
<1> QED
  BY <1>3, <1>4 DEF NextAttempt, Cancelled, Paused, Leave

\* The candidate that is stored comes into use when it is accepted.
LEMMA GenerateBudget == ASSUME Inv, BudgetInv, Generate PROVE BudgetInv'
<1>1. pc = "generate" /\ pc' = "record"
  BY DEF Generate
<1>2. PICK c : c = generator[mem.attempt]
  OBVIOUS
<1>3. PICK result : result = ResultOf(c)
  OBVIOUS
<1>4. mem \in Memory /\ rows \in Seq(Row) /\ ~Pending
  BY <1>1 DEF Inv, RowsInv, ExecInv, MemInv, Pending
<1>5. mem'.accepted = mem.accepted /\ mem'.result = result
  BY <1>2, <1>3, <1>4 DEF Generate, Memory
<1>6. PICK n : n = Len(rows) + 1
  OBVIOUS
<1>7. InUse' \subseteq IF result = Accepted THEN InUse \cup {n} ELSE InUse
  <2>1. CASE rows' = rows
    BY <2>1, RowsSame
  <2>2. CASE result \notin {"GENERATION_ERROR", "EXACT_DUPLICATE"}
    <3>1. PICK row : row = Stored(c, result)
      OBVIOUS
    <3>2. rows' = Append(rows, row)
      BY <1>2, <1>3, <2>2, <3>1 DEF Generate
    <3>3. row.validation = IF result = Accepted THEN "VALID" ELSE "INVALID"
      BY <3>1 DEF Stored, Accepted
    <3>4. /\ DOMAIN rows' = DOMAIN rows \cup {n} /\ rows'[n] = row
          /\ \A j \in DOMAIN rows : rows'[j] = rows[j]
      BY <1>4, <1>6, <3>2
    <3> QED
      BY <3>3, <3>4 DEF InUse, Valid, IndicesWith
  <2> QED
    BY <1>2, <1>3, <2>1, <2>2 DEF Generate
<1>8. mem.accepted \in Nat /\ Cardinality(InUse) \in Nat /\ IsFiniteSet(InUse)
  BY <1>4, InUseFacts DEF Inv, Memory
<1>9. Cardinality(InUse) <= mem.accepted /\ mem.accepted < Budget
  BY <1>1, <1>4 DEF BudgetInv
<1>10. CASE result = Accepted
  <2>1. /\ IsFiniteSet(InUse \cup {n})
        /\ Cardinality(InUse \cup {n}) <= Cardinality(InUse) + 1
    BY <1>8, FS_AddElement
  <2>2. /\ Cardinality(InUse') \in Nat
        /\ Cardinality(InUse') <= Cardinality(InUse) + 1
    <3>1. Cardinality(InUse \cup {n}) \in Nat
      BY <2>1, FS_CardinalityType
    <3>2. IsFiniteSet(InUse') /\ Cardinality(InUse') <= Cardinality(InUse \cup {n})
      BY <1>7, <1>10, <2>1, FS_Subset
    <3>3. Cardinality(InUse') \in Nat
      BY <3>2, FS_CardinalityType
    <3> QED
      BY <1>8, <2>1, <3>1, <3>2, <3>3
  <2>3. Pending'
    BY <1>1, <1>5, <1>10 DEF Pending
  <2> QED
    BY <1>1, <1>5, <1>8, <1>9, <2>2, <2>3, Bounds DEF BudgetInv, BudgetKept
<1>11. CASE result # Accepted
  <2>1. Pending' <=> Pending
    BY <1>1, <1>4, <1>5, <1>11 DEF Pending
  <2> QED
    BY <1>1, <1>5, <1>7, <1>11, <2>1, BudgetShrinks
<1> QED
  BY <1>10, <1>11

LEMMA RecordAttemptBudget == ASSUME Inv, BudgetInv, RecordAttempt PROVE BudgetInv'
<1>1. pc = "record" /\ rows' = rows
  BY DEF RecordAttempt, Throw
<1>2. InUse' = InUse
  BY <1>1, RowsSame
<1>3. CASE pc' = "idle"
  BY <1>2, <1>3, BudgetShrinks
<1>4. CASE mem.result = Accepted /\ pc' = "evaluate" /\ mem' = [mem EXCEPT !.accepted = @ + 1]
  <2>1. mem.accepted \in Nat /\ mem'.accepted = mem.accepted + 1
    BY <1>4 DEF Inv, ExecInv, MemInv, Memory
  <2>2. Pending /\ ~Pending'
    BY <1>1, <1>4 DEF Pending
  <2> QED
    BY <1>2, <1>4, <2>1, <2>2, Bounds DEF BudgetInv, BudgetKept
<1>5. CASE mem.result # Accepted /\ pc' = "loop" /\ mem' = mem
  <2>1. ~Pending /\ ~Pending'
    BY <1>5 DEF Pending
  <2> QED
    BY <1>1, <1>2, <1>5, <2>1, BudgetShrinks
<1> QED
  BY <1>3, <1>4, <1>5 DEF RecordAttempt, Throw, Leave, Accepted

\* A verdict, a selection or a promotion brings no candidate into use.
LEMMA EvaluateBudget == ASSUME Inv, BudgetInv, Evaluate PROVE BudgetInv'
<1>1. CASE Cancelled
  <2>1. rows' = rows /\ pc' = "idle"
    BY <1>1 DEF Cancelled, Leave
  <2> QED
    BY <2>1, RowsSame, BudgetShrinks
<1>2. CASE status # "CANCELLING"
  <2>1. PICK i : i = Len(rows)
    OBVIOUS
  <2>2. PICK verdict : verdict = Verdict(rows[i].candidate)
    OBVIOUS
  <2>3. /\ pc = "evaluate" /\ pc' = "loop" /\ rows' = WithStatus(i, verdict)
        /\ mem' = [mem EXCEPT !.finalists = IF verdict = "FINALIST"
                     THEN @ \cup {[row |-> i, score |-> Scored(rows[i].candidate.oos)]} ELSE @]
    BY <1>2, <2>1, <2>2 DEF Evaluate
  <2>4. Works /\ RowsInv /\ mem \in Memory
    BY <2>3, WorksFacts
  <2>5. i \in DOMAIN rows /\ rows[i].status = "GENERATED"
    BY <2>1, <2>3, <2>4, EmptySeq DEF Works, Awaiting, RowsInv
  <2>6. verdict \in RowStatuses
    BY <2>2, VerdictType DEF RowStatuses
  <2>7. InUse' \subseteq InUse
    BY <2>3, <2>4, <2>5, <2>6, StatusShrinks
  <2>8. mem'.accepted = mem.accepted
    BY <2>3, <2>4 DEF Memory
  <2> QED
    BY <2>3, <2>7, <2>8, BudgetShrinks DEF Pending
<1> QED
  BY <1>1, <1>2 DEF Evaluate

LEMMA FinalistBudget ==
  ASSUME Inv, BudgetInv, pc \in {"select", "holdout"}, pc' = pc, NEW f \in mem.finalists,
         NEW new \in RowStatuses, rows' = WithStatus(f.row, new), mem'.accepted = mem.accepted
  PROVE  BudgetInv'
<1>1. RowsInv /\ f.row \in DOMAIN rows /\ rows[f.row].status = "FINALIST"
  BY DEF Inv, ExecInv, MemInv
<1>2. InUse' \subseteq InUse
  BY <1>1, StatusShrinks
<1> QED
  BY <1>2, BudgetShrinks DEF Pending

LEMMA SelectionBudget == ASSUME Inv, BudgetInv, RejectFinalist \/ Holdout PROVE BudgetInv'
<1>1. pc \in {"select", "holdout"} /\ mem \in Memory /\ mem.selected \subseteq mem.finalists
  BY DEF RejectFinalist, Holdout, Inv, ExecInv, MemInv
<1>2. CASE /\ rows' = rows
           /\ \/ pc' = "idle"
              \/ pc' \in {"holdout", "reconcile"} /\ mem' = mem
  <2>1. InUse' = InUse
    BY <1>2, RowsSame
  <2> QED
    BY <1>1, <1>2, <2>1, BudgetShrinks DEF Pending
<1>3. CASE /\ pc' = pc
           /\ \E f \in mem.finalists, new \in RowStatuses :
                rows' = WithStatus(f.row, new) /\ mem'.accepted = mem.accepted
  BY <1>1, <1>3, FinalistBudget
<1>4. CASE RejectFinalist
  <2>1. CASE mem.finalists \ mem.selected = {}
    BY <1>2, <1>4, <2>1 DEF RejectFinalist
  <2>2. CASE mem.finalists \ mem.selected # {}
    <3>1. PICK f \in mem.finalists \ mem.selected :
            /\ rows' = WithStatus(f.row, "REJECTED") /\ pc' = pc
            /\ mem' = [mem EXCEPT !.finalists = @ \ {f}]
      BY <1>4, <2>2 DEF RejectFinalist
    <3>2. mem'.accepted = mem.accepted /\ "REJECTED" \in RowStatuses
      BY <1>1, <3>1 DEF Memory, RowStatuses
    <3> QED
      BY <1>3, <3>1, <3>2
  <2> QED
    BY <2>1, <2>2
<1>5. CASE Holdout
  <2>1. CASE mem.selected = {}
    BY <1>2, <1>5, <2>1 DEF Holdout
  <2>2. CASE Cancelled
    <3>1. rows' = rows /\ pc' = "idle"
      BY <2>2 DEF Cancelled, Leave
    <3> QED
      BY <1>2, <3>1
  <2>3. CASE mem.selected # {} /\ status # "CANCELLING"
    <3>1. PICK f \in mem.selected :
            /\ rows' = WithStatus(f.row, IF Confirmed(rows[f.row].candidate) THEN "COMPLETED" ELSE "HOLDOUT_REJECTED")
            /\ mem' = [mem EXCEPT !.selected = @ \ {f}, !.finalists = @ \ {f}] /\ pc' = pc
      BY <1>5, <2>3 DEF Holdout
    <3>2. mem'.accepted = mem.accepted /\ {"COMPLETED", "HOLDOUT_REJECTED"} \subseteq RowStatuses
      BY <1>1, <3>1 DEF Memory, RowStatuses
    <3> QED
      BY <1>1, <1>3, <3>1, <3>2
  <2> QED
    BY <1>5, <2>1, <2>2, <2>3 DEF Holdout
<1> QED
  BY <1>4, <1>5

LEMMA PromoteBudget == ASSUME Inv, BudgetInv, Promote PROVE BudgetInv'
<1>1. PICK i \in DOMAIN rows : rows[i].status = "COMPLETED" /\ rows' = WithStatus(i, "PROMOTED")
  BY DEF Promote, WithStatus
<1>2. InUse' \subseteq InUse
  BY <1>1, StatusShrinks DEF Inv, RowStatuses
<1> QED
  BY <1>2, BudgetShrinks DEF Promote, Pending

\* Steps that write no candidate and accept none.
LEMMA OtherBudget ==
  ASSUME Inv, BudgetInv,
         \/ Launch \/ Pause \/ Resume \/ RequestCancel \/ RecoverStaleLeases \/ NoCandles
         \/ Crash \/ EndGeneration \/ Reconcile \/ Finish \/ UNCHANGED vars
  PROVE  BudgetInv'
<1>1. rows' = rows
  BY DEF Launch, Pause, Resume, RequestCancel, RecoverStaleLeases, NoCandles, Crash, EndGeneration,
         Reconcile, Finish, Throw, vars
<1>2. InUse' = InUse
  BY <1>1, RowsSame
<1>3. CASE pc' = "idle" \/ (pc' = pc /\ mem' = mem)
  BY <1>2, <1>3, BudgetShrinks DEF Pending
<1>4. CASE EndGeneration
  <2>1. mem'.accepted = mem.accepted /\ pc = "loop" /\ pc' = "select"
    BY <1>4 DEF EndGeneration, Inv, ExecInv, MemInv, Memory
  <2> QED
    BY <1>2, <2>1, BudgetShrinks DEF Pending
<1>5. CASE Reconcile /\ pc' = "finish"
  BY <1>2, <1>5, BudgetShrinks DEF Reconcile, Throw, Leave, Pending
<1> QED
  BY <1>3, <1>4, <1>5 DEF Launch, Pause, Resume, RequestCancel, RecoverStaleLeases, NoCandles, Crash,
     Reconcile, Finish, Throw, Leave, vars

-----------------------------------------------------------------------------
(* The theorems.                                                           *)

\* The inductive invariant: rows carry the verdict they should, the execution
\* knows every stored hash and fingerprint, and its budget is spent on rows
\* that are stored.  The properties below follow from it.
THEOREM InvAlways == Spec => []Inv
<1>1. Init => Inv
  BY InitInv
<1>2. Inv /\ [Next]_vars => Inv'
  <2>1. SUFFICES ASSUME Inv, Next PROVE Inv'
    BY StutterStep
  <2> QED
    BY <2>1, RunStep, PromoteStep, BeginStep, CrashStep, NextAttemptStep, GenerateStep,
       RecordAttemptStep, EvaluateStep, EndGenerationStep, RejectFinalistStep, HoldoutStep,
       ReconcileStep, FinishStep DEF Next
<1> QED
  BY <1>1, <1>2, PTL DEF Spec

\* updateCandidate is never asked to change a terminal status: the finalists an
\* execution holds in memory are finalists by their rows, also after a crash
\* and a promotion meanwhile, and a candidate that is evaluated has no verdict
\* yet.  No two rows have the same hash, and no two attempts the same index.
THEOREM TypeCorrect == Spec => []TypeOK
<1>1. Inv => TypeOK
  <2> SUFFICES ASSUME Inv PROVE TypeOK
    OBVIOUS
  <2>1. RowsInv /\ MemInv /\ AttemptsInv /\ RunInv /\ mem \in Memory /\ rows \in Seq(Row)
    BY DEF Inv, ExecInv, MemInv, RowsInv
  <2>2. pc = "evaluate" => Last(rows).status = "GENERATED"
    BY DEF Inv, ExecInv, Works, Awaiting, Last
  <2>3. mem.finalists \subseteq [row : DOMAIN rows, score : Int \cup {NaN}]
    <3>1. \A f \in mem.finalists : f \in Finalist /\ f.row \in DOMAIN rows
      BY <2>1 DEF MemInv, Memory
    <3> QED
      BY <3>1 DEF Finalist
  <2>4. mem.attempt \in 0 .. MaxAttempts /\ mem.accepted \in Nat
    BY <2>1 DEF Memory
  <2> QED
    BY <2>1, <2>2, <2>3, <2>4 DEF Inv, ExecInv, PCs, TroubleInv, TypeOK, RowsInv, HashesUnique,
       MemInv, AttemptsInv, RunInv
<1> QED
  BY <1>1, InvAlways, PTL

\* No two candidates of a run that were accepted for evaluation give the same
\* signals, whichever executions generated them and wherever an earlier one
\* died: the fingerprints an execution loads are those of every stored row the
\* preflight has seen.
THEOREM SignalsUniqueAlways == Spec => []SignalsUnique
<1>1. Inv => SignalsUnique
  BY DEF Inv, RowsInv
<1> QED
  BY <1>1, InvAlways, PTL

\* A completed run has the verdict of its simulations, or of the selection, on
\* every candidate it accepted, and claims its budget only when it has that
\* many: after any crashes, pauses and cancellations on the way.
THEOREM CompletedIsSettledAlways == Spec => []CompletedIsSettled
<1>1. Inv => CompletedIsSettled
  <2>1. SUFFICES ASSUME Inv, status = "COMPLETED" PROVE CompletedIsSettled
    BY DEF CompletedIsSettled
  <2>2. RowsInv /\ RunInv /\ Unreconciled = {} /\ rows \in Seq(Row)
    BY <2>1 DEF Inv, RunInv, RowsInv
  <2>3. ASSUME NEW i \in Valid
        PROVE  /\ rows[i].status \notin {"GENERATED", "FINALIST"}
               /\ Settles(rows[i]) /\ rows[i].validation = "VALID"
    BY <2>2 DEF Valid, RowsInv, Unreconciled, IndicesWith, Transient
  <2>4. /\ outcome = "COMPLETED" => Cardinality(Valid) >= Budget
        /\ outcome = "EXHAUSTED" => Valid \subseteq IndicesWith({"REJECTED"})
    BY <2>1, <2>2 DEF RunInv
  <2> QED
    BY <2>3, <2>4 DEF CompletedIsSettled, Settles
<1> QED
  BY <1>1, InvAlways, PTL

\* The candidates in use never exceed the budget: not after any number of
\* launches, nor after a crash between storing an accepted candidate and
\* counting it, because a new execution counts the rows.  Only the unselected,
\* which are REJECTED and not counted again, are beyond it.
THEOREM BudgetKeptAlways == Spec => []BudgetKept
<1>1. Init => BudgetInv
  <2>1. SUFFICES ASSUME Init PROVE BudgetInv
    OBVIOUS
  <2>2. InUse = {} /\ pc = "idle"
    BY <2>1, EmptySeq DEF Init, InUse, Valid
  <2> QED
    BY <2>2, FS_EmptySet, Bounds DEF BudgetInv, BudgetKept, Pending
<1>2. Inv /\ BudgetInv /\ [Next]_vars => BudgetInv'
  BY BeginBudget, NextAttemptBudget, GenerateBudget, RecordAttemptBudget, EvaluateBudget,
     SelectionBudget, PromoteBudget, OtherBudget DEF Next
<1>3. BudgetInv => BudgetKept
  BY DEF BudgetInv
<1> QED
  BY <1>1, <1>2, <1>3, InvAlways, PTL DEF Spec

=============================================================================
