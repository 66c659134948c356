-------------------------- MODULE GapRepairProofs ---------------------------
(***************************************************************************)
(* Proofs about GapRepair, for every set of minutes the exchange may have, *)
(* every page and chunk size, every span a scan is asked for and every     *)
(* number of disturbances.                                                 *)
(***************************************************************************)
EXTENDS GapRepair, FiniteSetTheorems, SequenceTheorems, TLAPS

-----------------------------------------------------------------------------
(* Types.                                                                  *)

PCs == {"idle", "claim", "loop", "fetch", "write", "written", "progress", "settle", "rebuild"}

WorkerType == [pc : PCs, gap : Ranges \cup {NoGap}, cursor : 0 .. LastMinute + 1,
               batch : SUBSET Minutes, last : 0 .. LastMinute,
               final : SUBSET Minutes, to : Statuses]

Writers == {"worker", "watchdog", "scan"}

Candles == {"absent", "partial", "final"}

\* The bounds as numbers, and no range is the one for none.
LEMMA Bounds ==
  /\ LastMinute \in Nat \ {0} /\ PageSize \in Nat \ {0} /\ ChunkSize \in Nat \ {0}
  /\ MaxTrouble \in Nat /\ FutureScans \in BOOLEAN
  /\ NoGap \notin Ranges /\ NoGap[1] = 0 /\ NoGap[2] = 0
  BY GapAssumption DEF Ranges, Minutes, NoGap

LEMMA RangeType ==
  ASSUME NEW r \in Ranges
  PROVE  /\ r[1] \in 1 .. LastMinute /\ r[2] \in 1 .. LastMinute /\ r[1] <= r[2]
         /\ r[1] \in Int /\ r[2] \in Int /\ r[1] \in Span(r)
  BY Bounds DEF Ranges, Minutes, Span

LEMMA IdleType ==
  /\ Idle \in WorkerType /\ Idle.pc = "idle" /\ Idle.gap = NoGap /\ Idle.cursor = 0
  /\ Idle.batch = {} /\ Idle.last = 0 /\ Idle.final = {}
  BY Bounds DEF Idle, WorkerType, PCs, Statuses

LEMMA QueueTypes ==
  ASSUME queue \in Seq(Writers)
  PROVE  /\ \A who \in Writers : Append(queue, who) \in Seq(Writers)
         /\ queue # <<>> => Tail(queue) \in Seq(Writers)
         /\ queue # <<>> => \A who \in Writers : Append(Tail(queue), who) \in Seq(Writers)
<1>1. ASSUME queue # <<>> PROVE Tail(queue) \in Seq(Writers)
  BY <1>1
<1> QED
  BY <1>1

LEMMA TroubleType ==
  ASSUME TypeOK, Trouble \/ UNCHANGED trouble
  PROVE  trouble' \in 0 .. MaxTrouble
  BY Bounds DEF TypeOK, Trouble

-----------------------------------------------------------------------------
(* The invariant.                                                          *)

\* What the exchange has of a range, up to a minute, is stored or among some.
StoredUpTo(r, upto, others) ==
    \A m \in listed : m \in r[1] .. upto => store[m] # "absent" \/ m \in others

\* What the worker relies on when it continues after an await.
WorkerOK(w) ==
    /\ w.pc \in {"idle", "claim"} => w.gap = NoGap
    /\ w.pc = "settle" => w.to \in {"DETECTED", "REPAIRED", "FAILED"}
    /\ w.gap # NoGap => 1 <= w.cursor
    /\ StoredUpTo(w.gap, w.cursor - 1, {})
    /\ w.pc \in {"write", "written"} => StoredUpTo(w.gap, w.last, w.batch)
    /\ w.pc = "progress" => StoredUpTo(w.gap, w.last, {})
    /\ w.pc = "rebuild" /\ w.gap \in Ranges => status[w.gap] # "REPAIRING"

Inv == TypeOK /\ WorkerOK(worker) /\ CheckpointStored /\ NoAbandonedRepair

LEMMA Facts ==
  ASSUME Inv
  PROVE  /\ TypeOK /\ worker \in WorkerType /\ WorkerOK(worker)
         /\ CheckpointStored /\ NoAbandonedRepair
         /\ queue \in Seq(Writers) /\ trouble \in 0 .. MaxTrouble
         /\ store \in [Minutes -> Candles] /\ status \in [Ranges -> Statuses]
         /\ checkpoint \in [Ranges -> 0 .. LastMinute]
         /\ listed \subseteq Minutes /\ now \in 1 .. LastMinute + 1
         /\ found \subseteq Ranges
  BY GapAssumption DEF Inv, TypeOK, WorkerType, PCs, Writers, Candles

LEMMA InitInv == ASSUME Init PROVE Inv
<1>1. TypeOK
  <2>1. worker \in WorkerType /\ queue \in Seq({"worker", "watchdog", "scan"})
    BY IdleType DEF Init
  <2>2. now \in 1 .. LastMinute + 1 /\ checkpoint \in [Ranges -> 0 .. LastMinute]
    BY Bounds DEF Init
  <2>3. trouble \in 0 .. MaxTrouble /\ born \in [Ranges -> Nat] /\ scans \in Nat
    BY Bounds DEF Init
  <2> QED
    BY <2>1, <2>2, <2>3 DEF Init, TypeOK, WorkerType, PCs, Statuses
<1>2. CheckpointStored /\ NoAbandonedRepair
  BY RangeType DEF Init, CheckpointStored, NoAbandonedRepair
<1>3. WorkerOK(worker)
  BY IdleType, Bounds DEF Init, WorkerOK, StoredUpTo
<1> QED
  BY <1>1, <1>2, <1>3 DEF Inv

-----------------------------------------------------------------------------
(* What no step ever does: lose a candle.                                  *)

Keeps ==
    /\ listed' = listed
    /\ \A m \in Minutes : store[m] # "absent" => store'[m] # "absent"

LEMMA StoredKept ==
  ASSUME TypeOK, Keeps, NEW r, NEW upto, NEW others, StoredUpTo(r, upto, others)
  PROVE  StoredUpTo(r, upto, others)'
  BY GapAssumption DEF TypeOK, Keeps, StoredUpTo

\* What the worker relies on survives the steps of all others.
LEMMA WorkerFrame ==
  ASSUME TypeOK, Keeps, NEW w \in WorkerType, WorkerOK(w),
         w.pc = "rebuild" /\ w.gap \in Ranges => status'[w.gap] # "REPAIRING"
  PROVE  WorkerOK(w)'
<1>1. StoredUpTo(w.gap, w.cursor - 1, {})'
  BY StoredKept DEF WorkerOK
<1>2. ASSUME w.pc \in {"write", "written"} PROVE StoredUpTo(w.gap, w.last, w.batch)'
  BY <1>2, StoredKept DEF WorkerOK
<1>3. ASSUME w.pc = "progress" PROVE StoredUpTo(w.gap, w.last, {})'
  BY <1>3, StoredKept DEF WorkerOK
<1> QED
  BY <1>1, <1>2, <1>3 DEF WorkerOK

LEMMA CheckpointFrame ==
  ASSUME Inv, Keeps, checkpoint' = checkpoint
  PROVE  CheckpointStored'
  BY Facts DEF Keeps, CheckpointStored

\* The rows change, and the worker stays where it is.
LEMMA RowsMove ==
  ASSUME Inv, TypeOK', Keeps, worker' = worker, checkpoint' = checkpoint,
         up' => up \/ \A r \in Ranges : status'[r] # "REPAIRING",
         \A r \in Ranges : status'[r] = "REPAIRING" => status[r] = "REPAIRING"
  PROVE  Inv'
<1>1. CheckpointStored' /\ NoAbandonedRepair'
  BY CheckpointFrame, Facts DEF NoAbandonedRepair
<1>2. WorkerOK(worker)'
  <2>1. PICK w \in WorkerType : w = worker
    BY Facts
  <2>2. ASSUME w.pc = "rebuild", w.gap \in Ranges PROVE status'[w.gap] # "REPAIRING"
    BY <2>1, <2>2, Facts DEF WorkerOK
  <2>3. WorkerOK(w)'
    BY <2>1, <2>2, Facts, WorkerFrame
  <2> QED
    BY <2>1, <2>3
<1> QED
  BY <1>1, <1>2 DEF Inv

-----------------------------------------------------------------------------
(* Steps of the environment, and stutters.                                 *)

LEMMA TickStep == ASSUME Inv, Tick PROVE Inv'
<1>1. /\ now <= LastMinute /\ now' = now + 1
      /\ UNCHANGED <<listed, store, status, checkpoint, born, old, worker, watchExcept, found,
                     scans, queue, stream, backfill, up, trouble>>
  BY DEF Tick, rowVars, timerVars, envVars
<1>2. now' \in 1 .. LastMinute + 1
  BY <1>1, Facts, Bounds
<1>3. TypeOK'
  BY <1>1, <1>2, Facts DEF TypeOK
<1> QED
  BY <1>1, <1>3, RowsMove DEF Keeps

LEMMA LiveCandleStep == ASSUME Inv, LiveCandle PROVE Inv'
<1>1. store' \in [Minutes -> Candles] /\ Keeps
  BY Facts DEF LiveCandle, Keeps, Candles
<1>2. TypeOK'
  BY <1>1, Facts DEF LiveCandle, TypeOK, Candles, rowVars, timerVars, envVars
<1> QED
  BY <1>1, <1>2, RowsMove DEF LiveCandle, rowVars

\* Nothing but the stream, the backfill jobs, ages, the queue and what its
\* writes carry, and the counter change.
LEMMA AsideStep ==
  ASSUME Inv, UNCHANGED <<listed, now, store, status, checkpoint, born, worker, scans, up>>,
         old' \subseteq Ranges, watchExcept' \in Ranges \cup {NoGap}, found' \subseteq Ranges,
         queue' \in Seq(Writers), stream' \in {"stale", "fresh", "steady"},
         backfill' \in BOOLEAN, trouble' \in 0 .. MaxTrouble
  PROVE  Inv'
<1>1. TypeOK'
  BY Facts DEF TypeOK, Writers
<1> QED
  BY <1>1, RowsMove DEF Keeps

LEMMA MissingRangesType == ASSUME NEW lo, NEW hi PROVE MissingRanges(lo, hi) \subseteq Ranges
  BY DEF MissingRanges

LEMMA AsideSteps ==
  ASSUME Inv,
         \/ Freshen \/ GoStale \/ BackfillBegins \/ BackfillEnds
         \/ (\E r \in Ranges : Age(r)) \/ (\E s \in ScanSpans : Scan(s[1], s[2]))
         \/ Watch \/ UNCHANGED vars
  PROVE  Inv'
<1>1. /\ old \subseteq Ranges /\ watchExcept \in Ranges \cup {NoGap} /\ found \subseteq Ranges
      /\ queue \in Seq(Writers) /\ stream \in {"stale", "fresh", "steady"}
      /\ backfill \in BOOLEAN /\ trouble \in 0 .. MaxTrouble /\ TypeOK
  BY Facts DEF TypeOK
<1>2. CASE Freshen \/ GoStale \/ BackfillBegins \/ BackfillEnds
  <2>1. trouble' \in 0 .. MaxTrouble
    BY <1>1, <1>2, TroubleType DEF Freshen, GoStale, BackfillBegins, BackfillEnds
  <2> QED
    BY <1>1, <1>2, <2>1, AsideStep
       DEF Freshen, GoStale, BackfillBegins, BackfillEnds, rowVars, timerVars, envVars
<1>3. CASE \E r \in Ranges : Age(r)
  BY <1>1, <1>3, AsideStep DEF Age, timerVars, envVars
<1>4. CASE \E s \in ScanSpans : Scan(s[1], s[2])
  <2>1. PICK s \in ScanSpans : Scan(s[1], s[2])
    BY <1>4
  <2>2. queue' \in Seq(Writers) /\ found' \subseteq Ranges
    BY <1>1, <2>1, QueueTypes, MissingRangesType DEF Scan, Writers
  <2> QED
    BY <1>1, <2>1, <2>2, AsideStep DEF Scan, rowVars, envVars
<1>5. CASE Watch
  <2>1. queue' \in Seq(Writers) /\ watchExcept' \in Ranges \cup {NoGap}
    BY <1>1, <1>5, Facts, QueueTypes DEF Watch, Queues, Writers, WorkerType
  <2> QED
    BY <1>1, <1>5, <2>1, AsideStep DEF Watch, rowVars, envVars
<1>6. CASE UNCHANGED vars
  BY <1>1, <1>6, AsideStep DEF vars, rowVars, timerVars, envVars
<1> QED
  BY <1>2, <1>3, <1>4, <1>5, <1>6

-----------------------------------------------------------------------------
(* The rows, stops and starts.                                             *)

\* New rows wait; no row is in repair that was not.
LEMMA InsertGapsStep == ASSUME Inv, InsertGaps PROVE Inv'
<1> DEFINE new == {r \in found : ~OverlapsActive(r) /\ status[r] = "NONE"}
<1>1. /\ status' = [r \in Ranges |-> IF r \in new THEN "DETECTED" ELSE status[r]]
      /\ born' = [r \in Ranges |-> IF r \in new THEN scans + 1 ELSE born[r]]
      /\ old' = old \cup new /\ scans' \in {scans, scans + 1}
  BY DEF InsertGaps
<1>2. /\ UNCHANGED <<listed, now, store, checkpoint, worker, watchExcept, stream, backfill, up, trouble>>
      /\ found' = {}
  BY DEF InsertGaps, envVars
<1>3. new \subseteq Ranges /\ scans \in Nat /\ born \in [Ranges -> Nat] /\ old \subseteq Ranges
  BY Facts DEF TypeOK
<1>4. status' \in [Ranges -> Statuses] /\ born' \in [Ranges -> Nat] /\ scans' \in Nat
  <2>1. scans + 1 \in Nat
    BY <1>3
  <2>2. \A r \in Ranges : status[r] \in Statuses /\ born[r] \in Nat
    BY <1>3, Facts
  <2>3. "DETECTED" \in Statuses
    BY DEF Statuses
  <2> QED
    BY <1>1, <1>3, <2>1, <2>2, <2>3
<1>5. queue' \in Seq(Writers)
  BY Facts, QueueTypes DEF InsertGaps, IsNext
<1>6. TypeOK'
  BY <1>1, <1>2, <1>3, <1>4, <1>5, Facts DEF TypeOK, Writers
<1>7. \A r \in Ranges : status'[r] = "REPAIRING" => status[r] = "REPAIRING"
  BY <1>1
<1> QED
  BY <1>2, <1>6, <1>7, RowsMove DEF Keeps

LEMMA FailStalledStep == ASSUME Inv, FailStalled PROVE Inv'
<1> DEFINE stalled == {r \in old \ {watchExcept} : status[r] = "REPAIRING"}
<1>1. /\ status' = [r \in Ranges |-> IF r \in stalled THEN "FAILED" ELSE status[r]]
      /\ old' = old \ stalled
      /\ UNCHANGED <<listed, now, store, checkpoint, born, worker, found, scans, stream,
                     backfill, up, trouble>>
      /\ watchExcept' = NoGap
  BY DEF FailStalled, envVars
<1>2. status' \in [Ranges -> Statuses]
  BY <1>1, Facts DEF Statuses
<1>3. queue' \in Seq(Writers)
  BY Facts, QueueTypes DEF FailStalled, IsNext
<1>4. TypeOK'
  BY <1>1, <1>2, <1>3, Facts DEF TypeOK, Writers
<1>5. \A r \in Ranges : status'[r] = "REPAIRING" => status[r] = "REPAIRING"
  BY <1>1
<1> QED
  BY <1>1, <1>4, <1>5, RowsMove DEF Keeps

LEMMA StartStep == ASSUME Inv, Start PROVE Inv'
<1>1. status' \in [Ranges -> Statuses] /\ \A r \in Ranges : status'[r] # "REPAIRING"
  BY Facts DEF Start, Recovered, Statuses
<1>2. /\ up' = TRUE /\ old' = {r \in old : status[r] # "REPAIRING"}
      /\ UNCHANGED <<listed, now, store, checkpoint, born, worker, watchExcept, found, scans,
                     queue, stream, backfill, trouble>>
  BY DEF Start, timerVars, envVars
<1>3. TypeOK'
  BY <1>1, <1>2, Facts DEF TypeOK
<1> QED
  BY <1>1, <1>2, <1>3, RowsMove DEF Keeps

LEMMA StopStep == ASSUME Inv, Stop PROVE Inv'
<1>1. /\ worker' = Idle /\ up' = FALSE /\ queue' = <<>>
      /\ UNCHANGED <<listed, now, store, status, checkpoint, born, old>>
  BY DEF Stop, rowVars
<1>2. TypeOK'
  <2>1. trouble' \in 0 .. MaxTrouble /\ worker' \in WorkerType
    BY <1>1, Facts, TroubleType, IdleType DEF Stop
  <2>2. backfill' \in BOOLEAN /\ up' \in BOOLEAN
    BY <1>1, Facts DEF Stop, TypeOK
  <2>3. found' = {} /\ watchExcept' = NoGap /\ scans' = scans /\ stream' = "stale"
    BY DEF Stop
  <2>4. queue' \in Seq({"worker", "watchdog", "scan"})
    BY <1>1
  <2> QED
    BY <1>1, <2>1, <2>2, <2>3, <2>4, Facts DEF TypeOK, WorkerType, PCs
<1>3. CheckpointStored'
  BY <1>1, CheckpointFrame DEF Keeps
<1>4. NoAbandonedRepair' /\ WorkerOK(worker)'
  BY <1>1, IdleType, Bounds DEF NoAbandonedRepair, WorkerOK, StoredUpTo
<1> QED
  BY <1>2, <1>3, <1>4 DEF Inv

-----------------------------------------------------------------------------
(* The worker.                                                             *)

\* A step of the worker that writes no row.  It lets go of its gap only when
\* no row is in repair.
LEMMA WorkerGoes ==
  ASSUME Inv, NEW w \in WorkerType, Goes(w), UNCHANGED rowVars,
         store' \in [Minutes -> Candles], Keeps,
         queue' \in Seq(Writers), trouble' \in 0 .. MaxTrouble,
         w.gap = worker.gap \/ \A r \in Ranges : status[r] # "REPAIRING",
         WorkerOK(w)'
  PROVE  Inv'
<1>1. worker' = w /\ UNCHANGED <<listed, now, watchExcept, found, scans, stream, backfill, up>>
  BY DEF Goes, envVars
<1>2. TypeOK'
  BY <1>1, Facts DEF TypeOK, WorkerType, PCs, Writers, Candles, rowVars
<1>3. CheckpointStored'
  BY CheckpointFrame DEF rowVars
<1>4. NoAbandonedRepair'
  BY <1>1, Facts DEF NoAbandonedRepair, rowVars
<1>5. WorkerOK(worker)'
  BY <1>1
<1> QED
  BY <1>2, <1>3, <1>4, <1>5 DEF Inv

\* It changes no table.
LEMMA WorkerWaits ==
  ASSUME Inv, NEW w \in WorkerType, Goes(w), UNCHANGED <<store, rowVars>>,
         queue' \in Seq(Writers), trouble' \in 0 .. MaxTrouble,
         w.gap = worker.gap \/ \A r \in Ranges : status[r] # "REPAIRING",
         WorkerOK(w)
  PROVE  Inv'
<1>1. Keeps /\ store' \in [Minutes -> Candles] /\ status' = status
  BY Facts DEF Keeps, Goes, rowVars
<1>2. WorkerOK(w)'
  <2>1. w.pc = "rebuild" /\ w.gap \in Ranges => status'[w.gap] # "REPAIRING"
    BY <1>1 DEF WorkerOK
  <2> QED
    BY <1>1, <2>1, Facts, WorkerFrame
<1> QED
  BY <1>1, <1>2, WorkerGoes

\* An attempt ends: what is to be written is known.
LEMMA SettlingOK ==
  ASSUME Inv, NEW s \in {"DETECTED", "REPAIRED", "FAILED"}
  PROVE  /\ Settling(worker, s) \in WorkerType /\ Settling(worker, s).gap = worker.gap
         /\ WorkerOK(Settling(worker, s))
<1>1. PICK w : w = Settling(worker, s)
  OBVIOUS
<1>2. /\ w \in WorkerType /\ w.pc = "settle" /\ w.to = s /\ w.gap = worker.gap
      /\ w.cursor = worker.cursor
  BY <1>1, Facts DEF Settling, WorkerType, PCs, Statuses
<1>3. WorkerOK(worker)
  BY Facts
<1>4. WorkerOK(w)
  BY <1>2, <1>3 DEF WorkerOK
<1> QED
  BY <1>1, <1>2, <1>4

\* It ends with a write that waits.
LEMMA EndsStep ==
  ASSUME Inv, NEW s \in {"DETECTED", "REPAIRED", "FAILED"},
         Goes(Settling(worker, s)), UNCHANGED <<store, rowVars>>,
         queue' \in Seq(Writers), trouble' \in 0 .. MaxTrouble
  PROVE  Inv'
<1>1. PICK w : w = Settling(worker, s)
  OBVIOUS
<1>2. w \in WorkerType /\ w.gap = worker.gap /\ WorkerOK(w)
  BY <1>1, SettlingOK
<1> QED
  BY <1>1, <1>2, WorkerWaits

LEMMA IdleOK == WorkerOK(Idle) /\ Idle \in WorkerType
  BY IdleType, Bounds DEF WorkerOK, StoredUpTo

LEMMA RunOnceStep == ASSUME Inv, RunOnce PROVE Inv'
<1>1. PICK w : w = [Idle EXCEPT !.pc = "claim"]
  OBVIOUS
<1>2. w \in WorkerType /\ w.pc = "claim" /\ w.gap = NoGap /\ w.cursor = 0
  BY <1>1, IdleType DEF WorkerType, PCs
<1>3. WorkerOK(w)
  BY <1>2, Bounds DEF WorkerOK, StoredUpTo
<1>4. worker.gap = NoGap
  BY Facts DEF RunOnce, WorkerOK
<1>5. queue' \in Seq(Writers) /\ trouble' \in 0 .. MaxTrouble
  BY Facts, QueueTypes DEF RunOnce, Queues, Writers
<1> QED
  BY <1>1, <1>2, <1>3, <1>4, <1>5, WorkerWaits DEF RunOnce

LEMMA LoopHeadStep == ASSUME Inv, LoopHead PROVE Inv'
<1>1. /\ worker \in WorkerType /\ WorkerOK(worker) /\ worker.pc = "loop"
      /\ UNCHANGED <<store, rowVars>>
  BY Facts DEF LoopHead
<1>2. queue' \in Seq(Writers) /\ trouble' \in 0 .. MaxTrouble
  BY Facts, QueueTypes DEF LoopHead, Queues, Writers
<1>3. CASE Goes(Settling(worker, "REPAIRED")) \/ Goes(Settling(worker, "DETECTED"))
  BY <1>1, <1>2, <1>3, EndsStep
<1>4. CASE Goes([worker EXCEPT !.pc = "fetch"])
  <2>1. PICK w : w = [worker EXCEPT !.pc = "fetch"]
    OBVIOUS
  <2>2. /\ w \in WorkerType /\ w.pc = "fetch" /\ w.gap = worker.gap /\ w.cursor = worker.cursor
    BY <1>1, <2>1 DEF WorkerType, PCs
  <2>3. WorkerOK(w)
    BY <1>1, <2>2 DEF WorkerOK
  <2> QED
    BY <1>1, <1>2, <1>4, <2>1, <2>2, <2>3, WorkerWaits
<1> QED
  BY <1>3, <1>4 DEF LoopHead

LEMMA AfterChunkStep == ASSUME Inv, AfterChunk PROVE Inv'
<1>1. /\ worker \in WorkerType /\ WorkerOK(worker) /\ worker.pc = "written"
      /\ UNCHANGED <<store, rowVars>>
  BY Facts DEF AfterChunk
<1>2. queue' \in Seq(Writers) /\ trouble' \in 0 .. MaxTrouble
  BY Facts, QueueTypes DEF AfterChunk, Queues, Writers
<1>3. CASE Goes(Settling(worker, "DETECTED"))
  BY <1>1, <1>2, <1>3, EndsStep
<1>4. CASE Goes([worker EXCEPT !.pc = IF worker.batch = {} THEN "progress" ELSE "write"])
  <2>1. PICK w : w = [worker EXCEPT !.pc = IF worker.batch = {} THEN "progress" ELSE "write"]
    OBVIOUS
  <2>2. /\ w \in WorkerType /\ w.gap = worker.gap /\ w.cursor = worker.cursor
        /\ w.batch = worker.batch /\ w.last = worker.last
        /\ w.pc = IF worker.batch = {} THEN "progress" ELSE "write"
    BY <1>1, <2>1 DEF WorkerType, PCs
  <2>3. WorkerOK(w)
    BY <1>1, <2>2 DEF WorkerOK
  <2> QED
    BY <1>1, <1>2, <1>4, <2>1, <2>2, <2>3, WorkerWaits
<1> QED
  BY <1>3, <1>4 DEF AfterChunk

LEMMA RebuildStep == ASSUME Inv, Rebuild PROVE Inv'
<1>1. /\ worker \in WorkerType /\ WorkerOK(worker) /\ worker.pc = "rebuild" /\ up
      /\ UNCHANGED <<store, rowVars>>
  BY Facts DEF Rebuild
<1>2. trouble' \in 0 .. MaxTrouble
  BY Facts, TroubleType DEF Rebuild
<1>3. queue' \in Seq(Writers)
  BY Facts, QueueTypes DEF Rebuild, Queues, Writers
<1>4. CASE Goes(Idle)
  <2>1. \A r \in Ranges : status[r] # "REPAIRING"
    BY <1>1, Facts DEF WorkerOK, NoAbandonedRepair
  <2> QED
    BY <1>1, <1>2, <1>3, <1>4, <2>1, IdleOK, WorkerWaits
<1>5. CASE Goes(Settling(worker, "DETECTED")) \/ Goes(Settling(worker, "FAILED"))
  BY <1>1, <1>2, <1>3, <1>5, EndsStep
<1> QED
  BY <1>4, <1>5 DEF Rebuild

LEMMA RejectWriteStep == ASSUME Inv, RejectWrite PROVE Inv'
<1>1. trouble' \in 0 .. MaxTrouble /\ UNCHANGED <<store, rowVars>>
  BY Facts, TroubleType DEF RejectWrite
<1>2. queue' \in Seq(Writers)
  BY Facts, QueueTypes DEF RejectWrite, IsNext, Writers
<1>3. CASE worker.pc = "claim"
  <2>1. Goes(Idle) /\ worker.gap = NoGap
    BY <1>3, Facts DEF RejectWrite, WorkerOK
  <2> QED
    BY <1>1, <1>2, <2>1, IdleOK, IdleType, WorkerWaits
<1>4. CASE worker.pc # "claim"
  <2>1. Goes(Settling(worker, "FAILED"))
    BY <1>4 DEF RejectWrite
  <2> QED
    BY <1>1, <1>2, <2>1, EndsStep
<1> QED
  BY <1>3, <1>4

LEMMA PageEndType ==
  ASSUME NEW w \in WorkerType
  PROVE  /\ PageEnd(w.gap, w.cursor) \in Int /\ PageEnd(w.gap, w.cursor) <= w.gap[2]
         /\ w.gap[1] \in Int /\ w.gap[2] \in 0 .. LastMinute /\ w.cursor \in Nat
<1>1. w.cursor \in Nat /\ w.gap \in Ranges \cup {NoGap}
  BY Bounds DEF WorkerType
<1>2. w.gap[1] \in Int /\ w.gap[2] \in 0 .. LastMinute
  BY <1>1, RangeType, Bounds
<1> QED
  BY <1>1, <1>2, Bounds DEF PageEnd

\* All the exchange has from the cursor to the page's last candle is in the page.
LEMMA FetchStep == ASSUME Inv, Fetch PROVE Inv'
<1> DEFINE page == Answer(worker.cursor, PageEnd(worker.gap, worker.cursor))
<1>1. /\ worker \in WorkerType /\ WorkerOK(worker) /\ worker.pc = "fetch"
      /\ UNCHANGED <<store, rowVars>>
  BY Facts DEF Fetch
<1>2. queue' \in Seq(Writers) /\ trouble' \in 0 .. MaxTrouble
  BY Facts, QueueTypes, TroubleType DEF Fetch, Queues, Writers
<1>3. page \in SUBSET Minutes /\ {m \in page : m < now} \in SUBSET Minutes
  BY Facts DEF Answer
<1>4. ASSUME NEW last \in page, \A m \in page : m <= last,
             Goes([worker EXCEPT !.pc = "write", !.batch = page, !.last = last,
                                 !.final = {m \in page : m < now}])
      PROVE  Inv'
  <2>1. PICK w : w = [worker EXCEPT !.pc = "write", !.batch = page, !.last = last,
                                    !.final = {m \in page : m < now}]
    OBVIOUS
  <2>3. last \in 0 .. LastMinute
    BY <1>3, Bounds DEF Minutes
  <2>4. /\ w \in WorkerType /\ w.pc = "write" /\ w.gap = worker.gap /\ w.cursor = worker.cursor
        /\ w.batch = page /\ w.last = last
    BY <1>1, <1>3, <2>1, <2>3 DEF WorkerType, PCs
  <2>5. StoredUpTo(w.gap, w.last, w.batch)
    <3>1. SUFFICES ASSUME NEW m \in listed, m \in w.gap[1] .. w.last
                   PROVE  store[m] # "absent" \/ m \in page
      BY <2>4 DEF StoredUpTo
    <3>2. CASE m <= worker.cursor - 1
      <4>1. m \in w.gap[1] .. worker.cursor - 1
        BY <1>1, <2>4, <3>1, <3>2, PageEndType
      <4>2. StoredUpTo(w.gap, worker.cursor - 1, {})
        BY <1>1, <2>4 DEF WorkerOK
      <4> QED
        BY <4>1, <4>2 DEF StoredUpTo
    <3>3. CASE ~(m <= worker.cursor - 1)
      <4>1. m \in worker.cursor .. last
        BY <1>1, <2>3, <2>4, <3>1, <3>3, PageEndType
      <4>2. /\ last \in worker.cursor .. PageEnd(worker.gap, worker.cursor)
            /\ last <= now
        BY DEF Answer
      <4>3. now \in Int /\ m \in Int /\ last \in Int
        BY <2>3, <4>1, Facts
      <4>4. m \in worker.cursor .. PageEnd(worker.gap, worker.cursor) /\ m <= now
        BY <1>1, <4>1, <4>2, <4>3, PageEndType
      <4> QED
        BY <4>4 DEF Answer
    <3> QED
      BY <3>2, <3>3
  <2>6. WorkerOK(w)
    BY <1>1, <2>4, <2>5 DEF WorkerOK
  <2> QED
    BY <1>1, <1>2, <1>4, <2>1, <2>4, <2>6, WorkerWaits
<1>5. CASE Goes(Settling(worker, "REPAIRED")) \/ Goes(Settling(worker, "FAILED"))
  BY <1>1, <1>2, <1>5, EndsStep
<1> QED
  BY <1>4, <1>5 DEF Fetch

LEMMA WriteChunkStep == ASSUME Inv, WriteChunk PROVE Inv'
<1> DEFINE chunk == Chunk(worker.batch)
<1>1. /\ worker \in WorkerType /\ WorkerOK(worker) /\ worker.pc = "write"
      /\ UNCHANGED <<rowVars, trouble>>
  BY Facts DEF WriteChunk
<1>2. store' = [m \in Minutes |-> IF m \notin chunk THEN store[m]
                                 ELSE IF m \in worker.final THEN "final" ELSE "partial"]
  BY DEF WriteChunk
<1>3. chunk \subseteq worker.batch
  BY DEF Chunk
<1>4. store' \in [Minutes -> Candles] /\ \A m \in chunk \cap Minutes : store'[m] # "absent"
  BY <1>2, Facts DEF Candles
<1>5. PICK w : w = [worker EXCEPT !.pc = "written", !.batch = @ \ Chunk(@)]
  OBVIOUS
<1>6. Goes(w)
  BY <1>5 DEF WriteChunk
<1>7. Keeps
  BY <1>2, <1>6, Facts DEF Keeps, Goes
<1>8. /\ w \in WorkerType /\ w.pc = "written" /\ w.gap = worker.gap /\ w.cursor = worker.cursor
      /\ w.last = worker.last /\ w.batch = worker.batch \ chunk
  BY <1>1, <1>5 DEF WorkerType, PCs
<1>9. queue' \in Seq(Writers) /\ trouble' \in 0 .. MaxTrouble
  BY <1>1, Facts, QueueTypes DEF WriteChunk, IsNext
<1>10. WorkerOK(w)'
  <2>1. StoredUpTo(w.gap, w.cursor - 1, {})'
    BY <1>1, <1>7, <1>8, Facts, StoredKept DEF WorkerOK
  <2>2. StoredUpTo(w.gap, w.last, w.batch)'
    <3>1. StoredUpTo(w.gap, w.last, worker.batch)
      BY <1>1, <1>8 DEF WorkerOK
    <3>2. listed' = listed /\ listed \subseteq Minutes
      BY <1>7, Facts DEF Keeps
    <3> QED
      BY <1>4, <1>7, <1>8, <3>1, <3>2 DEF Keeps, StoredUpTo
  <2>3. w.gap # NoGap => 1 <= w.cursor
    BY <1>1, <1>8 DEF WorkerOK
  <2> QED
    BY <1>8, <2>1, <2>2, <2>3 DEF WorkerOK
<1> QED
  BY <1>1, <1>4, <1>6, <1>7, <1>8, <1>9, <1>10, WorkerGoes

\* The oldest row that waits is claimed; what is behind its checkpoint is stored.
LEMMA ClaimGapStep == ASSUME Inv, ClaimGap PROVE Inv'
<1>1. /\ worker \in WorkerType /\ worker.pc = "claim" /\ worker.gap = NoGap /\ up
      /\ UNCHANGED <<store, checkpoint, born, old, trouble>>
  BY Facts DEF ClaimGap, WorkerOK, IsNext
<1>2. queue' \in Seq(Writers)
  BY Facts, QueueTypes DEF ClaimGap, IsNext
<1>3. \A q \in Ranges : status[q] # "REPAIRING"
  BY <1>1, Bounds, Facts DEF NoAbandonedRepair
<1>4. CASE Goes(Idle) /\ UNCHANGED status
  BY <1>1, <1>2, <1>4, Facts, IdleOK, IdleType, WorkerWaits DEF rowVars
<1>5. ASSUME NEW r \in Claimable, status' = [status EXCEPT ![r] = "REPAIRING"], Goes(ClaimedGap(r))
      PROVE  Inv'
  <2>1. r \in Ranges /\ checkpoint[r] \in 0 .. LastMinute /\ r[1] \in 1 .. LastMinute
    BY Facts, RangeType DEF Claimable
  <2>2. PICK w : w = ClaimedGap(r)
    OBVIOUS
  <2>3. PICK cursor : cursor = IF checkpoint[r] = 0 THEN r[1] ELSE checkpoint[r] + 1
    OBVIOUS
  <2>4. cursor \in 0 .. LastMinute + 1 /\ 1 <= cursor
    BY <2>1, <2>3, Bounds
  <2>5. w \in WorkerType /\ w.pc = "loop" /\ w.gap = r /\ w.cursor = cursor
    <3>1. w = [pc |-> "loop", gap |-> r, cursor |-> cursor, batch |-> {}, last |-> 0,
               final |-> {}, to |-> "NONE"]
      BY <2>2, <2>3 DEF ClaimedGap, Idle
    <3> QED
      BY <2>1, <2>4, <3>1, Bounds DEF WorkerType, PCs, Statuses
  <2>6. worker' = w /\ UNCHANGED <<listed, now, watchExcept, found, scans, stream, backfill, up>>
    BY <1>5, <2>2 DEF Goes, envVars
  <2>7. status' \in [Ranges -> Statuses] /\ \A q \in Ranges : status'[q] = "REPAIRING" => q = r
    BY <1>3, <1>5, <2>1, Facts DEF Statuses
  <2>8. TypeOK'
    BY <1>1, <1>2, <2>5, <2>6, <2>7, Facts DEF TypeOK, WorkerType, PCs, Writers
  <2>9. Keeps
    BY <1>1, <2>6 DEF Keeps
  <2>10. CheckpointStored'
    BY <1>1, <2>9, CheckpointFrame
  <2>11. StoredUpTo(r, cursor - 1, {})
    <3>1. ASSUME NEW m \in listed, m \in r[1] .. cursor - 1 PROVE m \in r[1] .. checkpoint[r]
      BY <2>1, <2>3, <3>1
    <3> QED
      BY <2>1, <3>1, Facts DEF CheckpointStored, StoredUpTo
  <2>12. WorkerOK(w)'
    <3>1. StoredUpTo(r, cursor - 1, {})'
      BY <2>9, <2>11, Facts, StoredKept
    <3> QED
      BY <2>4, <2>5, <3>1 DEF WorkerOK
  <2>13. NoAbandonedRepair'
    BY <2>5, <2>6, <2>7 DEF NoAbandonedRepair
  <2> QED
    BY <2>6, <2>8, <2>10, <2>12, <2>13 DEF Inv
<1> QED
  BY <1>4, <1>5 DEF ClaimGap

\* The checkpoint follows the candles it speaks of.
LEMMA SaveProgressStep == ASSUME Inv, SaveProgress PROVE Inv'
<1>1. /\ worker \in WorkerType /\ WorkerOK(worker) /\ worker.pc = "progress"
      /\ UNCHANGED <<store, status, born, trouble>>
      /\ worker.last \in 0 .. LastMinute /\ worker.last + 1 \in 0 .. LastMinute + 1
      /\ worker.last + 1 - 1 = worker.last /\ 1 <= worker.last + 1
  BY Facts, Bounds DEF SaveProgress, WorkerType
<1>2. queue' \in Seq(Writers) /\ old' \subseteq Ranges
  BY Facts, QueueTypes DEF SaveProgress, IsNext, TypeOK
<1>3. PICK w : w = [worker EXCEPT !.pc = "loop", !.cursor = worker.last + 1]
  OBVIOUS
<1>4. /\ w \in WorkerType /\ w.pc = "loop" /\ w.gap = worker.gap
      /\ w.cursor - 1 = worker.last /\ 1 <= w.cursor
  <2>1. w = [pc |-> "loop", gap |-> worker.gap, cursor |-> worker.last + 1, batch |-> worker.batch,
             last |-> worker.last, final |-> worker.final, to |-> worker.to]
    BY <1>1, <1>3 DEF WorkerType
  <2>2. w \in WorkerType
    BY <1>1, <2>1 DEF WorkerType, PCs
  <2>3. w.cursor = worker.last + 1 /\ w.pc = "loop" /\ w.gap = worker.gap
    BY <2>1
  <2> QED
    BY <1>1, <2>2, <2>3
<1>5. worker' = w /\ UNCHANGED <<listed, now, watchExcept, found, scans, stream, backfill, up>>
  BY <1>3 DEF SaveProgress, Goes, envVars
<1>6. /\ checkpoint' \in [Ranges -> 0 .. LastMinute]
      /\ \A r \in Ranges : checkpoint'[r] = IF r = worker.gap THEN worker.last ELSE checkpoint[r]
  BY <1>1, Facts DEF SaveProgress, CheckpointOf
<1>7. TypeOK'
  BY <1>1, <1>2, <1>4, <1>5, <1>6, Facts DEF TypeOK, WorkerType, PCs, Writers
<1>8. Keeps
  BY <1>1, <1>5 DEF Keeps
<1>9. StoredUpTo(worker.gap, worker.last, {})
  BY <1>1 DEF WorkerOK
<1>10. CheckpointStored'
  BY <1>1, <1>5, <1>6, <1>9, Facts DEF CheckpointStored, StoredUpTo
<1>11. NoAbandonedRepair'
  BY <1>1, <1>4, <1>5, Facts DEF NoAbandonedRepair
<1>12. WorkerOK(w)'
  <2>1. StoredUpTo(w.gap, w.cursor - 1, {})'
    BY <1>4, <1>8, <1>9, Facts, StoredKept
  <2> QED
    BY <1>4, <2>1 DEF WorkerOK
<1> QED
  BY <1>5, <1>7, <1>10, <1>11, <1>12 DEF Inv

\* The row leaves REPAIRING, whatever it becomes.
LEMMA SettleStep == ASSUME Inv, Settle PROVE Inv'
<1>1. /\ worker \in WorkerType /\ WorkerOK(worker) /\ worker.pc = "settle"
      /\ UNCHANGED <<store, checkpoint, born, trouble>>
      /\ worker.to \in {"DETECTED", "REPAIRED", "FAILED"}
  BY Facts DEF Settle, WorkerOK
<1>2. queue' \in Seq(Writers) /\ old' \subseteq Ranges
  BY Facts, QueueTypes DEF Settle, IsNext, TypeOK
<1>3. /\ status' \in [Ranges -> Statuses]
      /\ \A r \in Ranges : status'[r] = IF r = worker.gap THEN worker.to ELSE status[r]
  BY <1>1, Facts DEF Settle, Statuses
<1>4. PICK w : w = IF worker.to = "REPAIRED" THEN [worker EXCEPT !.pc = "rebuild"] ELSE Idle
  OBVIOUS
<1>5. worker' = w /\ UNCHANGED <<listed, now, watchExcept, found, scans, stream, backfill, up>>
  BY <1>4 DEF Settle, Goes, envVars
<1>6. /\ w \in WorkerType
      /\ \/ w = Idle
         \/ w.pc = "rebuild" /\ w.gap = worker.gap /\ w.cursor = worker.cursor
  BY <1>1, <1>4, IdleType DEF WorkerType, PCs
<1>7. TypeOK'
  BY <1>1, <1>2, <1>3, <1>5, <1>6, Facts DEF TypeOK, WorkerType, PCs, Writers
<1>8. Keeps
  BY <1>1, <1>5 DEF Keeps
<1>9. CheckpointStored'
  BY <1>1, <1>8, CheckpointFrame
<1>10. NoAbandonedRepair'
  BY <1>1, <1>3, <1>5, Facts DEF NoAbandonedRepair
<1>11. WorkerOK(w)'
  <2>1. CASE w = Idle
    BY <2>1, IdleType, Bounds DEF WorkerOK, StoredUpTo
  <2>2. CASE w.pc = "rebuild" /\ w.gap = worker.gap /\ w.cursor = worker.cursor
    <3>1. StoredUpTo(w.gap, w.cursor - 1, {})'
      BY <1>1, <1>8, <2>2, Facts, StoredKept DEF WorkerOK
    <3> QED
      BY <1>1, <1>3, <2>2, <3>1 DEF WorkerOK
  <2> QED
    BY <1>6, <2>1, <2>2
<1> QED
  BY <1>5, <1>7, <1>9, <1>10, <1>11 DEF Inv

-----------------------------------------------------------------------------
(* The theorems.                                                           *)

\* One step, whatever it is.
LEMMA NextInv == ASSUME Inv, [Next]_vars PROVE Inv'
  BY TickStep, LiveCandleStep, AsideSteps, InsertGapsStep, FailStalledStep, StartStep, StopStep,
     RunOnceStep, LoopHeadStep, FetchStep, AfterChunkStep, RebuildStep, ClaimGapStep,
     WriteChunkStep, SaveProgressStep, SettleStep, RejectWriteStep
     DEF Next, LoopStep, WriterStep

\* The inductive invariant: types, the two properties below, and what the
\* worker relies on when it continues after an await.
THEOREM InvAlways == Spec => []Inv
  BY InitInv, NextInv, PTL DEF Spec

\* Rows, worker, queue and candles stay well typed: no cursor or checkpoint
\* passes the end of what there is.
THEOREM TypeCorrect == Spec => []TypeOK
<1>1. Inv => TypeOK
  BY DEF Inv
<1> QED
  BY <1>1, InvAlways, PTL

\* A checkpoint speaks of stored candles, wherever between the chunks, the
\* checkpoint and the next page a repair fails, is deferred or dies.
THEOREM CheckpointStoredAlways == Spec => []CheckpointStored
<1>1. Inv => CheckpointStored
  BY DEF Inv
<1> QED
  BY <1>1, InvAlways, PTL

\* A gap in repair is in the hands of the worker, so that no failure, deferral,
\* stall or restart leaves one that claimNext never sees again.
THEOREM NoAbandonedRepairAlways == Spec => []NoAbandonedRepair
<1>1. Inv => NoAbandonedRepair
  BY DEF Inv
<1> QED
  BY <1>1, InvAlways, PTL

-----------------------------------------------------------------------------
(* What a step does to candles, rows and worker, whichever it is.          *)

\* A repair ends well: behind the end of the gap, or with an empty page.
EndsRepaired ==
    \/ worker.pc = "loop" /\ worker.gap[2] < worker.cursor
    \/ worker.pc = "fetch" /\ Answer(worker.cursor, PageEnd(worker.gap, worker.cursor)) = {}

StoreMoves ==
    /\ listed' = listed /\ now <= now'
    /\ \A m \in Minutes :
         \/ store'[m] = store[m] \/ store'[m] = "final"
         \/ store'[m] = "partial" /\ m \in worker.batch \ worker.final

FoundMoves == \A r \in found' : r \in found \/ FutureScans \/ r[2] < now

RowMoves(r) ==
    \/ status'[r] = status[r]
    \/ r \in found /\ status'[r] = "DETECTED"
    \/ status[r] # "NONE" /\ status'[r] \in {"DETECTED", "REPAIRING", "FAILED"}
    \/ worker.pc = "settle" /\ r = worker.gap /\ status'[r] = worker.to

WorkerMoves(w) ==
    \/ w = worker
    \/ w.gap = NoGap /\ w.batch = {} /\ w.pc # "settle"
    \/ w.gap \in Claimable /\ w.batch = {} /\ w.pc # "settle"
    \/ /\ w.gap = worker.gap /\ w.batch \subseteq worker.batch /\ w.final = worker.final
       /\ w.pc = "settle" /\ w.to = "REPAIRED" => EndsRepaired
    \/ /\ w.gap = worker.gap /\ w.pc # "settle"
       /\ w.batch = Answer(worker.cursor, PageEnd(worker.gap, worker.cursor))
       /\ w.final = {m \in w.batch : m < now}

Moves ==
    /\ StoreMoves /\ FoundMoves /\ WorkerMoves(worker')
    /\ \A r \in Ranges : RowMoves(r)

LEMMA WorkerOnly ==
  ASSUME Inv, NEW w, Goes(w), UNCHANGED <<store, rowVars>>, WorkerMoves(w)
  PROVE  Moves
<1>1. now <= now
  BY Facts
<1> QED
  BY <1>1 DEF Goes, rowVars, Moves, StoreMoves, FoundMoves, RowMoves

LEMMA SettlingMoves ==
  ASSUME Inv, NEW s, s = "REPAIRED" => EndsRepaired
  PROVE  WorkerMoves(Settling(worker, s))
<1>1. PICK w : w = Settling(worker, s)
  OBVIOUS
<1>2. w.gap = worker.gap /\ w.batch = worker.batch /\ w.final = worker.final /\ w.to = s
  BY <1>1, Facts DEF Settling, WorkerType
<1>3. WorkerMoves(w)
  BY <1>2 DEF WorkerMoves
<1> QED
  BY <1>1, <1>3

LEMMA IdleMoves == WorkerMoves(Idle)
  BY IdleType DEF WorkerMoves

LEMMA OutsideMoves ==
  ASSUME Inv,
         \/ Tick \/ LiveCandle \/ Freshen \/ GoStale \/ BackfillBegins \/ BackfillEnds
         \/ (\E r \in Ranges : Age(r)) \/ (\E s \in ScanSpans : Scan(s[1], s[2]))
         \/ Watch \/ InsertGaps \/ FailStalled \/ Stop \/ Start \/ UNCHANGED vars
  PROVE  Moves
<1>1. now \in Int /\ now <= now /\ now <= now + 1
  BY Facts
<1>2. now <= now' /\ listed' = listed
  BY <1>1 DEF Tick, LiveCandle, Freshen, GoStale, BackfillBegins, BackfillEnds, Age, Scan, Watch,
              InsertGaps, FailStalled, Stop, Start, vars
<1>3. \A m \in Minutes : store'[m] = store[m] \/ store'[m] = "final"
  <2>1. CASE LiveCandle
    BY <2>1, Facts DEF LiveCandle
  <2>2. CASE store' = store
    BY <2>2
  <2> QED
    BY <2>1, <2>2 DEF Tick, Freshen, GoStale, BackfillBegins, BackfillEnds, Age, Scan, Watch,
                      InsertGaps, FailStalled, Stop, Start, vars
<1>4. FoundMoves
  <2>1. CASE \E s \in ScanSpans : Scan(s[1], s[2])
    <3>1. PICK s \in ScanSpans : Scan(s[1], s[2])
      BY <2>1
    <3>2. s[2] \in Int
      BY <3>1, GapAssumption DEF Minutes
    <3>3. ASSUME NEW r \in found', ~FutureScans PROVE r[2] < now
      <4>1. r \in Ranges /\ Span(r) \subseteq s[1] .. s[2] /\ s[2] < now
        BY <3>1, <3>3 DEF Scan, MissingRanges
      <4>2. r[2] \in s[1] .. s[2]
        BY <4>1, RangeType DEF Span
      <4> QED
        BY <1>1, <3>2, <4>1, <4>2
    <3> QED
      BY <3>3 DEF FoundMoves
  <2>2. CASE found' \in {found, {}}
    BY <2>2 DEF FoundMoves
  <2> QED
    BY <2>1, <2>2 DEF Tick, LiveCandle, Freshen, GoStale, BackfillBegins, BackfillEnds, Age, Watch,
                      InsertGaps, FailStalled, Stop, Start, vars, timerVars
<1>5. \A r \in Ranges : RowMoves(r)
  <2>1. CASE InsertGaps
    BY <2>1 DEF InsertGaps, RowMoves
  <2>2. CASE FailStalled
    BY <2>2 DEF FailStalled, RowMoves
  <2>3. CASE Start
    BY <2>3 DEF Start, Recovered, RowMoves
  <2>4. CASE status' = status
    BY <2>4 DEF RowMoves
  <2> QED
    BY <2>1, <2>2, <2>3, <2>4 DEF Tick, LiveCandle, Freshen, GoStale, BackfillBegins, BackfillEnds,
                                  Age, Scan, Watch, Stop, vars, rowVars
<1>6. WorkerMoves(worker')
  <2>1. CASE worker' = Idle
    BY <2>1, IdleMoves
  <2>2. CASE worker' = worker
    BY <2>2 DEF WorkerMoves
  <2> QED
    BY <2>1, <2>2 DEF Tick, LiveCandle, Freshen, GoStale, BackfillBegins, BackfillEnds, Age, Scan,
                      Watch, InsertGaps, FailStalled, Stop, Start, vars
<1> QED
  BY <1>2, <1>3, <1>4, <1>5, <1>6 DEF Moves, StoreMoves

LEMMA LoopMoves == ASSUME Inv, LoopStep \/ RejectWrite PROVE Moves
<1>1. UNCHANGED <<store, rowVars>>
  BY DEF LoopStep, RunOnce, LoopHead, Fetch, AfterChunk, Rebuild, RejectWrite
<1>2. worker \in WorkerType
  BY Facts
<1>3. CASE RunOnce
  <2>1. PICK w : w = [Idle EXCEPT !.pc = "claim"]
    OBVIOUS
  <2>2. WorkerMoves(w)
    BY <2>1, IdleType DEF WorkerMoves, WorkerType
  <2> QED
    BY <1>1, <1>3, <2>1, <2>2, WorkerOnly DEF RunOnce
<1>4. CASE LoopHead
  <2>1. PICK w : w = [worker EXCEPT !.pc = "fetch"]
    OBVIOUS
  <2>2. WorkerMoves(w)
    BY <1>2, <2>1 DEF WorkerMoves, WorkerType
  <2>3. Beyond(worker.cursor, worker.gap[2]) => EndsRepaired
    BY <1>2, <1>4, PageEndType DEF Beyond, EndsRepaired, LoopHead
  <2>4. WorkerMoves(Settling(worker, "DETECTED"))
    BY SettlingMoves
  <2>5. Beyond(worker.cursor, worker.gap[2]) => WorkerMoves(Settling(worker, "REPAIRED"))
    BY <2>3, SettlingMoves
  <2> QED
    BY <1>1, <1>4, <2>1, <2>2, <2>4, <2>5, WorkerOnly DEF LoopHead
<1>5. CASE Fetch
  <2> DEFINE page == Answer(worker.cursor, PageEnd(worker.gap, worker.cursor))
  <2>3. ASSUME NEW last, NEW w, w = [worker EXCEPT !.pc = "write", !.batch = page, !.last = last,
                                                  !.final = {m \in page : m < now}]
        PROVE  WorkerMoves(w)
    <3>1. w.gap = worker.gap /\ w.pc = "write" /\ w.batch = page /\ w.final = {m \in page : m < now}
      BY <1>2, <2>3 DEF WorkerType
    <3> QED
      BY <3>1 DEF WorkerMoves
  <2>4. page = {} => WorkerMoves(Settling(worker, "REPAIRED"))
    BY <1>5, SettlingMoves DEF EndsRepaired, Fetch
  <2>5. WorkerMoves(Settling(worker, "FAILED"))
    BY SettlingMoves
  <2> QED
    BY <1>1, <1>5, <2>3, <2>4, <2>5, WorkerOnly DEF Fetch
<1>6. CASE AfterChunk
  <2>1. PICK w : w = [worker EXCEPT !.pc = IF worker.batch = {} THEN "progress" ELSE "write"]
    OBVIOUS
  <2>2. WorkerMoves(w)
    BY <1>2, <2>1 DEF WorkerMoves, WorkerType
  <2>3. WorkerMoves(Settling(worker, "DETECTED"))
    BY SettlingMoves
  <2> QED
    BY <1>1, <1>6, <2>1, <2>2, <2>3, WorkerOnly DEF AfterChunk
<1>7. CASE Rebuild \/ RejectWrite
  <2>1. WorkerMoves(Settling(worker, "DETECTED")) /\ WorkerMoves(Settling(worker, "FAILED"))
    BY SettlingMoves
  <2> QED
    BY <1>1, <1>7, <2>1, IdleMoves, WorkerOnly DEF Rebuild, RejectWrite
<1> QED
  BY <1>3, <1>4, <1>5, <1>6, <1>7 DEF LoopStep

LEMMA WriterMoves ==
  ASSUME Inv, ClaimGap \/ WriteChunk \/ SaveProgress \/ Settle
  PROVE  Moves
<1>1. worker \in WorkerType /\ now <= now
  BY Facts
<1>2. listed' = listed /\ now' = now /\ found' = found
  BY DEF ClaimGap, WriteChunk, SaveProgress, Settle, Goes
<1>3. \A m \in Minutes :
        \/ store'[m] = store[m] \/ store'[m] = "final"
        \/ store'[m] = "partial" /\ m \in worker.batch \ worker.final
  <2>1. CASE WriteChunk
    BY <2>1 DEF WriteChunk, Chunk
  <2>2. CASE store' = store
    BY <2>2
  <2> QED
    BY <2>1, <2>2 DEF ClaimGap, SaveProgress, Settle
<1>4. \A r \in Ranges : RowMoves(r)
  <2>1. CASE ClaimGap
    BY <2>1, Facts DEF ClaimGap, Claimable, RowMoves
  <2>2. CASE Settle
    BY <2>2, Facts DEF Settle, RowMoves
  <2>3. CASE status' = status
    BY <2>3 DEF RowMoves
  <2> QED
    BY <2>1, <2>2, <2>3 DEF WriteChunk, SaveProgress, rowVars
<1>5. WorkerMoves(worker')
  <2>1. CASE ClaimGap
    <3>1. ASSUME NEW r \in Claimable PROVE WorkerMoves(ClaimedGap(r))
      <4>1. PICK w : w = ClaimedGap(r)
        OBVIOUS
      <4>2. w.gap = r /\ w.batch = {} /\ w.pc = "loop"
        BY <4>1 DEF ClaimedGap, Idle
      <4>3. WorkerMoves(w)
        BY <4>2 DEF WorkerMoves
      <4> QED
        BY <4>1, <4>3
    <3> QED
      BY <2>1, <3>1, IdleMoves DEF ClaimGap, Goes
  <2>2. CASE WriteChunk
    <3>1. PICK w : w = [worker EXCEPT !.pc = "written", !.batch = @ \ Chunk(@)]
      OBVIOUS
    <3>2. WorkerMoves(w)
      BY <1>1, <3>1 DEF WorkerMoves, WorkerType
    <3> QED
      BY <2>2, <3>1, <3>2 DEF WriteChunk, Goes
  <2>3. CASE SaveProgress
    <3>1. PICK w : w = [worker EXCEPT !.pc = "loop", !.cursor = worker.last + 1]
      OBVIOUS
    <3>2. WorkerMoves(w)
      BY <1>1, <3>1 DEF WorkerMoves, WorkerType
    <3> QED
      BY <2>3, <3>1, <3>2 DEF SaveProgress, Goes
  <2>4. CASE Settle
    <3>1. PICK w : w = [worker EXCEPT !.pc = "rebuild"]
      OBVIOUS
    <3>2. WorkerMoves(w)
      BY <1>1, <3>1 DEF WorkerMoves, WorkerType
    <3> QED
      BY <2>4, <3>1, <3>2, IdleMoves DEF Settle, Goes
  <2> QED
    BY <2>1, <2>2, <2>3, <2>4
<1> QED
  BY <1>1, <1>2, <1>3, <1>4, <1>5 DEF Moves, StoreMoves, FoundMoves

LEMMA NextMoves == ASSUME Inv, [Next]_vars PROVE Moves
  BY OutsideMoves, LoopMoves, WriterMoves DEF Next, WriterStep

-----------------------------------------------------------------------------
(* Closed data, and what REPAIRED says.                                    *)

\* While no scan reaches beyond the closed minutes, all that follows from one
\* is closed: the rows, what a queued write of a scan has found, and a page.
Closed ==
    /\ CanonicalClosed
    /\ \A r \in Ranges : status[r] # "NONE" => r[2] < now
    /\ \A r \in found : r[2] < now
    /\ worker.gap[2] < now
    /\ worker.batch \subseteq worker.final

\* Where the exchange has nothing for a whole page, it has nothing later: an
\* empty page ends a repair.
EmptyPageIsLast ==
    \A L \in ListedSets : \A c \in Minutes :
        L \cap (c .. c + PageSize - 1) = {} => \A m \in L : m < c

Repaired ==
    /\ RepairedIsStored
    /\ worker.pc = "settle" /\ worker.to = "REPAIRED" => StoredUpTo(worker.gap, worker.gap[2], {})

LEMMA ClosedInit == ASSUME Init PROVE Closed
  BY IdleType, Bounds DEF Init, Closed, CanonicalClosed

\* A page of a closed gap has closed minutes alone, so that none is partial.
LEMMA ClosedStep ==
  ASSUME ~FutureScans, Inv, Inv', Closed, Moves
  PROVE  Closed'
<1>1. /\ now \in Int /\ now' \in Int /\ now <= now' /\ worker \in WorkerType
      /\ found \subseteq Ranges /\ found' \subseteq Ranges
      /\ worker.gap \in Ranges \cup {NoGap}
  <2>1. found' \subseteq Ranges /\ now' \in 1 .. LastMinute + 1
    BY DEF Inv, TypeOK
  <2> QED
    BY <2>1, Facts, Bounds DEF Moves, StoreMoves, WorkerType
<1>2. ASSUME NEW r \in Ranges \cup {NoGap}, r[2] < now PROVE r[2] < now'
  BY <1>1, <1>2, RangeType, Bounds
<1>3. CanonicalClosed'
  BY DEF Moves, StoreMoves, Closed, CanonicalClosed
<1>4. ASSUME NEW r \in Ranges, status'[r] # "NONE" PROVE r[2] < now'
  <2>1. CASE status[r] # "NONE"
    BY <1>2, <2>1 DEF Closed
  <2>2. CASE r \in found
    BY <1>2, <2>2 DEF Closed
  <2>3. CASE r = worker.gap
    BY <1>2, <2>3 DEF Closed
  <2> QED
    BY <1>4, <2>1, <2>2, <2>3 DEF Moves, RowMoves
<1>5. ASSUME NEW r \in found' PROVE r[2] < now'
  BY <1>1, <1>2, <1>5 DEF Moves, FoundMoves, Closed
<1>6. worker'.gap[2] < now' /\ worker'.batch \subseteq worker'.final
  <2>1. PICK w : w = worker'
    OBVIOUS
  <2>2. WorkerMoves(w)
    BY <2>1 DEF Moves
  <2>3. worker.gap[2] < now'
    BY <1>1, <1>2 DEF Closed
  <2>4. CASE w = worker
    BY <2>1, <2>3, <2>4 DEF Closed
  <2>5. CASE w.gap = NoGap /\ w.batch = {}
    BY <1>1, <2>1, <2>5, Bounds, Facts
  <2>6. CASE w.gap \in Claimable /\ w.batch = {}
    <3>1. w.gap \in Ranges /\ w.gap[2] < now
      BY <2>6 DEF Claimable, Closed
    <3> QED
      BY <1>2, <2>1, <2>6, <3>1
  <2>7. CASE w.gap = worker.gap /\ w.batch \subseteq worker.batch /\ w.final = worker.final
    BY <2>1, <2>3, <2>7 DEF Closed
  <2>8. CASE /\ w.gap = worker.gap
             /\ w.batch = Answer(worker.cursor, PageEnd(worker.gap, worker.cursor))
             /\ w.final = {m \in w.batch : m < now}
    <3>1. ASSUME NEW m \in w.batch PROVE m < now
      <4>1. m \in worker.cursor .. PageEnd(worker.gap, worker.cursor)
        BY <2>8, <3>1 DEF Answer
      <4>2. worker.gap[2] < now
        BY DEF Closed
      <4> QED
        BY <1>1, <4>1, <4>2, PageEndType
    <3> QED
      BY <2>1, <2>3, <2>8, <3>1
  <2> QED
    BY <2>2, <2>4, <2>5, <2>6, <2>7, <2>8 DEF WorkerMoves
<1> QED
  BY <1>3, <1>4, <1>5, <1>6 DEF Closed

LEMMA RepairedInit == ASSUME Init PROVE Repaired
  BY IdleType DEF Init, Repaired, RepairedIsStored

\* A repair that ends well has stored all there is of its gap: behind the
\* cursor it is stored, and after an empty page nothing comes.
LEMMA EndsStored ==
  ASSUME EmptyPageIsLast, Inv, Closed, EndsRepaired
  PROVE  StoredUpTo(worker.gap, worker.gap[2], {})
<1>1. /\ worker \in WorkerType /\ StoredUpTo(worker.gap, worker.cursor - 1, {})
      /\ worker.gap[1] \in Int /\ worker.gap[2] \in 0 .. LastMinute /\ worker.cursor \in Nat
  BY Facts, PageEndType DEF WorkerOK
<1>2. SUFFICES ASSUME NEW m \in listed, m \in worker.gap[1] .. worker.gap[2]
               PROVE  m <= worker.cursor - 1
  BY <1>1 DEF StoredUpTo
<1>3. m \in Minutes /\ m \in 1 .. LastMinute /\ m < now /\ now \in Int
  BY <1>1, <1>2, Facts DEF Closed, Minutes
<1>4. CASE worker.gap[2] < worker.cursor
  BY <1>1, <1>2, <1>4
<1>5. CASE Answer(worker.cursor, PageEnd(worker.gap, worker.cursor)) = {}
  <2>1. ASSUME worker.cursor <= m PROVE FALSE
    <3>1. ~(m <= PageEnd(worker.gap, worker.cursor))
      BY <1>1, <1>3, <1>5, <2>1, PageEndType DEF Answer
    <3>2. /\ PageEnd(worker.gap, worker.cursor) = worker.cursor + PageSize - 1
          /\ worker.cursor + PageSize - 1 <= worker.gap[2]
      BY <1>1, <1>2, <3>1, Bounds DEF PageEnd
    <3>3. worker.cursor \in Minutes
      <4>1. worker.gap # NoGap
        BY <1>2, <1>3, Bounds
      <4>2. 1 <= worker.cursor
        BY <4>1, Facts DEF WorkerOK
      <4> QED
        BY <1>1, <1>3, <2>1, <4>2, Bounds DEF Minutes
    <3>4. listed \cap (worker.cursor .. worker.cursor + PageSize - 1) = {}
      <4>1. ASSUME NEW n \in listed, n \in worker.cursor .. worker.cursor + PageSize - 1
            PROVE  n <= now
        <5>1. n \in Int /\ n <= worker.gap[2] /\ worker.gap[2] < now
          BY <1>1, <3>2, <4>1, Bounds DEF Closed
        <5> QED
          BY <1>1, <1>3, <5>1
      <4> QED
        BY <1>5, <3>2, <4>1 DEF Answer
    <3>5. listed \in ListedSets
      BY Facts DEF TypeOK
    <3>6. m < worker.cursor
      BY <1>2, <3>3, <3>4, <3>5 DEF EmptyPageIsLast
    <3> QED
      BY <1>1, <1>3, <2>1, <3>6
  <2> QED
    BY <1>1, <1>3, <2>1
<1> QED
  BY <1>4, <1>5 DEF EndsRepaired

LEMMA StatusMoves ==
  ASSUME Inv, NEW r \in Ranges, RowMoves(r), status'[r] = "REPAIRED"
  PROVE  status[r] = "REPAIRED" \/ (worker.pc = "settle" /\ r = worker.gap /\ worker.to = "REPAIRED")
  BY DEF RowMoves

LEMMA RepairedStep ==
  ASSUME EmptyPageIsLast, Inv, Closed, Repaired, Moves
  PROVE  Repaired'
<1>1. Keeps
  BY DEF Moves, StoreMoves, Keeps
<1>2. RepairedIsStored'
  <2>1. SUFFICES ASSUME NEW r \in Ranges, status'[r] = "REPAIRED", NEW m \in listed, m \in Span(r)
                 PROVE  store'[m] # "absent"
    BY <1>1 DEF Keeps, RepairedIsStored, Span
  <2>2. store[m] # "absent"
    <3>1. CASE status[r] = "REPAIRED"
      BY <2>1, <3>1 DEF Repaired, RepairedIsStored
    <3>2. CASE worker.pc = "settle" /\ r = worker.gap /\ worker.to = "REPAIRED"
      BY <2>1, <3>2 DEF Repaired, StoredUpTo, Span
    <3> QED
      BY <2>1, <3>1, <3>2, StatusMoves DEF Moves
  <2> QED
    BY <1>1, <2>1, <2>2, Facts DEF Keeps
<1>3. ASSUME worker'.pc = "settle", worker'.to = "REPAIRED"
      PROVE  StoredUpTo(worker.gap, worker.gap[2], {}) /\ worker'.gap = worker.gap
  <2>1. PICK w : w = worker'
    OBVIOUS
  <2>2. CASE w = worker
    BY <1>3, <2>1, <2>2 DEF Repaired
  <2>3. CASE w.gap = worker.gap /\ EndsRepaired
    BY <2>1, <2>3, EndsStored
  <2> QED
    BY <1>3, <2>1, <2>2, <2>3 DEF Moves, WorkerMoves
<1>4. StoredUpTo(worker.gap, worker.gap[2], {}) =>
        \A m \in listed : m \in worker.gap[1] .. worker.gap[2] => store'[m] # "absent"
  BY <1>1, Facts DEF Keeps, StoredUpTo
<1>5. ASSUME worker'.pc = "settle", worker'.to = "REPAIRED"
      PROVE  \A m \in listed' : m \in worker'.gap[1] .. worker'.gap[2] => store'[m] # "absent"
  BY <1>1, <1>3, <1>4, <1>5 DEF Keeps
<1> QED
  BY <1>2, <1>5 DEF Repaired, StoredUpTo

\* A range that a scan found missing, and that has a candle to be had, meets
\* a gap to be repaired: its own, or one that overlaps it.
LEMMA InsertTriggers ==
  ASSUME ListedSets \subseteq {Minutes}, Inv, Repaired, InsertGaps,
         NEW r \in found, \A m \in Span(r) : store[m] = "absent"
  PROVE  \E q \in Ranges : status'[q] \in Open /\ Span(q) \cap Span(r) # {}
<1>1. r \in Ranges /\ r[1] \in Span(r) /\ listed = Minutes /\ r[1] \in Minutes
  BY Facts, RangeType DEF TypeOK, Minutes
<1>2. \A q \in Ranges : /\ status[q] \in Open => status'[q] \in Open
                        /\ q \in found /\ ~OverlapsActive(q) /\ status[q] = "NONE" => status'[q] \in Open
  BY DEF InsertGaps, Open
<1>3. CASE OverlapsActive(r)
  <2>1. PICK q \in Ranges : status[q] \in Open /\ q[1] <= r[2] /\ q[2] >= r[1]
    BY <1>3 DEF OverlapsActive
  <2>2. q[1] \in Span(r) \cap Span(q) \/ r[1] \in Span(r) \cap Span(q)
    BY <1>1, <2>1, RangeType DEF Span
  <2> QED
    BY <1>2, <2>1, <2>2
<1>4. CASE ~OverlapsActive(r)
  <2>1. status[r] # "REPAIRED"
    BY <1>1 DEF Repaired, RepairedIsStored
  <2>2. status'[r] \in Open
    BY <1>1, <1>2, <1>4, <2>1, Facts DEF Statuses, Open
  <2> QED
    BY <1>1, <2>2
<1> QED
  BY <1>3, <1>4

LEMMA DenseIsEnough == ASSUME ListedSets \subseteq {Minutes} PROVE EmptyPageIsLast
<1>1. SUFFICES ASSUME NEW L \in ListedSets, NEW c \in Minutes, L \cap (c .. c + PageSize - 1) = {}
               PROVE  FALSE
  BY DEF EmptyPageIsLast
<1>2. c \in c .. c + PageSize - 1
  BY Bounds DEF Minutes
<1> QED
  BY <1>1, <1>2

-----------------------------------------------------------------------------
(* The theorems about REPAIRED and missing ranges.                          *)

LEMMA ClosedAlways == ASSUME ~FutureScans PROVE Spec => []Closed
<1>1. Inv /\ Inv' /\ Closed /\ [Next]_vars => Closed'
  BY ClosedStep, NextMoves
<1> QED
  BY <1>1, ClosedInit, InvAlways, PTL DEF Spec

LEMMA RepairedAlways == ASSUME ~FutureScans, EmptyPageIsLast PROVE Spec => []Repaired
<1>1. Inv /\ Closed /\ Repaired /\ [Next]_vars => Repaired'
  BY RepairedStep, NextMoves
<1>2. Spec => []Closed
  BY ClosedAlways
<1> QED
  BY <1>1, <1>2, RepairedInit, InvAlways, PTL DEF Spec

\* A gap is REPAIRED only when all the exchange has of it is stored: provided,
\* besides, that after a page without a candle the exchange has none, for the
\* worker ends the repair there.
THEOREM RepairedIsStoredAlways ==
  ASSUME ~FutureScans, EmptyPageIsLast
  PROVE  Spec => []RepairedIsStored
<1>1. Repaired => RepairedIsStored
  BY DEF Repaired
<1>2. Spec => []Repaired
  BY RepairedAlways
<1> QED
  BY <1>1, <1>2, PTL

\* Whatever a scan found missing, and is missing still when the rows are
\* inserted, meets a gap that is to be repaired: the rows that are left out,
\* for an overlap or for a row of the same range, are not left undone.
THEOREM MissingTriggersRepairAlways ==
  ASSUME ~FutureScans, ListedSets \subseteq {Minutes}
  PROVE  Spec => MissingTriggersRepair
<1>1. ASSUME Inv, Repaired, InsertGaps
      PROVE  \A r \in found : (\A m \in Span(r) : store[m] = "absent") =>
               \E q \in Ranges : status'[q] \in Open /\ Span(q) \cap Span(r) # {}
  BY <1>1, InsertTriggers
<1>2. Inv /\ Repaired =>
        [InsertGaps =>
           \A r \in found : (\A m \in Span(r) : store[m] = "absent") =>
             \E q \in Ranges : status'[q] \in Open /\ Span(q) \cap Span(r) # {}]_vars
  BY <1>1
<1>3. Spec => []Repaired
  BY DenseIsEnough, RepairedAlways
<1> QED
  BY <1>2, <1>3, InvAlways, PTL DEF MissingTriggersRepair

-----------------------------------------------------------------------------
(* Progress, and the abstract download.                                    *)

InLoop == {"loop", "fetch", "write", "written", "progress"}
InPage == {"write", "written", "progress"}

\* The worker's cursor is ahead of its gap's checkpoint from the claim on, and
\* the minute it will write is not behind the cursor; what it works at is a row.
ProgressInv ==
    /\ \A r \in Ranges : status[r] = "NONE" => checkpoint[r] = 0
    /\ worker.gap \in Ranges => status[worker.gap] # "NONE"
    /\ worker.pc \in InLoop => worker.gap \in Ranges /\ checkpoint[worker.gap] < worker.cursor
    /\ worker.pc \in InPage => worker.cursor <= worker.last

\* No step removes a row.
LEMMA RowsStay ==
  ASSUME Inv, [Next]_vars, NEW r \in Ranges, status'[r] = "NONE"
  PROVE  status[r] = "NONE"
<1>1. RowMoves(r) /\ WorkerOK(worker)
  BY NextMoves, Facts DEF Moves
<1> QED
  BY <1>1 DEF RowMoves, WorkerOK

\* No checkpoint is written, and the worker stays where it is, goes on within
\* the loop, or leaves it.
LEMMA ProgressFrame ==
  ASSUME Inv, ProgressInv, [Next]_vars, checkpoint' = checkpoint, NEW w, worker' = w,
         \/ w = worker
         \/ w.gap \in {NoGap, worker.gap} /\ w.pc \notin InLoop
         \/ /\ worker.pc \in InLoop /\ w.gap = worker.gap /\ w.cursor = worker.cursor
            /\ w.pc \in InPage => w.cursor <= w.last
  PROVE  ProgressInv'
<1>1. \A r \in Ranges : status'[r] = "NONE" => status[r] = "NONE"
  BY RowsStay
<1>2. NoGap \notin Ranges
  BY Bounds
<1> QED
  BY <1>1, <1>2 DEF ProgressInv, InLoop, InPage

LEMMA OutsideProgress ==
  ASSUME Inv, ProgressInv, [Next]_vars,
         \/ Tick \/ LiveCandle \/ Freshen \/ GoStale \/ BackfillBegins \/ BackfillEnds
         \/ (\E r \in Ranges : Age(r)) \/ (\E s \in ScanSpans : Scan(s[1], s[2]))
         \/ Watch \/ InsertGaps \/ FailStalled \/ Stop \/ Start \/ UNCHANGED vars
  PROVE  ProgressInv'
<1>1. checkpoint' = checkpoint /\ worker' \in {worker, Idle}
  BY DEF Tick, LiveCandle, Freshen, GoStale, BackfillBegins, BackfillEnds, Age, Scan, Watch,
         InsertGaps, FailStalled, Stop, Start, vars, rowVars
<1>2. Idle.gap = NoGap /\ Idle.pc \notin InLoop
  BY IdleType DEF InLoop
<1> QED
  BY <1>1, <1>2, ProgressFrame

LEMMA LoopProgress ==
  ASSUME Inv, ProgressInv, [Next]_vars, LoopStep \/ RejectWrite \/ WriteChunk \/ Settle
  PROVE  ProgressInv'
<1>1. checkpoint' = checkpoint
  BY DEF LoopStep, RunOnce, LoopHead, Fetch, AfterChunk, Rebuild, RejectWrite, WriteChunk, Settle, rowVars
<1>2. worker \in WorkerType
  BY Facts
<1>3. \A s : Settling(worker, s).gap = worker.gap /\ Settling(worker, s).pc \notin InLoop
  BY <1>2 DEF Settling, WorkerType, InLoop
<1>4. /\ Idle.gap = NoGap /\ Idle.pc \notin InLoop
      /\ [Idle EXCEPT !.pc = "claim"].gap = NoGap /\ [Idle EXCEPT !.pc = "claim"].pc \notin InLoop
  BY IdleType DEF InLoop, Idle
\* Where the worker leaves the loop.
<1>5. CASE \/ worker' \in {Idle, [Idle EXCEPT !.pc = "claim"]} \/ \E s : worker' = Settling(worker, s)
  BY <1>1, <1>3, <1>4, <1>5, ProgressFrame
<1>6. CASE LoopHead /\ worker' = [worker EXCEPT !.pc = "fetch"]
  <2>1. PICK w : w = worker'
    OBVIOUS
  <2>2. worker.pc = "loop" /\ w.gap = worker.gap /\ w.cursor = worker.cursor /\ w.pc = "fetch"
    BY <1>2, <1>6, <2>1 DEF LoopHead, WorkerType
  <2> QED
    BY <1>1, <2>1, <2>2, ProgressFrame DEF InLoop, InPage
<1>7. CASE Fetch
  <2> DEFINE page == Answer(worker.cursor, PageEnd(worker.gap, worker.cursor))
  <2>1. ASSUME NEW last \in page, Goes([worker EXCEPT !.pc = "write", !.batch = page, !.last = last,
                                                      !.final = {m \in page : m < now}])
        PROVE  ProgressInv'
    <3>1. PICK w : w = worker'
      OBVIOUS
    <3>2. /\ worker.pc = "fetch" /\ w.gap = worker.gap /\ w.cursor = worker.cursor /\ w.pc = "write"
          /\ w.last = last
      BY <1>2, <1>7, <2>1, <3>1 DEF Fetch, Goes, WorkerType
    <3>3. worker.cursor <= last
      BY <1>2, PageEndType DEF Answer
    <3> QED
      BY <1>1, <3>1, <3>2, <3>3, ProgressFrame DEF InLoop
  <2> QED
    BY <1>5, <1>7, <2>1 DEF Fetch, Goes
<1>8. CASE (AfterChunk /\ worker' = [worker EXCEPT !.pc = IF worker.batch = {} THEN "progress" ELSE "write"])
           \/ WriteChunk
  <2>1. PICK w : w = worker'
    OBVIOUS
  <2>2. /\ worker.pc \in {"write", "written"} /\ w.gap = worker.gap /\ w.cursor = worker.cursor
        /\ w.last = worker.last
    BY <1>2, <1>8, <2>1 DEF AfterChunk, WriteChunk, Goes, WorkerType
  <2>3. worker.cursor <= worker.last
    BY <2>2 DEF ProgressInv, InPage
  <2> QED
    BY <1>1, <2>1, <2>2, <2>3, ProgressFrame DEF InLoop
<1>9. CASE Settle /\ worker' = [worker EXCEPT !.pc = "rebuild"]
  <2>1. PICK w : w = worker'
    OBVIOUS
  <2>2. w.gap = worker.gap /\ w.pc = "rebuild"
    BY <1>2, <1>9, <2>1 DEF WorkerType
  <2> QED
    BY <1>1, <2>1, <2>2, ProgressFrame DEF InLoop
<1> QED
  BY <1>5, <1>6, <1>7, <1>8, <1>9 DEF LoopStep, RunOnce, LoopHead, AfterChunk, Rebuild, RejectWrite, Settle, Goes

LEMMA ClaimProgress == ASSUME Inv, ProgressInv, [Next]_vars, ClaimGap PROVE ProgressInv'
<1>1. checkpoint' = checkpoint
  BY DEF ClaimGap
<1>2. CASE worker' = Idle
  BY <1>1, <1>2, IdleType, ProgressFrame DEF InLoop
<1>3. ASSUME NEW r \in Claimable, worker' = ClaimedGap(r) PROVE ProgressInv'
  <2>1. r \in Ranges /\ checkpoint[r] \in 0 .. LastMinute /\ status[r] # "NONE"
    BY Facts DEF Claimable
  <2>2. PICK w : w = worker'
    OBVIOUS
  <2>3. w.pc = "loop" /\ w.gap = r /\ w.cursor = IF checkpoint[r] = 0 THEN r[1] ELSE checkpoint[r] + 1
    BY <1>3, <2>2 DEF ClaimedGap, Idle
  <2>4. checkpoint[r] < w.cursor
    BY <2>1, <2>3, RangeType
  <2>5. \A q \in Ranges : status'[q] = "NONE" => status[q] = "NONE"
    BY RowsStay
  <2> QED
    BY <1>1, <2>1, <2>2, <2>3, <2>4, <2>5 DEF ProgressInv, InLoop, InPage
<1> QED
  BY <1>2, <1>3 DEF ClaimGap, Goes

\* What the checkpoint becomes.
LEMMA SaveProgressFacts ==
  ASSUME Inv, ProgressInv, SaveProgress
  PROVE  /\ worker.gap \in Ranges /\ checkpoint[worker.gap] < worker.last
         /\ worker.last \in Nat /\ StoredUpTo(worker.gap, worker.last, {})
         /\ checkpoint' = [checkpoint EXCEPT ![worker.gap] = worker.last]
         /\ worker'.pc = "loop" /\ worker'.gap = worker.gap /\ worker'.cursor = worker.last + 1
<1>1. worker \in WorkerType /\ worker.pc = "progress" /\ WorkerOK(worker)
  BY Facts DEF SaveProgress
<1>2. /\ worker.gap \in Ranges /\ checkpoint[worker.gap] < worker.cursor /\ worker.cursor <= worker.last
  BY <1>1 DEF ProgressInv, InLoop, InPage
<1>3. checkpoint[worker.gap] \in Int /\ worker.cursor \in Int /\ worker.last \in Nat
  BY <1>1, <1>2, Bounds, Facts DEF WorkerType
<1>4. worker'.pc = "loop" /\ worker'.gap = worker.gap /\ worker'.cursor = worker.last + 1
  BY <1>1 DEF SaveProgress, Goes, WorkerType
<1> QED
  BY <1>1, <1>2, <1>3, <1>4 DEF SaveProgress, CheckpointOf, WorkerOK

LEMMA SaveProgressStays == ASSUME Inv, ProgressInv, SaveProgress PROVE ProgressInv'
<1>1. status' = status
  BY DEF SaveProgress
<1>2. \A r \in Ranges : checkpoint'[r] = IF r = worker.gap THEN worker.last ELSE checkpoint[r]
  BY SaveProgressFacts, Facts
<1>3. worker.last < worker.last + 1
  BY SaveProgressFacts
<1> QED
  BY <1>1, <1>2, <1>3, SaveProgressFacts DEF ProgressInv, InLoop, InPage

LEMMA ProgressStep == ASSUME Inv, ProgressInv, [Next]_vars PROVE ProgressInv'
  BY OutsideProgress, LoopProgress, ClaimProgress, SaveProgressStays DEF Next, WriterStep

Stored == {m \in Minutes : store[m] # "absent"}

LEMMA NothingLost ==
  ASSUME Inv, [Next]_vars
  PROVE  listed' = listed /\ Stored \subseteq Stored'
<1>1. Moves
  BY NextMoves
<1> QED
  BY <1>1 DEF Moves, StoreMoves, Stored

\* Steps that write no checkpoint and insert no row.
LEMMA StoreFrame ==
  ASSUME Inv, [Next]_vars, checkpoint' = checkpoint,
         \A r \in Ranges : status[r] = "NONE" => status'[r] = "NONE"
  PROVE  Download!Next
<1>1. \A r \in Ranges : Owed(r)' = Owed(r)
  BY RowsStay, NothingLost DEF Owed
<1>2. [r \in Ranges |-> Owed(r)]' = [r \in Ranges |-> Owed(r)]
  BY <1>1
<1>3. Download!Store
  BY <1>2, NothingLost DEF Download!Store, Stored
<1> QED
  BY <1>3 DEF Download!Next

LEMMA InsertAccepts == ASSUME Inv, ProgressInv, InsertGaps PROVE Download!Next
<1>1. PICK new : new = {r \in found : ~OverlapsActive(r) /\ status[r] = "NONE"}
  OBVIOUS
<1>2. /\ \A r \in Ranges : status'[r] = IF r \in new THEN "DETECTED" ELSE status[r]
      /\ UNCHANGED <<listed, store, checkpoint>>
  BY <1>1, Facts DEF InsertGaps
<1>3. new \in SUBSET Ranges /\ \A r \in new : checkpoint[r] = 0 /\ Owed(r) = {}
  BY <1>1, Facts DEF ProgressInv, Owed
<1>4. \A r \in Ranges : r \notin new => Owed(r)' = Owed(r)
  BY <1>2 DEF Owed
<1>5. Download!Accept(new)
  BY <1>2, <1>3, <1>4 DEF Download!Accept
<1> QED
  BY <1>3, <1>5 DEF Download!Next

LEMMA SaveProgressAdvances == ASSUME Inv, ProgressInv, SaveProgress PROVE Download!Next
<1>1. PICK gap \in Ranges : gap = worker.gap
  BY SaveProgressFacts
<1>2. checkpoint'[gap] = worker.last /\ checkpoint[gap] < worker.last /\ worker.last \in Nat
  BY <1>1, SaveProgressFacts, Facts
<1>3. checkpoint' = [checkpoint EXCEPT ![gap] = checkpoint'[gap]]
  BY <1>1, <1>2, SaveProgressFacts
<1>4. UNCHANGED <<listed, store, status>>
  BY DEF SaveProgress, Goes
<1>5. ASSUME NEW m \in Owed(gap), m <= checkpoint'[gap] PROVE m \in Minutes /\ store[m] # "absent"
  <2>1. m \in listed /\ m \in gap[1] .. gap[2]
    BY <1>5 DEF Owed, Span
  <2>2. m \in gap[1] .. worker.last
    BY <1>2, <1>5, <2>1, RangeType
  <2> QED
    BY <1>1, <2>1, <2>2, SaveProgressFacts, Facts DEF StoredUpTo
<1>6. [r \in Ranges |-> Owed(r)]' = [r \in Ranges |-> Owed(r)]
  BY <1>4 DEF Owed
<1>7. Download!Advance(gap)
  BY <1>2, <1>3, <1>4, <1>5, <1>6 DEF Download!Advance
<1> QED
  BY <1>7 DEF Download!Next

\* All the others store candles, or do nothing that the download would notice.
LEMMA OthersStore ==
  ASSUME Inv, ProgressInv, [Next]_vars, ~InsertGaps, ~SaveProgress
  PROVE  Download!Next
<1>1. checkpoint' = checkpoint
  BY DEF Next, LoopStep, WriterStep, RunOnce, LoopHead, Fetch, AfterChunk, Rebuild, ClaimGap, WriteChunk,
         Settle, FailStalled, RejectWrite, Tick, LiveCandle, Freshen, GoStale, BackfillBegins, BackfillEnds,
         Age, Scan, Watch, Stop, Start, vars, rowVars
<1>2. SUFFICES ASSUME NEW r \in Ranges, status[r] = "NONE" PROVE status'[r] = "NONE"
  BY <1>1, StoreFrame
<1>3. CASE ClaimGap
  BY <1>2, <1>3, Facts DEF ClaimGap, Claimable
<1>4. CASE Settle
  BY <1>2, <1>4, Facts DEF Settle, ProgressInv
<1>5. CASE FailStalled
  BY <1>2, <1>5 DEF FailStalled
<1>6. CASE Start
  BY <1>2, <1>6 DEF Start, Recovered
<1>7. CASE status' = status
  BY <1>2, <1>7
<1> QED
  BY <1>3, <1>4, <1>5, <1>6, <1>7
     DEF Next, LoopStep, WriterStep, RunOnce, LoopHead, Fetch, AfterChunk, Rebuild, WriteChunk,
         RejectWrite, Tick, LiveCandle, Freshen, GoStale, BackfillBegins, BackfillEnds,
         Age, Scan, Watch, Stop, vars, rowVars

\* The gaps implement the abstract download: a checkpoint never moves back,
\* because a repair begins behind the one it has read and is the only one that
\* writes it, nor over candles that are not stored, and scans, deferrals,
\* stalls and restarts leave what a recorded gap owes as it is.
THEOREM DownloadImplemented == Spec => DownloadSpec
<1>1. Init => Download!Init
  BY DEF Init, Download!Init, Owed
<1>2. Init => ProgressInv
  <2>1. SUFFICES ASSUME Init PROVE ProgressInv
    OBVIOUS
  <2> QED
    BY <2>1, IdleType, Bounds DEF Init, ProgressInv, InLoop, InPage
<1>3. Inv /\ ProgressInv /\ [Next]_vars => ProgressInv'
  BY ProgressStep
<1>4. Inv /\ ProgressInv /\ [Next]_vars => [Download!Next]_(Download!vars)
  BY InsertAccepts, SaveProgressAdvances, OthersStore
<1> QED
  BY <1>1, <1>2, <1>3, <1>4, InvAlways, PTL DEF Spec, DownloadSpec, Download!Spec

=============================================================================
