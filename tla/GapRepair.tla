----------------------------- MODULE GapRepair ------------------------------
(***************************************************************************)
(* The repair of missing one-minute candles of one symbol: scans record    *)
(* the missing ranges as rows of the table gaps, and the gap repair worker *)
(* claims the rows one after the other, downloads each range page by page, *)
(* stores the candles in chunks and keeps a checkpoint, beside the live    *)
(* stream, the backfill jobs and the watchdog.                             *)
(*                                                                         *)
(* A minute is a number; the minute now is still open, the smaller ones    *)
(* are closed.  All writes here have the same priority but for the live    *)
(* candles, so they wait in one first-in first-out queue, in which the     *)
(* worker, the watchdog and a scan have at most one write each.            *)
(***************************************************************************)
EXTENDS Integers, Sequences, FiniteSets

CONSTANTS
    LastMinute,   \* bound: the minutes are 1 .. LastMinute
    PageSize,     \* candles a request asks for at most
    ChunkSize,    \* candles written in one transaction
    ListedSets,   \* the sets of minutes the exchange may have candles of
    ScanSpans,    \* bound: the spans a scan is asked for
    FutureScans,  \* whether a scan may reach beyond the closed minutes
    MaxTrouble    \* bound: failed requests, rejected writes, backfill jobs, and
                  \* times the stream goes stale or the process stops, together

Minutes == 1 .. LastMinute

ASSUME GapAssumption ==
    /\ {LastMinute, PageSize, ChunkSize} \subseteq Nat \ {0}
    /\ ListedSets \subseteq SUBSET Minutes
    /\ ScanSpans \subseteq Minutes \X Minutes
    /\ FutureScans \in BOOLEAN
    /\ MaxTrouble \in Nat

VARIABLES
    listed,      \* the minutes the exchange has candles of, once they open
    now,         \* the open minute
    store,       \* table candles: of each minute nothing, a final or a partial candle
    status,      \* table gaps: the status of the row of each range
    checkpoint,  \* the last minute stored of each range, 0 for none
    born,        \* detected_at of each row: the scan that inserted it
    old,         \* rows not updated for longer than the stall timeout
    worker,      \* the call of runOnce
    watchExcept, \* the row the queued write of the watchdog spares
    found,       \* the missing ranges of the queued write of a scan
    scans,       \* scans that inserted rows so far
    queue,       \* whose writes wait in the writer queue, oldest first
    stream,      \* the live stream: stale, fresh, or fresh for 30 s
    backfill,    \* whether a backfill job is active
    up,          \* whether the process is up
    trouble      \* the bounded events so far

rowVars  == <<status, checkpoint, born, old>>
timerVars == <<watchExcept, found, scans>>
envVars  == <<stream, backfill>>
vars == <<listed, now, store, rowVars, worker, timerVars, queue, envVars, up, trouble>>

\* Ranges of minutes; the table is unique on (market, symbol, timeframe,
\* gap_start, gap_end), so a range has one row at most.
Ranges == {r \in Minutes \X Minutes : r[1] <= r[2]}
NoGap  == <<0, 0>>
Span(r) == r[1] .. r[2]

Statuses == {"NONE", "DETECTED", "REPAIRING", "REPAIRED", "FAILED"}
Open     == {"DETECTED", "REPAIRING", "FAILED"}

Idle == [pc |-> "idle", gap |-> NoGap, cursor |-> 0, batch |-> {}, last |-> 0,
         final |-> {}, to |-> "NONE"]

TypeOK ==
    /\ listed \in ListedSets /\ now \in 1 .. LastMinute + 1
    /\ store \in [Minutes -> {"absent", "partial", "final"}]
    /\ status \in [Ranges -> Statuses]
    /\ checkpoint \in [Ranges -> 0 .. LastMinute]
    /\ born \in [Ranges -> Nat]
    /\ old \subseteq Ranges
    /\ worker \in [pc : {"idle", "claim", "loop", "fetch", "write", "written",
                         "progress", "settle", "rebuild"},
                   gap : Ranges \cup {NoGap}, cursor : 0 .. LastMinute + 1,
                   batch : SUBSET Minutes, last : 0 .. LastMinute,
                   final : SUBSET Minutes, to : Statuses]
    /\ watchExcept \in Ranges \cup {NoGap}
    /\ found \subseteq Ranges /\ scans \in Nat
    /\ queue \in Seq({"worker", "watchdog", "scan"})
    /\ stream \in {"stale", "fresh", "steady"}
    /\ {backfill, up} \subseteq BOOLEAN
    /\ trouble \in 0 .. MaxTrouble

Init ==
    /\ listed \in ListedSets /\ now = 2
    /\ store = [m \in Minutes |-> "absent"]
    /\ status = [r \in Ranges |-> "NONE"]
    /\ checkpoint = [r \in Ranges |-> 0]
    /\ born = [r \in Ranges |-> 0] /\ old = {}
    /\ worker = Idle
    /\ watchExcept = NoGap /\ found = {} /\ scans = 0
    /\ queue = <<>>
    /\ stream = "stale" /\ backfill = FALSE /\ up = TRUE
    /\ trouble = 0

\* A disturbance, of which there are MaxTrouble at most.
Trouble == trouble < MaxTrouble /\ trouble' = trouble + 1

IsNext(who) == up /\ queue # <<>> /\ Head(queue) = who

-----------------------------------------------------------------------------
(* The world around the worker. *)

\* A minute closes and the next one opens.
Tick ==
    /\ now <= LastMinute
    /\ now' = now + 1
    /\ UNCHANGED <<listed, store, rowVars, worker, timerVars, queue, envVars, up, trouble>>

\* The stream delivers the candle of the minute that has just closed.
LiveCandle ==
    /\ up /\ stream # "stale" /\ now - 1 \in listed
    /\ store' = [store EXCEPT ![now - 1] = "final"]
    /\ UNCHANGED <<listed, now, rowVars, worker, timerVars, queue, envVars, up, trouble>>

\* The stream delivers messages again, and has done so for 30 s.
Freshen ==
    /\ up /\ stream # "steady"
    /\ stream' = IF stream = "stale" THEN "fresh" ELSE "steady"
    /\ UNCHANGED <<listed, now, store, rowVars, worker, timerVars, queue,
                   backfill, up, trouble>>

GoStale ==
    /\ stream # "stale" /\ Trouble
    /\ stream' = "stale"
    /\ UNCHANGED <<listed, now, store, rowVars, worker, timerVars, queue,
                   backfill, up>>

\* A backfill job is created, or the last active one ends.
BackfillBegins ==
    /\ up /\ ~backfill /\ Trouble
    /\ backfill' = TRUE
    /\ UNCHANGED <<listed, now, store, rowVars, worker, timerVars, queue,
                   stream, up>>

BackfillEnds ==
    /\ up /\ backfill
    /\ backfill' = FALSE
    /\ UNCHANGED <<listed, now, store, rowVars, worker, timerVars, queue,
                   stream, up, trouble>>

Watching == \E i \in DOMAIN queue : queue[i] = "watchdog"

\* The stall timeout passes over a row.  A row that gets old while a call of
\* the watchdog waits is not old to that call, so it can as well do so later.
Age(r) ==
    /\ status[r] = "REPAIRING" /\ r \notin old /\ ~Watching
    /\ old' = old \cup {r}
    /\ UNCHANGED <<listed, now, store, status, checkpoint, born, worker, timerVars,
                   queue, envVars, up, trouble>>

-----------------------------------------------------------------------------
(* Scans: GapService.scan and gapRepository.createMany. *)

\* missingRanges: the maximal stretches of lo .. hi without a stored candle.
MissingRanges(lo, hi) ==
    LET missing(m) == store[m] = "absent"
    IN  {r \in Ranges : /\ Span(r) \subseteq lo .. hi
                        /\ \A m \in Span(r) : missing(m)
                        /\ r[1] = lo \/ ~missing(r[1] - 1)
                        /\ r[2] = hi \/ ~missing(r[2] + 1)}

\* scan reads what is missing and queues the rows for it.
Scan(lo, hi) ==
    /\ up /\ found = {}
    /\ FutureScans \/ hi < now
    /\ MissingRanges(lo, hi) # {}
    /\ found' = MissingRanges(lo, hi)
    /\ queue' = Append(queue, "scan")
    /\ UNCHANGED <<listed, now, store, rowVars, worker, watchExcept, scans,
                   envVars, up, trouble>>

\* overlapsActiveGap.
OverlapsActive(r) ==
    \E q \in Ranges : status[q] \in Open /\ q[1] <= r[2] /\ q[2] >= r[1]

\* The rows are inserted, but for those that overlap an active gap and those
\* whose range has a row already: ON CONFLICT DO NOTHING.
InsertGaps ==
    /\ IsNext("scan") /\ queue' = Tail(queue)
    /\ LET new == {r \in found : ~OverlapsActive(r) /\ status[r] = "NONE"}
       IN  /\ status' = [r \in Ranges |-> IF r \in new THEN "DETECTED" ELSE status[r]]
           /\ born' = [r \in Ranges |-> IF r \in new THEN scans + 1 ELSE born[r]]
           /\ old' = old \cup new
           /\ scans' = IF new = {} THEN scans ELSE scans + 1
    /\ found' = {}
    /\ UNCHANGED <<listed, now, store, checkpoint, worker, watchExcept,
                   envVars, up, trouble>>

-----------------------------------------------------------------------------
(* GapRepairWorker.runOnce. *)

\* The worker goes on with w, and queues a write when w awaits one.
Goes(w) ==
    /\ worker' = w
    /\ UNCHANGED <<watchExcept, found, scans, envVars, up, listed, now>>

Settling(w, s) == [w EXCEPT !.pc = "settle", !.to = s]
Queues(who) == queue' = Append(queue, who)

\* A tick of the timer, or POST /api/gaps/repair, when nothing forbids it.
RunOnce ==
    /\ up /\ worker.pc = "idle" /\ ~backfill /\ stream = "steady"
    /\ Goes([Idle EXCEPT !.pc = "claim"]) /\ Queues("worker")
    /\ UNCHANGED <<store, rowVars, trouble>>

\* FailedOnly: a slip, the rows that wait are left out.
FailedOnly == {r \in Ranges : status[r] = "FAILED"}

Claimable == {r \in Ranges : status[r] \in {"DETECTED", "FAILED"}}

FirstPending(r) == r \in Claimable /\ \A q \in Claimable : born[r] <= born[q]

\* BeginsAgain: a slip, the checkpoint is not looked at.
BeginsAgain(r) == [Idle EXCEPT !.pc = "loop", !.gap = r, !.cursor = r[1]]

ClaimedGap(r) ==
    [Idle EXCEPT !.pc = "loop", !.gap = r,
                 !.cursor = IF checkpoint[r] = 0 THEN r[1] ELSE checkpoint[r] + 1]

\* claimNext: the oldest row that waits or failed; updated_at stays as it is.
ClaimGap ==
    /\ IsNext("worker") /\ worker.pc = "claim" /\ queue' = Tail(queue)
    /\ \/ \E r \in Claimable :
             /\ FirstPending(r)
             /\ status' = [status EXCEPT ![r] = "REPAIRING"]
             /\ Goes(ClaimedGap(r))
       \/ Claimable = {} /\ Goes(Idle) /\ UNCHANGED status
    /\ UNCHANGED <<store, checkpoint, born, old, trouble>>

\* The head of the loop.
\* StopsShort: a slip, >= for >.
StopsShort(cursor, end) == cursor >= end

Beyond(cursor, end) == cursor > end

LoopHead ==
    /\ up /\ worker.pc = "loop"
    /\ \/ /\ Beyond(worker.cursor, worker.gap[2])
          /\ Goes(Settling(worker, "REPAIRED")) /\ Queues("worker")
       \/ /\ ~Beyond(worker.cursor, worker.gap[2])
          /\ stream = "stale" \/ backfill
          /\ Goes(Settling(worker, "DETECTED")) /\ Queues("worker")
       \/ /\ ~Beyond(worker.cursor, worker.gap[2])
          /\ stream # "stale" /\ ~backfill
          /\ Goes([worker EXCEPT !.pc = "fetch"]) /\ UNCHANGED queue
    /\ UNCHANGED <<store, rowVars, trouble>>

\* The last minute a request asks for.
PageEnd(r, cursor) ==
    IF r[2] < cursor + PageSize - 1 THEN r[2] ELSE cursor + PageSize - 1

\* What the exchange answers: the candles it has, the open minute included.
Answer(from, upto) == {m \in listed : m \in from .. upto /\ m <= now}

\* The page arrives: candles to write, nothing, or an error after the
\* adapter's own retries.
Fetch ==
    /\ up /\ worker.pc = "fetch"
    /\ LET page == Answer(worker.cursor, PageEnd(worker.gap, worker.cursor))
       IN  \/ /\ \E last \in page :
                    /\ \A m \in page : m <= last
                    /\ Goes([worker EXCEPT !.pc = "write", !.batch = page, !.last = last,
                                           !.final = {m \in page : m < now}])
              /\ UNCHANGED trouble
           \/ /\ page = {}
              /\ Goes(Settling(worker, "REPAIRED"))
              /\ UNCHANGED trouble
           \/ /\ Trouble
              /\ Goes(Settling(worker, "FAILED"))
    /\ Queues("worker")
    /\ UNCHANGED <<store, rowVars>>

\* The minutes of the next transaction: batch.slice(offset, offset + size).
Chunk(batch) == {m \in batch : Cardinality({n \in batch : n < m}) < ChunkSize}

\* upsertMany: the candle read last replaces the one in the table.
WriteChunk ==
    /\ IsNext("worker") /\ worker.pc = "write" /\ queue' = Tail(queue)
    /\ store' = [m \in Minutes |->
                   IF m \notin Chunk(worker.batch) THEN store[m]
                   ELSE IF m \in worker.final THEN "final" ELSE "partial"]
    /\ Goes([worker EXCEPT !.pc = "written", !.batch = @ \ Chunk(@)])
    /\ UNCHANGED <<rowVars, trouble>>

\* Between two chunks and after the last one the stream has the right of way.
AfterChunk ==
    /\ up /\ worker.pc = "written"
    /\ \/ stream = "stale" /\ Goes(Settling(worker, "DETECTED"))
       \/ /\ stream # "stale"
          /\ Goes([worker EXCEPT !.pc = IF worker.batch = {} THEN "progress" ELSE "write"])
    /\ Queues("worker")
    /\ UNCHANGED <<store, rowVars, trouble>>

\* updateProgress, after the candles it speaks of.
\* PastLast: a slip, the checkpoint is the next minute.
PastLast(w) == w.last + 1

CheckpointOf(w) == w.last

SaveProgress ==
    /\ IsNext("worker") /\ worker.pc = "progress" /\ queue' = Tail(queue)
    /\ checkpoint' = [checkpoint EXCEPT ![worker.gap] = CheckpointOf(worker)]
    /\ old' = old \ {worker.gap}
    /\ Goes([worker EXCEPT !.pc = "loop", !.cursor = worker.last + 1])
    /\ UNCHANGED <<store, status, born, trouble>>

\* gapRepository.update; a repaired gap has its aggregates rebuilt, any other
\* end of the attempt ends runOnce.
Settle ==
    /\ IsNext("worker") /\ worker.pc = "settle" /\ queue' = Tail(queue)
    /\ status' = [status EXCEPT ![worker.gap] = worker.to]
    /\ old' = old \ {worker.gap}
    /\ Goes(IF worker.to = "REPAIRED" THEN [worker EXCEPT !.pc = "rebuild"] ELSE Idle)
    /\ UNCHANGED <<store, checkpoint, born, trouble>>

\* The incomplete aggregates of the range are rebuilt: to the end, until the
\* stream goes stale, which queues the gap again, or until one fails.
Rebuild ==
    /\ up /\ worker.pc = "rebuild"
    /\ \/ Goes(Idle) /\ UNCHANGED <<queue, trouble>>
       \/ /\ stream = "stale"
          /\ Goes(Settling(worker, "DETECTED")) /\ Queues("worker")
          /\ UNCHANGED trouble
       \/ /\ Trouble
          /\ Goes(Settling(worker, "FAILED")) /\ Queues("worker")
    /\ UNCHANGED <<store, rowVars>>

\* A write of the worker is rejected: without a gap the tick is over, with
\* one the catch block records the failure.
RejectWrite ==
    /\ IsNext("worker") /\ Trouble
    /\ ~(worker.pc = "settle" /\ worker.to = "FAILED")
    /\ IF worker.pc = "claim"
       THEN Goes(Idle) /\ queue' = Tail(queue)
       ELSE /\ Goes(Settling(worker, "FAILED"))
            /\ queue' = Append(Tail(queue), "worker")
    /\ UNCHANGED <<store, rowVars>>

-----------------------------------------------------------------------------
(* The watchdog, stops and starts. *)

\* The watchdog's call of failStalled: it spares the gap active now.
Watch ==
    /\ up /\ ~Watching
    /\ watchExcept' = worker.gap
    /\ Queues("watchdog")
    /\ UNCHANGED <<listed, now, store, rowVars, worker, found, scans, envVars, up, trouble>>

\* failStalled reaches the table.
FailStalled ==
    /\ IsNext("watchdog") /\ queue' = Tail(queue)
    /\ LET stalled == {r \in old \ {watchExcept} : status[r] = "REPAIRING"}
       IN  /\ status' = [r \in Ranges |-> IF r \in stalled THEN "FAILED" ELSE status[r]]
           /\ old' = old \ stalled
    /\ watchExcept' = NoGap
    /\ UNCHANGED <<listed, now, store, checkpoint, born, worker, found, scans,
                   envVars, up, trouble>>

\* The process stops at any point: asked to, killed, or because a rejected
\* promise of a timer's call has no handler.
Stop ==
    /\ up /\ Trouble
    /\ up' = FALSE /\ queue' = <<>> /\ found' = {} /\ watchExcept' = NoGap
    /\ worker' = Idle
    /\ stream' = "stale"
    /\ UNCHANGED <<listed, now, store, rowVars, scans, backfill>>

\* recoverInterrupted.
\* LeftAlone: a slip, nothing is recovered.
LeftAlone(s) == s

Recovered(s) == IF s = "REPAIRING" THEN "DETECTED" ELSE s

Start ==
    /\ ~up /\ up' = TRUE
    /\ status' = [r \in Ranges |-> Recovered(status[r])]
    /\ old' = {r \in old : status[r] # "REPAIRING"}
    /\ UNCHANGED <<listed, now, store, checkpoint, born, worker, timerVars, queue,
                   envVars, trouble>>

\* What the event loop runs, and what the writer runs.
LoopStep   == RunOnce \/ LoopHead \/ Fetch \/ AfterChunk \/ Rebuild
WriterStep == ClaimGap \/ WriteChunk \/ SaveProgress \/ Settle \/ InsertGaps \/ FailStalled

Next ==
    \/ Tick \/ LiveCandle \/ Freshen \/ GoStale \/ BackfillBegins \/ BackfillEnds
    \/ \E r \in Ranges : Age(r)
    \/ \E s \in ScanSpans : Scan(s[1], s[2])
    \/ Watch
    \/ LoopStep \/ WriterStep \/ RejectWrite
    \/ Stop \/ Start

Spec == Init /\ [][Next]_vars

\* The timers, the event loop and the writer run while the process is up, the
\* stream comes back and backfill jobs end.
FairSpec ==
    /\ Spec
    /\ WF_vars(LoopStep) /\ WF_vars(WriterStep)
    /\ WF_vars(Freshen) /\ WF_vars(BackfillEnds)

-----------------------------------------------------------------------------

\* The one-minute candles of the table are final, as the documentation has it
\* of the canonical source.  It fails once a scan reaches the open minute: the
\* repair writes the page as it comes, and marks all of it closed.
CanonicalClosed == \A m \in Minutes : store[m] # "partial"

\* A checkpoint is behind the candles it speaks of, at every moment: what the
\* exchange has of the gap up to there is stored, and a restart loses nothing.
CheckpointStored ==
    \A r \in Ranges : \A m \in listed :
        m \in r[1] .. checkpoint[r] => store[m] # "absent"

\* A gap is REPAIRED only when everything the exchange has of it is stored.
RepairedIsStored ==
    \A r \in Ranges : status[r] = "REPAIRED" =>
        \A m \in listed \cap Span(r) : store[m] # "absent"

\* While the process is up a gap in repair is in the hands of the worker: no
\* path through errors, deferrals, the watchdog or a restart leaves one
\* behind that claimNext would never take up again.
NoAbandonedRepair ==
    up => \A r \in Ranges : status[r] = "REPAIRING" => worker.gap = r

\* Missing minutes trigger repair: when a scan reaches the table, whatever it
\* found missing and still is missing meets a gap that is to be repaired.
MissingTriggersRepair ==
    [][InsertGaps =>
         \A r \in found : (\A m \in Span(r) : store[m] = "absent") =>
             \E q \in Ranges : status'[q] \in Open /\ Span(q) \cap Span(r) # {}]_vars

\* Gaps are checkpointed downloads: over deferrals, failures, stalls, restarts
\* and the scans that run meanwhile a checkpoint never moves back, nor over
\* candles that no earlier write has committed, and what a recorded gap owes
\* stays the same.
Owed(r) == IF status[r] = "NONE" THEN {} ELSE listed \cap Span(r)

Download == INSTANCE CheckpointedDownload WITH
    Tasks <- Ranges, stored <- {m \in Minutes : store[m] # "absent"},
    owed <- [r \in Ranges |-> Owed(r)]

DownloadSpec == Download!Spec

\* A recorded gap is repaired in the end: whatever the stream, the backfill
\* jobs, the watchdog, failures and other gaps do, the worker comes back to it.
RecordedIsRepaired ==
    \A r \in Ranges : status[r] = "DETECTED" ~> status[r] = "REPAIRED" \/ ~up

=============================================================================
