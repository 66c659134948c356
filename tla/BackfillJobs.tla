---------------------------- MODULE BackfillJobs ----------------------------
(***************************************************************************)
(* The historical downloads: jobs the API creates, pauses, cancels and     *)
(* retries, and the one worker that claims them in turn, downloads a job's *)
(* minutes page by page, commits them in chunks, then the checkpoint, and  *)
(* at the end has the whole span scanned for gaps.                         *)
(*                                                                         *)
(* A minute is a number; the minute now is still open.  Writes of jobs     *)
(* have priority 4 and wait in the order they were asked for, candles have *)
(* priority 5 and are written when no write of priority 4 waits.           *)
(***************************************************************************)
EXTENDS Integers, Sequences, FiniteSets

CONSTANTS
    LastMinute,   \* bound: the minutes are 1 .. LastMinute
    PageSize,     \* candles a request asks for at most
    ChunkSize,    \* candles written in one transaction
    ListedSets,   \* the sets of minutes the exchange may have candles of
    Ends,         \* the last minutes a job may ask for, 0 for "until now"
    MaxJobs,      \* bound: jobs ever created
    MaxRequests,  \* bound: requests to create, pause, cancel or retry a job
    MaxTrouble    \* bound: failed requests, rejected writes and stops

Minutes == 1 .. LastMinute
Jobs    == 1 .. MaxJobs   \* in the order of their creation

ASSUME BackfillAssumption ==
    /\ {LastMinute, PageSize, ChunkSize} \subseteq Nat \ {0}
    /\ ListedSets \subseteq SUBSET Minutes
    /\ Ends \subseteq 0 .. LastMinute
    /\ {MaxJobs, MaxRequests, MaxTrouble} \subseteq Nat

VARIABLES
    listed,    \* the minutes the exchange has candles of, once they open
    now,       \* the open minute
    store,     \* table candles: the minutes stored
    reported,  \* the missing minutes that scans of finished jobs reported
    row,       \* table backfill_jobs
    old,       \* jobs not updated for longer than the watchdog's 120 s
    worker,    \* the call of runOnce
    queue,     \* the waiting writes of priority 4, oldest first
    up,        \* whether the process is up
    requests, trouble  \* bounded events so far

vars == <<listed, now, store, reported, row, old, worker, queue, up, requests, trouble>>

Statuses == {"NONE", "PENDING", "RUNNING", "PAUSED", "CANCELLING", "CANCELLED",
             "COMPLETED", "FAILED"}
Active   == {"PENDING", "RUNNING", "CANCELLING"}   \* hasActive
Held     == {"RUNNING", "CANCELLING"}

NoJob == 0
NoRow == [status |-> "NONE", cancel |-> FALSE, checkpoint |-> 0, end |-> 0, born |-> 0]
Idle  == [pc |-> "idle", job |-> NoJob, cursor |-> 0, target |-> 0,
          batch |-> {}, mark |-> 0, to |-> "NONE"]

\* The writes of priority 4: of the worker, of the watchdog, of the API.
Requests == {"pause", "cancel", "retry"}
Writes   == {<<"worker", NoJob>>, <<"watchdog", NoJob>>} \cup (Requests \X Jobs)

TypeOK ==
    /\ listed \in ListedSets /\ now \in 1 .. LastMinute + 1
    /\ store \subseteq listed /\ reported \subseteq Minutes
    /\ row \in [Jobs -> [status : Statuses, cancel : BOOLEAN,
                         checkpoint : 0 .. LastMinute, end : Ends \cup {0},
                         born : 0 .. LastMinute + 1]]
    /\ old \subseteq Jobs
    /\ worker \in [pc : {"idle", "claim", "loop", "fetch", "write", "progress",
                         "scan", "rebuild", "settle"},
                   job : Jobs \cup {NoJob}, cursor : 0 .. LastMinute + 1,
                   target : 0 .. LastMinute, batch : SUBSET Minutes,
                   mark : 0 .. LastMinute, to : Statuses]
    /\ queue \in Seq(Writes) /\ up \in BOOLEAN
    /\ requests \in 0 .. MaxRequests /\ trouble \in 0 .. MaxTrouble

Init ==
    /\ listed \in ListedSets /\ now = LastMinute /\ store = {} /\ reported = {}
    /\ row = [j \in Jobs |-> NoRow] /\ old = {}
    /\ worker = Idle /\ queue = <<>> /\ up = TRUE
    /\ requests = 0 /\ trouble = 0

Trouble == trouble < MaxTrouble /\ trouble' = trouble + 1

IsNext(w) == up /\ queue # <<>> /\ Head(queue) = w
WorkerWrites == <<"worker", NoJob>>
Watchdog == <<"watchdog", NoJob>>

SetStatus(j, s) == row' = [row EXCEPT ![j].status = s] /\ old' = old \ {j}

-----------------------------------------------------------------------------
(* The exchange and the operator. *)

Tick ==
    /\ now <= LastMinute /\ now' = now + 1
    /\ UNCHANGED <<listed, store, reported, row, old, worker, queue, up, requests, trouble>>

\* BackfillWorker.create.
Create(j, end) ==
    /\ up /\ row[j].status = "NONE"
    /\ \A i \in Jobs : i < j => row[i].status # "NONE"
    /\ requests < MaxRequests /\ requests' = requests + 1
    /\ row' = [row EXCEPT ![j] = [NoRow EXCEPT !.status = "PENDING", !.end = end, !.born = now]]
    /\ UNCHANGED <<listed, now, store, reported, old, worker, queue, up, trouble>>

\* A request to pause, cancel or retry a job, in whatever state the job is.
Ask(what, j) ==
    /\ up /\ row[j].status # "NONE"
    /\ requests < MaxRequests /\ requests' = requests + 1
    /\ queue' = Append(queue, <<what, j>>)
    /\ UNCHANGED <<listed, now, store, reported, row, old, worker, up, trouble>>

\* The row after a request; none of them looks at the row before.
Requested(r, what) ==
    CASE what = "pause"  -> [r EXCEPT !.status = "PAUSED"]
      [] what = "cancel" -> [r EXCEPT !.status = "CANCELLING", !.cancel = TRUE]
      [] what = "retry"  -> [r EXCEPT !.status = "PENDING", !.cancel = FALSE]

Answer(what, j) ==
    /\ IsNext(<<what, j>>) /\ queue' = Tail(queue)
    /\ row' = [row EXCEPT ![j] = Requested(@, what)]
    /\ old' = old \ {j}
    /\ UNCHANGED <<listed, now, store, reported, worker, up, requests, trouble>>

-----------------------------------------------------------------------------
(* BackfillWorker.runOnce and process. *)

Goes(w) ==
    /\ worker' = w
    /\ UNCHANGED <<listed, now, up, requests>>

Settling(w, s) == [w EXCEPT !.pc = "settle", !.to = s]
QueueWrite == queue' = Append(queue, WorkerWrites)
WriteDone  == IsNext(WorkerWrites) /\ queue' = Tail(queue)

RunOnce ==
    /\ up /\ worker.pc = "idle"
    /\ Goes([Idle EXCEPT !.pc = "claim"]) /\ QueueWrite
    /\ UNCHANGED <<store, reported, row, old, trouble>>

Pending == {j \in Jobs : row[j].status = "PENDING"}

\* FromStart: a slip, every attempt begins again.
FromStart(r) == 1

ResumeAt(r) == IF r.checkpoint = 0 THEN 1 ELSE r.checkpoint + 1

\* PastEnd: a slip, an end that is exclusive.
PastEnd(r) == IF r.end = 0 THEN now ELSE r.end + 1

Target(r) == IF r.end = 0 THEN now - 1 ELSE r.end

\* claimNext, and the first lines of process.
ClaimJob ==
    /\ WriteDone /\ worker.pc = "claim"
    /\ \/ \E j \in Pending :
             /\ \A i \in Pending : j <= i
             /\ SetStatus(j, "RUNNING")
             /\ Goes([Idle EXCEPT !.pc = "loop", !.job = j,
                                  !.cursor = ResumeAt(row[j]), !.target = Target(row[j])])
       \/ Pending = {} /\ Goes(Idle) /\ UNCHANGED <<row, old>>
    /\ UNCHANGED <<store, reported, trouble>>

Stopped(r) == r.cancel \/ r.status = "CANCELLING"

\* The head of the loop: done, cancelled, taken away, or one more page.
LoopHead ==
    /\ up /\ worker.pc = "loop"
    /\ LET r == row[worker.job]
       IN  \/ /\ worker.cursor > worker.target
              /\ Goes([worker EXCEPT !.pc = "scan"]) /\ UNCHANGED queue
           \/ /\ worker.cursor <= worker.target /\ Stopped(r)
              /\ Goes(Settling(worker, "CANCELLED")) /\ QueueWrite
           \/ /\ worker.cursor <= worker.target /\ ~Stopped(r) /\ r.status # "RUNNING"
              /\ Goes(Idle) /\ UNCHANGED queue
           \/ /\ worker.cursor <= worker.target /\ ~Stopped(r) /\ r.status = "RUNNING"
              /\ Goes([worker EXCEPT !.pc = "fetch"]) /\ UNCHANGED queue
    /\ UNCHANGED <<store, reported, row, old, trouble>>

PageEnd(w) == IF w.target < w.cursor + PageSize - 1 THEN w.target ELSE w.cursor + PageSize - 1

\* A page arrives, without what is still open: candles to commit, or nothing
\* up to the end of the page, or an error.
Fetch ==
    /\ up /\ worker.pc = "fetch"
    /\ LET page == {m \in listed : m \in worker.cursor .. PageEnd(worker) /\ m < now}
       IN  \/ /\ \E last \in page :
                    /\ \A m \in page : m <= last
                    /\ Goes([worker EXCEPT !.pc = "write", !.batch = page, !.mark = last])
              /\ UNCHANGED <<queue, trouble>>
           \/ /\ page = {}
              /\ Goes([worker EXCEPT !.pc = "progress", !.mark = PageEnd(worker)])
              /\ QueueWrite /\ UNCHANGED trouble
           \/ /\ Trouble
              /\ Goes(Settling(worker, "FAILED")) /\ QueueWrite
    /\ UNCHANGED <<store, reported, row, old>>

Chunk(batch) == {m \in batch : Cardinality({n \in batch : n < m}) < ChunkSize}

\* One chunk is committed; after the last one the checkpoint is due.
WriteChunk ==
    /\ up /\ worker.pc = "write" /\ queue = <<>>
    /\ LET rest == worker.batch \ Chunk(worker.batch)
       IN  /\ store' = store \cup Chunk(worker.batch)
           /\ \/ /\ rest # {} /\ Goes([worker EXCEPT !.batch = rest])
                 /\ UNCHANGED queue
              \/ /\ rest = {} /\ Goes([worker EXCEPT !.batch = {}, !.pc = "progress"])
                 /\ QueueWrite
    /\ UNCHANGED <<reported, row, old, trouble>>

SaveProgress ==
    /\ WriteDone /\ worker.pc = "progress"
    /\ row' = [row EXCEPT ![worker.job].checkpoint = worker.mark]
    /\ old' = old \ {worker.job}
    /\ Goes([worker EXCEPT !.pc = "loop", !.cursor = worker.mark + 1])
    /\ UNCHANGED <<store, reported, trouble>>

\* The closing scan of the span from the start of the job to its target.
\* ScanFromCursor: a slip, the cursor has moved on since the start.
ScanFromCursor(w) == {m \in Minutes : m \in w.cursor .. w.target} \ store

MissingIn(w) == {m \in Minutes : m <= w.target} \ store

ScanGaps ==
    /\ up /\ worker.pc = "scan"
    /\ \/ /\ reported' = reported \cup MissingIn(worker)
          /\ Goes([worker EXCEPT !.pc = "rebuild"])
          /\ UNCHANGED <<queue, trouble>>
       \/ /\ Trouble /\ UNCHANGED reported
          /\ Goes(Settling(worker, "FAILED")) /\ QueueWrite
    /\ UNCHANGED <<store, row, old>>

\* The aggregates are rebuilt, or that fails.
Finish ==
    /\ up /\ worker.pc = "rebuild"
    /\ \/ Goes(Settling(worker, "COMPLETED")) /\ UNCHANGED trouble
       \/ Trouble /\ Goes(Settling(worker, "FAILED"))
    /\ QueueWrite
    /\ UNCHANGED <<store, reported, row, old>>

\* While it lasts, the finalization touches the row every 30 s.
Heartbeat ==
    /\ up /\ worker.pc \in {"scan", "rebuild"} /\ worker.job \in old
    /\ old' = old \ {worker.job}
    /\ UNCHANGED <<listed, now, store, reported, row, worker, queue, up, requests, trouble>>

\* The end of the attempt is recorded, whatever the row says by now.
Settle ==
    /\ WriteDone /\ worker.pc = "settle"
    /\ SetStatus(worker.job, worker.to)
    /\ Goes(Idle)
    /\ UNCHANGED <<store, reported, trouble>>

\* A write is rejected: the catch block records the failure.  Nothing catches
\* the rejection of the claim or of that record: then the process stops.
RejectWrite ==
    /\ up /\ Trouble
    /\ \/ worker.pc = "write" /\ queue = <<>> /\ queue' = <<WorkerWrites>>
       \/ /\ IsNext(WorkerWrites) /\ worker.pc # "claim"
          /\ ~(worker.pc = "settle" /\ worker.to = "FAILED")
          /\ queue' = Append(Tail(queue), WorkerWrites)
    /\ Goes(Settling(worker, "FAILED"))
    /\ UNCHANGED <<store, reported, row, old>>

-----------------------------------------------------------------------------
(* The watchdog, stops and starts. *)

Watching == \E i \in DOMAIN queue : queue[i] = Watchdog

\* 120 s pass since the last update of a job; of one in finalization only if
\* its heartbeats fail.  A job that gets old while a call of the watchdog
\* waits is not old to that call.
Age(j) ==
    /\ row[j].status \in Held /\ j \notin old /\ ~Watching
    /\ IF worker.job = j /\ worker.pc \in {"scan", "rebuild"} THEN Trouble ELSE UNCHANGED trouble
    /\ old' = old \cup {j}
    /\ UNCHANGED <<listed, now, store, reported, row, worker, queue, up, requests>>

Watch ==
    /\ up /\ ~Watching /\ old # {}
    /\ queue' = Append(queue, Watchdog)
    /\ UNCHANGED <<listed, now, store, reported, row, old, worker, up, requests, trouble>>

\* RunningOnly: a slip, a cancellation cannot stall.
RunningOnly(s) == s = "RUNNING"

CanStall(s) == s \in Held

FailStalled ==
    /\ IsNext(Watchdog) /\ queue' = Tail(queue)
    /\ row' = [j \in Jobs |-> IF j \in old /\ CanStall(row[j].status)
                              THEN [row[j] EXCEPT !.status = "FAILED"] ELSE row[j]]
    /\ old' = {j \in old : ~CanStall(row[j].status)}
    /\ UNCHANGED <<listed, now, store, reported, worker, up, requests, trouble>>

Stop ==
    /\ up /\ Trouble /\ up' = FALSE
    /\ worker' = Idle /\ queue' = <<>>
    /\ UNCHANGED <<listed, now, store, reported, row, old, requests>>

\* recoverInterrupted.
\* CancellingOnly: a slip, a running job is left as it is.
CancellingOnly(s) == IF s = "CANCELLING" THEN "PENDING" ELSE s

Recovered(s) == IF s \in Held THEN "PENDING" ELSE s

Start ==
    /\ ~up /\ up' = TRUE
    /\ row' = [j \in Jobs |-> [row[j] EXCEPT !.status = Recovered(@)]]
    /\ old' = {j \in old : row[j].status \notin Held}
    /\ UNCHANGED <<listed, now, store, reported, worker, queue, requests, trouble>>

\* What the event loop runs, and what the writer runs.
LoopStep == RunOnce \/ LoopHead \/ Fetch \/ ScanGaps \/ Finish
WriterStep ==
    \/ ClaimJob \/ WriteChunk \/ SaveProgress \/ Settle \/ FailStalled
    \/ \E what \in Requests, j \in Jobs : Answer(what, j)

Next ==
    \/ Tick
    \/ \E j \in Jobs, end \in Ends : Create(j, end)
    \/ \E what \in Requests, j \in Jobs : Ask(what, j)
    \/ LoopStep \/ WriterStep \/ Heartbeat \/ RejectWrite
    \/ (\E j \in Jobs : Age(j)) \/ Watch
    \/ Stop \/ Start

Spec == Init /\ [][Next]_vars

\* The event loop, the writer and the watchdog's timer run while the process
\* is up, and time passes.
FairSpec ==
    /\ Spec
    /\ WF_vars(LoopStep) /\ WF_vars(WriterStep)
    /\ WF_vars(Watch) /\ WF_vars(\E j \in Jobs : Age(j))

-----------------------------------------------------------------------------

\* A checkpoint speaks of committed candles: whatever was closed when the job
\* was created, is offered by the exchange and lies behind the checkpoint is
\* in the table, through chunks, failures, retries and restarts.
CheckpointStored ==
    \A j \in Jobs : \A m \in listed :
        (m <= row[j].checkpoint /\ m < row[j].born) => m \in store

\* A completed job accounts for its whole span: what the exchange has of it is
\* stored, or was reported to the gap repair, be it still to come.
CompletedAccounted ==
    \A j \in Jobs : row[j].status = "COMPLETED" =>
        \A m \in listed : (m <= row[j].end \/ (row[j].end = 0 /\ m < row[j].born))
                          => m \in store \cup reported

\* A job is RUNNING only in the hands of the worker: no pause, retry, restart,
\* failure or stall leaves one behind that nobody works at and claimNext does
\* not see.
SoleRunner ==
    up => \A j \in Jobs : row[j].status = "RUNNING" => worker.job = j

\* Jobs are checkpointed downloads: a checkpoint never moves back, whatever is
\* paused, retried, failed, stalled or restarted meanwhile and whichever attempt
\* writes it, nor over candles that no earlier write has committed, and what a
\* job owes (of its span, what was closed when it was created) stays the same.
Owed(r) == {m \in listed : m < r.born /\ (r.end = 0 \/ m <= r.end)}

Download == INSTANCE CheckpointedDownload WITH
    Tasks <- Jobs, stored <- store, owed <- [j \in Jobs |-> Owed(row[j])],
    checkpoint <- [j \in Jobs |-> row[j].checkpoint]

DownloadSpec == Download!Spec

\* Every active job comes to rest, so that gap repair and reconciliation, which
\* wait while any job is active, get their turn.
ActiveEnds ==
    \A j \in Jobs : row[j].status \in Active ~> (row[j].status \notin Active \/ ~up)

=============================================================================
