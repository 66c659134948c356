------------------------- MODULE BackfillJobsProofs -------------------------
(***************************************************************************)
(* Proofs about BackfillJobs, for every number of jobs, requests and       *)
(* disturbances, every page and chunk size, and every set of minutes the   *)
(* exchange may have.                                                      *)
(***************************************************************************)
EXTENDS BackfillJobs, FiniteSetTheorems, SequenceTheorems, TLAPS

-----------------------------------------------------------------------------
(* Types.                                                                  *)

RowType == [status : Statuses, cancel : BOOLEAN, checkpoint : 0 .. LastMinute,
            end : Ends \cup {0}, born : 0 .. LastMinute + 1]

PCs == {"idle", "claim", "loop", "fetch", "write", "progress", "scan", "rebuild", "settle"}

WorkerType == [pc : PCs, job : Jobs \cup {NoJob}, cursor : 0 .. LastMinute + 1,
               target : 0 .. LastMinute, batch : SUBSET Minutes,
               mark : 0 .. LastMinute, to : Statuses]

LEMMA TypeParts ==
  ASSUME TypeOK
  PROVE  /\ row \in [Jobs -> RowType] /\ \A j \in Jobs : row[j] \in RowType
         /\ worker \in WorkerType
         /\ listed \subseteq Minutes /\ store \subseteq listed
         /\ now \in 1 .. LastMinute + 1 /\ LastMinute \in Nat
  BY BackfillAssumption DEF TypeOK, RowType, WorkerType, PCs

\* The bounds as numbers, and a job is not the number of none.
LEMMA Bounds ==
  /\ LastMinute \in Nat \ {0} /\ PageSize \in Nat \ {0} /\ ChunkSize \in Nat \ {0}
  /\ MaxJobs \in Nat /\ MaxRequests \in Nat /\ MaxTrouble \in Nat
  /\ \A e \in Ends : e \in 0 .. LastMinute
  /\ NoJob \notin Jobs
  BY BackfillAssumption DEF Jobs, NoJob

LEMMA IdleType == Idle \in WorkerType /\ Idle.pc = "idle" /\ Idle.job = NoJob /\ Idle.batch = {}
  BY Bounds DEF Idle, WorkerType, PCs, Statuses

LEMMA NoRowType == NoRow \in RowType
  BY Bounds DEF NoRow, RowType, Statuses

\* What the worker's next record is, action by action.
LEMMA PageEndType ==
  ASSUME NEW w \in WorkerType
  PROVE  /\ PageEnd(w) \in 0 .. LastMinute /\ PageEnd(w) <= w.target
         /\ w.cursor <= w.target => w.cursor <= PageEnd(w)
  BY Bounds DEF PageEnd, WorkerType

-----------------------------------------------------------------------------
(* The invariant.                                                          *)

\* What was closed when a job was created and the exchange has, up to a minute,
\* is among the given ones.
Has(r, upto, minutes) == \A m \in listed : (m <= upto /\ m < r.born) => m \in minutes

\* The target of an attempt is not before what the job is answerable for.
Covers(r, target) == IF r.end = 0 THEN r.born - 1 <= target ELSE r.end <= target

Scanned(w) == w.pc = "rebuild" \/ (w.pc = "settle" /\ w.to = "COMPLETED")

\* What the worker relies on when it continues after an await.
WorkerOK(w) ==
    /\ w.pc \in {"idle", "claim"} => w.job = NoJob
    /\ w.pc = "settle" => w.to \in {"CANCELLED", "COMPLETED", "FAILED"}
    /\ w.batch \subseteq listed
    /\ w.job # NoJob =>
         /\ row[w.job].status # "NONE" /\ Covers(row[w.job], w.target)
         /\ Has(row[w.job], w.cursor - 1, store)
         /\ w.pc = "write" => Has(row[w.job], w.mark, store \cup w.batch)
         /\ w.pc = "progress" => Has(row[w.job], w.mark, store)
    /\ Scanned(w) => \A m \in listed : m <= w.target => m \in store \cup reported

BornInv == \A j \in Jobs : row[j].born <= now

Inv ==
    /\ TypeOK /\ BornInv /\ WorkerOK(worker)
    /\ CheckpointStored /\ CompletedAccounted /\ SoleRunner

LEMMA InitInv == ASSUME Init PROVE Inv
<1>1. TypeOK
  <2>1. row \in [Jobs -> RowType]
    BY NoRowType DEF Init
  <2>2. worker \in WorkerType /\ queue \in Seq(Writes)
    BY IdleType DEF Init
  <2> QED
    BY <2>1, <2>2, Bounds DEF Init, TypeOK, RowType, WorkerType, PCs
<1>2. \A j \in Jobs : row[j].status = "NONE" /\ row[j].checkpoint = 0 /\ row[j].born = 0
  BY DEF Init, NoRow
<1>3. BornInv /\ CompletedAccounted /\ SoleRunner
  BY <1>2, Bounds DEF BornInv, CompletedAccounted, SoleRunner, Init
<1>4. CheckpointStored
  BY <1>1, <1>2, TypeParts, Bounds DEF CheckpointStored, Minutes
<1>5. WorkerOK(worker)
  BY DEF Init, Idle, WorkerOK, Scanned
<1> QED
  BY <1>1, <1>3, <1>4, <1>5 DEF Inv

-----------------------------------------------------------------------------
(* What no step ever does: lose a candle or a report, forget a job, or     *)
(* change what it is answerable for.                                       *)

Keeps ==
    /\ listed' = listed /\ now <= now'
    /\ store \subseteq store' /\ reported \subseteq reported'
    /\ \A j \in Jobs : row[j].status # "NONE" =>
         row'[j].status # "NONE" /\ row'[j].end = row[j].end /\ row'[j].born = row[j].born

\* What the worker relies on survives the steps of all others.
LEMMA WorkerFrame ==
  ASSUME TypeOK, Keeps, NEW w \in WorkerType, WorkerOK(w)
  PROVE  WorkerOK(w)'
<1>1. listed' = listed /\ store \subseteq store' /\ reported \subseteq reported'
  BY DEF Keeps
<1>2. ASSUME w.job # NoJob
      PROVE  /\ row'[w.job].status # "NONE" /\ row'[w.job].end = row[w.job].end
             /\ row'[w.job].born = row[w.job].born
  BY <1>2 DEF WorkerOK, WorkerType, Keeps
<1> QED
  BY <1>1, <1>2 DEF WorkerOK, Has, Covers, Scanned

\* Rows whose checkpoint, and whose completion, is not new.
LEMMA RowsFrame ==
  ASSUME Inv, Keeps, now' \in Int, listed' \subseteq Minutes,
         \A j \in Jobs : \/ /\ row'[j].born = row[j].born /\ row'[j].end = row[j].end
                            /\ row'[j].checkpoint = row[j].checkpoint
                            /\ row'[j].status = "COMPLETED" => row[j].status = "COMPLETED"
                         \/ /\ row'[j].born <= now' /\ row'[j].checkpoint = 0
                            /\ row'[j].status # "COMPLETED"
  PROVE  BornInv' /\ CheckpointStored' /\ CompletedAccounted'
<1>1. TypeOK /\ BornInv /\ CheckpointStored /\ CompletedAccounted
  BY DEF Inv
<1>2. now \in Int /\ \A j \in Jobs : row[j].born \in Int
  BY <1>1, TypeParts DEF RowType
<1>3. BornInv'
  BY <1>1, <1>2 DEF BornInv, Keeps
<1>4. CheckpointStored'
  BY <1>1 DEF CheckpointStored, Keeps, Minutes
<1>5. CompletedAccounted'
  BY <1>1 DEF CompletedAccounted, Keeps
<1> QED
  BY <1>3, <1>4, <1>5

\* The worker goes on to w, and no row changes.
LEMMA WorkerMoves ==
  ASSUME Inv, TypeOK', Keeps, row' = row, up' = up, NEW w \in WorkerType, worker' = w,
         w.job = worker.job, WorkerOK(w)'
  PROVE  Inv'
<1>1. BornInv' /\ CheckpointStored' /\ CompletedAccounted'
  <2>1. now' \in Int /\ listed' \subseteq Minutes
    BY BackfillAssumption DEF TypeOK
  <2> QED
    BY <2>1, RowsFrame
<1>2. SoleRunner'
  BY DEF Inv, SoleRunner
<1> QED
  BY <1>1, <1>2 DEF Inv

\* The rows change, and the worker stays where it is.
LEMMA RowsMove ==
  ASSUME Inv, TypeOK', Keeps, worker' = worker,
         up' => up \/ \A j \in Jobs : row'[j].status # "RUNNING",
         \A j \in Jobs : row'[j].status = "RUNNING" => row[j].status = "RUNNING",
         \A j \in Jobs : \/ /\ row'[j].born = row[j].born /\ row'[j].end = row[j].end
                            /\ row'[j].checkpoint = row[j].checkpoint
                            /\ row'[j].status = "COMPLETED" => row[j].status = "COMPLETED"
                         \/ /\ row'[j].born <= now' /\ row'[j].checkpoint = 0
                            /\ row'[j].status # "COMPLETED"
  PROVE  Inv'
<1>1. BornInv' /\ CheckpointStored' /\ CompletedAccounted'
  <2>1. now' \in Int /\ listed' \subseteq Minutes
    BY BackfillAssumption DEF TypeOK
  <2> QED
    BY <2>1, RowsFrame
<1>2. WorkerOK(worker)'
  <2>1. PICK w \in WorkerType : w = worker
    BY TypeParts DEF Inv
  <2>2. WorkerOK(w)'
    BY <2>1, WorkerFrame DEF Inv
  <2> QED
    BY <2>1, <2>2
<1>3. SoleRunner'
  BY DEF Inv, SoleRunner
<1> QED
  BY <1>1, <1>2, <1>3 DEF Inv

LEMMA QueueTypes ==
  ASSUME queue \in Seq(Writes)
  PROVE  /\ \A x \in Writes : Append(queue, x) \in Seq(Writes)
         /\ queue # <<>> => Tail(queue) \in Seq(Writes)
         /\ <<WorkerWrites>> \in Seq(Writes)
         /\ WorkerWrites \in Writes /\ Watchdog \in Writes
         /\ \A what \in Requests, j \in Jobs : <<what, j>> \in Writes
<1>1. WorkerWrites \in Writes /\ Watchdog \in Writes
  BY DEF Writes, WorkerWrites, Watchdog
<1> QED
  BY <1>1 DEF Writes

LEMMA TroubleType ==
  ASSUME TypeOK, Trouble \/ UNCHANGED trouble
  PROVE  trouble' \in 0 .. MaxTrouble
  BY Bounds DEF TypeOK, Trouble

-----------------------------------------------------------------------------
(* Steps of the environment, and stutters.                                 *)

LEMMA TickStep == ASSUME Inv, Tick PROVE Inv'
<1>1. TypeOK /\ now \in 1 .. LastMinute + 1
  BY DEF Inv, TypeOK
<1>2. TypeOK'
  BY <1>1, Bounds DEF Tick, TypeOK
<1>3. Keeps
  BY <1>1 DEF Tick, Keeps
<1> QED
  BY <1>1, <1>2, <1>3, RowsFrame, RowsMove, Bounds DEF Tick

\* Nothing but the queue, the rows' ages and the counters change.
LEMMA AsideStep ==
  ASSUME Inv, UNCHANGED <<listed, now, store, reported, row, worker, up>>,
         old' \subseteq Jobs, queue' \in Seq(Writes), requests' \in 0 .. MaxRequests,
         trouble' \in 0 .. MaxTrouble
  PROVE  Inv'
<1>1. TypeOK'
  BY DEF Inv, TypeOK
<1>2. Keeps
  BY TypeParts DEF Inv, Keeps
<1> QED
  BY <1>1, <1>2, RowsMove

LEMMA AsideSteps ==
  ASSUME Inv,
         \/ \E what \in Requests, j \in Jobs : Ask(what, j)
         \/ Heartbeat \/ Watch \/ (\E j \in Jobs : Age(j)) \/ UNCHANGED vars
  PROVE  Inv'
<1>1. /\ TypeOK /\ queue \in Seq(Writes) /\ old \subseteq Jobs
      /\ requests \in 0 .. MaxRequests /\ trouble \in 0 .. MaxTrouble
  BY DEF Inv, TypeOK
<1>2. CASE \E what \in Requests, j \in Jobs : Ask(what, j)
  <2>1. PICK what \in Requests, j \in Jobs : Ask(what, j)
    BY <1>2
  <2>2. <<what, j>> \in Writes
    BY <1>1, QueueTypes
  <2>3. queue' \in Seq(Writes) /\ requests' \in 0 .. MaxRequests
    BY <1>1, <2>1, <2>2, Bounds DEF Ask
  <2> QED
    BY <1>1, <2>1, <2>3, AsideStep DEF Ask
<1>3. CASE Heartbeat
  BY <1>1, <1>3, AsideStep DEF Heartbeat
<1>4. CASE Watch
  <2>1. queue' \in Seq(Writes)
    BY <1>1, <1>4, QueueTypes DEF Watch
  <2> QED
    BY <1>1, <1>4, <2>1, AsideStep DEF Watch
<1>5. CASE \E j \in Jobs : Age(j)
  <2>1. PICK j \in Jobs : Age(j)
    BY <1>5
  <2>2. trouble' \in 0 .. MaxTrouble
    BY <1>1, <2>1, TroubleType DEF Age
  <2> QED
    BY <1>1, <2>1, <2>2, AsideStep DEF Age
<1>6. CASE UNCHANGED vars
  BY <1>1, <1>6, AsideStep DEF vars
<1> QED
  BY <1>2, <1>3, <1>4, <1>5, <1>6

-----------------------------------------------------------------------------
(* Requests, watchdog, stops and starts.                                   *)

LEMMA CreateStep ==
  ASSUME Inv, NEW j \in Jobs, NEW end \in Ends, Create(j, end)
  PROVE  Inv'
<1>1. TypeOK /\ now \in 1 .. LastMinute + 1 /\ row \in [Jobs -> RowType]
  BY TypeParts DEF Inv
<1>2. PICK r : r = [NoRow EXCEPT !.status = "PENDING", !.end = end, !.born = now]
  OBVIOUS
<1>3. /\ r \in RowType /\ r.status = "PENDING" /\ r.end = end /\ r.born = now
      /\ r.checkpoint = 0
  <2>1. r = [status |-> "PENDING", cancel |-> FALSE, checkpoint |-> 0, end |-> end, born |-> now]
    BY <1>2 DEF NoRow
  <2>2. 0 \in 0 .. LastMinute /\ now \in 0 .. LastMinute + 1
    BY <1>1, Bounds
  <2> QED
    BY <2>1, <2>2 DEF RowType, Statuses
<1>4. row' = [row EXCEPT ![j] = r] /\ row[j].status = "NONE"
  BY <1>2 DEF Create
<1>5. row' \in [Jobs -> RowType] /\ \A i \in Jobs : row'[i] = IF i = j THEN r ELSE row[i]
  BY <1>1, <1>3, <1>4
<1>6. TypeOK'
  <2>1. requests < MaxRequests /\ requests' = requests + 1
    BY DEF Create
  <2>2. requests \in 0 .. MaxRequests
    BY <1>1 DEF TypeOK
  <2>3. requests' \in 0 .. MaxRequests
    BY <2>1, <2>2, Bounds
  <2> QED
    BY <1>1, <1>5, <2>3 DEF Create, TypeOK, RowType
<1>7. Keeps
  BY <1>1, <1>4, <1>5 DEF Create, Keeps
<1>8. worker' = worker /\ (up' => up) /\ now' = now
  BY DEF Create
<1>9. \A i \in Jobs : row'[i].status = "RUNNING" => row[i].status = "RUNNING"
  BY <1>3, <1>5
<1>10. now <= now
  BY <1>1
<1>11. \A i \in Jobs : \/ /\ row'[i].born = row[i].born /\ row'[i].end = row[i].end
                          /\ row'[i].checkpoint = row[i].checkpoint
                          /\ row'[i].status = "COMPLETED" => row[i].status = "COMPLETED"
                       \/ /\ row'[i].born <= now' /\ row'[i].checkpoint = 0
                          /\ row'[i].status # "COMPLETED"
  BY <1>3, <1>5, <1>8, <1>10
<1> QED
  BY <1>6, <1>7, <1>8, <1>9, <1>11, RowsMove

LEMMA AnswerStep ==
  ASSUME Inv, NEW what \in Requests, NEW j \in Jobs, Answer(what, j)
  PROVE  Inv'
<1>1. TypeOK /\ row \in [Jobs -> RowType] /\ row[j] \in RowType
  BY TypeParts DEF Inv
<1>2. PICK r : r = Requested(row[j], what)
  OBVIOUS
<1>3. /\ r \in RowType /\ r.status \in {"PAUSED", "CANCELLING", "PENDING"}
      /\ r.end = row[j].end /\ r.born = row[j].born /\ r.checkpoint = row[j].checkpoint
  BY <1>1, <1>2 DEF Requested, Requests, RowType, Statuses
<1>4. row' = [row EXCEPT ![j] = r]
  BY <1>2 DEF Answer
<1>5. row' \in [Jobs -> RowType] /\ \A i \in Jobs : row'[i] = IF i = j THEN r ELSE row[i]
  BY <1>1, <1>3, <1>4
<1>6. TypeOK'
  <2>1. queue' \in Seq(Writes) /\ old' \subseteq Jobs
    BY <1>1, QueueTypes DEF Answer, IsNext, TypeOK
  <2> QED
    BY <1>1, <1>5, <2>1 DEF Answer, TypeOK, RowType
<1>7. Keeps
  BY <1>1, <1>3, <1>5, TypeParts DEF Answer, Keeps
<1> QED
  BY <1>3, <1>5, <1>6, <1>7, RowsMove DEF Answer

\* Every row keeps all but its status.
LEMMA StatusesMove ==
  ASSUME Inv, UNCHANGED <<listed, now, store, reported, worker, requests, trouble>>,
         NEW s \in [Jobs -> Statuses],
         row' = [j \in Jobs |-> [row[j] EXCEPT !.status = s[j]]],
         old' \subseteq Jobs, queue' \in Seq(Writes), up' \in BOOLEAN,
         up' => up \/ \A j \in Jobs : s[j] # "RUNNING",
         \A j \in Jobs : /\ s[j] = "RUNNING" => row[j].status = "RUNNING"
                         /\ s[j] = "COMPLETED" => row[j].status = "COMPLETED"
                         /\ s[j] = "NONE" => row[j].status = "NONE"
  PROVE  Inv'
<1>1. TypeOK /\ row \in [Jobs -> RowType]
  BY TypeParts DEF Inv
<1>2. \A j \in Jobs :
        /\ row'[j] \in RowType /\ row'[j].status = s[j] /\ row'[j].end = row[j].end
        /\ row'[j].born = row[j].born /\ row'[j].checkpoint = row[j].checkpoint
  BY <1>1 DEF RowType
<1>3. row' \in [Jobs -> RowType]
  BY <1>2
<1>4. TypeOK'
  BY <1>1, <1>3 DEF TypeOK, RowType
<1>5. Keeps
  BY <1>1, <1>2, TypeParts DEF Keeps
<1> QED
  BY <1>2, <1>4, <1>5, RowsMove

LEMMA FailStalledStep == ASSUME Inv, FailStalled PROVE Inv'
<1>1. PICK s : s = [j \in Jobs |-> IF j \in old /\ CanStall(row[j].status) THEN "FAILED" ELSE row[j].status]
  OBVIOUS
<1>2. TypeOK /\ \A j \in Jobs : row[j] \in RowType
  BY TypeParts DEF Inv
<1>3. s \in [Jobs -> Statuses]
  BY <1>1, <1>2 DEF RowType, Statuses
<1>4. row' = [j \in Jobs |-> [row[j] EXCEPT !.status = s[j]]]
  <2>1. ASSUME NEW j \in Jobs PROVE row[j] = [row[j] EXCEPT !.status = row[j].status]
    BY <1>2 DEF RowType
  <2>2. ASSUME NEW j \in Jobs
        PROVE  (IF j \in old /\ CanStall(row[j].status) THEN [row[j] EXCEPT !.status = "FAILED"] ELSE row[j])
                 = [row[j] EXCEPT !.status = s[j]]
    BY <1>1, <2>1
  <2> QED
    BY <2>2 DEF FailStalled
<1>5. queue' \in Seq(Writes) /\ old' \subseteq Jobs
  BY <1>2, QueueTypes DEF FailStalled, IsNext, TypeOK
<1>6. UNCHANGED <<listed, now, store, reported, worker, requests, trouble>> /\ up' \in BOOLEAN /\ up
  BY <1>2 DEF FailStalled, IsNext, TypeOK
<1>7. \A j \in Jobs : /\ s[j] = "RUNNING" => row[j].status = "RUNNING"
                      /\ s[j] = "COMPLETED" => row[j].status = "COMPLETED"
                      /\ s[j] = "NONE" => row[j].status = "NONE"
  BY <1>1
<1> QED
  BY <1>3, <1>4, <1>5, <1>6, <1>7, StatusesMove

LEMMA StartStep == ASSUME Inv, Start PROVE Inv'
<1>1. PICK s : s = [j \in Jobs |-> Recovered(row[j].status)]
  OBVIOUS
<1>2. TypeOK /\ \A j \in Jobs : row[j] \in RowType
  BY TypeParts DEF Inv
<1>3. s \in [Jobs -> Statuses]
  BY <1>1, <1>2 DEF RowType, Statuses, Recovered
<1>4. row' = [j \in Jobs |-> [row[j] EXCEPT !.status = s[j]]]
  BY <1>1 DEF Start
<1>5. queue' \in Seq(Writes) /\ old' \subseteq Jobs /\ up' \in BOOLEAN
  BY <1>2 DEF Start, TypeOK
<1>6. \A j \in Jobs : s[j] # "RUNNING" /\ (s[j] = "COMPLETED" => row[j].status = "COMPLETED")
                                      /\ (s[j] = "NONE" => row[j].status = "NONE")
  BY <1>1 DEF Recovered, Held
<1> QED
  BY <1>3, <1>4, <1>5, <1>6, StatusesMove DEF Start

LEMMA StopStep == ASSUME Inv, Stop PROVE Inv'
<1>1. TypeOK
  BY DEF Inv
<1>2. TypeOK'
  <2>1. worker' \in WorkerType /\ queue' \in Seq(Writes) /\ trouble' \in 0 .. MaxTrouble
    BY <1>1, IdleType, TroubleType DEF Stop
  <2> QED
    BY <1>1, <2>1 DEF Stop, TypeOK, WorkerType, PCs
<1>3. Keeps
  BY <1>1, TypeParts DEF Stop, Keeps
<1>4. BornInv' /\ CheckpointStored' /\ CompletedAccounted'
  BY <1>1, <1>3, TypeParts, RowsFrame DEF Stop
<1>5. WorkerOK(worker)' /\ SoleRunner'
  BY DEF Stop, Idle, WorkerOK, Scanned, SoleRunner
<1> QED
  BY <1>2, <1>4, <1>5 DEF Inv

-----------------------------------------------------------------------------
(* The worker.                                                             *)

\* A step of the worker that writes no row of a job.
LEMMA WorkerGoes ==
  ASSUME Inv, NEW w \in WorkerType, Goes(w), row' = row, old' = old,
         store \subseteq store', store' \subseteq listed,
         reported \subseteq reported', reported' \subseteq Minutes,
         queue' \in Seq(Writes), trouble' \in 0 .. MaxTrouble,
         w.job = worker.job, WorkerOK(w)'
  PROVE  Inv'
<1>1. TypeOK /\ worker' = w /\ UNCHANGED <<listed, now, up, requests>>
  BY DEF Inv, Goes
<1>2. TypeOK'
  BY <1>1 DEF TypeOK, WorkerType, PCs
<1>3. Keeps
  BY <1>1, TypeParts DEF Keeps
<1> QED
  BY <1>1, <1>2, <1>3, WorkerMoves

\* It changes no table.
LEMMA WorkerWaits ==
  ASSUME Inv, NEW w \in WorkerType, Goes(w), UNCHANGED <<row, old, store, reported>>,
         queue' \in Seq(Writes), trouble' \in 0 .. MaxTrouble,
         w.job = worker.job, WorkerOK(w)
  PROVE  Inv'
<1>1. TypeOK
  BY DEF Inv
<1>2. Keeps
  BY <1>1, TypeParts DEF Keeps, Goes
<1>3. WorkerOK(w)'
  BY <1>1, <1>2, WorkerFrame
<1>4. store \subseteq listed /\ reported \subseteq Minutes
  BY <1>1 DEF TypeOK
<1> QED
  BY <1>3, <1>4, WorkerGoes

LEMMA Facts ==
  ASSUME Inv
  PROVE  /\ TypeOK /\ worker \in WorkerType /\ WorkerOK(worker)
         /\ queue \in Seq(Writes) /\ trouble \in 0 .. MaxTrouble
         /\ row \in [Jobs -> RowType] /\ \A j \in Jobs : row[j] \in RowType
         /\ now \in 1 .. LastMinute + 1
         /\ listed \subseteq Minutes /\ store \subseteq listed /\ reported \subseteq Minutes
  BY TypeParts DEF Inv, TypeOK

\* An attempt ends: what is to be written is known.
LEMMA SettlingOK ==
  ASSUME Inv, NEW s \in {"CANCELLED", "COMPLETED", "FAILED"},
         s = "COMPLETED" => worker.pc = "rebuild"
  PROVE  /\ Settling(worker, s) \in WorkerType /\ Settling(worker, s).job = worker.job
         /\ WorkerOK(Settling(worker, s))
<1>1. PICK w : w = Settling(worker, s)
  OBVIOUS
<1>2. /\ w \in WorkerType /\ w.pc = "settle" /\ w.to = s /\ w.job = worker.job /\ w.batch = worker.batch
      /\ w.cursor = worker.cursor /\ w.target = worker.target
  BY <1>1, Facts DEF Settling, WorkerType, PCs, Statuses
<1>3. WorkerOK(worker)
  BY Facts
<1>4. WorkerOK(w)
  BY <1>2, <1>3 DEF WorkerOK, Scanned
<1> QED
  BY <1>1, <1>2, <1>4

LEMMA IdleOK == ASSUME Inv PROVE WorkerOK(Idle)
  BY IdleType DEF WorkerOK, Scanned

LEMMA RunOnceStep == ASSUME Inv, RunOnce PROVE Inv'
<1>1. PICK w : w = [Idle EXCEPT !.pc = "claim"]
  OBVIOUS
<1>2. w \in WorkerType /\ w.pc = "claim" /\ w.job = NoJob /\ w.batch = {}
  BY <1>1, IdleType DEF WorkerType, PCs
<1>3. WorkerOK(w)
  BY <1>2 DEF WorkerOK, Scanned
<1>4. worker.job = NoJob
  BY Facts DEF RunOnce, WorkerOK
<1>5. queue' \in Seq(Writes) /\ trouble' \in 0 .. MaxTrouble
  BY Facts, QueueTypes DEF RunOnce, QueueWrite
<1> QED
  BY <1>1, <1>2, <1>3, <1>4, <1>5, WorkerWaits DEF RunOnce

LEMMA LoopHeadStep == ASSUME Inv, LoopHead PROVE Inv'
<1>1. worker \in WorkerType /\ WorkerOK(worker) /\ worker.pc = "loop"
  BY Facts DEF LoopHead
<1>2. /\ queue' \in Seq(Writes) /\ trouble' \in 0 .. MaxTrouble
      /\ UNCHANGED <<row, old, store, reported>>
  BY Facts, QueueTypes DEF LoopHead, QueueWrite
<1>3. CASE Goes([worker EXCEPT !.pc = "scan"]) \/ Goes([worker EXCEPT !.pc = "fetch"])
  <2>1. PICK pc \in {"scan", "fetch"} : Goes([worker EXCEPT !.pc = pc])
    BY <1>3
  <2>2. PICK w : w = [worker EXCEPT !.pc = pc]
    OBVIOUS
  <2>3. /\ w \in WorkerType /\ w.pc = pc /\ w.job = worker.job /\ w.batch = worker.batch
        /\ w.cursor = worker.cursor /\ w.target = worker.target
    BY <1>1, <2>2 DEF WorkerType, PCs
  <2>4. WorkerOK(w)
    BY <1>1, <2>1, <2>3 DEF WorkerOK, Scanned
  <2> QED
    BY <1>2, <2>1, <2>2, <2>3, <2>4, WorkerWaits
<1>4. CASE Goes(Settling(worker, "CANCELLED"))
  <2>1. PICK w : w = Settling(worker, "CANCELLED")
    OBVIOUS
  <2>2. w \in WorkerType /\ w.job = worker.job /\ WorkerOK(w)
    BY <2>1, SettlingOK
  <2> QED
    BY <1>2, <1>4, <2>1, <2>2, WorkerWaits
<1>5. CASE Goes(Idle) /\ row[worker.job].status # "RUNNING"
  <2>1. TypeOK'
    BY <1>2, <1>5, IdleType, Facts DEF Goes, TypeOK, WorkerType, PCs
  <2>2. Keeps
    BY <1>2, <1>5, Facts DEF Goes, Keeps
  <2>3. BornInv' /\ CheckpointStored' /\ CompletedAccounted'
    BY <1>2, <1>5, <2>2, Facts, RowsFrame DEF Goes
  <2>4. WorkerOK(worker)'
    BY <1>5 DEF Goes, Idle, WorkerOK, Scanned
  <2>5. SoleRunner'
    BY <1>2, <1>5 DEF Inv, SoleRunner, Goes
  <2> QED
    BY <2>1, <2>3, <2>4, <2>5 DEF Inv
<1> QED
  BY <1>3, <1>4, <1>5 DEF LoopHead

LEMMA FetchStep == ASSUME Inv, Fetch PROVE Inv'
<1> DEFINE page == {m \in listed : m \in worker.cursor .. PageEnd(worker) /\ m < now}
<1>1. /\ worker \in WorkerType /\ WorkerOK(worker) /\ worker.pc = "fetch"
      /\ UNCHANGED <<row, old, store, reported>>
  BY Facts DEF Fetch
<1>2. page \in SUBSET Minutes /\ page \subseteq listed
  BY Facts
<1>3. ASSUME worker.job # NoJob
      PROVE  /\ row[worker.job] \in RowType /\ row[worker.job].born <= now
             /\ Has(row[worker.job], worker.cursor - 1, store)
             /\ row[worker.job].status # "NONE" /\ Covers(row[worker.job], worker.target)
  BY <1>1, <1>3, Facts DEF WorkerOK, WorkerType, Inv, BornInv
\* What is behind the page's end is stored, or in the page.
<1>4. ASSUME NEW m \in listed, worker.job # NoJob, m < row[worker.job].born,
             m <= PageEnd(worker), m \notin page
      PROVE  m \in store
  <2>1. m \in Nat /\ m < now /\ worker.cursor \in Nat /\ PageEnd(worker) \in Nat
    BY <1>1, <1>3, <1>4, Facts, PageEndType, Bounds DEF RowType, WorkerType, Minutes
  <2>2. m <= worker.cursor - 1
    BY <1>4, <2>1
  <2> QED
    BY <1>3, <1>4, <2>2 DEF Has
<1>5. ASSUME UNCHANGED <<queue, trouble>>, NEW last \in page, \A m \in page : m <= last,
             Goes([worker EXCEPT !.pc = "write", !.batch = page, !.mark = last])
      PROVE  Inv'
  <2>1. PICK w : w = [worker EXCEPT !.pc = "write", !.batch = page, !.mark = last]
    OBVIOUS
  <2>3. last \in 0 .. LastMinute /\ last <= PageEnd(worker)
    BY <1>1, <1>2, PageEndType, Bounds DEF Minutes, WorkerType
  <2>4. /\ w \in WorkerType /\ w.pc = "write" /\ w.batch = page /\ w.mark = last
        /\ w.job = worker.job /\ w.cursor = worker.cursor /\ w.target = worker.target
    BY <1>1, <1>2, <2>1, <2>3 DEF WorkerType, PCs
  <2>5. ASSUME w.job # NoJob PROVE Has(row[w.job], w.mark, store \cup w.batch)
    <3>1. ASSUME NEW m \in listed, m <= w.mark, m < row[w.job].born
          PROVE  m \in store \cup page
      <4>1. m <= PageEnd(worker)
        <5>1. m \in Int /\ w.mark \in Int /\ PageEnd(worker) \in Int
          BY <1>1, <2>4, Facts, PageEndType DEF Minutes, WorkerType
        <5> QED
          BY <2>3, <2>4, <3>1, <5>1
      <4> QED
        BY <1>4, <2>4, <2>5, <3>1, <4>1
    <3> QED
      BY <2>4, <3>1 DEF Has
  <2>6. WorkerOK(w)
    BY <1>2, <1>3, <2>4, <2>5 DEF WorkerOK, Scanned
  <2> QED
    BY <1>1, <1>5, <2>1, <2>4, <2>6, Facts, WorkerWaits
<1>6. CASE /\ page = {} /\ QueueWrite /\ UNCHANGED trouble
           /\ Goes([worker EXCEPT !.pc = "progress", !.mark = PageEnd(worker)])
  <2>1. PICK w : w = [worker EXCEPT !.pc = "progress", !.mark = PageEnd(worker)]
    OBVIOUS
  <2>2. /\ w \in WorkerType /\ w.pc = "progress" /\ w.batch = worker.batch /\ w.mark = PageEnd(worker)
        /\ w.job = worker.job /\ w.cursor = worker.cursor /\ w.target = worker.target
    BY <1>1, <2>1, PageEndType DEF WorkerType, PCs
  <2>3. ASSUME w.job # NoJob PROVE Has(row[w.job], w.mark, store)
    BY <1>4, <1>6, <2>2, <2>3 DEF Has
  <2>4. WorkerOK(w)
    BY <1>1, <1>3, <2>2, <2>3 DEF WorkerOK, Scanned
  <2>5. queue' \in Seq(Writes) /\ trouble' \in 0 .. MaxTrouble
    BY <1>6, Facts, QueueTypes DEF QueueWrite
  <2> QED
    BY <1>1, <1>6, <2>1, <2>2, <2>4, <2>5, WorkerWaits
<1>7. CASE Trouble /\ Goes(Settling(worker, "FAILED")) /\ QueueWrite
  <2>1. PICK w : w = Settling(worker, "FAILED")
    OBVIOUS
  <2>2. w \in WorkerType /\ w.job = worker.job /\ WorkerOK(w)
    BY <2>1, SettlingOK
  <2>3. queue' \in Seq(Writes) /\ trouble' \in 0 .. MaxTrouble
    BY <1>7, Facts, QueueTypes, TroubleType DEF QueueWrite
  <2> QED
    BY <1>1, <1>7, <2>1, <2>2, <2>3, WorkerWaits
<1> QED
  BY <1>5, <1>6, <1>7 DEF Fetch

LEMMA WriteChunkStep == ASSUME Inv, WriteChunk PROVE Inv'
<1>1. /\ worker \in WorkerType /\ WorkerOK(worker) /\ worker.pc = "write"
      /\ UNCHANGED <<reported, row, old, trouble>>
      /\ store' = store \cup Chunk(worker.batch)
  BY Facts DEF WriteChunk
<1>2. Chunk(worker.batch) \subseteq worker.batch /\ worker.batch \subseteq listed
  BY <1>1 DEF Chunk, WorkerOK
<1>3. store \subseteq store' /\ store' \subseteq listed
  BY <1>1, <1>2, Facts
<1>4. PICK w : /\ Goes(w)
               /\ \/ /\ w = [worker EXCEPT !.batch = @ \ Chunk(@)] /\ UNCHANGED queue
                  \/ /\ worker.batch \subseteq Chunk(worker.batch)
                     /\ w = [worker EXCEPT !.batch = {}, !.pc = "progress"] /\ QueueWrite
  <2>1. CASE worker.batch \ Chunk(worker.batch) # {}
    BY <2>1 DEF WriteChunk
  <2>2. CASE worker.batch \ Chunk(worker.batch) = {}
    BY <2>2 DEF WriteChunk
  <2> QED
    BY <2>1, <2>2
<1>5. /\ w \in WorkerType /\ w.pc \in {"write", "progress"} /\ w.job = worker.job
      /\ w.cursor = worker.cursor /\ w.target = worker.target /\ w.mark = worker.mark
      /\ w.batch \subseteq worker.batch /\ worker.batch \subseteq w.batch \cup store'
      /\ w.pc = "progress" => worker.batch \subseteq store'
  BY <1>1, <1>2, <1>4 DEF WorkerType, PCs
<1>6. queue' \in Seq(Writes) /\ trouble' \in 0 .. MaxTrouble
  BY <1>1, <1>4, Facts, QueueTypes DEF QueueWrite
<1>7. listed' = listed
  BY <1>4 DEF Goes
<1>8. WorkerOK(w)'
  <2>1. ASSUME w.job # NoJob
        PROVE  /\ row[w.job].status # "NONE" /\ Covers(row[w.job], w.target)
               /\ Has(row[w.job], w.cursor - 1, store)
               /\ Has(row[w.job], w.mark, store \cup worker.batch)
    BY <1>1, <1>5, <2>1 DEF WorkerOK
  <2>2. ASSUME w.job # NoJob
        PROVE  /\ Has(row[w.job], w.cursor - 1, store)'
               /\ Has(row[w.job], w.mark, store \cup w.batch)'
               /\ w.pc = "progress" => Has(row[w.job], w.mark, store)'
    BY <1>1, <1>3, <1>5, <1>7, <2>1, <2>2 DEF Has
  <2> QED
    BY <1>1, <1>2, <1>5, <1>7, <2>1, <2>2 DEF WorkerOK, Scanned, Covers
<1> QED
  BY <1>1, <1>3, <1>4, <1>5, <1>6, <1>8, Facts, WorkerGoes

\* The closing scan reports whatever of the span is not stored.
LEMMA ScanGapsStep == ASSUME Inv, ScanGaps PROVE Inv'
<1>1. /\ worker \in WorkerType /\ WorkerOK(worker) /\ worker.pc = "scan"
      /\ UNCHANGED <<store, row, old>>
  BY Facts DEF ScanGaps
<1>2. CASE /\ reported' = reported \cup MissingIn(worker) /\ UNCHANGED <<queue, trouble>>
           /\ Goes([worker EXCEPT !.pc = "rebuild"])
  <2>1. PICK w : w = [worker EXCEPT !.pc = "rebuild"]
    OBVIOUS
  <2>2. /\ w \in WorkerType /\ w.pc = "rebuild" /\ w.job = worker.job /\ w.batch = worker.batch
        /\ w.cursor = worker.cursor /\ w.target = worker.target
    BY <1>1, <2>1 DEF WorkerType, PCs
  <2>3. listed' = listed
    BY <1>2 DEF Goes
  <2>4. \A m \in listed : m <= w.target => m \in store \cup reported'
    BY <1>2, <2>2, Facts DEF MissingIn
  <2>5. WorkerOK(w)'
    BY <1>1, <2>2, <2>3, <2>4 DEF WorkerOK, Scanned, Covers, Has
  <2>6. reported \subseteq reported' /\ reported' \subseteq Minutes
    BY <1>2, Facts DEF MissingIn
  <2> QED
    BY <1>1, <1>2, <2>1, <2>2, <2>5, <2>6, Facts, WorkerGoes
<1>3. CASE Trouble /\ UNCHANGED reported /\ Goes(Settling(worker, "FAILED")) /\ QueueWrite
  <2>1. PICK w : w = Settling(worker, "FAILED")
    OBVIOUS
  <2>2. w \in WorkerType /\ w.job = worker.job /\ WorkerOK(w)
    BY <2>1, SettlingOK
  <2>3. queue' \in Seq(Writes) /\ trouble' \in 0 .. MaxTrouble
    BY <1>3, Facts, QueueTypes, TroubleType DEF QueueWrite
  <2> QED
    BY <1>1, <1>3, <2>1, <2>2, <2>3, WorkerWaits
<1> QED
  BY <1>2, <1>3 DEF ScanGaps

\* An attempt ends without a write to the table so far.
LEMMA EndsStep ==
  ASSUME Inv, NEW s \in {"COMPLETED", "FAILED"}, s = "COMPLETED" => worker.pc = "rebuild",
         Goes(Settling(worker, s)), UNCHANGED <<store, reported, row, old>>,
         queue' \in Seq(Writes), trouble' \in 0 .. MaxTrouble
  PROVE  Inv'
<1>1. PICK w : w = Settling(worker, s)
  OBVIOUS
<1>2. w \in WorkerType /\ w.job = worker.job /\ WorkerOK(w)
  BY <1>1, SettlingOK
<1> QED
  BY <1>1, <1>2, WorkerWaits

LEMMA FinishStep == ASSUME Inv, Finish PROVE Inv'
<1>1. /\ worker.pc = "rebuild" /\ UNCHANGED <<store, reported, row, old>>
      /\ queue' \in Seq(Writes)
  BY Facts, QueueTypes DEF Finish, QueueWrite
<1>2. trouble' \in 0 .. MaxTrouble
  BY Facts, TroubleType DEF Finish
<1>3. Goes(Settling(worker, "COMPLETED")) \/ Goes(Settling(worker, "FAILED"))
  BY DEF Finish
<1> QED
  BY <1>1, <1>2, <1>3, EndsStep

LEMMA RejectWriteStep == ASSUME Inv, RejectWrite PROVE Inv'
<1>1. queue' \in Seq(Writes)
  <2>1. CASE queue' = <<WorkerWrites>>
    BY <2>1, Facts, QueueTypes
  <2>2. CASE queue # <<>> /\ queue' = Append(Tail(queue), WorkerWrites)
    <3>1. Tail(queue) \in Seq(Writes)
      BY <2>2, Facts, QueueTypes
    <3> QED
      BY <2>2, <3>1, QueueTypes
  <2> QED
    BY <2>1, <2>2 DEF RejectWrite, IsNext
<1>2. trouble' \in 0 .. MaxTrouble
  BY Facts, TroubleType DEF RejectWrite
<1> QED
  BY <1>1, <1>2, EndsStep DEF RejectWrite

\* The oldest pending job is claimed; what is behind its checkpoint is stored.
LEMMA ClaimJobStep == ASSUME Inv, ClaimJob PROVE Inv'
<1>1. /\ worker \in WorkerType /\ worker.pc = "claim" /\ worker.job = NoJob /\ up
      /\ UNCHANGED <<store, reported, trouble>>
  BY Facts DEF ClaimJob, WorkerOK, WriteDone, IsNext
<1>2. queue' \in Seq(Writes)
  BY Facts, QueueTypes DEF ClaimJob, WriteDone, IsNext
<1>3. \A i \in Jobs : row[i].status # "RUNNING"
  BY <1>1, Bounds DEF Inv, SoleRunner
<1>4. CASE Goes(Idle) /\ UNCHANGED <<row, old>>
  <2>1. worker.job = Idle.job /\ Idle \in WorkerType /\ WorkerOK(Idle)
    BY <1>1, IdleType, IdleOK
  <2> QED
    BY <1>1, <1>2, <1>4, <2>1, Facts, WorkerWaits
<1>5. ASSUME NEW j \in Pending, SetStatus(j, "RUNNING"),
             Goes([Idle EXCEPT !.pc = "loop", !.job = j, !.cursor = ResumeAt(row[j]),
                               !.target = Target(row[j])])
      PROVE  Inv'
  <2>1. PICK w : w = [Idle EXCEPT !.pc = "loop", !.job = j, !.cursor = ResumeAt(row[j]),
                                  !.target = Target(row[j])]
    OBVIOUS
  <2>2. /\ j \in Jobs /\ row[j].status = "PENDING" /\ row[j] \in RowType
        /\ row[j].born <= now /\ now \in 1 .. LastMinute + 1
    BY Facts DEF Pending, Inv, BornInv
  <2>3. /\ ResumeAt(row[j]) \in 1 .. LastMinute + 1 /\ Target(row[j]) \in 0 .. LastMinute
        /\ Covers(row[j], Target(row[j]))
        /\ ResumeAt(row[j]) - 1 = row[j].checkpoint
    BY <2>2, Bounds DEF ResumeAt, Target, Covers, RowType
  <2>4. /\ w \in WorkerType /\ w.pc = "loop" /\ w.batch = {} /\ w.job = j
        /\ w.cursor = ResumeAt(row[j]) /\ w.target = Target(row[j])
    <3>1. w = [pc |-> "loop", job |-> j, cursor |-> ResumeAt(row[j]), target |-> Target(row[j]),
               batch |-> Idle.batch, mark |-> Idle.mark, to |-> Idle.to]
      BY <2>1 DEF Idle
    <3> QED
      BY <2>2, <2>3, <3>1, IdleType DEF WorkerType, PCs
  <2>5. PICK r : r = [row[j] EXCEPT !.status = "RUNNING"]
    OBVIOUS
  <2>6. /\ r \in RowType /\ r.status = "RUNNING" /\ r.end = row[j].end
        /\ r.born = row[j].born /\ r.checkpoint = row[j].checkpoint
    BY <2>2, <2>5 DEF RowType, Statuses
  <2>7. row' = [row EXCEPT ![j] = r] /\ old' = old \ {j}
    BY <1>5, <2>5 DEF SetStatus
  <2>8. row' \in [Jobs -> RowType] /\ \A i \in Jobs : row'[i] = IF i = j THEN r ELSE row[i]
    BY <2>2, <2>6, <2>7, Facts
  <2>9. worker' = w /\ UNCHANGED <<listed, now, up, requests>>
    BY <1>5, <2>1 DEF Goes
  <2>10. TypeOK'
    BY <1>1, <1>2, <2>4, <2>7, <2>8, <2>9, Facts DEF TypeOK, RowType, WorkerType, PCs
  <2>11. Keeps
    BY <1>1, <2>2, <2>6, <2>8, <2>9 DEF Keeps
  <2>12. BornInv' /\ CheckpointStored' /\ CompletedAccounted'
    BY <2>6, <2>8, <2>9, <2>11, Facts, RowsFrame
  <2>13. SoleRunner'
    BY <1>3, <2>4, <2>8, <2>9 DEF SoleRunner
  <2>14. Has(row[j], row[j].checkpoint, store)
    BY <2>2 DEF Inv, CheckpointStored, Has
  <2>15. WorkerOK(w)
    BY <2>2, <2>3, <2>4, <2>14 DEF WorkerOK, Scanned
  <2>16. WorkerOK(w)'
    BY <2>4, <2>11, <2>15, Facts, WorkerFrame
  <2>17. WorkerOK(worker)'
    BY <2>9, <2>16
  <2> QED
    BY <2>10, <2>12, <2>13, <2>17 DEF Inv
<1> QED
  BY <1>4, <1>5 DEF ClaimJob

\* The checkpoint follows the candles it speaks of.
LEMMA SaveProgressStep == ASSUME Inv, SaveProgress PROVE Inv'
<1>1. /\ worker \in WorkerType /\ WorkerOK(worker) /\ worker.pc = "progress"
      /\ UNCHANGED <<store, reported, trouble>>
  BY Facts DEF SaveProgress
<1>2. queue' \in Seq(Writes) /\ old' \subseteq Jobs
  BY Facts, QueueTypes DEF SaveProgress, WriteDone, IsNext, Inv, TypeOK
<1>3. PICK w : w = [worker EXCEPT !.pc = "loop", !.cursor = worker.mark + 1]
  OBVIOUS
<1>4. /\ w \in WorkerType /\ w.pc = "loop" /\ w.batch = worker.batch /\ w.job = worker.job
      /\ w.cursor - 1 = worker.mark /\ w.target = worker.target
  <2>1. w = [pc |-> "loop", job |-> worker.job, cursor |-> worker.mark + 1,
             target |-> worker.target, batch |-> worker.batch, mark |-> worker.mark,
             to |-> worker.to]
    BY <1>1, <1>3 DEF WorkerType
  <2>2. /\ worker.mark \in 0 .. LastMinute /\ worker.mark + 1 \in 0 .. LastMinute + 1
        /\ worker.mark + 1 - 1 = worker.mark
    BY <1>1, Bounds DEF WorkerType
  <2> QED
    BY <1>1, <2>1, <2>2 DEF WorkerType, PCs
<1>5. worker' = w /\ UNCHANGED <<listed, now, up, requests>>
  BY <1>3 DEF SaveProgress, Goes
<1>6. /\ row' \in [Jobs -> RowType]
      /\ \A i \in Jobs : /\ row'[i].status = row[i].status /\ row'[i].end = row[i].end
                         /\ row'[i].born = row[i].born
                         /\ row'[i].checkpoint = IF i = worker.job THEN worker.mark ELSE row[i].checkpoint
  <2>1. row' = [i \in Jobs |-> IF i = worker.job THEN [row[i] EXCEPT !.checkpoint = worker.mark] ELSE row[i]]
    BY Facts DEF SaveProgress
  <2>2. worker.mark \in 0 .. LastMinute
    BY <1>1 DEF WorkerType
  <2>3. ASSUME NEW i \in Jobs
        PROVE  /\ row'[i] \in RowType
               /\ row'[i].status = row[i].status /\ row'[i].end = row[i].end
               /\ row'[i].born = row[i].born
               /\ row'[i].checkpoint = IF i = worker.job THEN worker.mark ELSE row[i].checkpoint
    <3>1. row[i] \in RowType
      BY Facts
    <3> QED
      BY <2>1, <2>2, <3>1 DEF RowType
  <2> QED
    BY <2>1, <2>3
<1>7. TypeOK'
  BY <1>1, <1>2, <1>4, <1>5, <1>6, Facts DEF TypeOK, RowType, WorkerType, PCs
<1>8. Keeps
  BY <1>1, <1>5, <1>6, Facts DEF Keeps
<1>9. worker.job # NoJob => Has(row[worker.job], worker.mark, store)
  BY <1>1 DEF WorkerOK
<1>10. CheckpointStored'
  <2>1. SUFFICES ASSUME NEW j \in Jobs, NEW m \in listed,
                        m <= row'[j].checkpoint, m < row'[j].born
                 PROVE  m \in store
    BY <1>1, <1>5 DEF CheckpointStored
  <2>2. CASE j = worker.job
    BY <1>6, <1>9, <2>1, <2>2, Bounds DEF Has
  <2>3. CASE j # worker.job
    BY <1>6, <2>1, <2>3 DEF Inv, CheckpointStored
  <2> QED
    BY <2>2, <2>3
<1>11. BornInv' /\ CompletedAccounted' /\ SoleRunner'
  BY <1>1, <1>4, <1>5, <1>6 DEF Inv, BornInv, CompletedAccounted, SoleRunner
<1>12. WorkerOK(w)
  BY <1>1, <1>4, <1>9 DEF WorkerOK, Scanned
<1>13. WorkerOK(w)'
  BY <1>4, <1>8, <1>12, Facts, WorkerFrame
<1>14. WorkerOK(worker)'
  BY <1>5, <1>13
<1> QED
  BY <1>7, <1>10, <1>11, <1>14 DEF Inv

\* The end of an attempt is recorded; COMPLETED only after the closing scan.
LEMMA SettleStep == ASSUME Inv, Settle PROVE Inv'
<1>1. /\ worker \in WorkerType /\ WorkerOK(worker) /\ worker.pc = "settle"
      /\ UNCHANGED <<store, reported, trouble>>
      /\ worker.to \in {"CANCELLED", "COMPLETED", "FAILED"}
  BY Facts DEF Settle, WorkerOK
<1>2. queue' \in Seq(Writes) /\ old' \subseteq Jobs
  BY Facts, QueueTypes DEF Settle, SetStatus, WriteDone, IsNext, Inv, TypeOK
<1>3. worker' = Idle /\ UNCHANGED <<listed, now, up, requests>>
  BY DEF Settle, Goes
<1>4. /\ row' \in [Jobs -> RowType]
      /\ \A i \in Jobs : /\ row'[i].checkpoint = row[i].checkpoint /\ row'[i].end = row[i].end
                         /\ row'[i].born = row[i].born
                         /\ row'[i].status = IF i = worker.job THEN worker.to ELSE row[i].status
  <2>1. row' = [i \in Jobs |-> IF i = worker.job THEN [row[i] EXCEPT !.status = worker.to] ELSE row[i]]
    BY Facts DEF Settle, SetStatus
  <2>2. ASSUME NEW i \in Jobs
        PROVE  /\ row'[i] \in RowType
               /\ row'[i].checkpoint = row[i].checkpoint /\ row'[i].end = row[i].end
               /\ row'[i].born = row[i].born
               /\ row'[i].status = IF i = worker.job THEN worker.to ELSE row[i].status
    <3>1. row[i] \in RowType
      BY Facts
    <3> QED
      BY <1>1, <2>1, <3>1 DEF RowType, Statuses
  <2> QED
    BY <2>1, <2>2
<1>5. TypeOK'
  BY <1>1, <1>2, <1>3, <1>4, IdleType, Facts DEF TypeOK, RowType, WorkerType, PCs
<1>6. CheckpointStored' /\ BornInv'
  BY <1>1, <1>3, <1>4 DEF Inv, CheckpointStored, BornInv
<1>7. SoleRunner'
  BY <1>1, <1>3, <1>4 DEF Inv, SoleRunner
<1>8. CompletedAccounted'
  <2>1. SUFFICES ASSUME NEW j \in Jobs, row'[j].status = "COMPLETED", NEW m \in listed,
                        m <= row'[j].end \/ (row'[j].end = 0 /\ m < row'[j].born)
                 PROVE  m \in store \cup reported
    BY <1>1, <1>3 DEF CompletedAccounted
  <2>2. CASE j # worker.job
    BY <1>4, <2>1, <2>2 DEF Inv, CompletedAccounted
  <2>3. CASE j = worker.job
    <3>1. Covers(row[j], worker.target) /\ Scanned(worker)
      BY <1>1, <1>4, <2>1, <2>3, Bounds DEF WorkerOK, Scanned
    <3>2. row[j] \in RowType /\ m \in Nat \ {0} /\ worker.target \in Nat
      BY <1>1, Facts, Bounds DEF WorkerType, Minutes
    <3>3. m <= worker.target
      BY <1>4, <2>1, <3>1, <3>2, Bounds DEF Covers, RowType
    <3> QED
      BY <1>1, <3>1, <3>3 DEF WorkerOK
  <2> QED
    BY <2>2, <2>3
<1>9. WorkerOK(worker)'
  BY <1>3 DEF Idle, WorkerOK, Scanned
<1> QED
  BY <1>5, <1>6, <1>7, <1>8, <1>9 DEF Inv

-----------------------------------------------------------------------------
(* Progress.                                                               *)

\* The worker's cursor is ahead of its job's checkpoint from the claim on, and
\* the mark it will write is not behind the cursor.
ProgressInv ==
    /\ \A j \in Jobs : row[j].status = "NONE" => row[j].checkpoint = 0 /\ row[j].born = 0
    /\ worker.pc \in {"loop", "fetch", "write", "progress"} =>
         worker.job \in Jobs /\ row[worker.job].checkpoint < worker.cursor
    /\ worker.pc = "fetch" => worker.cursor <= worker.target
    /\ worker.pc \in {"write", "progress"} => worker.cursor <= worker.mark

CheckpointsKept ==
    \A j \in Jobs : /\ row'[j].checkpoint = row[j].checkpoint
                    /\ row'[j].status = "NONE" => row[j].status = "NONE" /\ row'[j].born = row[j].born

\* No checkpoint is written, and the worker stays where it is or leaves the loop.
LEMMA ProgressFrame ==
  ASSUME Inv, ProgressInv, CheckpointsKept,
         worker' = worker \/ worker'.pc \notin {"loop", "fetch", "write", "progress"}
  PROVE  ProgressInv'
<1>1. \A j \in Jobs : row[j].checkpoint \in Int
  BY Facts DEF RowType
<1> QED
  BY <1>1 DEF ProgressInv, CheckpointsKept

LEMMA SameRow == ASSUME row' = row PROVE CheckpointsKept
  BY DEF CheckpointsKept

LEMMA RequestProgress ==
  ASSUME Inv, ProgressInv, (\E j \in Jobs, end \in Ends : Create(j, end)) \/ (\E what \in Requests, j \in Jobs : Answer(what, j))
  PROVE  ProgressInv'
<1>1. worker' = worker
  BY DEF Create, Answer
<1>2. ASSUME NEW j \in Jobs, NEW end \in Ends, Create(j, end) PROVE CheckpointsKept
  <2>1. PICK r : r = [NoRow EXCEPT !.status = "PENDING", !.end = end, !.born = now]
    OBVIOUS
  <2>2. r.checkpoint = 0 /\ r.status = "PENDING" /\ row[j].checkpoint = 0
    BY <1>2, <2>1 DEF NoRow, Create, ProgressInv
  <2>3. \A i \in Jobs : row'[i] = IF i = j THEN r ELSE row[i]
    BY <1>2, <2>1, Facts DEF Create
  <2> QED
    BY <2>2, <2>3 DEF CheckpointsKept
<1>3. ASSUME NEW what \in Requests, NEW j \in Jobs, Answer(what, j) PROVE CheckpointsKept
  <2>1. PICK r : r = Requested(row[j], what)
    OBVIOUS
  <2>2. row[j] \in RowType
    BY Facts
  <2>3. r.checkpoint = row[j].checkpoint /\ r.status # "NONE"
    BY <2>1, <2>2 DEF Requested, Requests, RowType
  <2>4. \A i \in Jobs : row'[i] = IF i = j THEN r ELSE row[i]
    BY <1>3, <2>1, Facts DEF Answer
  <2> QED
    BY <2>3, <2>4 DEF CheckpointsKept
<1> QED
  BY <1>1, <1>2, <1>3, ProgressFrame

LEMMA StatusProgress ==
  ASSUME Inv, ProgressInv, FailStalled \/ Start \/ Settle
  PROVE  ProgressInv'
<1>1. \A j \in Jobs : row[j] \in RowType
  BY Facts
<1>3. CASE FailStalled
  <2>1. CheckpointsKept
    BY <1>1, <1>3 DEF FailStalled, CheckpointsKept, RowType
  <2> QED
    BY <1>3, <2>1, ProgressFrame DEF FailStalled
<1>4. CASE Start
  <2>1. CheckpointsKept
    BY <1>1, <1>4 DEF Start, Recovered, Held, CheckpointsKept, RowType
  <2> QED
    BY <1>4, <2>1, ProgressFrame DEF Start
<1>5. CASE Settle
  <2>1. worker.to # "NONE"
    BY <1>5, Facts DEF Settle, WorkerOK
  <2>2. row' = [i \in Jobs |-> IF i = worker.job THEN [row[i] EXCEPT !.status = worker.to] ELSE row[i]]
    BY <1>5, Facts DEF Settle, SetStatus
  <2>3. CheckpointsKept
    BY <1>1, <2>1, <2>2 DEF CheckpointsKept, RowType
  <2>4. worker'.pc = "idle"
    BY <1>5, IdleType DEF Settle, Goes
  <2> QED
    BY <2>3, <2>4, ProgressFrame
<1> QED
  BY <1>3, <1>4, <1>5

\* Steps that write no row.
LEMMA AwayProgress ==
  ASSUME Inv, ProgressInv,
         \/ Tick \/ (\E what \in Requests, j \in Jobs : Ask(what, j)) \/ Heartbeat \/ Watch
         \/ (\E j \in Jobs : Age(j)) \/ UNCHANGED vars
         \/ Stop \/ RunOnce \/ ScanGaps \/ Finish \/ RejectWrite
  PROVE  ProgressInv'
<1>1. CheckpointsKept
  BY SameRow DEF Tick, Ask, Heartbeat, Watch, Age, vars, Stop, RunOnce, ScanGaps, Finish, RejectWrite
<1>2. CASE worker' = worker
  BY <1>1, <1>2, ProgressFrame
<1>3. \A s : Settling(worker, s).pc = "settle"
  BY Facts DEF Settling, WorkerType
<1>4. CASE Stop \/ RunOnce \/ ScanGaps \/ Finish \/ RejectWrite
  <2>1. \/ worker' = Idle \/ worker' = [Idle EXCEPT !.pc = "claim"]
        \/ worker' = [worker EXCEPT !.pc = "rebuild"] \/ \E s : worker' = Settling(worker, s)
    BY <1>4 DEF Stop, RunOnce, ScanGaps, Finish, RejectWrite, Goes
  <2>2. worker'.pc \in {"idle", "claim", "rebuild", "settle"}
    BY <1>3, <2>1, Facts DEF Idle, WorkerType
  <2> QED
    BY <1>1, <2>2, ProgressFrame
<1> QED
  BY <1>2, <1>4 DEF Tick, Ask, Heartbeat, Watch, Age, vars

LEMMA ClaimProgress == ASSUME Inv, ProgressInv, ClaimJob PROVE ProgressInv'
<1>1. CASE Goes(Idle) /\ UNCHANGED <<row, old>>
  BY <1>1, IdleType, SameRow, ProgressFrame DEF Goes
<1>2. ASSUME NEW j \in Pending, SetStatus(j, "RUNNING"),
             Goes([Idle EXCEPT !.pc = "loop", !.job = j, !.cursor = ResumeAt(row[j]),
                               !.target = Target(row[j])])
      PROVE  ProgressInv'
  <2>1. j \in Jobs /\ row[j] \in RowType
    BY Facts DEF Pending
  <2>2. row' = [i \in Jobs |-> IF i = j THEN [row[i] EXCEPT !.status = "RUNNING"] ELSE row[i]]
    BY <1>2, Facts DEF SetStatus
  <2>3. \A i \in Jobs : row[i] \in RowType
    BY Facts
  <2>4. \A i \in Jobs : /\ row'[i].checkpoint = row[i].checkpoint
                        /\ row'[i].status = "NONE" => row[i].status = "NONE" /\ row'[i].born = row[i].born
    BY <2>2, <2>3 DEF RowType
  <2>5. worker'.pc = "loop" /\ worker'.job = j /\ worker'.cursor = ResumeAt(row[j])
    BY <1>2 DEF Goes, Idle
  <2>6. row[j].checkpoint < ResumeAt(row[j])
    BY <2>1, Bounds DEF ResumeAt, RowType
  <2>7. \A i \in Jobs : row[i].checkpoint \in Int
    BY <2>3 DEF RowType
  <2> QED
    BY <2>1, <2>4, <2>5, <2>6, <2>7 DEF ProgressInv
<1> QED
  BY <1>1, <1>2 DEF ClaimJob

\* Within the loop, to a page that is asked for, written, and behind the worker.
LEMMA LoopProgress ==
  ASSUME Inv, ProgressInv, LoopHead \/ Fetch \/ WriteChunk
  PROVE  ProgressInv'
<1>1. CheckpointsKept /\ row' = row
  BY SameRow DEF LoopHead, Fetch, WriteChunk
<1>2. CASE worker'.pc \notin {"loop", "fetch", "write", "progress"}
  BY <1>1, <1>2, ProgressFrame
<1>3. worker \in WorkerType /\ worker.pc \in {"loop", "fetch", "write"}
  BY Facts DEF LoopHead, Fetch, WriteChunk
\* The next record of the worker within the loop.
<1>4. ASSUME worker'.pc \in {"fetch", "write", "progress"},
             worker'.job = worker.job, worker'.cursor = worker.cursor,
             worker'.pc = "fetch" => worker'.cursor <= worker'.target,
             worker'.pc \in {"write", "progress"} => worker'.cursor <= worker'.mark
      PROVE  ProgressInv'
  <2>1. \A j \in Jobs : row[j].checkpoint \in Int
    BY Facts DEF RowType
  <2> QED
    BY <1>1, <1>3, <1>4, <2>1 DEF ProgressInv
<1>5. CASE LoopHead
  <2>1. \/ worker' = [worker EXCEPT !.pc = "scan"] \/ worker' = Settling(worker, "CANCELLED")
        \/ worker' = Idle \/ (worker.cursor <= worker.target /\ worker' = [worker EXCEPT !.pc = "fetch"])
    BY <1>5 DEF LoopHead, Goes
  <2>2. CASE worker.cursor <= worker.target /\ worker' = [worker EXCEPT !.pc = "fetch"]
    <3>1. /\ worker'.pc = "fetch" /\ worker'.job = worker.job /\ worker'.cursor = worker.cursor
          /\ worker'.target = worker.target
      BY <1>3, <2>2 DEF WorkerType
    <3> QED
      BY <1>4, <2>2, <3>1
  <2>3. CASE \/ worker' = [worker EXCEPT !.pc = "scan"] \/ worker' = Settling(worker, "CANCELLED")
             \/ worker' = Idle
    <3>1. worker' = Settling(worker, "CANCELLED") => worker'.pc = "settle"
      BY <1>3 DEF WorkerType, Settling
    <3>2. worker'.pc \in {"scan", "settle", "idle"}
      BY <1>3, <2>3, <3>1 DEF WorkerType, Idle
    <3> QED
      BY <1>2, <3>2
  <2> QED
    BY <2>1, <2>2, <2>3
<1>6. CASE Fetch
  <2>1. PICK mark, pc, batch :
          \/ worker' = Settling(worker, "FAILED")
          \/ /\ worker' = [worker EXCEPT !.pc = pc, !.batch = batch, !.mark = mark]
             /\ pc \in {"write", "progress"}
             /\ mark = PageEnd(worker) \/ mark \in worker.cursor .. PageEnd(worker)
    <3>1. CASE worker' = Settling(worker, "FAILED")
      BY <3>1
    <3>2. CASE worker' = [worker EXCEPT !.pc = "progress", !.mark = PageEnd(worker)]
      <4>1. worker' = [worker EXCEPT !.pc = "progress", !.batch = worker.batch, !.mark = PageEnd(worker)]
        BY <1>3, <3>2 DEF WorkerType
      <4> QED
        BY <4>1
    <3>3. CASE \E batch, last : /\ last \in worker.cursor .. PageEnd(worker)
                                /\ worker' = [worker EXCEPT !.pc = "write", !.batch = batch, !.mark = last]
      BY <3>3
    <3> QED
      BY <1>6, <3>1, <3>2, <3>3 DEF Fetch, Goes
  <2>2. CASE worker' = Settling(worker, "FAILED")
    <3>1. worker'.pc = "settle"
      BY <1>3, <2>2 DEF WorkerType, Settling
    <3> QED
      BY <1>2, <3>1
  <2>3. CASE /\ worker' = [worker EXCEPT !.pc = pc, !.batch = batch, !.mark = mark]
             /\ pc \in {"write", "progress"}
             /\ mark = PageEnd(worker) \/ mark \in worker.cursor .. PageEnd(worker)
    <3>1. /\ worker'.pc = pc /\ worker'.job = worker.job /\ worker'.cursor = worker.cursor
          /\ worker'.mark = mark
      BY <1>3, <2>3 DEF WorkerType
    <3>2. worker.cursor <= PageEnd(worker)
      BY <1>3, <1>6, PageEndType DEF Fetch, ProgressInv
    <3>3. worker.cursor <= mark
      BY <1>3, <2>3, <3>2, PageEndType DEF WorkerType
    <3> QED
      BY <1>4, <2>3, <3>1, <3>3
  <2> QED
    BY <2>1, <2>2, <2>3
<1>7. CASE WriteChunk
  <2>1. \/ worker' = [worker EXCEPT !.batch = worker.batch \ Chunk(worker.batch)]
        \/ worker' = [worker EXCEPT !.batch = {}, !.pc = "progress"]
    BY <1>7 DEF WriteChunk, Goes
  <2>2. /\ worker.pc = "write" /\ worker.cursor <= worker.mark
    BY <1>7 DEF WriteChunk, ProgressInv
  <2>3. /\ worker'.pc \in {"write", "progress"} /\ worker'.job = worker.job
        /\ worker'.cursor = worker.cursor /\ worker'.mark = worker.mark
    BY <1>3, <2>1, <2>2 DEF WorkerType
  <2> QED
    BY <1>4, <2>2, <2>3
<1> QED
  BY <1>5, <1>6, <1>7

LEMMA SaveProgressStays == ASSUME Inv, ProgressInv, SaveProgress PROVE ProgressInv'
<1>1. /\ worker \in WorkerType /\ worker.job \in Jobs
      /\ row[worker.job].checkpoint < worker.cursor /\ worker.cursor <= worker.mark
  BY Facts DEF SaveProgress, ProgressInv
<1>2. \A j \in Jobs : row[j] \in RowType /\ row[j].checkpoint \in Int
  BY Facts DEF RowType
<1>3. row' = [j \in Jobs |-> IF j = worker.job THEN [row[j] EXCEPT !.checkpoint = worker.mark] ELSE row[j]]
  BY Facts DEF SaveProgress
<1>4. \A j \in Jobs : /\ row'[j].status = row[j].status /\ row'[j].born = row[j].born
                      /\ row'[j].checkpoint = IF j = worker.job THEN worker.mark ELSE row[j].checkpoint
  BY <1>2, <1>3 DEF RowType
<1>5. worker.mark \in Nat /\ worker.cursor \in Nat
  BY <1>1, Bounds DEF WorkerType
<1>6. worker'.pc = "loop" /\ worker'.job = worker.job /\ worker'.cursor = worker.mark + 1
  BY <1>1 DEF SaveProgress, Goes, WorkerType
<1>7. row[worker.job].status # "NONE"
  BY <1>1, Facts, Bounds DEF WorkerOK
<1> QED
  BY <1>1, <1>2, <1>4, <1>5, <1>6, <1>7 DEF ProgressInv

-----------------------------------------------------------------------------
(* The steps of the abstract download.                                     *)

\* What a job has dealt with and owes does not change.
SameTasks ==
    \A j \in Jobs : /\ row'[j].checkpoint = row[j].checkpoint
                    /\ row'[j].born = row[j].born /\ row'[j].end = row[j].end

LEMMA SameOwed ==
  ASSUME listed' = listed, NEW j \in Jobs, row'[j].born = row[j].born, row'[j].end = row[j].end
  PROVE  Owed(row[j])' = Owed(row[j])
  BY DEF Owed

LEMMA StoreFrame ==
  ASSUME SameTasks, listed' = listed, store \subseteq store'
  PROVE  Download!Next
<1>1. [j \in Jobs |-> row[j].checkpoint]' = [j \in Jobs |-> row[j].checkpoint]
  BY DEF SameTasks
<1>2. \A j \in Jobs : Owed(row[j])' = Owed(row[j])
  BY SameOwed DEF SameTasks
<1>3. [j \in Jobs |-> Owed(row[j])]' = [j \in Jobs |-> Owed(row[j])]
  BY <1>2
<1>4. Download!Store
  BY <1>1, <1>3 DEF Download!Store
<1> QED
  BY <1>4 DEF Download!Next

\* A job is accepted when it is created.
LEMMA CreateAccepts ==
  ASSUME Inv, ProgressInv, \E j \in Jobs, end \in Ends : Create(j, end)
  PROVE  Download!Next
<1>1. PICK j \in Jobs : \E end \in Ends : Create(j, end)
  OBVIOUS
<1>2. PICK end : Create(j, end)
  BY <1>1
<1>3. PICK r : r = [NoRow EXCEPT !.status = "PENDING", !.end = end, !.born = now]
  OBVIOUS
<1>4. /\ row' = [row EXCEPT ![j] = r] /\ r.checkpoint = 0
      /\ row[j].status = "NONE" /\ UNCHANGED <<listed, store>>
  BY <1>2, <1>3 DEF Create, NoRow
<1>5. \A i \in Jobs : row'[i] = IF i = j THEN r ELSE row[i]
  BY <1>4, Facts
<1>6. row[j].checkpoint = 0 /\ Owed(row[j]) = {}
  BY <1>4, Facts DEF ProgressInv, Owed, Minutes
<1>7. [i \in Jobs |-> row[i].checkpoint]' = [i \in Jobs |-> row[i].checkpoint]
  BY <1>4, <1>5, <1>6
<1>8. \A i \in Jobs : i \notin {j} => Owed(row[i])' = Owed(row[i])
  BY <1>4, <1>5, SameOwed
<1>9. Download!Accept({j})
  BY <1>4, <1>6, <1>7, <1>8 DEF Download!Accept
<1> QED
  BY <1>9 DEF Download!Next

\* The checkpoint is written ahead of where it was, behind committed candles.
LEMMA SaveProgressAdvances == ASSUME Inv, ProgressInv, SaveProgress PROVE Download!Next
<1> DEFINE checkpoint == [j \in Jobs |-> row[j].checkpoint]
<1>1. /\ worker \in WorkerType /\ worker.job \in Jobs /\ worker.pc = "progress" /\ WorkerOK(worker)
      /\ row[worker.job].checkpoint < worker.cursor /\ worker.cursor <= worker.mark
      /\ UNCHANGED <<listed, store>>
  BY Facts DEF SaveProgress, ProgressInv, Goes
<1>2. \A j \in Jobs : row[j] \in RowType /\ row[j].checkpoint \in Int /\ row[j].born \in Int
  BY Facts DEF RowType
<1>3. \A j \in Jobs : /\ row'[j].born = row[j].born /\ row'[j].end = row[j].end
                      /\ row'[j].checkpoint = IF j = worker.job THEN worker.mark ELSE row[j].checkpoint
  <2>1. row' = [j \in Jobs |-> IF j = worker.job THEN [row[j] EXCEPT !.checkpoint = worker.mark] ELSE row[j]]
    BY Facts DEF SaveProgress
  <2> QED
    BY <1>2, <2>1 DEF RowType
<1>4. worker.mark \in Int /\ worker.cursor \in Int
  BY <1>1, Bounds DEF WorkerType
<1>5. PICK job \in Jobs : job = worker.job
  BY <1>1
<1>6. checkpoint[job] < checkpoint'[job]
  BY <1>1, <1>2, <1>3, <1>4, <1>5
<1>7. checkpoint' = [checkpoint EXCEPT ![job] = checkpoint'[job]]
  BY <1>3, <1>5
<1>8. \A m \in Owed(row[job]) : m <= checkpoint'[job] => m \in store
  BY <1>1, <1>3, <1>5, Bounds DEF WorkerOK, Has, Owed
<1>9. \A j \in Jobs : Owed(row[j])' = Owed(row[j])
  BY <1>1, <1>3, SameOwed
<1>10. [j \in Jobs |-> Owed(row[j])]' = [j \in Jobs |-> Owed(row[j])]
  BY <1>9
<1>11. Download!Advance(job)
  BY <1>1, <1>6, <1>7, <1>8, <1>10 DEF Download!Advance
<1> QED
  BY <1>11 DEF Download!Next

\* All the others store candles, or do nothing that the download would notice.
LEMMA OthersStore ==
  ASSUME Inv, ProgressInv,
         \/ Tick \/ (\E what \in Requests, j \in Jobs : Ask(what, j)) \/ Heartbeat \/ Watch
         \/ (\E j \in Jobs : Age(j)) \/ UNCHANGED vars
         \/ Stop \/ RunOnce \/ ScanGaps \/ Finish \/ RejectWrite
         \/ LoopHead \/ Fetch \/ WriteChunk \/ ClaimJob \/ Settle \/ FailStalled \/ Start
         \/ (\E what \in Requests, j \in Jobs : Answer(what, j))
  PROVE  Download!Next
<1>1. SUFFICES SameTasks
  <2>1. listed' = listed /\ store \subseteq store'
    BY DEF Tick, Ask, Heartbeat, Watch, Age, vars, Stop, RunOnce, ScanGaps, Finish, RejectWrite, LoopHead,
           Fetch, WriteChunk, ClaimJob, Settle, FailStalled, Start, Answer, Goes
  <2> QED
    BY <2>1, StoreFrame
<1>2. \A j \in Jobs : row[j] \in RowType
  BY Facts
<1>3. CASE row' = row
  BY <1>3 DEF SameTasks
<1>4. ASSUME NEW j, NEW s, SetStatus(j, s) PROVE SameTasks
  <2>1. \A i \in Jobs : row'[i] = IF i = j THEN [row[i] EXCEPT !.status = s] ELSE row[i]
    BY <1>4, Facts DEF SetStatus
  <2> QED
    BY <1>2, <2>1 DEF SameTasks, RowType
<1>5. CASE ClaimJob
  BY <1>3, <1>4, <1>5 DEF ClaimJob
<1>6. CASE Settle
  BY <1>4, <1>6 DEF Settle
<1>7. CASE FailStalled
  BY <1>2, <1>7 DEF FailStalled, CanStall, Held, SameTasks, RowType
<1>8. CASE Start
  BY <1>2, <1>8 DEF Start, Recovered, Held, SameTasks, RowType
<1>9. ASSUME NEW what \in Requests, NEW j \in Jobs, Answer(what, j) PROVE SameTasks
  <2>1. PICK r : r = Requested(row[j], what)
    OBVIOUS
  <2>2. r.checkpoint = row[j].checkpoint /\ r.born = row[j].born /\ r.end = row[j].end
    BY <1>2, <2>1 DEF Requested, Requests, RowType
  <2>3. \A i \in Jobs : row'[i] = IF i = j THEN r ELSE row[i]
    BY <1>9, <2>1, Facts DEF Answer
  <2> QED
    BY <1>9, <2>2, <2>3 DEF SameTasks
<1> QED
  BY <1>3, <1>5, <1>6, <1>7, <1>8, <1>9
     DEF Tick, Ask, Heartbeat, Watch, Age, vars, Stop, RunOnce, ScanGaps, Finish, RejectWrite, LoopHead,
         Fetch, WriteChunk

-----------------------------------------------------------------------------
(* The theorems.                                                           *)

\* The inductive invariant: types, the properties below, and what the worker
\* relies on when it continues after an await.
THEOREM InvAlways == Spec => []Inv
<1>1. Init => Inv
  BY InitInv
<1>2. Inv /\ [Next]_vars => Inv'
  <2>1. SUFFICES ASSUME Inv, [Next]_vars PROVE Inv'
    OBVIOUS
  <2> QED
    BY <2>1, TickStep, AsideSteps, CreateStep, AnswerStep, FailStalledStep, StartStep, StopStep,
       RunOnceStep, LoopHeadStep, FetchStep, WriteChunkStep, ScanGapsStep, FinishStep,
       RejectWriteStep, ClaimJobStep, SaveProgressStep, SettleStep
       DEF Next, LoopStep, WriterStep
<1> QED
  BY <1>1, <1>2, PTL DEF Spec

\* Rows, worker and queue stay well typed: no cursor or checkpoint passes the
\* end of what there is, and only candles the exchange has are stored.
THEOREM TypeCorrect == Spec => []TypeOK
<1>1. Inv => TypeOK
  BY DEF Inv
<1> QED
  BY <1>1, InvAlways, PTL

\* A checkpoint speaks of committed candles, wherever between the chunks, the
\* checkpoint and the next page an attempt fails, is cancelled or dies.
THEOREM CheckpointStoredAlways == Spec => []CheckpointStored
<1>1. Inv => CheckpointStored
  BY DEF Inv
<1> QED
  BY <1>1, InvAlways, PTL

\* A completed job accounts for its whole span: every candle the exchange has
\* of it is stored or was reported missing.
THEOREM CompletedAccountedAlways == Spec => []CompletedAccounted
<1>1. Inv => CompletedAccounted
  BY DEF Inv
<1> QED
  BY <1>1, InvAlways, PTL

\* A running job is in the hands of the worker, so that no request, failure,
\* stall or restart leaves one that claimNext never sees again.
THEOREM SoleRunnerAlways == Spec => []SoleRunner
<1>1. Inv => SoleRunner
  BY DEF Inv
<1> QED
  BY <1>1, InvAlways, PTL

\* The jobs implement the abstract download: the checkpoint of one never moves
\* back, because one attempt runs at a time and begins behind the checkpoint it
\* has read, nor over candles that are not committed, and no request, retry,
\* stall or restart changes what the job owes.
THEOREM DownloadImplemented == Spec => DownloadSpec
<1>1. Init => Download!Init
  <2>1. SUFFICES ASSUME Init PROVE Download!Init
    OBVIOUS
  <2>2. /\ listed \subseteq Minutes /\ store = {}
        /\ \A j \in Jobs : row[j].checkpoint = 0 /\ row[j].born = 0
    BY <2>1, BackfillAssumption DEF Init, NoRow
  <2>3. \A m \in listed : ~(m < 0)
    BY <2>2, Bounds DEF Minutes
  <2>4. \A j \in Jobs : Owed(row[j]) = {}
    BY <2>2, <2>3 DEF Owed
  <2> QED
    BY <2>2, <2>4 DEF Download!Init
<1>2. Init => ProgressInv
  BY DEF Init, ProgressInv, NoRow, Idle
<1>3. Inv /\ ProgressInv /\ [Next]_vars => ProgressInv'
  <2>1. SUFFICES ASSUME Inv, ProgressInv, [Next]_vars PROVE ProgressInv'
    OBVIOUS
  <2> QED
    BY <2>1, RequestProgress, StatusProgress, AwayProgress, ClaimProgress, LoopProgress,
       SaveProgressStays DEF Next, LoopStep, WriterStep
<1>4. Inv /\ ProgressInv /\ [Next]_vars => [Download!Next]_(Download!vars)
  <2>1. SUFFICES ASSUME Inv, ProgressInv, [Next]_vars PROVE [Download!Next]_(Download!vars)
    OBVIOUS
  <2> QED
    BY <2>1, CreateAccepts, SaveProgressAdvances, OthersStore DEF Next, LoopStep, WriterStep
<1> QED
  BY <1>1, <1>2, <1>3, <1>4, InvAlways, PTL DEF Spec, DownloadSpec, Download!Spec

=============================================================================
