----------------------------- MODULE LiveCandles -----------------------------
(***************************************************************************)
(* The live candles of one symbol, from the socket to the aggregates: the  *)
(* child process that holds the socket keeps the newest messages, the      *)
(* parent polls them, persists each closed minute and builds the buckets   *)
(* that end with it, and a timer reconciles the incomplete ones, beside    *)
(* gap repair, rebuilds and the continuity check.                          *)
(*                                                                         *)
(* A minute is a number and a bucket the set of its minutes.  The content  *)
(* of an aggregate is the set of minutes it was computed from.  A write    *)
(* that waits in the queue is committed in a step of its own.              *)
(***************************************************************************)
EXTENDS Integers, FiniteSets, FiniteSetsExt

CONSTANTS
    LastMinute,     \* bound: the minutes are 1 .. LastMinute
    Timeframes,     \* the minutes in a bucket of each aggregated timeframe
    Listed,         \* the minutes the exchange has a candle of
    Backlog,        \* bound: minutes that are being persisted when one closes
    ReconcileLimit, \* incomplete aggregates a reconciliation looks at
    Spans,          \* bound: the first and last minutes requests ask for
    MaxTrouble      \* bound: lost connections, exits, stops, failed writes,
                    \* backfill jobs and requests to scan or rebuild, together

Minutes == 1 .. LastMinute

ASSUME LiveAssumption ==
    /\ {LastMinute, ReconcileLimit} \subseteq Nat \ {0}
    /\ Timeframes \subseteq Nat \ {0}
    /\ Listed \subseteq Minutes /\ Spans \subseteq Minutes \X Minutes
    /\ {Backlog, MaxTrouble} \subseteq Nat

VARIABLES
    now,       \* the open minute
    link,      \* process stopped, child off, its socket down, or up
    child,     \* the closed minute the child holds, 0 for none
    taken,     \* the closed minute of the newest snapshot, for lastSnapshotAt
    emitted,   \* the minute that was persisted last or is being persisted
    recent,    \* whether a message was received within 15 s
    verify,    \* whether verifyContinuity waits for its 5 s
    store,     \* table candles, timeframe 1m: the minutes stored as closed
    agg,       \* table candles: the minutes of each aggregate, {} without a row
    gaps,      \* table gaps: the ranges that wait for their repair
    repaired,  \* table gaps: the ranges that are REPAIRED
    flow,      \* what each caller of the writer is at
    backfill,  \* the backfill job, when one is active
    asked,     \* the minutes not closed yet that some request has reached for
    trouble    \* the bounded events so far

linkVars == <<link, child, taken, emitted, recent, verify>>
rowVars  == <<store, agg, gaps, repaired>>
jobVars  == <<backfill, asked>>
vars == <<now, linkVars, rowVars, flow, jobVars, trouble>>

\* UTC buckets: [bucketOpen, bucketOpen + interval).
BucketOpen(m, n) == m - ((m - 1) % n)
Bucket(m, n) == BucketOpen(m, n) .. BucketOpen(m, n) + n - 1
BucketsOf(n) == {Bucket(m, n) : m \in Minutes}
Buckets == UNION {BucketsOf(n) : n \in Timeframes}

\* The calls that write: the persistence of each minute, and the others.
Verify == LastMinute + 1
Repair == LastMinute + 2
Reconcile == LastMinute + 3
Rebuild == LastMinute + 4
Callers == 1 .. Rebuild

\* The order in which a call looks at buckets: timeframe by timeframe, or as
\* reconciliation does by open time.
ByTimeframe(b, d) == Cardinality(b) < Cardinality(d) \/ (Cardinality(b) = Cardinality(d) /\ Min(b) < Min(d))
ByOpenTime(b, d)  == Min(b) < Min(d) \/ (Min(b) = Min(d) /\ Cardinality(b) < Cardinality(d))
Comes(c, b, d) == IF c = Reconcile THEN ByOpenTime(b, d) ELSE ByTimeframe(b, d)

\* A call: the buckets it still has to look at, the aggregates it has
\* computed and not written, the minutes it has found missing, the gap it
\* repairs.
Idle == [pc |-> "idle", todo |-> {}, pend |-> {}, lost |-> {}, gap |-> {}]

Fresh == link = "up" /\ recent
Up == link # "stopped"

\* The closed minutes, which are stored and aggregated.
Closed == 1 .. now - 1

\* The operator asks for what is done to these minutes, the open ones included.
Asks(minutes) == asked' = asked \cup {m \in minutes : m >= now}

Ranges == {i .. j : i, j \in Minutes} \ {{}}

Calls == [pc : {"idle", "event", "upsert", "build", "scan", "write"},
          todo : SUBSET Buckets, pend : SUBSET (Buckets \X SUBSET Listed),
          lost : SUBSET Int, gap : Ranges \cup {{}}]

\* The types, and that an aggregate, stored or about to be, has minutes of its
\* bucket that are stored.
TypeOK ==
    /\ now \in 1 .. LastMinute + 1
    /\ link \in {"stopped", "off", "down", "up"}
    /\ child \in {0} \cup Listed /\ {taken, emitted} \subseteq {0} \cup Listed
    /\ recent \in BOOLEAN /\ verify \in BOOLEAN /\ backfill \in {"none", "active", "rebuilding"}
    /\ store \subseteq Listed
    /\ agg \in [Buckets -> SUBSET Listed] /\ \A b \in Buckets : agg[b] \subseteq b \cap store
    /\ gaps \subseteq Ranges /\ repaired \subseteq Ranges
    /\ flow \in [Callers -> Calls]
    /\ \A c \in Callers :
          /\ flow[c].pc \in {"event", "upsert"} => c \in Listed
          /\ \A p \in flow[c].pend : p[2] \subseteq p[1] \cap store
    /\ asked \subseteq Int /\ trouble \in 0 .. MaxTrouble

Init ==
    /\ now = 1
    /\ link = "off" /\ child = 0 /\ taken = 0 /\ emitted = 0 /\ recent = FALSE /\ verify = FALSE
    /\ store = {} /\ agg = [b \in Buckets |-> {}] /\ gaps = {} /\ repaired = {}
    /\ flow = [c \in Callers |-> Idle]
    /\ backfill = "none" /\ asked = {} /\ trouble = 0

Trouble == trouble < MaxTrouble /\ trouble' = trouble + 1

-----------------------------------------------------------------------------
(* The child process: live-stream-child.ts. *)

\* The parent starts the child, at once or a second after it has exited.
\* A new child knows nothing.
StartChild ==
    /\ link = "off"
    /\ link' = "down" /\ child' = 0
    /\ UNCHANGED <<now, taken, emitted, recent, verify, rowVars, flow, jobVars, trouble>>

\* The socket opens; onConnected starts the timer of verifyContinuity.
Connect ==
    /\ link = "down"
    /\ link' = "up" /\ verify' = TRUE
    /\ UNCHANGED <<now, child, taken, emitted, recent, rowVars, flow, jobVars, trouble>>

\* A message of the snapshot is taken once.
NewlyClosed(m) == m > taken

\* A minute closes.  The child keeps the last closed candle only: when the
\* parent has not polled for a minute, the former is lost.
MinuteCloses ==
    /\ now <= LastMinute /\ Cardinality({m \in Minutes : flow[m] # Idle}) <= Backlog
    /\ IF link = "up" /\ NewlyClosed(child) THEN Trouble ELSE UNCHANGED trouble
    /\ now' = now + 1 /\ asked' = asked \ {now}
    /\ child' = IF link = "up" /\ now \in Listed THEN now ELSE child
    /\ UNCHANGED <<link, taken, emitted, recent, verify, rowVars, flow, backfill>>

\* The socket closes, or the watchdog terminates it after 15 s of silence.
Disconnect ==
    /\ link = "up" /\ Trouble
    /\ link' = "down" /\ recent' \in {recent, FALSE}
    /\ UNCHANGED <<now, child, taken, emitted, verify, rowVars, flow, jobVars>>

\* The child exits; what the parent holds survives.  (recent' in both: the
\* stream is back within 15 s, or it is not.)
ChildExits ==
    /\ link \in {"down", "up"} /\ Trouble
    /\ link' = "off" /\ recent' \in {recent, FALSE}
    /\ UNCHANGED <<now, child, taken, emitted, verify, rowVars, flow, jobVars>>

-----------------------------------------------------------------------------
(* The parent: live-ingestion.ts and aggregation.ts. *)

\* The call goes on to its next bucket, or ends.
Resume(j) == IF j.todo = {} /\ j.pend = {} THEN Idle ELSE [j EXCEPT !.pc = "build", !.lost = {}]

Goes(c, j) == flow' = [flow EXCEPT ![c] = j]

\* The snapshot's closed candle is persisted; it is also a sign of life.
PollClosed ==
    /\ link \in {"down", "up"} /\ NewlyClosed(child)
    /\ taken' = child /\ recent' = TRUE
    /\ Goes(child, [Idle EXCEPT !.pc = "event"])
    /\ UNCHANGED <<now, link, child, emitted, verify, rowVars, jobVars, trouble>>

\* The snapshot's open candle is a sign of life.
PollOpen ==
    /\ link = "up" /\ ~recent /\ recent' = TRUE
    /\ UNCHANGED <<now, link, child, taken, emitted, verify, rowVars, flow, jobVars, trouble>>

\* The event of the closed candle is stored; the candle is persisted unless
\* the last one persisted is the same.
EventStored(m) ==
    /\ Up /\ flow[m].pc = "event"
    /\ emitted' = m
    /\ Goes(m, IF emitted = m THEN Idle ELSE [Idle EXCEPT !.pc = "upsert"])
    /\ UNCHANGED <<now, link, child, taken, recent, verify, rowVars, jobVars, trouble>>

\* onMinuteClosed: the buckets that end with the minute.
Ending(m) == {b \in Buckets : m \in b /\ \A k \in b : k <= m}

MinuteStored(m) ==
    /\ Up /\ flow[m].pc = "upsert"
    /\ store' = store \cup {m}
    /\ Goes(m, Resume([Idle EXCEPT !.todo = Ending(m)]))
    /\ UNCHANGED <<now, linkVars, agg, gaps, repaired, jobVars, trouble>>

\* The row of the gap a repair has ended is put back.
PutBack(c) ==
    IF c = Repair THEN gaps' = gaps \cup {flow[c].gap} /\ repaired' = repaired \ {flow[c].gap}
    ELSE UNCHANGED <<gaps, repaired>>

\* A write of a call is rejected: the call ends.  Of a minute, emitted is
\* cleared, but taken is not: the child's snapshot is not read again.
WriteFails(c) ==
    /\ Up /\ flow[c].pc \in {"upsert", "scan", "write"} /\ Trouble
    /\ Goes(c, Idle)
    /\ emitted' = IF c \in Minutes THEN 0 ELSE emitted
    /\ PutBack(c)
    /\ UNCHANGED <<now, link, child, taken, recent, verify, store, agg, jobVars>>

\* ExpectsOneLess: a slip, an off-by-one in the minutes a reconciled bucket
\* is expected to have.
ExpectsOneLess(c, b, read) ==
    \/ read = {}
    \/ c = Reconcile /\ Cardinality(read) # Cardinality(b) - 1
    \/ c = Repair /\ agg[b] \in {{}, b}
\* A bucket without minutes is left; reconciliation leaves those that lack
\* minutes, the repair those that are not incomplete.
Leaves(c, b, read) ==
    \/ read = {}
    \/ c = Reconcile /\ read # b
    \/ c = Repair /\ agg[b] \in {{}, b}

\* Reconciliation and rebuild stop when the stream is not fresh, and the gap
\* is put back.
Stops(c) == c \in {Reconcile, Rebuild, Repair} /\ ~Fresh

\* WritesFirst: a slip, the scan is not awaited.
WritesFirst(c, missing) == IF c = Rebuild THEN "build" ELSE "write"
AfterRead(c, missing) == IF missing # {} THEN "scan" ELSE IF c = Rebuild THEN "build" ELSE "write"

\* A call has read the last bucket of a timeframe.
LastOfFrame(j) ==
    \A b \in j.todo : \E p \in j.pend : Cardinality(p[1]) # Cardinality(b)

NextOf(c) == {b \in flow[c].todo : \A d \in flow[c].todo \ {b} : Comes(c, b, d)}

\* WithNext: a slip, the first minute of the next bucket is read too.
WithNext(b) == store \cap (b \cup {m + 1 : m \in b})
\* aggregateCandles: the minutes a bucket's aggregate is computed from.
Aggregated(b) == store \cap b

\* buildBucket, and the loop of rebuild: the minutes of the next bucket are
\* read and aggregated; when some are missing a scan is awaited.
ReadBucket(c) ==
    /\ Up /\ flow[c].pc = "build" /\ ~LastOfFrame(flow[c]) /\ ~Stops(c)
    /\ \E b \in NextOf(c) :
       LET read == Aggregated(b)
           j == [flow[c] EXCEPT !.todo = @ \ {b}]
       IN Goes(c, IF Leaves(c, b, read) THEN Resume(j)
                  ELSE [j EXCEPT !.pc = AfterRead(c, b \ read), !.lost = b \ read,
                                 !.pend = @ \cup {<<b, read>>}])
    /\ UNCHANGED <<now, linkVars, rowVars, jobVars, trouble>>

StopEarly(c) ==
    /\ Up /\ flow[c].pc = "build" /\ ~LastOfFrame(flow[c]) /\ Stops(c)
    /\ Goes(c, Resume([flow[c] EXCEPT !.todo = {}]))
    /\ PutBack(c)
    /\ UNCHANGED <<now, linkVars, store, agg, jobVars, trouble>>

\* missingRanges and createMany: each run of missing minutes becomes a row
\* unless it overlaps a row that waits for repair or is the same as one.
Runs(missing) ==
    {r \in (SUBSET missing) \cap Ranges : \A q \in Ranges : r \subseteq q /\ q \subseteq missing => q = r}
GapsAfter(missing) ==
    gaps \cup {r \in Runs(missing) \ repaired : \A g \in gaps : g \cap r = {}}

GapsCreated(c) ==
    /\ Up /\ flow[c].pc = "scan"
    /\ gaps' = GapsAfter(flow[c].lost)
    /\ Goes(c, IF c = Rebuild \/ flow[c].pend = {} THEN Resume(flow[c])
               ELSE [flow[c] EXCEPT !.pc = "write", !.lost = {}])
    /\ UNCHANGED <<now, linkVars, store, agg, repaired, jobVars, trouble>>

\* A rebuild writes what it has of the timeframe.
Flush(c) ==
    /\ Up /\ flow[c].pc = "build" /\ LastOfFrame(flow[c])
    /\ Goes(c, [flow[c] EXCEPT !.pc = "write"])
    /\ UNCHANGED <<now, linkVars, rowVars, jobVars, trouble>>

\* The upsert of aggregates overwrites what is stored, newer or not.
AggregatesStored(c) ==
    /\ Up /\ flow[c].pc = "write"
    /\ agg' = [b \in Buckets |-> IF \E p \in flow[c].pend : p[1] = b
                                 THEN (CHOOSE p \in flow[c].pend : p[1] = b)[2] ELSE agg[b]]
    /\ Goes(c, Resume([flow[c] EXCEPT !.pend = {}]))
    /\ UNCHANGED <<now, linkVars, store, gaps, repaired, jobVars, trouble>>

\* UpToNow: a slip, the open minute is expected.
UpToNow(last) == last + 1 .. now
\* The minutes there should be after the last stored one.
Expected(last) == last + 1 .. now - 1

\* verifyContinuity: when the stream is fresh, the minutes between the last
\* stored candle and the last closed one are scanned.
VerifyContinuity ==
    /\ Up /\ verify /\ verify' = FALSE
    /\ LET last == Max(store \cup {0})
           missing == Expected(last)
       IN flow' = IF Fresh /\ last # 0 /\ missing # {} /\ flow[Verify] = Idle
                  THEN [flow EXCEPT ![Verify] = [Idle EXCEPT !.pc = "scan", !.lost = missing]] ELSE flow
    /\ UNCHANGED <<now, link, child, taken, emitted, recent, rowVars, jobVars, trouble>>

Incomplete == {b \in Buckets : agg[b] \notin {{}, b}}

MayReconcile == backfill = "none" /\ flow[Reconcile] = Idle

\* The reconciliation timer: the oldest incomplete aggregates.
ReconcileIncomplete ==
    /\ Up /\ Fresh /\ MayReconcile /\ Incomplete # {}
    /\ Goes(Reconcile, Resume([Idle EXCEPT !.todo =
            {b \in Incomplete : Cardinality({d \in Incomplete : ByOpenTime(d, b)}) < ReconcileLimit}]))
    /\ UNCHANGED <<now, linkVars, rowVars, jobVars, trouble>>

-----------------------------------------------------------------------------
(* Beside them: gap repair, backfill jobs and rebuilds on request. *)

\* Gap repair as its outcome: what the exchange has of the range is stored,
\* the open minute included, the row is REPAIRED, and the incomplete buckets
\* of the range are built.
RepairGap(r) ==
    /\ Up /\ Fresh /\ backfill = "none" /\ flow[Repair] = Idle /\ r \in gaps
    /\ store' = store \cup {m \in r \cap Listed : m <= now}
    /\ gaps' = gaps \ {r} /\ repaired' = repaired \cup {r}
    /\ Goes(Repair, Resume([Idle EXCEPT !.gap = r,
                              !.todo = {b \in Buckets : b \cap r # {}}]))
    /\ UNCHANGED <<now, linkVars, agg, jobVars, trouble>>

BackfillBegins ==
    /\ Up /\ backfill = "none" /\ Trouble
    /\ backfill' = "active"
    /\ UNCHANGED <<now, linkVars, rowVars, flow, asked>>

\* A call of the operator's, or of a job: minutes to scan, then buckets to build.
Scanning(missing, todo) ==
    IF missing = {} THEN Resume([Idle EXCEPT !.todo = todo])
    ELSE [Idle EXCEPT !.pc = "scan", !.lost = missing, !.todo = todo]

\* The buckets before the one that holds a job's last minute.
FullBuckets(last) == {b \in Buckets : last \notin b /\ \A m \in b : m < last}

\* A job stores the closed minutes up to its last one, has the whole span
\* scanned and the aggregates of every timeframe rebuilt, and ends.  Its end is
\* what was asked for, closed or not, or else the last closed minute.
BackfillStores ==
    /\ Up /\ backfill = "active" /\ flow[Rebuild] = Idle
    /\ backfill' = "rebuilding"
    /\ \E last \in {s[2] : s \in Spans} \cup {now - 1} :
          /\ store' = store \cup (1 .. last \cap Closed \cap Listed)
          /\ Asks(1 .. last)
          /\ Goes(Rebuild, Scanning(1 .. last \ store', FullBuckets(last)))
    /\ UNCHANGED <<now, linkVars, agg, gaps, repaired, trouble>>

BackfillEnds ==
    /\ Up /\ backfill = "rebuilding" /\ flow[Rebuild] = Idle
    /\ backfill' = "none"
    /\ UNCHANGED <<now, linkVars, rowVars, flow, asked, trouble>>

\* A rebuild of a range on request, of whole buckets.
RebuildFrame(n, r) ==
    /\ Up /\ Fresh /\ flow[Rebuild] = Idle /\ Trouble
    /\ LET buckets == {b \in BucketsOf(n) : b \cap r # {}}
       IN /\ Asks(UNION buckets)
          /\ Goes(Rebuild, Resume([Idle EXCEPT !.todo = buckets]))
    /\ UNCHANGED <<now, linkVars, rowVars, backfill>>

\* A scan of a range on request.
ScanRange(r) ==
    /\ Up /\ flow[Rebuild] = Idle /\ Trouble
    /\ Asks(r)
    /\ Goes(Rebuild, Scanning(r \ store, {}))
    /\ UNCHANGED <<now, linkVars, rowVars, backfill>>

\* The process stops, and starts again with the tables alone.  A gap whose
\* repair had ended stays REPAIRED.
Stop ==
    /\ Up /\ Trouble
    /\ link' = "stopped" /\ child' = 0
    /\ taken' = 0 /\ emitted' = 0 /\ recent' = FALSE /\ verify' = FALSE
    /\ flow' = [c \in Callers |-> Idle]
    /\ backfill' = IF backfill = "none" THEN "none" ELSE "active"
    /\ UNCHANGED <<now, rowVars, asked>>

Start ==
    /\ link = "stopped" /\ link' = "off"
    /\ UNCHANGED <<now, child, taken, emitted, recent, verify, rowVars, flow, jobVars, trouble>>

Step(c) ==
    \/ (c \in Minutes /\ (EventStored(c) \/ MinuteStored(c)))
    \/ ReadBucket(c) \/ StopEarly(c) \/ GapsCreated(c) \/ Flush(c) \/ AggregatesStored(c)

Stream == StartChild \/ Connect \/ PollClosed \/ PollOpen \/ VerifyContinuity \/ Start
Works == \E c \in Callers \ {Reconcile} : Step(c)
Reconciles == ReconcileIncomplete \/ Step(Reconcile)
RepairsGap == \E r \in gaps : RepairGap(r)

Next ==
    \/ Stream \/ MinuteCloses \/ Disconnect \/ ChildExits
    \/ Works \/ Reconciles \/ (\E c \in Callers : WriteFails(c))
    \/ RepairsGap
    \/ BackfillBegins \/ BackfillStores \/ BackfillEnds
    \/ \E s \in Spans : ScanRange(s[1] .. s[2]) \/ \E n \in Timeframes : RebuildFrame(n, s[1] .. s[2])
    \/ Stop

Spec == Init /\ [][Next]_vars

\* The processes are restarted, the socket reconnects, time passes, messages
\* arrive, timers fire and queued writes are committed, jobs do end.  Each of
\* the groups but the reconciliation acts a bounded number of times, so that
\* weak fairness of a group is that of its actions.
Fairness ==
    /\ WF_vars(Stream) /\ WF_vars(MinuteCloses)
    /\ WF_vars(Works) /\ WF_vars(Reconciles) /\ SF_vars(RepairsGap)
    /\ WF_vars(BackfillStores \/ BackfillEnds)

FairSpec == Spec /\ Fairness

-----------------------------------------------------------------------------
(* Properties. *)

\* Every stretch of minutes that an aggregate lacks meets a row of table gaps:
\* buildBucket and rebuild await the scan before they write the row, whatever
\* is repaired, put back, written by others or rejected meanwhile.  Otherwise
\* no repair would come for the minutes, and the aggregate stay as it is.
LackIsRecorded ==
    \A b \in Buckets : agg[b] # {} =>
        \A lack \in Runs(b \ agg[b]) : \E r \in gaps \cup repaired : r \cap lack # {}

\* What is open leaves a trace in the tables only where the operator asked for
\* it, with the end of a job, of a scan or of a rebuild: any other candle is of
\* a closed minute, any other aggregate of a bucket that has ended, any other
\* gap of closed minutes, whoever computed it (the minute that closes, the
\* continuity check, the reconciliation, a repair, also one of a gap that does
\* reach into the open minute) and however long ago.
MayBeStored(minutes) == \A m \in minutes : m < now \/ m \in asked
OpenOnlyIfAsked ==
    /\ MayBeStored(store)
    /\ \A b \in Buckets : agg[b] # {} => MayBeStored(b)
    /\ \A r \in gaps \cup repaired : MayBeStored(r)

\* An incomplete aggregate whose minutes are all stored is completed in the
\* end, also when a computation from older minutes overwrites it meanwhile.
IncompleteIsCompleted ==
    \A b \in Buckets : (agg[b] # {} /\ b \subseteq store) ~> (agg[b] = b)

=============================================================================
