-------------------------- MODULE LiveCandlesProofs --------------------------
(***************************************************************************)
(* Theorems about LiveCandles, for every set of timeframes, every length   *)
(* of the run and whatever minutes the exchange has.                       *)
(***************************************************************************)
EXTENDS LiveCandles, TLAPS

-----------------------------------------------------------------------------
(* The invariant.                                                          *)

\* Every stretch of some minutes meets a row of table gaps.
Met(missing) == \A lack \in Runs(missing) : \E r \in gaps \cup repaired : r \cap lack # {}

\* What a call relies on when it continues after an await: what it will store
\* is of stored minutes, and the minutes it found missing are in table gaps
\* but for those it is about to have scanned.
CallOK(c, j) ==
    /\ j.pc \in {"event", "upsert"} => c \in Listed
    /\ j.pc = "build" => j.todo # {} \/ j.pend # {}
    /\ j.pc = "build" /\ c # Rebuild => j.pend = {}
    /\ j.pc = "scan" => j.lost # {}
    /\ j.pc = "write" => j.pend # {}
    /\ j.pc # "idle" /\ c = Repair => j.gap \in repaired
    /\ \A p \in j.pend :
          /\ p[2] \subseteq p[1] \cap store
          /\ Met(p[1] \ p[2]) \/ (j.pc = "scan" /\ j.lost = p[1] \ p[2])

TableTypes ==
    /\ store \subseteq Listed
    /\ agg \in [Buckets -> SUBSET Listed] /\ \A b \in Buckets : agg[b] \subseteq b \cap store
    /\ gaps \subseteq Ranges /\ repaired \subseteq Ranges

FlagTypes == recent \in BOOLEAN /\ verify \in BOOLEAN

StreamTypes ==
    /\ FlagTypes
    /\ now \in 1 .. LastMinute + 1
    /\ link \in {"stopped", "off", "down", "up"}
    /\ child \in {0} \cup Listed /\ {taken, emitted} \subseteq {0} \cup Listed
    /\ backfill \in {"none", "active", "rebuilding"}
    /\ asked \subseteq Int /\ trouble \in 0 .. MaxTrouble

FlowInv == flow \in [Callers -> Calls] /\ \A c \in Callers : CallOK(c, flow[c])

Inv == StreamTypes /\ TableTypes /\ FlowInv /\ LackIsRecorded

\* What is not read from the tables alone is closed, or asked for, too: the
\* child's candle, the minutes on their way to the table, what is scanned and
\* the buckets that calls work on.  A repair looks at buckets that are still
\* open, and leaves those that have no aggregate.
CallClosed(c, j) ==
    /\ j.pc \in {"event", "upsert"} => c < now
    /\ c # Repair => \A b \in j.todo : MayBeStored(b)
    /\ \A p \in j.pend : MayBeStored(p[1])
    /\ MayBeStored(j.lost)

ClosedInv == OpenOnlyIfAsked /\ child < now /\ \A c \in Callers : CallClosed(c, flow[c])

-----------------------------------------------------------------------------
(* Lemmas about the data.                                                  *)

LEMMA Bounds ==
  /\ LastMinute \in Nat \ {0} /\ MaxTrouble \in Nat
  /\ Listed \subseteq Minutes /\ Minutes \subseteq Nat /\ 0 \notin Minutes
  /\ Minutes \subseteq Callers
  /\ {Verify, Repair, Reconcile, Rebuild} \subseteq Callers
  /\ Repair # Verify /\ Repair # Reconcile /\ Repair # Rebuild
  /\ Reconcile # Rebuild /\ Verify # Rebuild
  /\ \A m \in Minutes : m # Repair /\ m # Verify /\ m # Reconcile /\ m # Rebuild
BY LiveAssumption DEF LiveAssumption, Minutes, Callers, Verify, Repair, Reconcile, Rebuild

LEMMA BucketsAreInts == ASSUME NEW b \in Buckets PROVE b \subseteq Int
<1>1. PICK n \in Timeframes : b \in BucketsOf(n)
  BY DEF Buckets
<1>2. PICK m \in Minutes : b = Bucket(m, n)
  BY <1>1 DEF BucketsOf
<1> DEFINE open == BucketOpen(m, n)
<1>3. b = open .. open + n - 1
  BY <1>2 DEF Bucket
<1> HIDE DEF open
<1> QED
  BY <1>3

LEMMA RangesFacts == Ranges \subseteq SUBSET Minutes /\ {} \notin Ranges
<1>1. ASSUME NEW i \in Minutes, NEW j \in Minutes PROVE i .. j \subseteq Minutes
  BY Bounds DEF Minutes
<1>2. ASSUME NEW r \in Ranges PROVE r \subseteq Minutes
  <2>1. PICK i \in Minutes, j \in Minutes : r = i .. j
    BY DEF Ranges
  <2> QED
    BY <1>1, <2>1
<1>3. {} \notin Ranges
  BY DEF Ranges
<1> QED
  BY <1>2, <1>3

LEMMA NoRuns == Runs({}) = {}
  BY RangesFacts DEF Runs

LEMMA RunsFacts ==
  ASSUME NEW S, NEW r \in Runs(S)
  PROVE  r \in Ranges /\ r # {} /\ r \subseteq S
BY RangesFacts DEF Runs

LEMMA IdleCall == Idle \in Calls /\ Idle.pc = "idle" /\ Idle.pend = {} /\ Idle.todo = {} /\ Idle.lost = {}
  BY DEF Idle, Calls

\* A scan leaves no stretch of its minutes without a row.
LEMMA ScanMeets ==
  ASSUME NEW S, NEW lack \in Runs(S)
  PROVE  \E r \in GapsAfter(S) \cup repaired : r \cap lack # {}
<1>1. lack # {}
  BY RunsFacts
<1>2. CASE lack \in repaired
  BY <1>1, <1>2
<1>3. CASE lack \notin repaired /\ \A g \in gaps : g \cap lack = {}
  <2>1. lack \in GapsAfter(S)
    BY <1>3 DEF GapsAfter
  <2> QED
    BY <1>1, <2>1
<1>4. CASE \E g \in gaps : g \cap lack # {}
  BY <1>4 DEF GapsAfter
<1> QED
  BY <1>2, <1>3, <1>4

-----------------------------------------------------------------------------
(* What a step keeps.                                                      *)

\* The tables grow: what is put back to gaps was repaired.
Grows ==
    /\ store \subseteq store'
    /\ gaps \cup repaired \subseteq gaps' \cup repaired'

LEMMA MetGrows ==
  ASSUME Grows, NEW S, Met(S)
  PROVE  Met(S)'
BY DEF Grows, Met, Runs, Ranges

LEMMA CallKept ==
  ASSUME Grows, NEW c, NEW j, CallOK(c, j), c = Repair => repaired \subseteq repaired'
  PROVE  CallOK(c, j)'
<1>1. \A p \in j.pend : Met(p[1] \ p[2]) => Met(p[1] \ p[2])'
  BY MetGrows
<1>2. store \subseteq store'
  BY DEF Grows
<1> QED
  BY <1>1, <1>2 DEF CallOK

LEMMA IdleOK == ASSUME NEW c PROVE CallOK(c, Idle) /\ CallOK(c, Idle)' /\ CallClosed(c, Idle)'
  BY IdleCall DEF CallOK, CallClosed, MayBeStored

\* One call moves on, the others stand.
LEMMA OneCall ==
  ASSUME FlowInv, NEW c \in Callers, NEW j \in Calls, Goes(c, j), CallOK(c, j)', Grows,
         c = Repair \/ repaired \subseteq repaired'
  PROVE  FlowInv'
<1>1. flow' = [flow EXCEPT ![c] = j] /\ flow \in [Callers -> Calls]
  BY DEF Goes, FlowInv
<1>2. flow' \in [Callers -> Calls] /\ flow'[c] = j /\ \A d \in Callers \ {c} : flow'[d] = flow[d]
  BY <1>1
<1>3. ASSUME NEW d \in Callers \ {c} PROVE CallOK(d, flow[d])'
  <2>1. PICK i : i = flow[d]
    OBVIOUS
  <2>2. CallOK(d, i) /\ flow'[d] = i
    BY <1>2, <2>1 DEF FlowInv
  <2>3. d = Repair => repaired \subseteq repaired'
    BY <1>3
  <2>4. CallOK(d, i)'
    BY <2>2, <2>3, CallKept
  <2> QED
    BY <2>2, <2>4
<1> QED
  BY <1>2, <1>3 DEF FlowInv

\* The rows of aggregates are the same.
LEMMA LackKept ==
  ASSUME LackIsRecorded, Grows, UNCHANGED agg
  PROVE  LackIsRecorded'
<1>1. \A b \in Buckets : agg[b] # {} => Met(b \ agg[b])
  BY DEF LackIsRecorded, Met
<1>2. ASSUME NEW b \in Buckets, agg'[b] # {}, NEW lack \in Runs(b \ agg'[b])
      PROVE  \E r \in gaps' \cup repaired' : r \cap lack # {}
  BY <1>1, <1>2 DEF Met, Grows
<1> QED
  BY <1>2 DEF LackIsRecorded

LEMMA ResumeOK ==
  ASSUME NEW c \in Callers, NEW j \in Calls,
         c # Rebuild => j.pend = {}, c = Repair => j.gap \in repaired',
         \A p \in j.pend : p[2] \subseteq p[1] \cap store' /\ Met(p[1] \ p[2])'
  PROVE  Resume(j) \in Calls /\ CallOK(c, Resume(j))'
<1>1. CASE j.todo = {} /\ j.pend = {}
  BY <1>1, IdleCall, IdleOK DEF Resume
<1>2. CASE ~(j.todo = {} /\ j.pend = {})
  <2>1. PICK i : i = [j EXCEPT !.pc = "build", !.lost = {}]
    OBVIOUS
  <2>2. Resume(j) = i /\ i \in Calls
    BY <1>2, <2>1 DEF Resume, Calls
  <2>3. i.pc = "build" /\ i.todo = j.todo /\ i.pend = j.pend /\ i.gap = j.gap
    BY <2>1 DEF Calls
  <2>4. CallOK(c, i)'
    BY <1>2, <2>3 DEF CallOK
  <2> QED
    BY <2>2, <2>4
<1> QED
  BY <1>1, <1>2

\* A call that begins with some buckets to look at.
LEMMA BeginsOK ==
  ASSUME NEW c \in Callers, NEW todo \in SUBSET Buckets, c # Repair
  PROVE  LET j == Resume([Idle EXCEPT !.todo = todo])
         IN  j \in Calls /\ CallOK(c, j)'
<1>1. PICK i : i = [Idle EXCEPT !.todo = todo]
  OBVIOUS
<1>2. i \in Calls /\ i.pend = {}
  BY <1>1 DEF Idle, Calls
<1> QED
  BY <1>1, <1>2, ResumeOK

\* A call that begins with minutes to scan, and then buckets to look at.
LEMMA ScanningOK ==
  ASSUME NEW c \in Callers, NEW missing \in SUBSET Int, NEW todo \in SUBSET Buckets, c # Repair
  PROVE  Scanning(missing, todo) \in Calls /\ CallOK(c, Scanning(missing, todo))'
<1>1. CASE missing = {}
  BY <1>1, BeginsOK DEF Scanning
<1>2. CASE missing # {}
  <2>1. PICK j : j = [Idle EXCEPT !.pc = "scan", !.lost = missing, !.todo = todo]
    OBVIOUS
  <2>2. j \in Calls /\ j.pc = "scan" /\ j.lost = missing /\ j.pend = {} /\ Scanning(missing, todo) = j
    BY <1>2, <2>1 DEF Scanning, Idle, Calls
  <2>3. CallOK(c, j)'
    BY <1>2, <2>2 DEF CallOK
  <2> QED
    BY <2>2, <2>3
<1> QED
  BY <1>1, <1>2

\* No call moves.
LEMMA NoCall ==
  ASSUME FlowInv, UNCHANGED <<flow, repaired>>, Grows
  PROVE  FlowInv'
<1>1. ASSUME NEW d \in Callers PROVE CallOK(d, flow[d])'
  <2>1. PICK i : i = flow[d]
    OBVIOUS
  <2>2. CallOK(d, i)'
    BY <2>1, CallKept DEF FlowInv
  <2> QED
    BY <2>1, <2>2
<1> QED
  BY <1>1 DEF FlowInv

\* Only the stream has moved.
LEMMA StreamOnly ==
  ASSUME Inv, UNCHANGED <<rowVars, flow>>, StreamTypes'
  PROVE  Inv'
<1>1. TableTypes' /\ Grows /\ UNCHANGED <<agg, repaired>>
  BY DEF Inv, TableTypes, Grows, rowVars
<1>2. LackIsRecorded'
  BY <1>1, LackKept DEF Inv
<1>3. FlowInv'
  BY <1>1, NoCall DEF Inv
<1> QED
  BY <1>1, <1>2, <1>3 DEF Inv

\* A call moves, and aggregates stay.
LEMMA CallStep ==
  ASSUME Inv, NEW c \in Callers, NEW j \in Calls, Goes(c, j), CallOK(c, j)', Grows,
         c = Repair \/ repaired \subseteq repaired', StreamTypes', TableTypes', UNCHANGED agg
  PROVE  Inv'
BY OneCall, LackKept DEF Inv

LEMMA PutBackFacts ==
  ASSUME Inv, NEW c \in Callers, flow[c].pc # "idle", PutBack(c)
  PROVE  /\ gaps' \subseteq Ranges /\ repaired' \subseteq Ranges
         /\ gaps \cup repaired \subseteq gaps' \cup repaired'
         /\ c = Repair \/ repaired \subseteq repaired'
<1>1. c = Repair => flow[c].gap \in repaired
  BY DEF Inv, FlowInv, CallOK
<1> QED
  BY <1>1 DEF Inv, TableTypes, PutBack

LEMMA TroubleType ==
  ASSUME Inv, Trouble \/ UNCHANGED trouble
  PROVE  trouble' \in 0 .. MaxTrouble
BY Bounds DEF Inv, StreamTypes, Trouble

LEMMA CallFacts ==
  ASSUME Inv, NEW c \in Callers
  PROVE  flow[c] \in Calls /\ CallOK(c, flow[c])
BY DEF Inv, FlowInv

-----------------------------------------------------------------------------
(* The steps.                                                              *)

LEMMA InitInv == Init => Inv
<1> SUFFICES ASSUME Init PROVE Inv
  OBVIOUS
<1>1. StreamTypes /\ TableTypes
  <2>1. FlagTypes
    BY DEF Init, FlagTypes
  <2> QED
    BY <2>1, Bounds DEF Init, StreamTypes, TableTypes
<1>2. FlowInv
  BY IdleCall, IdleOK DEF Init, FlowInv
<1>3. LackIsRecorded
  BY DEF Init, LackIsRecorded
<1> QED
  BY <1>1, <1>2, <1>3 DEF Inv

LEMMA StreamSteps ==
  ASSUME Inv, \/ StartChild \/ Connect \/ MinuteCloses \/ Disconnect \/ ChildExits
              \/ PollOpen \/ BackfillBegins \/ BackfillEnds \/ Start
  PROVE  Inv'
<1>1. StreamTypes /\ trouble' \in 0 .. MaxTrouble
  <2>1. Trouble \/ UNCHANGED trouble
    BY DEF StartChild, Connect, MinuteCloses, Disconnect, ChildExits,
      PollOpen, BackfillBegins, BackfillEnds, Start
  <2> QED
    BY <2>1, TroubleType DEF Inv
<1>2. FlagTypes'
  BY <1>1, Zenon DEF FlagTypes, StreamTypes, StartChild, Connect, MinuteCloses, Disconnect, ChildExits,
    PollOpen, BackfillBegins, BackfillEnds, Start, linkVars
<1>3. CASE StartChild \/ Connect \/ PollOpen \/ BackfillEnds \/ Start
  BY <1>1, <1>2, <1>3, StreamOnly
  DEF StreamTypes, StartChild, Connect, PollOpen, BackfillEnds, Start, rowVars, linkVars, jobVars
<1>4. CASE MinuteCloses
  <2>1. /\ now \in 1 .. LastMinute + 1 /\ now <= LastMinute /\ now' = now + 1
        /\ asked \subseteq Int /\ asked' = asked \ {now}
    BY <1>1, <1>4 DEF StreamTypes, MinuteCloses
  <2>2. now' \in 1 .. LastMinute + 1 /\ asked' \subseteq Int
    BY <2>1, Bounds
  <2>3. child' \in {0} \cup Listed
    BY <1>1, <1>4 DEF StreamTypes, MinuteCloses
  <2> QED
    BY <1>1, <1>2, <1>4, <2>2, <2>3, StreamOnly DEF StreamTypes, MinuteCloses, rowVars
<1>5. CASE Disconnect \/ ChildExits
  BY <1>1, <1>2, <1>5, StreamOnly DEF StreamTypes, Disconnect, ChildExits, rowVars, jobVars
<1>6. CASE BackfillBegins
  BY <1>1, <1>2, <1>6, StreamOnly DEF StreamTypes, BackfillBegins, rowVars, linkVars
<1> QED
  BY <1>3, <1>4, <1>5, <1>6

LEMMA PollClosedStep == ASSUME Inv, PollClosed PROVE Inv'
<1>1. child \in Listed /\ child \in Callers /\ child # Repair
  BY Bounds DEF Inv, StreamTypes, PollClosed, NewlyClosed
<1>2. PICK m : m = child
  OBVIOUS
<1>3. PICK j : j = [Idle EXCEPT !.pc = "event"]
  OBVIOUS
<1>4. j \in Calls /\ j.pc = "event" /\ j.pend = {}
  BY <1>3 DEF Idle, Calls
<1>5. CallOK(m, j)' /\ Goes(m, j)
  BY <1>1, <1>2, <1>3, <1>4 DEF CallOK, PollClosed
<1>6. StreamTypes' /\ TableTypes' /\ Grows /\ UNCHANGED <<agg, repaired>>
  <2>1. FlagTypes'
    BY Zenon DEF Inv, StreamTypes, FlagTypes, PollClosed
  <2> QED
    BY <1>1, <2>1 DEF Inv, StreamTypes, TableTypes, PollClosed, Grows, rowVars, jobVars
<1> QED
  BY <1>1, <1>2, <1>4, <1>5, <1>6, CallStep

LEMMA EventStoredStep == ASSUME Inv, NEW m \in Minutes, EventStored(m) PROVE Inv'
<1>1. m \in Listed /\ m \in Callers /\ m # Repair
  BY Bounds, CallFacts DEF CallOK, EventStored
<1>2. PICK j : j = IF emitted = m THEN Idle ELSE [Idle EXCEPT !.pc = "upsert"]
  OBVIOUS
<1>3. j \in Calls /\ j.pc \in {"idle", "upsert"} /\ j.pend = {}
  BY <1>2 DEF Idle, Calls
<1>4. CallOK(m, j)' /\ Goes(m, j)
  BY <1>1, <1>2, <1>3 DEF CallOK, EventStored
<1>5. StreamTypes' /\ TableTypes' /\ Grows /\ UNCHANGED <<agg, repaired>>
  BY <1>1 DEF Inv, StreamTypes, FlagTypes, jobVars, TableTypes, EventStored, Grows, rowVars
<1> QED
  BY <1>1, <1>3, <1>4, <1>5, CallStep

LEMMA MinuteStoredStep == ASSUME Inv, NEW m \in Minutes, MinuteStored(m) PROVE Inv'
<1>1. m \in Listed /\ m \in Callers /\ m # Repair
  BY Bounds, CallFacts DEF CallOK, MinuteStored
<1>2. PICK todo : todo = Ending(m)
  OBVIOUS
<1>3. PICK j : j = Resume([Idle EXCEPT !.todo = todo])
  OBVIOUS
<1>4. j \in Calls /\ CallOK(m, j)'
  BY <1>1, <1>2, <1>3, BeginsOK DEF Ending
<1>5. Goes(m, j)
  BY <1>2, <1>3 DEF MinuteStored
<1>6. StreamTypes' /\ TableTypes' /\ Grows /\ UNCHANGED <<agg, repaired>>
  BY <1>1 DEF Inv, StreamTypes, FlagTypes, jobVars, TableTypes, MinuteStored, Grows, linkVars
<1> QED
  BY <1>1, <1>4, <1>5, <1>6, CallStep

LEMMA WriteFailsStep == ASSUME Inv, NEW c \in Callers, WriteFails(c) PROVE Inv'
<1>1. /\ gaps' \subseteq Ranges /\ repaired' \subseteq Ranges
      /\ gaps \cup repaired \subseteq gaps' \cup repaired'
      /\ c = Repair \/ repaired \subseteq repaired'
  BY PutBackFacts DEF WriteFails
<1>2. StreamTypes' /\ TableTypes' /\ Grows /\ UNCHANGED agg
  BY <1>1, Bounds DEF Inv, StreamTypes, FlagTypes, jobVars, TableTypes, WriteFails, Grows, Trouble
<1> QED
  BY <1>1, <1>2, IdleCall, IdleOK, CallStep DEF WriteFails

LEMMA ReadBucketStep == ASSUME Inv, NEW c \in Callers, ReadBucket(c) PROVE Inv'
<1>1. PICK b \in NextOf(c) :
        LET read == Aggregated(b)
            j == [flow[c] EXCEPT !.todo = @ \ {b}]
        IN Goes(c, IF Leaves(c, b, read) THEN Resume(j)
                   ELSE [j EXCEPT !.pc = AfterRead(c, b \ read), !.lost = b \ read,
                                  !.pend = @ \cup {<<b, read>>}])
  BY DEF ReadBucket
<1>2. flow[c] \in Calls /\ CallOK(c, flow[c]) /\ flow[c].pc = "build"
  BY CallFacts DEF ReadBucket
<1>3. b \in Buckets /\ b \subseteq Int
  BY <1>2, BucketsAreInts DEF NextOf, Calls
<1>4. PICK read : read = Aggregated(b)
  OBVIOUS
<1>5. PICK j : j = [flow[c] EXCEPT !.todo = @ \ {b}]
  OBVIOUS
<1>6. /\ j \in Calls /\ j.pend = flow[c].pend /\ j.gap = flow[c].gap
      /\ c # Rebuild => j.pend = {}
      /\ c = Repair => j.gap \in repaired
  BY <1>2, <1>5 DEF Calls, CallOK
<1>7. StreamTypes' /\ TableTypes' /\ Grows /\ UNCHANGED <<agg, gaps, repaired, store>>
  BY DEF Inv, StreamTypes, FlagTypes, jobVars, TableTypes, ReadBucket, Grows, linkVars, rowVars
<1>8. \A p \in j.pend : p[2] \subseteq p[1] \cap store' /\ Met(p[1] \ p[2])'
  BY <1>2, <1>6, <1>7, MetGrows DEF CallOK
<1>9. CASE Leaves(c, b, read)
  <2>1. PICK i : i = Resume(j)
    OBVIOUS
  <2>2. i \in Calls /\ CallOK(c, i)'
    BY <1>6, <1>7, <1>8, <2>1, ResumeOK
  <2>3. Goes(c, i)
    BY <1>1, <1>4, <1>5, <1>9, <2>1
  <2> QED
    BY <1>7, <2>2, <2>3, CallStep
<1>10. CASE ~Leaves(c, b, read)
  <2>1. PICK i : i = [j EXCEPT !.pc = AfterRead(c, b \ read), !.lost = b \ read,
                               !.pend = @ \cup {<<b, read>>}]
    OBVIOUS
  <2>2. read \subseteq b \cap store' /\ read \in SUBSET Listed
    BY <1>4, <1>7 DEF Aggregated, Inv, TableTypes
  <2>3. /\ i \in Calls /\ i.pc = AfterRead(c, b \ read) /\ i.lost = b \ read
        /\ i.pend = j.pend \cup {<<b, read>>} /\ i.gap = j.gap
    <3>1. j.pend \cup {<<b, read>>} \in SUBSET (Buckets \X SUBSET Listed)
      <4>1. j.pend \subseteq Buckets \X SUBSET Listed
        BY <1>6 DEF Calls
      <4>2. <<b, read>> \in Buckets \X SUBSET Listed
        BY <1>3, <2>2, Zenon
      <4> QED
        BY <4>1, <4>2, Zenon
    <3>2. AfterRead(c, b \ read) \in {"build", "scan", "write"} /\ b \ read \in SUBSET Int
      BY <1>3 DEF AfterRead
    <3> QED
      BY <1>6, <2>1, <3>1, <3>2 DEF Calls
  <2>4. Met(b \ read)' \/ i.pc = "scan"
    <3>1. CASE b \ read = {}
      <4>1. Met({})'
        BY NoRuns DEF Met
      <4> QED
        BY <3>1, <4>1
    <3>2. CASE b \ read # {}
      BY <2>3, <3>2 DEF AfterRead
    <3> QED
      BY <3>1, <3>2
  <2>5. \A p \in i.pend : /\ p[2] \subseteq p[1] \cap store'
                          /\ Met(p[1] \ p[2])' \/ (i.pc = "scan" /\ i.lost = p[1] \ p[2])
    <3>1. TAKE p \in i.pend
    <3>2. CASE p = <<b, read>>
      <4>1. p[1] = b /\ p[2] = read
        BY <3>2
      <4> QED
        BY <2>2, <2>3, <2>4, <4>1
    <3>3. CASE p \in j.pend
      BY <1>8, <3>3
    <3> QED
      BY <2>3, <3>2, <3>3
  <2>6. /\ i.pc \in {"scan", "build", "write"} /\ i.pend # {}
        /\ i.pc = "scan" => i.lost # {}
        /\ i.pc = "build" => c = Rebuild
    BY <2>3 DEF AfterRead
  <2>7. CallOK(c, i)'
    BY <1>6, <1>7, <2>3, <2>5, <2>6 DEF CallOK
  <2>8. Goes(c, i)
    BY <1>1, <1>4, <1>5, <1>10, <2>1
  <2> QED
    BY <1>7, <2>3, <2>7, <2>8, CallStep
<1> QED
  BY <1>9, <1>10

LEMMA StopEarlyStep == ASSUME Inv, NEW c \in Callers, StopEarly(c) PROVE Inv'
<1>1. flow[c] \in Calls /\ CallOK(c, flow[c]) /\ flow[c].pc = "build"
  BY CallFacts DEF StopEarly
<1>2. /\ gaps' \subseteq Ranges /\ repaired' \subseteq Ranges
      /\ gaps \cup repaired \subseteq gaps' \cup repaired'
      /\ c = Repair \/ repaired \subseteq repaired'
  BY <1>1, PutBackFacts DEF StopEarly
<1>3. StreamTypes' /\ TableTypes' /\ Grows /\ UNCHANGED <<agg, store>>
  BY <1>2 DEF Inv, StreamTypes, FlagTypes, jobVars, TableTypes, StopEarly, Grows, linkVars
<1>4. PICK j : j = [flow[c] EXCEPT !.todo = {}]
  OBVIOUS
<1>5. j \in Calls /\ j.todo = {} /\ j.pend = flow[c].pend /\ Goes(c, Resume(j))
  BY <1>1, <1>4 DEF Calls, StopEarly
<1>6. CASE c # Rebuild
  <2>1. Resume(j) = Idle
    BY <1>1, <1>5, <1>6 DEF Resume, CallOK
  <2> QED
    BY <1>2, <1>3, <1>5, <2>1, IdleCall, IdleOK, CallStep
<1>7. CASE c = Rebuild
  <2>1. \A p \in j.pend : p[2] \subseteq p[1] \cap store' /\ Met(p[1] \ p[2])'
    BY <1>1, <1>3, <1>5, MetGrows DEF CallOK
  <2>2. Resume(j) \in Calls /\ CallOK(c, Resume(j))'
    BY <1>5, <1>7, <2>1, Bounds, ResumeOK
  <2> QED
    BY <1>2, <1>3, <1>5, <2>2, CallStep
<1> QED
  BY <1>6, <1>7

LEMMA GapsCreatedStep == ASSUME Inv, NEW c \in Callers, GapsCreated(c) PROVE Inv'
<1>1. PICK w : w = flow[c]
  OBVIOUS
<1>2. w \in Calls /\ CallOK(c, w) /\ w.pc = "scan"
  BY <1>1, CallFacts DEF GapsCreated
<1>3. /\ gaps' = GapsAfter(w.lost)
      /\ UNCHANGED <<now, linkVars, store, agg, repaired, jobVars, trouble>>
  BY <1>1 DEF GapsCreated
<1>4. gaps \subseteq gaps' /\ gaps' \subseteq Ranges
  BY <1>3, RunsFacts DEF GapsAfter, Inv, TableTypes
<1>5. StreamTypes' /\ TableTypes' /\ Grows
  BY <1>3, <1>4 DEF Inv, StreamTypes, FlagTypes, jobVars, TableTypes, Grows, linkVars
<1>6. Met(w.lost)'
  BY <1>3, ScanMeets DEF Met
<1>7. \A p \in w.pend : p[2] \subseteq p[1] \cap store' /\ Met(p[1] \ p[2])'
  <2>1. ASSUME NEW p \in w.pend, Met(p[1] \ p[2]) PROVE Met(p[1] \ p[2])'
    BY <1>5, <2>1, MetGrows
  <2>2. ASSUME NEW p \in w.pend, w.lost = p[1] \ p[2] PROVE Met(p[1] \ p[2])'
    BY <1>6, <2>2
  <2> QED
    BY <1>2, <1>3, <2>1, <2>2 DEF CallOK
<1>8. CASE c = Rebuild \/ w.pend = {}
  <2>1. PICK j : j = Resume(w)
    OBVIOUS
  <2>2. c = Repair => w.gap \in repaired'
    BY <1>2, <1>3 DEF CallOK
  <2>3. j \in Calls /\ CallOK(c, j)'
    BY <1>2, <1>7, <1>8, <2>1, <2>2, ResumeOK
  <2>4. Goes(c, j)
    BY <1>1, <1>8, <2>1 DEF GapsCreated
  <2> QED
    BY <1>3, <1>5, <2>3, <2>4, CallStep
<1>9. CASE ~(c = Rebuild \/ w.pend = {})
  <2>1. PICK j : j = [w EXCEPT !.pc = "write", !.lost = {}]
    OBVIOUS
  <2>2. j \in Calls /\ j.pc = "write" /\ j.pend = w.pend /\ j.gap = w.gap
    BY <1>2, <2>1 DEF Calls
  <2>3. CallOK(c, j)'
    BY <1>2, <1>3, <1>7, <1>9, <2>2 DEF CallOK
  <2>4. Goes(c, j)
    BY <1>1, <1>9, <2>1 DEF GapsCreated
  <2> QED
    BY <1>3, <1>5, <2>2, <2>3, <2>4, CallStep
<1> QED
  BY <1>8, <1>9

LEMMA FlushStep == ASSUME Inv, NEW c \in Callers, Flush(c) PROVE Inv'
<1>1. PICK w : w = flow[c]
  OBVIOUS
<1>2. w \in Calls /\ CallOK(c, w) /\ w.pc = "build" /\ LastOfFrame(w)
  BY <1>1, CallFacts DEF Flush
<1>3. PICK j : j = [w EXCEPT !.pc = "write"]
  OBVIOUS
<1>4. j \in Calls /\ j.pc = "write" /\ j.pend = w.pend /\ j.gap = w.gap
  BY <1>2, <1>3 DEF Calls
<1>5. StreamTypes' /\ TableTypes' /\ Grows /\ UNCHANGED <<agg, gaps, repaired, store>>
  BY DEF Inv, StreamTypes, FlagTypes, jobVars, TableTypes, Flush, Grows, linkVars, rowVars
<1>6. \A p \in j.pend : p[2] \subseteq p[1] \cap store' /\ Met(p[1] \ p[2])'
  BY <1>2, <1>4, <1>5, MetGrows DEF CallOK
<1>7. j.pend # {}
  BY <1>2, <1>4 DEF CallOK, LastOfFrame
<1>8. CallOK(c, j)'
  BY <1>2, <1>4, <1>5, <1>6, <1>7 DEF CallOK
<1> QED
  BY <1>1, <1>3, <1>4, <1>5, <1>8, CallStep DEF Flush

LEMMA AggregatesStoredStep == ASSUME Inv, NEW c \in Callers, AggregatesStored(c) PROVE Inv'
<1>1. PICK w : w = flow[c]
  OBVIOUS
<1>2. w \in Calls /\ CallOK(c, w) /\ w.pc = "write"
  BY <1>1, CallFacts DEF AggregatesStored
<1>3. /\ agg' = [b \in Buckets |-> IF \E p \in w.pend : p[1] = b
                                   THEN (CHOOSE p \in w.pend : p[1] = b)[2] ELSE agg[b]]
      /\ UNCHANGED <<now, linkVars, store, gaps, repaired, jobVars, trouble>>
  BY <1>1 DEF AggregatesStored
\* An aggregate is the same, or one the call had computed.
<1>4. ASSUME NEW b \in Buckets
      PROVE  \/ agg'[b] = agg[b]
             \/ \E p \in w.pend : p[1] = b /\ p[2] = agg'[b]
  BY <1>3
<1>5. \A p \in w.pend : /\ p[1] \in Buckets /\ p[2] \in SUBSET Listed
                        /\ p[2] \subseteq p[1] \cap store /\ Met(p[1] \ p[2])
  BY <1>2 DEF CallOK, Calls
<1>6. agg' \in [Buckets -> SUBSET Listed] /\ \A b \in Buckets : agg'[b] \subseteq b \cap store
  <2>1. \A b \in Buckets : agg'[b] \in SUBSET Listed /\ agg'[b] \subseteq b \cap store
    BY <1>4, <1>5 DEF Inv, TableTypes
  <2> QED
    BY <1>3, <2>1
<1>7. StreamTypes' /\ TableTypes' /\ Grows
  BY <1>3, <1>6 DEF Inv, StreamTypes, FlagTypes, jobVars, TableTypes, Grows, linkVars
<1>8. LackIsRecorded'
  <2>1. ASSUME NEW b \in Buckets, agg'[b] # {} PROVE Met(b \ agg'[b])
    <3>1. CASE agg'[b] = agg[b]
      BY <2>1, <3>1 DEF Inv, LackIsRecorded, Met
    <3>2. CASE \E p \in w.pend : p[1] = b /\ p[2] = agg'[b]
      BY <1>5, <3>2
    <3> QED
      BY <1>4, <3>1, <3>2
  <2> QED
    BY <1>3, <2>1 DEF LackIsRecorded, Met
<1>9. FlowInv'
  <2>1. PICK i : i = [w EXCEPT !.pend = {}]
    OBVIOUS
  <2>2. i \in Calls /\ i.pend = {} /\ i.gap = w.gap
    BY <1>2, <2>1 DEF Calls
  <2>3. c = Repair => i.gap \in repaired'
    BY <1>2, <1>3, <2>2 DEF CallOK
  <2>4. PICK j : j = Resume(i)
    OBVIOUS
  <2>5. j \in Calls /\ CallOK(c, j)'
    BY <2>2, <2>3, <2>4, ResumeOK
  <2>6. Goes(c, j)
    BY <1>1, <2>1, <2>4 DEF AggregatesStored
  <2> QED
    BY <1>3, <1>7, <2>5, <2>6, OneCall DEF Inv
<1> QED
  BY <1>7, <1>8, <1>9 DEF Inv

LEMMA VerifyContinuityStep == ASSUME Inv, VerifyContinuity PROVE Inv'
<1>1. PICK missing : missing = Expected(Max(store \cup {0}))
  OBVIOUS
<1>2. missing \in SUBSET Int
  BY <1>1 DEF Expected
<1>3. StreamTypes' /\ TableTypes' /\ Grows /\ UNCHANGED <<agg, repaired>>
  <2>1. FlagTypes'
    BY Zenon DEF Inv, StreamTypes, FlagTypes, VerifyContinuity
  <2> QED
    BY <2>1 DEF Inv, StreamTypes, TableTypes, VerifyContinuity, Grows, rowVars, jobVars
<1>4. CASE missing # {} /\ Goes(Verify, [Idle EXCEPT !.pc = "scan", !.lost = missing])
  <2>1. PICK j : j = [Idle EXCEPT !.pc = "scan", !.lost = missing]
    OBVIOUS
  <2>2. j \in Calls /\ j.pc = "scan" /\ j.lost = missing /\ j.pend = {}
    BY <1>2, <2>1 DEF Idle, Calls
  <2>3. CallOK(Verify, j)'
    BY <1>4, <2>2, Bounds DEF CallOK
  <2> QED
    BY <1>3, <1>4, <2>1, <2>2, <2>3, Bounds, CallStep
<1>5. CASE UNCHANGED flow
  BY <1>3, <1>5, NoCall, LackKept DEF Inv
<1>6. \/ missing # {} /\ flow' = [flow EXCEPT ![Verify] = [Idle EXCEPT !.pc = "scan", !.lost = missing]]
      \/ UNCHANGED flow
  BY <1>1 DEF VerifyContinuity
<1> QED
  BY <1>4, <1>5, <1>6 DEF Goes

\* A call that begins, beside a step that may store minutes.
LEMMA BeginsStep ==
  ASSUME Inv, NEW c \in Callers \ {Repair}, NEW j \in Calls, CallOK(c, j)', Goes(c, j),
         StreamTypes', store \subseteq store', store' \subseteq Listed, UNCHANGED <<agg, gaps, repaired>>
  PROVE  Inv'
<1>1. TableTypes' /\ Grows
  BY DEF Inv, TableTypes, Grows
<1> QED
  BY <1>1, CallStep

\* What may be asked for: the ranges and the last minutes of Spans.
LEMMA SpansFacts ==
  ASSUME NEW s \in Spans
  PROVE  s[1] \in Int /\ s[2] \in Int /\ s[1] .. s[2] \subseteq Int
<1>1. s \in Minutes \X Minutes
  BY LiveAssumption DEF LiveAssumption
<1>2. s[1] \in Minutes /\ s[2] \in Minutes
  BY <1>1
<1>3. \A i, j \in Minutes : i \in Int /\ j \in Int /\ i .. j \subseteq Int
  BY Bounds
<1> QED
  BY <1>2, <1>3, Zenon

LEMMA ReconcileIncompleteStep == ASSUME Inv, ReconcileIncomplete PROVE Inv'
<1>1. PICK todo : todo = {b \in Incomplete : Cardinality({d \in Incomplete : ByOpenTime(d, b)}) < ReconcileLimit}
  OBVIOUS
<1>2. todo \in SUBSET Buckets /\ Goes(Reconcile, Resume([Idle EXCEPT !.todo = todo]))
  BY <1>1 DEF Incomplete, ReconcileIncomplete
<1>3. StreamTypes' /\ UNCHANGED <<store, agg, gaps, repaired>>
  BY DEF Inv, StreamTypes, FlagTypes, jobVars, ReconcileIncomplete, linkVars, rowVars
<1>4. store' \subseteq Listed
  BY <1>3 DEF Inv, TableTypes
<1>5. PICK j : j = Resume([Idle EXCEPT !.todo = todo])
  OBVIOUS
<1>6. j \in Calls /\ CallOK(Reconcile, j)' /\ Goes(Reconcile, j)
  BY <1>2, <1>5, Bounds, BeginsOK
<1> QED
  BY <1>3, <1>4, <1>6, Bounds, BeginsStep

LEMMA RepairGapStep == ASSUME Inv, NEW r \in gaps, RepairGap(r) PROVE Inv'
<1>1. PICK i : i = [Idle EXCEPT !.gap = r, !.todo = {b \in Buckets : b \cap r # {}}]
  OBVIOUS
<1>2. r \in Ranges
  BY DEF Inv, TableTypes
<1>3. i \in Calls /\ i.pend = {} /\ i.gap = r
  BY <1>1, <1>2 DEF Idle, Calls
<1>4. r \in repaired' /\ Goes(Repair, Resume(i))
  BY <1>1 DEF RepairGap
<1>5. PICK j : j = Resume(i)
  OBVIOUS
<1>6. j \in Calls /\ CallOK(Repair, j)'
  BY <1>3, <1>4, <1>5, Bounds, ResumeOK
<1>7. StreamTypes' /\ TableTypes' /\ Grows /\ UNCHANGED agg
  BY <1>2 DEF Inv, StreamTypes, FlagTypes, jobVars, TableTypes, RepairGap, Grows, linkVars
<1> QED
  BY <1>4, <1>5, <1>6, <1>7, Bounds, CallStep

LEMMA BackfillStoresStep == ASSUME Inv, BackfillStores PROVE Inv'
<1>1. PICK last \in {s[2] : s \in Spans} \cup {now - 1} :
        /\ store' = store \cup (1 .. last \cap Closed \cap Listed)
        /\ Asks(1 .. last)
        /\ Goes(Rebuild, Scanning(1 .. last \ store', FullBuckets(last)))
  BY DEF BackfillStores
<1>2. last \in Int /\ 1 .. last \subseteq Int
  <2>1. now - 1 \in Int
    BY Bounds DEF Inv, StreamTypes
  <2>2. last \in Int
    BY <2>1, SpansFacts
  <2> QED
    BY <2>2
<1>3. PICK missing, todo : missing = 1 .. last \ store' /\ todo = FullBuckets(last)
  OBVIOUS
<1>4. missing \in SUBSET Int /\ todo \in SUBSET Buckets
  BY <1>2, <1>3 DEF FullBuckets
<1>5. StreamTypes' /\ UNCHANGED <<agg, gaps, repaired>>
  <2>1. asked' \subseteq Int
    BY <1>1, <1>2 DEF Asks, Inv, StreamTypes
  <2> QED
    BY <2>1 DEF Inv, StreamTypes, FlagTypes, BackfillStores, linkVars
<1>6. store \subseteq store' /\ store' \subseteq Listed
  BY <1>1 DEF Inv, TableTypes
<1>7. PICK j : j = Scanning(missing, todo)
  OBVIOUS
<1>8. j \in Calls /\ CallOK(Rebuild, j)' /\ Goes(Rebuild, j)
  BY <1>1, <1>3, <1>4, <1>7, Bounds, ScanningOK
<1> QED
  BY <1>5, <1>6, <1>8, Bounds, BeginsStep

LEMMA RebuildFrameStep ==
  ASSUME Inv, NEW n \in Timeframes, NEW r \in SUBSET Int, RebuildFrame(n, r)
  PROVE  Inv'
<1>1. PICK buckets : buckets = {b \in BucketsOf(n) : b \cap r # {}}
  OBVIOUS
<1>2. /\ buckets \in SUBSET Buckets /\ Asks(UNION buckets)
      /\ Goes(Rebuild, Resume([Idle EXCEPT !.todo = buckets]))
  BY <1>1 DEF Buckets, RebuildFrame
<1>3. StreamTypes' /\ UNCHANGED <<store, agg, gaps, repaired>>
  <2>1. trouble' \in 0 .. MaxTrouble
    BY TroubleType DEF RebuildFrame
  <2>2. asked' \subseteq Int
    BY <1>2, BucketsAreInts DEF Asks, Inv, StreamTypes
  <2> QED
    BY <2>1, <2>2 DEF Inv, StreamTypes, FlagTypes, RebuildFrame, linkVars, rowVars
<1>4. store' \subseteq Listed
  BY <1>3 DEF Inv, TableTypes
<1>5. PICK j : j = Resume([Idle EXCEPT !.todo = buckets])
  OBVIOUS
<1>6. j \in Calls /\ CallOK(Rebuild, j)' /\ Goes(Rebuild, j)
  BY <1>2, <1>5, Bounds, BeginsOK
<1> QED
  BY <1>3, <1>4, <1>6, Bounds, BeginsStep

LEMMA ScanRangeStep == ASSUME Inv, NEW r \in SUBSET Int, ScanRange(r) PROVE Inv'
<1>1. PICK missing : missing = r \ store
  OBVIOUS
<1>2. missing \in SUBSET Int /\ Asks(r) /\ Goes(Rebuild, Scanning(missing, {}))
  BY <1>1 DEF ScanRange
<1>3. StreamTypes' /\ UNCHANGED <<store, agg, gaps, repaired>>
  <2>1. trouble' \in 0 .. MaxTrouble
    BY TroubleType DEF ScanRange
  <2>2. asked' \subseteq Int
    BY <1>2 DEF Asks, Inv, StreamTypes
  <2> QED
    BY <2>1, <2>2 DEF Inv, StreamTypes, FlagTypes, ScanRange, linkVars, rowVars
<1>4. store' \subseteq Listed
  BY <1>3 DEF Inv, TableTypes
<1>5. PICK j : j = Scanning(missing, {})
  OBVIOUS
<1>6. j \in Calls /\ CallOK(Rebuild, j)' /\ Goes(Rebuild, j)
  BY <1>2, <1>5, Bounds, ScanningOK
<1> QED
  BY <1>3, <1>4, <1>6, Bounds, BeginsStep

LEMMA StopStep == ASSUME Inv, Stop PROVE Inv'
<1>1. trouble' \in 0 .. MaxTrouble
  BY TroubleType DEF Stop
<1>2. StreamTypes'
  <2>1. FlagTypes'
    BY Zenon DEF Stop, FlagTypes
  <2> QED
    BY <1>1, <2>1 DEF Inv, StreamTypes, Stop
<1>3. TableTypes' /\ Grows /\ UNCHANGED agg
  BY DEF Inv, TableTypes, Stop, Grows, rowVars
<1>4. LackIsRecorded'
  BY <1>3, LackKept DEF Inv
<1>5. FlowInv'
  BY IdleCall, IdleOK DEF FlowInv, Stop
<1> QED
  BY <1>2, <1>3, <1>4, <1>5 DEF Inv

LEMMA CallSteps == ASSUME Inv, NEW c \in Callers, Step(c) PROVE Inv'
<1>1. CASE c \in Minutes /\ (EventStored(c) \/ MinuteStored(c))
  BY <1>1, EventStoredStep, MinuteStoredStep
<1>2. CASE ReadBucket(c) \/ StopEarly(c) \/ GapsCreated(c) \/ Flush(c) \/ AggregatesStored(c)
  BY <1>2, ReadBucketStep, StopEarlyStep, GapsCreatedStep, FlushStep, AggregatesStoredStep
<1> QED
  BY <1>1, <1>2 DEF Step

LEMMA NextInv == ASSUME Inv, [Next]_vars PROVE Inv'
<1>1. CASE Stream
  BY <1>1, StreamSteps, PollClosedStep, VerifyContinuityStep DEF Stream
<1>2. CASE MinuteCloses \/ Disconnect \/ ChildExits \/ BackfillBegins \/ BackfillEnds
  BY <1>2, StreamSteps
<1>3. CASE Works \/ Reconciles
  BY <1>3, CallSteps, ReconcileIncompleteStep, Bounds DEF Works, Reconciles
<1>4. CASE \E c \in Callers : WriteFails(c)
  BY <1>4, WriteFailsStep
<1>5. CASE RepairsGap
  BY <1>5, RepairGapStep DEF RepairsGap
<1>6. CASE BackfillStores
  BY <1>6, BackfillStoresStep
<1>7. CASE \E s \in Spans : \/ ScanRange(s[1] .. s[2])
                           \/ \E n \in Timeframes : RebuildFrame(n, s[1] .. s[2])
  <2>1. PICK s \in Spans : \/ ScanRange(s[1] .. s[2])
                         \/ \E n \in Timeframes : RebuildFrame(n, s[1] .. s[2])
    BY <1>7
  <2>2. PICK r : r = s[1] .. s[2]
    OBVIOUS
  <2>3. r \in SUBSET Int /\ (ScanRange(r) \/ \E n \in Timeframes : RebuildFrame(n, r))
    BY <2>1, <2>2, SpansFacts
  <2> QED
    BY <2>3, RebuildFrameStep, ScanRangeStep
<1>8. CASE Stop
  BY <1>8, StopStep
<1>9. CASE UNCHANGED vars
  <2>1. UNCHANGED <<rowVars, flow>> /\ StreamTypes'
    BY <1>9 DEF vars, Inv, StreamTypes, FlagTypes, jobVars, linkVars
  <2> QED
    BY <2>1, StreamOnly
<1> QED
  BY <1>1, <1>2, <1>3, <1>4, <1>5, <1>6, <1>7, <1>8, <1>9 DEF Next

THEOREM InvAlways == Spec => []Inv
<1> QED
  BY InitInv, NextInv, PTL DEF Spec

\* Types, and that an aggregate, stored or about to be, is of stored minutes of
\* its bucket, whatever is repaired, rebuilt or stopped meanwhile.
THEOREM TypeCorrect == Spec => []TypeOK
<1>1. Inv => TypeOK
  BY DEF Inv, StreamTypes, FlagTypes, TableTypes, FlowInv, CallOK, TypeOK
<1> QED
  BY <1>1, InvAlways, PTL

\* Whoever computed an aggregate, each stretch of minutes it lacks meets a gap
\* that is recorded: the scan comes before the row, and rows of gaps stay.
THEOREM LackIsRecordedAlways == Spec => []LackIsRecorded
<1>1. Inv => LackIsRecorded
  BY DEF Inv
<1> QED
  BY <1>1, InvAlways, PTL

-----------------------------------------------------------------------------
(* What is open leaves a trace only where a request has reached for it.    *)

LEMMA NowType == ASSUME Inv PROVE now \in Nat /\ 0 < now /\ child \in Int /\ asked \subseteq Int
  BY Bounds DEF Inv, StreamTypes, Minutes

LEMMA Subsets == ASSUME NEW S, NEW T, T \subseteq S, MayBeStored(S) PROVE MayBeStored(T)
  BY DEF MayBeStored

\* What could be stored can be still: minutes stay closed, and asked for.
Later == UNCHANGED now /\ asked \subseteq asked'

LEMMA StillMay == ASSUME Later, NEW S, MayBeStored(S) PROVE MayBeStored(S)'
  BY DEF Later, MayBeStored

LEMMA CallStillClosed == ASSUME Later, NEW c, NEW j, CallClosed(c, j) PROVE CallClosed(c, j)'
<1>1. /\ c # Repair => \A b \in j.todo : MayBeStored(b)'
      /\ \A p \in j.pend : MayBeStored(p[1])'
      /\ MayBeStored(j.lost)'
  BY StillMay DEF CallClosed
<1> QED
  BY <1>1 DEF CallClosed, Later

\* What has been asked for may be stored.
LEMMA AskedMay ==
  ASSUME Inv, UNCHANGED now, NEW S \in SUBSET Int, Asks(S)
  PROVE  Later /\ MayBeStored(S)'
BY NowType DEF Later, MayBeStored, Asks

\* The step leaves the open minute and the requests alone.
LEMMA NothingAsked == ASSUME UNCHANGED <<now, asked>> PROVE Later
  BY DEF Later

LEMMA ResumeClosed ==
  ASSUME NEW c \in Callers, NEW j \in Calls,
         c # Repair => \A b \in j.todo : MayBeStored(b), \A p \in j.pend : MayBeStored(p[1])
  PROVE  CallClosed(c, Resume(j))
<1>1. CASE j.todo = {} /\ j.pend = {}
  BY <1>1, IdleCall DEF Resume, CallClosed, MayBeStored
<1>2. CASE ~(j.todo = {} /\ j.pend = {})
  <2>1. PICK i : i = [j EXCEPT !.pc = "build", !.lost = {}]
    OBVIOUS
  <2>2. Resume(j) = i /\ i.pc = "build" /\ i.todo = j.todo /\ i.pend = j.pend /\ i.lost = {}
    BY <1>2, <2>1 DEF Resume, Calls
  <2> QED
    BY <2>2 DEF CallClosed, MayBeStored
<1> QED
  BY <1>1, <1>2

LEMMA BeginsClosed ==
  ASSUME NEW c \in Callers, NEW todo \in SUBSET Buckets, \A b \in todo : MayBeStored(b)
  PROVE  LET j == Resume([Idle EXCEPT !.todo = todo]) IN j \in Calls /\ CallClosed(c, j)
<1>1. PICK i : i = [Idle EXCEPT !.todo = todo]
  OBVIOUS
<1>2. i \in Calls /\ i.pend = {} /\ i.todo = todo
  BY <1>1 DEF Idle, Calls
<1>3. CallClosed(c, Resume(i))
  BY <1>2, ResumeClosed
<1>4. Resume(i) \in Calls
  BY <1>2, IdleCall DEF Resume, Calls
<1> QED
  BY <1>1, <1>3, <1>4

\* One call moves while no minute closes.
LEMMA ClosedStep ==
  ASSUME Inv, ClosedInv, Later, NEW c \in Callers, NEW j \in Calls, Goes(c, j),
         CallClosed(c, j) \/ CallClosed(c, j)', OpenOnlyIfAsked', child' < now
  PROVE  ClosedInv'
<1>1. flow' = [flow EXCEPT ![c] = j] /\ flow \in [Callers -> Calls]
  BY DEF Goes, Inv, FlowInv
<1>2. flow'[c] = j /\ \A d \in Callers \ {c} : flow'[d] = flow[d]
  BY <1>1
<1>3. ASSUME NEW d \in Callers PROVE CallClosed(d, flow[d])'
  <2>1. PICK i : i = flow'[d]
    OBVIOUS
  <2>2. CallClosed(d, i) \/ CallClosed(d, i)'
    BY <1>2, <2>1 DEF ClosedInv
  <2>3. CallClosed(d, i)'
    BY <2>2, CallStillClosed
  <2> QED
    BY <2>1, <2>3
<1> QED
  BY <1>3 DEF ClosedInv, Later

\* What is new in the tables may be there.
LEMMA NewRows ==
  ASSUME ClosedInv, Later,
         \A m \in store' \ store : m < now \/ m \in asked',
         \A b \in Buckets : agg'[b] # {} => agg[b] # {} \/ MayBeStored(b),
         \A r \in gaps' \cup repaired' : r \in gaps \cup repaired \/ MayBeStored(r)
  PROVE  OpenOnlyIfAsked'
<1>1. MayBeStored(store)'
  BY DEF MayBeStored, ClosedInv, OpenOnlyIfAsked, Later
<1>2. \A b \in Buckets : agg'[b] # {} => MayBeStored(b)'
  BY StillMay DEF ClosedInv, OpenOnlyIfAsked
<1>3. \A r \in gaps' \cup repaired' : MayBeStored(r)'
  BY StillMay DEF ClosedInv, OpenOnlyIfAsked
<1> QED
  BY <1>1, <1>2, <1>3 DEF OpenOnlyIfAsked

LEMMA SameTables ==
  ASSUME ClosedInv, Later, UNCHANGED agg, store' \subseteq store,
         gaps' \cup repaired' \subseteq gaps \cup repaired
  PROVE  OpenOnlyIfAsked'
BY NewRows

LEMMA PutBackSame ==
  ASSUME Inv, NEW c \in Callers, flow[c].pc # "idle", PutBack(c)
  PROVE  gaps' \cup repaired' \subseteq gaps \cup repaired
<1>1. c = Repair => flow[c].gap \in repaired
  BY DEF Inv, FlowInv, CallOK
<1> QED
  BY <1>1 DEF PutBack

LEMMA InitClosed == Init => ClosedInv
  BY IdleCall, IdleOK DEF Init, ClosedInv, OpenOnlyIfAsked, CallClosed, MayBeStored

LEMMA StreamClosed ==
  ASSUME Inv, ClosedInv,
         StartChild \/ Connect \/ Disconnect \/ ChildExits \/ PollOpen \/ BackfillBegins
           \/ BackfillEnds \/ Start \/ UNCHANGED vars
  PROVE  ClosedInv'
<1>1. UNCHANGED <<now, asked, rowVars, flow>> /\ child' \in {child, 0}
  BY DEF StartChild, Connect, Disconnect, ChildExits, PollOpen, BackfillBegins, BackfillEnds, Start,
    vars, linkVars, jobVars
<1>2. OpenOnlyIfAsked' /\ child' < now
  BY <1>1, NowType, SameTables, NothingAsked DEF ClosedInv, rowVars
<1>3. ASSUME NEW d \in Callers PROVE CallClosed(d, flow[d])'
  <2>1. PICK i : i = flow[d]
    OBVIOUS
  <2>2. CallClosed(d, i)'
    BY <1>1, <2>1, CallStillClosed, NothingAsked DEF ClosedInv
  <2> QED
    BY <1>1, <2>1, <2>2
<1> QED
  BY <1>1, <1>2, <1>3 DEF ClosedInv

LEMMA MinuteClosesClosed == ASSUME Inv, ClosedInv, MinuteCloses PROVE ClosedInv'
<1>1. now' = now + 1 /\ asked' = asked \ {now} /\ UNCHANGED <<rowVars, flow>> /\ child' \in {child, now}
  BY DEF MinuteCloses
\* The minute that was open is closed, whether it was asked for or not.
<1>2. ASSUME NEW S \in SUBSET Int, MayBeStored(S) PROVE MayBeStored(S)'
  BY <1>1, <1>2, NowType DEF MayBeStored
<1>3. OpenOnlyIfAsked'
  <2>1. PICK held : held = store
    OBVIOUS
  <2>2. held \in SUBSET Int /\ \A r \in gaps \cup repaired : r \in SUBSET Int
    BY <2>1, RangesFacts, Bounds DEF Inv, TableTypes
  <2>3. MayBeStored(held)' /\ held = store'
    BY <1>1, <1>2, <2>1, <2>2 DEF ClosedInv, OpenOnlyIfAsked, rowVars
  <2>4. \A b \in Buckets : agg'[b] # {} => MayBeStored(b)'
    BY <1>1, <1>2, BucketsAreInts DEF ClosedInv, OpenOnlyIfAsked, rowVars
  <2>5. \A r \in gaps' \cup repaired' : MayBeStored(r)'
    BY <1>1, <1>2, <2>2 DEF ClosedInv, OpenOnlyIfAsked, rowVars
  <2> QED
    BY <2>3, <2>4, <2>5 DEF OpenOnlyIfAsked
<1>4. child' < now'
  BY <1>1, NowType DEF ClosedInv
<1>5. ASSUME NEW d \in Callers PROVE CallClosed(d, flow[d])'
  <2>1. PICK i : i = flow[d]
    OBVIOUS
  <2>2. CallClosed(d, i) /\ i \in Calls /\ d \in Int
    BY <2>1, CallFacts DEF ClosedInv, Callers
  <2>3. i.todo \subseteq Buckets /\ i.lost \in SUBSET Int /\ \A p \in i.pend : p[1] \in Buckets
    BY <2>2 DEF Calls
  <2>4. /\ d # Repair => \A b \in i.todo : MayBeStored(b)'
        /\ \A p \in i.pend : MayBeStored(p[1])'
        /\ MayBeStored(i.lost)'
    BY <1>2, <2>2, <2>3, BucketsAreInts DEF CallClosed
  <2>5. CallClosed(d, i)'
    BY <1>1, <2>2, <2>4, NowType DEF CallClosed
  <2> QED
    BY <1>1, <2>1, <2>5
<1> QED
  BY <1>3, <1>4, <1>5 DEF ClosedInv

LEMMA PollClosedClosed == ASSUME Inv, ClosedInv, PollClosed PROVE ClosedInv'
<1>1. child \in Callers /\ child < now
  BY Bounds DEF Inv, StreamTypes, PollClosed, NewlyClosed, ClosedInv
<1>2. PICK m : m = child
  OBVIOUS
<1>3. PICK j : j = [Idle EXCEPT !.pc = "event"]
  OBVIOUS
<1>4. j \in Calls /\ j.todo = {} /\ j.pend = {} /\ j.lost = {}
  BY <1>3 DEF Idle, Calls
<1>5. CallClosed(m, j) /\ Goes(m, j)
  BY <1>1, <1>2, <1>3, <1>4 DEF CallClosed, MayBeStored, PollClosed
<1>6. OpenOnlyIfAsked' /\ UNCHANGED <<now, child, asked>>
  BY SameTables, NothingAsked DEF PollClosed, rowVars, jobVars
<1> QED
  BY <1>1, <1>2, <1>4, <1>5, <1>6, ClosedStep, NothingAsked

LEMMA EventStoredClosed ==
  ASSUME Inv, ClosedInv, NEW m \in Minutes, EventStored(m) PROVE ClosedInv'
<1>1. m \in Callers /\ m < now
  BY Bounds DEF EventStored, ClosedInv, CallClosed
<1>2. PICK j : j = IF emitted = m THEN Idle ELSE [Idle EXCEPT !.pc = "upsert"]
  OBVIOUS
<1>3. j \in Calls /\ j.todo = {} /\ j.pend = {} /\ j.lost = {}
  BY <1>2 DEF Idle, Calls
<1>4. CallClosed(m, j) /\ Goes(m, j)
  BY <1>1, <1>2, <1>3 DEF CallClosed, MayBeStored, EventStored
<1>5. OpenOnlyIfAsked' /\ UNCHANGED <<now, child, asked>>
  BY SameTables, NothingAsked DEF EventStored, rowVars, jobVars
<1> QED
  BY <1>1, <1>3, <1>4, <1>5, ClosedStep, NothingAsked DEF ClosedInv

LEMMA MinuteStoredClosed ==
  ASSUME Inv, ClosedInv, NEW m \in Minutes, MinuteStored(m) PROVE ClosedInv'
<1>1. m \in Callers /\ m < now /\ m \in Int
  BY Bounds DEF MinuteStored, ClosedInv, CallClosed
<1>2. PICK todo : todo = Ending(m)
  OBVIOUS
<1>3. todo \in SUBSET Buckets /\ \A b \in todo : MayBeStored(b)
  <2>1. ASSUME NEW b \in todo, NEW k \in b PROVE k < now
    <3>1. b \in Buckets /\ k <= m
      BY <1>2, <2>1 DEF Ending
    <3> QED
      BY <1>1, <3>1, BucketsAreInts, NowType
  <2> QED
    BY <1>2, <2>1 DEF Ending, MayBeStored
<1>4. PICK j : j = Resume([Idle EXCEPT !.todo = todo])
  OBVIOUS
<1>5. j \in Calls /\ CallClosed(m, j) /\ Goes(m, j)
  BY <1>1, <1>2, <1>3, <1>4, BeginsClosed DEF MinuteStored
<1>6. OpenOnlyIfAsked' /\ UNCHANGED <<now, child, asked>>
  <2>1. UNCHANGED <<now, child, asked, agg, gaps, repaired>> /\ store' = store \cup {m}
    BY DEF MinuteStored, linkVars, jobVars
  <2> QED
    BY <1>1, <2>1, NewRows, NothingAsked
<1> QED
  BY <1>1, <1>5, <1>6, ClosedStep, NothingAsked DEF ClosedInv

LEMMA WriteFailsClosed == ASSUME Inv, ClosedInv, NEW c \in Callers, WriteFails(c) PROVE ClosedInv'
<1>1. OpenOnlyIfAsked' /\ UNCHANGED <<now, child, asked>>
  BY PutBackSame, SameTables, NothingAsked DEF WriteFails, jobVars
<1>2. CallClosed(c, Idle)
  BY IdleCall DEF CallClosed, MayBeStored
<1> QED
  BY <1>1, <1>2, IdleCall, ClosedStep, NothingAsked DEF WriteFails, ClosedInv

\* Reconciliation and repair look only at buckets that have an aggregate.
LEMMA ReadBucketClosed == ASSUME Inv, ClosedInv, NEW c \in Callers, ReadBucket(c) PROVE ClosedInv'
<1>1. PICK b \in NextOf(c) :
        LET read == Aggregated(b)
            j == [flow[c] EXCEPT !.todo = @ \ {b}]
        IN Goes(c, IF Leaves(c, b, read) THEN Resume(j)
                   ELSE [j EXCEPT !.pc = AfterRead(c, b \ read), !.lost = b \ read,
                                  !.pend = @ \cup {<<b, read>>}])
  BY DEF ReadBucket
<1>2. PICK w : w = flow[c]
  OBVIOUS
<1>3. w \in Calls /\ CallClosed(c, w)
  BY <1>2, CallFacts DEF ClosedInv
<1>4. b \in w.todo /\ b \in Buckets /\ b \subseteq Int
  BY <1>2, <1>3, BucketsAreInts DEF NextOf, Calls
<1>5. PICK read : read = Aggregated(b)
  OBVIOUS
<1>6. PICK j : j = [w EXCEPT !.todo = @ \ {b}]
  OBVIOUS
<1>7. j \in Calls /\ j.pend = w.pend /\ j.todo \subseteq w.todo
  BY <1>3, <1>6 DEF Calls
<1>8. OpenOnlyIfAsked' /\ UNCHANGED <<now, child, asked>>
  BY SameTables, NothingAsked DEF ReadBucket, rowVars, linkVars, jobVars
<1>9. CASE Leaves(c, b, read)
  <2>1. PICK i : i = Resume(j)
    OBVIOUS
  <2>2. CallClosed(c, i)
    BY <1>3, <1>7, <2>1, ResumeClosed DEF CallClosed
  <2>3. i \in Calls
    BY <1>7, <2>1, IdleCall DEF Resume, Calls
  <2>4. Goes(c, i)
    BY <1>1, <1>2, <1>5, <1>6, <1>9, <2>1
  <2> QED
    BY <1>8, <2>2, <2>3, <2>4, ClosedStep, NothingAsked DEF ClosedInv
<1>10. CASE ~Leaves(c, b, read)
  <2>1. PICK i : i = [j EXCEPT !.pc = AfterRead(c, b \ read), !.lost = b \ read,
                               !.pend = @ \cup {<<b, read>>}]
    OBVIOUS
  <2>2. read \in SUBSET Listed
    BY <1>5 DEF Aggregated, Inv, TableTypes
  <2>3. /\ i \in Calls /\ i.pc = AfterRead(c, b \ read) /\ i.lost = b \ read
        /\ i.pend = w.pend \cup {<<b, read>>} /\ i.todo \subseteq w.todo
    <3>1. j.pend \cup {<<b, read>>} \in SUBSET (Buckets \X SUBSET Listed)
      <4>1. j.pend \subseteq Buckets \X SUBSET Listed
        BY <1>7 DEF Calls
      <4>2. <<b, read>> \in Buckets \X SUBSET Listed
        BY <1>4, <2>2, Zenon
      <4> QED
        BY <4>1, <4>2, Zenon
    <3>2. AfterRead(c, b \ read) \in {"build", "scan", "write"} /\ b \ read \in SUBSET Int
      BY <1>4 DEF AfterRead
    <3> QED
      BY <1>7, <2>1, <3>1, <3>2 DEF Calls
  <2>4. MayBeStored(b)
    <3>1. CASE c # Repair
      BY <1>3, <1>4, <3>1 DEF CallClosed
    <3>2. CASE c = Repair
      <4>1. agg[b] # {}
        BY <1>10, <3>2 DEF Leaves
      <4> QED
        BY <1>4, <4>1 DEF ClosedInv, OpenOnlyIfAsked
    <3> QED
      BY <3>1, <3>2
  <2>5. \A p \in i.pend : MayBeStored(p[1])
    <3>1. TAKE p \in i.pend
    <3>2. CASE p = <<b, read>>
      BY <2>4, <3>2
    <3>3. CASE p \in w.pend
      BY <1>3, <3>3 DEF CallClosed
    <3> QED
      BY <2>3, <3>2, <3>3
  <2>6. CallClosed(c, i)
    <3>1. MayBeStored(i.lost)
      BY <2>3, <2>4, Subsets
    <3> QED
      BY <1>3, <2>3, <2>5, <3>1 DEF CallClosed, AfterRead
  <2>7. Goes(c, i)
    BY <1>1, <1>2, <1>5, <1>6, <1>10, <2>1
  <2> QED
    BY <1>8, <2>3, <2>6, <2>7, ClosedStep, NothingAsked DEF ClosedInv
<1> QED
  BY <1>9, <1>10

\* A call that stops, has scanned, or is about to write.
LEMMA OtherCallsClosed ==
  ASSUME Inv, ClosedInv, NEW c \in Callers, StopEarly(c) \/ GapsCreated(c) \/ Flush(c)
  PROVE  ClosedInv'
<1>1. PICK w : w = flow[c]
  OBVIOUS
<1>2. w \in Calls /\ CallClosed(c, w)
  BY <1>1, CallFacts DEF ClosedInv
<1>3. UNCHANGED <<now, child, asked>>
  BY DEF StopEarly, GapsCreated, Flush, linkVars, jobVars
<1>4. OpenOnlyIfAsked'
  <2>1. CASE StopEarly(c)
    BY <1>3, <2>1, PutBackSame, SameTables, NothingAsked DEF StopEarly
  <2>2. CASE GapsCreated(c)
    <3>1. \A r \in Runs(w.lost) : MayBeStored(r)
      BY <1>2, RunsFacts, Subsets DEF CallClosed
    <3>2. UNCHANGED <<store, agg, repaired>> /\ \A r \in gaps' : r \in gaps \/ r \in Runs(w.lost)
      BY <1>1, <2>2 DEF GapsCreated, GapsAfter
    <3> QED
      BY <1>3, <3>1, <3>2, NewRows, NothingAsked
  <2>3. CASE Flush(c)
    BY <1>3, <2>3, SameTables, NothingAsked DEF Flush, rowVars
  <2> QED
    BY <2>1, <2>2, <2>3
<1>5. PICK i : i \in {[w EXCEPT !.todo = {}], w, [w EXCEPT !.pc = "write", !.lost = {}],
                      [w EXCEPT !.pc = "write"]}
               /\ (Goes(c, Resume(i)) \/ (i.pc = "write" /\ Goes(c, i)))
  <2>1. CASE StopEarly(c)
    BY <1>1, <2>1 DEF StopEarly
  <2>2. CASE GapsCreated(c)
    BY <1>1, <1>2, <2>2 DEF GapsCreated, Calls
  <2>3. CASE Flush(c)
    BY <1>1, <1>2, <2>3 DEF Flush, Calls
  <2> QED
    BY <2>1, <2>2, <2>3
<1>6. i \in Calls /\ i.todo \subseteq w.todo /\ i.pend = w.pend /\ i.lost \subseteq w.lost
  BY <1>2, <1>5 DEF Calls
<1>7. CASE Goes(c, Resume(i))
  <2>1. CallClosed(c, Resume(i))
    BY <1>2, <1>6, ResumeClosed DEF CallClosed
  <2>2. Resume(i) \in Calls
    BY <1>6, IdleCall DEF Resume, Calls
  <2> QED
    BY <1>3, <1>4, <1>7, <2>1, <2>2, ClosedStep, NothingAsked DEF ClosedInv
<1>8. CASE i.pc = "write" /\ Goes(c, i)
  <2>1. CallClosed(c, i)
    <3>1. MayBeStored(i.lost)
      BY <1>2, <1>6, Subsets DEF CallClosed
    <3> QED
      BY <1>2, <1>6, <1>8, <3>1 DEF CallClosed
  <2> QED
    BY <1>3, <1>4, <1>6, <1>8, <2>1, ClosedStep, NothingAsked DEF ClosedInv
<1> QED
  BY <1>5, <1>7, <1>8

LEMMA AggregatesStoredClosed ==
  ASSUME Inv, ClosedInv, NEW c \in Callers, AggregatesStored(c) PROVE ClosedInv'
<1>1. PICK w : w = flow[c]
  OBVIOUS
<1>2. w \in Calls /\ CallClosed(c, w)
  BY <1>1, CallFacts DEF ClosedInv
<1>3. /\ agg' = [b \in Buckets |-> IF \E p \in w.pend : p[1] = b
                                   THEN (CHOOSE p \in w.pend : p[1] = b)[2] ELSE agg[b]]
      /\ UNCHANGED <<now, child, asked, store, gaps, repaired>>
  BY <1>1 DEF AggregatesStored, linkVars, jobVars
<1>4. OpenOnlyIfAsked'
  <2>1. \A b \in Buckets : agg'[b] # agg[b] => \E p \in w.pend : p[1] = b
    BY <1>3
  <2> QED
    BY <1>2, <1>3, <2>1, NewRows, NothingAsked DEF CallClosed
<1>5. PICK i : i = [w EXCEPT !.pend = {}]
  OBVIOUS
<1>6. i \in Calls /\ i.pend = {} /\ i.todo = w.todo
  BY <1>2, <1>5 DEF Calls
<1>7. PICK j : j = Resume(i)
  OBVIOUS
<1>8. j \in Calls /\ CallClosed(c, j)
  BY <1>2, <1>6, <1>7, IdleCall, ResumeClosed DEF CallClosed, Resume, Calls
<1> QED
  BY <1>1, <1>3, <1>4, <1>5, <1>7, <1>8, ClosedStep, NothingAsked DEF AggregatesStored, ClosedInv

LEMMA VerifyContinuityClosed == ASSUME Inv, ClosedInv, VerifyContinuity PROVE ClosedInv'
<1>1. PICK missing : missing = Expected(Max(store \cup {0}))
  OBVIOUS
<1>2. missing \in SUBSET Int /\ MayBeStored(missing)
  BY <1>1, NowType DEF Expected, MayBeStored
<1>3. OpenOnlyIfAsked' /\ UNCHANGED <<now, child, asked>>
  BY SameTables, NothingAsked DEF VerifyContinuity, rowVars, jobVars
<1>4. CASE Goes(Verify, [Idle EXCEPT !.pc = "scan", !.lost = missing])
  <2>1. PICK j : j = [Idle EXCEPT !.pc = "scan", !.lost = missing]
    OBVIOUS
  <2>2. j \in Calls /\ j.pc = "scan" /\ j.lost = missing /\ j.pend = {} /\ j.todo = {}
    BY <1>2, <2>1 DEF Idle, Calls
  <2>3. CallClosed(Verify, j)
    BY <1>2, <2>2 DEF CallClosed
  <2> QED
    BY <1>3, <1>4, <2>1, <2>2, <2>3, Bounds, ClosedStep, NothingAsked DEF ClosedInv
<1>5. CASE UNCHANGED flow
  <2>1. ASSUME NEW d \in Callers PROVE CallClosed(d, flow[d])'
    <3>1. PICK i : i = flow[d]
      OBVIOUS
    <3>2. CallClosed(d, i)'
      BY <1>3, <3>1, CallStillClosed, NothingAsked DEF ClosedInv
    <3> QED
      BY <1>5, <3>1, <3>2
  <2> QED
    BY <1>3, <2>1 DEF ClosedInv
<1>6. \/ flow' = [flow EXCEPT ![Verify] = [Idle EXCEPT !.pc = "scan", !.lost = missing]]
      \/ UNCHANGED flow
  BY <1>1 DEF VerifyContinuity
<1> QED
  BY <1>4, <1>5, <1>6 DEF Goes

LEMMA RepairGapClosed == ASSUME Inv, ClosedInv, NEW r \in gaps, RepairGap(r) PROVE ClosedInv'
<1>1. PICK i : i = [Idle EXCEPT !.gap = r, !.todo = {b \in Buckets : b \cap r # {}}]
  OBVIOUS
<1>2. i \in Calls /\ i.pend = {}
  BY <1>1 DEF Idle, Calls, Inv, TableTypes
<1>3. PICK j : j = Resume(i)
  OBVIOUS
<1>4. j \in Calls /\ CallClosed(Repair, j)
  BY <1>2, <1>3, Bounds, IdleCall, ResumeClosed DEF Resume, Calls
<1>5. OpenOnlyIfAsked' /\ UNCHANGED <<now, child, asked>>
  <2>1. /\ UNCHANGED <<now, child, asked, agg>> /\ gaps' \cup repaired' \subseteq gaps \cup repaired
        /\ store' \subseteq store \cup r
    BY DEF RepairGap, linkVars, jobVars
  <2>2. MayBeStored(r)
    BY DEF ClosedInv, OpenOnlyIfAsked
  <2> QED
    BY <2>1, <2>2, NewRows, NothingAsked DEF MayBeStored
<1> QED
  BY <1>1, <1>3, <1>4, <1>5, Bounds, ClosedStep, NothingAsked DEF RepairGap, ClosedInv

\* A reconciliation looks at aggregates that are there.
LEMMA ReconcilesClosed == ASSUME Inv, ClosedInv, ReconcileIncomplete PROVE ClosedInv'
<1>1. PICK todo : todo = {b \in Incomplete : Cardinality({d \in Incomplete : ByOpenTime(d, b)}) < ReconcileLimit}
  OBVIOUS
<1>2. todo \in SUBSET Buckets /\ \A b \in todo : MayBeStored(b)
  BY <1>1 DEF Incomplete, ClosedInv, OpenOnlyIfAsked
<1>3. PICK j : j = Resume([Idle EXCEPT !.todo = todo])
  OBVIOUS
<1>4. j \in Calls /\ CallClosed(Reconcile, j) /\ Goes(Reconcile, j)
  BY <1>1, <1>2, <1>3, Bounds, BeginsClosed DEF ReconcileIncomplete
<1>5. OpenOnlyIfAsked' /\ UNCHANGED <<now, child, asked>>
  BY SameTables, NothingAsked DEF ReconcileIncomplete, linkVars, rowVars, jobVars
<1> QED
  BY <1>4, <1>5, Bounds, ClosedStep, NothingAsked DEF ClosedInv

\* A request, or a job, scans minutes and builds buckets that have ended or
\* that it has asked for.
LEMMA ScanningClosed ==
  ASSUME NEW missing \in SUBSET Int, NEW todo \in SUBSET Buckets,
         MayBeStored(missing)', \A b \in todo : MayBeStored(b)'
  PROVE  Scanning(missing, todo) \in Calls /\ CallClosed(Rebuild, Scanning(missing, todo))'
<1>1. PICK i : i = [Idle EXCEPT !.todo = todo]
  OBVIOUS
<1>2. i \in Calls /\ i.todo = todo /\ i.pend = {} /\ i.lost = {} /\ i.pc = "idle"
  BY <1>1 DEF Idle, Calls
<1>3. PICK j : j = Scanning(missing, todo)
  OBVIOUS
<1>4. /\ j \in Calls /\ j.todo = todo /\ j.pend = {} /\ j.lost \in {{}, missing}
      /\ j.pc \in {"idle", "build", "scan"}
  <2>1. CASE missing = {}
    BY <1>1, <1>2, <1>3, <2>1, IdleCall DEF Scanning, Resume, Calls
  <2>2. CASE missing # {}
    BY <1>3, <2>2 DEF Scanning, Idle, Calls
  <2> QED
    BY <2>1, <2>2
<1>5. CallClosed(Rebuild, j)'
  BY <1>4 DEF CallClosed, MayBeStored
<1> QED
  BY <1>3, <1>4, <1>5

LEMMA BackfillStoresClosed == ASSUME Inv, ClosedInv, BackfillStores PROVE ClosedInv'
<1>1. PICK last \in {s[2] : s \in Spans} \cup {now - 1} :
        /\ store' = store \cup (1 .. last \cap Closed \cap Listed)
        /\ Asks(1 .. last)
        /\ Goes(Rebuild, Scanning(1 .. last \ store', FullBuckets(last)))
  BY DEF BackfillStores
<1>2. last \in Int
  BY SpansFacts, NowType
<1>3. PICK span, missing, todo : /\ span = 1 .. last /\ missing = span \ store'
                                 /\ todo = FullBuckets(last)
  OBVIOUS
<1>4. span \in SUBSET Int /\ missing \in SUBSET Int /\ missing \subseteq span /\ todo \in SUBSET Buckets
  BY <1>2, <1>3 DEF FullBuckets
<1>5. UNCHANGED <<now, child, agg, gaps, repaired>>
  BY DEF BackfillStores, linkVars
<1>6. Later /\ MayBeStored(span)'
  BY <1>1, <1>3, <1>4, <1>5, AskedMay
<1>7. MayBeStored(missing)'
  BY <1>4, <1>6 DEF MayBeStored
<1>8. ASSUME NEW b \in todo PROVE MayBeStored(b)'
  <2>1. b \in Buckets /\ \A m \in b : m \in Int /\ m < last
    BY <1>3, <1>4, BucketsAreInts DEF FullBuckets
  <2>2. \A m \in b : m < now \/ m \in asked'
    <3>1. ASSUME NEW m \in b PROVE m < now \/ m \in asked'
      <4>1. m \in Int /\ m < last
        BY <2>1
      <4>2. m < 1 \/ m \in span
        BY <1>2, <1>3, <4>1
      <4> QED
        BY <1>5, <1>6, <4>1, <4>2, NowType DEF MayBeStored
    <3> QED
      BY <3>1
  <2> QED
    BY <1>5, <2>2 DEF MayBeStored
<1>9. OpenOnlyIfAsked'
  <2>1. \A m \in store' \ store : m < now
    BY <1>1, NowType DEF Closed
  <2> QED
    BY <1>5, <1>6, <2>1, NewRows
<1>10. PICK j : j = Scanning(missing, todo)
  OBVIOUS
<1>11. j \in Calls /\ CallClosed(Rebuild, j)' /\ Goes(Rebuild, j)
  BY <1>1, <1>3, <1>4, <1>7, <1>8, <1>10, ScanningClosed
<1> QED
  BY <1>5, <1>6, <1>9, <1>11, Bounds, ClosedStep DEF ClosedInv

LEMMA RebuildFrameClosed ==
  ASSUME Inv, ClosedInv, NEW n \in Timeframes, NEW r \in SUBSET Int, RebuildFrame(n, r)
  PROVE  ClosedInv'
<1>1. PICK buckets : buckets = {b \in BucketsOf(n) : b \cap r # {}}
  OBVIOUS
<1>2. /\ buckets \in SUBSET Buckets /\ Asks(UNION buckets)
      /\ Goes(Rebuild, Scanning({}, buckets))
  BY <1>1 DEF Buckets, RebuildFrame, Scanning
<1>3. UNCHANGED <<now, child, store, agg, gaps, repaired>>
  BY DEF RebuildFrame, linkVars, rowVars
<1>4. PICK span : span = UNION buckets
  OBVIOUS
<1>5. Later /\ MayBeStored(span)'
  BY <1>2, <1>3, <1>4, BucketsAreInts, AskedMay
<1>6. MayBeStored({})' /\ \A b \in buckets : MayBeStored(b)'
  BY <1>4, <1>5 DEF MayBeStored
<1>7. PICK j : j = Scanning({}, buckets)
  OBVIOUS
<1>8. j \in Calls /\ CallClosed(Rebuild, j)' /\ Goes(Rebuild, j)
  BY <1>2, <1>6, <1>7, ScanningClosed
<1>9. OpenOnlyIfAsked'
  BY <1>3, <1>5, SameTables
<1> QED
  BY <1>3, <1>5, <1>8, <1>9, Bounds, ClosedStep DEF ClosedInv

LEMMA ScanRangeClosed ==
  ASSUME Inv, ClosedInv, NEW r \in SUBSET Int, ScanRange(r) PROVE ClosedInv'
<1>1. PICK missing : missing = r \ store
  OBVIOUS
<1>2. missing \in SUBSET Int /\ Asks(r) /\ Goes(Rebuild, Scanning(missing, {}))
  BY <1>1 DEF ScanRange
<1>3. UNCHANGED <<now, child, store, agg, gaps, repaired>>
  BY DEF ScanRange, linkVars, rowVars
<1>4. Later /\ MayBeStored(r)'
  BY <1>2, <1>3, AskedMay
<1>5. MayBeStored(missing)'
  BY <1>1, <1>4 DEF MayBeStored
<1>6. PICK j : j = Scanning(missing, {})
  OBVIOUS
<1>7. j \in Calls /\ CallClosed(Rebuild, j)' /\ Goes(Rebuild, j)
  BY <1>2, <1>5, <1>6, ScanningClosed
<1>8. OpenOnlyIfAsked'
  BY <1>3, <1>4, SameTables
<1> QED
  BY <1>3, <1>4, <1>7, <1>8, Bounds, ClosedStep DEF ClosedInv

LEMMA StopClosed == ASSUME Inv, ClosedInv, Stop PROVE ClosedInv'
<1>1. OpenOnlyIfAsked' /\ UNCHANGED <<now, asked>> /\ child' = 0
  BY SameTables, NothingAsked DEF Stop, rowVars
<1> QED
  BY <1>1, NowType, IdleOK DEF Stop, ClosedInv

LEMMA NextClosed == ASSUME Inv, ClosedInv, [Next]_vars PROVE ClosedInv'
<1>1. CASE Stream
  BY <1>1, StreamClosed, PollClosedClosed, VerifyContinuityClosed DEF Stream
<1>2. CASE Disconnect \/ ChildExits \/ BackfillBegins \/ BackfillEnds \/ UNCHANGED vars
  BY <1>2, StreamClosed
<1>3. CASE \E c \in Callers : Step(c)
  BY <1>3, EventStoredClosed, MinuteStoredClosed, ReadBucketClosed, OtherCallsClosed,
    AggregatesStoredClosed DEF Step
<1>4. CASE ReconcileIncomplete \/ BackfillStores
  BY <1>4, ReconcilesClosed, BackfillStoresClosed
<1>5. CASE MinuteCloses \/ Stop \/ (\E c \in Callers : WriteFails(c)) \/ RepairsGap
  BY <1>5, MinuteClosesClosed, StopClosed, WriteFailsClosed, RepairGapClosed DEF RepairsGap
<1>6. CASE \E s \in Spans : \/ ScanRange(s[1] .. s[2])
                           \/ \E n \in Timeframes : RebuildFrame(n, s[1] .. s[2])
  <2>1. PICK s \in Spans : \/ ScanRange(s[1] .. s[2])
                         \/ \E n \in Timeframes : RebuildFrame(n, s[1] .. s[2])
    BY <1>6
  <2>2. PICK r : r = s[1] .. s[2]
    OBVIOUS
  <2>3. r \in SUBSET Int /\ (ScanRange(r) \/ \E n \in Timeframes : RebuildFrame(n, r))
    BY <2>1, <2>2, SpansFacts
  <2> QED
    BY <2>3, RebuildFrameClosed, ScanRangeClosed
<1> QED
  BY <1>1, <1>2, <1>3, <1>4, <1>5, <1>6, Bounds DEF Next, Works, Reconciles

\* No candle, no aggregate and no gap is of a minute that has not closed, but
\* of those that the end of a job, a scan or a rebuild had reached for, whatever
\* is computed from older minutes, repaired, put back or stopped meanwhile.
THEOREM OpenOnlyIfAskedAlways == Spec => []OpenOnlyIfAsked
<1>1. Inv /\ ClosedInv /\ [Next]_vars => ClosedInv'
  BY NextClosed
<1>2. ClosedInv => OpenOnlyIfAsked
  BY DEF ClosedInv
<1> QED
  BY <1>1, <1>2, InitClosed, InvAlways, PTL DEF Spec

=============================================================================
