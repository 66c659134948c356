----------------------- MODULE VerificationJobsProofs -----------------------
(***************************************************************************)
(* Proofs about VerificationJobs and StrategyCatalog, for every number of  *)
(* callers, overlapping executions, configurations, runs, requests and     *)
(* stops.                                                                  *)
(***************************************************************************)
EXTENDS VerificationJobs, FiniteSetTheorems, SequenceTheorems, TLAPS

-----------------------------------------------------------------------------
(* The tables.                                                             *)

CatalogInv ==
    /\ CatalogTypeOK
    /\ \A v \in DOMAIN versions : versions[v].strategy \in DOMAIN strategies

\* What no statement ever does: delete a row, change an origin, or give a
\* version another strategy or another configuration.
CatalogGrows ==
    /\ DOMAIN strategies \subseteq DOMAIN strategies'
    /\ DOMAIN versions \subseteq DOMAIN versions'
    /\ \A s \in DOMAIN strategies : strategies'[s].origin = strategies[s].origin
    /\ \A v \in DOMAIN versions : /\ versions'[v].strategy = versions[v].strategy
                                  /\ versions'[v].hash = versions[v].hash

\* No statement but the owner's revives a retired strategy.
KeepsRetired ==
    \A s \in DOMAIN strategies :
        strategies[s].lifecycle = "RETIRED" => strategies'[s].lifecycle = "RETIRED"

LEMMA CatalogInitially == ASSUME CatalogInit PROVE CatalogInv
<1> DEFINE row == [lifecycle |-> "READY_FOR_DEEP_VERIFICATION", archived |-> FALSE, origin |-> "MANUAL"]
<1>1. row \in Strategy
  BY DEF Strategy, Lifecycles, Origins
<1>2. PICK h \in Hashes :
         versions = <<[strategy |-> 1, number |-> 1, hash |-> h, parent |-> None,
                       status |-> "READY_FOR_VERIFICATION"]>>
  BY DEF CatalogInit
<1> DEFINE first == [strategy |-> 1, number |-> 1, hash |-> h, parent |-> None,
                     status |-> "READY_FOR_VERIFICATION"]
<1>3. first \in Version /\ first.strategy = 1
  BY CatalogAssumption DEF Version, Statuses, StrategyIds, VersionIds
<1>4. strategies = <<row>> /\ versions = <<first>>
  BY <1>2 DEF CatalogInit
<1> HIDE DEF row, first
<1> QED
  BY <1>1, <1>3, <1>4, CatalogAssumption DEF CatalogInv, CatalogTypeOK

LEMMA CreateStrategyStep ==
  ASSUME CatalogInv, NEW l \in Lifecycles, NEW o \in Origins, CreateStrategy(l, o)
  PROVE  /\ CatalogInv' /\ CatalogGrows /\ KeepsRetired
         /\ Len(strategies') \in DOMAIN strategies' /\ Len(strategies') \notin DOMAIN strategies
         /\ strategies'[Len(strategies')].origin = o
<1> DEFINE row == [lifecycle |-> l, archived |-> FALSE, origin |-> o]
<1>1. row \in Strategy
  BY DEF Strategy
<1>2. strategies' = Append(strategies, row) /\ versions' = versions /\ Len(strategies) < MaxStrategies
  BY DEF CreateStrategy
<1>3. row.origin = o
  OBVIOUS
<1> HIDE DEF row
<1> QED
  BY <1>1, <1>2, <1>3, CatalogAssumption DEF CatalogInv, CatalogTypeOK, CatalogGrows, KeepsRetired

\* A row is rewritten: what a statement with SET lifecycle or SET status does.
LEMMA StrategyUpdate ==
  ASSUME CatalogInv, NEW s \in DOMAIN strategies, NEW row \in Strategy,
         row.origin = strategies[s].origin, strategies' = [strategies EXCEPT ![s] = row]
  PROVE  /\ strategies' \in Seq(Strategy) /\ DOMAIN strategies' = DOMAIN strategies
         /\ Len(strategies') = Len(strategies)
         /\ \A t \in DOMAIN strategies : strategies'[t].origin = strategies[t].origin
  BY ExceptSeq DEF CatalogInv, CatalogTypeOK

LEMMA VersionUpdate ==
  ASSUME CatalogInv, NEW v \in DOMAIN versions, NEW o \in Statuses,
         versions' = [versions EXCEPT ![v].status = o]
  PROVE  /\ versions' \in Seq(Version) /\ DOMAIN versions' = DOMAIN versions
         /\ Len(versions') = Len(versions)
         /\ \A w \in DOMAIN versions : /\ versions'[w].strategy = versions[w].strategy
                                       /\ versions'[w].hash = versions[w].hash
<1> DEFINE row == [versions[v] EXCEPT !.status = o]
<1>1. versions \in Seq(Version) /\ versions[v] \in Version
  BY DEF CatalogInv, CatalogTypeOK
<1>2. row \in Version /\ row.strategy = versions[v].strategy /\ row.hash = versions[v].hash
  BY <1>1 DEF Version
<1>3. versions' = [versions EXCEPT ![v] = row]
  OBVIOUS
<1> HIDE DEF row
<1> QED
  BY <1>1, <1>2, <1>3, ExceptSeq

LEMMA NumberOfNext ==
  ASSUME CatalogInv, NEW s, Len(versions) < MaxVersions
  PROVE  NextNumber(s) \in VersionIds
<1>1. VersionsOf(s) \subseteq 1 .. Len(versions)
  BY DEF VersionsOf, CatalogInv, CatalogTypeOK
<1>2. Len(versions) \in Nat
  BY DEF CatalogInv, CatalogTypeOK
<1>3. /\ IsFiniteSet(1 .. Len(versions)) /\ Cardinality(1 .. Len(versions)) = Len(versions)
  <2> DEFINE n == Len(versions)
  <2>1. n \in Nat /\ 1 \in Int /\ n \in Int
    BY <1>2
  <2> HIDE DEF n
  <2>2. IsFiniteSet(1 .. n) /\ Cardinality(1 .. n) = IF 1 > n THEN 0 ELSE n - 1 + 1
    BY <2>1, FS_Interval
  <2>3. Cardinality(1 .. n) = n
    BY <2>1, <2>2
  <2> QED
    BY <2>2, <2>3 DEF n
<1>4. Cardinality(VersionsOf(s)) \in Nat /\ Cardinality(VersionsOf(s)) <= Len(versions)
  BY <1>1, <1>3, FS_Subset, FS_CardinalityType
<1>5. MaxVersions \in Nat
  BY CatalogAssumption
<1>6. Cardinality(VersionsOf(s)) + 1 \in 1 .. MaxVersions
  BY <1>2, <1>4, <1>5
<1> QED
  BY <1>6 DEF NextNumber, VersionIds

LEMMA PublishStep ==
  ASSUME CatalogInv, NEW s \in DOMAIN strategies, NEW h \in Hashes,
         NEW p \in VersionIds \cup {None}, Publish(s, h, p)
  PROVE  /\ CatalogInv' /\ CatalogGrows /\ KeepsRetired
         /\ Len(versions') \in DOMAIN versions'
         /\ versions'[Len(versions')].strategy = s /\ versions'[Len(versions')].hash = h
<1> DEFINE row == [strategy |-> s, number |-> NextNumber(s), hash |-> h, parent |-> p,
                   status |-> "READY_FOR_VERIFICATION"]
<1>1. versions' = Append(versions, row) /\ Len(versions) < MaxVersions
  BY DEF Publish
<1>2. s \in StrategyIds
  BY CatalogAssumption DEF CatalogInv, CatalogTypeOK, StrategyIds
<1>3. row \in Version /\ row.strategy = s /\ row.hash = h
  BY <1>1, <1>2, NumberOfNext DEF Version, Statuses
<1> DEFINE ready == [strategies[s] EXCEPT !.lifecycle = "READY_FOR_DEEP_VERIFICATION"]
<1>4. strategies \in Seq(Strategy) /\ strategies[s] \in Strategy
  BY DEF CatalogInv, CatalogTypeOK
<1>5. /\ strategies' \in Seq(Strategy) /\ DOMAIN strategies' = DOMAIN strategies
      /\ Len(strategies') = Len(strategies)
      /\ \A t \in DOMAIN strategies : strategies'[t].origin = strategies[t].origin
  <2>1. CASE strategies' = strategies
    BY <2>1, <1>4
  <2>2. CASE strategies' = [strategies EXCEPT ![s].lifecycle = "READY_FOR_DEEP_VERIFICATION"]
    <3>1. ready \in Strategy /\ ready.origin = strategies[s].origin
      BY <1>4 DEF Strategy, Lifecycles
    <3>2. strategies' = [strategies EXCEPT ![s] = ready]
      BY <2>2
    <3> QED
      BY <3>1, <3>2, StrategyUpdate
  <2> QED
    BY <2>1, <2>2 DEF Publish
<1>6. KeepsRetired
  BY DEF Publish, KeepsRetired, CatalogInv, CatalogTypeOK, Strategy
<1> HIDE DEF row
<1> QED
  BY <1>1, <1>3, <1>5, <1>6, CatalogAssumption DEF CatalogInv, CatalogTypeOK, CatalogGrows

LEMMA LifecycleStep ==
  ASSUME CatalogInv, NEW s \in DOMAIN strategies, NEW l \in Lifecycles,
         SetLifecycle(s, l) \/ Retire(s)
  PROVE  CatalogInv' /\ CatalogGrows
<1>1. PICK m \in Lifecycles, b \in BOOLEAN :
         strategies' = [strategies EXCEPT ![s].lifecycle = m, ![s].archived = b]
  BY DEF SetLifecycle, Retire, Lifecycles
<1> DEFINE row == [strategies[s] EXCEPT !.lifecycle = m, !.archived = b]
<1>2. strategies \in Seq(Strategy) /\ strategies[s] \in Strategy
  BY DEF CatalogInv, CatalogTypeOK
<1>3. row \in Strategy /\ row.origin = strategies[s].origin
  BY <1>2 DEF Strategy
<1>4. strategies' = [strategies EXCEPT ![s] = row] /\ versions' = versions
  BY <1>1, <1>2 DEF SetLifecycle, Retire
<1> HIDE DEF row
<1> QED
  BY <1>3, <1>4, StrategyUpdate DEF CatalogInv, CatalogTypeOK, CatalogGrows

LEMMA ArchiveStep ==
  ASSUME CatalogInv, NEW v \in DOMAIN versions, ArchiveVersion(v)
  PROVE  CatalogInv' /\ CatalogGrows
  BY VersionUpdate DEF ArchiveVersion, CatalogInv, CatalogTypeOK, CatalogGrows, Statuses

LEMMA OutcomeStep ==
  ASSUME CatalogInv, NEW v \in DOMAIN versions, NEW o \in Outcomes, NEW p,
         ApplyVerificationOutcome(v, o, p)
  PROVE  CatalogInv' /\ CatalogGrows /\ KeepsRetired
<1> DEFINE s == versions[v].strategy
           row == [strategies[s] EXCEPT !.lifecycle = "VERIFIED"]
<1>1. strategies \in Seq(Strategy) /\ s \in DOMAIN strategies /\ strategies[s] \in Strategy
  BY DEF CatalogInv, CatalogTypeOK
<1>2. row \in Strategy /\ row.origin = strategies[s].origin
  BY <1>1 DEF Strategy, Lifecycles
<1>3. \/ strategies' = strategies
      \/ strategies' = [strategies EXCEPT ![s] = row] /\ strategies[s].lifecycle # "RETIRED"
  BY <1>1 DEF ApplyVerificationOutcome
<1>4. versions' = [versions EXCEPT ![v].status = o] /\ o \in Statuses
  BY DEF ApplyVerificationOutcome, Statuses
<1> HIDE DEF s, row
<1>5. /\ strategies' \in Seq(Strategy) /\ DOMAIN strategies' = DOMAIN strategies
      /\ Len(strategies') = Len(strategies)
      /\ \A t \in DOMAIN strategies : strategies'[t].origin = strategies[t].origin
  BY <1>1, <1>2, <1>3, StrategyUpdate
<1>6. KeepsRetired
  BY <1>1, <1>3 DEF KeepsRetired
<1> QED
  BY <1>4, <1>5, <1>6, VersionUpdate DEF CatalogInv, CatalogTypeOK, CatalogGrows

-----------------------------------------------------------------------------
(* The runs.                                                               *)

\* The trades under a report are those it was computed from.
Consistent(row) ==
    /\ row.report # None /\ row.moves => row.trades = row.report
    /\ row.status = "COMPLETED" => row.report # None

\* A run is executed once more only after a stop.
Counted(row) ==
    /\ row.attempt <= trouble + 1
    /\ row.status = "QUEUED" => row.attempt <= trouble

RunsInv ==
    /\ runs \in Seq(Run) /\ Len(runs) <= MaxRuns
    /\ \A r \in DOMAIN runs : /\ runs[r].version \in DOMAIN versions
                              /\ Consistent(runs[r]) /\ Counted(runs[r])

TroubleInv == trouble \in 0 .. MaxTrouble

\* No row goes away, its identity stays, and so do trades and the presence of
\* a report once they are stored.
RowGrows(old, new) ==
    /\ new.version = old.version /\ new.profile = old.profile /\ new.moves = old.moves
    /\ old.report # None => new.report # None
    /\ old.trades # None => new.trades = old.trades
RunsGrow ==
    /\ DOMAIN runs \subseteq DOMAIN runs'
    /\ \A r \in DOMAIN runs : RowGrows(runs[r], runs'[r])

\* A claimed run does not go back to the queue: only a stop does that.
RowKeeps(old, new) ==
    old.status # "QUEUED" => new.status # "QUEUED" /\ new.attempt = old.attempt
RunsKeep == \A r \in DOMAIN runs : RowKeeps(runs[r], runs'[r])

LEMMA RowTypes ==
  ASSUME RunsInv, NEW r \in DOMAIN runs
  PROVE  /\ runs[r] \in Run /\ r \in RunIds
         /\ runs[r].version \in DOMAIN versions /\ runs[r].profile \in AllProfiles
<1>1. runs \in Seq(Run) /\ Len(runs) <= MaxRuns /\ runs[r].version \in DOMAIN versions
  BY DEF RunsInv
<1>2. runs[r] \in Run
  BY <1>1
<1>3. r \in RunIds
  BY <1>1, VerificationAssumption DEF RunIds
<1> QED
  BY <1>1, <1>2, <1>3 DEF Run

LEMMA RunsSame ==
  ASSUME RunsInv, runs' = runs, DOMAIN versions \subseteq DOMAIN versions',
         TroubleInv, TroubleInv', trouble <= trouble'
  PROVE  RunsInv' /\ RunsGrow /\ RunsKeep
<1>1. \A r \in DOMAIN runs : runs[r] \in Run
  BY DEF RunsInv
<1>2. \A r \in DOMAIN runs : runs[r].attempt \in Int
  BY <1>1, VerificationAssumption DEF Run, Attempts, None
<1> QED
  BY <1>2, VerificationAssumption DEF RunsInv, RunsGrow, RunsKeep, RowGrows, RowKeeps, Counted, Consistent, TroubleInv

LEMMA RunUpdate ==
  ASSUME RunsInv, NEW r \in DOMAIN runs, NEW row \in Run, runs' = [runs EXCEPT ![r] = row],
         Consistent(row), Counted(row), RowGrows(runs[r], row), RowKeeps(runs[r], row),
         UNCHANGED <<versions, trouble>>
  PROVE  RunsInv' /\ RunsGrow /\ RunsKeep
<1>1. /\ runs' \in Seq(Run) /\ DOMAIN runs' = DOMAIN runs /\ Len(runs') = Len(runs)
      /\ \A q \in DOMAIN runs : runs'[q] = IF q = r THEN row ELSE runs[q]
  BY ExceptSeq DEF RunsInv
<1>2. row.version \in DOMAIN versions
  BY DEF RowGrows, RunsInv
<1>3. RunsInv'
  BY <1>1, <1>2 DEF RunsInv, Consistent, Counted
<1> QED
  BY <1>1, <1>3 DEF RunsGrow, RunsKeep, RowGrows, RowKeeps

LEMMA CreateRunStep ==
  ASSUME RunsInv, CatalogInv, TroubleInv, NEW v \in DOMAIN versions, NEW p \in AllProfiles,
         NEW q \in RunIds \cup {None}, CreateRun(v, p, q), UNCHANGED <<versions, trouble>>
  PROVE  /\ RunsInv' /\ RunsGrow /\ RunsKeep
         /\ Len(runs') \in DOMAIN runs' /\ Len(runs') \in RunIds
         /\ runs'[Len(runs')].version = v /\ runs'[Len(runs')].profile = p
<1>1. PICK moves \in BOOLEAN : runs' = Append(runs, NewRun(v, p, q, moves))
  BY DEF CreateRun
<1> DEFINE row == NewRun(v, p, q, moves)
<1>2. v \in VersionIds
  BY CatalogAssumption DEF CatalogInv, CatalogTypeOK, VersionIds
<1>3. row \in Run /\ row.version = v /\ row.profile = p
  BY <1>2 DEF NewRun, Run, None, Active
<1>4. Consistent(row) /\ Counted(row)
  BY DEF NewRun, Consistent, Counted, TroubleInv, None
<1>5. Len(runs) < MaxRuns
  BY DEF CreateRun
<1> HIDE DEF row
<1>6. /\ runs' \in Seq(Run) /\ Len(runs') = Len(runs) + 1 /\ runs'[Len(runs')] = row
      /\ \A i \in DOMAIN runs : i \in DOMAIN runs' /\ runs'[i] = runs[i]
      /\ DOMAIN runs' = DOMAIN runs \cup {Len(runs')}
  BY <1>1, <1>3 DEF RunsInv, row
<1>7. RunsInv'
  BY <1>3, <1>4, <1>5, <1>6, VerificationAssumption DEF RunsInv, Consistent, Counted
<1> QED
  BY <1>3, <1>5, <1>6, <1>7, VerificationAssumption
  DEF RunsInv, RunsGrow, RunsKeep, RowGrows, RowKeeps, RunIds

-----------------------------------------------------------------------------
(* The executions.                                                         *)

Remainders == UNION {Suffixes(Stages(p)) : p \in AllProfiles}

StageNames == {"SIMULATING", "METRICS", "COST_STRESS", "PARAMETER_ROBUSTNESS", "WALK_FORWARD"}

LEMMA StagesFacts ==
  ASSUME NEW p \in AllProfiles
  PROVE  Stages(p) \in Seq(StageNames) /\ Len(Stages(p)) \in Nat \ {0}
<1>1. CASE p = "QUICK"
  <2>1. Stages(p) = <<"SIMULATING", "METRICS">>
    BY <1>1 DEF Stages
  <2> QED
    BY <2>1 DEF StageNames
<1>2. CASE p = "STANDARD"
  <2>1. Stages(p) = <<"SIMULATING", "METRICS", "COST_STRESS">>
    BY <1>2 DEF Stages
  <2> QED
    BY <2>1 DEF StageNames
<1>3. CASE p = "FULL"
  <2>1. Stages(p) = <<"SIMULATING", "METRICS", "COST_STRESS",
                      "PARAMETER_ROBUSTNESS", "WALK_FORWARD">>
    BY <1>3 DEF Stages
  <2> QED
    BY <2>1 DEF StageNames
<1> QED
  BY <1>1, <1>2, <1>3 DEF AllProfiles

LEMMA AllStagesRemain ==
  ASSUME NEW p \in AllProfiles
  PROVE  Stages(p) \in Remainders
<1> DEFINE s == Stages(p)
<1>1. s \in Seq(StageNames) /\ Len(s) \in Nat
  BY StagesFacts
<1> HIDE DEF s
<1>2. s = SubSeq(s, 1, Len(s))
  BY <1>1, SubSeqFull
<1>3. s \in Suffixes(s)
  BY <1>1, <1>2 DEF Suffixes
<1> QED
  BY <1>3 DEF Remainders, s

LEMMA NoStageRemains == <<>> \in Remainders
<1> DEFINE s == Stages("QUICK")
<1>1. s \in Seq(StageNames) /\ Len(s) \in Nat
  BY StagesFacts DEF AllProfiles
<1> HIDE DEF s
<1>2. <<>> = SubSeq(s, Len(s) + 1, Len(s)) /\ Len(s) + 1 \in 1 .. Len(s) + 1
  BY <1>1, SubSeqEmpty
<1>3. <<>> \in Suffixes(s)
  BY <1>1, <1>2 DEF Suffixes
<1> QED
  BY <1>3 DEF Remainders, AllProfiles, s

\* What is left after a stage is left of the same stages, and none is skipped.
LEMMA NextStage ==
  ASSUME NEW left \in Remainders, left # <<>>
  PROVE  Tail(left) \in Remainders /\ (Len(left) # 1 => Tail(left) # <<>>)
<1>1. PICK p \in AllProfiles : left \in Suffixes(Stages(p))
  BY DEF Remainders
<1> DEFINE s == Stages(p)
<1>2. s \in Seq(StageNames) /\ Len(s) \in Nat
  BY StagesFacts
<1>3. PICK i \in 1 .. Len(s) + 1 : left = SubSeq(s, i, Len(s))
  BY <1>1 DEF Suffixes
<1> HIDE DEF s
<1>4. i <= Len(s)
  BY <1>2, <1>3, SubSeqEmpty
<1>5. left \in Seq(StageNames) /\ Len(left) = Len(s) - i + 1
  BY <1>2, <1>3, <1>4, SubSeqProperties
<1>6. Tail(left) = SubSeq(s, i + 1, Len(s))
  BY <1>2, <1>3, <1>4, HeadTailOfSubSeq
<1>7. i + 1 \in 1 .. Len(s) + 1
  BY <1>2, <1>4
<1>8. Tail(left) \in Suffixes(s)
  BY <1>6, <1>7 DEF Suffixes
<1>9. Len(Tail(left)) = Len(left) - 1
  BY <1>5, HeadTailProperties
<1>10. Len(left) # 1 => Len(Tail(left)) # 0
  <2>1. Len(left) \in Int
    BY <1>2, <1>4, <1>5
  <2> QED
    BY <2>1, <1>9
<1>11. Tail(left) \in Remainders
  BY <1>8 DEF Remainders, s
<1>12. Tail(left) = <<>> => Len(Tail(left)) = 0
  BY EmptySeq
<1> QED
  BY <1>10, <1>11, <1>12

\* What an execution has done for its run by the time it is at pc.
ExecOK(x) ==
    /\ x.pc \notin {"idle", "claim"} =>
         /\ x.run \in DOMAIN runs
         /\ runs[x.run].status # "QUEUED" /\ runs[x.run].attempt # None
    /\ x.pc = "stage" => x.left # <<>>
    /\ x.pc = "report" => (runs[x.run].moves => runs[x.run].trades = runs[x.run].attempt)
    /\ x.pc \in {"complete", "outcome"} => runs[x.run].report # None

ExecInv ==
    /\ exec \in [Slots -> Execution]
    /\ \A e \in Slots : ExecOK(exec[e])

LEMMA IdleExecution == Idle \in Execution /\ Idle.pc = "idle"
  BY NoStageRemains DEF Idle, Execution, Remainders

\* The other executions, and those of a request's step.
LEMMA ExecFrame ==
  ASSUME RunsInv, RunsGrow, RunsKeep, NEW x, ExecOK(x)
  PROVE  ExecOK(x)'
  BY DEF ExecOK, RunsGrow, RunsKeep, RowGrows, RowKeeps

LEMMA ExecSame ==
  ASSUME RunsInv, ExecInv, RunsGrow, RunsKeep, exec' = exec
  PROVE  ExecInv'
  BY ExecFrame DEF ExecInv, ExecOK

LEMMA ExecMoves ==
  ASSUME RunsInv, ExecInv, RunsGrow, RunsKeep, NEW e \in Slots, NEW x \in Execution,
         Moves(e, x), ExecOK(x)'
  PROVE  ExecInv'
<1>1. exec' = [exec EXCEPT ![e] = x] /\ exec' \in [Slots -> Execution]
  BY DEF Moves, ExecInv
<1>2. ASSUME NEW d \in Slots PROVE ExecOK(exec[d])'
  <2>1. CASE d = e
    BY <1>1, <2>1 DEF ExecOK, ExecInv
  <2>2. CASE d # e
    <3>1. exec'[d] = exec[d]
      BY <1>1, <2>2 DEF ExecInv
    <3> QED
      BY <3>1, ExecFrame DEF ExecOK, ExecInv
  <2> QED
    BY <2>1, <2>2
<1> QED
  BY <1>1, <1>2 DEF ExecInv

-----------------------------------------------------------------------------
(* The requests.                                                           *)

\* A promotion that has made its strategy but is not recorded.
Promoting == {"promote-publish", "promote-verify", "promote-record"}

\* What a request may rely on when it continues.
RequestOK(q) ==
    /\ q.op = "publish" =>
         /\ q.strategy \in DOMAIN strategies /\ q.hash \in Hashes
         /\ q.at \in VersionIds \cup {None}
    /\ q.op = "retry" => q.at \in DOMAIN runs
    /\ q.op = "recalculate" =>
         /\ q.at \in DOMAIN runs /\ runs[q.at].report # None
         /\ runs[q.at].moves => q.run # None /\ q.run = runs[q.at].trades
    /\ q.op \in {"promote", "promote-publish", "promote-verify"} => q.run = None
    /\ q.op \in Promoting =>
         /\ q.strategy \in DOMAIN strategies
         /\ strategies[q.strategy].origin = "STRATEGY_LAB"
    /\ q.op \in {"promote-verify", "promote-record"} =>
         /\ q.version \in DOMAIN versions
         /\ versions[q.version].strategy = q.strategy
         /\ versions[q.version].hash = CandidateHash
    /\ q.op = "promote-record" /\ q.run # None =>
         /\ q.run \in DOMAIN runs
         /\ runs[q.run].version = q.version /\ runs[q.run].profile = "FULL"

RequestInv ==
    /\ request \in [Clients -> Request]
    /\ \A c \in Clients : RequestOK(request[c])

LEMMA NoRequestOK == NoRequest \in Request /\ RequestOK(NoRequest) /\ NoRequest.op = "none"
  BY DEF NoRequest, Request, RequestOK, Operations, None, Promoting

LEMMA RequestFrame ==
  ASSUME CatalogInv, RunsInv, CatalogGrows, RunsGrow, NEW q, RequestOK(q)
  PROVE  RequestOK(q)'
<1>1. q.op = "recalculate" =>
         /\ q.at \in DOMAIN runs' /\ runs'[q.at].report # None
         /\ runs'[q.at].moves => q.run # None /\ q.run = runs'[q.at].trades
  BY DEF RequestOK, RunsGrow, RowGrows
<1>2. q.op = "promote-record" /\ q.run # None =>
         /\ q.run \in DOMAIN runs'
         /\ runs'[q.run].version = q.version /\ runs'[q.run].profile = "FULL"
  BY DEF RequestOK, RunsGrow, RowGrows
<1>3. q.op = "retry" => q.at \in DOMAIN runs'
  BY DEF RequestOK, RunsGrow
<1>4. q.op \in Promoting =>
         /\ q.strategy \in DOMAIN strategies'
         /\ strategies'[q.strategy].origin = "STRATEGY_LAB"
  BY DEF RequestOK, CatalogGrows
<1>5. q.op \in {"promote-verify", "promote-record"} =>
         /\ q.version \in DOMAIN versions'
         /\ versions'[q.version].strategy = q.strategy
         /\ versions'[q.version].hash = CandidateHash
  BY DEF RequestOK, CatalogGrows
<1> QED
  BY <1>1, <1>2, <1>3, <1>4, <1>5 DEF RequestOK, CatalogGrows

LEMMA RequestSame ==
  ASSUME CatalogInv, RunsInv, RequestInv, CatalogGrows, RunsGrow, request' = request
  PROVE  RequestInv'
<1>1. ASSUME NEW c \in Clients PROVE RequestOK(request[c])'
  BY RequestFrame DEF RequestInv, RequestOK
<1> QED
  BY <1>1 DEF RequestInv

LEMMA RequestGoes ==
  ASSUME CatalogInv, RunsInv, RequestInv, CatalogGrows, RunsGrow,
         NEW c \in Clients, NEW q \in Request, Goes(c, q), RequestOK(q)'
  PROVE  RequestInv'
<1>1. request' = [request EXCEPT ![c] = q] /\ request' \in [Clients -> Request]
  BY DEF Goes, RequestInv
<1>2. ASSUME NEW d \in Clients PROVE RequestOK(request[d])'
  <2>1. CASE d = c
    <3>1. request'[d] = q
      BY <1>1, <2>1 DEF RequestInv
    <3> QED
      BY <3>1 DEF RequestOK
  <2>2. CASE d # c
    <3>1. request'[d] = request[d]
      BY <1>1, <2>2 DEF RequestInv
    <3> QED
      BY <3>1, RequestFrame DEF RequestOK, RequestInv
  <2> QED
    BY <2>1, <2>2
<1> QED
  BY <1>1, <1>2 DEF RequestInv

LEMMA RequestAnswers ==
  ASSUME CatalogInv, RunsInv, RequestInv, CatalogGrows, RunsGrow, NEW c \in Clients, Answers(c)
  PROVE  RequestInv'
<1>1. RequestOK(NoRequest)'
  BY NoRequestOK DEF RequestOK, NoRequest, Promoting
<1> QED
  BY <1>1, NoRequestOK, RequestGoes DEF Answers

LEMMA CatalogSame ==
  ASSUME CatalogInv, UNCHANGED catalog
  PROVE  CatalogInv' /\ CatalogGrows /\ KeepsRetired
  BY DEF CatalogInv, CatalogTypeOK, CatalogGrows, KeepsRetired, catalog

-----------------------------------------------------------------------------
(* Every step.                                                             *)

CountersInv == running \in BOOLEAN /\ requests \in 0 .. MaxRequests
JobsInv == CatalogInv /\ RunsInv /\ ExecInv /\ RequestInv /\ TroubleInv /\ CountersInv

\* What holds of each step that starts in JobsInv.
Sound ==
    /\ JobsInv' /\ CatalogGrows /\ RunsGrow
    /\ KeepsRetired \/ requests' # requests

\* The common part of a step that leaves the worker alone.
LEMMA WorkerIdle ==
  ASSUME JobsInv, UNCHANGED jobs, CatalogGrows, TroubleInv', trouble <= trouble'
  PROVE  RunsInv' /\ RunsGrow /\ RunsKeep /\ ExecInv' /\ running' \in BOOLEAN
<1>1. RunsInv' /\ RunsGrow /\ RunsKeep
  BY RunsSame DEF JobsInv, jobs, CatalogGrows
<1> QED
  BY <1>1, ExecSame DEF JobsInv, jobs, CountersInv

LEMMA BeginsCounts ==
  ASSUME JobsInv, NEW c, Begins(c)
  PROVE  requests' \in 0 .. MaxRequests /\ requests' # requests
  BY VerificationAssumption DEF Begins, JobsInv, CountersInv

LEMMA TroubleSame ==
  ASSUME JobsInv, trouble' = trouble
  PROVE  TroubleInv' /\ trouble <= trouble'
  BY DEF JobsInv, TroubleInv

LEMMA PostStrategySound == ASSUME JobsInv, NEW c \in Clients, PostStrategy(c) PROVE Sound
<1>1. PICK h \in Hashes, source \in DOMAIN versions \cup {None} :
         /\ CreateStrategy("DRAFT",
                IF source = None THEN "MANUAL"
                ELSE strategies[versions[source].strategy].origin)
         /\ Goes(c, [NoRequest EXCEPT !.op = "publish", !.at = source, !.hash = h,
                                      !.strategy = Len(strategies')])
  BY DEF PostStrategy
<1> DEFINE origin == IF source = None THEN "MANUAL"
                     ELSE strategies[versions[source].strategy].origin
<1>2. origin \in Origins
  <2>1. CASE source = None
    BY <2>1 DEF Origins
  <2>2. CASE source # None
    <3>1. versions[source].strategy \in DOMAIN strategies /\ strategies \in Seq(Strategy)
      BY <1>1, <2>2 DEF JobsInv, CatalogInv, CatalogTypeOK
    <3>2. strategies[versions[source].strategy] \in Strategy
      BY <3>1
    <3> QED
      BY <2>2, <3>2 DEF Strategy
  <2> QED
    BY <2>1, <2>2
<1>3. /\ CatalogInv' /\ CatalogGrows /\ KeepsRetired
      /\ Len(strategies') \in DOMAIN strategies'
  BY <1>1, <1>2, CreateStrategyStep DEF JobsInv, Lifecycles
<1>4. /\ RunsInv' /\ RunsGrow /\ RunsKeep /\ ExecInv' /\ running' \in BOOLEAN
      /\ TroubleInv'
  BY <1>3, WorkerIdle, TroubleSame DEF PostStrategy
<1>5. PICK q : q = [NoRequest EXCEPT !.op = "publish", !.at = source, !.hash = h,
                                     !.strategy = Len(strategies')]
  OBVIOUS
<1>6. Len(strategies') \in StrategyIds /\ source \in VersionIds \cup {None}
  BY <1>1, <1>3, CatalogAssumption DEF JobsInv, CatalogInv, CatalogTypeOK, StrategyIds, VersionIds
<1>7. q \in Request
  BY <1>1, <1>5, <1>6 DEF NoRequest, Request, Operations, None
<1>8. q.op = "publish" /\ q.strategy \in DOMAIN strategies' /\ q.hash \in Hashes /\ q.at = source
  BY <1>1, <1>3, <1>5 DEF NoRequest
<1>9. RequestOK(q)'
  BY <1>6, <1>8 DEF RequestOK, Promoting
<1>10. RequestInv'
  BY <1>1, <1>3, <1>4, <1>5, <1>7, <1>9, RequestGoes DEF JobsInv
<1> QED
  BY <1>3, <1>4, <1>10, BeginsCounts DEF PostStrategy, Sound, JobsInv, CountersInv

LEMMA PublishFirstSound == ASSUME JobsInv, NEW c \in Clients, PublishFirst(c) PROVE Sound
<1>1. RequestOK(request[c]) /\ request[c].op = "publish"
  BY DEF PublishFirst, JobsInv, RequestInv
<1>2. CatalogInv' /\ CatalogGrows /\ KeepsRetired
  BY <1>1, PublishStep DEF PublishFirst, JobsInv, RequestOK
<1>3. /\ RunsInv' /\ RunsGrow /\ RunsKeep /\ ExecInv' /\ running' \in BOOLEAN
      /\ TroubleInv'
  BY <1>2, WorkerIdle, TroubleSame DEF PublishFirst
<1>4. RequestInv'
  BY <1>2, <1>3, RequestAnswers DEF PublishFirst, JobsInv
<1> QED
  BY <1>2, <1>3, <1>4 DEF PublishFirst, Sound, JobsInv, CountersInv

LEMMA ChangeCatalogSound == ASSUME JobsInv, NEW c \in Clients, ChangeCatalog(c) PROVE Sound
<1>1. CatalogInv' /\ CatalogGrows
  <2>1. ASSUME NEW s \in DOMAIN strategies, NEW h \in Hashes, Publish(s, h, None)
        PROVE  CatalogInv' /\ CatalogGrows
    BY <2>1, PublishStep DEF JobsInv
  <2>2. ASSUME NEW s \in DOMAIN strategies, NEW l \in Asked, SetLifecycle(s, l)
        PROVE  CatalogInv' /\ CatalogGrows
    BY <2>2, LifecycleStep, VerificationAssumption DEF JobsInv
  <2>3. ASSUME NEW s \in DOMAIN strategies, Retire(s)
        PROVE  CatalogInv' /\ CatalogGrows
    BY <2>3, LifecycleStep DEF JobsInv, Lifecycles
  <2>4. ASSUME NEW v \in DOMAIN versions, ArchiveVersion(v)
        PROVE  CatalogInv' /\ CatalogGrows
    BY <2>4, ArchiveStep DEF JobsInv
  <2> QED
    BY <2>1, <2>2, <2>3, <2>4 DEF ChangeCatalog
<1>2. /\ RunsInv' /\ RunsGrow /\ RunsKeep /\ ExecInv' /\ running' \in BOOLEAN
      /\ TroubleInv'
  BY <1>1, WorkerIdle, TroubleSame DEF ChangeCatalog
<1>3. RequestInv'
  BY <1>1, <1>2, RequestSame DEF ChangeCatalog, JobsInv
<1> QED
  BY <1>1, <1>2, <1>3, BeginsCounts DEF ChangeCatalog, Sound, JobsInv, CountersInv

\* The three requests that create a run and nothing else.
LEMMA NewRunSound ==
  ASSUME JobsInv, NEW v \in DOMAIN versions, NEW p \in AllProfiles, NEW q \in RunIds \cup {None},
         CreateRun(v, p, q), UNCHANGED <<catalog, trouble>>
  PROVE  /\ CatalogInv' /\ CatalogGrows /\ KeepsRetired /\ RunsInv' /\ RunsGrow /\ ExecInv'
         /\ TroubleInv' /\ running' \in BOOLEAN
         /\ Len(runs') \in DOMAIN runs' /\ Len(runs') \in RunIds
         /\ runs'[Len(runs')].version = v /\ runs'[Len(runs')].profile = p
<1>1. CatalogInv' /\ CatalogGrows /\ KeepsRetired
  BY CatalogSame DEF JobsInv
<1>2. /\ RunsInv' /\ RunsGrow /\ RunsKeep
      /\ Len(runs') \in DOMAIN runs' /\ Len(runs') \in RunIds
      /\ runs'[Len(runs')].version = v /\ runs'[Len(runs')].profile = p
  BY CreateRunStep DEF JobsInv, catalog
<1>3. ExecInv'
  BY <1>2, ExecSame DEF CreateRun, JobsInv
<1> QED
  BY <1>1, <1>2, <1>3 DEF JobsInv, TroubleInv, CountersInv, CreateRun

LEMMA PostRunSound ==
  ASSUME JobsInv, NEW c \in Clients, PostRun(c) \/ RerunRun(c)
  PROVE  Sound
<1>1. PICK v \in DOMAIN versions, p \in AllProfiles : CreateRun(v, p, None)
  <2>1. CASE PostRun(c)
    BY <2>1, VerificationAssumption DEF PostRun
  <2>2. CASE RerunRun(c)
    BY <2>2, RowTypes DEF RerunRun, JobsInv
  <2> QED
    BY <2>1, <2>2
<1>2. Begins(c) /\ UNCHANGED <<catalog, request, trouble>>
  BY DEF PostRun, RerunRun
<1>3. /\ CatalogInv' /\ CatalogGrows /\ KeepsRetired /\ RunsInv' /\ RunsGrow /\ ExecInv'
      /\ TroubleInv' /\ running' \in BOOLEAN
  BY <1>1, <1>2, NewRunSound
<1>4. RequestInv'
  BY <1>2, <1>3, RequestSame DEF JobsInv
<1> QED
  BY <1>2, <1>3, <1>4, BeginsCounts DEF Sound, JobsInv, CountersInv

LEMMA CreateRetrySound == ASSUME JobsInv, NEW c \in Clients, CreateRetry(c) PROVE Sound
<1> DEFINE r == request[c].at
<1>1. RequestOK(request[c]) /\ request[c].op = "retry"
  BY DEF CreateRetry, JobsInv, RequestInv
<1>2. r \in DOMAIN runs
  BY <1>1 DEF RequestOK
<1>3. /\ runs[r].version \in DOMAIN versions /\ runs[r].profile \in AllProfiles
      /\ r \in RunIds \cup {None}
  BY <1>2, RowTypes DEF JobsInv
<1>4. /\ CreateRun(runs[r].version, runs[r].profile, r)
      /\ UNCHANGED <<catalog, trouble, requests>>
  BY DEF CreateRetry
<1> HIDE DEF r
<1>5. /\ CatalogInv' /\ CatalogGrows /\ KeepsRetired /\ RunsInv' /\ RunsGrow /\ ExecInv'
      /\ TroubleInv' /\ running' \in BOOLEAN
  BY <1>3, <1>4, NewRunSound
<1>6. RequestInv'
  BY <1>5, RequestAnswers DEF CreateRetry, JobsInv
<1> QED
  BY <1>4, <1>5, <1>6 DEF Sound, JobsInv, CountersInv

\* A step that changes no table of the catalogue and no run.
LEMMA TablesSame ==
  ASSUME JobsInv, UNCHANGED <<catalog, jobs>>, TroubleInv', trouble <= trouble'
  PROVE  /\ CatalogInv' /\ CatalogGrows /\ KeepsRetired
         /\ RunsInv' /\ RunsGrow /\ ExecInv' /\ running' \in BOOLEAN
<1>1. CatalogInv' /\ CatalogGrows /\ KeepsRetired
  BY CatalogSame DEF JobsInv
<1> QED
  BY <1>1, WorkerIdle

LEMMA AskSound ==
  ASSUME JobsInv, NEW c \in Clients, RetryRun(c) \/ Recalculate(c) \/ Promote(c)
  PROVE  Sound
<1>1. Begins(c) /\ UNCHANGED <<catalog, jobs, trouble>>
  BY DEF RetryRun, Recalculate, Promote
<1>2. /\ CatalogInv' /\ CatalogGrows /\ KeepsRetired
      /\ RunsInv' /\ RunsGrow /\ ExecInv' /\ running' \in BOOLEAN /\ TroubleInv'
  BY <1>1, TablesSame, TroubleSame
<1>3. RequestInv'
  <2>1. ASSUME NEW r \in DOMAIN runs,
               Goes(c, [NoRequest EXCEPT !.op = "retry", !.at = r])
        PROVE  RequestInv'
    <3>1. PICK q : q = [NoRequest EXCEPT !.op = "retry", !.at = r]
      OBVIOUS
    <3>2. r \in RunIds
      BY RowTypes DEF JobsInv
    <3>3. q \in Request /\ q.op = "retry" /\ q.at = r
      BY <3>1, <3>2 DEF NoRequest, Request, Operations, None
    <3>4. r \in DOMAIN runs'
      BY <1>1 DEF jobs
    <3>5. RequestOK(q)'
      BY <3>3, <3>4 DEF RequestOK, Promoting
    <3> QED
      BY <1>2, <2>1, <3>1, <3>3, <3>5, RequestGoes DEF JobsInv
  <2>2. ASSUME NEW r \in DOMAIN runs, runs[r].report # None,
               Goes(c, [NoRequest EXCEPT !.op = "recalculate", !.at = r, !.run = runs[r].trades])
        PROVE  RequestInv'
    <3>1. PICK q : q = [NoRequest EXCEPT !.op = "recalculate", !.at = r, !.run = runs[r].trades]
      OBVIOUS
    <3>2. r \in RunIds /\ runs[r] \in Run
      BY RowTypes DEF JobsInv
    <3>3. runs[r].trades \in Attempts \cup {None}
      BY <3>2 DEF Run
    <3>4. q \in Request /\ q.op = "recalculate" /\ q.at = r /\ q.run = runs[r].trades
      BY <3>1, <3>2, <3>3 DEF NoRequest, Request, Operations, None
    <3>5. runs[r].moves => runs[r].trades = runs[r].report
      BY <2>2 DEF JobsInv, RunsInv, Consistent
    <3>6. runs' = runs
      BY <1>1 DEF jobs
    <3>7. RequestOK(q)'
      BY <2>2, <3>4, <3>5, <3>6 DEF RequestOK, Promoting
    <3> QED
      BY <1>2, <2>2, <3>1, <3>4, <3>7, RequestGoes DEF JobsInv
  <2>3. ASSUME NEW verify \in BOOLEAN,
               Goes(c, [NoRequest EXCEPT !.op = "promote", !.verify = verify])
        PROVE  RequestInv'
    <3>1. PICK q : q = [NoRequest EXCEPT !.op = "promote", !.verify = verify]
      OBVIOUS
    <3>2. q \in Request /\ q.op = "promote" /\ q.run = None
      BY <3>1 DEF NoRequest, Request, Operations, None
    <3>3. RequestOK(q)'
      BY <3>2 DEF RequestOK, Promoting
    <3> QED
      BY <1>2, <2>3, <3>1, <3>2, <3>3, RequestGoes DEF JobsInv
  <2> QED
    BY <2>1, <2>2, <2>3 DEF RetryRun, Recalculate, Promote
<1> QED
  BY <1>1, <1>2, <1>3, BeginsCounts DEF Sound, JobsInv, CountersInv

\* A step that rewrites one run's row.
LEMMA RowSound ==
  ASSUME JobsInv, NEW r \in DOMAIN runs, NEW row \in Run, runs' = [runs EXCEPT ![r] = row],
         Consistent(row), Counted(row), RowGrows(runs[r], row), RowKeeps(runs[r], row),
         UNCHANGED <<catalog, trouble>>
  PROVE  /\ CatalogInv' /\ CatalogGrows /\ KeepsRetired
         /\ RunsInv' /\ RunsGrow /\ RunsKeep /\ TroubleInv'
<1>1. CatalogInv' /\ CatalogGrows /\ KeepsRetired
  BY CatalogSame DEF JobsInv
<1> QED
  BY <1>1, RunUpdate, TroubleSame DEF JobsInv, catalog

LEMMA CancelRunSound == ASSUME JobsInv, NEW c \in Clients, CancelRun(c) PROVE Sound
<1>1. PICK r \in DOMAIN runs :
         runs' = [runs EXCEPT ![r].cancel = TRUE, ![r].status = "CANCELLING"]
  BY DEF CancelRun
<1>2. PICK row : row = [runs[r] EXCEPT !.cancel = TRUE, !.status = "CANCELLING"]
  OBVIOUS
<1>3. runs[r] \in Run /\ Consistent(runs[r]) /\ Counted(runs[r])
  BY RowTypes DEF JobsInv, RunsInv
<1>4. runs' = [runs EXCEPT ![r] = row]
  BY <1>1, <1>2
<1>5. /\ row \in Run /\ row.status = "CANCELLING" /\ row.attempt = runs[r].attempt
      /\ row.trades = runs[r].trades /\ row.report = runs[r].report
      /\ row.version = runs[r].version /\ row.profile = runs[r].profile
      /\ row.moves = runs[r].moves
  BY <1>2, <1>3 DEF Run, Active
<1>6. Consistent(row) /\ Counted(row) /\ RowGrows(runs[r], row) /\ RowKeeps(runs[r], row)
  BY <1>3, <1>5 DEF Consistent, Counted, RowGrows, RowKeeps
<1>7. /\ CatalogInv' /\ CatalogGrows /\ KeepsRetired
      /\ RunsInv' /\ RunsGrow /\ RunsKeep /\ TroubleInv'
  BY <1>4, <1>5, <1>6, RowSound DEF CancelRun
<1>8. ExecInv' /\ RequestInv' /\ running' = running
  BY <1>7, ExecSame, RequestSame DEF CancelRun, JobsInv
<1> QED
  BY <1>7, <1>8, BeginsCounts DEF CancelRun, Sound, JobsInv, CountersInv

LEMMA StoreRecalculatedSound ==
  ASSUME JobsInv, NEW c \in Clients, StoreRecalculated(c)
  PROVE  Sound
<1> DEFINE r == request[c].at
           report == IF runs[r].moves THEN request[c].run ELSE runs[r].report
<1>1. RequestOK(request[c]) /\ request[c].op = "recalculate"
  BY DEF StoreRecalculated, JobsInv, RequestInv
<1>2. /\ r \in DOMAIN runs /\ runs[r].report # None
      /\ runs[r].moves => request[c].run # None /\ request[c].run = runs[r].trades
  BY <1>1 DEF RequestOK
<1>3. runs[r] \in Run /\ Consistent(runs[r]) /\ Counted(runs[r])
  BY <1>2, RowTypes DEF JobsInv, RunsInv
<1>4. PICK row : row = [runs[r] EXCEPT !.report = report]
  OBVIOUS
<1>5. /\ report # None /\ report \in Attempts \cup {None}
      /\ runs[r].moves => report = runs[r].trades
  BY <1>2, <1>3 DEF Run
<1>6. runs' = [runs EXCEPT ![r] = row]
  BY <1>4 DEF StoreRecalculated
<1> HIDE DEF report, r
<1>7. /\ row \in Run /\ row.status = runs[r].status /\ row.attempt = runs[r].attempt
      /\ row.trades = runs[r].trades /\ row.report = report
      /\ row.version = runs[r].version /\ row.profile = runs[r].profile
      /\ row.moves = runs[r].moves
  BY <1>3, <1>4, <1>5 DEF Run
<1>8. Consistent(row) /\ Counted(row) /\ RowGrows(runs[r], row) /\ RowKeeps(runs[r], row)
  BY <1>3, <1>5, <1>7 DEF Consistent, Counted, RowGrows, RowKeeps
<1>9. /\ CatalogInv' /\ CatalogGrows /\ KeepsRetired
      /\ RunsInv' /\ RunsGrow /\ RunsKeep /\ TroubleInv'
  BY <1>2, <1>6, <1>7, <1>8, RowSound DEF StoreRecalculated
<1>10. ExecInv' /\ RequestInv'
  BY <1>9, ExecSame, RequestAnswers DEF StoreRecalculated, JobsInv
<1> QED
  BY <1>9, <1>10 DEF StoreRecalculated, Sound, JobsInv, CountersInv

LEMMA PromoteStrategySound ==
  ASSUME JobsInv, NEW c \in Clients, PromoteStrategy(c)
  PROVE  /\ Sound
         /\ request'[c].strategy \notin DOMAIN strategies
         /\ request'[c].op = "promote-publish"
         /\ \A d \in Clients \ {c} : request'[d] = request[d]
<1>1. CreateStrategy("READY_FOR_DEEP_VERIFICATION", "STRATEGY_LAB")
  BY DEF PromoteStrategy
<1>2. /\ CatalogInv' /\ CatalogGrows /\ KeepsRetired
      /\ Len(strategies') \in DOMAIN strategies' /\ Len(strategies') \notin DOMAIN strategies
      /\ strategies'[Len(strategies')].origin = "STRATEGY_LAB"
  BY <1>1, CreateStrategyStep DEF JobsInv, Lifecycles, Origins
<1>3. /\ RunsInv' /\ RunsGrow /\ RunsKeep /\ ExecInv' /\ running' \in BOOLEAN
      /\ TroubleInv'
  BY <1>2, WorkerIdle, TroubleSame DEF PromoteStrategy
<1>4. request[c] \in Request /\ request[c].op = "promote" /\ RequestOK(request[c])
  BY DEF PromoteStrategy, JobsInv, RequestInv
<1>5. PICK q : q = [request[c] EXCEPT !.op = "promote-publish", !.strategy = Len(strategies')]
  OBVIOUS
<1>6. Goes(c, q)
  BY <1>5 DEF PromoteStrategy
<1>7. Len(strategies') \in StrategyIds
  BY <1>2, CatalogAssumption DEF CatalogInv, CatalogTypeOK, StrategyIds
<1>8. /\ q \in Request /\ q.op = "promote-publish" /\ q.strategy = Len(strategies')
      /\ q.run = None
  BY <1>4, <1>5, <1>7 DEF Request, Operations, RequestOK
<1>9. RequestOK(q)'
  BY <1>2, <1>8 DEF RequestOK, Promoting
<1>10. RequestInv'
  BY <1>2, <1>3, <1>6, <1>8, <1>9, RequestGoes DEF JobsInv
<1>11. request'[c] = q /\ \A d \in Clients \ {c} : request'[d] = request[d]
  BY <1>6 DEF Goes, JobsInv, RequestInv
<1> QED
  BY <1>2, <1>3, <1>8, <1>10, <1>11 DEF PromoteStrategy, Sound, JobsInv, CountersInv

LEMMA CandidateHashType == CandidateHash \in Hashes
  BY CatalogAssumption DEF CandidateHash

\* The strategy of a promotion stays the same until it is recorded.
Continues(c) ==
    /\ request[c].op \in Promoting /\ request'[c].op \in Promoting
    /\ request'[c].strategy = request[c].strategy
    /\ \A d \in Clients \ {c} : request'[d] = request[d]

LEMMA PromoteVersionSound ==
  ASSUME JobsInv, NEW c \in Clients, PromoteVersion(c)
  PROVE  Sound /\ Continues(c)
<1>1. request[c] \in Request /\ request[c].op = "promote-publish" /\ RequestOK(request[c])
  BY DEF PromoteVersion, JobsInv, RequestInv
<1>2. request[c].strategy \in DOMAIN strategies /\ request[c].run = None
  BY <1>1 DEF RequestOK, Promoting
<1>3. /\ CatalogInv' /\ CatalogGrows /\ KeepsRetired
      /\ Len(versions') \in DOMAIN versions'
      /\ versions'[Len(versions')].strategy = request[c].strategy
      /\ versions'[Len(versions')].hash = CandidateHash
  BY <1>2, CandidateHashType, PublishStep DEF PromoteVersion, JobsInv
<1>4. /\ RunsInv' /\ RunsGrow /\ RunsKeep /\ ExecInv' /\ running' \in BOOLEAN
      /\ TroubleInv'
  BY <1>3, WorkerIdle, TroubleSame DEF PromoteVersion
<1>5. PICK q : q = [request[c] EXCEPT
            !.op = IF request[c].verify THEN "promote-verify" ELSE "promote-record",
            !.version = Len(versions')]
  OBVIOUS
<1>6. Goes(c, q)
  BY <1>5 DEF PromoteVersion
<1>7. Len(versions') \in VersionIds
  BY <1>3, CatalogAssumption DEF CatalogInv, CatalogTypeOK, VersionIds
<1>8. /\ q \in Request /\ q.op \in {"promote-verify", "promote-record"}
      /\ q.version = Len(versions') /\ q.strategy = request[c].strategy /\ q.run = None
  BY <1>1, <1>2, <1>5, <1>7 DEF Request, Operations
<1>9. /\ request[c].strategy \in DOMAIN strategies'
      /\ strategies'[request[c].strategy].origin = "STRATEGY_LAB"
  BY <1>1, <1>3 DEF RequestOK, Promoting, CatalogGrows
<1>10. RequestOK(q)'
  BY <1>3, <1>8, <1>9 DEF RequestOK, Promoting
<1>11. RequestInv'
  BY <1>3, <1>4, <1>6, <1>8, <1>10, RequestGoes DEF JobsInv
<1>12. request'[c] = q /\ \A d \in Clients \ {c} : request'[d] = request[d]
  BY <1>6 DEF Goes, JobsInv, RequestInv
<1>13. Sound
  BY <1>3, <1>4, <1>11 DEF PromoteVersion, Sound, JobsInv, CountersInv
<1> QED
  BY <1>1, <1>8, <1>12, <1>13 DEF Continues, Promoting

LEMMA PromoteRunSound ==
  ASSUME JobsInv, NEW c \in Clients, PromoteRun(c)
  PROVE  Sound /\ Continues(c)
<1>1. request[c] \in Request /\ request[c].op = "promote-verify" /\ RequestOK(request[c])
  BY DEF PromoteRun, JobsInv, RequestInv
<1>2. request[c].version \in DOMAIN versions
  BY <1>1 DEF RequestOK
<1>3. /\ CatalogInv' /\ CatalogGrows /\ KeepsRetired /\ RunsInv' /\ RunsGrow /\ ExecInv'
      /\ TroubleInv' /\ running' \in BOOLEAN
      /\ Len(runs') \in DOMAIN runs' /\ Len(runs') \in RunIds
      /\ runs'[Len(runs')].version = request[c].version /\ runs'[Len(runs')].profile = "FULL"
  BY <1>2, NewRunSound DEF PromoteRun, AllProfiles
<1>4. PICK q : q = [request[c] EXCEPT !.op = "promote-record", !.run = Len(runs')]
  OBVIOUS
<1>5. Goes(c, q)
  BY <1>4 DEF PromoteRun
<1>6. /\ q \in Request /\ q.op = "promote-record" /\ q.run = Len(runs')
      /\ q.version = request[c].version /\ q.strategy = request[c].strategy
  BY <1>1, <1>3, <1>4 DEF Request, Operations
<1>7. /\ q.strategy \in DOMAIN strategies' /\ strategies'[q.strategy].origin = "STRATEGY_LAB"
      /\ q.version \in DOMAIN versions' /\ versions'[q.version].strategy = q.strategy
      /\ versions'[q.version].hash = CandidateHash
  BY <1>1, <1>3, <1>6 DEF RequestOK, Promoting, CatalogGrows
<1>8. RequestOK(q)'
  BY <1>3, <1>6, <1>7 DEF RequestOK, Promoting
<1>9. RequestInv'
  BY <1>3, <1>5, <1>6, <1>8, RequestGoes DEF JobsInv
<1>10. request'[c] = q /\ \A d \in Clients \ {c} : request'[d] = request[d]
  BY <1>5 DEF Goes, JobsInv, RequestInv
<1>11. Sound
  BY <1>3, <1>9 DEF PromoteRun, Sound, JobsInv, CountersInv
<1> QED
  BY <1>1, <1>6, <1>10, <1>11 DEF Continues, Promoting

LEMMA PromoteRecordSound == ASSUME JobsInv, NEW c \in Clients, PromoteRecord(c) PROVE Sound
<1>1. /\ CatalogInv' /\ CatalogGrows /\ KeepsRetired
      /\ RunsInv' /\ RunsGrow /\ ExecInv' /\ running' \in BOOLEAN /\ TroubleInv'
  BY TablesSame, TroubleSame DEF PromoteRecord
<1>2. RequestInv'
  BY <1>1, RequestAnswers DEF PromoteRecord, JobsInv
<1> QED
  BY <1>1, <1>2 DEF PromoteRecord, Sound, JobsInv, CountersInv

LEMMA RequestFailsSound == ASSUME JobsInv, NEW c \in Clients, RequestFails(c) PROVE Sound
<1>1. TroubleInv' /\ trouble <= trouble'
  BY VerificationAssumption DEF RequestFails, JobsInv, TroubleInv
<1>2. /\ CatalogInv' /\ CatalogGrows /\ KeepsRetired
      /\ RunsInv' /\ RunsGrow /\ ExecInv' /\ running' \in BOOLEAN
  BY <1>1, TablesSame DEF RequestFails
<1>3. RequestInv'
  BY <1>2, RequestAnswers DEF RequestFails, JobsInv
<1> QED
  BY <1>1, <1>2, <1>3 DEF RequestFails, Sound, JobsInv, CountersInv

-----------------------------------------------------------------------------
(* The steps of the worker.                                                *)

\* An execution moves, and no table changes.
LEMMA MoveSound ==
  ASSUME JobsInv, NEW e \in Slots, NEW x \in Execution, Moves(e, x), ExecOK(x),
         UNCHANGED <<catalog, runs, request, requests>>, running' \in BOOLEAN,
         TroubleInv', trouble <= trouble'
  PROVE  Sound
<1>1. CatalogInv' /\ CatalogGrows /\ KeepsRetired
  BY CatalogSame DEF JobsInv
<1>2. RunsInv' /\ RunsGrow /\ RunsKeep
  BY <1>1, RunsSame DEF JobsInv, CatalogGrows
<1>3. ExecOK(x)'
  BY <1>2, ExecFrame DEF JobsInv
<1>4. ExecInv' /\ RequestInv'
  BY <1>1, <1>2, <1>3, ExecMoves, RequestSame DEF JobsInv
<1> QED
  BY <1>1, <1>2, <1>4 DEF Sound, JobsInv, CountersInv

\* An execution moves and writes its run's row.
LEMMA WriteSound ==
  ASSUME JobsInv, NEW e \in Slots, NEW x \in Execution, Moves(e, x), ExecOK(x)',
         NEW r \in DOMAIN runs, NEW row \in Run, runs' = [runs EXCEPT ![r] = row],
         Consistent(row), Counted(row), RowGrows(runs[r], row), RowKeeps(runs[r], row),
         UNCHANGED <<catalog, trouble, request, requests>>, running' \in BOOLEAN
  PROVE  Sound
<1>1. /\ CatalogInv' /\ CatalogGrows /\ KeepsRetired
      /\ RunsInv' /\ RunsGrow /\ RunsKeep /\ TroubleInv'
  BY RowSound
<1>2. ExecInv' /\ RequestInv'
  BY <1>1, ExecMoves, RequestSame DEF JobsInv
<1> QED
  BY <1>1, <1>2 DEF Sound, JobsInv, CountersInv

LEMMA ExecTypes ==
  ASSUME JobsInv, NEW e \in Slots
  PROVE  exec[e] \in Execution /\ ExecOK(exec[e])
  BY DEF JobsInv, ExecInv

\* The run an execution works on.
LEMMA ItsRun ==
  ASSUME JobsInv, NEW e \in Slots, exec[e].pc \notin {"idle", "claim"}
  PROVE  LET r == exec[e].run IN
         /\ r \in DOMAIN runs /\ runs[r] \in Run
         /\ Consistent(runs[r]) /\ Counted(runs[r])
         /\ runs[r].status # "QUEUED" /\ runs[r].attempt # None
<1>1. ExecOK(exec[e])
  BY DEF JobsInv, ExecInv
<1>2. exec[e].run \in DOMAIN runs
  BY <1>1 DEF ExecOK
<1> QED
  BY <1>1, <1>2, RowTypes DEF ExecOK, JobsInv, RunsInv

LEMMA Relabelled ==
  ASSUME JobsInv, NEW e \in Slots,
         NEW pc \in {"claim", "stage", "cancelled", "trades", "report", "complete", "outcome", "failed"}
  PROVE  LET x == [exec[e] EXCEPT !.pc = pc] IN
         x \in Execution /\ x.pc = pc /\ x.run = exec[e].run /\ x.left = exec[e].left
  BY ExecTypes DEF Execution

LEMMA TickSound == ASSUME JobsInv, NEW e \in Slots, Tick(e) PROVE Sound
<1>1. PICK x : x = [exec[e] EXCEPT !.pc = "claim"]
  OBVIOUS
<1>2. x \in Execution /\ x.pc = "claim"
  BY <1>1, Relabelled
<1>3. ExecOK(x)
  BY <1>2 DEF ExecOK
<1>4. Moves(e, x)
  BY <1>1 DEF Tick, At
<1>5. TroubleInv' /\ trouble <= trouble' /\ running' \in BOOLEAN
  BY TroubleSame DEF Tick, JobsInv, CountersInv
<1> QED
  BY <1>2, <1>3, <1>4, <1>5, MoveSound DEF Tick

LEMMA IdleOK == Idle \in Execution /\ ExecOK(Idle)
  BY IdleExecution DEF ExecOK, Idle

LEMMA ClaimNextSound == ASSUME JobsInv, NEW e \in Slots, ClaimNext(e) PROVE Sound
<1>1. CASE Queued = {} /\ Moves(e, Idle) /\ UNCHANGED <<runs, running>>
  <2>1. TroubleInv' /\ trouble <= trouble' /\ running' \in BOOLEAN
    BY <1>1, TroubleSame DEF ClaimNext, JobsInv, CountersInv
  <2> QED
    BY <1>1, <2>1, IdleOK, MoveSound DEF ClaimNext
<1>2. ASSUME NEW r \in Queued, running' = TRUE,
             runs' = [runs EXCEPT ![r].status = "RUNNING", ![r].attempt = @ + 1],
             Moves(e, [pc |-> "stage", run |-> r, left |-> Stages(runs[r].profile)])
      PROVE  Sound
  <2>3. r \in DOMAIN runs /\ runs[r].status = "QUEUED"
    BY DEF Queued
  <2>4. runs[r] \in Run /\ Consistent(runs[r]) /\ Counted(runs[r]) /\ runs[r].profile \in AllProfiles
        /\ r \in RunIds
    BY <2>3, RowTypes DEF JobsInv, RunsInv
  <2>5. PICK row : row = [runs[r] EXCEPT !.status = "RUNNING", !.attempt = @ + 1]
    OBVIOUS
  <2>6. runs[r].attempt \in Nat /\ runs[r].attempt + 1 \in Attempts
    BY <2>3, <2>4, VerificationAssumption DEF Run, Attempts, None, Counted, JobsInv, TroubleInv
  <2>7. /\ row \in Run /\ row.status = "RUNNING" /\ row.attempt = runs[r].attempt + 1
        /\ row.trades = runs[r].trades /\ row.report = runs[r].report
        /\ row.version = runs[r].version /\ row.profile = runs[r].profile
        /\ row.moves = runs[r].moves
    BY <2>4, <2>5, <2>6 DEF Run, Active
  <2>8. Consistent(row) /\ Counted(row) /\ RowGrows(runs[r], row) /\ RowKeeps(runs[r], row)
    BY <2>3, <2>4, <2>6, <2>7
    DEF Consistent, Counted, RowGrows, RowKeeps, JobsInv, TroubleInv
  <2>9. PICK x : x = [pc |-> "stage", run |-> r, left |-> Stages(runs[r].profile)]
    OBVIOUS
  <2>10. /\ x \in Execution /\ x.pc = "stage" /\ x.run = r /\ x.left # <<>>
    <3>1. Stages(runs[r].profile) \in Remainders /\ Stages(runs[r].profile) # <<>>
      BY <2>4, AllStagesRemain, StagesFacts, EmptySeq
    <3> QED
      BY <2>4, <2>9, <3>1 DEF Execution, Remainders
  <2>11. runs' = [runs EXCEPT ![r] = row] /\ Moves(e, x) /\ running' = TRUE
    BY <1>2, <2>5, <2>9
  <2>12. runs'[r] = row /\ r \in DOMAIN runs'
    BY <2>3, <2>11
  <2>13. ExecOK(x)'
    BY <2>6, <2>7, <2>10, <2>12 DEF ExecOK, None
  <2> QED
    BY <2>3, <2>7, <2>8, <2>10, <2>11, <2>13, WriteSound DEF ClaimNext
<1> QED
  BY <1>1, <1>2 DEF ClaimNext

LEMMA RunStageSound == ASSUME JobsInv, NEW e \in Slots, RunStage(e) PROVE Sound
<1>1. exec[e] \in Execution /\ ExecOK(exec[e]) /\ exec[e].pc = "stage"
  BY ExecTypes DEF RunStage
<1>2. TroubleInv' /\ trouble <= trouble' /\ running' \in BOOLEAN
  BY TroubleSame DEF RunStage, JobsInv, CountersInv
<1>3. CASE At(e, "cancelled")
  <2>1. PICK x : x = [exec[e] EXCEPT !.pc = "cancelled"]
    OBVIOUS
  <2>2. x \in Execution /\ x.pc = "cancelled" /\ x.run = exec[e].run
    BY <2>1, Relabelled
  <2>3. ExecOK(x)
    BY <1>1, <2>2 DEF ExecOK
  <2> QED
    BY <1>2, <1>3, <2>1, <2>2, <2>3, MoveSound DEF RunStage, At
<1>4. CASE Moves(e, [exec[e] EXCEPT !.left = Tail(exec[e].left),
                                    !.pc = IF Len(exec[e].left) = 1 THEN "trades" ELSE "stage"])
  <2>1. PICK x : x = [exec[e] EXCEPT !.left = Tail(exec[e].left),
                                     !.pc = IF Len(exec[e].left) = 1 THEN "trades" ELSE "stage"]
    OBVIOUS
  <2>2. exec[e].left \in Remainders /\ exec[e].left # <<>>
    BY <1>1 DEF Execution, Remainders, ExecOK
  <2>3. Tail(exec[e].left) \in Remainders /\ (Len(exec[e].left) # 1 => Tail(exec[e].left) # <<>>)
    BY <2>2, NextStage
  <2>4. /\ x \in Execution /\ x.pc \in {"trades", "stage"} /\ x.run = exec[e].run
        /\ x.pc = "stage" => x.left # <<>>
    BY <1>1, <2>1, <2>3 DEF Execution, Remainders
  <2>5. ExecOK(x)
    BY <1>1, <2>4 DEF ExecOK
  <2> QED
    BY <1>2, <1>4, <2>1, <2>4, <2>5, MoveSound DEF RunStage
<1> QED
  BY <1>3, <1>4 DEF RunStage

\* The writes of a status with which an execution goes on or ends.
LEMMA StatusSound ==
  ASSUME JobsInv, NEW e \in Slots, exec[e].pc \notin {"idle", "claim"},
         NEW status \in Final, status = "COMPLETED" => runs[exec[e].run].report # None,
         runs' = [runs EXCEPT ![exec[e].run].status = status],
         NEW x \in Execution, Moves(e, x),
         x.pc = "idle" \/ (x.pc = "outcome" /\ x.run = exec[e].run /\ status = "COMPLETED"),
         UNCHANGED <<catalog, trouble, request, requests>>, running' \in BOOLEAN
  PROVE  Sound
<1>1. PICK r : r = exec[e].run
  OBVIOUS
<1>2. /\ r \in DOMAIN runs /\ runs[r] \in Run /\ Consistent(runs[r]) /\ Counted(runs[r])
      /\ runs[r].attempt # None
  BY <1>1, ItsRun
<1>3. PICK row : row = [runs[r] EXCEPT !.status = status]
  OBVIOUS
<1>4. runs' = [runs EXCEPT ![r] = row]
  BY <1>1, <1>3
<1>5. /\ row \in Run /\ row.status = status /\ row.attempt = runs[r].attempt
      /\ row.trades = runs[r].trades /\ row.report = runs[r].report
      /\ row.version = runs[r].version /\ row.profile = runs[r].profile
      /\ row.moves = runs[r].moves
  BY <1>2, <1>3 DEF Run
<1>6. status # "QUEUED"
  BY DEF Final
<1>7. Consistent(row) /\ Counted(row) /\ RowGrows(runs[r], row) /\ RowKeeps(runs[r], row)
  BY <1>1, <1>2, <1>5, <1>6 DEF Consistent, Counted, RowGrows, RowKeeps
<1>8. runs'[r] = row /\ r \in DOMAIN runs'
  BY <1>2, <1>4
<1>9. ExecOK(x)'
  BY <1>1, <1>2, <1>5, <1>6, <1>8 DEF ExecOK
<1> QED
  BY <1>2, <1>4, <1>5, <1>7, <1>9, WriteSound

LEMMA StatusWritesSound ==
  ASSUME JobsInv, NEW e \in Slots, WriteCancelled(e) \/ Complete(e) \/ WriteFailed(e)
  PROVE  Sound
<1>1. CASE WriteCancelled(e)
  BY <1>1, IdleOK, IdleExecution, StatusSound DEF WriteCancelled, Ends, Final
<1>2. CASE WriteFailed(e)
  BY <1>2, IdleOK, IdleExecution, StatusSound DEF WriteFailed, Ends, Final
<1>3. CASE Complete(e)
  <2>1. PICK x : x = [exec[e] EXCEPT !.pc = "outcome"]
    OBVIOUS
  <2>2. x \in Execution /\ x.pc = "outcome" /\ x.run = exec[e].run
    BY <2>1, Relabelled
  <2>3. ExecOK(exec[e]) /\ exec[e].pc = "complete"
    BY <1>3, ExecTypes DEF Complete
  <2>4. runs[exec[e].run].report # None
    BY <2>3 DEF ExecOK
  <2>5. Moves(e, x) /\ running' \in BOOLEAN
    BY <1>3, <2>1 DEF Complete, At, JobsInv, CountersInv
  <2> QED
    BY <1>3, <2>2, <2>3, <2>4, <2>5, StatusSound DEF Complete, Final
<1> QED
  BY <1>1, <1>2, <1>3

LEMMA StoreTradesSound == ASSUME JobsInv, NEW e \in Slots, StoreTrades(e) PROVE Sound
<1>1. exec[e].pc = "trades" /\ UNCHANGED <<catalog, running, request, requests, trouble>>
  BY DEF StoreTrades
<1>2. PICK r : r = exec[e].run
  OBVIOUS
<1>3. /\ r \in DOMAIN runs /\ runs[r] \in Run /\ Consistent(runs[r]) /\ Counted(runs[r])
      /\ runs[r].status # "QUEUED" /\ runs[r].attempt # None
  BY <1>1, <1>2, ItsRun
<1>4. TroubleInv' /\ trouble <= trouble' /\ running' \in BOOLEAN
  BY <1>1, TroubleSame DEF JobsInv, CountersInv
<1>5. PICK on, off : on = [exec[e] EXCEPT !.pc = "report"] /\ off = [exec[e] EXCEPT !.pc = "failed"]
  OBVIOUS
<1>6. /\ on \in Execution /\ on.pc = "report" /\ on.run = r
      /\ off \in Execution /\ off.pc = "failed" /\ off.run = r
  BY <1>2, <1>5, Relabelled
<1>7. CASE ~runs[r].moves
  <2>1. ExecOK(on)
    BY <1>3, <1>6, <1>7 DEF ExecOK
  <2>2. Moves(e, on) /\ UNCHANGED runs
    BY <1>2, <1>5, <1>7 DEF StoreTrades, At
  <2> QED
    BY <1>1, <1>4, <1>6, <2>1, <2>2, MoveSound
<1>8. CASE runs[r].moves /\ runs[r].trades # None
  <2>1. ExecOK(off)
    BY <1>3, <1>6 DEF ExecOK
  <2>2. Moves(e, off) /\ UNCHANGED runs
    BY <1>2, <1>5, <1>8 DEF StoreTrades, At
  <2> QED
    BY <1>1, <1>4, <1>6, <2>1, <2>2, MoveSound
<1>9. CASE runs[r].moves /\ runs[r].trades = None
  <2>1. PICK row : row = [runs[r] EXCEPT !.trades = runs[r].attempt]
    OBVIOUS
  <2>2. Moves(e, on) /\ runs' = [runs EXCEPT ![r] = row]
    BY <1>2, <1>5, <1>9, <2>1 DEF StoreTrades, At
  <2>3. /\ row \in Run /\ row.status = runs[r].status /\ row.attempt = runs[r].attempt
        /\ row.trades = runs[r].attempt /\ row.report = runs[r].report
        /\ row.version = runs[r].version /\ row.profile = runs[r].profile
        /\ row.moves = runs[r].moves
    BY <1>3, <2>1 DEF Run
  <2>4. runs[r].report = None
    BY <1>3, <1>9 DEF Consistent
  <2>5. Consistent(row) /\ Counted(row) /\ RowGrows(runs[r], row) /\ RowKeeps(runs[r], row)
    BY <1>3, <1>9, <2>3, <2>4 DEF Consistent, Counted, RowGrows, RowKeeps
  <2>6. runs'[r] = row /\ r \in DOMAIN runs'
    BY <1>3, <2>2
  <2>7. ExecOK(on)'
    BY <1>3, <1>6, <2>3, <2>6 DEF ExecOK
  <2> QED
    BY <1>1, <1>3, <1>4, <1>6, <2>2, <2>3, <2>5, <2>7, WriteSound
<1> QED
  BY <1>7, <1>8, <1>9, <1>3 DEF Run

LEMMA StoreResultSound == ASSUME JobsInv, NEW e \in Slots, StoreResult(e) PROVE Sound
<1>1. exec[e].pc = "report" /\ UNCHANGED <<catalog, running, request, requests, trouble>>
  BY DEF StoreResult
<1>2. PICK r : r = exec[e].run
  OBVIOUS
<1>3. /\ r \in DOMAIN runs /\ runs[r] \in Run /\ Consistent(runs[r]) /\ Counted(runs[r])
      /\ runs[r].status # "QUEUED" /\ runs[r].attempt # None
  BY <1>1, <1>2, ItsRun
<1>4. runs[r].moves => runs[r].trades = runs[r].attempt
  <2>1. ExecOK(exec[e])
    BY ExecTypes
  <2> QED
    BY <1>1, <1>2, <2>1 DEF ExecOK
<1>5. PICK x, row : /\ x = [exec[e] EXCEPT !.pc = "complete"]
                    /\ row = [runs[r] EXCEPT !.report = runs[r].attempt]
  OBVIOUS
<1>6. x \in Execution /\ x.pc = "complete" /\ x.run = r
  BY <1>2, <1>5, Relabelled
<1>7. Moves(e, x) /\ runs' = [runs EXCEPT ![r] = row] /\ running' \in BOOLEAN
  BY <1>1, <1>2, <1>5 DEF StoreResult, At, JobsInv, CountersInv
<1>8. /\ row \in Run /\ row.status = runs[r].status /\ row.attempt = runs[r].attempt
      /\ row.trades = runs[r].trades /\ row.report = runs[r].attempt
      /\ row.version = runs[r].version /\ row.profile = runs[r].profile
      /\ row.moves = runs[r].moves
  BY <1>3, <1>5 DEF Run
<1>9. Consistent(row) /\ Counted(row) /\ RowGrows(runs[r], row) /\ RowKeeps(runs[r], row)
  BY <1>3, <1>4, <1>8 DEF Consistent, Counted, RowGrows, RowKeeps
<1>10. runs'[r] = row /\ r \in DOMAIN runs'
  BY <1>3, <1>7
<1>11. ExecOK(x)'
  BY <1>3, <1>6, <1>8, <1>10 DEF ExecOK
<1> QED
  BY <1>1, <1>3, <1>6, <1>7, <1>8, <1>9, <1>11, WriteSound

LEMMA ApplyOutcomeSound == ASSUME JobsInv, NEW e \in Slots, ApplyOutcome(e) PROVE Sound
<1>1. exec[e].pc = "outcome" /\ UNCHANGED <<runs, request, requests, trouble>> /\ Ends(e)
  BY DEF ApplyOutcome
<1>2. runs[exec[e].run].version \in DOMAIN versions
  BY <1>1, ItsRun, RowTypes DEF JobsInv
<1>3. CatalogInv' /\ CatalogGrows /\ KeepsRetired
  BY <1>2, OutcomeStep, VerificationAssumption DEF ApplyOutcome, JobsInv
<1>4. TroubleInv' /\ trouble <= trouble'
  BY <1>1, TroubleSame
<1>5. RunsInv' /\ RunsGrow /\ RunsKeep
  BY <1>1, <1>3, <1>4, RunsSame DEF JobsInv, CatalogGrows
<1>6. ExecOK(Idle)'
  BY IdleExecution DEF ExecOK, Idle
<1>7. ExecInv' /\ running' \in BOOLEAN
  BY <1>1, <1>5, <1>6, IdleExecution, ExecMoves DEF Ends, JobsInv
<1>8. RequestInv'
  BY <1>1, <1>3, <1>5, RequestSame DEF JobsInv
<1> QED
  BY <1>1, <1>3, <1>4, <1>5, <1>7, <1>8 DEF Sound, JobsInv, CountersInv

LEMMA ExecutionThrowsSound == ASSUME JobsInv, NEW e \in Slots, ExecutionThrows(e) PROVE Sound
<1>1. exec[e].pc \notin {"idle", "claim"}
  BY DEF ExecutionThrows
<1>2. TroubleInv' /\ trouble <= trouble' /\ running' \in BOOLEAN
  BY VerificationAssumption DEF ExecutionThrows, JobsInv, TroubleInv, CountersInv
<1>3. PICK x : x = [exec[e] EXCEPT !.pc = "failed"]
  OBVIOUS
<1>4. x \in Execution /\ x.pc = "failed" /\ x.run = exec[e].run
  BY <1>3, Relabelled
<1>5. ExecOK(x)
  BY <1>1, <1>4, ItsRun DEF ExecOK
<1> QED
  BY <1>2, <1>3, <1>4, <1>5, MoveSound DEF ExecutionThrows, At

LEMMA RestartSound == ASSUME JobsInv, Restart PROVE Sound
<1>1. TroubleInv' /\ trouble' = trouble + 1 /\ trouble \in Nat
  BY VerificationAssumption DEF Restart, JobsInv, TroubleInv
<1>2. CatalogInv' /\ CatalogGrows /\ KeepsRetired
  BY CatalogSame DEF Restart, JobsInv
<1>3. /\ DOMAIN runs = 1 .. Len(runs) /\ Len(runs) \in Nat /\ runs \in Seq(Run)
      /\ Len(runs) <= MaxRuns
  BY DEF JobsInv, RunsInv
<1>4. runs' = [r \in DOMAIN runs |-> [runs[r] EXCEPT !.status = Recovered(runs[r].status)]]
  BY DEF Restart
<1>5. ASSUME NEW r \in DOMAIN runs
      PROVE  /\ runs'[r] \in Run /\ runs'[r].version \in DOMAIN versions'
             /\ Consistent(runs'[r]) /\ RowGrows(runs[r], runs'[r])
             /\ runs'[r].attempt <= trouble' + 1
             /\ runs'[r].status = "QUEUED" => runs'[r].attempt <= trouble'
  <2>1. /\ runs[r] \in Run /\ runs[r].version \in DOMAIN versions
        /\ Consistent(runs[r]) /\ Counted(runs[r])
    BY RowTypes DEF JobsInv, RunsInv
  <2>2. runs'[r] = [runs[r] EXCEPT !.status = Recovered(runs[r].status)]
    BY <1>4
  <2>3. /\ runs'[r] \in Run /\ runs'[r].status = Recovered(runs[r].status)
        /\ runs'[r].attempt = runs[r].attempt
        /\ runs'[r].trades = runs[r].trades /\ runs'[r].report = runs[r].report
        /\ runs'[r].version = runs[r].version /\ runs'[r].profile = runs[r].profile
        /\ runs'[r].moves = runs[r].moves
    BY <2>1, <2>2 DEF Run, Recovered, Active
  <2>4. runs[r].attempt \in Int
    BY <2>1, VerificationAssumption DEF Run, Attempts, None
  <2>5. versions' = versions
    BY DEF Restart, catalog
  <2> QED
    BY <1>1, <2>1, <2>3, <2>4, <2>5 DEF Consistent, Counted, RowGrows, Recovered
<1>6. runs' \in Seq(Run) /\ Len(runs') = Len(runs) /\ DOMAIN runs' = DOMAIN runs
  <2>1. runs' \in [1 .. Len(runs) -> Run] /\ Len(runs) \in Nat
    BY <1>3, <1>4, <1>5
  <2> QED
    BY <2>1, <1>3, LenProperties
<1>7. RunsInv' /\ RunsGrow
  BY <1>3, <1>5, <1>6 DEF RunsInv, RunsGrow, Consistent, Counted
<1>8. ExecInv'
  BY IdleExecution DEF Restart, ExecInv, ExecOK, Idle
<1>9. RequestInv'
  <2>1. request' = [c \in Clients |-> NoRequest]
    BY DEF Restart
  <2>2. NoRequest \in Request /\ NoRequest.op = "none"
    BY NoRequestOK
  <2>3. request' \in [Clients -> Request]
    BY <2>1, <2>2
  <2>4. ASSUME NEW c \in Clients PROVE RequestOK(request[c])'
    BY <2>1, <2>2 DEF RequestOK, Promoting
  <2> QED
    BY <2>3, <2>4 DEF RequestInv
<1>10. running' = FALSE /\ requests' = requests
  BY DEF Restart
<1> QED
  BY <1>1, <1>2, <1>7, <1>8, <1>9, <1>10 DEF Sound, JobsInv, CountersInv

LEMMA StutterSound == ASSUME JobsInv, UNCHANGED vars PROVE Sound
<1>1. UNCHANGED <<catalog, jobs, request, requests, trouble>>
  BY DEF vars
<1>2. /\ CatalogInv' /\ CatalogGrows /\ KeepsRetired
      /\ RunsInv' /\ RunsGrow /\ ExecInv' /\ running' \in BOOLEAN /\ TroubleInv'
  BY <1>1, TablesSame, TroubleSame
<1>3. RequestInv'
  BY <1>1, <1>2, RequestSame DEF JobsInv
<1> QED
  BY <1>1, <1>2, <1>3 DEF Sound, JobsInv, CountersInv

LEMMA NextSound == ASSUME JobsInv, [Next]_vars PROVE Sound
<1>1. ASSUME NEW c \in Clients, Ask(c) PROVE Sound
  BY <1>1, PostStrategySound, ChangeCatalogSound, PostRunSound, CancelRunSound, AskSound DEF Ask
<1>2. ASSUME NEW c \in Clients, Continue(c) PROVE Sound
  BY <1>2, PublishFirstSound, CreateRetrySound, StoreRecalculatedSound, PromoteStrategySound,
     PromoteVersionSound, PromoteRunSound, PromoteRecordSound
  DEF Continue
<1>3. ASSUME NEW e \in Slots, Work(e) PROVE Sound
  BY <1>3, TickSound, ClaimNextSound, RunStageSound, StatusWritesSound, StoreTradesSound,
     StoreResultSound, ApplyOutcomeSound
  DEF Work
<1> QED
  BY <1>1, <1>2, <1>3, RequestFailsSound, ExecutionThrowsSound, RestartSound, StutterSound DEF Next

LEMMA InitJobsInv == Init => JobsInv
<1> SUFFICES ASSUME Init PROVE JobsInv
  OBVIOUS
<1>1. CatalogInv
  BY CatalogInitially DEF Init
<1>2. RunsInv
  <2>1. CASE runs = <<>>
    BY <2>1, VerificationAssumption DEF RunsInv
  <2>2. ASSUME NEW moves \in BOOLEAN, runs = <<NewRun(1, "FULL", None, moves)>>
        PROVE  RunsInv
    <3> DEFINE row == NewRun(1, "FULL", None, moves)
    <3>1. 1 \in DOMAIN versions /\ 1 \in VersionIds
      BY CatalogAssumption DEF Init, CatalogInit, VersionIds
    <3>2. row \in Run /\ row.version \in DOMAIN versions
      BY <3>1 DEF NewRun, Run, Active, AllProfiles, None
    <3>3. Consistent(row) /\ Counted(row)
      BY DEF NewRun, Consistent, Counted, Init, None
    <3>4. runs = <<row>>
      BY <2>2
    <3> HIDE DEF row
    <3> QED
      BY <3>2, <3>3, <3>4, VerificationAssumption DEF RunsInv
  <2> QED
    BY <2>1, <2>2 DEF Init
<1>3. ExecInv
  BY IdleExecution DEF Init, ExecInv, ExecOK
<1>4. RequestInv
  BY NoRequestOK DEF Init, RequestInv
<1>5. MaxRequests \in Nat /\ MaxTrouble \in Nat
  BY VerificationAssumption
<1>6. running = FALSE /\ requests = 0 /\ trouble = 0
  BY DEF Init
<1>7. TroubleInv /\ CountersInv
  <2>1. trouble \in 0 .. MaxTrouble
    BY <1>5, <1>6
  <2>2. requests \in 0 .. MaxRequests
    BY <1>5, <1>6
  <2>3. running \in BOOLEAN
    BY <1>6
  <2> QED
    BY <2>1, <2>2, <2>3 DEF TroubleInv, CountersInv
<1> QED
  BY <1>1, <1>2, <1>3, <1>4, <1>7 DEF JobsInv

-----------------------------------------------------------------------------
(* Promotions.                                                             *)

PromotionRow == [strategy : StrategyIds, version : VersionIds, run : RunIds \cup {None}]

\* Two promotions never make their records of one strategy.
Distinct ==
    \A c \in Clients : request[c].op \in Promoting =>
        /\ \A p \in promotions : p.strategy # request[c].strategy
        /\ \A d \in Clients \ {c} :
             request[d].op \in Promoting => request[d].strategy # request[c].strategy

Known(p) ==
    /\ p.strategy \in DOMAIN strategies /\ p.version \in DOMAIN versions
    /\ p.run # None => p.run \in DOMAIN runs
    /\ strategies[p.strategy].origin = "STRATEGY_LAB"
    /\ versions[p.version].strategy = p.strategy
    /\ versions[p.version].hash = CandidateHash
    /\ p.run # None => runs[p.run].version = p.version /\ runs[p.run].profile = "FULL"

PromotionInv ==
    /\ candidate \in [status : {"COMPLETED", "PROMOTED"}, strategy : StrategyIds \cup {None}]
    /\ promotions \subseteq PromotionRow /\ IsFiniteSet(promotions)
    /\ promoted = Cardinality(promotions)
    /\ candidate.status = "PROMOTED" <=> \E p \in promotions : p.strategy = candidate.strategy
    /\ \A p \in promotions : Known(p)
    /\ Distinct

LEMMA KnownStays ==
  ASSUME CatalogGrows, RunsGrow, NEW p, Known(p)
  PROVE  Known(p)'
<1>1. p.run # None => /\ p.run \in DOMAIN runs'
                      /\ runs'[p.run].version = p.version /\ runs'[p.run].profile = "FULL"
  BY DEF Known, RunsGrow, RowGrows
<1> QED
  BY <1>1 DEF Known, CatalogGrows

\* Steps that record no promotion.
LEMMA NoRecord ==
  ASSUME PromotionInv, CatalogGrows, RunsGrow, UNCHANGED promotion, Distinct'
  PROVE  PromotionInv'
<1>1. candidate' = candidate /\ promotions' = promotions /\ promoted' = promoted
  BY DEF promotion
<1>2. \A p \in promotions : Known(p)'
  BY KnownStays DEF PromotionInv
<1> QED
  BY <1>1, <1>2 DEF PromotionInv, Known

\* Steps after which no other promotion is under way than before.
Quiet ==
    \A c \in Clients : request'[c].op \in Promoting =>
        request[c].op \in Promoting /\ request'[c].strategy = request[c].strategy

LEMMA QuietStep ==
  ASSUME PromotionInv, CatalogGrows, RunsGrow, UNCHANGED promotion, Quiet
  PROVE  PromotionInv'
<1>1. promotions' = promotions
  BY DEF promotion
<1>2. Distinct'
  BY <1>1 DEF Distinct, Quiet, PromotionInv
<1> QED
  BY <1>2, NoRecord

\* What a request's answer and its next question leave of the promotions.
LEMMA QuietGoes ==
  ASSUME RequestInv, NEW c \in Clients, NEW q, Goes(c, q), q.op \notin Promoting
  PROVE  Quiet
  BY DEF RequestInv, Goes, Quiet

LEMMA QuietAnswers == ASSUME RequestInv, NEW c \in Clients, Answers(c) PROVE Quiet
  BY QuietGoes, NoRequestOK DEF Answers, Promoting

LEMMA QuietSame == ASSUME request' = request PROVE Quiet
  BY DEF Quiet

LEMMA PromoteStrategyStep ==
  ASSUME JobsInv, PromotionInv, NEW c \in Clients, PromoteStrategy(c)
  PROVE  PromotionInv'
<1>1. /\ CatalogGrows /\ RunsGrow
      /\ request'[c].strategy \notin DOMAIN strategies
      /\ \A d \in Clients \ {c} : request'[d] = request[d]
  BY PromoteStrategySound DEF Sound
<1>2. UNCHANGED promotion /\ promotions' = promotions
  BY DEF PromoteStrategy, promotion
<1>3. \A p \in promotions : p.strategy \in DOMAIN strategies
  BY DEF PromotionInv, Known
<1>4. \A d \in Clients : request[d].op \in Promoting => request[d].strategy \in DOMAIN strategies
  BY DEF JobsInv, RequestInv, RequestOK
<1>5. Distinct'
  BY <1>1, <1>2, <1>3, <1>4 DEF Distinct, PromotionInv
<1> QED
  BY <1>1, <1>2, <1>5, NoRecord

LEMMA ContinuesIsQuiet == ASSUME NEW c \in Clients, Continues(c) PROVE Quiet
  BY DEF Continues, Quiet

LEMMA PromoteRecordStep ==
  ASSUME JobsInv, PromotionInv, NEW c \in Clients, PromoteRecord(c)
  PROVE  PromotionInv'
<1>1. CatalogGrows /\ RunsGrow
  BY PromoteRecordSound DEF Sound
<1>2. PICK q : q = request[c]
  OBVIOUS
<1>3. q \in Request /\ q.op = "promote-record" /\ RequestOK(q)
  BY <1>2 DEF PromoteRecord, JobsInv, RequestInv
<1>4. PICK row : row = [strategy |-> q.strategy, version |-> q.version, run |-> q.run]
  OBVIOUS
<1>5. /\ q.strategy \in DOMAIN strategies /\ q.version \in DOMAIN versions
      /\ q.run # None => q.run \in DOMAIN runs
      /\ Known(row)
  BY <1>3, <1>4 DEF RequestOK, Promoting, Known
<1>6. row \in PromotionRow /\ row.strategy = q.strategy /\ q.strategy \in StrategyIds
  <2>1. q.strategy \in StrategyIds
    BY <1>5, CatalogAssumption DEF JobsInv, CatalogInv, CatalogTypeOK, StrategyIds
  <2>2. q.version \in VersionIds
    BY <1>5, CatalogAssumption DEF JobsInv, CatalogInv, CatalogTypeOK, VersionIds
  <2>3. q.run \in RunIds \cup {None}
    BY <1>5, RowTypes DEF JobsInv
  <2> QED
    BY <1>4, <2>1, <2>2, <2>3 DEF PromotionRow
<1>7. /\ promotions' = promotions \cup {row} /\ promoted' = promoted + 1
      /\ candidate' = [status |-> "PROMOTED", strategy |-> q.strategy]
      /\ Answers(c)
  BY <1>2, <1>4 DEF PromoteRecord, RecordPromotion
<1>8. row \notin promotions
  BY <1>2, <1>3, <1>6 DEF PromotionInv, Distinct, Promoting
<1>9. IsFiniteSet(promotions') /\ promoted' = Cardinality(promotions')
  BY <1>7, <1>8, FS_AddElement DEF PromotionInv
<1>10. \A p \in promotions' : Known(p)'
  BY <1>1, <1>5, <1>7, KnownStays DEF PromotionInv
<1>11. Distinct'
  <2>1. Quiet /\ request'[c] = NoRequest /\ \A d \in Clients \ {c} : request'[d] = request[d]
    BY <1>7, QuietAnswers DEF JobsInv, Answers, Goes, RequestInv
  <2>2. NoRequest.op \notin Promoting
    BY NoRequestOK DEF Promoting
  <2>3. \A d \in Clients \ {c} : request[d].op \in Promoting =>
          /\ request[d].strategy # row.strategy
          /\ \A p \in promotions : p.strategy # request[d].strategy
    BY <1>2, <1>3, <1>6 DEF PromotionInv, Distinct, Promoting
  <2> QED
    BY <1>7, <2>1, <2>2, <2>3 DEF Distinct, PromotionInv
<1>12. candidate' \in [status : {"COMPLETED", "PROMOTED"}, strategy : StrategyIds \cup {None}]
  BY <1>6, <1>7
<1>13. candidate'.status = "PROMOTED" /\ \E p \in promotions' : p.strategy = candidate'.strategy
  BY <1>6, <1>7
<1>14. promotions' \subseteq PromotionRow
  BY <1>6, <1>7 DEF PromotionInv
<1> QED
  BY <1>9, <1>10, <1>11, <1>12, <1>13, <1>14 DEF PromotionInv, Known

LEMMA PromotionStep == ASSUME JobsInv, PromotionInv, [Next]_vars PROVE PromotionInv'
<1>0. CatalogGrows /\ RunsGrow /\ RequestInv
  BY NextSound DEF Sound, JobsInv
<1>1. ASSUME NEW c \in Clients, Ask(c) PROVE PromotionInv'
  <2>1. UNCHANGED promotion
    BY <1>1 DEF Ask, PostStrategy, ChangeCatalog, PostRun, RerunRun, CancelRun, RetryRun,
                Recalculate, Promote
  <2>2. CASE request' = request
    BY <1>0, <2>1, <2>2, QuietSame, QuietStep
  <2>3. CASE PostStrategy(c) \/ RetryRun(c) \/ Recalculate(c) \/ Promote(c)
    <3>1. ASSUME NEW q, Goes(c, q), q.op \in {"publish", "retry", "recalculate", "promote"}
          PROVE  PromotionInv'
      BY <1>0, <2>1, <3>1, QuietGoes, QuietStep DEF Promoting
    <3>2. CASE PostStrategy(c)
      <4>1. PICK h, source :
              Goes(c, [NoRequest EXCEPT !.op = "publish", !.at = source, !.hash = h,
                                        !.strategy = Len(strategies')])
        BY <3>2 DEF PostStrategy
      <4>2. [NoRequest EXCEPT !.op = "publish", !.at = source, !.hash = h,
                              !.strategy = Len(strategies')].op = "publish"
        BY DEF NoRequest
      <4> QED
        BY <3>1, <4>1, <4>2
    <3>3. CASE RetryRun(c)
      BY <3>1, <3>3 DEF RetryRun, NoRequest
    <3>4. CASE Recalculate(c)
      BY <3>1, <3>4 DEF Recalculate, NoRequest
    <3>5. CASE Promote(c)
      BY <3>1, <3>5 DEF Promote, NoRequest
    <3> QED
      BY <2>3, <3>2, <3>3, <3>4, <3>5
  <2> QED
    BY <1>1, <2>2, <2>3 DEF Ask, ChangeCatalog, PostRun, RerunRun, CancelRun
<1>2. ASSUME NEW c \in Clients, Continue(c) PROVE PromotionInv'
  <2>1. CASE PublishFirst(c) \/ CreateRetry(c) \/ StoreRecalculated(c)
    <3>1. Answers(c) /\ UNCHANGED promotion
      BY <2>1 DEF PublishFirst, CreateRetry, StoreRecalculated
    <3> QED
      BY <1>0, <3>1, QuietAnswers, QuietStep
  <2>2. CASE PromoteVersion(c) \/ PromoteRun(c)
    <3>1. Continues(c) /\ UNCHANGED promotion
      BY <2>2, PromoteVersionSound, PromoteRunSound DEF PromoteVersion, PromoteRun
    <3> QED
      BY <1>0, <3>1, ContinuesIsQuiet, QuietStep
  <2> QED
    BY <1>2, <2>1, <2>2, PromoteStrategyStep, PromoteRecordStep DEF Continue
<1>3. ASSUME NEW c \in Clients, RequestFails(c) PROVE PromotionInv'
  BY <1>0, <1>3, QuietAnswers, QuietStep DEF RequestFails
<1>4. ASSUME NEW e \in Slots, Work(e) \/ ExecutionThrows(e) PROVE PromotionInv'
  <2>1. request' = request /\ UNCHANGED promotion
    BY <1>4 DEF Work, Tick, ClaimNext, RunStage, WriteCancelled, StoreTrades, StoreResult,
                Complete, ApplyOutcome, WriteFailed, ExecutionThrows
  <2> QED
    BY <1>0, <2>1, QuietSame, QuietStep
<1>5. CASE Restart
  <2>1. Quiet
    BY <1>5, NoRequestOK DEF Restart, Quiet, Promoting
  <2> QED
    BY <1>0, <1>5, <2>1, QuietStep DEF Restart
<1>6. CASE UNCHANGED vars
  BY <1>0, <1>6, QuietSame, QuietStep DEF vars
<1> QED
  BY <1>1, <1>2, <1>3, <1>4, <1>5, <1>6 DEF Next

LEMMA InitPromotionInv == ASSUME Init PROVE PromotionInv
<1>1. promotions = {} /\ promoted = 0 /\ candidate = [status |-> "COMPLETED", strategy |-> None]
  BY DEF Init
<1>2. IsFiniteSet(promotions) /\ promoted = Cardinality(promotions)
  BY <1>1, FS_EmptySet
<1>3. \A c \in Clients : request[c] = NoRequest
  BY DEF Init
<1>4. Distinct
  BY <1>3, NoRequestOK DEF Distinct, Promoting
<1> QED
  BY <1>1, <1>2, <1>4 DEF PromotionInv

-----------------------------------------------------------------------------
(* Runs and their executions.                                              *)

Executed ==
    /\ RunsAreExecuted
    /\ \A e \in Slots : exec[e].run # None <=> exec[e].pc \notin {"idle", "claim"}
    /\ \A e \in Slots : exec[e].pc = "outcome" => runs[exec[e].run].status # "RUNNING"

\* Steps after which no other run is RUNNING than before.
NoneClaimed ==
    /\ DOMAIN runs \subseteq DOMAIN runs'
    /\ \A r \in DOMAIN runs' :
         runs'[r].status = "RUNNING" => r \in DOMAIN runs /\ runs[r].status = "RUNNING"

LEMMA NoneClaimedSame == ASSUME runs' = runs PROVE NoneClaimed
  BY DEF NoneClaimed

LEMMA CreateClaimsNone ==
  ASSUME JobsInv, NEW v, NEW p, NEW q, CreateRun(v, p, q)
  PROVE  NoneClaimed
<1>1. PICK moves \in BOOLEAN : runs' = Append(runs, NewRun(v, p, q, moves))
  BY DEF CreateRun
<1>2. PICK row : row = NewRun(v, p, q, moves)
  OBVIOUS
<1>3. row.status = "QUEUED"
  BY <1>2 DEF NewRun
<1>4. /\ DOMAIN runs = 1 .. Len(runs) /\ Len(runs) \in Nat
      /\ DOMAIN runs' = 1 .. Len(runs) + 1
      /\ runs'[Len(runs) + 1] = row
      /\ \A i \in DOMAIN runs : runs'[i] = runs[i]
  BY <1>1, <1>2 DEF JobsInv, RunsInv
<1>5. \A r \in DOMAIN runs' : r \in DOMAIN runs \/ r = Len(runs) + 1
  BY <1>4
<1> QED
  BY <1>3, <1>4, <1>5 DEF NoneClaimed

\* A row is written, to another status than RUNNING or to that it has.
LEMMA WriteClaimsNone ==
  ASSUME JobsInv, NEW r \in DOMAIN runs, NEW row, runs' = [runs EXCEPT ![r] = row],
         row.status # "RUNNING" \/ row.status = runs[r].status
  PROVE  NoneClaimed
<1>1. DOMAIN runs' = DOMAIN runs /\ \A q \in DOMAIN runs : runs'[q] = IF q = r THEN row ELSE runs[q]
  OBVIOUS
<1> QED
  BY <1>1 DEF NoneClaimed

LEMMA RequestClaimsNone ==
  ASSUME JobsInv, NEW c \in Clients, Ask(c) \/ Continue(c) \/ RequestFails(c)
  PROVE  NoneClaimed /\ exec' = exec /\ running' = running
<1>1. CASE \/ PostStrategy(c) \/ ChangeCatalog(c) \/ RetryRun(c) \/ Recalculate(c) \/ Promote(c)
           \/ PublishFirst(c) \/ PromoteStrategy(c) \/ PromoteVersion(c) \/ PromoteRecord(c)
           \/ RequestFails(c)
  BY <1>1, NoneClaimedSame
  DEF PostStrategy, ChangeCatalog, RetryRun, Recalculate, Promote, PublishFirst, PromoteStrategy,
      PromoteVersion, PromoteRecord, RequestFails, jobs
<1>2. CASE PostRun(c) \/ RerunRun(c) \/ CreateRetry(c) \/ PromoteRun(c)
  <2>1. PICK v, p, q : CreateRun(v, p, q)
    BY <1>2 DEF PostRun, RerunRun, CreateRetry, PromoteRun
  <2> QED
    BY <2>1, CreateClaimsNone DEF CreateRun
<1>3. CASE CancelRun(c)
  <2>1. PICK r \in DOMAIN runs :
          runs' = [runs EXCEPT ![r].cancel = TRUE, ![r].status = "CANCELLING"]
    BY <1>3 DEF CancelRun
  <2>2. PICK row : row = [runs[r] EXCEPT !.cancel = TRUE, !.status = "CANCELLING"]
    OBVIOUS
  <2>3. runs[r] \in Run
    BY RowTypes DEF JobsInv
  <2>4. row.status = "CANCELLING" /\ runs' = [runs EXCEPT ![r] = row]
    BY <2>1, <2>2, <2>3 DEF Run
  <2> QED
    BY <1>3, <2>4, WriteClaimsNone DEF CancelRun
<1>4. CASE StoreRecalculated(c)
  <2>1. PICK r : r = request[c].at
    OBVIOUS
  <2>2. PICK report : report = IF runs[r].moves THEN request[c].run ELSE runs[r].report
    OBVIOUS
  <2>3. PICK row : row = [runs[r] EXCEPT !.report = report]
    OBVIOUS
  <2>4. r \in DOMAIN runs
    BY <1>4, <2>1 DEF StoreRecalculated, JobsInv, RequestInv, RequestOK
  <2>5. runs[r] \in Run
    BY <2>4, RowTypes DEF JobsInv
  <2>6. row.status = runs[r].status /\ runs' = [runs EXCEPT ![r] = row]
    BY <1>4, <2>1, <2>2, <2>3, <2>5 DEF StoreRecalculated, Run
  <2> QED
    BY <1>4, <2>4, <2>6, WriteClaimsNone DEF StoreRecalculated
<1> QED
  BY <1>1, <1>2, <1>3, <1>4 DEF Ask, Continue

LEMMA ExecutedSame ==
  ASSUME JobsInv, Executed, NoneClaimed, exec' = exec, running' = running
  PROVE  Executed'
<1>1. \A e \in Slots : exec[e].pc = "outcome" => exec[e].run \in DOMAIN runs
  BY DEF JobsInv, ExecInv, ExecOK
<1> QED
  BY <1>1 DEF Executed, RunsAreExecuted, NoneClaimed

\* An execution goes on with its run.
LEMMA ExecutedMoves ==
  ASSUME JobsInv, Executed, NoneClaimed, NEW e \in Slots, NEW x, Moves(e, x),
         x.run = exec[e].run, x.run # None <=> x.pc \notin {"idle", "claim"},
         x.pc = "outcome" => runs'[x.run].status # "RUNNING", running' = running
  PROVE  Executed'
<1>1. \A d \in Slots : exec'[d] = IF d = e THEN x ELSE exec[d]
  BY DEF Moves, JobsInv, ExecInv
<1>2. \A d \in Slots : exec'[d].run = exec[d].run
  BY <1>1
<1>3. RunsAreExecuted'
  BY <1>2 DEF Executed, RunsAreExecuted, NoneClaimed
<1>4. ASSUME NEW d \in Slots PROVE exec'[d].run # None <=> exec'[d].pc \notin {"idle", "claim"}
  BY <1>1 DEF Executed
<1>5. ASSUME NEW d \in Slots, exec'[d].pc = "outcome" PROVE runs'[exec'[d].run].status # "RUNNING"
  <2>1. CASE d = e
    BY <1>1, <1>5, <2>1
  <2>2. CASE d # e
    BY <1>1, <1>5, <2>2 DEF Executed, NoneClaimed, JobsInv, ExecInv, ExecOK
  <2> QED
    BY <2>1, <2>2
<1> QED
  BY <1>3, <1>4, <1>5 DEF Executed

\* An execution ends when its run is RUNNING no more.
LEMMA ExecutedEnds ==
  ASSUME JobsInv, Executed, NoneClaimed, NEW e \in Slots, Ends(e),
         exec[e].run \in DOMAIN runs', runs'[exec[e].run].status # "RUNNING"
  PROVE  Executed'
<1>1. /\ \A d \in Slots : exec'[d] = IF d = e THEN Idle ELSE exec[d]
      /\ running' = FALSE /\ Idle.run = None /\ Idle.pc = "idle"
  BY DEF Ends, Moves, JobsInv, ExecInv, Idle
<1>2. ASSUME NEW r \in DOMAIN runs', runs'[r].status = "RUNNING"
      PROVE  \E d \in Slots : exec'[d].run = r
  <2>1. PICK d \in Slots : exec[d].run = r
    BY <1>2 DEF Executed, RunsAreExecuted, NoneClaimed
  <2> QED
    BY <1>1, <1>2, <2>1
<1>3. \A d, f \in Slots : exec'[d].run = exec'[f].run /\ exec'[d].run # None => d = f
  BY <1>1 DEF Executed, RunsAreExecuted
<1>4. \A d \in Slots : exec'[d].run # None <=> exec'[d].pc \notin {"idle", "claim"}
  BY <1>1 DEF Executed
<1>5. ASSUME NEW d \in Slots, exec'[d].pc = "outcome" PROVE runs'[exec'[d].run].status # "RUNNING"
  BY <1>1, <1>5 DEF Executed, NoneClaimed, JobsInv, ExecInv, ExecOK
<1> QED
  BY <1>1, <1>2, <1>3, <1>4, <1>5 DEF Executed, RunsAreExecuted

LEMMA ClaimExecuted == ASSUME JobsInv, Executed, NEW e \in Slots, ClaimNext(e) PROVE Executed'
<1>0. exec[e].pc = "claim" /\ exec[e].run = None
  BY DEF ClaimNext, Executed
<1>1. CASE Moves(e, Idle) /\ UNCHANGED <<runs, running>>
  BY <1>0, <1>1, NoneClaimedSame, ExecutedMoves DEF Idle
<1>2. ASSUME NEW r \in Queued, running' = TRUE,
             runs' = [runs EXCEPT ![r].status = "RUNNING", ![r].attempt = @ + 1],
             Moves(e, [pc |-> "stage", run |-> r, left |-> Stages(runs[r].profile)])
      PROVE  Executed'
  <2>1. r \in DOMAIN runs /\ runs[r].status = "QUEUED" /\ r # None
    BY RowTypes DEF Queued, JobsInv, None, RunIds
  <2>2. PICK x : x = [pc |-> "stage", run |-> r, left |-> Stages(runs[r].profile)]
    OBVIOUS
  <2>3. /\ \A d \in Slots : exec'[d] = IF d = e THEN x ELSE exec[d]
        /\ x.pc = "stage" /\ x.run = r
    BY <1>2, <2>2 DEF Moves, JobsInv, ExecInv
  <2>4. DOMAIN runs' = DOMAIN runs /\ \A q \in DOMAIN runs : q # r => runs'[q] = runs[q]
    BY <1>2
  <2>5. \A d \in Slots : exec[d].run # None => exec[d].run # r /\ exec[d].run \in DOMAIN runs
    BY <2>1 DEF Executed, JobsInv, ExecInv, ExecOK
  <2>6. ASSUME NEW q \in DOMAIN runs', runs'[q].status = "RUNNING"
        PROVE  \E d \in Slots : exec'[d].run = q
    <3>1. CASE q = r
      BY <2>3, <3>1
    <3>2. CASE q # r
      <4>1. PICK d \in Slots : exec[d].run = q
        BY <2>4, <2>6, <3>2 DEF Executed, RunsAreExecuted
      <4>2. d # e
        BY <1>0, <2>4, <4>1, <2>6, RowTypes DEF JobsInv, None, RunIds
      <4> QED
        BY <2>3, <4>1, <4>2
    <3> QED
      BY <3>1, <3>2
  <2>7. \A d, f \in Slots : exec'[d].run = exec'[f].run /\ exec'[d].run # None => d = f
    BY <2>1, <2>3, <2>5 DEF Executed, RunsAreExecuted
  <2>8. \A d \in Slots : exec'[d].run # None <=> exec'[d].pc \notin {"idle", "claim"}
    BY <2>1, <2>3 DEF Executed
  <2>9. ASSUME NEW d \in Slots, exec'[d].pc = "outcome" PROVE runs'[exec'[d].run].status # "RUNNING"
    BY <2>3, <2>4, <2>5, <2>9 DEF Executed
  <2>10. \E d \in Slots : exec'[d].run # None
    BY <2>1, <2>3
  <2> QED
    BY <2>6, <2>7, <2>8, <2>9, <2>10 DEF Executed, RunsAreExecuted
<1> QED
  BY <1>1, <1>2 DEF ClaimNext

\* The writes of a status: the run is at work no more.
LEMMA StatusExecuted ==
  ASSUME JobsInv, Executed, NEW e \in Slots, exec[e].pc \notin {"idle", "claim"},
         NEW status \in Final, runs' = [runs EXCEPT ![exec[e].run].status = status]
  PROVE  /\ NoneClaimed /\ exec[e].run \in DOMAIN runs'
         /\ runs'[exec[e].run].status # "RUNNING"
<1>1. PICK r : r = exec[e].run
  OBVIOUS
<1>2. r \in DOMAIN runs /\ runs[r] \in Run
  BY <1>1, ItsRun
<1>3. PICK row : row = [runs[r] EXCEPT !.status = status]
  OBVIOUS
<1>4. row.status = status /\ runs' = [runs EXCEPT ![r] = row] /\ status # "RUNNING"
  BY <1>1, <1>2, <1>3 DEF Run, Final
<1> QED
  BY <1>1, <1>2, <1>4, WriteClaimsNone

LEMMA WorkExecuted ==
  ASSUME JobsInv, Executed, NEW e \in Slots, Work(e) \/ ExecutionThrows(e)
  PROVE  Executed'
<1>0. ASSUME NEW pc \in {"claim", "stage", "cancelled", "trades", "report", "complete", "failed"},
             At(e, pc), NoneClaimed, running' = running,
             exec[e].run # None <=> pc # "claim"
      PROVE  Executed'
  <2>1. PICK x : x = [exec[e] EXCEPT !.pc = pc]
    OBVIOUS
  <2>2. x.pc = pc /\ x.run = exec[e].run
    BY <2>1, Relabelled
  <2> QED
    BY <1>0, <2>1, <2>2, ExecutedMoves DEF At
<1>1. exec[e].run # None <=> exec[e].pc \notin {"idle", "claim"}
  BY DEF Executed
<1>2. CASE Tick(e)
  BY <1>0, <1>1, <1>2, NoneClaimedSame DEF Tick, Idle
<1>3. CASE RunStage(e)
  <2>1. NoneClaimed /\ running' = running /\ exec[e].pc = "stage"
    BY <1>3, NoneClaimedSame DEF RunStage
  <2>2. CASE At(e, "cancelled")
    BY <1>0, <1>1, <2>1, <2>2
  <2>3. CASE Moves(e, [exec[e] EXCEPT !.left = Tail(exec[e].left),
                            !.pc = IF Len(exec[e].left) = 1 THEN "trades" ELSE "stage"])
    <3>1. PICK x : x = [exec[e] EXCEPT !.left = Tail(exec[e].left),
                            !.pc = IF Len(exec[e].left) = 1 THEN "trades" ELSE "stage"]
      OBVIOUS
    <3>2. x.pc \in {"trades", "stage"} /\ x.run = exec[e].run
      BY <3>1, ExecTypes DEF Execution
    <3> QED
      BY <1>1, <2>1, <2>3, <3>1, <3>2, ExecutedMoves
  <2> QED
    BY <1>3, <2>2, <2>3 DEF RunStage
<1>4. CASE WriteCancelled(e) \/ WriteFailed(e)
  BY <1>4, StatusExecuted, ExecutedEnds DEF WriteCancelled, WriteFailed, Final
<1>5. CASE Complete(e)
  <2>1. PICK x : x = [exec[e] EXCEPT !.pc = "outcome"]
    OBVIOUS
  <2>2. x.pc = "outcome" /\ x.run = exec[e].run
    BY <2>1, Relabelled
  <2>3. NoneClaimed /\ runs'[exec[e].run].status # "RUNNING"
    BY <1>5, StatusExecuted DEF Complete, Final
  <2> QED
    BY <1>1, <1>5, <2>1, <2>2, <2>3, ExecutedMoves DEF Complete, At
<1>6. CASE StoreTrades(e) \/ StoreResult(e)
  <2>1. PICK r : r = exec[e].run
    OBVIOUS
  <2>2. r \in DOMAIN runs /\ runs[r] \in Run /\ exec[e].pc \notin {"idle", "claim"}
    BY <1>6, <2>1, ItsRun DEF StoreTrades, StoreResult
  <2>3. CASE runs' = runs
    BY <2>3, <1>0, <1>1, <1>6, <2>2, NoneClaimedSame DEF StoreTrades, StoreResult
  <2>4. ASSUME NEW row, runs' = [runs EXCEPT ![r] = row], row.status = runs[r].status
        PROVE  Executed'
    BY <1>0, <1>1, <1>6, <2>2, <2>4, WriteClaimsNone DEF StoreTrades, StoreResult
  <2>5. CASE runs' = [runs EXCEPT ![r].trades = runs[r].attempt]
    <3>1. PICK row : row = [runs[r] EXCEPT !.trades = runs[r].attempt]
      OBVIOUS
    <3>2. row.status = runs[r].status /\ runs' = [runs EXCEPT ![r] = row]
      BY <2>2, <2>5, <3>1 DEF Run
    <3> QED
      BY <2>4, <3>2
  <2>6. CASE runs' = [runs EXCEPT ![r].report = runs[r].attempt]
    <3>1. PICK row : row = [runs[r] EXCEPT !.report = runs[r].attempt]
      OBVIOUS
    <3>2. row.status = runs[r].status /\ runs' = [runs EXCEPT ![r] = row]
      BY <2>2, <2>6, <3>1 DEF Run
    <3> QED
      BY <2>4, <3>2
  <2> QED
    BY <1>6, <2>1, <2>3, <2>5, <2>6 DEF StoreTrades, StoreResult
<1>7. CASE ApplyOutcome(e)
  <2>1. Ends(e) /\ runs' = runs /\ exec[e].pc = "outcome"
    BY <1>7 DEF ApplyOutcome
  <2>2. exec[e].run \in DOMAIN runs /\ runs[exec[e].run].status # "RUNNING"
    BY <2>1, ItsRun DEF Executed
  <2> QED
    BY <2>1, <2>2, NoneClaimedSame, ExecutedEnds
<1>8. CASE ExecutionThrows(e)
  BY <1>0, <1>1, <1>8, NoneClaimedSame DEF ExecutionThrows
<1> QED
  BY <1>2, <1>3, <1>4, <1>5, <1>6, <1>7, <1>8, ClaimExecuted DEF Work

LEMMA RestartExecuted == ASSUME JobsInv, Restart PROVE Executed'
<1>1. \A e \in Slots : exec'[e] = Idle /\ exec'[e].run = None /\ exec'[e].pc = "idle"
  BY DEF Restart, Idle
<1>2. ASSUME NEW r \in DOMAIN runs' PROVE runs'[r].status # "RUNNING"
  <2>1. r \in DOMAIN runs /\ runs[r] \in Run
    BY RowTypes DEF Restart, JobsInv
  <2>2. runs'[r] = [runs[r] EXCEPT !.status = Recovered(runs[r].status)]
    BY <2>1 DEF Restart
  <2>3. runs'[r].status = Recovered(runs[r].status)
    BY <2>1, <2>2 DEF Run
  <2> QED
    BY <2>3 DEF Recovered
<1> QED
  BY <1>1, <1>2 DEF Executed, RunsAreExecuted, Restart

LEMMA ExecutedStep == ASSUME JobsInv, Executed, [Next]_vars PROVE Executed'
<1>1. ASSUME NEW c \in Clients, Ask(c) \/ Continue(c) \/ RequestFails(c) PROVE Executed'
  BY <1>1, RequestClaimsNone, ExecutedSame
<1>2. CASE UNCHANGED vars
  BY <1>2, NoneClaimedSame, ExecutedSame DEF vars, jobs
<1> QED
  BY <1>1, <1>2, WorkExecuted, RestartExecuted DEF Next

LEMMA InitExecuted == ASSUME Init PROVE Executed
<1>1. \A e \in Slots : exec[e].run = None /\ exec[e].pc = "idle"
  BY DEF Init, Idle
<1>2. \A r \in DOMAIN runs : runs[r].status # "RUNNING"
  BY DEF Init, NewRun
<1> QED
  BY <1>1, <1>2 DEF Executed, RunsAreExecuted, Init

-----------------------------------------------------------------------------
(* The theorems.                                                           *)

Inv == JobsInv /\ PromotionInv /\ Executed

\* The inductive invariant of catalogue, runs, requests, executions and
\* promotions, from which the properties follow.
THEOREM InvAlways == Spec => []Inv
<1>1. Init => Inv
  BY InitJobsInv, InitPromotionInv, InitExecuted DEF Inv
<1>2. Inv /\ [Next]_vars => Inv'
  BY NextSound, PromotionStep, ExecutedStep DEF Inv, Sound
<1> QED
  BY <1>1, <1>2, PTL DEF Spec

\* Every row, request and execution is well typed, whatever the callers and the
\* worker's overlapping executions do.
THEOREM TypeCorrect == Spec => []TypeOK
<1>1. Inv => TypeOK
  <2> SUFFICES ASSUME Inv PROVE TypeOK
    OBVIOUS
  <2>1. promoted \in Nat
    BY FS_CardinalityType DEF Inv, PromotionInv
  <2>2. CatalogTypeOK /\ runs \in Seq(Run) /\ Len(runs) <= MaxRuns /\ exec \in [Slots -> Execution]
    BY DEF Inv, JobsInv, CatalogInv, RunsInv, ExecInv
  <2>3. request \in [Clients -> Request] /\ requests \in 0 .. MaxRequests
        /\ trouble \in 0 .. MaxTrouble
    BY DEF Inv, JobsInv, RequestInv, CountersInv, TroubleInv
  <2>4. running \in BOOLEAN
    BY DEF Inv, JobsInv, CountersInv
  <2>5. /\ candidate \in [status : {"COMPLETED", "PROMOTED"}, strategy : StrategyIds \cup {None}]
        /\ promotions \subseteq [strategy : StrategyIds, version : VersionIds, run : RunIds \cup {None}]
    BY DEF Inv, PromotionInv, PromotionRow
  <2> QED
    BY <2>1, <2>2, <2>3, <2>4, <2>5 DEF TypeOK
<1> QED
  BY <1>1, InvAlways, PTL

\* A completed run has its report, and its trades are those of that report,
\* through stops, second executions and recalculations.
THEOREM CompletedHasReportAlways == Spec => []CompletedHasReport
<1>1. Inv => CompletedHasReport
  BY DEF Inv, JobsInv, RunsInv, Consistent, CompletedHasReport
<1> QED
  BY <1>1, InvAlways, PTL

\* A RUNNING run has one execution, whatever slots overlap, clear each other's
\* flag, fail or die, and the flag is up only while something executes.
THEOREM RunsAreExecutedAlways == Spec => []RunsAreExecuted
<1>1. Inv => RunsAreExecuted
  BY DEF Inv, Executed
<1> QED
  BY <1>1, InvAlways, PTL

\* A recorded promotion leads to its strategy, version and run, however many
\* promotions of the candidate ran at a time.
THEOREM PromotionTraceableAlways == Spec => []PromotionTraceable
<1>1. Inv => PromotionTraceable
  BY DEF Inv, PromotionInv, Known, PromotionTraceable
<1> QED
  BY <1>1, InvAlways, PTL

\* A retired strategy is brought back by its owner's request alone.
THEOREM RetiredStaysRetiredAlways == Spec => RetiredStaysRetired
<1> DEFINE Step == \A s \in DOMAIN strategies :
                     (strategies[s].lifecycle = "RETIRED" /\ strategies'[s].lifecycle # "RETIRED")
                         => requests' # requests
<1>1. Inv /\ [Next]_vars => Step
  BY NextSound DEF Inv, Sound, KeepsRetired
<1>2. Spec => [][Step]_vars
  BY <1>1, InvAlways, PTL DEF Spec
<1> QED
  BY <1>2 DEF RetiredStaysRetired

=============================================================================
