-------------------------- MODULE VerificationJobs --------------------------
(***************************************************************************)
(* Verification runs: the requests that create, retry, cancel and          *)
(* recalculate them, the worker that claims the oldest queued run, takes   *)
(* it through the stages of its profile and stores trades, report, status  *)
(* and outcome one after the other, and the stops of the process.  With    *)
(* them the promotion of a research candidate, which makes a strategy, a   *)
(* version and a run before it records itself.                             *)
(*                                                                         *)
(* A request and an execution wait for the writer between two of their     *)
(* writes, so others run in between; a write is one step.  Progress, logs  *)
(* and timestamps are left out; a run's number is its place in the order   *)
(* of creation.  The simulations of a stage are one step that looks at the *)
(* row's cancel flag, as simulate does at its first trigger.               *)
(***************************************************************************)
EXTENDS StrategyCatalog

CONSTANTS
    Clients,      \* the API's callers, each with one request in flight
    Slots,        \* calls of runOnce that may overlap
    Profiles,     \* of QUICK, STANDARD and FULL, those asked for
    Verdicts,     \* the outcomes scorecards come to
    Asked,        \* the lifecycles owners set
    MaxRuns,      \* bound: runs ever created
    MaxRequests,  \* bound: requests
    MaxTrouble    \* bound: rejected writes, exceptions and stops

AllProfiles == {"QUICK", "STANDARD", "FULL"}

ASSUME VerificationAssumption ==
    /\ Profiles \subseteq AllProfiles
    /\ Verdicts \subseteq Outcomes /\ Asked \subseteq Lifecycles
    /\ MaxRuns \in Nat \ {0} /\ {MaxRequests, MaxTrouble} \subseteq Nat

VARIABLES
    candidate,   \* the research candidate: status and promoted strategy
    promotions,  \* table research_candidate_promotions
    promoted,    \* research_runs.promoted_count
    runs,        \* table verification_runs, with what is stored under each
    running,     \* the worker's flag
    exec,        \* the calls of runOnce
    request,     \* the requests in flight
    requests, trouble  \* bounded events so far

jobs == <<runs, running, exec>>
promotion == <<candidate, promotions, promoted>>
vars == <<catalog, promotion, jobs, request, requests, trouble>>

RunIds   == 1 .. MaxRuns
Attempts == 1 .. MaxTrouble + 1
Final    == {"COMPLETED", "FAILED", "CANCELLED"}
Active   == {"QUEUED", "RUNNING", "CANCELLING"}

\* A run's row; trades and report hold the attempt whose simulation they come
\* from.  moves: whether simulating the run yields any trade; the same run
\* simulates alike each time.
Run == [version : VersionIds, profile : AllProfiles, status : Final \cup Active,
        cancel : BOOLEAN, retryOf : RunIds \cup {None}, moves : BOOLEAN,
        attempt : Attempts \cup {None}, trades : Attempts \cup {None},
        report : Attempts \cup {None}]

NewRun(version, profile, retryOf, moves) ==
    [version |-> version, profile |-> profile, status |-> "QUEUED",
     cancel |-> FALSE, retryOf |-> retryOf, moves |-> moves,
     attempt |-> None, trades |-> None, report |-> None]

Stages(profile) ==
    CASE profile = "QUICK"    -> <<"SIMULATING", "METRICS">>
      [] profile = "STANDARD" -> <<"SIMULATING", "METRICS", "COST_STRESS">>
      [] profile = "FULL"     -> <<"SIMULATING", "METRICS", "COST_STRESS",
                                   "PARAMETER_ROBUSTNESS", "WALK_FORWARD">>

Idle == [pc |-> "idle", run |-> None, left |-> <<>>]
Suffixes(s) == {SubSeq(s, i, Len(s)) : i \in 1 .. Len(s) + 1}
Execution ==
    [pc : {"idle", "claim", "stage", "cancelled", "trades", "report",
           "complete", "outcome", "failed"},
     run : RunIds \cup {None},
     left : UNION {Suffixes(Stages(p)) : p \in AllProfiles}]

NoRequest == [op |-> "none", at |-> None, strategy |-> None, version |-> None,
              run |-> None, hash |-> None, verify |-> FALSE]
\* run: the run a promotion has created, or the attempt a recalculation's
\* trades are from.
Operations == {"none", "create", "publish", "retry", "recalculate",
               "promote", "promote-publish", "promote-verify", "promote-record"}
Request == [op : Operations, at : VersionIds \cup RunIds \cup {None},
            strategy : StrategyIds \cup {None}, version : VersionIds \cup {None},
            run : RunIds \cup Attempts \cup {None}, hash : Hashes \cup {None}, verify : BOOLEAN]

TypeOK ==
    /\ CatalogTypeOK
    /\ candidate \in [status : {"COMPLETED", "PROMOTED"},
                      strategy : StrategyIds \cup {None}]
    /\ promotions \subseteq [strategy : StrategyIds, version : VersionIds,
                             run : RunIds \cup {None}]
    /\ promoted \in Nat
    /\ runs \in Seq(Run) /\ Len(runs) <= MaxRuns
    /\ running \in BOOLEAN
    /\ exec \in [Slots -> Execution]
    /\ request \in [Clients -> Request]
    /\ requests \in 0 .. MaxRequests
    /\ trouble \in 0 .. MaxTrouble

\* The server starts with one published strategy, of which no run was made
\* or a FULL one is queued.
Init ==
    /\ CatalogInit
    /\ candidate = [status |-> "COMPLETED", strategy |-> None]
    /\ promotions = {} /\ promoted = 0
    /\ runs \in {<<>>} \cup {<<NewRun(1, "FULL", None, moves)>> : moves \in BOOLEAN}
    /\ running = FALSE
    /\ exec = [e \in Slots |-> Idle]
    /\ request = [c \in Clients |-> NoRequest]
    /\ requests = 0 /\ trouble = 0

\* The hash of the promoted candidate's configuration.
CandidateHash == CHOOSE h \in Hashes : TRUE

-----------------------------------------------------------------------------
(* Requests *)

Begins(c) ==
    /\ request[c] = NoRequest /\ requests < MaxRequests
    /\ requests' = requests + 1

Goes(c, next) == request' = [request EXCEPT ![c] = next]
Answers(c)    == Goes(c, NoRequest)

\* verificationRepository.create
CreateRun(version, profile, retryOf) ==
    /\ Len(runs) < MaxRuns
    /\ \E moves \in BOOLEAN :
         runs' = Append(runs, NewRun(version, profile, retryOf, moves))
    /\ UNCHANGED <<running, exec>>

\* POST /api/strategies and /api/strategy-versions/:id/clone: an identity
\* first, then its version 1; a clone's version has the source as its parent.
PostStrategy(c) ==
    /\ Begins(c)
    /\ \E h \in Hashes, source \in DOMAIN versions \cup {None} :
         /\ source # None => versions[source].hash = h
         /\ CreateStrategy("DRAFT",
                IF source = None THEN "MANUAL"
                ELSE strategies[versions[source].strategy].origin)
         /\ Goes(c, [NoRequest EXCEPT !.op = "publish", !.at = source, !.hash = h,
                                      !.strategy = Len(strategies')])
    /\ UNCHANGED <<promotion, jobs, trouble>>

PublishFirst(c) ==
    /\ request[c].op = "publish"
    /\ Publish(request[c].strategy, request[c].hash, request[c].at)
    /\ Answers(c)
    /\ UNCHANGED <<promotion, jobs, requests, trouble>>

\* The routes of one write: a further version, the lifecycle, the archives.
ChangeCatalog(c) ==
    /\ Begins(c)
    /\ \/ \E s \in DOMAIN strategies :
            \/ \E h \in Hashes : Publish(s, h, None)
            \/ \E l \in Asked : SetLifecycle(s, l)
            \/ Retire(s)
       \/ \E v \in DOMAIN versions : ArchiveVersion(v)
    /\ UNCHANGED <<promotion, jobs, request, trouble>>

\* POST /api/strategy-versions/:id/verification-runs
PostRun(c) ==
    /\ Begins(c)
    /\ \E v \in DOMAIN versions, p \in Profiles : CreateRun(v, p, None)
    /\ UNCHANGED <<catalog, promotion, request, trouble>>

\* POST /api/verification-runs/:id/clone, in whatever status the run is.
RerunRun(c) ==
    /\ Begins(c)
    /\ \E r \in DOMAIN runs : CreateRun(runs[r].version, runs[r].profile, None)
    /\ UNCHANGED <<catalog, promotion, request, trouble>>

\* POST /api/verification-runs/:id/cancel, in whatever status the run is.
CancelRun(c) ==
    /\ Begins(c)
    /\ \E r \in DOMAIN runs :
         runs' = [runs EXCEPT ![r].cancel = TRUE, ![r].status = "CANCELLING"]
    /\ UNCHANGED <<catalog, promotion, running, exec, request, trouble>>

\* POST /api/verification-runs/:id/retry: a look for a retry that is active,
\* and a row if there was none.
Retried(r) == \E q \in DOMAIN runs : runs[q].retryOf = r /\ runs[q].status \in Active

RetryRun(c) ==
    /\ Begins(c)
    /\ \E r \in DOMAIN runs :
         /\ runs[r].status \in {"FAILED", "CANCELLED"} /\ ~Retried(r)
         /\ Goes(c, [NoRequest EXCEPT !.op = "retry", !.at = r])
    /\ UNCHANGED <<catalog, promotion, jobs, trouble>>

CreateRetry(c) ==
    LET r == request[c].at IN
    /\ request[c].op = "retry"
    /\ CreateRun(runs[r].version, runs[r].profile, r)
    /\ Answers(c)
    /\ UNCHANGED <<catalog, promotion, requests, trouble>>

\* POST /api/verification-runs/:id/recalculate-metrics: a new report from the
\* trades as they were read; it asks for a stored report, not for a status.
Recalculate(c) ==
    /\ Begins(c)
    /\ \E r \in DOMAIN runs :
         /\ runs[r].report # None
         /\ Goes(c, [NoRequest EXCEPT !.op = "recalculate", !.at = r, !.run = runs[r].trades])
    /\ UNCHANGED <<catalog, promotion, jobs, trouble>>

StoreRecalculated(c) ==
    LET r == request[c].at IN
    /\ request[c].op = "recalculate"
    /\ runs' = [runs EXCEPT ![r].report =
                    IF runs[r].moves THEN request[c].run ELSE runs[r].report]
    /\ Answers(c)
    /\ UNCHANGED <<catalog, promotion, running, exec, requests, trouble>>

\* POST /api/research-candidates/:id/promote
Promote(c) ==
    /\ Begins(c)
    /\ candidate.strategy = None /\ candidate.status = "COMPLETED"
    /\ \E verify \in BOOLEAN :
         Goes(c, [NoRequest EXCEPT !.op = "promote", !.verify = verify])
    /\ UNCHANGED <<catalog, promotion, jobs, trouble>>

PromoteStrategy(c) ==
    /\ request[c].op = "promote"
    /\ CreateStrategy("READY_FOR_DEEP_VERIFICATION", "STRATEGY_LAB")
    /\ Goes(c, [request[c] EXCEPT !.op = "promote-publish", !.strategy = Len(strategies')])
    /\ UNCHANGED <<promotion, jobs, requests, trouble>>

PromoteVersion(c) ==
    /\ request[c].op = "promote-publish"
    /\ Publish(request[c].strategy, CandidateHash, None)
    /\ Goes(c, [request[c] EXCEPT
            !.op = IF request[c].verify THEN "promote-verify" ELSE "promote-record",
            !.version = Len(versions')])
    /\ UNCHANGED <<promotion, jobs, requests, trouble>>

PromoteRun(c) ==
    /\ request[c].op = "promote-verify"
    /\ CreateRun(request[c].version, "FULL", None)
    /\ Goes(c, [request[c] EXCEPT !.op = "promote-record", !.run = Len(runs')])
    /\ UNCHANGED <<catalog, promotion, requests, trouble>>

\* recordPromotion: the row, the candidate and the count in one transaction.
\* CountsCandidates: a slip, the count says whether it was promoted.
CountsCandidates(c) ==
    /\ promotions' = promotions \cup {[strategy |-> request[c].strategy,
                        version |-> request[c].version, run |-> request[c].run]}
    /\ candidate' = [status |-> "PROMOTED", strategy |-> request[c].strategy]
    /\ promoted' = 1

RecordPromotion(c) ==
    /\ promotions' = promotions \cup {[strategy |-> request[c].strategy,
                        version |-> request[c].version, run |-> request[c].run]}
    /\ candidate' = [status |-> "PROMOTED", strategy |-> request[c].strategy]
    /\ promoted' = promoted + 1

PromoteRecord(c) ==
    /\ request[c].op = "promote-record"
    /\ RecordPromotion(c)
    /\ Answers(c)
    /\ UNCHANGED <<catalog, jobs, requests, trouble>>

\* A write of a request is rejected: the answer is 500, what was written stays.
RequestFails(c) ==
    /\ request[c] # NoRequest /\ trouble < MaxTrouble /\ trouble' = trouble + 1
    /\ Answers(c)
    /\ UNCHANGED <<catalog, promotion, jobs, requests>>

-----------------------------------------------------------------------------
(* The worker *)

Moves(e, next) == exec' = [exec EXCEPT ![e] = next]
At(e, pc)      == Moves(e, [exec[e] EXCEPT !.pc = pc])

\* runOnce, from the timer: the flag is set only after the claim.
Tick(e) ==
    /\ exec[e] = Idle /\ ~running
    /\ At(e, "claim")
    /\ UNCHANGED <<catalog, promotion, runs, running, request, requests, trouble>>

Queued == {r \in DOMAIN runs : runs[r].status = "QUEUED"}

ClaimNext(e) ==
    /\ exec[e].pc = "claim"
    /\ \/ Queued = {} /\ Moves(e, Idle) /\ UNCHANGED <<runs, running>>
       \/ \E r \in Queued :
            /\ \A other \in Queued : r <= other
            /\ runs' = [runs EXCEPT ![r].status = "RUNNING",
                                    ![r].attempt = @ + 1]
            /\ running' = TRUE
            /\ Moves(e, [pc |-> "stage", run |-> r, left |-> Stages(runs[r].profile)])
    /\ UNCHANGED <<catalog, promotion, request, requests, trouble>>

\* A stage is entered and its simulations run; simulate looks at the flag at
\* its first trigger.
RunStage(e) ==
    LET left == exec[e].left IN
    /\ exec[e].pc = "stage"
    /\ IF runs[exec[e].run].cancel
       THEN At(e, "cancelled")
       ELSE Moves(e, [exec[e] EXCEPT !.left = Tail(left),
                                     !.pc = IF Len(left) = 1 THEN "trades" ELSE "stage"])
    /\ UNCHANGED <<catalog, promotion, runs, running, request, requests, trouble>>

\* The end of runOnce; the flag falls whatever the other call is at.
Ends(e) == Moves(e, Idle) /\ running' = FALSE

WriteCancelled(e) ==
    /\ exec[e].pc = "cancelled"
    /\ runs' = [runs EXCEPT ![exec[e].run].status = "CANCELLED"]
    /\ Ends(e)
    /\ UNCHANGED <<catalog, promotion, request, requests, trouble>>

\* Plain INSERTs under UNIQUE(verification_run_id, sequence): trades of an
\* earlier attempt make the statement throw.
\* ReplacesTrades: a slip, the rows of an earlier attempt are left there.
ReplacesTrades(e) ==
    LET r == exec[e].run IN
    /\ exec[e].pc = "trades" /\ At(e, "report")
    /\ runs' = IF runs[r].moves /\ runs[r].trades = None
               THEN [runs EXCEPT ![r].trades = runs[r].attempt] ELSE runs
    /\ UNCHANGED <<catalog, promotion, running, request, requests, trouble>>

StoreTrades(e) ==
    LET r == exec[e].run IN
    /\ exec[e].pc = "trades"
    /\ IF ~runs[r].moves THEN At(e, "report") /\ UNCHANGED runs
       ELSE IF runs[r].trades # None THEN At(e, "failed") /\ UNCHANGED runs
       ELSE /\ runs' = [runs EXCEPT ![r].trades = runs[r].attempt]
            /\ At(e, "report")
    /\ UNCHANGED <<catalog, promotion, running, request, requests, trouble>>

\* INSERT OR REPLACE
StoreResult(e) ==
    LET r == exec[e].run IN
    /\ exec[e].pc = "report" /\ At(e, "complete")
    /\ runs' = [runs EXCEPT ![r].report = runs[r].attempt]
    /\ UNCHANGED <<catalog, promotion, running, request, requests, trouble>>

\* COMPLETED is written whatever the row says by then.
Complete(e) ==
    /\ exec[e].pc = "complete" /\ At(e, "outcome")
    /\ runs' = [runs EXCEPT ![exec[e].run].status = "COMPLETED"]
    /\ UNCHANGED <<catalog, promotion, running, request, requests, trouble>>

\* applyVerificationOutcome with the scorecard's verdict.
ApplyOutcome(e) ==
    LET r == exec[e].run IN
    /\ exec[e].pc = "outcome"
    /\ \E outcome \in Verdicts :
         ApplyVerificationOutcome(runs[r].version, outcome, runs[r].profile)
    /\ Ends(e)
    /\ UNCHANGED <<promotion, runs, request, requests, trouble>>

\* An exception or a rejected write anywhere in execute, the outcome's and the
\* last log's included.
ExecutionThrows(e) ==
    /\ exec[e].pc \in {"stage", "cancelled", "trades", "report", "complete", "outcome"}
    /\ trouble < MaxTrouble /\ trouble' = trouble + 1
    /\ At(e, "failed")
    /\ UNCHANGED <<catalog, promotion, runs, running, request, requests>>

\* The catch of runOnce.
WriteFailed(e) ==
    /\ exec[e].pc = "failed"
    /\ runs' = [runs EXCEPT ![exec[e].run].status = "FAILED"]
    /\ Ends(e)
    /\ UNCHANGED <<catalog, promotion, request, requests, trouble>>

\* The process stops, or an unhandled rejection ends it, and comes back:
\* recoverInterrupted is the first write of the new one.
\* CancellingOnly: a slip, a run that was RUNNING is left as it is.
CancellingOnly(status) == IF status = "CANCELLING" THEN "QUEUED" ELSE status

Recovered(status) == IF status \in {"RUNNING", "CANCELLING"} THEN "QUEUED" ELSE status

Restart ==
    /\ trouble < MaxTrouble /\ trouble' = trouble + 1
    /\ runs' = [r \in DOMAIN runs |-> [runs[r] EXCEPT !.status = Recovered(@)]]
    /\ running' = FALSE
    /\ exec' = [e \in Slots |-> Idle]
    /\ request' = [c \in Clients |-> NoRequest]
    /\ UNCHANGED <<catalog, promotion, requests>>

Work(e) ==
    \/ Tick(e) \/ ClaimNext(e) \/ RunStage(e) \/ WriteCancelled(e)
    \/ StoreTrades(e) \/ StoreResult(e) \/ Complete(e) \/ ApplyOutcome(e)
    \/ WriteFailed(e)

Ask(c) ==
    \/ PostStrategy(c) \/ ChangeCatalog(c) \/ PostRun(c) \/ RerunRun(c)
    \/ CancelRun(c) \/ RetryRun(c) \/ Recalculate(c) \/ Promote(c)

Continue(c) ==
    \/ PublishFirst(c) \/ CreateRetry(c) \/ StoreRecalculated(c)
    \/ PromoteStrategy(c) \/ PromoteVersion(c) \/ PromoteRun(c) \/ PromoteRecord(c)

Next ==
    \/ \E c \in Clients : Ask(c) \/ Continue(c) \/ RequestFails(c)
    \/ \E e \in Slots : Work(e) \/ ExecutionThrows(e)
    \/ Restart

Spec == Init /\ [][Next]_vars

-----------------------------------------------------------------------------

\* A completed run has its report, and the trades stored under it are those
\* the report was computed from, through stops between the four writes, second
\* executions of the same run and recalculations.
CompletedHasReport ==
    \A r \in DOMAIN runs : runs[r].status = "COMPLETED" =>
        /\ runs[r].report # None
        /\ runs[r].moves => runs[r].trades = runs[r].report

\* However far concurrent promotions got, and whichever failed: a recorded
\* promotion leads to a strategy of the lab, to the version with the
\* candidate's configuration and to a FULL run of it; the count is that of the
\* records; a promoted candidate names one of the recorded strategies.
PromotionTraceable ==
    /\ \A p \in promotions :
         /\ strategies[p.strategy].origin = "STRATEGY_LAB"
         /\ versions[p.version].strategy = p.strategy
         /\ versions[p.version].hash = CandidateHash
         /\ p.run # None => runs[p.run].version = p.version /\ runs[p.run].profile = "FULL"
    /\ promoted = Cardinality(promotions)
    /\ candidate.status = "PROMOTED" <=> \E p \in promotions : p.strategy = candidate.strategy

\* A retired strategy is brought back by its owner's request alone: the end of
\* a run that was started before the retirement, or a late publication of a
\* promotion, leaves it retired.
RetiredStaysRetired ==
    [][ \A s \in DOMAIN strategies :
          (strategies[s].lifecycle = "RETIRED" /\ strategies'[s].lifecycle # "RETIRED")
              => requests' # requests ]_vars

\* Calls of runOnce overlap, clear each other's flag and die with the process,
\* yet the rows and the worker agree: a RUNNING run has an execution, so that
\* none is left behind that claimNext would never see; no two execute the same
\* run; and while the flag is up some execution is there to take it down.
RunsAreExecuted ==
    /\ \A r \in DOMAIN runs :
         runs[r].status = "RUNNING" => \E e \in Slots : exec[e].run = r
    /\ \A e, f \in Slots : exec[e].run = exec[f].run /\ exec[e].run # None => e = f
    /\ running => \E e \in Slots : exec[e].run # None

=============================================================================
