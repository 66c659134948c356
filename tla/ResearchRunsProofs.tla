------------------------- MODULE ResearchRunsProofs -------------------------
(***************************************************************************)
(* Proofs about ResearchRuns, for every number of runs, processes,         *)
(* requests, crashes and attempts.                                         *)
(***************************************************************************)
EXTENDS ResearchRuns, TLAPS

-----------------------------------------------------------------------------
(* Type correctness.                                                       *)

PCs == {"idle", "claiming", "loop", "attempting", "simulating", "holdout",
        "finalizing", "writing", "failing", "failed"}
Committing == {"writing", "failed"}
Ends == {"PAUSED", "CANCELLED", "COMPLETED", "FAILED"}

\* The worker's types, and what a pending status write is about to store.
WorkerInv ==
    /\ WorkerTypeOK
    /\ \A e \in Execs : exec[e].pc \in Committing => exec[e].to \in Ends

TypeInv == RowTypeOK /\ WorkerInv /\ ServerTypeOK /\ ApiTypeOK

LEMMA RequestedIsStatus == \A op \in Ops : RequestedStatus[op] \in Statuses
  BY DEF Ops, RouteAllows, RequestedStatus, Statuses, RunTransitions

LEMMA StatusFacts ==
    {"NEW", "DELETED", "DRAFT", "QUEUED", "RUNNING"} \cup Ends \subseteq Statuses
  BY DEF Statuses, RunTransitions, Ends

LEMMA NullRecords ==
    /\ Idle \in ExecState
    /\ NoOwnership \in [run : Runs \cup {NULL}, token : Nat]
    /\ NoRequest \in [op : Ops \cup {"none"}, run : Runs \cup {NULL}]
  BY DEF Idle, ExecState, NoOwnership, NoRequest

LEMMA InitTypeInv == Init => TypeInv
  BY ConstantsAssumption, StatusFacts
  DEF Init, TypeInv, RowTypeOK, WorkerInv, WorkerTypeOK, ServerTypeOK, ApiTypeOK,
      ExecState, Idle, NoOwnership, NoRequest, Committing

\* What the operators that the steps of an execution share do to the worker's state.
LEMMA WorkerForget ==
  ASSUME WorkerInv, NEW P \in SUBSET Procs, ForgetProcs(P),
         proc' \in [Procs -> {"unborn", "starting", "up", "dead"}]
  PROVE  WorkerInv'
  BY DEF ForgetProcs, WorkerInv, WorkerTypeOK, ExecState, Idle, NoOwnership, Committing

LEMMA WorkerEnd ==
  ASSUME WorkerInv, NEW e \in Execs, EndExecution(e)
  PROVE  WorkerInv' /\ UNCHANGED serverVars
<1>1. exec' \in [Execs -> ExecState]
  BY DEF EndExecution, WorkerInv, WorkerTypeOK, ExecState, Idle
<1>2. active' \in [Procs -> [run : Runs \cup {NULL}, token : Nat]]
  BY DEF EndExecution, WorkerInv, WorkerTypeOK, NoOwnership
<1>3. running' \in [Procs -> BOOLEAN] /\ UNCHANGED <<proc, staleClaim, serverVars>>
  BY DEF EndExecution, WorkerInv, WorkerTypeOK
<1> QED
  BY <1>1, <1>2, <1>3
  DEF EndExecution, WorkerInv, WorkerTypeOK, Idle, Committing

LEMMA WorkerGoto ==
  ASSUME WorkerInv, NEW e \in Execs, NEW pc \in PCs \ Committing, Goto(e, pc)
  PROVE  WorkerInv' /\ UNCHANGED serverVars
  BY DEF Goto, WorkerInv, WorkerTypeOK, ExecState, PCs, Committing

LEMMA WorkerBegin ==
  ASSUME RowTypeOK, WorkerInv, NEW e \in Execs, NEW to \in Ends, NEW clears \in BOOLEAN,
         NEW pc \in Committing, BeginStatusWrite(e, to, clears, pc)
  PROVE  WorkerInv' /\ UNCHANGED serverVars
<1>1. OwnershipFor(e[1], exec[e].run) \in Nat
  BY DEF OwnershipFor, WorkerInv, WorkerTypeOK, Execs
<1>2. exec[e] \in ExecState
  BY DEF WorkerInv, WorkerTypeOK
<1> DEFINE new == [exec[e] EXCEPT !.pc = pc, !.to = to, !.clears = clears,
                                  !.guard = OwnershipFor(e[1], exec[e].run)]
<1>3. new \in ExecState /\ new.pc = pc /\ new.to = to
  BY <1>1, <1>2 DEF ExecState, Committing, Ends
<1>4. exec' = [exec EXCEPT ![e] = new] /\ UNCHANGED <<proc, running, staleClaim, active, serverVars>>
  BY DEF BeginStatusWrite
<1> HIDE DEF new
<1> QED
  BY <1>3, <1>4 DEF WorkerInv, WorkerTypeOK, Ends, Committing

LEMMA WorkerUpdate ==
  ASSUME RowTypeOK, WorkerInv, NEW e \in Execs, NEW to \in Ends, NEW clears \in BOOLEAN,
         UpdateStatus(e, to, clears)
  PROVE  WorkerInv' /\ UNCHANGED serverVars
  BY WorkerBegin, WorkerGoto, WorkerEnd DEF UpdateStatus, PCs, Committing

LEMMA WorkerExit ==
  ASSUME WorkerInv, ServerTypeOK, NEW p \in Procs, ExitWorker(p), UNCHANGED stops,
         kills' \in Nat
  PROVE  WorkerInv' /\ ServerTypeOK'
<1>1. proc' \in [Procs -> {"unborn", "starting", "up", "dead"}]
  BY DEF ExitWorker, WorkerInv, WorkerTypeOK
<1>2. WorkerInv'
  BY <1>1, WorkerForget DEF ExitWorker
<1>3. ServerTypeOK'
  BY DEF ExitWorker, ServerTypeOK
<1> QED
  BY <1>2, <1>3

LEMMA WorkerCrash ==
  ASSUME WorkerInv, ServerTypeOK, NEW e \in Execs, CrashWorker(e)
  PROVE  WorkerInv' /\ ServerTypeOK'
  BY WorkerExit DEF CrashWorker, ServerTypeOK, Execs

LEMMA RowWrite ==
  ASSUME TypeInv, NEW e \in Execs, exec[e].pc \in Committing, WriteStatus(e),
         UNCHANGED <<attempts, claims>>
  PROVE  RowTypeOK'
<1>1. exec[e].token \in Nat /\ exec[e].to \in Statuses
  BY StatusFacts DEF TypeInv, WorkerInv, WorkerTypeOK, ExecState
<1>2. RowTypeOK
  BY DEF TypeInv
<1> QED
  BY <1>1, <1>2 DEF WriteStatus, RowTypeOK

LEMMA RowOwned ==
  ASSUME TypeInv, NEW e \in Execs, OwnedWrite(e),
         UNCHANGED <<status, owner, token, lease, claims>>,
         attempts' \in [Runs -> Nat]
  PROVE  RowTypeOK'
  BY DEF OwnedWrite, TypeInv, RowTypeOK, WorkerInv, WorkerTypeOK, ExecState

LEMMA RowFail ==
  ASSUME RowTypeOK, NEW S \in SUBSET Runs, FailRuns(S)
  PROVE  RowTypeOK'
  BY StatusFacts DEF FailRuns, RowTypeOK, Ends

\* Unchanged variables keep their types.
LEMMA Stutter ==
    /\ RowTypeOK /\ UNCHANGED rowVars => RowTypeOK'
    /\ WorkerInv /\ UNCHANGED workerVars => WorkerInv'
    /\ ServerTypeOK /\ UNCHANGED serverVars => ServerTypeOK'
    /\ ApiTypeOK /\ UNCHANGED apiVars => ApiTypeOK'
  BY DEF RowTypeOK, rowVars, WorkerInv, WorkerTypeOK, workerVars, ServerTypeOK,
         serverVars, ApiTypeOK, apiVars

LEMMA TypeStep == ASSUME TypeInv, [Next]_vars PROVE TypeInv'
<1>0. RowTypeOK /\ WorkerInv /\ ServerTypeOK /\ ApiTypeOK
  BY DEF TypeInv
<1>1. CASE UNCHANGED vars
  BY <1>1, <1>0, Stutter DEF vars, TypeInv
<1>2. ASSUME NEW r \in Runs, Create(r) PROVE TypeInv'
  BY <1>2, <1>0, Stutter, StatusFacts DEF Create, TypeInv, RowTypeOK
<1>3. ASSUME NEW q \in Requests, NEW op \in Ops, NEW r \in Runs, ReadRequest(q, op, r)
      PROVE  TypeInv'
  BY <1>3, <1>0, Stutter DEF ReadRequest, TypeInv, ApiTypeOK
<1>4. ASSUME NEW q \in Requests, CommitRequest(q) PROVE TypeInv'
  <2>1. ApiTypeOK'
    BY <1>4, <1>0, ConstantsAssumption DEF CommitRequest, ApiTypeOK, NoRequest
  <2>2. request[q].op \in Ops
    BY <1>4, <1>0 DEF CommitRequest, ApiTypeOK
  <2>3. RowTypeOK'
    BY <1>4, <1>0, <2>2, RequestedIsStatus DEF CommitRequest, RowTypeOK
  <2> QED
    BY <1>4, <1>0, <2>1, <2>3, Stutter DEF CommitRequest, TypeInv
<1>5. ASSUME NEW r \in Runs, ReclaimExpired(r) PROVE TypeInv'
  BY <1>5, <1>0, Stutter, StatusFacts DEF ReclaimExpired, TypeInv, RowTypeOK, ApiTypeOK
<1>6. ASSUME NEW p \in Procs, SpawnWorker(p) PROVE TypeInv'
  BY <1>6, <1>0, Stutter DEF SpawnWorker, TypeInv, WorkerInv, WorkerTypeOK, ServerTypeOK
<1>7. ASSUME NEW p \in Procs, RecoverStaleLeases(p) PROVE TypeInv'
  BY <1>7, <1>0, Stutter, RowFail
  DEF RecoverStaleLeases, TypeInv, WorkerInv, WorkerTypeOK
<1>8. ASSUME NEW p \in Procs, KillWorker(p) PROVE TypeInv'
  <2>1. kills' \in Nat
    BY <1>8, <1>0 DEF KillWorker, ServerTypeOK
  <2> QED
    BY <1>8, <1>0, <2>1, Stutter, WorkerExit DEF KillWorker, TypeInv
<1>9. ASSUME NEW p \in Procs, FailWorkerRuns(p) PROVE TypeInv'
  BY <1>9, <1>0, Stutter, RowFail DEF FailWorkerRuns, RunsLostWith, TypeInv, ServerTypeOK
<1>10. ASSUME NEW P \in SUBSET Procs, StopServer(P) PROVE TypeInv'
  <2>1. proc' \in [Procs -> {"unborn", "starting", "up", "dead"}]
    BY <1>10, <1>0 DEF StopServer, WorkerInv, WorkerTypeOK
  <2>2. WorkerInv'
    BY <1>10, <1>0, <2>1, WorkerForget DEF StopServer
  <2>3. ServerTypeOK'
    <3>1. /\ stops' = stops + 1 /\ kills' = kills
          /\ serverUp' = FALSE /\ child' = NULL /\ exits' = {}
      BY <1>10 DEF StopServer
    <3>2. serverUp' \in BOOLEAN
      BY <3>1
    <3> QED
      BY <1>0, <3>1, <3>2 DEF ServerTypeOK
  <2>4. ApiTypeOK'
    BY <1>10, <1>0, NullRecords DEF StopServer, ApiTypeOK
  <2> QED
    BY <1>10, <1>0, <2>2, <2>3, <2>4, Stutter DEF StopServer, TypeInv
<1>11. ASSUME StartServer PROVE TypeInv'
  BY <1>11, <1>0, Stutter DEF StartServer, TypeInv, ServerTypeOK
<1>12. ASSUME NEW r \in Runs, ExpireLease(r) PROVE TypeInv'
  BY <1>12, <1>0, Stutter DEF ExpireLease, TypeInv, RowTypeOK
<1>13. ASSUME NEW e \in Execs, Tick(e) PROVE TypeInv'
  BY <1>13, <1>0, Stutter
  DEF Tick, TypeInv, WorkerInv, WorkerTypeOK, ExecState, Committing
<1>14. ASSUME NEW e \in Execs, ClaimNext(e) PROVE TypeInv'
  <2>1. CASE UNCHANGED <<rowVars, running, staleClaim, active>>
             /\ exec' = [exec EXCEPT ![e] = Idle]
    BY <1>14, <1>0, <2>1, Stutter
    DEF ClaimNext, TypeInv, WorkerInv, WorkerTypeOK, ExecState, Idle, Committing
  <2>2. ASSUME NEW r \in Runs,
               ClaimRun(e, r)
        PROVE  TypeInv'
    <3> DEFINE new == [Idle EXCEPT !.pc = "loop", !.run = r, !.token = claims + 1,
                                   !.attempt = attempts[r]]
    <3>1. new \in ExecState /\ new.pc = "loop"
      <4>1. attempts[r] \in Nat /\ claims + 1 \in Nat
        BY <1>0 DEF RowTypeOK
      <4> QED
        BY <4>1 DEF ExecState, Idle
    <3>2. RowTypeOK'
      <4>1. e[1] \in Procs /\ claims + 1 \in Nat /\ "RUNNING" \in Statuses
        BY <1>0, StatusFacts DEF Execs, RowTypeOK
      <4> QED
        BY <1>0, <2>2, <4>1 DEF ClaimRun, RowTypeOK
    <3>3. exec' = [exec EXCEPT ![e] = new]
      BY <2>2 DEF ClaimRun
    <3> HIDE DEF new
    <3>4. exec' \in [Execs -> ExecState]
          /\ \A f \in Execs : exec'[f].pc \in Committing => exec'[f].to \in Ends
      BY <1>0, <3>1, <3>3 DEF WorkerInv, WorkerTypeOK, Committing
    <3>5. active' \in [Procs -> [run : Runs \cup {NULL}, token : Nat]]
      <4> DEFINE own == [run |-> r, token |-> claims + 1]
      <4>1. own \in [run : Runs \cup {NULL}, token : Nat]
        BY <1>0 DEF RowTypeOK
      <4>2. active' = [active EXCEPT ![e[1]] = own]
        BY <2>2 DEF ClaimRun
      <4> HIDE DEF own
      <4> QED
        BY <1>0, <4>1, <4>2 DEF WorkerInv, WorkerTypeOK
    <3>6. WorkerInv'
      BY <1>14, <1>0, <2>2, <3>4, <3>5 DEF ClaimNext, ClaimRun, WorkerInv, WorkerTypeOK
    <3> QED
      BY <1>14, <1>0, <3>2, <3>6, Stutter DEF ClaimNext, TypeInv
  <2> QED
    BY <1>14, <2>1, <2>2 DEF ClaimNext, Queued
<1>15. ASSUME NEW e \in Execs, LoopHead(e) PROVE TypeInv'
  BY <1>15, <1>0, Stutter, WorkerEnd, WorkerUpdate, WorkerGoto
  DEF LoopHead, TypeInv, PCs, Committing, Ends
<1>16. ASSUME NEW e \in Execs, RefusedWrite(e) PROVE TypeInv'
  BY <1>16, <1>0, Stutter, WorkerEnd DEF RefusedWrite, TypeInv
<1>17. ASSUME NEW e \in Execs, Throw(e) PROVE TypeInv'
  BY <1>17, <1>0, Stutter, WorkerGoto DEF Throw, TypeInv, PCs, Committing
<1>18. ASSUME NEW e \in Execs, Attempt(e) PROVE TypeInv'
  <2> DEFINE n == exec[e].attempt + 1
  <2>1. ASSUME OwnedWrite(e), attempts' = [attempts EXCEPT ![exec[e].run] = n],
               NEW pc \in {"loop", "simulating"},
               exec' = [exec EXCEPT ![e] = [@ EXCEPT !.attempt = n, !.pc = pc]],
               UNCHANGED <<status, owner, token, lease, claims, proc, running,
                           staleClaim, active, serverVars, apiVars>>
        PROVE  TypeInv'
    <3>1. exec[e] \in ExecState /\ n \in Nat
      BY <1>0 DEF WorkerInv, WorkerTypeOK, ExecState
    <3> HIDE DEF n
    <3>2. RowTypeOK'
      BY <1>0, <2>1, <3>1, RowOwned DEF TypeInv, RowTypeOK
    <3> DEFINE new == [exec[e] EXCEPT !.attempt = n, !.pc = pc]
    <3>3. new \in ExecState /\ new.pc \notin Committing
      BY <3>1 DEF ExecState, Committing
    <3>4. exec' = [exec EXCEPT ![e] = new]
      BY <2>1
    <3> HIDE DEF new
    <3>5. WorkerInv'
      BY <1>0, <2>1, <3>3, <3>4 DEF WorkerInv, WorkerTypeOK
    <3> QED
      BY <1>0, <2>1, <3>2, <3>5, Stutter DEF TypeInv
  <2> QED
    BY <1>16, <1>17, <1>18, <2>1 DEF Attempt, RecordAttempt
<1>19. ASSUME NEW e \in Execs, Simulate(e) PROVE TypeInv'
  BY <1>19, <1>0, <1>16, <1>17, Stutter, WorkerUpdate, WorkerGoto, RowOwned
  DEF Simulate, TypeInv, PCs, Committing, Ends, RowTypeOK
<1>20. ASSUME NEW e \in Execs, Holdout(e) PROVE TypeInv'
  BY <1>20, <1>0, <1>16, <1>17, Stutter, WorkerUpdate, WorkerGoto, RowOwned
  DEF Holdout, TypeInv, PCs, Committing, Ends, RowTypeOK
<1>21. ASSUME NEW e \in Execs, Finalize(e) PROVE TypeInv'
  BY <1>21, <1>0, <1>16, <1>17, Stutter, WorkerUpdate DEF Finalize, TypeInv, Ends
<1>22. ASSUME NEW e \in Execs, CommitStatus(e) PROVE TypeInv'
  <2>1. RowTypeOK'
    BY <1>22, <1>0, RowWrite, Stutter DEF CommitStatus, TypeInv, Committing, rowVars
  <2> QED
    BY <1>22, <1>0, <2>1, Stutter, WorkerEnd DEF CommitStatus, TypeInv
<1>23. ASSUME NEW e \in Execs, Fail(e) PROVE TypeInv'
  BY <1>23, <1>0, Stutter, WorkerBegin, WorkerCrash DEF Fail, TypeInv, Committing, Ends
<1>24. ASSUME NEW e \in Execs, CommitFailure(e) PROVE TypeInv'
  <2>1. RowTypeOK'
    BY <1>24, <1>0, RowWrite, Stutter DEF CommitFailure, TypeInv, Committing, rowVars
  <2> QED
    BY <1>24, <1>0, <2>1, Stutter, WorkerEnd, WorkerCrash DEF CommitFailure, TypeInv
<1>25. ASSUME NEW e \in Execs, HeartbeatTick(e) PROVE TypeInv'
  <2>1. exec[e].token \in Nat /\ e[1] \in Procs
    BY <1>0 DEF WorkerInv, WorkerTypeOK, ExecState, Execs
  <2>2. /\ UNCHANGED <<status, owner, token, lease, attempts, claims, proc, running,
                       active, exec, serverVars, apiVars>>
        /\ \/ writer' = [writer EXCEPT ![exec[e].run] = exec[e].token] /\ UNCHANGED staleClaim
           \/ staleClaim' = [staleClaim EXCEPT ![e[1]] = TRUE] /\ UNCHANGED writer
    BY <1>25 DEF HeartbeatTick
  <2>3. RowTypeOK'
    BY <1>0, <2>1, <2>2 DEF RowTypeOK
  <2>4. staleClaim' \in [Procs -> BOOLEAN]
    BY <1>0, <2>1, <2>2 DEF WorkerInv, WorkerTypeOK
  <2>5. WorkerInv'
    BY <1>0, <2>2, <2>4 DEF WorkerInv, WorkerTypeOK
  <2> QED
    BY <1>0, <2>2, <2>3, <2>5, Stutter DEF TypeInv
<1> QED
  BY <1>1, <1>2, <1>3, <1>4, <1>5, <1>6, <1>7, <1>8, <1>9, <1>10, <1>11, <1>12, <1>13,
     <1>14, <1>15, <1>18, <1>19, <1>20, <1>21, <1>22, <1>23, <1>24, <1>25
  DEF Next, WorkerStep, ServerStep, EnvironmentStep, OperatorStep, ExecutionStep

\* Every reachable state is well typed: the statuses are those of the table, every
\* token a number, every execution in a known place.
THEOREM TypeCorrect == Spec => []TypeOK
<1>1. TypeInv => TypeOK
  BY DEF TypeInv, TypeOK, WorkerInv
<1> QED
  BY <1>1, InitTypeInv, TypeStep, PTL DEF Spec

-----------------------------------------------------------------------------
(* The claims.                                                             *)

\* A token is issued once: no two executions hold the same one, and the row has
\* none that was not issued.
ClaimInv ==
    /\ \A r \in Runs : token[r] <= claims
    /\ \A e \in Execs : Executing(e) => /\ exec[e].run \in Runs
                                        /\ exec[e].token \in 1..claims
    /\ \A e, f \in Execs :
         Executing(e) /\ Executing(f) /\ exec[e].token = exec[f].token => e = f

\* What every step but a claim leaves of an execution that goes on: its run, its
\* claim and, inside the fence, the ownership its process looks up.
Kept(e) ==
    /\ Executing(e)
    /\ exec'[e].run = exec[e].run /\ exec'[e].token = exec[e].token
    /\ Fenced(e) => active'[e[1]] = active[e[1]]
    /\ exec'[e].pc \in Committing =>
         \/ exec[e].pc \in Committing /\ exec'[e].guard = exec[e].guard
         \/ exec'[e].guard = OwnershipFor(e[1], exec[e].run)

SameAttempt(e) == exec'[e].attempt = exec[e].attempt

WorkerKeeps == \A f \in Execs : Executing(f)' => Kept(f) /\ SameAttempt(f)

RowKeeps ==
    /\ claims' = claims /\ attempts' = attempts
    /\ \A r \in Runs : token'[r] \in {token[r], 0}

LEMMA KeepsSame ==
  ASSUME WorkerInv, UNCHANGED <<active, exec>>
  PROVE  WorkerKeeps
  BY DEF WorkerKeeps, Kept, SameAttempt, Executing, Committing

LEMMA KeepsForget ==
  ASSUME WorkerInv, NEW P \in SUBSET Procs, ForgetProcs(P)
  PROVE  WorkerKeeps
  BY DEF ForgetProcs, WorkerInv, WorkerTypeOK, WorkerKeeps, Kept, SameAttempt,
         Executing, Idle, Committing, Execs

\* The record that the end of an execution clears is its own: another execution's
\* claim is another one.
LEMMA KeepsEnd ==
  ASSUME WorkerInv, ClaimInv, NEW e \in Execs, Executing(e), EndExecution(e)
  PROVE  WorkerKeeps
<1> SUFFICES ASSUME NEW f \in Execs, Executing(f)'
             PROVE  Kept(f) /\ SameAttempt(f)
  BY DEF WorkerKeeps
<1>1. f # e
  BY DEF EndExecution, WorkerInv, WorkerTypeOK, Executing, Idle
<1>2. exec'[f] = exec[f] /\ Executing(f)
  BY <1>1 DEF EndExecution, WorkerInv, WorkerTypeOK, Executing
<1>3. exec[f].token # exec[e].token
  BY <1>1, <1>2 DEF ClaimInv
<1>4. Fenced(f) => active'[f[1]] = active[f[1]]
  <2>1. CASE f[1] # e[1]
    BY <2>1 DEF EndExecution, WorkerInv, WorkerTypeOK, Execs
  <2>2. ASSUME Fenced(f), f[1] = e[1]
        PROVE  active[e[1]] # [run |-> exec[e].run, token |-> exec[e].token]
    <3>1. active[e[1]].token = exec[f].token
      BY <2>2 DEF Fenced
    <3> QED
      BY <1>3, <3>1
  <2> QED
    BY <2>1, <2>2 DEF EndExecution
<1> QED
  BY <1>2, <1>4 DEF Kept, SameAttempt

LEMMA KeepsGoto ==
  ASSUME WorkerInv, NEW e \in Execs, Executing(e), NEW pc \in PCs \ Committing, Goto(e, pc)
  PROVE  WorkerKeeps
  BY DEF Goto, WorkerInv, WorkerTypeOK, ExecState, WorkerKeeps, Kept, SameAttempt,
         Executing, Committing

LEMMA KeepsBegin ==
  ASSUME WorkerInv, NEW e \in Execs, Executing(e), NEW to \in Ends,
         NEW clears \in BOOLEAN, NEW pc \in Committing,
         BeginStatusWrite(e, to, clears, pc)
  PROVE  WorkerKeeps
<1> DEFINE new == [exec[e] EXCEPT !.pc = pc, !.to = to, !.clears = clears,
                                  !.guard = OwnershipFor(e[1], exec[e].run)]
<1>1. /\ new.run = exec[e].run /\ new.token = exec[e].token
      /\ new.attempt = exec[e].attempt
      /\ new.guard = OwnershipFor(e[1], exec[e].run)
  BY DEF WorkerInv, WorkerTypeOK, ExecState
<1>2. exec' = [exec EXCEPT ![e] = new] /\ UNCHANGED active
  BY DEF BeginStatusWrite
<1> HIDE DEF new
<1>3. \A f \in Execs : exec'[f] = IF f = e THEN new ELSE exec[f]
  BY <1>2 DEF WorkerInv, WorkerTypeOK
<1> QED
  BY <1>1, <1>2, <1>3 DEF WorkerKeeps, Kept, SameAttempt, Executing

LEMMA KeepsUpdate ==
  ASSUME WorkerInv, ClaimInv, NEW e \in Execs, Executing(e), NEW to \in Ends,
         NEW clears \in BOOLEAN, UpdateStatus(e, to, clears)
  PROVE  WorkerKeeps
  BY KeepsBegin, KeepsGoto, KeepsEnd DEF UpdateStatus, PCs, Committing

LEMMA KeepsCrash ==
  ASSUME WorkerInv, NEW e \in Execs, CrashWorker(e)
  PROVE  WorkerKeeps
  BY KeepsForget DEF CrashWorker, ExitWorker, Execs

LEMMA RowSame == UNCHANGED rowVars => RowKeeps
  BY DEF rowVars, RowKeeps

LEMMA RowFenceWrite ==
  ASSUME RowTypeOK, NEW e \in Execs, WriteStatus(e), UNCHANGED <<attempts, claims>>
  PROVE  RowKeeps
  BY DEF WriteStatus, RowKeeps, RowTypeOK

\* Every step keeps the claims of the executions that go on, except a claim.
LEMMA StepShape ==
  ASSUME TypeInv, ClaimInv, [Next]_vars
  PROVE  \/ WorkerKeeps /\ RowKeeps
         \/ \E e \in Execs : Executing(e) /\ RecordAttempt(e)
         \/ \E e \in Execs, r \in Runs : ClaimNext(e) /\ ClaimRun(e, r)
<1>0. RowTypeOK /\ WorkerInv /\ ServerTypeOK
  BY DEF TypeInv
<1> DEFINE Keeps == WorkerKeeps /\ RowKeeps
<1>1. UNCHANGED vars => Keeps
  BY <1>0, KeepsSame, RowSame DEF vars, workerVars
<1>2. ASSUME NEW r \in Runs, Create(r) \/ ReclaimExpired(r) \/ ExpireLease(r)
      PROVE  Keeps
  BY <1>0, <1>2, KeepsSame
  DEF Create, ReclaimExpired, ExpireLease, RowKeeps, RowTypeOK, workerVars
<1>3. ASSUME NEW q \in Requests, NEW op \in Ops, NEW r \in Runs, ReadRequest(q, op, r)
      PROVE  Keeps
  BY <1>0, <1>3, KeepsSame, RowSame DEF ReadRequest, workerVars
<1>4. ASSUME NEW q \in Requests, CommitRequest(q) PROVE Keeps
  BY <1>0, <1>4, KeepsSame DEF CommitRequest, RowKeeps, RowTypeOK, workerVars
<1>5. ASSUME NEW p \in Procs,
             SpawnWorker(p) \/ RecoverStaleLeases(p) \/ FailWorkerRuns(p)
      PROVE  Keeps
  BY <1>0, <1>5, KeepsSame, RowSame
  DEF SpawnWorker, RecoverStaleLeases, FailWorkerRuns, FailRuns, RowKeeps, workerVars
<1>6. ASSUME NEW p \in Procs, KillWorker(p) PROVE Keeps
  BY <1>0, <1>6, KeepsForget, RowSame DEF KillWorker, ExitWorker
<1>7. ASSUME NEW P \in SUBSET Procs, StopServer(P) PROVE Keeps
  BY <1>0, <1>7, KeepsForget, RowSame DEF StopServer
<1>8. StartServer => Keeps
  BY <1>0, KeepsSame, RowSame DEF StartServer, workerVars
<1>9. ASSUME NEW e \in Execs, Tick(e) PROVE Keeps
  <2>1. WorkerKeeps
    BY <1>0, <1>9
    DEF Tick, WorkerInv, WorkerTypeOK, ExecState, WorkerKeeps, Kept, SameAttempt,
        Executing, Committing
  <2> QED
    BY <1>9, <2>1, RowSame DEF Tick
<1>10. ASSUME NEW e \in Execs, ClaimNext(e)
       PROVE  Keeps \/ \E r \in Runs : ClaimNext(e) /\ ClaimRun(e, r)
  <2>1. CASE /\ exec' = [exec EXCEPT ![e] = Idle]
             /\ UNCHANGED <<rowVars, running, staleClaim, active>>
    <3>1. WorkerKeeps
      BY <1>0, <2>1
      DEF WorkerInv, WorkerTypeOK, WorkerKeeps, Kept, SameAttempt, Executing, Idle,
          Committing
    <3> QED
      BY <2>1, <3>1, RowSame
  <2> QED
    BY <1>10, <2>1 DEF ClaimNext, Queued
<1>11. ASSUME NEW e \in Execs, Executing(e), RefusedWrite(e) PROVE Keeps
  BY <1>0, <1>11, KeepsEnd, RowSame DEF RefusedWrite
<1>12. ASSUME NEW e \in Execs, Executing(e), Throw(e) PROVE Keeps
  BY <1>0, <1>12, KeepsGoto, RowSame DEF Throw, PCs, Committing
<1>13. ASSUME NEW e \in Execs, LoopHead(e) PROVE Keeps
  BY <1>0, <1>13, KeepsEnd, KeepsUpdate, KeepsGoto, RowSame
  DEF LoopHead, PCs, Committing, Ends, Executing
<1>14. ASSUME NEW e \in Execs, Attempt(e)
       PROVE  Keeps \/ (Executing(e) /\ RecordAttempt(e))
  <2>1. Executing(e)
    BY <1>14 DEF Attempt, Executing
  <2>2. RefusedWrite(e) => Keeps
    BY <1>11, <2>1
  <2>3. Throw(e) => Keeps
    BY <1>12, <2>1
  <2> QED
    BY <1>14, <2>1, <2>2, <2>3 DEF Attempt
<1>15. ASSUME NEW e \in Execs, Simulate(e) PROVE Keeps
  <2>1. Executing(e)
    BY <1>15 DEF Simulate, Executing
  <2>2. CASE /\ OwnedWrite(e) /\ Goto(e, "loop")
             /\ UNCHANGED <<status, owner, token, lease, attempts, claims, apiVars>>
    BY <1>0, <2>1, <2>2, KeepsGoto DEF RowKeeps, PCs, Committing
  <2> QED
    BY <1>0, <1>11, <1>12, <1>15, <2>1, <2>2, KeepsUpdate, RowSame DEF Simulate, Ends
<1>16. ASSUME NEW e \in Execs, Holdout(e) PROVE Keeps
  <2>1. Executing(e)
    BY <1>16 DEF Holdout, Executing
  <2>2. CASE /\ OwnedWrite(e) /\ Goto(e, "finalizing")
             /\ UNCHANGED <<status, owner, token, lease, attempts, claims, apiVars>>
    BY <1>0, <2>1, <2>2, KeepsGoto DEF RowKeeps, PCs, Committing
  <2> QED
    BY <1>0, <1>11, <1>12, <1>16, <2>1, <2>2, KeepsUpdate, RowSame DEF Holdout, Ends
<1>17. ASSUME NEW e \in Execs, Finalize(e) PROVE Keeps
  <2>1. Executing(e)
    BY <1>17 DEF Finalize, Executing
  <2> QED
    BY <1>0, <1>11, <1>12, <1>17, <2>1, KeepsUpdate, RowSame DEF Finalize, Ends
<1>18. ASSUME NEW e \in Execs, CommitStatus(e) PROVE Keeps
  <2>1. RowKeeps
    BY <1>0, <1>18, RowFenceWrite DEF CommitStatus, RowKeeps
  <2>2. Executing(e)
    BY <1>18 DEF CommitStatus, Executing
  <2> QED
    BY <1>0, <1>18, <2>1, <2>2, KeepsEnd DEF CommitStatus
<1>19. ASSUME NEW e \in Execs, Fail(e) PROVE Keeps
  <2>1. Executing(e)
    BY <1>19 DEF Fail, Executing
  <2> QED
    BY <1>0, <1>19, <2>1, KeepsBegin, KeepsCrash, RowSame DEF Fail, Ends, Committing
<1>20. ASSUME NEW e \in Execs, CommitFailure(e) PROVE Keeps
  <2>1. RowKeeps
    BY <1>0, <1>20, RowFenceWrite DEF CommitFailure, RowKeeps
  <2>2. Executing(e)
    BY <1>20 DEF CommitFailure, Executing
  <2> QED
    BY <1>0, <1>20, <2>1, <2>2, KeepsEnd, KeepsCrash DEF CommitFailure
<1>21. ASSUME NEW e \in Execs, HeartbeatTick(e) PROVE Keeps
  BY <1>0, <1>21, KeepsSame DEF HeartbeatTick, RowKeeps
<1> QED
  BY <1>1, <1>2, <1>3, <1>4, <1>5, <1>6, <1>7, <1>8, <1>9, <1>10, <1>13, <1>14, <1>15,
     <1>16, <1>17, <1>18, <1>19, <1>20, <1>21
  DEF Next, WorkerStep, ServerStep, EnvironmentStep, OperatorStep, ExecutionStep

LEMMA InitClaimInv == Init => ClaimInv
  BY DEF Init, ClaimInv, Executing, Idle

LEMMA ClaimStep ==
  ASSUME TypeInv, ClaimInv, [Next]_vars
  PROVE  ClaimInv'
<1>0. claims \in Nat /\ token \in [Runs -> Nat] /\ exec \in [Execs -> ExecState]
  BY DEF TypeInv, RowTypeOK, WorkerInv, WorkerTypeOK
<1>1. CASE WorkerKeeps /\ RowKeeps
  BY <1>0, <1>1 DEF ClaimInv, WorkerKeeps, Kept, RowKeeps
<1>2. ASSUME NEW e \in Execs, Executing(e), RecordAttempt(e) PROVE ClaimInv'
  <2> DEFINE same(f) == /\ Executing(f)' => Executing(f)
                        /\ exec'[f].run = exec[f].run /\ exec'[f].token = exec[f].token
  <2>1. \A f \in Execs : same(f)
    <3> DEFINE n == exec[e].attempt + 1
    <3>1. PICK pc \in {"loop", "simulating"} :
             exec' = [exec EXCEPT ![e] = [@ EXCEPT !.attempt = n, !.pc = pc]]
      BY <1>2 DEF RecordAttempt
    <3> DEFINE new == [exec[e] EXCEPT !.attempt = n, !.pc = pc]
    <3>2. new.run = exec[e].run /\ new.token = exec[e].token
      BY <1>0 DEF ExecState
    <3>3. exec' = [exec EXCEPT ![e] = new]
      BY <3>1
    <3> HIDE DEF new
    <3>4. \A f \in Execs : exec'[f] = IF f = e THEN new ELSE exec[f]
      BY <1>0, <3>3
    <3> QED
      BY <1>2, <3>2, <3>4 DEF Executing
  <2>2. UNCHANGED <<token, claims>>
    BY <1>2 DEF RecordAttempt
  <2> HIDE DEF same
  <2> QED
    BY <1>0, <2>1, <2>2 DEF ClaimInv, same
<1>3. ASSUME NEW e \in Execs, NEW r \in Runs, ClaimRun(e, r) PROVE ClaimInv'
  <2> DEFINE new == [Idle EXCEPT !.pc = "loop", !.run = r, !.token = claims + 1,
                                 !.attempt = attempts[r]]
  <2>1. new.run = r /\ new.token = claims + 1
    BY DEF Idle
  <2>2. exec' = [exec EXCEPT ![e] = new] /\ claims' = claims + 1
        /\ token' = [token EXCEPT ![r] = claims + 1]
    BY <1>3 DEF ClaimRun
  <2> HIDE DEF new
  <2>3. \A f \in Execs : exec'[f] = IF f = e THEN new ELSE exec[f]
    BY <1>0, <2>2
  <2>4. \A f \in Execs : f # e /\ Executing(f)' => Executing(f) /\ exec'[f] = exec[f]
    BY <2>3 DEF Executing
  <2>5. \A f \in Execs : Executing(f)' =>
           exec'[f].run \in Runs /\ exec'[f].token \in 1..claims'
    BY <1>0, <2>1, <2>2, <2>3, <2>4 DEF ClaimInv
  <2>6. \A f \in Execs : f # e /\ Executing(f)' => exec'[f].token # claims + 1
    BY <1>0, <2>4 DEF ClaimInv
  <2>7. \A f, g \in Execs :
           Executing(f)' /\ Executing(g)' /\ exec'[f].token = exec'[g].token => f = g
    BY <2>1, <2>3, <2>4, <2>6 DEF ClaimInv
  <2>8. \A s \in Runs : token'[s] <= claims'
    BY <1>0, <2>2 DEF ClaimInv
  <2> QED
    BY <2>5, <2>7, <2>8 DEF ClaimInv
<1> QED
  BY <1>1, <1>2, <1>3, StepShape

\* The ownership condition admits one execution of a run at most, whatever the
\* processes, restarts and lapses of leases.
THEOREM OneWriterAlways == Spec => []OneWriter
<1>1. ClaimInv => OneWriter
  BY DEF ClaimInv, OneWriter, OwnsRow
<1> QED
  BY <1>1, InitTypeInv, TypeStep, InitClaimInv, ClaimStep, PTL DEF Spec

-----------------------------------------------------------------------------
(* The fence: the ownership record of the process is the execution's own.  *)

\* The claim a fenced execution looks up is its own.
LEMMA LookedUp ==
  ASSUME NEW e \in Execs, Fenced(e)
  PROVE  OwnershipFor(e[1], exec[e].run) = exec[e].token
<1>1. active[e[1]].run = exec[e].run /\ active[e[1]].token = exec[e].token
  BY DEF Fenced
<1> QED
  BY <1>1 DEF OwnershipFor

LEMMA FenceKept ==
  ASSUME NEW f \in Execs, Kept(f), Fenced(f)
  PROVE  Fenced(f)'
<1>1. OwnershipFor(f[1], exec[f].run) = exec[f].token
  BY LookedUp
<1> QED
  BY <1>1 DEF Kept, Fenced, Committing

\* What an attempt does to the executions.
LEMMA AttemptEffect ==
  ASSUME TypeInv, NEW e \in Execs, Executing(e), RecordAttempt(e)
  PROVE  /\ UNCHANGED <<token, active, claims>>
         /\ OwnedWrite(e)
         /\ attempts' = [attempts EXCEPT ![exec[e].run] = exec'[e].attempt]
         /\ exec'[e].run = exec[e].run /\ exec'[e].token = exec[e].token
         /\ exec'[e].attempt = exec[e].attempt + 1
         /\ exec'[e].pc \notin Committing
         /\ \A f \in Execs \ {e} : exec'[f] = exec[f]
<1> DEFINE n == exec[e].attempt + 1
<1>0. exec \in [Execs -> ExecState]
  BY DEF TypeInv, WorkerInv, WorkerTypeOK
<1>1. PICK pc \in {"loop", "simulating"} :
         exec' = [exec EXCEPT ![e] = [@ EXCEPT !.attempt = n, !.pc = pc]]
  BY DEF RecordAttempt
<1> DEFINE new == [exec[e] EXCEPT !.attempt = n, !.pc = pc]
<1>2. /\ new.run = exec[e].run /\ new.token = exec[e].token /\ new.attempt = n
      /\ new.pc \notin Committing
  BY <1>0 DEF ExecState, Committing
<1>3. exec' = [exec EXCEPT ![e] = new]
  BY <1>1
<1> HIDE DEF new
<1>4. \A f \in Execs : exec'[f] = IF f = e THEN new ELSE exec[f]
  BY <1>0, <1>3
<1> QED
  BY <1>2, <1>4 DEF RecordAttempt

\* A step that is no claim takes nothing out of its fence.
LEMMA FenceStep ==
  ASSUME TypeInv, ClaimInv, [Next]_vars, NEW e \in Execs, Fenced(e), Executing(e), Executing(e)',
         ~\E f \in Execs, r \in Runs : ClaimRun(f, r)
  PROVE  Fenced(e)'
<1>1. CASE WorkerKeeps
  BY <1>1, FenceKept DEF WorkerKeeps
<1>2. ASSUME NEW f \in Execs, Executing(f), RecordAttempt(f) PROVE Fenced(e)'
  <2>1. active' = active
    BY <1>2, AttemptEffect
  <2>2. CASE e = f
    BY <1>2, <2>1, <2>2, AttemptEffect DEF Fenced, Committing
  <2>3. CASE e # f
    BY <1>2, <2>1, <2>3, AttemptEffect DEF Fenced
  <2> QED
    BY <2>2, <2>3
<1> QED
  BY <1>1, <1>2, StepShape

\* A step in which a claim is made is the ClaimNext of the call that makes it.
LEMMA ClaimIsNext ==
  ASSUME TypeInv, ClaimInv, [Next]_vars, \E f \in Execs, r \in Runs : ClaimRun(f, r)
  PROVE  \E f \in Execs : ClaimNext(f) /\ \E r \in Runs : ClaimRun(f, r)
<1>1. claims \in Nat
  BY DEF TypeInv, RowTypeOK
<1>2. claims' # claims
  BY <1>1 DEF ClaimRun
<1>3. ~RowKeeps /\ ~\E e \in Execs : RecordAttempt(e)
  BY <1>2 DEF RowKeeps, RecordAttempt
<1> QED
  BY <1>3, StepShape

\* A claim takes over the record of one process, and of no execution but those of
\* that process.
LEMMA FenceClaim ==
  ASSUME TypeInv, NEW f \in Execs, NEW r \in Runs, ClaimRun(f, r),
         NEW e \in Execs, Fenced(e), Executing(e), ~Fenced(e)'
  PROVE  e # f => e[1] = f[1]
  BY DEF TypeInv, WorkerInv, WorkerTypeOK, ClaimRun, Fenced, Execs

-----------------------------------------------------------------------------
(* What a step does to the runs.                                           *)

Held(r) == IF lease[r] = "live" THEN token[r] ELSE 0
HeldNext(r) == IF lease'[r] = "live" THEN token'[r] ELSE 0

\* A run that ended goes on, or one that nobody waits for is queued.
Reopened(r) ==
    \/ status[r] \in Terminal /\ status'[r] # status[r]
    \/ status[r] \notin Claimable /\ status'[r] \in Claimable

Asked(r) ==
    requested' # requested \/ \E q \in Requests : request[q].run = r /\ request'[q] = NoRequest

GrantEffect(r) ==
    /\ status[r] \in Claimable
    /\ status' = [status EXCEPT ![r] = "RUNNING"]
    /\ claims' = claims + 1
    /\ token' = [token EXCEPT ![r] = claims + 1]
    /\ lease' = [lease EXCEPT ![r] = "live"]
    /\ writer' = [writer EXCEPT ![r] = claims + 1]
    /\ attempts' = attempts

\* A holder's write.  It counts attempts on, unless the run is disturbed.
WriteEffect(r) ==
    /\ status[r] \in Active /\ lease[r] = "live" /\ token[r] # 0
    /\ \A s \in Runs \ {r} : status'[s] = status[s] /\ HeldNext(s) = Held(s)
    /\ status'[r] \in {status[r]} \cup Ends
    /\ HeldNext(r) \in {0, token[r]}
    /\ writer' = [writer EXCEPT ![r] = token[r]] /\ token[r] \in 1 .. claims
    /\ attempts' = [attempts EXCEPT ![r] = attempts'[r]] /\ attempts'[r] \in Nat
    /\ attempts'[r] >= attempts[r] \/ Disturbed(r)
    /\ claims' = claims

\* A write from outside the fence, to the run its execution works on.
StrayEffect(r) ==
    /\ Unfenced(r)
    /\ \A s \in Runs \ {r} : status'[s] = status[s] /\ HeldNext(s) = Held(s)
    /\ HeldNext(r) \in {0, Held(r)}
    /\ writer' = [writer EXCEPT ![r] = writer'[r]] /\ writer'[r] \in 1 .. claims
    /\ attempts' = [attempts EXCEPT ![r] = attempts'[r]] /\ attempts'[r] \in Nat
    /\ claims' = claims

TakeEffect ==
    /\ UNCHANGED <<writer, attempts, claims>>
    /\ \A r \in Runs : HeldNext(r) \in {0, Held(r)}
    /\ \A r \in Runs : Reopened(r) => Asked(r)

LEMMA TakeSame == ASSUME UNCHANGED rowVars PROVE TakeEffect
  BY DEF rowVars, TakeEffect, Held, HeldNext, Reopened

LEMMA TakeFail ==
  ASSUME RowTypeOK, NEW S \in SUBSET {r \in Runs : status[r] \in Active}, FailRuns(S)
  PROVE  TakeEffect
  BY DEF FailRuns, RowTypeOK, TakeEffect, Held, HeldNext, Reopened, Active, Terminal, Claimable

\* A write from inside the fence that is let through is the holder's.
LEMMA WriteOwned ==
  ASSUME TypeInv, ClaimInv, NEW e \in Execs, Executing(e), Fenced(e),
         \/ WriteAccepted(e[1], exec[e].run, OwnershipFor(e[1], exec[e].run))
         \/ exec[e].pc \in Committing /\ WriteAccepted(e[1], exec[e].run, exec[e].guard)
  PROVE  /\ exec[e].run \in Runs
         /\ status[exec[e].run] \in Active /\ lease[exec[e].run] = "live"
         /\ token[exec[e].run] = exec[e].token /\ exec[e].token \in 1 .. claims
         /\ exec[e].token # 0
         /\ exec[e].attempt = attempts[exec[e].run] \/ Disturbed(exec[e].run)
<1>1. exec[e].run \in Runs /\ exec[e].token \in 1..claims
  BY DEF ClaimInv
<1>2. exec[e].token # 0
  BY <1>1 DEF TypeInv, RowTypeOK
<1>3. WriteAccepted(e[1], exec[e].run, exec[e].token)
  BY LookedUp DEF Fenced, Committing
<1>4. token[exec[e].run] = exec[e].token
  BY <1>2, <1>3 DEF WriteAccepted, OwnsRow
<1>5. exec[e].attempt = attempts[exec[e].run] \/ Disturbed(exec[e].run)
  BY <1>4 DEF Disturbed
<1> QED
  BY <1>1, <1>2, <1>3, <1>5 DEF WriteAccepted, OwnsRow

\* A write that changes neither the status nor the claim.
LEMMA WritePlain ==
  ASSUME TypeInv, ClaimInv, NEW e \in Execs, Executing(e), OwnedWrite(e),
         UNCHANGED <<status, token, lease, claims>>,
         NEW n \in {attempts[exec[e].run], exec[e].attempt + 1},
         attempts' = [attempts EXCEPT ![exec[e].run] = n]
  PROVE  WriteEffect(exec[e].run) \/ StrayEffect(exec[e].run)
<1> DEFINE r == exec[e].run
<1>1. r \in Runs /\ exec[e].token \in 1 .. claims
  BY DEF ClaimInv
<1>2. /\ attempts \in [Runs -> Nat] /\ writer \in [Runs -> Nat] /\ token \in [Runs -> Nat]
      /\ exec[e].attempt \in Nat
  BY DEF TypeInv, RowTypeOK, WorkerInv, WorkerTypeOK, ExecState
<1>3. n \in Nat /\ attempts'[r] = n /\ attempts' = [attempts EXCEPT ![r] = attempts'[r]]
  <2>1. attempts[r] \in Nat /\ exec[e].attempt + 1 \in Nat
    BY <1>1, <1>2
  <2>2. attempts'[r] = n
    BY <1>1, <1>2
  <2> QED
    BY <2>1, <2>2
<1>4. writer'[r] = exec[e].token /\ writer' = [writer EXCEPT ![r] = writer'[r]]
  BY <1>1, <1>2 DEF OwnedWrite
<1>5. \A s \in Runs : HeldNext(s) = Held(s)
  BY DEF Held, HeldNext
<1>6. CASE Fenced(e)
  <2>1. /\ status[r] \in Active /\ lease[r] = "live" /\ token[r] = exec[e].token
        /\ token[r] # 0 /\ (exec[e].attempt = attempts[r] \/ Disturbed(r))
    BY <1>6, WriteOwned DEF OwnedWrite
  <2>2. n >= attempts[r] \/ Disturbed(r)
    BY <1>1, <1>2, <2>1
  <2>3. writer' = [writer EXCEPT ![r] = token[r]]
    BY <1>4, <2>1
  <2> HIDE DEF r
  <2>4. WriteEffect(r)
    BY <1>1, <1>3, <1>5, <2>1, <2>2, <2>3 DEF WriteEffect, Held, HeldNext
  <2> QED
    BY <2>4 DEF r
<1>7. CASE ~Fenced(e)
  <2>1. Unfenced(r)
    BY <1>7 DEF Unfenced
  <2> HIDE DEF r
  <2>2. StrayEffect(r)
    BY <1>1, <1>3, <1>4, <1>5, <2>1 DEF StrayEffect
  <2> QED
    BY <2>2 DEF r
<1> QED
  BY <1>6, <1>7

LEMMA WriteEnding ==
  ASSUME TypeInv, ClaimInv, NEW e \in Execs, exec[e].pc \in Committing,
         UNCHANGED <<attempts, claims>>,
         IF WriteAccepted(e[1], exec[e].run, exec[e].guard)
           THEN WriteStatus(e)
           ELSE UNCHANGED <<status, owner, token, lease, writer>>
  PROVE  WriteEffect(exec[e].run) \/ StrayEffect(exec[e].run) \/ TakeEffect
<1> DEFINE r == exec[e].run
<1>1. Executing(e) /\ exec[e].to \in Ends
  BY DEF Executing, Committing, TypeInv, WorkerInv
<1>2. r \in Runs /\ exec[e].token \in 1 .. claims
  BY <1>1 DEF ClaimInv
<1>3. RowTypeOK
  BY DEF TypeInv
<1>4. CASE UNCHANGED <<status, owner, token, lease, writer>>
  BY <1>4, TakeSame DEF rowVars
<1>5. CASE WriteAccepted(e[1], r, exec[e].guard) /\ WriteStatus(e) /\ status[r] \notin Absent
  <2>1. /\ status' = [status EXCEPT ![r] = exec[e].to]
        /\ lease' = [lease EXCEPT ![r] = "none"]
        /\ writer' = [writer EXCEPT ![r] = exec[e].token]
        /\ \A s \in Runs \ {r} : token'[s] = token[s]
    BY <1>5, <1>2, <1>3 DEF WriteStatus, RowTypeOK
  <2>2. /\ attempts' = [attempts EXCEPT ![r] = attempts'[r]]
        /\ attempts'[r] \in Nat /\ attempts'[r] >= attempts[r]
    BY <1>2, <1>3 DEF RowTypeOK
  <2>3. status'[r] \in Ends /\ lease'[r] = "none"
    BY <1>1, <1>2, <1>3, <2>1 DEF RowTypeOK
  <2>4. /\ writer'[r] \in 1 .. claims /\ writer'[r] = exec[e].token
        /\ writer' = [writer EXCEPT ![r] = writer'[r]]
    BY <1>2, <1>3, <2>1 DEF RowTypeOK
  <2>5. \A s \in Runs \ {r} : status'[s] = status[s] /\ lease'[s] = lease[s]
    BY <1>3, <2>1 DEF RowTypeOK
  <2>6. HeldNext(r) = 0 /\ \A s \in Runs \ {r} : HeldNext(s) = Held(s)
    BY <2>1, <2>3, <2>5 DEF Held, HeldNext
  <2>7. CASE Fenced(e)
    <3>1. /\ status[r] \in Active /\ lease[r] = "live"
          /\ token[r] = exec[e].token /\ token[r] # 0
      BY <1>1, <1>5, <2>7, WriteOwned
    <3> HIDE DEF r
    <3>2. WriteEffect(r)
      BY <1>2, <2>1, <2>2, <2>3, <2>5, <2>6, <3>1 DEF WriteEffect
    <3> QED
      BY <3>2 DEF r
  <2>8. CASE ~Fenced(e)
    <3>1. Unfenced(r)
      BY <1>1, <2>8 DEF Unfenced
    <3> HIDE DEF r
    <3>2. StrayEffect(r)
      BY <2>2, <2>4, <2>5, <2>6, <3>1 DEF StrayEffect
    <3> QED
      BY <3>2 DEF r
  <2> QED
    BY <2>7, <2>8
<1>6. CASE WriteStatus(e) /\ status[r] \in Absent
  BY <1>4, <1>6 DEF WriteStatus
<1> QED
  BY <1>4, <1>5, <1>6

LEMMA StepEffect ==
  ASSUME TypeInv, ClaimInv, [Next]_vars
  PROVE  (\E r \in Runs : GrantEffect(r) \/ WriteEffect(r) \/ StrayEffect(r)) \/ TakeEffect
<1> DEFINE Effect ==
      (\E r \in Runs : GrantEffect(r) \/ WriteEffect(r) \/ StrayEffect(r)) \/ TakeEffect
<1>0. RowTypeOK /\ ApiTypeOK
  BY DEF TypeInv
<1>a. ASSUME NEW e \in Execs, Executing(e) PROVE exec[e].run \in Runs
  BY <1>a DEF ClaimInv
<1>b. ASSUME NEW e \in Execs, Executing(e), OwnedWrite(e),
             UNCHANGED <<status, token, lease, attempts, claims>>
      PROVE  Effect
  <2>1. attempts' = [attempts EXCEPT ![exec[e].run] = attempts[exec[e].run]]
    BY <1>0, <1>a, <1>b DEF RowTypeOK
  <2> QED
    BY <1>a, <1>b, <2>1, WritePlain
<1>1. UNCHANGED vars => Effect
  BY TakeSame DEF vars
<1>2. ASSUME NEW r \in Runs, Create(r) PROVE Effect
  BY <1>0, <1>2
  DEF Create, RowTypeOK, TakeEffect, Held, HeldNext, Reopened, Terminal, Claimable
<1>3. ASSUME NEW q \in Requests, NEW op \in Ops, NEW r \in Runs, ReadRequest(q, op, r)
      PROVE  Effect
  BY <1>3, TakeSame DEF ReadRequest
<1>4. ASSUME NEW q \in Requests, CommitRequest(q) PROVE Effect
  <2>1. request'[q] = NoRequest
    BY <1>0, <1>4 DEF CommitRequest, ApiTypeOK
  <2>2. \A r \in Runs : Reopened(r) => Asked(r)
    BY <1>0, <1>4, <2>1 DEF CommitRequest, RowTypeOK, Reopened, Asked, Claimable
  <2>3. \A r \in Runs : HeldNext(r) \in {0, Held(r)}
    BY <1>0, <1>4 DEF CommitRequest, RowTypeOK, Held, HeldNext
  <2> QED
    BY <1>4, <2>2, <2>3 DEF CommitRequest, TakeEffect
<1>5. ASSUME NEW r \in Runs, ReclaimExpired(r) PROVE Effect
  <2>1. requested' # requested
    BY <1>0, <1>5 DEF ReclaimExpired, ApiTypeOK
  <2> QED
    BY <1>0, <1>5, <2>1 DEF ReclaimExpired, RowTypeOK, TakeEffect, Held, HeldNext, Asked
<1>6. ASSUME NEW p \in Procs, SpawnWorker(p) \/ KillWorker(p) PROVE Effect
  BY <1>6, TakeSame DEF SpawnWorker, KillWorker
<1>7. ASSUME NEW p \in Procs, RecoverStaleLeases(p) PROVE Effect
  BY <1>0, <1>7, TakeFail DEF RecoverStaleLeases
<1>8. ASSUME NEW p \in Procs, FailWorkerRuns(p) PROVE Effect
  BY <1>0, <1>8, TakeFail DEF FailWorkerRuns, RunsLostWith
<1>9. ASSUME NEW P \in SUBSET Procs, StopServer(P) PROVE Effect
  BY <1>9, TakeSame DEF StopServer
<1>10. StartServer => Effect
  BY TakeSame DEF StartServer
<1>11. ASSUME NEW r \in Runs, ExpireLease(r) PROVE Effect
  BY <1>0, <1>11 DEF ExpireLease, RowTypeOK, TakeEffect, Held, HeldNext, Reopened
<1>12. ASSUME NEW e \in Execs, Tick(e) \/ LoopHead(e) \/ Finalize(e) \/ Fail(e)
                               \/ RefusedWrite(e) \/ Throw(e)
       PROVE  Effect
  BY <1>12, TakeSame DEF Tick, LoopHead, Finalize, Fail, RefusedWrite, Throw
<1>13. ASSUME NEW e \in Execs, ClaimNext(e) PROVE Effect
  <2>1. ASSUME NEW r \in Queued, ClaimRun(e, r) PROVE GrantEffect(r) /\ r \in Runs
    BY <2>1 DEF ClaimRun, GrantEffect, Queued
  <2> QED
    BY <1>13, <2>1, TakeSame DEF ClaimNext
<1>14. ASSUME NEW e \in Execs, Attempt(e) PROVE Effect
  <2>1. Executing(e)
    BY <1>14 DEF Attempt, Executing
  <2>2. CASE RecordAttempt(e)
    BY <1>a, <2>1, <2>2, WritePlain DEF RecordAttempt
  <2>3. CASE RefusedWrite(e) \/ Throw(e)
    BY <1>12, <2>3
  <2> QED
    BY <1>14, <2>2, <2>3 DEF Attempt
<1>15. ASSUME NEW e \in Execs, Simulate(e) PROVE Effect
  <2>1. Executing(e)
    BY <1>15 DEF Simulate, Executing
  <2> QED
    BY <1>b, <1>12, <1>15, <2>1, TakeSame DEF Simulate
<1>16. ASSUME NEW e \in Execs, Holdout(e) PROVE Effect
  <2>1. Executing(e)
    BY <1>16 DEF Holdout, Executing
  <2> QED
    BY <1>b, <1>12, <1>16, <2>1, TakeSame DEF Holdout
<1>17. ASSUME NEW e \in Execs, CommitStatus(e) PROVE Effect
  <2>1. exec[e].pc \in Committing /\ Executing(e)
    BY <1>17 DEF CommitStatus, Committing, Executing
  <2> QED
    BY <1>a, <1>17, <2>1, WriteEnding DEF CommitStatus
<1>18. ASSUME NEW e \in Execs, CommitFailure(e) PROVE Effect
  <2>1. exec[e].pc \in Committing /\ Executing(e)
    BY <1>18 DEF CommitFailure, Committing, Executing
  <2> QED
    BY <1>a, <1>18, <2>1, WriteEnding DEF CommitFailure
<1>19. ASSUME NEW e \in Execs, HeartbeatTick(e) PROVE Effect
  <2>1. Executing(e)
    BY <1>19 DEF HeartbeatTick
  <2>2. CASE OwnsRow(e[1], exec[e].run, OwnershipFor(e[1], exec[e].run))
    <3>1. OwnedWrite(e) /\ UNCHANGED <<status, token, lease, attempts, claims>>
      BY <1>19, <2>2
      DEF HeartbeatTick, OwnedWrite, WriteAccepted, OwnsRow, Active, Absent
    <3> QED
      BY <1>b, <2>1, <3>1
  <2>3. CASE ~OwnsRow(e[1], exec[e].run, OwnershipFor(e[1], exec[e].run))
    BY <1>19, <2>3, TakeSame DEF HeartbeatTick, rowVars
  <2> QED
    BY <2>2, <2>3
<1> QED
  BY <1>1, <1>2, <1>3, <1>4, <1>5, <1>6, <1>7, <1>8, <1>9, <1>10, <1>11, <1>12, <1>13,
     <1>14, <1>15, <1>16, <1>17, <1>18, <1>19
  DEF Next, WorkerStep, ServerStep, EnvironmentStep, OperatorStep, ExecutionStep

-----------------------------------------------------------------------------
(* What the fence gives.                                                   *)

Inv == TypeInv /\ ClaimInv

LEMMA InvInit == Init => Inv
  BY InitTypeInv, InitClaimInv DEF Inv

LEMMA InvStep == ASSUME Inv, [Next]_vars PROVE Inv'
  BY TypeStep, ClaimStep DEF Inv

\* Only an overlapping runOnce of its own process, past the test of `running` before
\* the claim that sets it, takes an execution out of its fence.
THEOREM FenceLostAlways == Spec => FenceLostToOverlap
<1> DEFINE Lost == \A e \in Execs :
         Executing(e) /\ Fenced(e) /\ Executing(e)' /\ ~Fenced(e)' =>
             \E f \in Execs \ {e} :
                 f[1] = e[1] /\ exec[f].pc = "claiming" /\ Executing(f)'
<1>1. ASSUME Inv, [Next]_vars PROVE Lost
  <2> SUFFICES ASSUME NEW e \in Execs, Executing(e), Fenced(e), Executing(e)', ~Fenced(e)'
               PROVE  \E f \in Execs \ {e} :
                          f[1] = e[1] /\ exec[f].pc = "claiming" /\ Executing(f)'
    OBVIOUS
  <2>1. PICK f \in Execs : ClaimNext(f) /\ \E r \in Runs : ClaimRun(f, r)
    BY <1>1, ClaimIsNext, FenceStep DEF Inv
  <2>2. PICK r \in Runs : ClaimRun(f, r)
    BY <2>1
  <2>3. exec[f].pc = "claiming" /\ e # f
    BY <2>1 DEF ClaimNext, Executing
  <2>4. f[1] = e[1]
    BY <1>1, <2>2, <2>3, FenceClaim DEF Inv
  <2>5. Executing(f)'
    BY <1>1, <2>2 DEF Inv, TypeInv, WorkerInv, WorkerTypeOK, ClaimRun, Executing, Idle
  <2> QED
    BY <2>3, <2>4, <2>5
<1> QED
  BY <1>1, InvInit, InvStep, PTL DEF Spec, FenceLostToOverlap

\* With one runOnce at a time in a process nothing ever leaves the fence.
THEOREM OneAtATimeIsFenced ==
  ASSUME \A s, t \in Slots : s = t
  PROVE  Spec => [](\A r \in Runs : ~Unfenced(r))
<1> DEFINE Safe == \A e \in Execs : Executing(e) => Fenced(e)
<1>1. Init => Safe
  BY DEF Init, Executing, Idle
<1>2. ASSUME Inv, Safe, [Next]_vars PROVE Safe'
  <2> SUFFICES ASSUME NEW e \in Execs, Executing(e)' PROVE Fenced(e)'
    OBVIOUS
  <2>1. ASSUME NEW f \in Execs, NEW r \in Runs, ClaimRun(f, r) PROVE Fenced(e)'
    <3>1. exec \in [Execs -> ExecState]
          /\ active \in [Procs -> [run : Runs \cup {NULL}, token : Nat]]
      BY <1>2 DEF Inv, TypeInv, WorkerInv, WorkerTypeOK
    <3>2. CASE e = f
      BY <2>1, <3>1, <3>2 DEF ClaimRun, Fenced, Idle, Execs
    <3>3. CASE e # f
      <4>1. exec'[e] = exec[e] /\ Executing(e)
        BY <2>1, <3>1, <3>3 DEF ClaimRun, Executing
      <4>2. e[1] # f[1]
        BY <3>3 DEF Execs
      <4> QED
        BY <1>2, <2>1, <3>3, <4>1, <4>2, FenceClaim DEF Inv
    <3> QED
      BY <3>2, <3>3
  <2>2. CASE ~\E f \in Execs, r \in Runs : ClaimRun(f, r)
    <3>1. Executing(e)
      BY <1>2, <2>2, StepShape, AttemptEffect DEF Inv, WorkerKeeps, Kept, Executing
    <3> QED
      BY <1>2, <2>2, <3>1, FenceStep DEF Inv
  <2> QED
    BY <2>1, <2>2
<1>3. Safe => \A r \in Runs : ~Unfenced(r)
  BY DEF Unfenced
<1> QED
  BY <1>1, <1>2, <1>3, InvInit, InvStep, PTL DEF Spec

\* A run that ended is written to by nobody, however late a worker comes, unless it
\* was left without its fence.
THEOREM NoLateWritesAlways == Spec => NoLateWrites
<1> DEFINE Late == \A r \in Runs : status[r] \in Terminal /\ ~Unfenced(r) =>
                     writer'[r] = writer[r] /\ attempts'[r] = attempts[r]
<1>1. ASSUME Inv, [Next]_vars PROVE Late
  <2>0. attempts \in [Runs -> Nat] /\ writer \in [Runs -> Nat]
    BY <1>1 DEF Inv, TypeInv, RowTypeOK
  <2>1. ASSUME NEW r \in Runs, GrantEffect(r) PROVE Late
    BY <2>0, <2>1 DEF GrantEffect, Claimable, Terminal
  <2>2. ASSUME NEW r \in Runs, WriteEffect(r) PROVE Late
    BY <2>0, <2>2 DEF WriteEffect, Active, Terminal
  <2>3. ASSUME NEW r \in Runs, StrayEffect(r) PROVE Late
    BY <2>0, <2>3 DEF StrayEffect
  <2>4. CASE TakeEffect
    BY <2>4 DEF TakeEffect
  <2> QED
    BY <1>1, <2>1, <2>2, <2>3, <2>4, StepEffect DEF Inv
<1> QED
  BY <1>1, InvInit, InvStep, PTL DEF Spec, NoLateWrites

\* No worker, restart or recovery reopens a run: only a request of an operator does,
\* or an execution that was left without its fence.
THEOREM OperatorReopensAlways == Spec => OperatorReopens
<1> DEFINE Opened == \A r \in Runs :
         (\/ status[r] \in Terminal /\ status'[r] # status[r]
          \/ status[r] \notin Claimable /\ status'[r] \in Claimable)
         => \/ requested' # requested
            \/ \E q \in Requests : request[q].run = r /\ request'[q] = NoRequest
            \/ Unfenced(r)
<1>1. ASSUME Inv, [Next]_vars PROVE Opened
  <2>0. status \in [Runs -> Statuses]
    BY <1>1 DEF Inv, TypeInv, RowTypeOK
  <2>1. ASSUME NEW r \in Runs, GrantEffect(r) PROVE Opened
    BY <2>0, <2>1 DEF GrantEffect, Claimable, Terminal
  <2>2. ASSUME NEW r \in Runs, WriteEffect(r) PROVE Opened
    BY <2>0, <2>2 DEF WriteEffect, Active, Terminal, Claimable, Ends
  <2>3. ASSUME NEW r \in Runs, StrayEffect(r) PROVE Opened
    BY <2>0, <2>3 DEF StrayEffect
  <2>4. CASE TakeEffect
    BY <2>4 DEF TakeEffect, Reopened, Asked
  <2> QED
    BY <1>1, <2>1, <2>2, <2>3, <2>4, StepEffect DEF Inv
<1> QED
  BY <1>1, InvInit, InvStep, PTL DEF Spec, OperatorReopens

\* What is disturbed without a claim was disturbed before: an execution stays inside
\* its fence, and only a run with an unfenced one is counted on by another.
LEMMA DisturbedShrinks ==
  ASSUME Inv, [Next]_vars, ~\E f \in Execs, r \in Runs : ClaimRun(f, r),
         NEW r \in Runs, Disturbed(r)'
  PROVE  Disturbed(r)
<1>0. /\ TypeInv /\ ClaimInv /\ claims \in Nat
      /\ attempts \in [Runs -> Nat] /\ token \in [Runs -> Nat]
  BY DEF Inv, TypeInv, RowTypeOK
<1>1. PICK e \in Execs : /\ Executing(e)' /\ exec'[e].run = r
                         /\ \/ ~Fenced(e)'
                            \/ exec'[e].token = token'[r] /\ exec'[e].attempt # attempts'[r]
  BY DEF Disturbed, Unfenced
<1>2. Executing(e) /\ exec[e].run = r /\ exec'[e].token = exec[e].token
  BY <1>0, <1>1, StepShape, AttemptEffect DEF WorkerKeeps, Kept, Executing
<1>3. CASE ~Fenced(e)'
  BY <1>0, <1>1, <1>2, <1>3, FenceStep DEF Disturbed, Unfenced
<1>4. CASE exec'[e].token = token'[r] /\ exec'[e].attempt # attempts'[r]
  <2>1. exec[e].token # 0
    BY <1>0, <1>2 DEF ClaimInv
  <2>2. CASE WorkerKeeps /\ RowKeeps
    BY <1>1, <1>2, <1>4, <2>1, <2>2 DEF WorkerKeeps, RowKeeps, SameAttempt, Disturbed
  <2>3. ASSUME NEW f \in Execs, Executing(f), RecordAttempt(f) PROVE Disturbed(r)
    <3>1. CASE exec[f].run # r
      <4>1. e # f /\ exec'[e] = exec[e] /\ attempts'[r] = attempts[r] /\ token'[r] = token[r]
        BY <1>0, <1>2, <2>3, <3>1, AttemptEffect DEF ClaimInv
      <4> QED
        BY <1>2, <1>4, <4>1 DEF Disturbed
    <3>2. CASE exec[f].run = r /\ f = e
      BY <1>0, <1>4, <2>3, <3>2, AttemptEffect
    <3>3. CASE exec[f].run = r /\ f # e /\ Fenced(f)
      <4>1. token[r] = exec[f].token /\ token'[r] = token[r]
        BY <1>0, <2>3, <3>3, AttemptEffect, WriteOwned DEF OwnedWrite
      <4> QED
        BY <1>0, <1>2, <1>4, <2>3, <3>3, <4>1 DEF ClaimInv
    <3>4. CASE exec[f].run = r /\ ~Fenced(f)
      BY <2>3, <3>4 DEF Disturbed, Unfenced
    <3> QED
      BY <3>1, <3>2, <3>3, <3>4
  <2> QED
    BY <1>0, <2>2, <2>3, StepShape
<1> QED
  BY <1>1, <1>3, <1>4

\* The lease and token columns implement the abstract ownership: every claim is
\* fresh, only the holder writes but for runs gone astray, which only a claim can
\* cause, and a claim that was lost does not come back.
THEOREM OwnershipImplemented == Spec => OwnershipSpec
<1> DEFINE holder == [r \in Runs |-> IF lease[r] = "live" THEN token[r] ELSE 0]
           stray == {r \in Runs : Disturbed(r)}
<1>1. Init => Ownership!Init
  <2>1. ASSUME Init PROVE stray = {}
    <3>1. \A e \in Execs : ~Executing(e)
      BY <2>1 DEF Init, Executing, Idle
    <3> QED
      BY <3>1 DEF Disturbed, Unfenced
  <2>2. ASSUME Init PROVE holder = [r \in Runs |-> 0]
    BY <2>2 DEF Init
  <2> QED
    BY <2>1, <2>2 DEF Init, Ownership!Init
<1>2. ASSUME Inv, [Next]_vars PROVE [Ownership!Next]_(Ownership!vars)
  <2>0. /\ token \in [Runs -> Nat] /\ lease \in [Runs -> {"none", "live", "expired"}]
        /\ attempts \in [Runs -> Nat] /\ claims \in Nat
    BY <1>2 DEF Inv, TypeInv, RowTypeOK
  <2>a. stray' \in SUBSET Runs
    OBVIOUS
  <2>b. claims' = claims => stray' \subseteq stray
    <3>1. ASSUME NEW f \in Execs, NEW r \in Runs, ClaimRun(f, r) PROVE claims' # claims
      <4>1. claims' = claims + 1
        BY <3>1 DEF ClaimRun
      <4> QED
        BY <2>0, <4>1
    <3> QED
      BY <1>2, <3>1, DisturbedShrinks
  <2>1. ASSUME NEW r \in Runs, GrantEffect(r) PROVE Ownership!Next
    <3>1. holder' = [holder EXCEPT ![r] = claims + 1]
      BY <2>0, <2>1 DEF GrantEffect
    <3>2. Ownership!Grant(r)
      BY <2>1, <2>a, <3>1 DEF GrantEffect, Ownership!Grant
    <3> QED
      BY <3>2 DEF Ownership!Next
  <2>2. ASSUME NEW r \in Runs, WriteEffect(r) PROVE Ownership!Next
    <3>1. holder[r] = token[r] /\ holder[r] # 0 /\ claims' = claims
      BY <2>2 DEF WriteEffect
    <3>2. PICK h \in {0, token[r]} : h = HeldNext(r)
      BY <2>2 DEF WriteEffect
    <3>3. holder' = [holder EXCEPT ![r] = h]
      BY <2>0, <2>2, <3>2 DEF WriteEffect, Held, HeldNext
    <3>4. stray' \subseteq stray
      BY <2>b, <3>1
    <3>5. CASE Disturbed(r)
      <4>1. r \in stray
        BY <3>5
      <4>2. writer'[r] = token[r] /\ writer' = [writer EXCEPT ![r] = writer'[r]]
        BY <1>2, <2>2 DEF WriteEffect, Inv, TypeInv, RowTypeOK
      <4> HIDE DEF stray
      <4>3. Ownership!WriteAstray(r)
        BY <2>2, <3>1, <3>3, <3>4, <4>1, <4>2 DEF WriteEffect, Ownership!WriteAstray, stray
      <4> QED
        BY <4>3 DEF Ownership!Next
    <3>6. CASE ~Disturbed(r)
      <4>1. r \notin stray
        BY <3>6
      <4>2. Ownership!Write(r)
        BY <2>2, <3>1, <3>3, <3>4, <3>6, <4>1 DEF WriteEffect, Ownership!Write
      <4> QED
        BY <4>2 DEF Ownership!Next
    <3> QED
      BY <3>5, <3>6
  <2>3. ASSUME NEW r \in Runs, StrayEffect(r) PROVE Ownership!Next
    <3>1. PICK h \in {0, Held(r)} : h = HeldNext(r)
      BY <2>3 DEF StrayEffect
    <3>2. holder[r] = Held(r) /\ holder' = [holder EXCEPT ![r] = h]
      BY <2>0, <2>3, <3>1 DEF StrayEffect, Held, HeldNext
    <3>3. r \in stray /\ stray' \subseteq stray
      BY <2>b, <2>3 DEF StrayEffect, Disturbed
    <3>4. Ownership!WriteAstray(r)
      BY <2>3, <3>2, <3>3 DEF StrayEffect, Ownership!WriteAstray
    <3> QED
      BY <3>4 DEF Ownership!Next
  <2>4. CASE TakeEffect
    <3>1. PICK S \in SUBSET Runs : S = {r \in Runs : HeldNext(r) = 0}
      OBVIOUS
    <3>2. holder' = [r \in Runs |-> IF r \in S THEN 0 ELSE holder[r]]
      BY <2>4, <3>1 DEF TakeEffect, Held, HeldNext
    <3>3. stray' \subseteq stray
      BY <2>b, <2>4 DEF TakeEffect
    <3>4. Ownership!Revoke(S)
      BY <2>4, <3>2, <3>3 DEF TakeEffect, Ownership!Revoke
    <3> QED
      BY <3>4 DEF Ownership!Next
  <2>5. (\E r \in Runs : GrantEffect(r) \/ WriteEffect(r) \/ StrayEffect(r)) \/ TakeEffect
    BY <1>2, StepEffect DEF Inv
  <2> QED
    BY <2>1, <2>2, <2>3, <2>4, <2>5 DEF Ownership!Next
<1> QED
  BY <1>1, <1>2, InvInit, InvStep, PTL DEF Spec, OwnershipSpec, Ownership!Spec

=============================================================================
