---------------------------- MODULE ResearchRuns ----------------------------
(***************************************************************************)
(* The life of a research run: the research_runs rows, the API requests    *)
(* that change them, the worker processes that claim and execute them      *)
(* under a lease, and the server process that supervises the worker.       *)
(*                                                                         *)
(* Every SQL statement is one atomic step of the shared database.  A       *)
(* status update is two steps, as in researchRepository.update: the row is *)
(* read and the transition checked, and the UPDATE runs later, from the    *)
(* writer queue of the process that asked for it.                          *)
(***************************************************************************)
EXTENDS Naturals, FiniteSets

CONSTANTS
    Runs,         \* run identifiers; a smaller one was created earlier
    Procs,        \* worker process incarnations, used once each, in their order
    Slots,        \* runOnce calls of one process that may be under way together
    Requests,     \* API requests that may be under way together
    NULL,         \* no run, no process
    MaxRequests,  \* bound: operator requests in a behaviour
    MaxKills,     \* bound: worker processes killed in a behaviour
    MaxStops,     \* bound: stops of the server in a behaviour
    MaxAttempts,  \* max_generation_attempts of every run
    LeaseLapses   \* whether a lease may lapse under a worker that is still executing

ASSUME ConstantsAssumption ==
    /\ Runs \subseteq Nat \ {0} /\ Procs \subseteq Nat
    /\ NULL \notin Runs \cup Procs
    /\ MaxRequests \in Nat /\ MaxKills \in Nat /\ MaxStops \in Nat
    /\ MaxAttempts \in Nat
    /\ LeaseLapses \in BOOLEAN

VARIABLES
    status, owner, token, lease, attempts,  \* columns of research_runs
    writer,      \* history: the claim whose execution last wrote to the row
    claims,      \* claim tokens issued so far; a token is the number it was issued as
    proc,        \* the state of each worker process
    running, staleClaim,  \* the ResearchWorker's two flags, one pair per process
    active,      \* activeOwnership, the module variable of each process
    exec,        \* the runOnce calls of each process
    serverUp,    \* whether the server process is up
    child,       \* the worker process the server supervises
    exits,       \* exited workers whose failWorkerRuns is still queued
    kills, stops,  \* worker processes killed, and stops of the server, so far
    request,     \* API requests between their read and their write
    requested    \* operator requests made so far

rowVars    == <<status, owner, token, lease, attempts, writer, claims>>
workerVars == <<proc, running, staleClaim, active, exec>>
serverVars == <<serverUp, child, exits, kills, stops>>
apiVars    == <<request, requested>>
vars       == <<rowVars, workerVars, serverVars, apiVars>>

Execs == Procs \X Slots

\* runTransitions; a transition to the same status is always allowed.
RunTransitions ==
    [DRAFT        |-> {"QUEUED", "FAILED", "CANCELLED"},
     QUEUED       |-> {"RUNNING", "CANCELLING", "CANCELLED", "FAILED"},
     RUNNING      |-> {"PAUSING", "CANCELLING", "COMPLETED", "FAILED"},
     PAUSING      |-> {"PAUSED", "CANCELLING", "FAILED"},
     PAUSED       |-> {"RESUMING", "QUEUED", "CANCELLING", "CANCELLED"},
     RESUMING     |-> {"RUNNING", "FAILED", "CANCELLING"},
     COMPLETED    |-> {},
     FAILED       |-> {"QUEUED"},
     CANCELLING   |-> {"CANCELLED", "FAILED"},
     CANCELLED    |-> {"QUEUED"}]

RunTransitionAllowed(from, to) == from = to \/ to \in RunTransitions[from]

\* NEW: not inserted yet.  DELETED: the row is gone.  INITIALIZING is never written.
Statuses == DOMAIN RunTransitions \cup {"NEW", "DELETED"}
Absent   == {"NEW", "DELETED"}
Active   == {"RUNNING", "PAUSING", "CANCELLING"}
Claimable == {"QUEUED", "RESUMING"}
Terminal == {"COMPLETED", "FAILED", "CANCELLED"}

NoOwnership == [run |-> NULL, token |-> 0]
Idle == [pc |-> "idle", run |-> NULL, token |-> 0, attempt |-> 0,
         to |-> "none", clears |-> FALSE, guard |-> 0]
NoRequest == [op |-> "none", run |-> NULL]

Init ==
    /\ status = [r \in Runs |-> "NEW"]
    /\ owner = [r \in Runs |-> NULL]
    /\ token = [r \in Runs |-> 0]
    /\ lease = [r \in Runs |-> "none"]
    /\ attempts = [r \in Runs |-> 0]
    /\ writer = [r \in Runs |-> 0]
    /\ claims = 0
    /\ proc = [p \in Procs |-> "unborn"]
    /\ running = [p \in Procs |-> FALSE]
    /\ staleClaim = [p \in Procs |-> FALSE]
    /\ active = [p \in Procs |-> NoOwnership]
    /\ exec = [e \in Execs |-> Idle]
    /\ serverUp = TRUE
    /\ child = NULL
    /\ exits = {}
    /\ kills = 0
    /\ stops = 0
    /\ request = [q \in Requests |-> NoRequest]
    /\ requested = 0

-----------------------------------------------------------------------------
(* The API: each request reads the row, and its UPDATE runs later.         *)

\* Statuses from which each route goes on; the other ones get a 409 reply.
RouteAllows ==
    [launch |-> {"DRAFT", "FAILED", "CANCELLED", "PAUSED"},
     pause  |-> {"RUNNING"},
     resume |-> {"PAUSED"},
     cancel |-> {"QUEUED", "RUNNING", "PAUSING", "PAUSED", "RESUMING"},
     delete |-> {"DRAFT", "COMPLETED", "FAILED", "CANCELLED"}]

\* Mutant: a deleted run is kept, under a status of its own.
ArchivingStatus ==
    [launch |-> "QUEUED", pause |-> "PAUSING", resume |-> "RESUMING",
     cancel |-> "CANCELLING", delete |-> "ARCHIVED"]

RequestedStatus ==
    [launch |-> "QUEUED", pause |-> "PAUSING", resume |-> "RESUMING",
     cancel |-> "CANCELLING", delete |-> "DELETED"]

Ops == DOMAIN RouteAllows

Create(r) ==
    /\ serverUp /\ status[r] = "NEW"
    /\ \A s \in Runs : s < r => status[s] # "NEW"
    /\ status' = [status EXCEPT ![r] = "DRAFT"]
    /\ UNCHANGED <<owner, token, lease, attempts, writer, claims,
                   workerVars, serverVars, apiVars>>

ReadRequest(q, op, r) ==
    /\ serverUp /\ request[q] = NoRequest /\ requested < MaxRequests
    /\ status[r] \in RouteAllows[op]
    /\ op # "delete" => RunTransitionAllowed(status[r], RequestedStatus[op])
    /\ request' = [request EXCEPT ![q] = [op |-> op, run |-> r]]
    /\ requested' = requested + 1
    /\ UNCHANGED <<rowVars, workerVars, serverVars>>

\* The UPDATE has no ownership condition: the API process never owns a run.
\* launch and delete leave no claim on the row, the other requests keep it.  It
\* matches no row that is gone, and a run with promoted candidates is not deleted.
CommitRequest(q) ==
    LET r == request[q].run
        op == request[q].op
    IN  /\ serverUp /\ op # "none"
        /\ request' = [request EXCEPT ![q] = NoRequest]
        /\ \/ /\ status[r] \in Absent \/ op = "delete"
              /\ UNCHANGED <<status, owner, token, lease>>
           \/ /\ status[r] \notin Absent
              /\ status' = [status EXCEPT ![r] = RequestedStatus[op]]
              /\ IF op \in {"launch", "delete"}
                   THEN /\ owner' = [owner EXCEPT ![r] = NULL]
                        /\ token' = [token EXCEPT ![r] = 0]
                        /\ lease' = [lease EXCEPT ![r] = "none"]
                   ELSE UNCHANGED <<owner, token, lease>>
        /\ UNCHANGED <<attempts, writer, claims, workerVars, serverVars, requested>>

\* reclaimExpired, an operator's action on one run.
ReclaimExpired(r) ==
    /\ requested < MaxRequests
    /\ status[r] \in Active /\ lease[r] = "expired"
    /\ status' = [status EXCEPT ![r] = "QUEUED"]
    /\ owner' = [owner EXCEPT ![r] = NULL]
    /\ token' = [token EXCEPT ![r] = 0]
    /\ lease' = [lease EXCEPT ![r] = "none"]
    /\ requested' = requested + 1
    /\ UNCHANGED <<attempts, writer, claims, workerVars, serverVars, request>>

-----------------------------------------------------------------------------
(* The server process and the worker processes it forks.                   *)

Executing(e) == exec[e].pc \notin {"idle", "claiming"}

\* Processes whose memory is gone keep none of their worker state.
ForgetProcs(P) ==
    /\ running' = [p \in Procs |-> running[p] /\ p \notin P]
    /\ staleClaim' = [p \in Procs |-> staleClaim[p] /\ p \notin P]
    /\ active' = [p \in Procs |-> IF p \in P THEN NoOwnership ELSE active[p]]
    /\ exec' = [e \in Execs |-> IF e[1] \in P THEN Idle ELSE exec[e]]

\* spawnResearchWorker: at start-up, and a second after the last one exited.
SpawnWorker(p) ==
    /\ serverUp /\ child = NULL /\ proc[p] = "unborn"
    /\ \A s \in Procs : s < p => proc[s] # "unborn"
    /\ child' = p
    /\ proc' = [proc EXCEPT ![p] = "starting"]
    /\ UNCHANGED <<rowVars, running, staleClaim, active, exec,
                   serverUp, exits, kills, stops, apiVars>>

\* Mutant: the supervisor puts the runs back in the queue.
RequeueRuns(S) ==
    /\ status' = [r \in Runs |-> IF r \in S THEN "QUEUED" ELSE status[r]]
    /\ lease' = [r \in Runs |-> IF r \in S THEN "none" ELSE lease[r]]
    /\ UNCHANGED <<owner, token, attempts, writer, claims>>

\* What the two supervising statements do to the runs they select.
FailRuns(S) ==
    /\ status' = [r \in Runs |-> IF r \in S THEN "FAILED" ELSE status[r]]
    /\ lease' = [r \in Runs |-> IF r \in S THEN "none" ELSE lease[r]]
    /\ UNCHANGED <<owner, token, attempts, writer, claims>>

\* start(): the stale leases are recovered once, before the first poll.
RecoverStaleLeases(p) ==
    /\ proc[p] = "starting"
    /\ proc' = [proc EXCEPT ![p] = "up"]
    /\ FailRuns({r \in Runs : status[r] \in Active /\ lease[r] # "live"})
    /\ UNCHANGED <<running, staleClaim, active, exec, serverVars, apiVars>>

\* The process ends.  Only a server that is still up and its parent hears of it.
ExitWorker(p) ==
    /\ proc' = [proc EXCEPT ![p] = "dead"]
    /\ ForgetProcs({p})
    /\ IF serverUp /\ child = p
         THEN child' = NULL /\ exits' = exits \cup {p}
         ELSE UNCHANGED <<child, exits>>
    /\ UNCHANGED serverUp

KillWorker(p) ==
    /\ proc[p] \in {"starting", "up"} /\ kills < MaxKills
    /\ kills' = kills + 1
    /\ ExitWorker(p)
    /\ UNCHANGED <<rowVars, stops, apiVars>>

\* Mutant: only runs whose lease has run out are failed.
ExpiredRunsOf(p) ==
    {r \in Runs : owner[r] = p /\ status[r] \in Active /\ lease[r] = "expired"}

\* Mutant: the runs with a pending pause or cancellation are forgotten.
RunningRunsOf(p) == {r \in Runs : owner[r] = p /\ status[r] = "RUNNING"}

\* failWorkerRuns, queued by the exit handler.
RunsLostWith(p) == {r \in Runs : owner[r] = p /\ status[r] \in Active}

FailWorkerRuns(p) ==
    /\ serverUp /\ p \in exits
    /\ exits' = exits \ {p}
    /\ FailRuns(RunsLostWith(p))
    /\ UNCHANGED <<workerVars, serverUp, child, kills, stops, apiVars>>

\* The server goes down with its requests and its queued writes.  The worker
\* processes in P go with it; the others stay, with nobody to hear them exit.
StopServer(P) ==
    /\ serverUp /\ stops < MaxStops
    /\ P \subseteq {p \in Procs : proc[p] \in {"starting", "up"}}
    /\ stops' = stops + 1
    /\ serverUp' = FALSE
    /\ child' = NULL
    /\ exits' = {}
    /\ request' = [q \in Requests |-> NoRequest]
    /\ proc' = [p \in Procs |-> IF p \in P THEN "dead" ELSE proc[p]]
    /\ ForgetProcs(P)
    /\ UNCHANGED <<rowVars, kills, requested>>

StartServer ==
    /\ ~serverUp
    /\ serverUp' = TRUE
    /\ UNCHANGED <<rowVars, workerVars, child, exits, kills, stops, apiVars>>

\* 120 seconds pass without a heartbeat.
ExpireLease(r) ==
    /\ lease[r] = "live"
    /\ LeaseLapses \/ \A e \in Execs : Executing(e) => exec[e].token # token[r]
    /\ lease' = [lease EXCEPT ![r] = "expired"]
    /\ UNCHANGED <<status, owner, token, attempts, writer, claims,
                   workerVars, serverVars, apiVars>>

-----------------------------------------------------------------------------
(* The worker: runOnce polls, claims and executes.                         *)

\* ownershipFor: the one ownership record of the process, if it is for this run.
OwnershipFor(p, r) == IF active[p].run = r THEN active[p].token ELSE 0

\* Mutants of the ownership condition: the claim is not compared, the lease is
\* not, neither the lease nor the status is.
OwnsLease(p, r, t) == lease[r] = "live" /\ status[r] \in Active
OwnsUnleased(p, r, t) == owner[r] = p /\ token[r] = t /\ status[r] \in Active
OwnsClaim(p, r, t) == owner[r] = p /\ token[r] = t

\* The ownership condition of the guarded writes, under claim t; without an
\* ownership (t = 0) a write is unconditional.
OwnsRow(p, r, t) ==
    /\ owner[r] = p /\ token[r] = t
    /\ lease[r] = "live"
    /\ status[r] \in Active

WriteAccepted(p, r, t) == t = 0 \/ OwnsRow(p, r, t)

\* setInterval(500): a tick does nothing while a run executes, but it does not
\* know of an earlier tick that still waits for its claim.
Tick(e) ==
    LET p == e[1]
    IN  /\ proc[p] = "up" /\ ~running[p] /\ exec[e].pc = "idle"
        /\ exec' = [exec EXCEPT ![e].pc = "claiming"]
        /\ UNCHANGED <<rowVars, proc, running, staleClaim, active, serverVars, apiVars>>

Queued == {r \in Runs : status[r] \in Claimable}

\* A fresh token on the row, and the same token in the process that claimed it.
ClaimRun(e, r) ==
    LET p == e[1]
        t == claims + 1
    IN  /\ claims' = t
        /\ status' = [status EXCEPT ![r] = "RUNNING"]
        /\ owner' = [owner EXCEPT ![r] = p]
        /\ token' = [token EXCEPT ![r] = t]
        /\ lease' = [lease EXCEPT ![r] = "live"]
        /\ writer' = [writer EXCEPT ![r] = t]
        /\ running' = [running EXCEPT ![p] = TRUE]
        /\ staleClaim' = [staleClaim EXCEPT ![p] = FALSE]
        /\ active' = [active EXCEPT ![p] = [run |-> r, token |-> t]]
        /\ exec' = [exec EXCEPT ![e] = [Idle EXCEPT !.pc = "loop", !.run = r, !.token = t,
                                                   !.attempt = attempts[r]]]
        /\ UNCHANGED attempts

\* claimNext and the rest of runOnce up to execute().
ClaimNext(e) ==
    /\ exec[e].pc = "claiming"
    /\ \/ /\ Queued = {}
          /\ exec' = [exec EXCEPT ![e] = Idle]
          /\ UNCHANGED <<rowVars, running, staleClaim, active>>
       \/ \E r \in Queued : (\A s \in Queued : r <= s) /\ ClaimRun(e, r)
    /\ UNCHANGED <<proc, serverVars, apiVars>>

\* Mutant: the end of an execution clears the record whoever it belongs to.
EndAnyOwnership(e) ==
    LET p == e[1]
    IN  /\ exec' = [exec EXCEPT ![e] = Idle]
        /\ running' = [running EXCEPT ![p] = FALSE]
        /\ active' = [active EXCEPT ![p] = NoOwnership]
        /\ UNCHANGED <<proc, staleClaim, serverVars>>

\* The finally block of runOnce.
EndExecution(e) ==
    LET p == e[1]
    IN  /\ exec' = [exec EXCEPT ![e] = Idle]
        /\ running' = [running EXCEPT ![p] = FALSE]
        /\ active' = IF active[p] = [run |-> exec[e].run, token |-> exec[e].token]
                       THEN [active EXCEPT ![p] = NoOwnership] ELSE active
        /\ UNCHANGED <<proc, staleClaim, serverVars>>

Goto(e, pc) ==
    /\ exec' = [exec EXCEPT ![e].pc = pc]
    /\ UNCHANGED <<proc, running, staleClaim, active, serverVars>>

\* An error leaves the catch block of runOnce: nobody handles the rejection, and
\* the handler of the process ends it.
CrashWorker(e) == ExitWorker(e[1]) /\ UNCHANGED <<kills, stops>>

\* The first half of update(): the row is read, the transition checked and the
\* ownership looked up.  An illegal transition throws.
BeginStatusWrite(e, to, clears, pc) ==
    LET r == exec[e].run
    IN  /\ status[r] \notin Absent
        /\ RunTransitionAllowed(status[r], to)
        /\ exec' = [exec EXCEPT ![e] = [@ EXCEPT !.pc = pc, !.to = to, !.clears = clears,
                                               !.guard = OwnershipFor(e[1], r)]]
        /\ UNCHANGED <<proc, running, staleClaim, active, serverVars>>

Illegal(e, to) ==
    LET r == exec[e].run
    IN  status[r] \notin Absent /\ ~RunTransitionAllowed(status[r], to)

\* update(), called by execute(): of a deleted row it returns null and execute()
\* returns after it, or stops at the next guarded write.
UpdateStatus(e, to, clears) ==
    \/ BeginStatusWrite(e, to, clears, "writing")
    \/ Illegal(e, to) /\ Goto(e, "failing")
    \/ status[exec[e].run] \in Absent /\ EndExecution(e)

\* A simulation stops early for a cancel request or a lost claim, and execute()
\* takes either for a cancelled run.
Interrupted(e) == status[exec[e].run] = "CANCELLING" \/ staleClaim[e[1]]

\* The head of the attempt loop.
LoopHead(e) ==
    LET r == exec[e].run
    IN  /\ exec[e].pc = "loop"
        /\ \/ staleClaim[e[1]] /\ EndExecution(e)
           \/ /\ ~staleClaim[e[1]]
              /\ \/ /\ status[r] \in Absent \cup {"CANCELLING"}
                    /\ UpdateStatus(e, "CANCELLED", FALSE)
                 \/ /\ status[r] = "PAUSING"
                    /\ UpdateStatus(e, "PAUSED", FALSE)
                 \/ /\ status[r] \notin Absent \cup {"CANCELLING", "PAUSING"}
                    /\ exec[e].attempt < MaxAttempts
                    /\ Goto(e, "attempting")
           \/ Goto(e, "holdout")  \* the budget is met, or no attempt is left
        /\ UNCHANGED <<rowVars, apiVars>>

\* A write of the execution under the claim it looks up now: accepted, refused
\* with StaleWorkerError, or failed for another reason.
OwnedWrite(e) ==
    /\ WriteAccepted(e[1], exec[e].run, OwnershipFor(e[1], exec[e].run))
    /\ status[exec[e].run] \notin Absent
    /\ writer' = [writer EXCEPT ![exec[e].run] = exec[e].token]

RefusedWrite(e) ==
    LET r == exec[e].run
        t == OwnershipFor(e[1], r)
    IN  /\ t # 0 /\ ~OwnsRow(e[1], r, t)
        /\ EndExecution(e)
        /\ UNCHANGED <<rowVars, apiVars>>

Throw(e) == Goto(e, "failing") /\ UNCHANGED <<rowVars, apiVars>>

\* One attempt: the heartbeat, the attempt count, the candidate and its attempt
\* row.  A rejected candidate goes back to the loop, an accepted one is simulated.
RecordAttempt(e) ==
    LET n == exec[e].attempt + 1
    IN  /\ OwnedWrite(e)
        /\ attempts' = [attempts EXCEPT ![exec[e].run] = n]
        /\ \E pc \in {"loop", "simulating"} :
             exec' = [exec EXCEPT ![e] = [@ EXCEPT !.attempt = n, !.pc = pc]]
        /\ UNCHANGED <<status, owner, token, lease, claims, proc, running,
                       staleClaim, active, serverVars, apiVars>>

Attempt(e) ==
    /\ exec[e].pc = "attempting"
    /\ RecordAttempt(e) \/ RefusedWrite(e) \/ Throw(e)

\* The in-sample and out-of-sample simulations, each followed by a look for a
\* cancel request, and the writes of the verdict.
Simulate(e) ==
    /\ exec[e].pc = "simulating"
    /\ \/ /\ Interrupted(e)
          /\ UpdateStatus(e, "CANCELLED", TRUE)
          /\ UNCHANGED <<rowVars, apiVars>>
       \/ /\ status[exec[e].run] # "CANCELLING"
          /\ \/ /\ OwnedWrite(e)
                /\ Goto(e, "loop")
                /\ UNCHANGED <<status, owner, token, lease, attempts, claims, apiVars>>
             \/ RefusedWrite(e)
       \/ Throw(e)

\* The holdout evaluation: it looks for a cancel request only around the
\* simulation of a finalist, and there may be none; never for a pause request.
Holdout(e) ==
    /\ exec[e].pc = "holdout"
    /\ \/ /\ Interrupted(e)
          /\ UpdateStatus(e, "CANCELLED", TRUE)
          /\ UNCHANGED <<rowVars, apiVars>>
       \/ /\ OwnedWrite(e)
          /\ Goto(e, "finalizing")
          /\ UNCHANGED <<status, owner, token, lease, attempts, claims, apiVars>>
       \/ RefusedWrite(e)
       \/ Throw(e)

\* Reconciliation, and the terminal status: FAILED when the accounting mismatches.
Finalize(e) ==
    /\ exec[e].pc = "finalizing"
    /\ \/ /\ UpdateStatus(e, "COMPLETED", TRUE)
          /\ UNCHANGED <<rowVars, apiVars>>
       \/ /\ UpdateStatus(e, "FAILED", FALSE)
          /\ UNCHANGED <<rowVars, apiVars>>
       \/ RefusedWrite(e)
       \/ Throw(e)

\* What the UPDATE of a status changes on the row: every status execute() writes
\* ends the lease, and some writes drop the claim as well.
WriteStatus(e) ==
    LET r == exec[e].run
    IN  IF status[r] \in Absent THEN UNCHANGED <<status, owner, token, lease, writer>>
        ELSE /\ status' = [status EXCEPT ![r] = exec[e].to]
             /\ lease' = [lease EXCEPT ![r] = "none"]
             /\ writer' = [writer EXCEPT ![r] = exec[e].token]
             /\ IF exec[e].clears
                  THEN /\ owner' = [owner EXCEPT ![r] = NULL]
                       /\ token' = [token EXCEPT ![r] = 0]
                  ELSE UNCHANGED <<owner, token>>

\* The second half of an update of execute(): the execution ends whether it is
\* accepted or not.  RUN_COMPLETED is logged under the claim just given up.
CommitStatus(e) ==
    /\ exec[e].pc = "writing"
    /\ IF WriteAccepted(e[1], exec[e].run, exec[e].guard)
         THEN WriteStatus(e)
         ELSE UNCHANGED <<status, owner, token, lease, writer>>
    /\ EndExecution(e)
    /\ UNCHANGED <<attempts, claims, apiVars>>

\* The catch block of runOnce: an illegal transition is not caught again.
Fail(e) ==
    /\ exec[e].pc = "failing"
    /\ \/ BeginStatusWrite(e, "FAILED", FALSE, "failed")
       \/ Illegal(e, "FAILED") /\ CrashWorker(e)
       \/ status[exec[e].run] \in Absent /\ CrashWorker(e)
    /\ UNCHANGED <<rowVars, apiVars>>

\* Its UPDATE, and the log of RUN_FAILED, which an owner may no longer write once
\* the status is FAILED: the process ends.  Without ownership the log is written.
CommitFailure(e) ==
    LET r == exec[e].run
        accepted == WriteAccepted(e[1], r, exec[e].guard)
    IN  /\ exec[e].pc = "failed"
        /\ IF accepted THEN WriteStatus(e)
                       ELSE UNCHANGED <<status, owner, token, lease, writer>>
        /\ IF accepted /\ status[r] \notin Absent /\ OwnershipFor(e[1], r) = 0
             THEN EndExecution(e)
             ELSE CrashWorker(e)
        /\ UNCHANGED <<attempts, claims, apiVars>>

\* setInterval(10 s): it refreshes the lease, or learns that the claim is lost.
\* Without ownership it matches no row and says nothing.
HeartbeatTick(e) ==
    LET p == e[1]
        r == exec[e].run
        t == OwnershipFor(p, r)
    IN  /\ Executing(e) /\ t # 0
        /\ IF OwnsRow(p, r, t)
             THEN writer' = [writer EXCEPT ![r] = exec[e].token] /\ UNCHANGED staleClaim
             ELSE staleClaim' = [staleClaim EXCEPT ![p] = TRUE] /\ UNCHANGED writer
        /\ UNCHANGED <<status, owner, token, lease, attempts, claims,
                       proc, running, active, exec, serverVars, apiVars>>

-----------------------------------------------------------------------------
ExecutionStep(e) ==
    \/ ClaimNext(e) \/ LoopHead(e) \/ Attempt(e) \/ Simulate(e) \/ Holdout(e)
    \/ Finalize(e) \/ CommitStatus(e) \/ Fail(e) \/ CommitFailure(e)

WorkerStep ==
    \/ \E e \in Execs : Tick(e) \/ ExecutionStep(e) \/ HeartbeatTick(e)
    \/ \E p \in Procs : RecoverStaleLeases(p)

ServerStep ==
    \/ \E p \in Procs : SpawnWorker(p) \/ FailWorkerRuns(p)
    \/ StartServer

EnvironmentStep ==
    \/ \E p \in Procs : KillWorker(p)
    \/ \E P \in SUBSET Procs : StopServer(P)
    \/ \E r \in Runs : ExpireLease(r)

OperatorStep ==
    \/ \E r \in Runs : Create(r) \/ ReclaimExpired(r)
    \/ \E q \in Requests, op \in Ops, r \in Runs : ReadRequest(q, op, r)
    \/ \E q \in Requests : CommitRequest(q)

Next == WorkerStep \/ ServerStep \/ EnvironmentStep \/ OperatorStep

Spec == Init /\ [][Next]_vars

\* A worker keeps polling and executing while it lives, the server keeps a worker
\* and drains its queue, is restarted when it stops, and answers what it accepted.
\* A lease that nobody refreshes runs out.  Nobody has to make a request.
Fairness ==
    /\ \A e \in Execs : WF_vars(Tick(e)) /\ WF_vars(ExecutionStep(e))
    /\ \A p \in Procs : WF_vars(RecoverStaleLeases(p)) /\ WF_vars(FailWorkerRuns(p))
    /\ WF_vars(\E p \in Procs : SpawnWorker(p))
    /\ WF_vars(StartServer)
    /\ \A q \in Requests : WF_vars(CommitRequest(q))
    /\ \A r \in Runs :
         WF_vars(/\ \A e \in Execs : Executing(e) => exec[e].token # token[r]
                 /\ ExpireLease(r))

FairSpec == Spec /\ Fairness

-----------------------------------------------------------------------------
(* Properties                                                              *)

ExecState ==
    [pc : {"idle", "claiming", "loop", "attempting", "simulating", "holdout",
           "finalizing", "writing", "failing", "failed"},
     run : Runs \cup {NULL}, token : Nat, attempt : Nat,
     to : {"none", "PAUSED", "CANCELLED", "COMPLETED", "FAILED"},
     clears : BOOLEAN, guard : Nat]

RowTypeOK ==
    /\ status \in [Runs -> Statuses]
    /\ owner \in [Runs -> Procs \cup {NULL}]
    /\ token \in [Runs -> Nat]
    /\ lease \in [Runs -> {"none", "live", "expired"}]
    /\ attempts \in [Runs -> Nat]
    /\ writer \in [Runs -> Nat]
    /\ claims \in Nat

WorkerTypeOK ==
    /\ proc \in [Procs -> {"unborn", "starting", "up", "dead"}]
    /\ running \in [Procs -> BOOLEAN]
    /\ staleClaim \in [Procs -> BOOLEAN]
    /\ active \in [Procs -> [run : Runs \cup {NULL}, token : Nat]]
    /\ exec \in [Execs -> ExecState]

ServerTypeOK ==
    /\ serverUp \in BOOLEAN
    /\ child \in Procs \cup {NULL}
    /\ exits \in SUBSET Procs
    /\ kills \in Nat
    /\ stops \in Nat

ApiTypeOK ==
    /\ request \in [Requests -> [op : Ops \cup {"none"}, run : Runs \cup {NULL}]]
    /\ requested \in Nat

\* The type invariant: a mistyped status, a token that is no token, a null run
\* where an execution is under way would show here.
TypeOK == RowTypeOK /\ WorkerTypeOK /\ ServerTypeOK /\ ApiTypeOK

\* Of all the executions that believe they work on a run, in all the processes,
\* the ownership condition lets the writes of one through at most: a worker that
\* survived its server cannot work on a run beside the worker that replaced it.
OneWriter ==
    \A e, f \in Execs :
        /\ Executing(e) /\ Executing(f) /\ exec[e].run = exec[f].run
        /\ OwnsRow(e[1], exec[e].run, exec[e].token)
        /\ OwnsRow(f[1], exec[f].run, exec[f].token)
        => e = f

\* The process's one ownership record is the claim of this execution, and so is the
\* claim of the status write it has under way: its writes are guarded by it.
Fenced(e) ==
    /\ active[e[1]] = [run |-> exec[e].run, token |-> exec[e].token]
    /\ exec[e].pc \in {"writing", "failed"} => exec[e].guard = exec[e].token

\* A run with an execution whose ownership record is gone: it writes under another
\* claim or under none.
Unfenced(r) == \E e \in Execs : Executing(e) /\ exec[e].run = r /\ ~Fenced(e)

\* Nothing takes an execution out of its fence but the claim of another runOnce of
\* the same process, which a tick let past while `running` was not set yet: no crash
\* beside it, request, reclaim, lapse of the lease or supervisor does.
FenceLostToOverlap ==
    [][\A e \in Execs :
         Executing(e) /\ Fenced(e) /\ Executing(e)' /\ ~Fenced(e)' =>
             \E f \in Execs \ {e} :
                 f[1] = e[1] /\ exec[f].pc = "claiming" /\ Executing(f)']_vars

\* A run that reached its end stays there, and nothing is executed again, unless
\* an operator asks for it: no worker, restart or recovery reopens a run, save an
\* execution that lost its fence to an overlapping one.
OperatorReopens ==
    [][\A r \in Runs :
         (\/ status[r] \in Terminal /\ status'[r] # status[r]
          \/ status[r] \notin Claimable /\ status'[r] \in Claimable)
         => \/ requested' # requested
            \/ \E q \in Requests : request[q].run = r /\ request'[q] = NoRequest
            \/ Unfenced(r)]_vars

\* A worker that comes late (after the acknowledged cancellation, after the
\* failure its supervisor recorded, after the end) changes nothing any more, with
\* the same exception.
NoLateWrites ==
    [][\A r \in Runs : status[r] \in Terminal /\ ~Unfenced(r) =>
         writer'[r] = writer[r] /\ attempts'[r] = attempts[r]]_vars

\* A run with an unfenced execution, or whose holder counts on from a number that
\* such an execution has changed since.
Disturbed(r) ==
    \/ Unfenced(r)
    \/ \E e \in Execs : /\ Executing(e) /\ exec[e].run = r
                         /\ exec[e].token = token[r] /\ exec[e].attempt # attempts[r]

\* The columns implement the ownership that RunOwnership promises, of each run as
\* long as nothing works on it outside the fence.
Ownership == INSTANCE RunOwnership WITH
    holder <- [r \in Runs |-> IF lease[r] = "live" THEN token[r] ELSE 0],
    issued <- claims,
    stray <- {r \in Runs : Disturbed(r)}
OwnershipSpec == Ownership!Spec

\* A running run does not stay so: its execution ends it, or the exit of its
\* worker does.
RunningEnds == \A r \in Runs : status[r] = "RUNNING" ~> status[r] # "RUNNING"

\* A pause or a cancellation that finds an execution at work gets its answer.
HeldRequestEnds ==
    \A r \in Runs, s \in {"PAUSING", "CANCELLING"} :
        /\ status[r] = s
        /\ \E e \in Execs : /\ Executing(e) /\ exec[e].run = r
                            /\ OwnsRow(e[1], r, exec[e].token)
        ~> status[r] # s

=============================================================================
