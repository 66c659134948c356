---------------------------- MODULE SQLiteWriter ----------------------------
(***************************************************************************)
(* The writer of one process: every change of the database is an operation *)
(* given to SQLiteWriter.enqueue, which serves one operation at a time,    *)
(* the most urgent first and equally urgent ones in the order they were    *)
(* asked for, and retries an operation that meets another process's lock.  *)
(*                                                                         *)
(* The array kept sorted by priority and sequence number is the set of the *)
(* waiting operations with the order Before on it.  JavaScript runs a      *)
(* synchronous stretch of code without interruption, so a call to enqueue  *)
(* on a writer that is not running makes its first attempt in that call.   *)
(***************************************************************************)
EXTENDS Naturals

CONSTANTS
    Items,     \* the operations that may be asked for, each once
    Priority,  \* the priority each is asked with; 1 is the most urgent
    Awaits,    \* the operations whose success the caller awaits before it asks
    NULL       \* no operation

ASSUME ItemsAssumption ==
    /\ NULL \notin Items
    /\ Priority \in [Items -> Nat]
    /\ Awaits \in [Items -> SUBSET Items]

VARIABLES
    queue,     \* operations asked for and not taken up yet
    number,    \* the sequence number each operation was given
    sequence,  \* the next sequence number
    running,   \* whether a call of drain is under way
    pc,        \* where that call is: idle, waiting to retry, or yielding
    serving,   \* the operation it will retry
    retries,   \* retries of that operation so far
    promise,   \* the promise each caller holds
    commits,   \* how often the effect of each operation was committed
    older,     \* history: the operations asked for before each operation
    up         \* whether the process is alive

queueVars == <<queue, number, sequence, older>>
drainVars == <<running, pc, serving, retries, promise, commits>>
vars      == <<queueVars, drainVars, up>>

\* SQLITE_BUSY is retried while fewer retries than this were made.
MaxRetries == 3

TypeOK ==
    /\ queue \subseteq Items
    /\ number \in [Items -> Nat] /\ sequence \in Nat
    /\ running \in BOOLEAN
    /\ pc \in {"idle", "delay", "yield"}
    /\ serving \in Items \cup {NULL}
    /\ retries \in 0 .. MaxRetries
    /\ promise \in [Items -> {"none", "pending", "resolved", "rejected"}]
    /\ commits \in [Items -> Nat]
    /\ older \in [Items -> SUBSET Items]
    /\ up \in BOOLEAN

Init ==
    /\ queue = {} /\ sequence = 0
    /\ number = [i \in Items |-> 0]
    /\ running = FALSE /\ pc = "idle" /\ serving = NULL /\ retries = 0
    /\ promise = [i \in Items |-> "none"]
    /\ commits = [i \in Items |-> 0]
    /\ older = [i \in Items |-> {}]
    /\ up = TRUE

\* The comparator of queue.sort, with the sequence numbers n.
\* ByPriority: a slip, the priority alone.
ByPriority(i, j, n) == Priority[i] < Priority[j]

Before(i, j, n) ==
    \/ Priority[i] < Priority[j]
    \/ Priority[i] = Priority[j] /\ n[i] < n[j]

\* queue.shift(): nothing else in the sorted array comes before it.
IsHead(i, q, n) == i \in q /\ \A j \in q : ~Before(j, i, n)

\* The caller has seen every operation it awaits succeed: one that failed
\* throws, and the caller never comes to ask for i.
CallerReady(i) == \A j \in Awaits[i] : promise[j] = "resolved"

\* The operation runs to its end and its transaction commits; p is the
\* promises as this step found or made them.
\* SucceedsAgain: a slip, the retry loop is not left.
SucceedsAgain(i, p) ==
    /\ commits' = [commits EXCEPT ![i] = @ + 1]
    /\ promise' = [p EXCEPT ![i] = "resolved"]
    /\ serving' = i /\ pc' = "delay"
    /\ UNCHANGED retries

Succeeds(i, p) ==
    /\ commits' = [commits EXCEPT ![i] = @ + 1]
    /\ promise' = [p EXCEPT ![i] = "resolved"]
    /\ serving' = NULL /\ retries' = 0 /\ pc' = "yield"

\* SQLITE_BUSY with retries left: the transaction is rolled back, and the
\* same operation is tried again after a delay.
\* OneMoreDelay: a slip, <= for <.
OneMoreDelay(i, r, p) ==
    /\ r <= MaxRetries
    /\ retries' = r + 1
    /\ serving' = i /\ pc' = "delay"
    /\ promise' = p
    /\ UNCHANGED commits

Delays(i, r, p) ==
    /\ r < MaxRetries
    /\ retries' = r + 1
    /\ serving' = i /\ pc' = "delay"
    /\ promise' = p
    /\ UNCHANGED commits

\* Any other error, a stale snapshot of another process's commit included,
\* or SQLITE_BUSY once more: rolled back and reported.
Fails(i, p) ==
    /\ promise' = [p EXCEPT ![i] = "rejected"]
    /\ serving' = NULL /\ retries' = 0 /\ pc' = "yield"
    /\ UNCHANGED commits

\* One attempt at i after r retries.
Attempt(i, r, p) ==
    /\ running' = TRUE
    /\ Succeeds(i, p) \/ Delays(i, r, p) \/ Fails(i, p)

\* enqueue and, when no drain is under way, the start of drain.
Enqueue(i) ==
    /\ up /\ promise[i] = "none"
    /\ CallerReady(i)
    /\ number' = [number EXCEPT ![i] = sequence]
    /\ sequence' = sequence + 1
    /\ older' = [older EXCEPT ![i] = {j \in Items : promise[j] # "none"}]
    /\ \/ /\ running
          /\ queue' = queue \cup {i}
          /\ promise' = [promise EXCEPT ![i] = "pending"]
          /\ UNCHANGED <<running, pc, serving, retries, commits>>
       \/ /\ ~running
          /\ \E h \in queue \cup {i} :
                /\ IsHead(h, queue \cup {i}, number')
                /\ queue' = (queue \cup {i}) \ {h}
                /\ Attempt(h, 0, [promise EXCEPT ![i] = "pending"])
    /\ UNCHANGED up

\* After a delay the operation is attempted again.
Retry ==
    /\ up /\ pc = "delay"
    /\ Attempt(serving, retries, promise)
    /\ UNCHANGED <<queueVars, up>>

\* After setImmediate the next operation of the queue is taken up ...
ServeNext ==
    /\ up /\ pc = "yield"
    /\ \E h \in queue :
          /\ IsHead(h, queue, number)
          /\ queue' = queue \ {h}
          /\ Attempt(h, 0, promise)
    /\ UNCHANGED <<number, sequence, older, up>>

\* ... or, when there is none, drain returns.
\* LeaveRunning: a slip, the flag is not reset.
LeaveRunning ==
    /\ up /\ pc = "yield" /\ queue = {}
    /\ pc' = "idle"
    /\ UNCHANGED <<queueVars, running, serving, retries, promise, commits, up>>

FinishDrain ==
    /\ up /\ pc = "yield" /\ queue = {}
    /\ running' = FALSE /\ pc' = "idle"
    /\ UNCHANGED <<queueVars, serving, retries, promise, commits, up>>

\* shutdown closes the connection without draining the queue and exits; a
\* crash does no more than that either.
Stop ==
    /\ up
    /\ up' = FALSE
    /\ UNCHANGED <<queueVars, drainVars>>

Drain == Retry \/ ServeNext \/ FinishDrain

Next ==
    \/ \E i \in Items : Enqueue(i)
    \/ Drain
    \/ Stop

\* The event loop runs its timers and immediates while the process is alive.
Spec == Init /\ [][Next]_vars /\ WF_vars(Drain)

-----------------------------------------------------------------------------

\* Every caller that waits is known to the drain: its operation is queued or
\* being retried, never both, and a drain is under way that will come to it.
\* A lost wake-up, or a second drain beside the first, would break this.
NothingForgotten ==
    /\ {i \in Items : promise[i] = "pending"} = queue \cup ({serving} \ {NULL})
    /\ serving \notin queue
    /\ queue # {} => running
    /\ running <=> pc # "idle"
    /\ serving # NULL <=> pc = "delay"

\* A promise tells the truth: resolved means that the effect was committed
\* exactly once, however many attempts it took, and anything else that it
\* was not committed at all.
PromiseMatchesEffect ==
    \A i \in Items : commits[i] = IF promise[i] = "resolved" THEN 1 ELSE 0

\* Whatever the priorities, and wherever the process stops, no operation is
\* in the database without those its caller awaited: the checkpoint of a
\* backfill, more urgent than its candles, is never there before them.
AwaitedFirst ==
    \A i \in Items : commits[i] > 0 => \A j \in Awaits[i] : commits[j] > 0

\* i is taken up in this step.
TakenUp(i) ==
    /\ i # serving /\ i \notin queue'
    /\ promise[i] \in {"none", "pending"} /\ promise'[i] # "none"

\* An operation is taken up only when no more urgent one waits, and none as
\* urgent that was asked for before it: the stable priority queue the
\* storage design promises.
ServesMostUrgent ==
    [][\A i \in Items : TakenUp(i) =>
          \A j \in queue \ {i} :
              /\ Priority[i] <= Priority[j]
              /\ Priority[i] = Priority[j] => j \notin older'[i]]_vars

\* While the process lives, every operation asked for ends: it is committed
\* or its caller is told that it failed.
EventuallySettled ==
    \A i \in Items : promise[i] = "pending" ~> (promise[i] # "pending" \/ ~up)

=============================================================================
