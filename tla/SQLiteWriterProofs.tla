------------------------- MODULE SQLiteWriterProofs -------------------------
(* What SQLiteWriter keeps for every set of operations, every priority and  *)
(* every pattern of awaits.                                                 *)
EXTENDS SQLiteWriter, TLAPS

\* An operation that was asked for had everything its caller awaits.
AwaitInv ==
    \A i \in Items : promise[i] # "none" =>
        \A j \in Awaits[i] : promise[j] = "resolved"

\* Sequence numbers follow the order of asking.
OrderInv ==
    /\ \A i \in Items : promise[i] # "none" => number[i] < sequence
    /\ \A i \in Items : \A j \in older[i] : number[j] < number[i]
    /\ \A i \in Items : older[i] # {} => promise[i] # "none"
    /\ \A i \in Items : \A j \in older[i] : promise[j] # "none"

IInv ==
    /\ TypeOK /\ NothingForgotten /\ PromiseMatchesEffect
    /\ AwaitInv /\ OrderInv

\* The attempt at h leaves its promise at v, the other promises as in p.
Outcome(h, p, v) ==
    /\ promise' = [p EXCEPT ![h] = v]
    /\ v = "pending" <=> serving' = h
    /\ commits' = [commits EXCEPT ![h] = IF v = "resolved" THEN @ + 1 ELSE @]

\* What an attempt at h does, whatever its outcome.
AttemptEffect(h, p) ==
    /\ running' = TRUE
    /\ pc' \in {"delay", "yield"}
    /\ pc' = "delay" <=> serving' = h
    /\ serving' \in {h, NULL}
    /\ retries' \in 0 .. MaxRetries
    /\ \E v \in {"pending", "resolved", "rejected"} : Outcome(h, p, v)

\* The three outcomes of an attempt have the effect above.
LEMMA AttemptStep ==
    ASSUME NEW h \in Items, NEW r \in 0 .. MaxRetries, NEW p, IInv,
           p \in [Items -> {"none", "pending", "resolved", "rejected"}],
           p[h] = "pending", Attempt(h, r, p)
    PROVE  AttemptEffect(h, p)
<1> USE ItemsAssumption DEF MaxRetries
<1>0. h # NULL
  OBVIOUS
<1>1. CASE Succeeds(h, p)
  <2>1. Outcome(h, p, "resolved")
    BY <1>0, <1>1 DEF Succeeds, Outcome
  <2>2. QED
    BY <1>0, <1>1, <2>1 DEF Attempt, AttemptEffect, Succeeds
<1>2. CASE Delays(h, r, p)
  <2>1. Outcome(h, p, "pending")
    BY <1>2 DEF Delays, Outcome, IInv, TypeOK
  <2>2. retries' \in 0 .. MaxRetries
    BY <1>2 DEF Delays
  <2>3. QED
    BY <1>0, <1>2, <2>1, <2>2 DEF Attempt, AttemptEffect, Delays
<1>3. CASE Fails(h, p)
  <2>1. Outcome(h, p, "rejected")
    BY <1>0, <1>3 DEF Fails, Outcome, IInv, TypeOK
  <2>2. QED
    BY <1>0, <1>3, <2>1 DEF Attempt, AttemptEffect, Fails
<1>4. QED
  BY <1>1, <1>2, <1>3 DEF Attempt

\* Asking for an operation: its number, its history and its promise.
Asked(i) ==
    /\ promise[i] = "none"
    /\ \A j \in Awaits[i] : promise[j] = "resolved"
    /\ number' = [number EXCEPT ![i] = sequence]
    /\ sequence' = sequence + 1
    /\ older' = [older EXCEPT ![i] = {j \in Items : promise[j] # "none"}]

\* A writer that is not running serves an operation at once.
LEMMA EnqueueShape ==
    ASSUME NEW i \in Items, IInv, Enqueue(i)
    PROVE  /\ Asked(i) /\ UNCHANGED up
           /\ \/ /\ running
                 /\ queue' = queue \cup {i}
                 /\ promise' = [promise EXCEPT ![i] = "pending"]
                 /\ UNCHANGED <<running, pc, serving, retries, commits>>
              \/ /\ queue = {} /\ queue' = {} /\ serving = NULL
                 /\ AttemptEffect(i, [promise EXCEPT ![i] = "pending"])
<1>1. Asked(i) /\ UNCHANGED up
  BY DEF Enqueue, Asked, CallerReady
<1>2. CASE running
  BY <1>1, <1>2 DEF Enqueue
<1>3. CASE ~running
  <2>1. queue = {} /\ serving = NULL
    BY <1>3 DEF IInv, NothingForgotten, TypeOK
  <2>2. PICK h \in queue \cup {i} :
           /\ queue' = (queue \cup {i}) \ {h}
           /\ Attempt(h, 0, [promise EXCEPT ![i] = "pending"])
    BY <1>3 DEF Enqueue
  <2>3. h = i /\ queue' = {}
    BY <2>1, <2>2
  <2> DEFINE p == [promise EXCEPT ![i] = "pending"]
  <2>4. /\ p \in [Items -> {"none", "pending", "resolved", "rejected"}]
        /\ p[i] = "pending"
    BY DEF IInv, TypeOK
  <2>5. 0 \in 0 .. MaxRetries
    BY DEF MaxRetries
  <2>6. AttemptEffect(i, p)
    <3> HIDE DEF p
    <3>1. Attempt(i, 0, p)
      BY <2>2, <2>3 DEF p
    <3>2. QED
      BY <2>4, <2>5, <3>1, AttemptStep
  <2>7. QED
    BY <1>1, <2>1, <2>3, <2>6
<1>4. QED
  BY <1>2, <1>3

\* Taking up h with the promises p, in a writer with nothing else in service,
\* keeps what the drain, the promises and the commits have to do with
\* each other.
LEMMA ServiceStep ==
    ASSUME NEW h \in Items, NEW p, TypeOK,
           p \in [Items -> {"none", "pending", "resolved", "rejected"}],
           {i \in Items : p[i] = "pending"} = queue' \cup {h},
           h \notin queue', NULL \notin queue',
           commits[h] = 0,
           \A i \in Items : commits[i] = IF p[i] = "resolved" THEN 1 ELSE 0,
           AttemptEffect(h, p)
    PROVE  /\ NothingForgotten' /\ PromiseMatchesEffect'
           /\ promise' \in [Items -> {"none", "pending", "resolved", "rejected"}]
           /\ commits' \in [Items -> Nat]
           /\ promise'[h] \in {"pending", "resolved", "rejected"}
           /\ \A i \in Items \ {h} : promise'[i] = p[i]
<1> USE ItemsAssumption
<1>1. PICK v \in {"pending", "resolved", "rejected"} : Outcome(h, p, v)
  BY DEF AttemptEffect
<1>2. /\ promise' = [p EXCEPT ![h] = v]
      /\ v = "pending" <=> serving' = h
  BY <1>1 DEF Outcome
<1>3. commits' = [commits EXCEPT ![h] = IF v = "resolved" THEN 1 ELSE 0]
  BY <1>1 DEF Outcome, TypeOK
<1>4. /\ promise' \in [Items -> {"none", "pending", "resolved", "rejected"}]
      /\ promise'[h] = v
      /\ \A i \in Items \ {h} : promise'[i] = p[i]
  BY <1>2
<1>5. commits' \in [Items -> Nat]
  BY <1>3 DEF TypeOK
<1>6. PromiseMatchesEffect'
  BY <1>3, <1>4 DEF PromiseMatchesEffect, TypeOK
<1>7. NothingForgotten'
  <2>1. serving' \in {h, NULL} /\ h # NULL /\ serving' \notin queue'
    BY DEF AttemptEffect
  <2>2. (serving' # NULL <=> pc' = "delay") /\ running' = TRUE /\ pc' # "idle"
    BY <2>1 DEF AttemptEffect
  <2>3. {i \in Items : promise'[i] = "pending"} = queue' \cup ({serving'} \ {NULL})
    <3>1. CASE v = "pending"
      <4>1. \A i \in Items : promise'[i] = "pending" <=> p[i] = "pending"
        BY <1>4, <3>1
      <4>2. serving' = h
        BY <1>2, <3>1
      <4>3. QED
        BY <2>1, <4>1, <4>2
    <3>2. CASE v # "pending"
      <4>1. \A i \in Items : promise'[i] = "pending" <=> p[i] = "pending" /\ i # h
        BY <1>4, <3>2
      <4>2. serving' = NULL
        BY <1>2, <2>1, <3>2
      <4>3. QED
        BY <4>1, <4>2
    <3>3. QED
      BY <3>1, <3>2
  <2>4. QED
    BY <2>1, <2>2, <2>3 DEF NothingForgotten
<1>8. QED
  BY <1>1, <1>4, <1>5, <1>6, <1>7

\* What the promises keep while they only ever move on.
Onward ==
    \A i \in Items : /\ promise[i] # "none" => promise'[i] # "none"
                     /\ promise[i] = "resolved" => promise'[i] = "resolved"

\* A step that asks for nothing keeps the orders and the awaited operations.
LEMMA SettlingStep ==
    ASSUME IInv, Onward, UNCHANGED <<number, sequence, older>>,
           \A i \in Items : promise[i] = "none" => promise'[i] = "none"
    PROVE  AwaitInv' /\ OrderInv'
<1>1. AwaitInv'
  BY ItemsAssumption DEF IInv, AwaitInv, Onward
<1>2. OrderInv'
  <2> USE DEF IInv, OrderInv, Onward, TypeOK
  <2>1. \A i \in Items : promise'[i] # "none" => number'[i] < sequence'
    OBVIOUS
  <2>2. \A i \in Items : \A j \in older'[i] : number'[j] < number'[i]
    OBVIOUS
  <2>3. \A i \in Items : older'[i] # {} => promise'[i] # "none"
    OBVIOUS
  <2>4. \A i \in Items : \A j \in older'[i] : promise'[j] # "none"
    OBVIOUS
  <2>5. QED
    BY <2>1, <2>2, <2>3, <2>4
<1>3. QED
  BY <1>1, <1>2

\* Asking for i keeps them too.
LEMMA AskingStep ==
    ASSUME NEW i \in Items, IInv, Onward, Asked(i), promise'[i] # "none",
           \A j \in Items \ {i} : promise[j] = "none" => promise'[j] = "none"
    PROVE  AwaitInv' /\ OrderInv'
<1>1. AwaitInv'
  BY ItemsAssumption DEF IInv, AwaitInv, Onward, Asked
<1>2. OrderInv'
  <2> USE DEF IInv, OrderInv, Onward, TypeOK, Asked
  <2>1. \A j \in Items : promise'[j] # "none" => number'[j] < sequence'
    OBVIOUS
  <2>2. ASSUME NEW j \in Items, NEW k \in older'[j]
        PROVE  number'[k] < number'[j]
    <3>1. CASE j = i
      <4>1. k \in Items /\ promise[k] # "none" /\ k # i
        BY <3>1
      <4>2. QED
        BY <3>1, <4>1
    <3>2. CASE j # i
      <4>1. k \in older[j] /\ k \in Items /\ k # i
        BY <3>2
      <4>2. QED
        BY <3>2, <4>1
    <3>3. QED
      BY <3>1, <3>2
  <2>3. \A j \in Items : older'[j] # {} => promise'[j] # "none"
    OBVIOUS
  <2>4. ASSUME NEW j \in Items, NEW k \in older'[j]
        PROVE  promise'[k] # "none"
    <3>1. k \in Items /\ promise[k] # "none"
      BY <2>4
    <3>2. QED
      BY <3>1
  <2>5. QED
    BY <2>1, <2>2, <2>3, <2>4
<1>3. QED
  BY <1>1, <1>2

\* The types of what only asking changes.
AskedTypes ==
    /\ number' \in [Items -> Nat] /\ sequence' \in Nat
    /\ older' \in [Items -> SUBSET Items]

\* Every step keeps the inductive invariant.
LEMMA InvStep == IInv /\ [Next]_vars => IInv'
<1> SUFFICES ASSUME IInv, [Next]_vars PROVE IInv'
  OBVIOUS
<1> USE ItemsAssumption
<1>0. TypeOK /\ NothingForgotten /\ PromiseMatchesEffect
  BY DEF IInv
<1>1. ASSUME NEW i \in Items, Enqueue(i) PROVE IInv'
  <2> DEFINE p == [promise EXCEPT ![i] = "pending"]
  <2>1. Asked(i) /\ up' = up
    BY <1>1, EnqueueShape
  <2>2. AskedTypes
    BY <1>0, <2>1 DEF Asked, AskedTypes, TypeOK
  <2>3. /\ p \in [Items -> {"none", "pending", "resolved", "rejected"}]
        /\ p[i] = "pending" /\ promise[i] = "none" /\ commits[i] = 0
        /\ \A j \in Items \ {i} : p[j] = promise[j]
    BY <1>0, <2>1 DEF Asked, TypeOK, PromiseMatchesEffect
  <2>4. i \notin queue /\ i # serving
    BY <1>0, <2>3 DEF NothingForgotten, TypeOK
  <2>5. CASE /\ running
             /\ queue' = queue \cup {i}
             /\ promise' = p
             /\ UNCHANGED <<running, pc, serving, retries, commits>>
    <3>1. TypeOK'
      BY <1>0, <2>1, <2>2, <2>3, <2>5 DEF TypeOK, AskedTypes
    <3>2. NothingForgotten'
      BY <1>0, <2>3, <2>4, <2>5 DEF NothingForgotten, TypeOK
    <3>3. PromiseMatchesEffect'
      BY <1>0, <2>3, <2>5 DEF PromiseMatchesEffect, TypeOK
    <3>4. AwaitInv' /\ OrderInv'
      BY <2>1, <2>3, <2>5, AskingStep DEF Onward
    <3>5. QED
      BY <3>1, <3>2, <3>3, <3>4 DEF IInv
  <2>6. CASE /\ queue = {} /\ queue' = {} /\ serving = NULL
             /\ AttemptEffect(i, p)
    <3>1. {j \in Items : p[j] = "pending"} = queue' \cup {i}
      BY <1>0, <2>3, <2>6 DEF NothingForgotten
    <3>2. \A j \in Items : commits[j] = IF p[j] = "resolved" THEN 1 ELSE 0
      BY <1>0, <2>3 DEF PromiseMatchesEffect
    <3>3. /\ NothingForgotten' /\ PromiseMatchesEffect'
          /\ promise' \in [Items -> {"none", "pending", "resolved", "rejected"}]
          /\ commits' \in [Items -> Nat]
          /\ promise'[i] \in {"pending", "resolved", "rejected"}
          /\ \A j \in Items \ {i} : promise'[j] = p[j]
      <4> HIDE DEF p
      <4>1. QED
        BY <1>0, <2>3, <2>6, <3>1, <3>2, ServiceStep
    <3>4. TypeOK'
      BY <1>0, <2>1, <2>2, <2>6, <3>3 DEF TypeOK, AskedTypes, AttemptEffect
    <3>5. AwaitInv' /\ OrderInv'
      <4>1. \A j \in Items \ {i} : promise'[j] = promise[j]
        BY <2>3, <3>3
      <4>2. promise'[i] # "none" /\ promise[i] = "none"
        BY <2>3, <3>3
      <4>3. QED
        BY <2>1, <4>1, <4>2, AskingStep DEF Onward
    <3>6. QED
      BY <3>3, <3>4, <3>5 DEF IInv
  <2>7. QED
    BY <1>1, <2>5, <2>6, EnqueueShape
<1>2. ASSUME Retry PROVE IInv'
  <2>1. /\ serving \in Items /\ serving # NULL /\ serving \notin queue
        /\ promise[serving] = "pending" /\ commits[serving] = 0
    BY <1>0, <1>2 DEF Retry, NothingForgotten, PromiseMatchesEffect, TypeOK
  <2>2. UNCHANGED <<queue, number, sequence, older, up>>
    BY <1>2 DEF Retry, queueVars
  <2>3. AttemptEffect(serving, promise)
    BY <1>0, <1>2, <2>1, AttemptStep DEF Retry, TypeOK
  <2>4. {i \in Items : promise[i] = "pending"} = queue' \cup {serving}
    BY <1>0, <2>1, <2>2 DEF NothingForgotten
  <2>5. /\ NothingForgotten' /\ PromiseMatchesEffect'
        /\ promise' \in [Items -> {"none", "pending", "resolved", "rejected"}]
        /\ commits' \in [Items -> Nat]
        /\ promise'[serving] \in {"pending", "resolved", "rejected"}
        /\ \A i \in Items \ {serving} : promise'[i] = promise[i]
    <3>1. /\ promise \in [Items -> {"none", "pending", "resolved", "rejected"}]
          /\ NULL \notin queue'
          /\ \A i \in Items : commits[i] = IF promise[i] = "resolved" THEN 1 ELSE 0
      BY <1>0, <2>2 DEF TypeOK, PromiseMatchesEffect
    <3>2. QED
      BY <1>0, <2>1, <2>2, <2>3, <2>4, <3>1, ServiceStep
  <2>6. TypeOK'
    BY <1>0, <2>2, <2>3, <2>5, <2>1 DEF TypeOK, AttemptEffect
  <2>7. AwaitInv' /\ OrderInv'
    BY <2>1, <2>2, <2>5, SettlingStep DEF Onward
  <2>8. QED
    BY <2>5, <2>6, <2>7 DEF IInv
<1>3. ASSUME ServeNext PROVE IInv'
  <2>1. PICK h \in queue : queue' = queue \ {h} /\ Attempt(h, 0, promise)
    BY <1>3 DEF ServeNext
  <2>2. UNCHANGED <<number, sequence, older, up>>
    BY <1>3 DEF ServeNext
  <2>3. /\ h \in Items /\ promise[h] = "pending" /\ commits[h] = 0
        /\ serving = NULL
    BY <1>0, <1>3 DEF ServeNext, NothingForgotten, PromiseMatchesEffect, TypeOK
  <2>4. AttemptEffect(h, promise)
    BY <1>0, <2>1, <2>3, AttemptStep DEF TypeOK, MaxRetries
  <2>5. {i \in Items : promise[i] = "pending"} = queue' \cup {h}
    BY <1>0, <2>1, <2>3 DEF NothingForgotten
  <2>6. /\ NothingForgotten' /\ PromiseMatchesEffect'
        /\ promise' \in [Items -> {"none", "pending", "resolved", "rejected"}]
        /\ commits' \in [Items -> Nat]
        /\ promise'[h] \in {"pending", "resolved", "rejected"}
        /\ \A i \in Items \ {h} : promise'[i] = promise[i]
    <3>1. /\ promise \in [Items -> {"none", "pending", "resolved", "rejected"}]
          /\ NULL \notin queue' /\ h \notin queue'
          /\ \A i \in Items : commits[i] = IF promise[i] = "resolved" THEN 1 ELSE 0
      BY <1>0, <2>1 DEF TypeOK, PromiseMatchesEffect
    <3>2. QED
      BY <1>0, <2>3, <2>4, <2>5, <3>1, ServiceStep
  <2>7. TypeOK'
    BY <1>0, <2>1, <2>2, <2>3, <2>4, <2>6 DEF TypeOK, AttemptEffect
  <2>8. AwaitInv' /\ OrderInv'
    BY <2>2, <2>3, <2>6, SettlingStep DEF Onward
  <2>9. QED
    BY <2>6, <2>7, <2>8 DEF IInv
<1>4. ASSUME FinishDrain PROVE IInv'
  BY <1>4 DEF FinishDrain, queueVars, IInv, TypeOK, NothingForgotten,
              PromiseMatchesEffect, AwaitInv, OrderInv
<1>5. ASSUME Stop PROVE IInv'
  BY <1>5 DEF Stop, queueVars, drainVars, IInv, TypeOK, NothingForgotten,
              PromiseMatchesEffect, AwaitInv, OrderInv
<1>6. ASSUME UNCHANGED vars PROVE IInv'
  BY <1>6 DEF vars, queueVars, drainVars, IInv, TypeOK, NothingForgotten,
              PromiseMatchesEffect, AwaitInv, OrderInv
<1>7. QED
  BY <1>1, <1>2, <1>3, <1>4, <1>5, <1>6 DEF Next, Drain

\* The invariant holds of a writer that was not asked for anything.
LEMMA InvInit == Init => IInv
<1> SUFFICES ASSUME Init PROVE IInv
  OBVIOUS
<1> USE DEF Init
<1>1. TypeOK
  <2>1. /\ number \in [Items -> Nat]
        /\ promise \in [Items -> {"none", "pending", "resolved", "rejected"}]
        /\ commits \in [Items -> Nat]
        /\ older \in [Items -> SUBSET Items]
    OBVIOUS
  <2>2. queue \subseteq Items /\ sequence \in Nat /\ retries \in 0 .. MaxRetries
    BY DEF MaxRetries
  <2>3. running \in BOOLEAN /\ pc \in {"idle", "delay", "yield"} /\ up \in BOOLEAN
    OBVIOUS
  <2>4. serving \in Items \cup {NULL}
    OBVIOUS
  <2>5. QED
    BY <2>1, <2>2, <2>3, <2>4 DEF TypeOK
<1>2. NothingForgotten
  <2>1. {i \in Items : promise[i] = "pending"} = {}
    OBVIOUS
  <2>2. QED
    BY <2>1 DEF NothingForgotten
<1>3. PromiseMatchesEffect /\ AwaitInv /\ OrderInv
  BY DEF PromiseMatchesEffect, AwaitInv, OrderInv
<1>4. QED
  BY <1>1, <1>2, <1>3 DEF IInv

\* The inductive invariant holds throughout.
THEOREM InvAlways == Spec => []IInv
BY InvInit, InvStep, PTL DEF Spec

\* Type correctness, for any operations, priorities and awaits.
THEOREM TypeCorrect == Spec => []TypeOK
<1>1. IInv => TypeOK
  BY DEF IInv
<1>2. QED
  BY <1>1, InvAlways, PTL

\* No caller is forgotten: what is pending is queued or being retried, and a
\* drain is under way for it.
THEOREM NothingForgottenAlways == Spec => []NothingForgotten
<1>1. IInv => NothingForgotten
  BY DEF IInv
<1>2. QED
  BY <1>1, InvAlways, PTL

\* A resolved promise stands for exactly one committed effect, any other for
\* none, whatever was retried.
THEOREM PromiseMatchesEffectAlways == Spec => []PromiseMatchesEffect
<1>1. IInv => PromiseMatchesEffect
  BY DEF IInv
<1>2. QED
  BY <1>1, InvAlways, PTL

\* Nothing is in the database without what its caller awaited, at whatever
\* point the process stops.
THEOREM AwaitedFirstAlways == Spec => []AwaitedFirst
<1>1. IInv => AwaitedFirst
  BY ItemsAssumption DEF IInv, AwaitInv, PromiseMatchesEffect, AwaitedFirst, TypeOK
<1>2. QED
  BY <1>1, InvAlways, PTL

\* Service is by priority and, among equals, in the order of asking.
THEOREM ServesMostUrgentAlways == Spec => ServesMostUrgent
<1> DEFINE Fair ==
      \A i \in Items : TakenUp(i) =>
          \A j \in queue \ {i} :
              /\ Priority[i] <= Priority[j]
              /\ Priority[i] = Priority[j] => j \notin older'[i]
<1>1. ASSUME IInv, [Next]_vars PROVE Fair
  <2> SUFFICES ASSUME NEW i \in Items, TakenUp(i), NEW j \in queue, j # i
               PROVE  /\ Priority[i] <= Priority[j]
                      /\ Priority[i] = Priority[j] => j \notin older'[i]
    OBVIOUS
  <2> USE ItemsAssumption
  <2>0. TypeOK /\ NothingForgotten /\ OrderInv
    BY <1>1 DEF IInv
  <2>1. promise[i] = "pending" => i \in queue
    BY <2>0 DEF TakenUp, NothingForgotten
  <2>2. ASSUME NEW k \in Items, Enqueue(k) PROVE FALSE
    <3>1. CASE /\ running
               /\ queue' = queue \cup {k}
               /\ promise' = [promise EXCEPT ![k] = "pending"]
      BY <2>0, <2>1, <3>1 DEF TakenUp, TypeOK
    <3>2. CASE queue = {}
      BY <3>2
    <3>3. QED
      BY <1>1, <2>2, <3>1, <3>2, EnqueueShape
  <2>3. CASE Retry
    <3>1. serving \in Items /\ queue' = queue /\ promise[serving] = "pending"
      BY <2>0, <2>3 DEF Retry, queueVars, NothingForgotten, TypeOK
    <3>2. AttemptEffect(serving, promise)
      BY <1>1, <2>0, <2>3, <3>1, AttemptStep DEF Retry, TypeOK
    <3>3. promise'[i] = promise[i]
      BY <2>0, <3>1, <3>2 DEF AttemptEffect, Outcome, TakenUp, TypeOK
    <3>4. QED
      BY <2>1, <3>1, <3>3 DEF TakenUp
  <2>4. CASE ServeNext
    <3>1. PICK h \in queue : /\ IsHead(h, queue, number) /\ queue' = queue \ {h}
                             /\ Attempt(h, 0, promise)
      BY <2>4 DEF ServeNext
    <3>2. older' = older
      BY <2>4 DEF ServeNext
    <3>3. h \in Items /\ promise[h] = "pending"
      BY <2>0 DEF NothingForgotten, TypeOK
    <3>4. AttemptEffect(h, promise)
      BY <1>1, <2>0, <3>1, <3>3, AttemptStep DEF TypeOK, MaxRetries
    <3>5. i = h
      <4>1. SUFFICES ASSUME i # h PROVE FALSE
        OBVIOUS
      <4>2. promise'[i] = promise[i]
        BY <2>0, <3>3, <3>4, <4>1 DEF AttemptEffect, Outcome, TypeOK
      <4>3. QED
        BY <2>1, <3>1, <4>1, <4>2 DEF TakenUp
    <3>6. ~Before(j, i, number)
      BY <3>1, <3>5 DEF IsHead
    <3>7. j \in Items
      BY <2>0 DEF TypeOK
    <3>8. j \in older[i] => number[j] < number[i]
      BY <2>0, <3>7 DEF OrderInv
    <3>9. QED
      BY <2>0, <3>2, <3>6, <3>7, <3>8 DEF Before, TypeOK
  <2>5. CASE FinishDrain
    BY <2>5 DEF FinishDrain
  <2>6. CASE Stop
    BY <2>1, <2>6 DEF Stop, queueVars, drainVars, TakenUp
  <2>7. CASE UNCHANGED vars
    BY <2>1, <2>7 DEF vars, queueVars, drainVars, TakenUp
  <2>8. QED
    BY <1>1, <2>2, <2>3, <2>4, <2>5, <2>6, <2>7 DEF Next, Drain
<1>2. QED
  BY <1>1, InvInit, InvStep, PTL DEF Spec, ServesMostUrgent

=============================================================================
