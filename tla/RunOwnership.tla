---------------------------- MODULE RunOwnership ----------------------------
(***************************************************************************)
(* What the claim, lease and token columns of a research run promise: a    *)
(* claim is issued once, at most one claim holds a run, only the holder's  *)
(* writes reach the run, and a claim that lost a run never gets it back.   *)
(* ResearchRuns is the program that keeps this promise, except that a new  *)
(* claim may take the ownership record of an execution of another one: the *)
(* run such an execution works on is stray until it stops.                 *)
(***************************************************************************)
EXTENDS Naturals

CONSTANT Runs

VARIABLES
    holder,    \* the claim that holds each run, 0 when nobody does
    writer,    \* the claim whose write last reached each run
    attempts,  \* the work recorded on each run: its generation attempts
    issued,    \* how many claims were issued so far
    stray      \* the runs that something works on outside the ownership

vars == <<holder, writer, attempts, issued, stray>>

TypeOK ==
    /\ holder \in [Runs -> Nat]
    /\ writer \in [Runs -> Nat]
    /\ attempts \in [Runs -> Nat]
    /\ issued \in Nat
    /\ stray \subseteq Runs

Init ==
    /\ holder = [r \in Runs |-> 0]
    /\ writer = [r \in Runs |-> 0]
    /\ attempts = [r \in Runs |-> 0]
    /\ issued = 0
    /\ stray = {}

\* A fresh claim takes the run over, from nobody or from a holder that lost it.
\* Only a claim may let what works on other runs, or on this one, go astray.
Grant(r) ==
    /\ issued' = issued + 1
    /\ holder' = [holder EXCEPT ![r] = issued + 1]
    /\ writer' = [writer EXCEPT ![r] = issued + 1]
    /\ stray' \in SUBSET Runs
    /\ UNCHANGED attempts

\* The holder writes to its run, and may let it go with the same write.
Write(r) ==
    /\ holder[r] # 0 /\ r \notin stray
    /\ writer' = [writer EXCEPT ![r] = holder[r]]
    /\ attempts' = [attempts EXCEPT ![r] = attempts'[r]]
    /\ attempts'[r] \in Nat /\ attempts'[r] >= attempts[r]
    /\ \E h \in {0, holder[r]} : holder' = [holder EXCEPT ![r] = h]
    /\ stray' \subseteq stray
    /\ UNCHANGED issued

\* To a stray run any claim that was issued may write, but none gets hold of it.
WriteAstray(r) ==
    /\ r \in stray
    /\ writer' = [writer EXCEPT ![r] = writer'[r]] /\ writer'[r] \in 1 .. issued
    /\ attempts' = [attempts EXCEPT ![r] = attempts'[r]] /\ attempts'[r] \in Nat
    /\ \E h \in {0, holder[r]} : holder' = [holder EXCEPT ![r] = h]
    /\ stray' \subseteq stray
    /\ UNCHANGED issued

\* Runs are taken from their holders: expiry, an operator, a supervisor.
Revoke(S) ==
    /\ holder' = [r \in Runs |-> IF r \in S THEN 0 ELSE holder[r]]
    /\ stray' \subseteq stray
    /\ UNCHANGED <<writer, attempts, issued>>

Next ==
    \/ \E r \in Runs : Grant(r) \/ Write(r) \/ WriteAstray(r)
    \/ \E S \in SUBSET Runs : Revoke(S)

Spec == Init /\ [][Next]_vars

=============================================================================
