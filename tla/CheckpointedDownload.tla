------------------------ MODULE CheckpointedDownload ------------------------
(***************************************************************************)
(* What the checkpoints of the two download workers promise: a task, once  *)
(* accepted, owes the minutes that the exchange has of it; its checkpoint  *)
(* moves forward only, in a write of its own, and behind it everything     *)
(* owed has been stored by writes that came before.  A worker that starts  *)
(* again at the checkpoint of a task therefore skips nothing it owes.      *)
(* BackfillJobs and GapRepair are the programs that keep this promise.     *)
(***************************************************************************)
EXTENDS Integers

CONSTANT Tasks

VARIABLES
    stored,     \* the minutes in the table of candles
    owed,       \* the minutes each task has to store
    checkpoint  \* the last minute each task has dealt with, 0 for none

vars == <<stored, owed, checkpoint>>

Init ==
    /\ stored = {}
    /\ owed = [t \in Tasks |-> {}]
    /\ checkpoint = [t \in Tasks |-> 0]

\* New tasks, which have dealt with nothing yet; what the others owe stays.
Accept(new) ==
    /\ \A t \in new : owed[t] = {} /\ checkpoint[t] = 0
    /\ owed' = [t \in Tasks |-> IF t \in new THEN owed'[t] ELSE owed[t]]
    /\ UNCHANGED <<stored, checkpoint>>

\* Candles are committed, of whatever task or of none; none is ever lost.
Store ==
    /\ stored \subseteq stored'
    /\ UNCHANGED <<owed, checkpoint>>

\* A task's checkpoint moves on, over minutes whose candles are committed.
Advance(t) ==
    /\ checkpoint' = [checkpoint EXCEPT ![t] = checkpoint'[t]]
    /\ checkpoint[t] < checkpoint'[t]
    /\ \A m \in owed[t] : m <= checkpoint'[t] => m \in stored
    /\ UNCHANGED <<stored, owed>>

Next ==
    \/ \E new \in SUBSET Tasks : Accept(new)
    \/ Store
    \/ \E t \in Tasks : Advance(t)

Spec == Init /\ [][Next]_vars

=============================================================================
