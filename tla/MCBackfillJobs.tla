--------------------------- MODULE MCBackfillJobs ---------------------------
(* Instances of BackfillJobs. *)
EXTENDS BackfillJobs

\* The exchange has every minute, or none of the first page.
SomeListed == {Minutes, {LastMinute}}

\* A job until now, and one whose end is the open minute or has just closed.
OpenEnds == {0, LastMinute}

=============================================================================
