--------------------------- MODULE MCResearchRuns ---------------------------
(* Small instances of ResearchRuns for TLC. *)
EXTENDS ResearchRuns, TLC

Symmetry == Permutations(Requests) \cup Permutations(Slots)

=============================================================================
