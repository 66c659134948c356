-------------------------- MODULE MCVerificationJobs --------------------------
(* Instances of VerificationJobs. *)
EXTENDS VerificationJobs, TLC

\* One configuration is enough to promote, to publish twice and to clone.
OneHash == {1}

\* The outcome and the lifecycles that the guards tell from the others.
TwoVerdicts   == {"VERIFIED", "VERIFICATION_FAILED"}
TwoLifecycles == {"DRAFT", "RETIRED"}

\* Callers and calls of runOnce are interchangeable; for safety only.
Interchangeable == Permutations(Clients) \cup Permutations(Slots)

=============================================================================
