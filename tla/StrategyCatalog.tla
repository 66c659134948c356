--------------------------- MODULE StrategyCatalog ---------------------------
(***************************************************************************)
(* The tables strategies and strategy_versions.  A strategy is an identity *)
(* with a lifecycle; a version is a numbered snapshot of a configuration   *)
(* that is never rewritten, with the status of its last verification.      *)
(* Every operator below is one transaction of the writer.                  *)
(*                                                                         *)
(* Names, descriptions, tags, notes and the audit trail strategy_events    *)
(* are left out; a configuration is the hash of its canonical form.        *)
(***************************************************************************)
EXTENDS Integers, Sequences, FiniteSets

CONSTANTS
    Hashes,         \* the hashes of the configurations in use
    MaxStrategies,  \* bound: strategies ever created
    MaxVersions     \* bound: versions ever published

ASSUME CatalogAssumption ==
    /\ Hashes # {}
    /\ {MaxStrategies, MaxVersions} \subseteq Nat \ {0}

VARIABLES
    strategies,  \* table strategies, in the order of creation
    versions     \* table strategy_versions, in the order of creation

catalog == <<strategies, versions>>

Lifecycles == {"DRAFT", "READY_FOR_DEEP_VERIFICATION", "VERIFIED", "RETIRED"}
Outcomes   == {"VERIFIED", "VERIFICATION_WARNING", "VERIFICATION_FAILED"}
Statuses   == {"READY_FOR_VERIFICATION", "ARCHIVED"} \cup Outcomes
Origins    == {"MANUAL", "STRATEGY_LAB"}
None       == 0

StrategyIds == 1 .. MaxStrategies
VersionIds  == 1 .. MaxVersions

Strategy == [lifecycle : Lifecycles, archived : BOOLEAN, origin : Origins]
Version  == [strategy : StrategyIds, number : VersionIds, hash : Hashes,
             parent : VersionIds \cup {None}, status : Statuses]

CatalogTypeOK ==
    /\ strategies \in Seq(Strategy) /\ Len(strategies) <= MaxStrategies
    /\ versions \in Seq(Version) /\ Len(versions) <= MaxVersions

CatalogInit ==
    /\ strategies = <<[lifecycle |-> "READY_FOR_DEEP_VERIFICATION",
                       archived |-> FALSE, origin |-> "MANUAL"]>>
    /\ versions \in {<<[strategy |-> 1, number |-> 1, hash |-> h, parent |-> None,
                        status |-> "READY_FOR_VERIFICATION"]>> : h \in Hashes}

\* strategies' with a new row; its id is its place.
CreateStrategy(lifecycle, origin) ==
    /\ Len(strategies) < MaxStrategies
    /\ strategies' = Append(strategies,
            [lifecycle |-> lifecycle, archived |-> FALSE, origin |-> origin])
    /\ UNCHANGED versions

VersionsOf(s) == {v \in DOMAIN versions : versions[v].strategy = s}

\* The UNIQUE(strategy_id, configuration_hash) of the table.
Published(s, h) == \E v \in VersionsOf(s) : versions[v].hash = h

\* CountsBefore: a slip, the count without the row to come.
CountsBefore(s) == Cardinality(VersionsOf(s))

\* The number is counted inside the transaction that inserts the row.
NextNumber(s) == Cardinality(VersionsOf(s)) + 1

Publish(s, h, parent) ==
    /\ ~Published(s, h)
    /\ Len(versions) < MaxVersions
    /\ versions' = Append(versions,
            [strategy |-> s, number |-> NextNumber(s), hash |-> h,
             parent |-> parent, status |-> "READY_FOR_VERIFICATION"])
    /\ strategies' = IF strategies[s].lifecycle = "DRAFT"
                     THEN [strategies EXCEPT ![s].lifecycle = "READY_FOR_DEEP_VERIFICATION"]
                     ELSE strategies

\* POST /api/strategies/:id/lifecycle; RETIRED and archived go together.
SetLifecycle(s, lifecycle) ==
    /\ strategies' = [strategies EXCEPT ![s].lifecycle = lifecycle,
                                        ![s].archived = (lifecycle = "RETIRED")]
    /\ UNCHANGED versions

\* POST /api/strategies/:id/retire
Retire(s) ==
    /\ strategies' = [strategies EXCEPT ![s].lifecycle = "RETIRED", ![s].archived = TRUE]
    /\ UNCHANGED versions

\* POST /api/strategy-versions/:id/archive
ArchiveVersion(v) ==
    /\ versions' = [versions EXCEPT ![v].status = "ARCHIVED"]
    /\ UNCHANGED strategies

\* What the end of a verification run does, whatever the version's status:
\* a strategy counts as verified after a FULL run only, and not once retired.
\* OutcomeRevives: a slip, without lifecycle <> 'RETIRED'.
OutcomeRevives(v, outcome, profile) ==
    /\ versions' = [versions EXCEPT ![v].status = outcome]
    /\ strategies' = IF profile = "FULL" /\ outcome = "VERIFIED"
                     THEN [strategies EXCEPT ![versions[v].strategy].lifecycle = "VERIFIED"]
                     ELSE strategies

ApplyVerificationOutcome(v, outcome, profile) ==
    LET s == versions[v].strategy IN
    /\ versions' = [versions EXCEPT ![v].status = outcome]
    /\ strategies' = IF /\ profile = "FULL" /\ outcome = "VERIFIED"
                        /\ strategies[s].lifecycle # "RETIRED"
                     THEN [strategies EXCEPT ![s].lifecycle = "VERIFIED"]
                     ELSE strategies

=============================================================================
