---------------------------- MODULE MCValidators ----------------------------
(* The components of the ledger that decide who may sign, evaluate and draw*)
(* randomness: safety candidates with commit and reveal, the validator life*)
(* cycle with recovery reserves, and the beacon. A behaviour is a behaviour*)
(* of one of them.                                                         *)
EXTENDS SafetyRandomness, Integers, FiniteSets, TLC
CONSTANTS v1, v2, v3, c1, c2

VARIABLES part,   \* the component that this behaviour is about
    height1, open, kind, txs, validators1, registered, retired, disabled, bonds, balances1, burned1,
    exits1, admissions, rotation, scheduled, plan, floor, recent, setAt, lastActive, active,
    bondingActive, retirements, committee, commits, reveals, commitHeight, excluded

suiteVars == <<part,
    height, phase, balances, burned, validatorBonds, validators, disabledValidators,
    retiredValidators, nonRevealers, exits, candidateBonds, fallback, used, height1, open, kind,
    txs, validators1, registered, retired, disabled, bonds, balances1, burned1, exits1, admissions,
    rotation, scheduled, plan, floor, recent, setAt, lastActive, active, bondingActive, retirements,
    committee, commits, reveals, commitHeight, excluded>>

Symmetry == Permutations({v1, v2, v3}) \union Permutations({c1, c2})
BeaconRank == [a \in {"a1", "a2", "a3", "a4", "a5"} |->
    CASE a = "a1" -> 1 [] a = "a2" -> 2 [] a = "a3" -> 3 [] a = "a4" -> 4 [] OTHER -> 5]

-----------------------------------------------------------------------------
\* Three validators are the committee of two safety candidates.
SafetyInit ==
    /\ part = "safety" /\ Init /\ height1 = 0 /\ open = 0 /\ kind = 0 /\ txs = 0 /\ validators1 = 0
    /\ registered = 0 /\ retired = 0 /\ disabled = 0 /\ bonds = 0 /\ balances1 = 0 /\ burned1 = 0
    /\ exits1 = 0 /\ admissions = 0 /\ rotation = 0 /\ scheduled = 0 /\ plan = 0 /\ floor = 0
    /\ recent = 0 /\ setAt = 0 /\ lastActive = 0 /\ active = 0 /\ bondingActive = 0
    /\ retirements = 0 /\ committee = 0 /\ commits = 0 /\ reveals = 0 /\ commitHeight = 0
    /\ excluded = 0
SafetyStep ==
    /\ part = "safety" /\ Next
    /\ UNCHANGED <<part,
        height1, open, kind, txs, validators1, registered, retired, disabled, bonds, balances1,
        burned1, exits1, admissions, rotation, scheduled, plan, floor, recent, setAt, lastActive,
        active, bondingActive, retirements, committee, commits, reveals, commitHeight, excluded>>
-----------------------------------------------------------------------------
\* Two validators and one applicant: admission, readiness, rotation, exit and
\* slashing.
VQ == INSTANCE ValidatorLifecycle WITH
    MinBond <- 2, RotationDelay <- 2, AdmissionDelay <- 1, ReadinessWindow <- 4, WithdrawalDelay <-
    2, RecoveryDelay <- 1, Funds <- 4, Identities <- {"n1", "n2", "n3"}, Genesis <- {"n1", "n2"},
    MinSetSize <- 1, AdmissionExpiry <- 3, MaxTx <- 1, MaxHeight <- 6, height <- height1, validators
    <- validators1, balances <- balances1, burned <- burned1, exits <- exits1
QueueInit ==
    /\ part = "queue" /\ VQ!Init /\ Init /\ active = 0 /\ bondingActive = 0 /\ retirements = 0
    /\ committee = 0 /\ commits = 0 /\ reveals = 0 /\ commitHeight = 0 /\ excluded = 0
QueueStep ==
    /\ part = "queue" /\ VQ!Next
    /\ UNCHANGED <<part,
        height, phase, balances, burned, validatorBonds, validators, disabledValidators,
        retiredValidators, nonRevealers, exits, candidateBonds, fallback, used, active,
        bondingActive, retirements, committee, commits, reveals, commitHeight, excluded>>
-----------------------------------------------------------------------------
\* Two validators and two applicants that may become recovery reserves.
VR == INSTANCE ValidatorLifecycle WITH
    MinBond <- 2, RotationDelay <- 2, AdmissionDelay <- 1, ReadinessWindow <- 4, WithdrawalDelay <-
    2, RecoveryDelay <- 1, Funds <- 4, Identities <- {"n1", "n2", "n3", "n4"}, Genesis <- {"n1",
    "n2"}, MinSetSize <- 2, AdmissionExpiry <- 2, MaxTx <- 1, MaxHeight <- 6, height <- height1,
    validators <- validators1, balances <- balances1, burned <- burned1, exits <- exits1
RecoveryInit ==
    /\ part = "recovery" /\ VR!Init /\ Init /\ active = 0 /\ bondingActive = 0 /\ retirements = 0
    /\ committee = 0 /\ commits = 0 /\ reveals = 0 /\ commitHeight = 0 /\ excluded = 0
RecoveryStep ==
    /\ part = "recovery" /\ VR!Next
    /\ UNCHANGED <<part,
        height, phase, balances, burned, validatorBonds, validators, disabledValidators,
        retiredValidators, nonRevealers, exits, candidateBonds, fallback, used, active,
        bondingActive, retirements, committee, commits, reveals, commitHeight, excluded>>
-----------------------------------------------------------------------------
\* A restored state: bonding starts, one authority is registered and inactive.
BQ == INSTANCE BeaconLedger WITH
    Rank <- BeaconRank, Withholders <- {"a1"}, RotationDelay <- 2, RetirementDelay <- 2,
    AdmissionDelay <- 1, AdmissionExpiry <- 4, MaxTx <- 1, Authorities <- {"a1", "a2", "a3", "a4"},
    Genesis <- {"a1", "a2"}, Legacy <- {"a4"}, MinBond <- 10, StartBond <- 0, RevealTimeout <- 1,
    Funds <- 41, MaxHeight <- 7, height <- height1, balances <- balances1, burned <- burned1
BeaconQueueInit ==
    /\ part = "beaconqueue" /\ BQ!Init /\ Init /\ validators1 = 0 /\ exits1 = 0 /\ plan = 0
    /\ floor = 0 /\ recent = 0 /\ setAt = 0 /\ lastActive = 0
BeaconQueueStep ==
    /\ part = "beaconqueue" /\ BQ!Next
    /\ UNCHANGED <<part,
        height, phase, balances, burned, validatorBonds, validators, disabledValidators,
        retiredValidators, nonRevealers, exits, candidateBonds, fallback, used, validators1, exits1,
        plan, floor, recent, setAt, lastActive>>
-----------------------------------------------------------------------------
\* Four authorities of which one withholds its reveals.
BR == INSTANCE BeaconLedger WITH
    Rank <- BeaconRank, Withholders <- {"a1"}, RotationDelay <- 2, RetirementDelay <- 2,
    AdmissionDelay <- 1, AdmissionExpiry <- 4, MaxTx <- 1, Authorities <- {"a1", "a2", "a3", "a4"},
    Genesis <- {"a1", "a2", "a3", "a4"}, Legacy <- {}, MinBond <- 2, StartBond <- 2, RevealTimeout
    <- 2, Funds <- 3, MaxHeight <- 5, height <- height1, balances <- balances1, burned <- burned1
BeaconRoundsInit ==
    /\ part = "beaconrounds" /\ BR!Init /\ Init /\ validators1 = 0 /\ exits1 = 0 /\ plan = 0
    /\ floor = 0 /\ recent = 0 /\ setAt = 0 /\ lastActive = 0
BeaconRoundsStep ==
    /\ part = "beaconrounds" /\ BR!Next
    /\ UNCHANGED <<part,
        height, phase, balances, burned, validatorBonds, validators, disabledValidators,
        retiredValidators, nonRevealers, exits, candidateBonds, fallback, used, validators1, exits1,
        plan, floor, recent, setAt, lastActive>>
-----------------------------------------------------------------------------
SuiteInit ==
    \/ SafetyInit
    \/ QueueInit
    \/ RecoveryInit
    \/ BeaconQueueInit
    \/ BeaconRoundsInit
SuiteNext ==
    \/ SafetyStep
    \/ QueueStep
    \/ RecoveryStep
    \/ BeaconQueueStep
    \/ BeaconRoundsStep
SuiteSpec == SuiteInit /\ [][SuiteNext]_suiteVars

\* ValidatorLifecycle, BeaconLedger, SafetyRandomness: the state after any
\* block passes the checks of fromVerifiedSnapshot.
SnapshotRestores ==
    /\ part = "queue" => VQ!SnapshotRestores
    /\ part = "recovery" => VR!SnapshotRestores
    /\ part = "beaconqueue" => BQ!BeaconSnapshotRestores
    /\ part = "beaconrounds" => BR!BeaconSnapshotRestores
    /\ part = "safety" => SafetySnapshotRestores

\* BeaconLedger: no block can become impossible: with one withholder of four
\* a timeout always finds another committee, whose members have the bond it
\* would slash; the end-of-block checks never throw; an authority outside the
\* sets is on its way out.
NeverWedged ==
    /\ part = "beaconrounds" =>
           BR!NeverWedged /\ BR!CommitteeBonded /\ BR!EndNeverThrows /\ BR!RetirementAutomatic
    /\ part = "beaconqueue" => BQ!EndNeverThrows /\ BQ!RetirementAutomatic

\* ValidatorLifecycle, BeaconLedger: bonds are locked, returned or burned
\* exactly once; none goes home while its owner is active or sooner than the
\* cooldown after; a retired identity never returns; readiness counts only
\* for the set that observed it; the reserves of a standing recovery plan
\* stay in the queue.
BondsAccounted ==
    [][
        /\ (part = "queue" => VQ!LifecycleConserved /\ VQ!RetiredIsOut /\ VQ!ReadinessIsCurrent)'
        /\ (part = "recovery" =>
               VR!LifecycleConserved /\ VR!RetiredIsOut /\ VR!ReadinessIsCurrent /\
               VR!ReservesKept)'
        /\ (part = "beaconqueue" => BQ!BeaconConserved)'
        /\ (part = "beaconrounds" => BR!BeaconConserved)'
        /\ part = "queue" => VQ!SlashableUntilCooldown
    ]_suiteVars

=============================================================================
