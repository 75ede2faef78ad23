------------------------------ MODULE BlockRules ------------------------------
(* The shell of the ledger: which blocks NirChain accepts, whatever is in    *)
(* their transactions.  chain.mjs builds a proposal, tries it on a fork with *)
(* round 0, and other validators run the same #applyBlock with the real      *)
(* round.  A block may carry few kinds of work at once; it schedules and     *)
(* activates protocol upgrades, validator and beacon rotations and recovery  *)
(* plans, and the block that crosses a protocol version migrates old state.  *)
(* What the transactions themselves do is modelled in the ledger modules.    *)
EXTENDS Integers

CONSTANTS
    Small, Large,      \* registered validators below and above MIN_VALIDATOR_BOND, not in the set
    Fresh,             \* accounts that are not validators yet
    Candidates,        \* progress candidates, each with its bond
    FirstVersions,     \* protocol versions a behaviour may start in
    Latest,            \* the newest version this node supports
    UpgradeDelay,      \* MIN_PROTOCOL_UPGRADE_DELAY_BLOCKS
    RotationDelay,     \* least distance of a rotation's activation height
    MaxHeight,         \* bound: blocks of a behaviour
    MaxTime            \* bound: the clock

VARIABLES chain,       \* the consensus state of this node
          now,         \* the wall clock, in units of MAX_FUTURE_DRIFT_MS
          proposal     \* the last proposal buildBlock returned, or NoProposal

vars == <<chain, now, proposal>>

Members == Small \union Large \union Fresh
Recovery == 25      \* RECOVERY_STATE_COMMITMENT_PROTOCOL_VERSION
Assignment == 26    \* EVALUATION_ASSIGNMENT_ROOT_PROTOCOL_VERSION
Extended == 27      \* EXTENDED_EVALUATION_ASSIGNMENT_PROTOCOL_VERSION
Exits == 30         \* VALIDATOR_EXIT_LIFECYCLE_PROTOCOL_VERSION
Queue == 31         \* VALIDATOR_ADMISSION_QUEUE_PROTOCOL_VERSION
Reserve == 34       \* RECOVERY_RESERVE_ADMISSION_PROTOCOL_VERSION
Binding == 35       \* PROGRESS_GENESIS_BINDING_PROTOCOL_VERSION
Drift == 1

\* The transactions that some rule of the block distinguishes; "equivocation" stands for
\* both kinds of slashing evidence, "exit" for request and claim.
TransactionKinds == {"commitment", "recovery-plan", "recovery", "equivocation", "admission",
                     "exit", "beacon-bond", "beacon-retire"}
\* What else a block may carry.
BlockFields == {"validatorRotation", "beaconRotation", "peerRegistryUpdate", "protocolUpgrade",
                "contribution"}
Kinds == TransactionKinds \union BlockFields
\* Bound: two kinds in a block, one in a later round.
Work == {{}} \union {{x, y} : x, y \in Kinds}
LaterWork == {{}} \union {{x} : x \in Kinds}
requireExactBlockSchema(stamp) ==
    [work : Work, round : {0}, roundCertificate : {"none"}, timestamp : {stamp}]
    \union
    [work : LaterWork, round : {1}, roundCertificate : {"valid", "invalid"}, timestamp : {stamp}]
EmptyBlock == [work |-> {}, round |-> 0, roundCertificate |-> "none", timestamp |-> 0]
NoProposal == [block |-> EmptyBlock, built |-> FALSE, rooted |-> FALSE]

\* Bond accounts: validators hold theirs registered or queued, candidates with a commitment.
Holders == Members \union Candidates
-----------------------------------------------------------------------------
\* The version of the next block, and whether a pending upgrade starts with it.
protocolVersionAtNextHeight(c) ==
    IF c.upgrade = c.height + 1 THEN c.version + 1 ELSE c.version

\* The block begins at version v: it was below it before.
Crosses(c, v) == protocolVersionAtNextHeight(c) >= v /\ c.version < v

\* A pending upgrade never lies behind the block, the version is one this node knows.
protocolTransition(c) ==
    /\ (c.upgrade # 0 => c.upgrade > c.height)
    /\ protocolVersionAtNextHeight(c) <= Latest

\* A new upgrade may be scheduled: none is left pending by this block.
normalizeProtocolUpgradeWithContext(c, at) ==
    /\ c.upgrade \in {0, c.height + 1}
    /\ at >= c.height + 1 + UpgradeDelay

validateIntrinsicBlock(c, b) == b.timestamp >= c.timestamp

ActivatesRotation(c) == c.rotation # 0 /\ c.rotation = c.height + 1
\* A variant that activates one block late.
ActivatesLate(c) == c.beacon # 0 /\ c.beacon = c.height
ActivatesBeacon(c) == c.beacon # 0 /\ c.beacon = c.height + 1
NeverSkips(c) == c.beacon # 0 => c.beacon >= c.height + 1

\* A recovery block carries nothing else, is of round 0, does not start a protocol
\* version, and uses the plan in force (verifyValidatorRecoveryEnvelope: from the
\* height that plan names).
recoveryRules(c, b) == "recovery" \in b.work =>
    /\ b.work = {"recovery"}
    /\ protocolVersionAtNextHeight(c) = c.version
    /\ b.round = 0 /\ b.roundCertificate = "none"
    /\ c.plan # 0 /\ c.height + 1 >= c.plan

verifyRoundCertificate(b) ==
    b.roundCertificate = (IF b.round = 0 THEN "none" ELSE "valid")

Together(b, x, y) == b.work \intersect x # {} /\ b.work \intersect y # {}

\* What needs separate blocks, checked before any transaction is applied.
separateBlocks(c, b) ==
    /\ (ActivatesRotation(c) => "equivocation" \notin b.work)
    /\ ~Together(b, {"validatorRotation"}, {"equivocation"})
    /\ ~Together(b, {"beaconRotation"}, {"beacon-bond", "beacon-retire"})
    /\ ~Together(b, {"beacon-bond"}, {"beacon-retire"})
    /\ ~Together(b, {"beaconRotation"}, {"validatorRotation", "peerRegistryUpdate"})
    /\ (c.rotation # 0 => "peerRegistryUpdate" \notin b.work)
    /\ ~Together(b, {"validatorRotation"}, {"peerRegistryUpdate"})

beaconRules(c, b) ==
    /\ NeverSkips(c)
    /\ (ActivatesBeacon(c) => "contribution" \notin b.work)
    /\ ("beaconRotation" \in b.work => c.beacon = 0)

\* The migration of validator membership refuses a pending rotation or plan, that of
\* the reserves an active plan.
migrationRefused(c) ==
    \/ Crosses(c, Queue) /\ (c.rotation # 0 \/ c.plan # 0)
    \/ Crosses(c, Reserve) /\ c.plan # 0

rotationRules(c, b) == "validatorRotation" \in b.work => c.rotation = 0

\* Rules among the transactions of one block.
membershipTransactions(c, b) ==
    LET v == protocolVersionAtNextHeight(c) IN
    /\ "admission" \in b.work =>
        /\ v >= Queue /\ ~ActivatesRotation(c)
        /\ b.work \intersect {"validatorRotation", "recovery-plan"} = {}
    /\ "exit" \in b.work =>
        /\ v >= Exits /\ ~ActivatesRotation(c)
        /\ b.work \intersect {"validatorRotation", "recovery-plan", "admission"} = {}
    /\ "recovery-plan" \in b.work =>
        /\ v >= Recovery /\ c.plan = 0 /\ c.rotation = 0 /\ "validatorRotation" \notin b.work
-----------------------------------------------------------------------------
\* The queue starts: small bonds go back, the other registered validators are queued.
queueMigration(c) == IF ~Crosses(c, Queue) THEN c ELSE
    [c EXCEPT !.queue = Large \intersect c.registered,
              !.registered = @ \ Small,
              !.bond = [h \in Holders |-> IF h \in Small \intersect c.registered THEN 0 ELSE @[h]],
              !.balance = [h \in Holders |->
                  @[h] + (IF h \in Small \intersect c.registered THEN c.bond[h] ELSE 0)]]

\* The commitments x are cancelled and their collateral returned.
Cancelled(c, x) ==
    [c EXCEPT !.commitment = [k \in Candidates |-> IF k \in x THEN "none" ELSE @[k]],
              !.assignment = [k \in Candidates |-> IF k \in x THEN "none" ELSE @[k]],
              !.bond = [h \in Holders |-> IF h \in x THEN 0 ELSE @[h]],
              !.balance = [h \in Holders |-> @[h] + (IF h \in x THEN c.bond[h] ELSE 0)]]

\* Version 35 binds commitments to the genesis hash: older ones are cancelled.
bindingMigration(c) == IF ~Crosses(c, Binding) THEN c ELSE
    Cancelled(c, {k \in Candidates : c.commitment[k] # "none" /\ ~c.bound[k]})

\* Version 26 writes an assignment for each challenged commitment.
assignmentMigration(c) == IF ~Crosses(c, Assignment) THEN c ELSE
    [c EXCEPT !.assignment = [k \in Candidates |->
        IF c.commitment[k] = "challenged" THEN "v1" ELSE @[k]]]

\* Version 27 cannot use a v1 assignment: it is cancelled.
extendedMigration(c) == IF ~Crosses(c, Extended) THEN c ELSE
    Cancelled(c, {k \in Candidates : c.assignment[k] = "v1"})

migrated(c) == extendedMigration(assignmentMigration(bindingMigration(queueMigration(c))))

\* A progress commitment locks the candidate's bond; a beacon contribution challenges it.
applyProgress(c, b) ==
    LET v == protocolVersionAtNextHeight(c)
        new == IF "commitment" \in b.work
               THEN {k \in Candidates : c.commitment[k] = "none" /\ c.balance[k] > 0} ELSE {}
        old == IF "contribution" \in b.work
               THEN {k \in Candidates : c.commitment[k] = "open"} ELSE {}
        given == IF v < Assignment THEN "none" ELSE IF v < Extended THEN "v1" ELSE "v2"
    IN [c EXCEPT !.commitment = [k \in Candidates |->
                     IF k \in new THEN "open" ELSE IF k \in old THEN "challenged" ELSE @[k]],
                 !.bound = [k \in Candidates |-> IF k \in new THEN v >= Binding ELSE @[k]],
                 !.assignment = [k \in Candidates |-> IF k \in old THEN given ELSE @[k]],
                 !.bond = [h \in Holders |-> IF h \in new THEN 1 ELSE @[h]],
                 !.balance = [h \in Holders |-> IF h \in new THEN @[h] - 1 ELSE @[h]]]

\* Newcomers, and those whose bond was refunded, register through the queue.
applyAdmission(c, b) ==
    LET new == IF "admission" \in b.work THEN {m \in Members \ c.registered : c.balance[m] > 0}
               ELSE {}
    IN [c EXCEPT !.registered = @ \union new, !.queue = @ \union new,
                 !.bond = [h \in Holders |-> IF h \in new THEN 1 ELSE @[h]],
                 !.balance = [h \in Holders |-> IF h \in new THEN @[h] - 1 ELSE @[h]]]

\* Scheduling a rotation drops the recovery plan; recovery drops both; a slashing may
\* disable a member of the pending rotation and so cancel it (`disables`).
applyMembership(c, b, at, disables) ==
    LET h == c.height + 1
        scheduled == "validatorRotation" \in b.work
        kept == IF ActivatesRotation(c) THEN 0 ELSE c.rotation
    IN [c EXCEPT
        !.rotation = IF "recovery" \in b.work THEN 0
                     ELSE IF scheduled THEN at
                     ELSE IF "equivocation" \in b.work /\ disables THEN 0 ELSE kept,
        !.plan = IF "recovery" \in b.work \/ scheduled THEN 0
                 ELSE IF "recovery-plan" \in b.work THEN at ELSE @,
        !.beacon = IF "beaconRotation" \in b.work THEN at
                   ELSE IF ActivatesBeacon(c) THEN 0 ELSE @]

\* The registry of assignments is complete and, from version 27 on, has no old entry.
assertEvaluationAssignments(c, v) == \A k \in Candidates :
    /\ (v >= Assignment => ((c.assignment[k] # "none") <=> (c.commitment[k] = "challenged")))
    /\ (v >= Extended => c.assignment[k] # "v1")

\* The state after the block: `at` is the activation height that its schedule names.
applied(c, b, at, disables) ==
    LET v == protocolVersionAtNextHeight(c)
        d == applyMembership(applyAdmission(applyProgress(migrated(c), b), b), b, at, disables)
    IN [d EXCEPT !.height = @ + 1, !.version = v, !.timestamp = b.timestamp,
                 !.upgrade = IF "protocolUpgrade" \in b.work THEN at
                             ELSE IF c.upgrade = c.height + 1 THEN 0 ELSE @]

\* #applyBlock: the block is one that this chain takes, its state root aside.
applyBlock(c, b, at, clock) ==
    /\ protocolTransition(c)
    /\ ("protocolUpgrade" \in b.work => normalizeProtocolUpgradeWithContext(c, at))
    /\ validateIntrinsicBlock(c, b)
    /\ b.timestamp <= clock + Drift
    /\ recoveryRules(c, b)
    /\ verifyRoundCertificate(b)
    /\ separateBlocks(c, b)
    /\ beaconRules(c, b)
    /\ ~migrationRefused(c)
    /\ rotationRules(c, b)
    /\ membershipTransactions(c, b)
    /\ (b.work \intersect {"validatorRotation", "beaconRotation"} # {} =>
            at >= c.height + RotationDelay)
    /\ assertEvaluationAssignments(applied(c, b, at, FALSE), protocolVersionAtNextHeight(c))

\* What buildBlock itself refuses, before the trial.
buildChecks(c, b, at) ==
    /\ protocolTransition(c)
    /\ ("protocolUpgrade" \in b.work => normalizeProtocolUpgradeWithContext(c, at))
    /\ ("recovery" \in b.work => /\ b.work = {"recovery"}
                                 /\ b.round = 0 /\ b.roundCertificate = "none"
                                 /\ protocolVersionAtNextHeight(c) = c.version)
    /\ ~Together(b, {"validatorRotation"}, {"equivocation"})
    /\ ("beaconRotation" \in b.work => c.beacon = 0)
    /\ ("validatorRotation" \in b.work => c.rotation = 0)
    /\ ~Together(b, {"beaconRotation"}, {"validatorRotation", "peerRegistryUpdate"})
    /\ ((c.rotation # 0 \/ "validatorRotation" \in b.work) => "peerRegistryUpdate" \notin b.work)

\* A fork carries over every part of the state by itself.
fork(c) ==
    [height |-> c.height, version |-> c.version, upgrade |-> c.upgrade, rotation |-> c.rotation,
     plan |-> c.plan, beacon |-> c.beacon, timestamp |-> c.timestamp,
     registered |-> c.registered, queue |-> c.queue, commitment |-> c.commitment,
     bound |-> c.bound, assignment |-> c.assignment, bond |-> c.bond, balance |-> c.balance]

\* The trial applies the block as if it were of round 0; only then the proposal gets a
\* state root.
trial(c, b, at, clock) ==
    applyBlock(fork(c), [b EXCEPT !.round = 0, !.roundCertificate = "none"], at, clock)

\* Where the schedule in a block takes effect: as soon as the delays allow.
Effect(c, b) ==
    c.height + (IF "protocolUpgrade" \in b.work THEN 1 + UpgradeDelay ELSE RotationDelay)

\* The proposal whose trial failed keeps a zero state root: validators refuse it.
Unrooted == [block |-> EmptyBlock, built |-> TRUE, rooted |-> FALSE]

\* A proposal is put together, from what was in the pool, at the given clock.
buildBlock ==
    \E b \in requireExactBlockSchema(now) :
        /\ ~proposal.built
        /\ chain.height < MaxHeight
        /\ buildChecks(chain, b, Effect(chain, b))
        /\ proposal' = IF trial(chain, b, Effect(chain, b), now)
                       THEN [block |-> b, built |-> TRUE, rooted |-> TRUE] ELSE Unrooted
        /\ UNCHANGED <<chain, now>>

\* Other validators check the proposal: with its own round and the state root.
validateProposal(c, p, clock) ==
    p.rooted /\ applyBlock(fork(c), p.block, Effect(c, p.block), clock)

\* The proposal is finalized and appended.
appendBlock ==
    /\ proposal.built
    /\ validateProposal(chain, proposal, now)
    /\ \E disables \in BOOLEAN :
        chain' = applied(chain, proposal.block, Effect(chain, proposal.block), disables)
    /\ proposal' = NoProposal
    /\ UNCHANGED now

\* The height is decided without this proposal: it is forgotten.
Forget == proposal.built /\ proposal' = NoProposal /\ UNCHANGED <<chain, now>>

Tick == now < MaxTime /\ now' = now + 1 /\ UNCHANGED <<chain, proposal>>

\* A running chain of some version: before the queue nobody is queued.
Init ==
    /\ \E v \in FirstVersions : chain =
        [height |-> 0, version |-> v, upgrade |-> 0, rotation |-> 0, plan |-> 0, beacon |-> 0,
         timestamp |-> 0, registered |-> Small \union Large,
         queue |-> IF v >= Queue THEN Small \union Large ELSE {},
         commitment |-> [k \in Candidates |-> "none"], bound |-> [k \in Candidates |-> FALSE],
         assignment |-> [k \in Candidates |-> "none"],
         bond |-> [h \in Holders |-> IF h \in Small \union Large THEN 1 ELSE 0],
         balance |-> [h \in Holders |-> IF h \in Small \union Large THEN 0 ELSE 1]]
    /\ now = 0
    /\ proposal = NoProposal

Next == buildBlock \/ appendBlock \/ Forget \/ Tick

Spec == Init /\ [][Next]_vars
-----------------------------------------------------------------------------
\* The state root covers what the version knows.
stateRoot(c) ==
    [c EXCEPT !.queue = IF c.version >= Queue THEN @ ELSE {},
              !.assignment = IF c.version >= Assignment THEN @ ELSE [k \in Candidates |-> "none"]]

\* consensusSnapshot leaves out what the version does not know yet.
consensusSnapshot(c) ==
    [state |-> c, queue |-> IF c.version >= Queue THEN {c.queue} ELSE {},
     assignment |-> IF c.version >= Assignment THEN {c.assignment} ELSE {}]

\* fromVerifiedSnapshot: absent parts are empty; the root of the result must be the one
\* that was certified, and a pending upgrade must lie ahead.
fromVerifiedSnapshot(s) ==
    [s.state EXCEPT !.queue = UNION s.queue,
                    !.assignment = [k \in Candidates |->
                        IF s.assignment = {} THEN "none" ELSE (CHOOSE a \in s.assignment : TRUE)[k]]]
normalizePendingProtocolUpgrade(c) == c.upgrade # 0 => c.upgrade > c.height

\* A proposal that buildBlock gave a state root is accepted by validators at the same
\* height, provided its round certificate is what the round needs: the trial of another
\* round hides no rule (buildBlock against validateProposal).
RootedIsAccepted ==
    proposal.rooted /\ verifyRoundCertificate(proposal.block)
        => validateProposal(chain, proposal, now)

\* The chain can always take a block: an empty one, except where the migration of
\* membership refuses what is pending or the node does not know the next version.
ChainContinues ==
    LET b == [EmptyBlock EXCEPT
              !.timestamp = IF now > chain.timestamp THEN now ELSE chain.timestamp] IN
    \/ migrationRefused(chain)
    \/ protocolVersionAtNextHeight(chain) > Latest
    \/ applyBlock(chain, b, 0, now)

\* A migration takes nobody's collateral: what a registered validator or a candidate had
\* bonded is still bonded or back on its balance.
MigrationConserves == \A h \in Holders : chain.bond[h] + chain.balance[h] = 1

\* A recovery plan and a pending rotation never stand beside each other, so that a
\* recovery never races a rotation that it does not know of.
PlanOrRotation == chain.plan = 0 \/ chain.rotation = 0

\* The state between blocks survives its own snapshot: what consensusSnapshot leaves out
\* in an older version is empty, and no pending upgrade is behind the height.
StateRestores ==
    /\ fromVerifiedSnapshot(consensusSnapshot(chain)) = chain
    /\ stateRoot(fromVerifiedSnapshot(consensusSnapshot(chain))) = stateRoot(chain)
    /\ normalizePendingProtocolUpgrade(chain)
=============================================================================
