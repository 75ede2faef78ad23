--------------------------- MODULE ProgressLedger ---------------------------
(***************************************************************************)
(* Progress candidates in blockchain/chain.mjs before proof mining: bond,  *)
(* commitment, beacon, assigned committee, reward in escrow, fraud proof,  *)
(* maturity into the capability memory of blockchain/memory.mjs, and the   *)
(* bonded evaluators.  StartBlock is the part of #applyBlock before the    *)
(* transactions, EndBlock the part after them.  A candidate stands for its *)
(* artifact, content, behaviour and scores; its parents are the references *)
(* the memory starts with.                                                 *)
(***************************************************************************)
EXTENDS Integers, FiniteSets, FiniteSetsExt

CONSTANTS
    Candidates, Capabilities,
    Score,           \* Score[c][k]: gain of c over the references
    Order,           \* Order[c]: place of its fingerprint
    Owner,           \* Owner[c]: candidateOwner, recipient and refund address
    Applicants,      \* the owners that may also apply as validators
    AdmissionQueue,  \* VALIDATOR_ADMISSION_QUEUE_PROTOCOL_VERSION is reached
    ValidatorBond,   \* MIN_VALIDATOR_BOND
    MinGain,         \* MIN_FRONTIER_GAIN_BPS
    Evaluators, GenesisEvaluators, Quorum,
    CandidateBond, EvaluatorBond, Reward,
    EscrowDelay,     \* PROGRESS_REWARD_ESCROW_DELAY_BLOCKS
    BindingTimeout,  \* PROGRESS_BOND_BINDING_TIMEOUT_BLOCKS
    CommitmentAge,   \* MAX_PROGRESS_COMMITMENT_AGE
    Lifetime,        \* EVALUATION_ASSIGNMENT_LIFETIME_BLOCKS
    ActivationDelay, \* EVALUATOR_ACTIVATION_DELAY_BLOCKS
    Funds, MaxTx, MaxHeight


None == [none |-> TRUE]

VARIABLES
    height, open, txs,
    candidateBonds,  \* None or [at, bound]
    commitments,     \* None or [at, beacon, assigned, committee]
    escrows,         \* None or [created, unlock, marginal, committee]
    memory,          \* candidates the capability memory has accepted
    rewarded,        \* rewardedProofs: one evaluation per candidate
    proven,          \* candidates with a fraud proof (history)
    evaluators, pendingEvaluators, evaluatorBonds, disabled,
    registeredValidators,   \* the applicants among them
    balances, burned, mined

evaluation == <<evaluators, pendingEvaluators, evaluatorBonds, disabled>>
money == <<balances, burned, mined>>
progress == <<candidateBonds, commitments, escrows, memory, rewarded, proven>>
vars == <<height, open, txs, progress, evaluation, registeredValidators, money>>

Init ==
    /\ height = 0 /\ open = FALSE /\ txs = 0
    /\ candidateBonds = [c \in Candidates |-> None] /\ commitments = [c \in Candidates |-> None]
    /\ escrows = [c \in Candidates |-> None] /\ memory = {} /\ rewarded = {} /\ proven = {}
    /\ evaluators = GenesisEvaluators /\ pendingEvaluators = [e \in Evaluators |-> None]
    /\ evaluatorBonds = [e \in Evaluators |-> IF e \in GenesisEvaluators THEN EvaluatorBond ELSE 0]
    /\ disabled = {} /\ registeredValidators = {} /\ balances = Funds /\ burned = 0 /\ mined = 0

Bonded == {c \in Candidates : candidateBonds[c] # None}
Committed == {c \in Candidates : commitments[c] # None}
Escrowed == {c \in Candidates : escrows[c] # None}
Without(f, gone) == [x \in DOMAIN f |-> IF x \in gone THEN None ELSE f[x]]
eligibleEvaluators == {e \in evaluators \ disabled : evaluatorBonds[e] >= EvaluatorBond}

-----------------------------------------------------------------------------
(* Capability memory                                                       *)

frontier(known, k) == Max({0} \union {Score[c][k] : c \in known})
marginalGains(c, known) == {k \in Capabilities : Score[c][k] - frontier(known, k) >= MinGain}
assess(c, known) == c \notin known /\ marginalGains(c, known) # {}

\* No pending escrow and no other claim of the block has a capability of c.
assertProgressReservationAvailable(c, others) ==
    /\ c \notin Escrowed
    /\ \A d \in Escrowed : escrows[d].marginal \intersect marginalGains(c, memory) = {}
    /\ \A d \in others \ {c} : marginalGains(d, memory) \intersect marginalGains(c, memory) = {}

-----------------------------------------------------------------------------
(* Before the transactions                                                 *)

Activating == {e \in Evaluators : pendingEvaluators[e] # None /\ pendingEvaluators[e].at = height + 1}

\* Attested by the whole assigned committee, all of it still eligible.
verifyProgressClaim(c) ==
    /\ c \in Committed /\ commitments[c].assigned # 0
    /\ height + 1 <= commitments[c].at + CommitmentAge
    /\ height + 1 <= commitments[c].assigned + Lifetime
    /\ commitments[c].committee \subseteq eligibleEvaluators
    /\ assess(c, memory)

\* A second receipt signed by the whole committee of an escrow.
verifyProgressFraudProof(c) == c \in Escrowed /\ height + 1 <= escrows[c].unlock

Guilty(frauds) == UNION {escrows[c].committee : c \in frauds} \ disabled

\* Commitments assigned to an evaluator that has just been disabled.
Cancelled(frauds) == {c \in Committed : commitments[c].committee \intersect Guilty(frauds) # {}}

\* Mutant: escrows mature before the fraud proofs of the block are applied.
MaturesFirst(frauds) == {c \in Escrowed : height + 1 >= escrows[c].unlock}

Maturing(frauds) == {c \in Escrowed \ frauds : height + 1 >= escrows[c].unlock}

\* orderedProgressEscrows
MaturesBefore(d, c) ==
    \/ escrows[d].created < escrows[c].created
    \/ escrows[d].created = escrows[c].created /\ Order[d] < Order[c]

\* accept adds them one after the other and throws when one of them no
\* longer adds anything.
MaturityAccepted(set) ==
    \A c \in set : assess(c, memory \union {d \in set : MaturesBefore(d, c)})

StartBlock(frauds, rewards) ==
    LET matured == Maturing(frauds)
        cancelled == Cancelled(frauds)
        guilty == Guilty(frauds)
    IN
    /\ ~open /\ height < MaxHeight
    /\ \A c \in frauds : verifyProgressFraudProof(c)
    /\ \A c \in rewards : /\ verifyProgressClaim(c) /\ assertProgressReservationAvailable(c, rewards)
                          /\ c \notin cancelled \union rewarded /\ commitments[c].committee \intersect guilty = {}
    /\ MaturityAccepted(matured)
    /\ height' = height + 1 /\ open' = TRUE /\ txs' = 0 /\ UNCHANGED registeredValidators
    /\ evaluators' = evaluators \union Activating
    /\ pendingEvaluators' = Without(pendingEvaluators, Activating)
    /\ evaluatorBonds' = [e \in Evaluators |-> IF e \in guilty THEN 0 ELSE evaluatorBonds[e]]
    /\ disabled' = disabled \union guilty
    /\ memory' = memory \union matured
    /\ escrows' = [c \in Candidates |->
           IF c \in rewards THEN [created |-> height + 1, unlock |-> height + 1 + EscrowDelay,
                                  marginal |-> marginalGains(c, memory), committee |-> commitments[c].committee]
           ELSE IF c \in frauds \union matured THEN None ELSE escrows[c]]
    /\ candidateBonds' = Without(candidateBonds, frauds \union cancelled \union matured)
    /\ commitments' = Without(commitments, cancelled \union rewards)
    /\ rewarded' = rewarded \union rewards /\ proven' = proven \union frauds
    /\ mined' = mined + Reward * Cardinality(rewards)
    /\ burned' = burned + (Reward + CandidateBond) * Cardinality(frauds)
                        + SumFunction([e \in guilty |-> evaluatorBonds[e]])
    /\ balances' = balances + (Reward + CandidateBond) * Cardinality(matured) + CandidateBond * Cardinality(cancelled)

-----------------------------------------------------------------------------
(* Transactions                                                            *)

Transaction == open /\ txs < MaxTx /\ txs' = txs + 1 /\ UNCHANGED <<height, open, escrows, memory, rewarded, proven, burned, mined, disabled>>

applyCandidateBond(c) ==
    /\ Transaction /\ c \notin Bonded /\ balances >= CandidateBond
    /\ balances' = balances - CandidateBond
    /\ candidateBonds' = [candidateBonds EXCEPT ![c] = [at |-> height, bound |-> FALSE]]
    /\ UNCHANGED <<commitments, evaluators, pendingEvaluators, evaluatorBonds, registeredValidators>>

\* Needs an older unbound bond, new content, one commitment per owner, and an
\* owner outside the operators' roles.
applyProgressCommitment(c) ==
    /\ Transaction /\ Cardinality(eligibleEvaluators) >= Quorum
    /\ c \in Bonded /\ ~candidateBonds[c].bound /\ candidateBonds[c].at < height
    /\ c \notin memory \union Escrowed \union Committed
    /\ \A d \in Committed : Owner[d] # Owner[c]
    /\ Owner[c] \notin registeredValidators
    /\ candidateBonds' = [candidateBonds EXCEPT ![c].bound = TRUE]
    /\ commitments' = [commitments EXCEPT ![c] = [at |-> height, beacon |-> 0, assigned |-> 0, committee |-> {}]]
    /\ UNCHANGED <<balances, evaluators, pendingEvaluators, evaluatorBonds, registeredValidators>>

\* Replacements fill only the slots disabled evaluators left vacant.
applyEvaluatorBond(e) ==
    /\ Transaction /\ e \notin disabled /\ balances >= EvaluatorBond
    /\ e \notin evaluators =>
          /\ pendingEvaluators[e] = None
          /\ Cardinality(eligibleEvaluators) + Cardinality({f \in Evaluators : pendingEvaluators[f] # None})
                < Cardinality(GenesisEvaluators)
    /\ balances' = balances - EvaluatorBond
    /\ evaluatorBonds' = [evaluatorBonds EXCEPT ![e] = @ + EvaluatorBond]
    /\ pendingEvaluators' = IF e \in evaluators THEN pendingEvaluators
                            ELSE [pendingEvaluators EXCEPT ![e] = [at |-> height + ActivationDelay]]
    /\ UNCHANGED <<candidateBonds, commitments, evaluators, registeredValidators>>

\* A new validator registers with applyValidatorBond, which refuses the owner
\* of a commitment (not that of an escrow), and in the later protocol with
\* applyValidatorAdmission, which looks at neither.
Registers(o) ==
    /\ Transaction /\ o \notin registeredValidators /\ balances >= ValidatorBond
    /\ balances' = balances - ValidatorBond
    /\ registeredValidators' = registeredValidators \union {o}
    /\ UNCHANGED <<candidateBonds, commitments, evaluators, pendingEvaluators, evaluatorBonds>>

applyValidatorBond(o) == ~AdmissionQueue /\ o \notin {Owner[c] : c \in Committed} /\ Registers(o)

applyValidatorAdmission(o) == AdmissionQueue /\ Registers(o)

-----------------------------------------------------------------------------
(* After the transactions                                                  *)

\* Aged commitments burn their bond, unbound bonds are refunded.
Aged == {c \in Committed : \/ height > commitments[c].at + CommitmentAge
                           \/ commitments[c].assigned # 0 /\ height > commitments[c].assigned + Lifetime}
Unbound == {c \in Bonded : ~candidateBonds[c].bound /\ height > candidateBonds[c].at + BindingTimeout}

\* A beacon claim names the evaluator committee of commitments whose beacon
\* committee is older than this block.
Assignable(c) == c \in Committed \ Aged /\ commitments[c].beacon \notin {0, height} /\ commitments[c].assigned = 0

\* rotated: this block activates a beacon rotation, which cancels every
\* commitment; round: the epoch round has passed; beacon: c and its committee.
EndBlock(rotated, round, claim) ==
    LET refunded == IF rotated THEN Committed ELSE {}
        aged == Aged \ refunded
    IN
    /\ open
    /\ claim # None => ~rotated /\ Assignable(claim.c)
    /\ open' = FALSE /\ txs' = 0
    /\ commitments' = [c \in Candidates |->
           IF c \notin Committed \/ c \in refunded \union aged THEN None
           ELSE IF claim # None /\ claim.c = c
                THEN [commitments[c] EXCEPT !.assigned = height, !.committee = claim.committee]
           ELSE IF round /\ commitments[c].beacon = 0 /\ commitments[c].at < height
                THEN [commitments[c] EXCEPT !.beacon = height]
           ELSE commitments[c]]
    /\ candidateBonds' = Without(candidateBonds, refunded \union aged \union Unbound)
    /\ balances' = balances + CandidateBond * Cardinality(refunded \union Unbound)
    /\ burned' = burned + CandidateBond * Cardinality(aged)
    /\ UNCHANGED <<height, escrows, memory, rewarded, proven, evaluation, registeredValidators, mined>>

Next ==
    \/ \E frauds, rewards \in SUBSET Candidates : StartBlock(frauds, rewards)
    \/ \E c \in Candidates : applyCandidateBond(c) \/ applyProgressCommitment(c)
    \/ \E e \in Evaluators : applyEvaluatorBond(e)
    \/ \E o \in Applicants : applyValidatorBond(o) \/ applyValidatorAdmission(o)
    \/ \E rotated, round \in BOOLEAN :
         \E claim \in {None} \union [c : Candidates, committee : kSubset(Quorum, eligibleEvaluators)] :
             EndBlock(rotated, round, claim)

Spec == Init /\ [][Next]_vars

-----------------------------------------------------------------------------
(* What fromVerifiedSnapshot requires of the state                         *)

\* Candidates belong to addresses outside the operators' roles.
outsideRoles(c) == Owner[c] \notin registeredValidators

\* The beacon and the assignment fall inside the age of the commitment; its
\* committee may still evaluate; one commitment for each owner, no validator.
restoredCommitment(c) ==
    LET m == commitments[c] IN
    /\ m.at <= height /\ c \in Bonded /\ candidateBonds[c].bound
    /\ m.beacon # 0 => m.beacon \in (m.at + 1)..(m.at + CommitmentAge)
    /\ m.assigned # 0 => /\ m.assigned \in (m.at + 1)..(m.at + CommitmentAge)
                         /\ Cardinality(m.committee) = Quorum /\ m.committee \subseteq eligibleEvaluators
    /\ \A d \in Committed \ {c} : Owner[d] # Owner[c]
    /\ outsideRoles(c)

Pending == {e \in Evaluators : pendingEvaluators[e] # None}
restoredEvaluators ==
    /\ GenesisEvaluators \subseteq evaluators /\ Pending \intersect evaluators = {}
    /\ \A e \in Evaluators : evaluatorBonds[e] > 0 => e \in (evaluators \ disabled) \union Pending
    /\ \A e \in Pending : pendingEvaluators[e].at > height /\ evaluatorBonds[e] >= EvaluatorBond
    /\ disabled \subseteq evaluators
    /\ Cardinality(eligibleEvaluators) + Cardinality(Pending) <= Cardinality(GenesisEvaluators)

restoredEscrow(c) ==
    /\ escrows[c].unlock = escrows[c].created + EscrowDelay /\ escrows[c].marginal # {}
    /\ Reward <= CandidateBond /\ c \in Bonded /\ candidateBonds[c].bound
    /\ Cardinality(escrows[c].committee) = Quorum /\ escrows[c].committee \subseteq evaluators
    /\ outsideRoles(c)

\* The pending escrows enter a copy of the memory one after the other and gain
\* exactly what they reserved.
restoredReservations ==
    \A c \in Escrowed :
        LET known == memory \union {d \in Escrowed : MaturesBefore(d, c)} IN
        c \notin known /\ marginalGains(c, known) = escrows[c].marginal

-----------------------------------------------------------------------------
(* Properties                                                              *)

\* Coins are paid, burned or refunded exactly once: balances, bonds, pending
\* rewards and burned coins add up to the funds and what was mined.
ProgressConserved ==
    balances + burned + SumFunction(evaluatorBonds) + CandidateBond * Cardinality(Bonded)
        + Reward * Cardinality(Escrowed) + ValidatorBond * Cardinality(registeredValidators) = Funds + EvaluatorBond * Cardinality(GenesisEvaluators) + mined

\* A bond is bound by exactly one commitment or escrow, which is what refunds,
\* fraud and maturity need not to throw.
BoundOnce ==
    /\ Committed \intersect Escrowed = {}
    /\ Committed \union Escrowed = {c \in Bonded : candidateBonds[c].bound}

\* No commitment waits for an evaluator that was disabled: it could only age
\* and lose its bond.
CommitteesLive == \A c \in Committed : commitments[c].committee \intersect disabled = {}

\* A candidate with a fraud proof, the last block of its escrow included,
\* never enters the capability memory that later rewards are measured against.
FraudBeatsMaturity == proven \intersect memory = {}

\* Candidates whose owner has registered as a validator since the commitment.
Conflicted == {c \in Committed \union Escrowed : Owner[c] \in registeredValidators}

\* ProgressRestores: the state between two blocks passes fromVerifiedSnapshot,
\* unless the owner of a candidate has registered as a validator meanwhile: the
\* ledger lets him, and the loader then refuses its state.
ProgressRestores ==
    (~open /\ Conflicted = {}) =>
             /\ restoredEvaluators /\ restoredReservations
             /\ \A c \in Committed : restoredCommitment(c)
             /\ \A c \in Escrowed : restoredEscrow(c)

\* The escrows due in the next block can all enter the capability memory.
\* Otherwise accept throws in every block and the chain stops.
MaturityNeverThrows ==
    ~open => MaturityAccepted({c \in Escrowed : height + 1 >= escrows[c].unlock})

=============================================================================
