------------------------- MODULE SafetyRandomness -------------------------
(***************************************************************************)
(* Safety candidates of blockchain/chain.mjs: a bond locked in block h,    *)
(* validators' randomness commits in h+1 and reveals in h+2, and then a    *)
(* committee, or in h+3 the penalty of the non-revealers with a fallback   *)
(* beacon or a refund; a settled failure pays the reporter and evaluators  *)
(* and burns the rest.  Validators may meanwhile be slashed or leave.      *)
(* A block is applied in the code's order: claims, transactions,           *)
(* contributions, and the loop over the candidates (EndBlock).             *)
(***************************************************************************)
EXTENDS Integers, FiniteSets, FiniteSetsExt

CONSTANTS
    Validators, Candidates,
    MinBond,            \* MIN_VALIDATOR_BOND
    CandidateBond,      \* the bond of every safety candidate
    Evaluators,         \* size of the committee, #evaluationQuorum
    SlashDivisor,       \* 10_000 / NON_REVEAL_SLASH_BPS
    WithdrawalDelay,    \* VALIDATOR_WITHDRAWAL_DELAY_BLOCKS
    Funds,              \* spendable money of all accounts at genesis
    MaxHeight           \* bound on the blocks of a run

ASSUME SafetyConstants ==
    /\ IsFiniteSet(Validators) /\ IsFiniteSet(Candidates)
    /\ MinBond \in Nat \ {0} /\ CandidateBond \in Nat /\ Funds \in Nat /\ WithdrawalDelay \in Nat
    /\ Evaluators \in Nat \ {0} /\ SlashDivisor \in Nat \ {0}

None == [none |-> TRUE]

VARIABLES
    height, phase,      \* of the block being applied: "claims", "txs", "contributions"
    balances,           \* sum of all balances
    burned,
    validatorBonds,     \* validatorBonds[v], 0 when there is no entry
    validators,         \* the active set
    disabledValidators, \* slashed
    retiredValidators,  \* withdrawn: no longer registered
    nonRevealers,       \* every validator that randomnessFaults names
    exits,              \* exits[v]: None or [unlockHeight], 0 while v is still active
    candidateBonds,     \* candidateBonds[c]: None or the candidate's record
    fallback,           \* candidates with a fallback beacon in this block
    used                \* candidates that have existed (the id is a hash with the nonce)

vars == <<height, phase, balances, burned, validatorBonds, validators,
          disabledValidators, retiredValidators, nonRevealers, exits, candidateBonds, fallback, used>>

Candidate(h) == [committedHeight |-> h, committee |-> FALSE, commits |-> {}, reveals |-> {}]

Init ==
    /\ height = 1 /\ phase = "claims"
    /\ balances = Funds /\ burned = 0
    /\ validatorBonds = [v \in Validators |-> MinBond]
    /\ validators = Validators
    /\ disabledValidators = {} /\ retiredValidators = {} /\ nonRevealers = {}
    /\ exits = [v \in Validators |-> None]
    /\ candidateBonds = [c \in Candidates |-> None]
    /\ fallback = {} /\ used = {}

Locked == {c \in Candidates : candidateBonds[c] # None}

\* Mutant: what the equal shares leave over is neither paid nor burned.
SettlementLosesRest ==
    LET reporter == (7 * CandidateBond) \div 10
        pool == CandidateBond \div 10
    IN  [reporter |-> reporter, evaluators |-> Evaluators * (pool \div Evaluators),
         burned |-> CandidateBond - reporter - pool]

\* 70 % to the reporter, 10 % in equal shares, everything else burned.
calculateSafetySettlement ==
    LET reporter == (7 * CandidateBond) \div 10
        paid == Evaluators * ((CandidateBond \div 10) \div Evaluators)
    IN  [reporter |-> reporter, evaluators |-> paid, burned |-> CandidateBond - reporter - paid]

\* All assigned evaluators signed and none of them was disabled since.
verifySafetyClaim(c) ==
    /\ phase = "claims"
    /\ c \in Locked /\ candidateBonds[c].committee
    /\ LET s == calculateSafetySettlement IN
       /\ balances' = balances + s.reporter + s.evaluators
       /\ burned' = burned + s.burned
    /\ candidateBonds' = [candidateBonds EXCEPT ![c] = None]
    /\ UNCHANGED <<height, phase, validatorBonds, validators, disabledValidators, retiredValidators,
                   nonRevealers, exits, fallback, used>>

InTransactions == phase \in {"claims", "txs"} /\ phase' = "txs"

applyCandidateBond(c) ==
    /\ InTransactions
    /\ c \notin used /\ balances >= CandidateBond
    /\ used' = used \union {c}
    /\ balances' = balances - CandidateBond
    /\ candidateBonds' = [candidateBonds EXCEPT ![c] = Candidate(height)]
    /\ UNCHANGED <<height, burned, validatorBonds, validators, disabledValidators, retiredValidators,
                   nonRevealers, exits, fallback>>

\* Two conflicting votes, or an omission: the whole bond is burned.  The
\* reporter's share of an omission penalty stays within the balances.
applyValidatorEquivocation(v) ==
    /\ InTransactions
    /\ validatorBonds[v] >= MinBond /\ v \notin disabledValidators
    /\ burned' = burned + validatorBonds[v]
    /\ validatorBonds' = [validatorBonds EXCEPT ![v] = 0]
    /\ disabledValidators' = disabledValidators \union {v}
    /\ UNCHANGED <<height, balances, validators, retiredValidators, nonRevealers, exits,
                   candidateBonds, fallback, used>>

Unrevealed(v) == \E c \in Locked : v \in candidateBonds[c].commits \ candidateBonds[c].reveals

hasPendingValidatorRandomnessObligation(v) ==
    \E c \in Locked : v \in candidateBonds[c].commits \ candidateBonds[c].reveals

\* The delay begins once the validator is outside the active set.
applyValidatorExitRequest(v) ==
    /\ InTransactions
    /\ v \notin retiredValidators /\ exits[v] = None
    /\ validatorBonds[v] > 0 \/ v \in disabledValidators
    /\ ~hasPendingValidatorRandomnessObligation(v)
    /\ exits' = [exits EXCEPT ![v] =
           [unlockHeight |-> IF v \in validators THEN 0 ELSE height + WithdrawalDelay]]
    /\ UNCHANGED <<height, balances, burned, validatorBonds, validators,
                   disabledValidators, retiredValidators, nonRevealers, candidateBonds, fallback, used>>

\* The identity retires with its exit and, when it was slashed, its mark.
applyValidatorWithdrawalClaim(v) ==
    /\ InTransactions
    /\ exits[v] # None /\ exits[v].unlockHeight # 0 /\ height >= exits[v].unlockHeight
    /\ v \notin validators
    /\ ~hasPendingValidatorRandomnessObligation(v)
    /\ balances' = balances + validatorBonds[v]
    /\ validatorBonds' = [validatorBonds EXCEPT ![v] = 0]
    /\ retiredValidators' = retiredValidators \union {v}
    /\ disabledValidators' = disabledValidators \ {v}
    /\ exits' = [exits EXCEPT ![v] = None]
    /\ UNCHANGED <<height, burned, validators, nonRevealers, candidateBonds, fallback, used>>

\* The commits and the reveals of the candidates that were locked in block h,
\* as pairs of candidate and validator: those of block h+1 and of block h+2.
CommitsFor(h) ==
    {p \in Locked \X Validators : /\ candidateBonds[p[1]].committedHeight = h
                                  /\ p[2] \in candidateBonds[p[1]].commits}
RevealsFor(h) ==
    {p \in Locked \X Validators : /\ candidateBonds[p[1]].committedHeight = h
                                  /\ p[2] \in candidateBonds[p[1]].reveals}

\* A block has room for as many commits, and reveals, as it has validators.
RandomnessCommit(c, v) ==
    /\ c \in Locked /\ ~candidateBonds[c].committee
    /\ height = candidateBonds[c].committedHeight + 1
    /\ Cardinality(CommitsFor(height - 1)) < Cardinality(validators)
    /\ validatorBonds[v] >= MinBond /\ exits[v] = None
    /\ v \in validators \ candidateBonds[c].commits
    /\ phase' = "contributions"
    /\ candidateBonds' = [candidateBonds EXCEPT ![c].commits = @ \union {v}]
    /\ UNCHANGED <<height, balances, burned, validatorBonds, validators, disabledValidators,
                   retiredValidators, nonRevealers, exits, fallback, used>>

RandomnessReveal(c, v) ==
    /\ c \in Locked /\ ~candidateBonds[c].committee
    /\ height = candidateBonds[c].committedHeight + 2
    /\ Cardinality(RevealsFor(height - 2)) < Cardinality(validators)
    /\ v \in validators /\ v \in candidateBonds[c].commits \ candidateBonds[c].reveals
    /\ phase' = "contributions"
    /\ candidateBonds' = [candidateBonds EXCEPT ![c].reveals = @ \union {v}]
    /\ UNCHANGED <<height, balances, burned, validatorBonds, validators, disabledValidators,
                   retiredValidators, nonRevealers, exits, fallback, used>>

\* A quorum of the beacon registry signed shares for this candidate and height.
verifyFallbackBeacon(c) ==
    /\ c \in Locked \ fallback /\ height = candidateBonds[c].committedHeight + 3
    /\ phase' = "contributions"
    /\ fallback' = fallback \union {c}
    /\ UNCHANGED <<height, balances, burned, validatorBonds, validators,
                   disabledValidators, retiredValidators, nonRevealers, exits, candidateBonds, used>>

-----------------------------------------------------------------------------
(* The loop over the candidates at the end of a block.                     *)

Quorum == (2 * Cardinality(validators)) \div 3 + 1

Revealed(c) == ~candidateBonds[c].committee /\ Cardinality(candidateBonds[c].reveals) >= Quorum

\* Mutant: a candidate faults before the block of its deadline.
FaultedEarly(c) ==
    /\ ~candidateBonds[c].committee /\ ~Revealed(c)
    /\ height >= candidateBonds[c].committedHeight + 2
    /\ Cardinality(candidateBonds[c].commits) >= Quorum
    /\ candidateBonds[c].commits # candidateBonds[c].reveals

Faulted(c) ==
    /\ ~candidateBonds[c].committee /\ ~Revealed(c)
    /\ height >= candidateBonds[c].committedHeight + 3
    /\ Cardinality(candidateBonds[c].commits) >= Quorum
    /\ candidateBonds[c].commits # candidateBonds[c].reveals

\* Mutant: a bond too small for one percent is taken whole.
PenaltyWhole(bond) == IF bond \div SlashDivisor > 0 THEN bond \div SlashDivisor ELSE bond

\* The penalty is one percent, and one atom when that rounds to nothing.
Penalty(bond) == IF bond \div SlashDivisor > 0 THEN bond \div SlashDivisor ELSE 1

\* What the penalties of n candidates, one after the other, leave of a bond.
SlashedTimes[n \in Nat] ==
    [bond \in Int |-> IF n = 0 THEN bond ELSE SlashedTimes[n - 1][bond - Penalty(bond)]]

\* leaving is the set a rotation that is active after this block leaves out.
EndBlock(leaving) ==
    LET faults == {c \in Locked : Faulted(c)}
        refunds == faults \ fallback
        charges(v) == {c \in faults : v \in candidateBonds[c].commits \ candidateBonds[c].reveals}
        after == [v \in Validators |-> IF charges(v) = {} THEN validatorBonds[v]
                                       ELSE SlashedTimes[Cardinality(charges(v))][validatorBonds[v]]]
    IN  /\ height < MaxHeight
        /\ validatorBonds' = after
        /\ burned' = burned + SumFunction([v \in Validators |-> validatorBonds[v] - after[v]])
        /\ nonRevealers' = nonRevealers \union {v \in Validators : charges(v) # {}}
        /\ balances' = balances + CandidateBond * Cardinality(refunds)
        /\ candidateBonds' = [c \in Candidates |->
               IF c \in refunds THEN None
               ELSE IF c \in Locked /\ (Revealed(c) \/ c \in faults)
                    THEN [candidateBonds[c] EXCEPT !.committee = TRUE]
               ELSE candidateBonds[c]]
        /\ height' = height + 1 /\ phase' = "claims" /\ fallback' = {}
        /\ validators' = validators \ leaving /\ validators' # {}
        /\ exits' = [v \in Validators |->
               IF exits[v] # None /\ exits[v].unlockHeight = 0 /\ v \notin validators'
               THEN [unlockHeight |-> height + WithdrawalDelay] ELSE exits[v]]
        /\ UNCHANGED <<disabledValidators, retiredValidators, used>>

Next ==
    \/ \E c \in Candidates : verifySafetyClaim(c) \/ applyCandidateBond(c) \/ verifyFallbackBeacon(c)
    \/ \E v \in Validators : \/ applyValidatorEquivocation(v) \/ applyValidatorExitRequest(v)
                             \/ applyValidatorWithdrawalClaim(v)
    \/ \E c \in Candidates, v \in Validators : RandomnessCommit(c, v) \/ RandomnessReveal(c, v)
    \/ \E v \in Validators : EndBlock({}) \/ EndBlock({v})

Spec == Init /\ [][Next]_vars

-----------------------------------------------------------------------------
\* fromVerifiedSnapshot: the checks of candidate bonds, of pending exits (of the
\* block before this one or an earlier one) and of validator bonds.
restoredCandidate(c) ==
    LET r == candidateBonds[c] IN
    r.committedHeight < height /\ r.reveals \subseteq r.commits

restoredExit(v) ==
    /\ v \notin retiredValidators
    /\ exits[v].unlockHeight = 0 <=> v \in validators
    /\ exits[v].unlockHeight < height + WithdrawalDelay
    /\ validatorBonds[v] > 0 \/ v \in disabledValidators
    /\ ~hasPendingValidatorRandomnessObligation(v)

restoredBond(v) ==
    /\ validatorBonds[v] >= 0
    /\ v \in disabledValidators => v \notin retiredValidators /\ validatorBonds[v] = 0

-----------------------------------------------------------------------------
(* Properties                                                              *)

\* SafetyConserved: locking, settling, refunding and slashing move money between
\* balances, candidate bonds, validator bonds and the burned total, and lose none.
SafetyConserved ==
    balances + burned + CandidateBond * Cardinality(Locked) + SumFunction(validatorBonds)
        = Funds + MinBond * Cardinality(Validators)

\* OnTime: the end of a block touches the bond only of a validator that has
\* committed for a locked candidate, has not revealed, and has had the whole
\* reveal block to do so.
SlashedOnTime(v) ==
    (validatorBonds'[v] # validatorBonds[v] /\ phase' = "claims")
    => \E c \in Locked : /\ height > candidateBonds[c].committedHeight + 2
                         /\ v \in candidateBonds[c].commits \ candidateBonds[c].reveals
OnTime == [][\A v \in Validators : SlashedOnTime(v)]_vars

\* ObligedAreBonded: no validator with an unrevealed commitment has taken its bond
\* home: leaving waits for the reveal, so a non-reveal can be punished.  Only
\* slashing, which leaves the validator disabled, takes the bond earlier.
ObligedAreBonded ==
    \A v \in Validators :
        (Unrevealed(v) /\ v \notin disabledValidators) => validatorBonds[v] > 0

\* A slashed validator has no bond, and a missed reveal is charged all the same.
ChargedAfterSlash == \E v \in disabledValidators \cap nonRevealers : validatorBonds[v] < 0

\* SafetySnapshotRestores: the state between two blocks passes the checks of
\* fromVerifiedSnapshot, except while a validator that was slashed and then
\* charged for a missed reveal is registered: nobody on the way out owes a
\* reveal, no other bond is overdrawn, and no slashed validator keeps one.
SafetySnapshotRestores ==
    (phase = "claims" /\ ~ChargedAfterSlash) =>
        /\ \A c \in Locked : restoredCandidate(c)
        /\ \A v \in Validators : exits[v] # None => restoredExit(v)
        /\ \A v \in Validators : restoredBond(v)
=============================================================================
