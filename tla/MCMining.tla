------------------------------ MODULE MCMining ------------------------------
(* The components of the ledger that pay for work: progress candidates with*)
(* their evaluators, escrows and fraud proofs, and proof mining; and the   *)
(* transfer and mandate transitions that exist in JavaScript and in Rust. A*)
(* behaviour is a behaviour of one of them.                                *)
EXTENDS ProofMining, Integers, FiniteSets, TLC

VARIABLES part,   \* the component that this behaviour is about
    height1, open1, txs1, candidateBonds, commitments, escrows1, memory, rewarded, proven,
    evaluators, pendingEvaluators, evaluatorBonds, disabled, registeredValidators, balances1,
    burned1, mined1, s, paid, feeRecipient, spentBy

suiteVars == <<part,
    height, open, txs, round, level, tasks, commits, pendingRewards, escrows, epoch, lastReward,
    mined, balances, burned, submitted, forfeited, won, height1, open1, txs1, candidateBonds,
    commitments, escrows1, memory, rewarded, proven, evaluators, pendingEvaluators, evaluatorBonds,
    disabled, registeredValidators, balances1, burned1, mined1, s, paid, feeRecipient, spentBy>>

One == [c \in {"c1", "c2"} |-> IF c = "c1" THEN 1 ELSE 2]
Gains(a, b) == [k \in {"k1", "k2"} |-> IF k = "k1" THEN a ELSE b]
\* In hundredths of a percent over the references: one capability each, or both the same.
Separate == [c \in {"c1", "c2"} |-> IF c = "c1" THEN Gains(150, 0) ELSE Gains(0, 120)]
Same == [c \in {"c1", "c2"} |-> IF c = "c1" THEN Gains(150, 0) ELSE Gains(120, 0)]
Policy(e, mf, mp, fl, l, life) == [escrow |-> e, maxFee |-> mf, maxPer |-> mp, feeLimit |-> fl, limit |-> l, life |-> life]
\* One mandate lives a block longer than the other; a second transfer can meet
\* the limit of either.
SomePolicies == {Policy(4, 1, 2, 2, 2, 2), Policy(4, 1, 2, 1, 3, 1)}
Roles == {"a", "b", "c"}
\* A poor sender, a recipient near the largest balance, an owner with one credit.
Senders == {"a", "b", "m"}
SenderFunds == [a \in Senders |-> IF a = "a" THEN 3 ELSE IF a = "b" THEN 6 ELSE 2]
SenderStakes == {[a \in Senders |-> IF a = "b" THEN 3 ELSE 0]}

-----------------------------------------------------------------------------
\* Two candidates that improve a capability each, three evaluators.
PL == INSTANCE ProgressLedger WITH
    Candidates <- {"c1", "c2"}, Capabilities <- {"k1", "k2"}, Order <- One, Owner <- One, Applicants
    <- {1}, ValidatorBond <- 2, MinGain <- 100, Evaluators <- {"e1", "e2", "e3"}, GenesisEvaluators
    <- {"e1", "e2"}, Quorum <- 1, CandidateBond <- 2, EvaluatorBond <- 3, Reward <- 1, EscrowDelay
    <- 2, BindingTimeout <- 2, CommitmentAge <- 4, Lifetime <- 2, ActivationDelay <- 1, Funds <- 7,
    MaxTx <- 1, Score <- Separate, AdmissionQueue <- TRUE, MaxHeight <- 8, height <- height1, open
    <- open1, txs <- txs1, escrows <- escrows1, balances <- balances1, burned <- burned1, mined <-
    mined1
ProgressInit ==
    /\ part = "progress" /\ PL!Init /\ Init /\ s = 0 /\ paid = 0 /\ feeRecipient = 0 /\ spentBy = 0
ProgressStep ==
    /\ part = "progress" /\ PL!Next
    /\ UNCHANGED <<part,
        height, open, txs, round, level, tasks, commits, pendingRewards, escrows, epoch, lastReward,
        mined, balances, burned, submitted, forfeited, won, s, paid, feeRecipient, spentBy>>
-----------------------------------------------------------------------------
\* Two candidates that improve the same capability.
PR == INSTANCE ProgressLedger WITH
    Candidates <- {"c1", "c2"}, Capabilities <- {"k1", "k2"}, Order <- One, Owner <- One, Applicants
    <- {1}, ValidatorBond <- 2, MinGain <- 100, Evaluators <- {"e1", "e2", "e3"}, GenesisEvaluators
    <- {"e1", "e2"}, Quorum <- 1, CandidateBond <- 2, EvaluatorBond <- 3, Reward <- 1, EscrowDelay
    <- 2, BindingTimeout <- 2, CommitmentAge <- 4, Lifetime <- 2, ActivationDelay <- 1, Funds <- 7,
    MaxTx <- 1, Score <- Same, AdmissionQueue <- FALSE, MaxHeight <- 9, height <- height1, open <-
    open1, txs <- txs1, escrows <- escrows1, balances <- balances1, burned <- burned1, mined <-
    mined1
ReservedInit ==
    /\ part = "reserved" /\ PR!Init /\ Init /\ s = 0 /\ paid = 0 /\ feeRecipient = 0 /\ spentBy = 0
ReservedStep ==
    /\ part = "reserved" /\ PR!Next
    /\ UNCHANGED <<part,
        height, open, txs, round, level, tasks, commits, pendingRewards, escrows, epoch, lastReward,
        mined, balances, burned, submitted, forfeited, won, s, paid, feeRecipient, spentBy>>
-----------------------------------------------------------------------------
\* Two miners and the tasks of two beacon rounds.
ProofInit ==
    /\ part = "proof" /\ Init /\ height1 = 0 /\ open1 = 0 /\ txs1 = 0 /\ candidateBonds = 0
    /\ commitments = 0 /\ escrows1 = 0 /\ memory = 0 /\ rewarded = 0 /\ proven = 0 /\ evaluators = 0
    /\ pendingEvaluators = 0 /\ evaluatorBonds = 0 /\ disabled = 0 /\ registeredValidators = 0
    /\ balances1 = 0 /\ burned1 = 0 /\ mined1 = 0 /\ s = 0 /\ paid = 0 /\ feeRecipient = 0
    /\ spentBy = 0
ProofStep ==
    /\ part = "proof" /\ Next
    /\ UNCHANGED <<part,
        height1, open1, txs1, candidateBonds, commitments, escrows1, memory, rewarded, proven,
        evaluators, pendingEvaluators, evaluatorBonds, disabled, registeredValidators, balances1,
        burned1, mined1, s, paid, feeRecipient, spentBy>>
-----------------------------------------------------------------------------
\* Transfers of amounts that are refused as well, for the two implementations.
TP == INSTANCE TransferStateRust WITH
    Accounts <- Senders, FeeRecipient <- "b", Shared <- "m", SharedMembers <- {"k1", "k2"},
    SharedThreshold <- 2, Keys <- {"k1", "k2"}, MaxMembers <- 2, Fees <- {0, 1}, MinFee <- 1,
    MaxAtomic <- 7, Funds <- SenderFunds, Stakes <- SenderStakes, StakeUnit <- 2, CreditsPerUnit <-
    1, EpochBlocks <- 1, MaxHeight <- 2, Amounts <- {0, 1, 2}, MaxNonce <- 1, Limits <- {1}, height
    <- height1
PairInit ==
    /\ part = "pair" /\ TP!Init /\ Init /\ open1 = 0 /\ txs1 = 0 /\ candidateBonds = 0
    /\ commitments = 0 /\ escrows1 = 0 /\ memory = 0 /\ rewarded = 0 /\ proven = 0 /\ evaluators = 0
    /\ pendingEvaluators = 0 /\ evaluatorBonds = 0 /\ disabled = 0 /\ registeredValidators = 0
    /\ balances1 = 0 /\ burned1 = 0 /\ mined1 = 0 /\ feeRecipient = 0 /\ spentBy = 0
PairStep ==
    /\ part = "pair" /\ TP!Next
    /\ UNCHANGED <<part,
        height, open, txs, round, level, tasks, commits, pendingRewards, escrows, epoch, lastReward,
        mined, balances, burned, submitted, forfeited, won, open1, txs1, candidateBonds,
        commitments, escrows1, memory, rewarded, proven, evaluators, pendingEvaluators,
        evaluatorBonds, disabled, registeredValidators, balances1, burned1, mined1, feeRecipient,
        spentBy>>
-----------------------------------------------------------------------------
\* Mandates that expire, and balances close to the largest amount, for the two
\* implementations.
AR == INSTANCE AgentMandateRust WITH
    Accounts <- Roles, Proposers <- {"c"}, Ids <- {1, 2}, Policies <- SomePolicies, Funds <- 5,
    MinFee <- 1, MaxNonce <- 100, MaxPerOwner <- 1, MaxGlobal <- 2, MaxLifetime <- 2, PruneBatch <-
    1, Amounts <- {1, 2}, Fees <- {0, 1, 2}, MaxHeight <- 2, MaxAtomic <- 7, MaxAccountNonce <- 1,
    height <- height1
MandatePairInit ==
    /\ part = "mandatepair" /\ AR!Init /\ Init /\ open1 = 0 /\ txs1 = 0 /\ candidateBonds = 0
    /\ commitments = 0 /\ escrows1 = 0 /\ memory = 0 /\ rewarded = 0 /\ proven = 0 /\ evaluators = 0
    /\ pendingEvaluators = 0 /\ evaluatorBonds = 0 /\ disabled = 0 /\ registeredValidators = 0
    /\ balances1 = 0 /\ burned1 = 0 /\ mined1 = 0 /\ paid = 0
MandatePairStep ==
    /\ part = "mandatepair" /\ AR!Next
    /\ UNCHANGED <<part,
        height, open, txs, round, level, tasks, commits, pendingRewards, escrows, epoch, lastReward,
        mined, balances, burned, submitted, forfeited, won, open1, txs1, candidateBonds,
        commitments, escrows1, memory, rewarded, proven, evaluators, pendingEvaluators,
        evaluatorBonds, disabled, registeredValidators, balances1, burned1, mined1, paid>>
-----------------------------------------------------------------------------
SuiteInit ==
    \/ ProgressInit
    \/ ReservedInit
    \/ ProofInit
    \/ PairInit
    \/ MandatePairInit
SuiteNext ==
    \/ ProgressStep
    \/ ReservedStep
    \/ ProofStep
    \/ PairStep
    \/ MandatePairStep
SuiteSpec == SuiteInit /\ [][SuiteNext]_suiteVars

\* ProgressLedger: a candidate with a fraud proof is never paid; bonds and
\* rewards are paid, burned or refunded once; no commitment waits for a
\* disabled evaluator; what is due matures together; the state restores.
\* ProofMining: locked commitments belong to open tasks, which close in time,
\* and what is locked is returned, burned or minted once.
WorkPaidOnce ==
    /\ part = "progress" =>
           PL!FraudBeatsMaturity /\ PL!ProgressConserved /\ PL!BoundOnce /\ PL!CommitteesLive /\
           PL!ProgressRestores
    /\ part = "reserved" =>
           PR!FraudBeatsMaturity /\ PR!ProgressConserved /\ PR!BoundOnce /\ PR!CommitteesLive /\
           PR!ProgressRestores /\ PR!MaturityNeverThrows
    /\ part = "proof" => CommitsOpen /\ TaskCloses /\ ProofConserved

\* JavaScript and Rust give every transfer and every mandate transaction the
\* same answer and next state.
Agree ==
    /\ part = "pair" => TP!AgreeTransfers
    /\ part = "mandatepair" => AR!Agree

=============================================================================
