-------------------------- MODULE TransferCredits --------------------------
(***************************************************************************)
(* Transfer Credits of blockchain/chain.mjs: locked stake gives an owner a *)
(* number of free transfers per epoch, used by the owner, by an account it *)
(* sponsors or by a delegate (applyCreditTransferState).  Nonces, which a  *)
(* sponsor and a delegator spend like every signer, are in Transfers.      *)
(***************************************************************************)
EXTENDS Integers, FiniteSets, FiniteSetsExt

CONSTANTS
    Accounts, Proposer,     \* Proposer \in Accounts receives every fee
    Funds,                  \* spendable balance of every account at genesis
    StakeUnit,              \* TRANSFER_CREDIT_STAKE_UNIT
    CreditsPerUnit,         \* TRANSFER_CREDITS_PER_STAKE_UNIT
    EpochBlocks,            \* TRANSFER_CREDIT_EPOCH_BLOCKS
    UnstakeDelay,           \* CREDIT_UNSTAKE_DELAY_BLOCKS
    MaxCreditTransfers,     \* MAX_CREDIT_TRANSFERS_PER_BLOCK
    MaxDelegations,         \* MAX_CREDIT_DELEGATIONS_PER_OWNER
    MinFee, StakeAmounts, Limits,
    MaxHeight               \* bound on the blocks of a run


None == [none |-> TRUE]

VARIABLES
    height,            \* of the block being applied
    paidByCredit,      \* credit transfers in it so far
    balances, creditStakes,
    creditUnstakes,    \* creditUnstakes[a]: [amount, unlockHeight] or None
    creditUsage,       \* creditUsage[a]: [epoch, spent] or None
    creditDelegations, \* creditDelegations[<<owner, delegate>>]: [epoch, limit, spent] or None
    charged,           \* charged[a]: credits of a used in the current epoch (history)
    exited             \* exited[a]: charged[a] when a last left with no stake (history)

vars == <<height, paidByCredit, balances, creditStakes, creditUnstakes, creditUsage,
          creditDelegations, charged, exited>>
history == <<charged, exited>>

transferCreditEpoch(h) == IF h = 0 THEN 0 ELSE (h - 1) \div EpochBlocks
transferCreditAllowance(stake) == (stake * CreditsPerUnit) \div StakeUnit

Init ==
    /\ height = 1 /\ paidByCredit = 0
    /\ balances = [a \in Accounts |-> Funds]
    /\ creditStakes = [a \in Accounts |-> 0]
    /\ creditUnstakes = [a \in Accounts |-> None]
    /\ creditUsage = [a \in Accounts |-> None]
    /\ creditDelegations = [p \in Accounts \X Accounts |-> None]
    /\ charged = [a \in Accounts |-> 0]
    /\ exited = [a \in Accounts |-> 0]

Epoch == transferCreditEpoch(height)

\* Counters renew lazily: one of an earlier epoch counts as zero.
SpentOf(counter) == IF counter # None /\ counter.epoch = Epoch THEN counter.spent ELSE 0

PayFee(bs, a) == [[bs EXCEPT ![a] = @ - MinFee] EXCEPT ![Proposer] = @ + MinFee]

Charge(owner, sender, delegated) ==
    /\ creditUsage' = [creditUsage EXCEPT ![owner] = [epoch |-> Epoch, spent |-> SpentOf(@) + 1]]
    /\ creditDelegations' = IF ~delegated THEN creditDelegations
           ELSE LET d == creditDelegations[<<owner, sender>>] IN
                [creditDelegations EXCEPT ![<<owner, sender>>] =
                    [d EXCEPT !.epoch = Epoch, !.spent = SpentOf(d) + 1]]

\* The owner of the credit is the sender, its sponsor or the delegator it names.
applyCreditTransferState(sender, recipient, owner, delegated) ==
    /\ paidByCredit < MaxCreditTransfers
    /\ delegated => owner # sender
    /\ balances[sender] >= 1
    /\ transferCreditAllowance(creditStakes[owner]) > SpentOf(creditUsage[owner])
    /\ delegated => /\ creditDelegations[<<owner, sender>>] # None
                    /\ SpentOf(creditDelegations[<<owner, sender>>]) < creditDelegations[<<owner, sender>>].limit
    /\ balances' = [[balances EXCEPT ![sender] = @ - 1] EXCEPT ![recipient] = @ + 1]
    /\ Charge(owner, sender, delegated)
    /\ paidByCredit' = paidByCredit + 1
    /\ charged' = [charged EXCEPT ![owner] = @ + 1]
    /\ UNCHANGED <<height, creditStakes, creditUnstakes, exited>>

applyCreditStake(a, amount) ==
    /\ amount > 0 /\ balances[a] >= amount + MinFee
    /\ balances' = PayFee([balances EXCEPT ![a] = @ - amount], a)
    /\ creditStakes' = [creditStakes EXCEPT ![a] = @ + amount]
    /\ UNCHANGED <<height, paidByCredit, creditUnstakes, creditUsage, creditDelegations, charged, exited>>

\* A revocation may be paid from the stake when the balance does not suffice.
applyCreditDelegation(a, delegate, limit) ==
    LET previous == creditDelegations[<<a, delegate>>]
        owned == {d \in Accounts : creditDelegations[<<a, d>>] # None}
        spent == SpentOf(previous)
        fromStake == limit = 0 /\ balances[a] < MinFee
    IN  /\ delegate # a
        /\ limit > 0 => creditStakes[a] >= StakeUnit
        /\ IF fromStake THEN creditStakes[a] >= MinFee ELSE balances[a] >= MinFee
        /\ IF limit = 0 THEN previous # None
           ELSE (previous # None \/ Cardinality(owned) < MaxDelegations) /\ limit >= spent
        /\ creditDelegations' = [creditDelegations EXCEPT ![<<a, delegate>>] =
               IF limit = 0 THEN None ELSE [epoch |-> Epoch, limit |-> limit, spent |-> spent]]
        /\ IF fromStake
           THEN /\ creditStakes' = [creditStakes EXCEPT ![a] = @ - MinFee]
                /\ balances' = [balances EXCEPT ![Proposer] = @ + MinFee]
           ELSE balances' = PayFee(balances, a) /\ UNCHANGED creditStakes
        /\ UNCHANGED <<height, paidByCredit, creditUnstakes, creditUsage, history>>

applyCreditUnstakeRequest(a, amount) ==
    /\ creditUnstakes[a] = None
    /\ amount > MinFee /\ creditStakes[a] >= amount
    /\ creditStakes' = [creditStakes EXCEPT ![a] = @ - amount]
    /\ creditUnstakes' = [creditUnstakes EXCEPT ![a] =
           [amount |-> amount - MinFee, unlockHeight |-> height + UnstakeDelay]]
    /\ balances' = [balances EXCEPT ![Proposer] = @ + MinFee]
    /\ UNCHANGED <<height, paidByCredit, creditUsage, creditDelegations, history>>

\* With no stake left the owner's counter and its delegations are deleted.
applyCreditUnstakeClaim(a) ==
    /\ creditUnstakes[a] # None /\ height >= creditUnstakes[a].unlockHeight
    /\ balances' = [balances EXCEPT ![a] = @ + creditUnstakes[a].amount]
    /\ creditUnstakes' = [creditUnstakes EXCEPT ![a] = None]
    /\ creditUsage' = IF creditStakes[a] = 0 THEN [creditUsage EXCEPT ![a] = None] ELSE creditUsage
    /\ creditDelegations' = [p \in Accounts \X Accounts |->
           IF creditStakes[a] = 0 /\ p[1] = a THEN None ELSE creditDelegations[p]]
    /\ exited' = IF creditStakes[a] = 0 THEN [exited EXCEPT ![a] = charged[a]] ELSE exited
    /\ UNCHANGED <<height, paidByCredit, creditStakes, charged>>

NextBlock ==
    /\ height < MaxHeight
    /\ height' = height + 1
    /\ paidByCredit' = 0
    /\ IF transferCreditEpoch(height + 1) = Epoch THEN UNCHANGED history
       ELSE /\ charged' = [a \in Accounts |-> 0]
            /\ exited' = [a \in Accounts |-> 0]
    /\ UNCHANGED <<balances, creditStakes, creditUnstakes, creditUsage, creditDelegations>>

Next ==
    \/ \E a, b, o \in Accounts, d \in BOOLEAN : applyCreditTransferState(a, b, o, d)
    \/ \E a \in Accounts, n \in StakeAmounts : applyCreditStake(a, n) \/ applyCreditUnstakeRequest(a, n)
    \/ \E a, b \in Accounts, n \in Limits : applyCreditDelegation(a, b, n)
    \/ \E a \in Accounts : applyCreditUnstakeClaim(a)
    \/ NextBlock

Spec == Init /\ [][Next]_vars

-----------------------------------------------------------------------------
(* What fromVerifiedSnapshot requires of the state                         *)

restoredDelegation(p) ==
    p[1] # p[2] /\ creditDelegations[p].limit >= 1 /\ creditDelegations[p].spent <= creditDelegations[p].limit
restoredUnstake(a) == creditUnstakes[a].unlockHeight >= 1

-----------------------------------------------------------------------------
(* Properties                                                              *)

Held(a) == balances[a] + creditStakes[a] + (IF creditUnstakes[a] = None THEN 0 ELSE creditUnstakes[a].amount)

\* CreditConserved: staking, delegating and leaving move money between balance,
\* stake and pending exit, and no step creates or loses any.
CreditConserved == MapThenSumSet(Held, Accounts) = Funds * Cardinality(Accounts)

\* UsageExact: the owner's counter has every credit of the epoch that was used on
\* its stake, directly, as a sponsor or through a delegate, since it last left with
\* no stake.
UsageExact == \A a \in Accounts : SpentOf(creditUsage[a]) = charged[a] - exited[a]

\* CreditsRestore: renewed counters and changed limits included, a delegation has
\* never spent more than its limit, which a snapshot of it would be refused for.
CreditsRestore ==
    /\ \A p \in DOMAIN creditDelegations : creditDelegations[p] # None => restoredDelegation(p)
    /\ \A a \in Accounts : creditUnstakes[a] # None => restoredUnstake(a)

\* NoStaleDelegation: after a complete exit no allowance of an earlier stake is
\* left that would come alive again with the next stake.
NoStaleDelegation ==
    \A a \in Accounts :
           (creditUnstakes[a] # None /\ creditUnstakes'[a] = None /\ creditStakes[a] = 0)
           => \A d \in Accounts : creditDelegations'[<<a, d>>] = None

=============================================================================
