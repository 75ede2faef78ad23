----------------------------- MODULE MCAccounts -----------------------------
(* The account components of the ledger on small instances: transfers,     *)
(* transfer credits and their quota, native assets, names and agent        *)
(* mandates, and the rules of the block they are in. A behaviour is a      *)
(* behaviour of one of them; part says of which.                           *)
EXTENDS NameRegistry, Integers, FiniteSets, TLC
CONSTANTS r1, r2

VARIABLES part,   \* the component that this behaviour is about
    balances1, nonces, time, proposer, open, applied, height1, paidByCredit, creditStakes,
    creditUnstakes, creditUsage, creditDelegations, charged, exited, assets, assetBalances, s, paid,
    chain, now, proposal, feeRecipient, spentBy

suiteVars == <<part,
    height, names, owners, commits, balances, burned, committed, balances1, nonces, time, proposer,
    open, applied, height1, paidByCredit, creditStakes, creditUnstakes, creditUsage,
    creditDelegations, charged, exited, assets, assetBalances, s, paid, chain, now, proposal,
    feeRecipient, spentBy>>

Holders == {"t", "f", "j"}
HolderFunds == [a \in Holders |-> IF a = "j" THEN 2 ELSE 3]
HolderLocks == [a \in {"t", "f"} |-> 2]
Policy(e, mf, mp, fl, l, life) == [escrow |-> e, maxFee |-> mf, maxPer |-> mp, feeLimit |-> fl, limit |-> l, life |-> life]
\* Each escrow has room for transfers that its limits no longer allow: the sum
\* of the amounts meets the limit of the first, the sum of the fees the second's.
SomePolicies == {Policy(6, 1, 2, 2, 3, 2), Policy(6, 1, 2, 1, 5, 1)}
Roles == {r1, r2, "c"}
\* Two of the roles never propose a block and are interchangeable.
RoleSymmetry == Permutations({r1, r2})
\* A poor sender, a recipient near the largest balance, an owner with one credit.
Senders == {"a", "b", "m"}
SenderFunds == [a \in Senders |-> IF a = "a" THEN 3 ELSE IF a = "b" THEN 6 ELSE 2]
SenderStakes == {[a \in Senders |-> IF a = "b" THEN 3 ELSE 0]}
NamePrices == [n \in {"n1", "n2"} |-> 1]
Two == {"a1", "a2"}

-----------------------------------------------------------------------------
\* Two genesis allocations and a 2-of-2 address; two transfers in one or more
\* blocks.
TR == INSTANCE Transfers WITH
    Accounts <- Holders, Treasury <- "t", Founder <- "f", Joint <- "j", Members <- {"k1", "k2"},
    Threshold <- 2, NoPayer <- "none", InitialBalance <- HolderFunds, LockedAtGenesis <-
    HolderLocks, VestingPeriod <- 2, Amounts <- {1}, MinFee <- 1, MaxTime <- 2, MaxTransfers <- 2,
    balances <- balances1
TransfersInit ==
    /\ part = "transfers" /\ TR!Init /\ Init /\ height1 = 0 /\ paidByCredit = 0 /\ creditStakes = 0
    /\ creditUnstakes = 0 /\ creditUsage = 0 /\ creditDelegations = 0 /\ charged = 0 /\ exited = 0
    /\ assets = 0 /\ assetBalances = 0 /\ s = 0 /\ paid = 0 /\ chain = 0 /\ now = 0 /\ proposal = 0
    /\ feeRecipient = 0 /\ spentBy = 0
TransfersStep ==
    /\ part = "transfers" /\ TR!Next
    /\ UNCHANGED <<part,
        height, names, owners, commits, balances, burned, committed, height1, paidByCredit,
        creditStakes, creditUnstakes, creditUsage, creditDelegations, charged, exited, assets,
        assetBalances, s, paid, chain, now, proposal, feeRecipient, spentBy>>
-----------------------------------------------------------------------------
\* Two accounts, epochs of two blocks, two credits for a unit of stake.
CR == INSTANCE TransferCredits WITH
    Accounts <- Two, Proposer <- "a2", Funds <- 3, StakeUnit <- 2, CreditsPerUnit <- 2, EpochBlocks
    <- 2, UnstakeDelay <- 1, MaxCreditTransfers <- 2, MaxDelegations <- 1, MinFee <- 1, StakeAmounts
    <- {2}, Limits <- {0, 1}, MaxHeight <- 3, height <- height1, balances <- balances1
CreditsInit ==
    /\ part = "credits" /\ CR!Init /\ Init /\ nonces = 0 /\ time = 0 /\ proposer = 0 /\ open = 0
    /\ applied = 0 /\ assets = 0 /\ assetBalances = 0 /\ s = 0 /\ paid = 0 /\ chain = 0 /\ now = 0
    /\ proposal = 0 /\ feeRecipient = 0 /\ spentBy = 0
CreditsStep ==
    /\ part = "credits" /\ CR!Next
    /\ UNCHANGED <<part,
        height, names, owners, commits, balances, burned, committed, nonces, time, proposer, open,
        applied, assets, assetBalances, s, paid, chain, now, proposal, feeRecipient, spentBy>>
-----------------------------------------------------------------------------
\* Two accounts and a holder table with room for two entries.
AS == INSTANCE NativeAssets WITH
    Accounts <- Two, Proposer <- "a2", MaxSupply <- 2, MaxAssets <- 2, MaxEntries <- 2, Funds <- 3,
    MaxNonce <- 3, balances <- balances1
AssetsInit ==
    /\ part = "assets" /\ AS!Init /\ Init /\ time = 0 /\ proposer = 0 /\ open = 0 /\ applied = 0
    /\ height1 = 0 /\ paidByCredit = 0 /\ creditStakes = 0 /\ creditUnstakes = 0 /\ creditUsage = 0
    /\ creditDelegations = 0 /\ charged = 0 /\ exited = 0 /\ s = 0 /\ paid = 0 /\ chain = 0
    /\ now = 0 /\ proposal = 0 /\ feeRecipient = 0 /\ spentBy = 0
AssetsStep ==
    /\ part = "assets" /\ AS!Next
    /\ UNCHANGED <<part,
        height, names, owners, commits, balances, burned, committed, time, proposer, open, applied,
        height1, paidByCredit, creditStakes, creditUnstakes, creditUsage, creditDelegations,
        charged, exited, s, paid, chain, now, proposal, feeRecipient, spentBy>>
-----------------------------------------------------------------------------
\* Two names, two accounts, room for one pending commitment.
NamesInit ==
    /\ part = "names" /\ Init /\ balances1 = 0 /\ nonces = 0 /\ time = 0 /\ proposer = 0 /\ open = 0
    /\ applied = 0 /\ height1 = 0 /\ paidByCredit = 0 /\ creditStakes = 0 /\ creditUnstakes = 0
    /\ creditUsage = 0 /\ creditDelegations = 0 /\ charged = 0 /\ exited = 0 /\ assets = 0
    /\ assetBalances = 0 /\ s = 0 /\ paid = 0 /\ chain = 0 /\ now = 0 /\ proposal = 0
    /\ feeRecipient = 0 /\ spentBy = 0
NamesStep ==
    /\ part = "names" /\ Next
    /\ UNCHANGED <<part,
        balances1, nonces, time, proposer, open, applied, height1, paidByCredit, creditStakes,
        creditUnstakes, creditUsage, creditDelegations, charged, exited, assets, assetBalances, s,
        paid, chain, now, proposal, feeRecipient, spentBy>>
-----------------------------------------------------------------------------
\* One owner's quota over two epochs, drawn on in every way.
TQ == INSTANCE TransferState WITH
    Accounts <- Senders, FeeRecipient <- "b", Shared <- "m", SharedMembers <- {"k1", "k2"},
    SharedThreshold <- 2, Keys <- {"k1", "k2"}, MaxMembers <- 2, Fees <- {0, 1}, MinFee <- 1,
    MaxAtomic <- 7, Funds <- SenderFunds, Stakes <- SenderStakes, StakeUnit <- 2, CreditsPerUnit <-
    1, EpochBlocks <- 1, MaxHeight <- 2, Amounts <- {1}, MaxNonce <- 2, Limits <- {0, 1}, height <-
    height1
QuotaInit ==
    /\ part = "quota" /\ TQ!Init /\ Init /\ balances1 = 0 /\ nonces = 0 /\ time = 0 /\ proposer = 0
    /\ open = 0 /\ applied = 0 /\ paidByCredit = 0 /\ creditStakes = 0 /\ creditUnstakes = 0
    /\ creditUsage = 0 /\ creditDelegations = 0 /\ charged = 0 /\ exited = 0 /\ assets = 0
    /\ assetBalances = 0 /\ chain = 0 /\ now = 0 /\ proposal = 0 /\ feeRecipient = 0 /\ spentBy = 0
QuotaStep ==
    /\ part = "quota" /\ TQ!Next
    /\ UNCHANGED <<part,
        height, names, owners, commits, balances, burned, committed, balances1, nonces, time,
        proposer, open, applied, paidByCredit, creditStakes, creditUnstakes, creditUsage,
        creditDelegations, charged, exited, assets, assetBalances, chain, now, proposal,
        feeRecipient, spentBy>>
-----------------------------------------------------------------------------
\* Short delays, and chains that start before each migration.
BR == INSTANCE BlockRules WITH
    Small <- {"s"}, Large <- {"l"}, Fresh <- {"f"}, Candidates <- {"c"}, FirstVersions <- {25, 30,
    33}, Latest <- 35, UpgradeDelay <- 1, RotationDelay <- 2, MaxHeight <- 4, MaxTime <- 1
BlocksInit ==
    /\ part = "blocks" /\ BR!Init /\ Init /\ balances1 = 0 /\ nonces = 0 /\ time = 0 /\ proposer = 0
    /\ open = 0 /\ applied = 0 /\ height1 = 0 /\ paidByCredit = 0 /\ creditStakes = 0
    /\ creditUnstakes = 0 /\ creditUsage = 0 /\ creditDelegations = 0 /\ charged = 0 /\ exited = 0
    /\ assets = 0 /\ assetBalances = 0 /\ s = 0 /\ paid = 0 /\ feeRecipient = 0 /\ spentBy = 0
BlocksStep ==
    /\ part = "blocks" /\ BR!Next
    /\ UNCHANGED <<part,
        height, names, owners, commits, balances, burned, committed, balances1, nonces, time,
        proposer, open, applied, height1, paidByCredit, creditStakes, creditUnstakes, creditUsage,
        creditDelegations, charged, exited, assets, assetBalances, s, paid, feeRecipient, spentBy>>
-----------------------------------------------------------------------------
\* Two mandates among three accounts in every role.
AM == INSTANCE AgentMandate WITH
    Accounts <- Roles, Proposers <- {"c"}, Ids <- {1, 2}, Policies <- SomePolicies, Funds <- 7,
    MinFee <- 1, MaxNonce <- 100, MaxPerOwner <- 1, MaxGlobal <- 2, MaxLifetime <- 2, PruneBatch <-
    1, Amounts <- {1, 2}, Fees <- {1}, MaxHeight <- 2, MaxAtomic <- 21, MaxAccountNonce <- 2, height
    <- height1
MandatesInit ==
    /\ part = "mandates" /\ AM!Init /\ Init /\ balances1 = 0 /\ nonces = 0 /\ time = 0
    /\ proposer = 0 /\ open = 0 /\ applied = 0 /\ paidByCredit = 0 /\ creditStakes = 0
    /\ creditUnstakes = 0 /\ creditUsage = 0 /\ creditDelegations = 0 /\ charged = 0 /\ exited = 0
    /\ assets = 0 /\ assetBalances = 0 /\ paid = 0 /\ chain = 0 /\ now = 0 /\ proposal = 0
MandatesStep ==
    /\ part = "mandates" /\ AM!Next
    /\ UNCHANGED <<part,
        height, names, owners, commits, balances, burned, committed, balances1, nonces, time,
        proposer, open, applied, paidByCredit, creditStakes, creditUnstakes, creditUsage,
        creditDelegations, charged, exited, assets, assetBalances, paid, chain, now, proposal>>
-----------------------------------------------------------------------------
SuiteInit ==
    \/ TransfersInit
    \/ CreditsInit
    \/ AssetsInit
    \/ NamesInit
    \/ QuotaInit
    \/ BlocksInit
    \/ MandatesInit
SuiteNext ==
    \/ TransfersStep
    \/ CreditsStep
    \/ AssetsStep
    \/ NamesStep
    \/ QuotaStep
    \/ BlocksStep
    \/ MandatesStep
SuiteSpec == SuiteInit /\ [][SuiteNext]_suiteVars

\* No money or credit appears or is lost: Transfers keep the sum of the
\* balances, use an authorization once and leave what has not vested;
\* TransferCredits charge every credit to one quota, also after an exit;
\* NativeAssets never exceed a cap nor mint after the authority was given up.
BalancesKept ==
    [][
        /\ (part = "transfers" => TR!Conserved /\ TR!NonceOnce /\ TR!FloorsKept)'
        /\ (part = "credits" => CR!CreditConserved /\ CR!UsageExact)'
        /\ (part = "quota" => TQ!QuotaKept)'
        /\ (part = "assets" => AS!CapIsCumulative)'
        /\ part = "credits" => CR!NoStaleDelegation
        /\ part = "assets" => AS!RevocationFinal
    ]_suiteVars

\* AgentMandate: an agent never spends more than its policy, fees included,
\* and escrow, balances and fees add up to the money of genesis.
AgentBounded == part = "mandates" => AM!AgentBounded /\ AM!MandateConserved

\* BlockRules: an empty block is always acceptable, except where a membership
\* migration refuses what is pending or the version is unknown; validators
\* accept what buildBlock has rooted; a migration keeps or returns every
\* bond; a recovery plan and a pending rotation never stand beside each
\* other.
ChainContinues ==
    /\ part = "blocks" =>
           BR!ChainContinues /\ BR!RootedIsAccepted /\ BR!MigrationConserves /\ BR!PlanOrRotation

\* The state after any transaction passes the checks of fromVerifiedSnapshot,
\* in every protocol version and when the holder table is full; no reachable
\* mandate registry fails the validation that the next block starts with; no
\* name commitment outlives its lifetime.
StatesRestore ==
    /\ part = "assets" => AS!AssetsRestore
    /\ part = "credits" => CR!CreditsRestore
    /\ part = "blocks" => BR!StateRestores
    /\ part = "mandates" => AM!RegistryNeverBlocks
    /\ part = "names" => CommitsExpire

=============================================================================
