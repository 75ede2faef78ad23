----------------------------- MODULE Transfers -----------------------------
(***************************************************************************)
(* Fee-paying transfers of blockchain/chain.mjs (applyTransfer) and the    *)
(* monetary transitions of blockchain/transfer-state-transition.mjs:       *)
(* ordinary, multisignature and sponsored transfers, their nonces, and the *)
(* vesting floors of the two genesis allocations.  Every holder of a key   *)
(* may sign anything, so a block may contain any authorised transfer, also *)
(* one that an earlier block contained.                                    *)
(***************************************************************************)
EXTENDS Integers, Sequences, FiniteSets, FiniteSetsExt

CONSTANTS
    Accounts,       \* all addresses
    Treasury,       \* treasuryAddress
    Founder,        \* founderAddress
    Joint,          \* a multisignature address
    Members,        \* keys behind Joint
    Threshold,      \* approvals Joint needs
    NoPayer,        \* a transfer without fee payer
    InitialBalance, \* balances at genesis
    LockedAtGenesis,\* LockedAtGenesis[a]: the vesting part of the allocation of a
    VestingPeriod,  \* TREASURY_VESTING_MS, in model time
    Amounts,        \* amounts that transfers may have
    MinFee,         \* MIN_TRANSFER_FEE
    MaxTime, MaxTransfers \* bounds: time after genesis, transfers of a run

Genesis == {Treasury, Founder}


VARIABLES
    balances, nonces,
    time,     \* timestamp of the open or last block, from genesis
    proposer, \* feeRecipient of the open block
    open,     \* a block is being applied
    applied   \* for every transfer applied so far the nonces it used (history)

vars == <<balances, nonces, time, proposer, open, applied>>

Transfer ==
    {t \in [sender : Accounts, recipient : Accounts, amount : Amounts, fee : {MinFee - 1, MinFee},
            nonce : 0..MaxTransfers, payer : Accounts \cup {NoPayer}, payerNonce : 0..MaxTransfers,
            signers : SUBSET Members \cup {{a} : a \in Accounts}] :
        /\ t.payer = NoPayer => t.payerNonce = 0
        /\ t.sender # Joint => t.signers = {t.sender}}

Init ==
    /\ balances = InitialBalance
    /\ nonces = [a \in Accounts |-> 0]
    /\ time = 0
    /\ proposer \in Accounts
    /\ open = FALSE
    /\ applied = <<>>

\* vestedAllocationAtTimestamp
vested(allocation, t) ==
    IF t >= VestingPeriod THEN allocation ELSE (allocation * t) \div VestingPeriod

allocationLockedFloor(a, t) ==
    IF a \notin Genesis THEN 0 ELSE LockedAtGenesis[a] - vested(LockedAtGenesis[a], t)

treasuryLockedFloor == allocationLockedFloor(Treasury, time)

\* The sender's key, or Threshold of the distinct keys the address stands for.
Authorized(t) ==
    IF t.sender = Joint
    THEN t.signers \subseteq Members /\ Cardinality(t.signers) >= Threshold
    ELSE t.signers = {t.sender}

Sponsored(t) == t.payer # NoPayer

\* The sponsor is another single-key account and signed this very transfer.
SponsorBound(t) ==
    Sponsored(t) => t.payer # t.sender /\ t.payer # Joint /\ t.payerNonce = nonces[t.payer]

\* Mutant: the roles' new balances are computed apart and the last one written wins.
DeltasLast(t) ==
    LET payer == IF Sponsored(t) THEN t.payer ELSE t.sender
    IN  [a \in Accounts |-> IF a = proposer THEN t.fee
                            ELSE IF a = t.recipient THEN t.amount
                            ELSE (IF a = t.sender THEN -t.amount ELSE 0) + (IF a = payer THEN -t.fee ELSE 0)]

\* One account may play several of the roles; the deltas add up.
Deltas(t) ==
    LET payer == IF Sponsored(t) THEN t.payer ELSE t.sender
        at(a, role, d) == IF a = role THEN d ELSE 0
    IN  [a \in Accounts |-> at(a, t.sender, -t.amount) + at(a, t.recipient, t.amount)
                            + at(a, payer, -t.fee) + at(a, proposer, t.fee)]

\* An unsponsored sender needs amount and fee even when it is the recipient too.
Funded(t) ==
    /\ IF Sponsored(t) THEN balances[t.sender] >= t.amount /\ balances[t.payer] >= t.fee
       ELSE balances[t.sender] >= t.amount + t.fee
    /\ \A a \in Accounts : balances[a] + Deltas(t)[a] >= 0

VestedEnough(t) ==
    /\ t.sender = Treasury =>
           balances[t.sender] - t.amount - (IF Sponsored(t) THEN 0 ELSE t.fee) >= treasuryLockedFloor
    /\ t.payer = Treasury => balances[t.payer] - t.fee >= treasuryLockedFloor

Uses(t) == {<<t.sender, t.nonce>>} \cup (IF Sponsored(t) THEN {<<t.payer, t.payerNonce>>} ELSE {})

NextNonces(t) ==
    [a \in Accounts |-> IF a = t.sender \/ (Sponsored(t) /\ a = t.payer) THEN nonces[a] + 1 ELSE nonces[a]]

applyTransfer(t) ==
    /\ open /\ Len(applied) < MaxTransfers
    /\ Authorized(t)
    /\ t.nonce = nonces[t.sender]
    /\ t.amount > 0 /\ t.fee >= MinFee
    /\ SponsorBound(t) /\ Funded(t) /\ VestedEnough(t)
    /\ LET deltas == Deltas(t) IN balances' = [a \in Accounts |-> balances[a] + deltas[a]]
    /\ nonces' = NextNonces(t)
    /\ applied' = Append(applied, Uses(t))
    /\ UNCHANGED <<time, proposer, open>>

\* A block whose timestamp is not earlier, with some fee recipient is taken up.
BeginBlock ==
    /\ ~open
    /\ open' = TRUE
    /\ time' \in time..MaxTime
    /\ proposer' \in Accounts
    /\ UNCHANGED <<balances, nonces, applied>>

\* "Every transition, including newly added transaction types, must preserve
\* genesis vesting": the check at the end of applyBlock.
EndBlock ==
    /\ open
    /\ \A a \in Genesis : balances[a] >= allocationLockedFloor(a, time)
    /\ open' = FALSE
    /\ UNCHANGED <<balances, nonces, time, proposer, applied>>

Next == BeginBlock \/ (\E t \in Transfer : applyTransfer(t)) \/ EndBlock

Spec == Init /\ [][Next]_vars

-----------------------------------------------------------------------------
(* Properties                                                              *)

Total(f) == MapThenSumSet(LAMBDA a : f[a], Accounts)

TypeOK ==
    /\ balances \in [Accounts -> Nat]
    /\ nonces \in [Accounts -> Nat]
    /\ time \in 0..MaxTime /\ open \in BOOLEAN /\ proposer \in Accounts

\* Conserved: transfers move money and create none, whichever of sender,
\* recipient, fee payer and fee recipient are one account (the conservation
\* checks of transfer-state-transition.mjs never fire).
Conserved == Total(balances) = Total(InitialBalance)

\* NonceOnce: an account's nonce authorises one transfer, in whichever role: the
\* signature under a transfer is good once, and so is a sponsor's.
NonceOnce ==
    \A i, j \in DOMAIN applied : i # j => applied[i] \cap applied[j] = {}

\* FloorsKept: after every block the treasury and the founder hold what has not
\* vested yet, although transfers alone only look at the treasury.
FloorsKept == ~open => \A a \in Genesis : balances[a] >= allocationLockedFloor(a, time)
=============================================================================
