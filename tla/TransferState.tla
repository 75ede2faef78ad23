--------------------------- MODULE TransferState ---------------------------
(***************************************************************************)
(* The monetary transitions of blockchain/transfer-state-transition.mjs:   *)
(* ordinary, sponsored, credit-paid and multisignature transfers, and the  *)
(* envelope that carries their approvals.  Every transition is a function  *)
(* from a state and a transfer to the next state, or Refused.              *)
(***************************************************************************)
EXTENDS Integers, Sequences, FiniteSets, SequencesExt, TLC

CONSTANTS
    Accounts, FeeRecipient, Shared,   \* Shared: the address of the descriptor of SharedMembers and SharedThreshold
    SharedMembers, SharedThreshold, Keys, MaxMembers,
    Amounts, Fees, MinFee, MaxAtomic, MaxNonce, Funds,
    Stakes, StakeUnit, CreditsPerUnit, EpochBlocks, MaxHeight, Limits


VARIABLES
    s, height,   \* s: [bal, nonce, stake, usage, deleg]
    paid         \* credits that paid a transfer since the epoch began (history)
vars == <<s, height, paid>>

Refused == [refused |-> TRUE]
None == [none |-> TRUE]

Init ==
    /\ height = 0 /\ paid = [a \in Accounts |-> 0]
    /\ \E stake \in Stakes, limit \in Limits :
         s = [bal |-> Funds, nonce |-> [a \in Accounts |-> 0], stake |-> stake,
              usage |-> [a \in Accounts |-> [epoch |-> 0, spent |-> 0]],
              deleg |-> [p \in Accounts \X Accounts |->
                           IF p[1] = p[2] \/ limit = 0 THEN None ELSE [limit |-> limit, epoch |-> 0, spent |-> 0]]]

-----------------------------------------------------------------------------
(* Helpers                                                                 *)

Delta(account, x) == [a \in Accounts |-> IF a = account THEN x ELSE 0]
Total(ds) == [a \in Accounts |-> FoldSeq(LAMBDA d, sum : d[a] + sum, 0, ds)]
Applied(bal, ds) == [a \in Accounts |-> bal[a] + Total(ds)[a]]
InRange(bal) == \A a \in Accounts : bal[a] \in 0..MaxAtomic

nonceOK(st, a, n) == n < MaxNonce /\ n = st.nonce[a]
transferCreditAllowance(stake) == (stake * CreditsPerUnit) \div StakeUnit
transferCreditEpoch(h) == IF h = 0 THEN 0 ELSE (h - 1) \div EpochBlocks

-----------------------------------------------------------------------------
(* Transitions                                                             *)

applyOrdinaryTransferState(st, t) ==
    LET next == Applied(st.bal, <<Delta(t.sender, -t.amount - t.fee), Delta(t.recipient, t.amount), Delta(FeeRecipient, t.fee)>>)
    IN  IF nonceOK(st, t.sender, t.nonce) /\ t.amount > 0 /\ t.fee >= MinFee /\ InRange(next)
        THEN [st EXCEPT !.bal = next, !.nonce[t.sender] = t.nonce + 1]
        ELSE Refused

applySponsoredTransferState(st, t) ==
    LET next == Applied(st.bal, <<Delta(t.sender, -t.amount), Delta(t.recipient, t.amount),
                                  Delta(t.payer, -t.fee), Delta(FeeRecipient, t.fee)>>)
    IN  IF /\ t.payer # t.sender /\ t.amount > 0 /\ t.fee >= MinFee
           /\ nonceOK(st, t.sender, t.nonce) /\ nonceOK(st, t.payer, t.payerNonce)
           /\ st.bal[t.sender] >= t.amount /\ st.bal[t.payer] >= t.fee /\ InRange(next)
        THEN [st EXCEPT !.bal = next, !.nonce = [@ EXCEPT ![t.sender] = t.nonce + 1, ![t.payer] = t.payerNonce + 1]]
        ELSE Refused

SpentIn(u, epoch) == IF u.epoch = epoch THEN u.spent ELSE 0

\* kind: "own", "delegated" (credit owner t.other) or "sponsored" (fee payer t.other).
applyCreditTransferState(st, h, t) ==
    LET owner == IF t.kind = "own" THEN t.sender ELSE t.other
        epoch == transferCreditEpoch(h)
        spent == SpentIn(st.usage[owner], epoch)
        d == st.deleg[<<owner, t.sender>>]
        next == Applied(st.bal, <<Delta(t.sender, -t.amount), Delta(t.recipient, t.amount)>>)
    IN  IF /\ t.kind # "own" => t.other # t.sender
           /\ t.amount > 0 /\ t.fee = 0 /\ nonceOK(st, t.sender, t.nonce)
           /\ t.kind = "sponsored" => nonceOK(st, owner, t.payerNonce)
           /\ st.bal[t.sender] >= t.amount
           /\ transferCreditAllowance(st.stake[owner]) > spent
           /\ t.kind = "delegated" => d # None /\ SpentIn(d, epoch) < d.limit
           /\ InRange(next)
        THEN [st EXCEPT !.bal = next,
                        !.nonce = IF t.kind = "sponsored" THEN [@ EXCEPT ![t.sender] = t.nonce + 1, ![owner] = t.payerNonce + 1]
                                  ELSE [@ EXCEPT ![t.sender] = t.nonce + 1],
                        !.usage[owner] = [epoch |-> epoch, spent |-> spent + 1],
                        !.deleg = IF t.kind = "delegated"
                                  THEN [@ EXCEPT ![<<owner, t.sender>>] = [@ EXCEPT !.epoch = epoch, !.spent = SpentIn(d, epoch) + 1]]
                                  ELSE @]
        ELSE Refused

\* The address is a hash of the sorted members and the threshold.
multisigDescriptor(members, threshold) ==
    /\ Len(members) \in 2..MaxMembers /\ threshold \in 2..Len(members)
    /\ Cardinality(Range(members)) = Len(members)
multisigStateAddress(members, threshold) ==
    IF Range(members) = SharedMembers /\ threshold = SharedThreshold THEN Shared ELSE "other"

applyMultisigTransferState(st, t) ==
    IF /\ multisigDescriptor(t.members, t.threshold) /\ multisigStateAddress(t.members, t.threshold) = t.sender
       /\ Len(t.signers) <= Len(t.members) /\ Range(t.signers) \subseteq Range(t.members)
       /\ Cardinality(Range(t.signers)) = Len(t.signers) /\ Len(t.signers) >= t.threshold
    THEN applyOrdinaryTransferState(st, t) ELSE Refused

\* Signers of a valid envelope; e.digest says whether it is the digest of the
\* transaction at hand.
validateTransferAuthorizationEnvelope(e, algorithm) ==
    IF /\ Len(e.approvals) \in 1..MaxMembers /\ e.algorithm = algorithm /\ e.digest
       /\ Cardinality(Range(e.approvals)) = Len(e.approvals)
    THEN [signers |-> e.approvals] ELSE Refused

applyAuthorizedMultisigTransferState(st, t, e) ==
    IF validateTransferAuthorizationEnvelope(e, "multisig") = Refused THEN Refused
    ELSE applyMultisigTransferState(st, t @@ [signers |-> validateTransferAuthorizationEnvelope(e, "multisig").signers])

applyAuthorizedOrdinaryTransferState(st, t, e, key) ==
    IF validateTransferAuthorizationEnvelope(e, "single") = [signers |-> <<key>>]
    THEN applyOrdinaryTransferState(st, t) ELSE Refused

-----------------------------------------------------------------------------
(* Transfers, refused ones included                                        *)

Nonces == {0, 1, 2, MaxNonce}
Ordinaries == [sender : Accounts, recipient : Accounts, amount : Amounts, fee : Fees, nonce : Nonces]
Sponsoreds == [sender : Accounts, recipient : Accounts, payer : Accounts, amount : Amounts, fee : Fees, nonce : Nonces, payerNonce : Nonces]
Credits == [kind : {"own", "delegated", "sponsored"}, other : Accounts, sender : Accounts, recipient : Accounts,
            amount : Amounts, fee : Fees, nonce : Nonces, payerNonce : Nonces]
KeyLists == UNION {[1..n -> Keys] : n \in 0..2}
Envelopes == [algorithm : {"single", "multisig"}, approvals : KeyLists, digest : BOOLEAN]
Multisigs == [sender : Accounts, recipient : {CHOOSE a \in Accounts : a # Shared}, amount : {1}, fee : {MinFee}, nonce : Nonces,
              members : KeyLists, threshold : 1..2]

Accept(next) == next # Refused /\ s' = next /\ UNCHANGED <<height, paid>>
Ordinary == \E t \in Ordinaries, k \in Keys, e \in [algorithm : {"single"}, approvals : {<<x>> : x \in Keys}, digest : BOOLEAN] :
    Accept(applyAuthorizedOrdinaryTransferState(s, t, e, k))
Sponsored == \E t \in Sponsoreds : Accept(applySponsoredTransferState(s, t))
Credit == \E t \in Credits :
    LET next == applyCreditTransferState(s, height, t) IN
    /\ next # Refused /\ s' = next /\ UNCHANGED height
    /\ paid' = [paid EXCEPT ![IF t.kind = "own" THEN t.sender ELSE t.other] = @ + 1]
Multisig == \E t \in Multisigs, e \in Envelopes : Accept(applyAuthorizedMultisigTransferState(s, t, e))
NextBlock ==
    /\ height < MaxHeight /\ height' = height + 1 /\ UNCHANGED s
    /\ paid' = IF height > 0 /\ height % EpochBlocks = 0 THEN [a \in Accounts |-> 0] ELSE paid

Next == Ordinary \/ Sponsored \/ Credit \/ Multisig \/ NextBlock
Spec == Init /\ [][Next]_vars

-----------------------------------------------------------------------------
\* An owner's credits pay for at most its allowance in one epoch, its own,
\* delegated and sponsored transfers together.
QuotaKept == \A a \in Accounts : paid[a] <= transferCreditAllowance(s.stake[a])

=============================================================================
