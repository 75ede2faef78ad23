------------------------- MODULE TransferStateRust -------------------------
(***************************************************************************)
(* The independent implementation of TransferState's transitions in        *)
(* rust/nir-consensus-codec/src/transfer_state.rs, over the same states.   *)
(***************************************************************************)
EXTENDS TransferState

\* apply_delta: checked arithmetic on u128 and the bound on a balance.
apply_delta(value, delta) ==
    IF delta < 0 /\ value < -delta THEN Refused
    ELSE IF value + delta > MaxAtomic THEN Refused ELSE [value |-> value + delta]

\* BTreeMap of combined deltas
combined(ds) == [a \in Accounts |-> FoldSeq(LAMBDA d, sum : d[a] + sum, 0, ds)]
updated(bal, ds) ==
    LET u == [a \in Accounts |-> apply_delta(bal[a], combined(ds)[a])]
    IN  IF \E a \in Accounts : u[a] = Refused THEN Refused ELSE [bal |-> [a \in Accounts |-> u[a].value]]

bad_nonce(st, a, n) == n >= MaxNonce \/ n # st.nonce[a]

apply_ordinary_transfer(st, t) ==
    LET next == updated(st.bal, <<Delta(t.sender, -(t.amount + t.fee)), Delta(t.recipient, t.amount), Delta(FeeRecipient, t.fee)>>)
    IN  IF t.amount = 0 \/ t.fee < MinFee \/ bad_nonce(st, t.sender, t.nonce) \/ next = Refused THEN Refused
        ELSE [st EXCEPT !.bal = next.bal, !.nonce[t.sender] = t.nonce + 1]

apply_sponsored_transfer(st, t) ==
    LET next == updated(st.bal, <<Delta(t.sender, -t.amount), Delta(t.recipient, t.amount), Delta(t.payer, -t.fee), Delta(FeeRecipient, t.fee)>>)
    IN  IF \/ t.payer = t.sender \/ t.amount = 0 \/ t.fee < MinFee
           \/ bad_nonce(st, t.sender, t.nonce) \/ bad_nonce(st, t.payer, t.payerNonce)
           \/ st.bal[t.sender] < t.amount \/ st.bal[t.payer] < t.fee \/ next = Refused
        THEN Refused
        ELSE [st EXCEPT !.bal = next.bal, !.nonce = [@ EXCEPT ![t.sender] = t.nonce + 1, ![t.payer] = t.payerNonce + 1]]

transfer_credit_allowance(stake) == (stake * CreditsPerUnit) \div StakeUnit
transfer_credit_epoch(h) == IF h = 0 THEN 0 ELSE (h - 1) \div EpochBlocks

apply_credit_transfer(st, h, t) ==
    LET sponsored == t.kind = "sponsored"
        owner == IF sponsored \/ t.kind = "delegated" THEN t.other ELSE t.sender
        delegated == ~sponsored /\ owner # t.sender
        epoch == transfer_credit_epoch(h)
        spent == IF st.usage[owner].epoch = epoch THEN st.usage[owner].spent ELSE 0
        d == st.deleg[<<owner, t.sender>>]
        dspent == IF d # None /\ d.epoch = epoch THEN d.spent ELSE 0
        next == updated(st.bal, <<Delta(t.sender, -t.amount), Delta(t.recipient, t.amount)>>)
    IN  IF \/ (sponsored /\ t.other = t.sender) \/ (t.kind = "delegated" /\ ~delegated)
           \/ t.amount = 0 \/ t.fee # 0 \/ bad_nonce(st, t.sender, t.nonce)
           \/ sponsored /\ bad_nonce(st, owner, t.payerNonce)
           \/ st.bal[t.sender] < t.amount
           \/ transfer_credit_allowance(st.stake[owner]) <= spent
           \/ delegated /\ (IF d = None THEN TRUE ELSE dspent >= d.limit)
           \/ next = Refused
        THEN Refused
        ELSE LET nonces == [st.nonce EXCEPT ![t.sender] = t.nonce + 1] IN
             [st EXCEPT !.bal = next.bal,
                        !.nonce = IF sponsored THEN [nonces EXCEPT ![owner] = t.payerNonce + 1] ELSE nonces,
                        !.usage[owner] = [epoch |-> epoch, spent |-> spent + 1],
                        !.deleg[<<owner, t.sender>>] = IF delegated THEN [d EXCEPT !.epoch = epoch, !.spent = dspent + 1] ELSE d]

multisig_state_address(members, threshold) ==
    IF \/ Len(members) < 2 \/ Len(members) > MaxMembers \/ threshold < 2 \/ threshold > Len(members)
       \/ \E i, j \in DOMAIN members : i # j /\ members[i] = members[j]
    THEN Refused
    ELSE [address |-> IF Range(members) = SharedMembers /\ threshold = SharedThreshold THEN Shared ELSE "other"]

validate_transfer_authorization(e, algorithm) ==
    IF \/ e.algorithm # algorithm \/ e.approvals = <<>> \/ Len(e.approvals) > MaxMembers \/ ~e.digest
       \/ \E i, j \in DOMAIN e.approvals : i # j /\ e.approvals[i] = e.approvals[j]
    THEN Refused ELSE [signers |-> e.approvals]

apply_multisig_transfer(st, t) ==
    IF \/ multisig_state_address(t.members, t.threshold) # [address |-> t.sender]
       \/ Len(t.signers) > Len(t.members) \/ \E k \in Range(t.signers) : k \notin Range(t.members)
       \/ \E i, j \in DOMAIN t.signers : i # j /\ t.signers[i] = t.signers[j]
       \/ Cardinality(Range(t.signers)) < t.threshold
    THEN Refused ELSE apply_ordinary_transfer(st, t)

\* Both implementations give every transfer the same answer and the same next
\* state, in every reachable state.
AgreeTransfers ==
    /\ \A t \in Ordinaries : applyOrdinaryTransferState(s, t) = apply_ordinary_transfer(s, t)
    /\ \A t \in Sponsoreds : applySponsoredTransferState(s, t) = apply_sponsored_transfer(s, t)
    /\ \A t \in Credits : applyCreditTransferState(s, height, t) = apply_credit_transfer(s, height, t)
    /\ \A t \in Multisigs, k \in KeyLists :
         applyMultisigTransferState(s, t @@ [signers |-> k]) = apply_multisig_transfer(s, t @@ [signers |-> k])
    /\ \A e \in Envelopes, g \in {"single", "multisig"} :
         validateTransferAuthorizationEnvelope(e, g) = validate_transfer_authorization(e, g)

=============================================================================
