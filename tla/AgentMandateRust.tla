-------------------------- MODULE AgentMandateRust --------------------------
(***************************************************************************)
(* The second implementation of the same operations, written independently *)
(* in rust/nir-consensus-codec/src/agent_mandate.rs.  The operators below  *)
(* follow that file, its order of checks and its checked arithmetic, over  *)
(* the states of AgentMandate.                                             *)
(***************************************************************************)
EXTENDS AgentMandate, SequencesExt

\* checked_add: no result past the width of the integer (u128 is far above
\* MAX_ATOMIC; the instance uses Width for it).
Width == 4 * MaxAtomic
checked(x) == x <= Width

validate_mandate(m) ==
    /\ m.owner # m.agent
    /\ m.payees # {} /\ \A p \in m.payees : p # m.owner /\ p # m.agent
    /\ m.maxFee >= MinFee /\ \A v \in {m.balance, m.escrow, m.maxFee, m.maxPer, m.limit, m.feeLimit, m.fees, m.spent} : v <= MaxAtomic
    /\ m.maxFee <= m.feeLimit /\ m.maxPer # 0 /\ m.limit # 0 /\ m.maxPer <= m.limit
    /\ m.spent <= m.limit /\ m.fees <= m.feeLimit
    /\ checked(m.limit + m.feeLimit) /\ m.limit + m.feeLimit <= m.escrow
    /\ checked(m.balance + m.spent + m.fees) /\ m.balance + m.spent + m.fees = m.escrow
    /\ m.expires > m.created /\ m.expires <= MaxNonce /\ m.expires - m.created <= MaxLifetime

validate_registry(st) ==
    /\ Cardinality(DOMAIN st.mandates) <= MaxGlobal
    /\ \A i \in DOMAIN st.mandates : validate_mandate(st.mandates[i])
    /\ \A o \in Accounts : Cardinality(Owned(st, o)) <= MaxPerOwner

\* add_delta and apply_deltas
apply_deltas(bal, d, e) == [a \in Accounts |-> bal[a] + (d[a] + e[a])]
overflows(bal) == \E a \in Accounts : bal[a] < 0 \/ bal[a] > MaxAtomic

nonce(st, actor, supplied) == ~(supplied >= MaxNonce \/ st.nonce[actor] # supplied)

create(st, h, f, tx) ==
    LET debit == tx.p.escrow + tx.fee
        next == apply_deltas(st.bal, Delta(tx.owner, -debit), Delta(f, tx.fee)) IN
    IF \/ tx.owner = tx.agent \/ tx.id \in DOMAIN st.mandates \/ ~validate_registry(st)
       \/ Cardinality(DOMAIN st.mandates) >= MaxGlobal \/ Cardinality(Owned(st, tx.owner)) >= MaxPerOwner
       \/ ~nonce(st, tx.owner, tx.nonce)
       \/ h > MaxNonce \/ tx.expires > MaxNonce \/ tx.expires <= h \/ tx.expires - h > MaxLifetime
       \/ tx.p.escrow = 0 \/ tx.p.maxFee < MinFee \/ tx.p.maxFee > tx.p.feeLimit \/ tx.p.maxPer = 0 \/ tx.p.limit = 0
       \/ tx.p.maxPer > tx.p.limit \/ ~checked(tx.p.limit + tx.p.feeLimit) \/ tx.p.limit + tx.p.feeLimit > tx.p.escrow
       \/ tx.p.escrow > MaxAtomic \/ tx.fee < MinFee \/ tx.fee > MaxAtomic
       \/ tx.payees = {} \/ \E p \in tx.payees : p = tx.owner \/ p = tx.agent
       \/ tx.auth # tx.owner \/ ~checked(debit) \/ st.bal[tx.owner] < debit \/ overflows(next)
    THEN Refused
    ELSE [bal |-> next, nonce |-> [st.nonce EXCEPT ![tx.owner] = tx.nonce + 1],
          mandates |-> Put(st.mandates, tx.id,
              [owner |-> tx.owner, agent |-> tx.agent, payees |-> tx.payees, balance |-> tx.p.escrow,
               escrow |-> tx.p.escrow, created |-> h, expires |-> tx.expires, maxFee |-> tx.p.maxFee,
               maxPer |-> tx.p.maxPer, limit |-> tx.p.limit, feeLimit |-> tx.p.feeLimit, fees |-> 0, spent |-> 0])]

transfer(st, h, f, tx) ==
    IF tx.id \notin DOMAIN st.mandates THEN Refused ELSE
    LET m == st.mandates[tx.id]
        spent == m.spent + tx.amount
        fees == m.fees + tx.fee
        debit == tx.amount + tx.fee
        next == apply_deltas(st.bal, Delta(tx.payee, tx.amount), Delta(f, tx.fee)) IN
    IF \/ ~validate_registry(st) \/ h < m.created \/ h > MaxNonce \/ tx.auth # m.agent
       \/ ~nonce(st, m.agent, tx.nonce) \/ h >= m.expires \/ tx.payee \notin m.payees
       \/ ~checked(spent) \/ tx.amount = 0 \/ tx.amount > m.maxPer \/ spent > m.limit
       \/ tx.fee < MinFee \/ tx.fee > m.maxFee \/ ~checked(fees) \/ fees > m.feeLimit
       \/ ~checked(debit) \/ m.balance < debit \/ overflows(next)
    THEN Refused
    ELSE [bal |-> next, nonce |-> [st.nonce EXCEPT ![m.agent] = tx.nonce + 1],
          mandates |-> [st.mandates EXCEPT ![tx.id] = [m EXCEPT !.balance = @ - debit, !.spent = spent, !.fees = fees]]]

close(st, h, f, tx) ==
    IF tx.id \notin DOMAIN st.mandates THEN Refused ELSE
    LET m == st.mandates[tx.id]
        next == apply_deltas(st.bal, Delta(m.owner, m.balance - tx.fee), Delta(f, tx.fee)) IN
    IF \/ ~validate_registry(st) \/ h < m.created \/ h > MaxNonce \/ tx.auth # m.owner
       \/ ~nonce(st, m.owner, tx.nonce) \/ (tx.mode = "expiry" /\ h < m.expires)
       \/ tx.fee < MinFee \/ tx.fee > MaxAtomic \/ ~checked(st.bal[m.owner] + m.balance)
       \/ st.bal[m.owner] + m.balance < tx.fee \/ overflows(next)
    THEN Refused
    ELSE [bal |-> next, nonce |-> [st.nonce EXCEPT ![m.owner] = tx.nonce + 1],
          mandates |-> [i \in DOMAIN st.mandates \ {tx.id} |-> st.mandates[i]]]

expired(st, h) == {i \in DOMAIN st.mandates : st.mandates[i].expires <= h}

\* Mutant: the candidates stay in the order of their ids.
by_id(st, h, limit) ==
    LET sorted == SetToSortSeq(expired(st, h), <) IN {sorted[k] : k \in 1..Min({limit, Len(sorted)})}

\* candidates: sorted by expiry and id, then truncated.
candidates(st, h, limit) ==
    LET sorted == SetToSortSeq(expired(st, h), LAMBDA i, j :
                      \/ st.mandates[i].expires < st.mandates[j].expires
                      \/ st.mandates[i].expires = st.mandates[j].expires /\ i < j)
    IN  {sorted[k] : k \in 1..Min({limit, Len(sorted)})}

prune_expired(st, h, limit) ==
    LET ids == candidates(st, h, limit)
        next == [a \in Accounts |-> st.bal[a] + Refunds(st, ids)[a]] IN
    IF h > MaxNonce \/ limit = 0 \/ limit > PruneBatch \/ ~validate_registry(st) \/ overflows(next) THEN Refused
    ELSE [bal |-> next, nonce |-> st.nonce, mandates |-> [i \in DOMAIN st.mandates \ ids |-> st.mandates[i]]]

\* Both implementations accept the same transactions in every reachable state
\* and move it to the same next state: neither forks the other off.
Agree ==
    /\ \A t \in Creates : createAgentMandateState(s, height, feeRecipient, Create(t, height)) = create(s, height, feeRecipient, Create(t, height))
    /\ \A t \in Spends : applyAgentMandateTransferState(s, height, feeRecipient, t) = transfer(s, height, feeRecipient, t)
    /\ \A t \in Closes : closeAgentMandateState(s, height, feeRecipient, t) = close(s, height, feeRecipient, t)
    /\ \A limit \in 0..PruneBatch + 1 : pruneExpiredAgentMandatesState(s, height, limit) = prune_expired(s, height, limit)

=============================================================================
