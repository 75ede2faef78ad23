---------------------------- MODULE AgentMandate ----------------------------
(***************************************************************************)
(* Spending mandates of blockchain/agent-mandate-transition.mjs: an owner  *)
(* escrows money that an agent may pay to listed payees within limits.     *)
(* Every operation is a function from a state [bal, nonce, mandates] and a *)
(* transaction to the next state, or Refused when the code throws.         *)
(* Signatures are verified by the caller; what is modelled is that the     *)
(* authorization names the actor of the operation.                         *)
(***************************************************************************)
EXTENDS Integers, FiniteSets, FiniteSetsExt, Functions, TLC

CONSTANTS
    Accounts, Proposers, Ids, Policies,   \* Policies: [escrow, maxFee, maxPer, feeLimit, limit, life]
    Amounts, Fees, Funds, MaxHeight,
    MinFee, MaxAtomic, MaxNonce, MaxPerOwner, MaxGlobal, MaxLifetime, PruneBatch,
    MaxAccountNonce            \* bound of the instance on the nonces used


VARIABLES s, height, feeRecipient, spentBy   \* spentBy[id]: escrow, spent and fees since creation (history)
vars == <<s, height, feeRecipient, spentBy>>

Refused == [refused |-> TRUE]
Put(f, k, v) == [x \in DOMAIN f \union {k} |-> IF x = k THEN v ELSE f[x]]

Init ==
    /\ s = [bal |-> [a \in Accounts |-> Funds], nonce |-> [a \in Accounts |-> 0], mandates |-> [i \in {} |-> 0]]
    /\ height = 0 /\ feeRecipient \in Proposers
    /\ spentBy = [i \in Ids |-> [escrow |-> 0, amount |-> 0, fee |-> 0]]

-----------------------------------------------------------------------------
(* Checks                                                                  *)

\* mandate(): what every stored record must satisfy.
mandate(m) ==
    /\ m.owner # m.agent /\ m.payees # {} /\ {m.owner, m.agent} \intersect m.payees = {}
    /\ m.maxFee >= MinFee /\ m.maxFee <= m.feeLimit /\ m.maxPer > 0 /\ m.limit > 0 /\ m.maxPer <= m.limit
    /\ m.spent <= m.limit /\ m.fees <= m.feeLimit /\ m.limit + m.feeLimit <= m.escrow
    /\ m.balance + m.spent + m.fees = m.escrow
    /\ m.expires > m.created /\ m.expires - m.created <= MaxLifetime

Owned(st, o) == {i \in DOMAIN st.mandates : st.mandates[i].owner = o}
validateMandateRegistry(st) ==
    /\ Cardinality(DOMAIN st.mandates) <= MaxGlobal
    /\ \A i \in DOMAIN st.mandates : mandate(st.mandates[i]) /\ Cardinality(Owned(st, st.mandates[i].owner)) <= MaxPerOwner

nonceMatches(st, actor, n) == n < MaxNonce /\ n = st.nonce[actor]
authorization(auth, actor) == auth = actor

\* Deltas of one account are added up before the range is checked.
Moved(bal, d) == [a \in Accounts |-> bal[a] + d[a]]
InRange(bal) == \A a \in Accounts : bal[a] \in 0..MaxAtomic
Delta(account, x) == [a \in Accounts |-> IF a = account THEN x ELSE 0]
Both(d, e) == [a \in Accounts |-> d[a] + e[a]]

monetaryLimits(tx) ==
    /\ tx.p.escrow > 0 /\ tx.p.maxFee >= MinFee /\ tx.p.maxFee <= tx.p.feeLimit /\ tx.p.maxPer > 0 /\ tx.p.limit > 0
    /\ tx.p.maxPer <= tx.p.limit /\ tx.p.limit + tx.p.feeLimit <= tx.p.escrow

-----------------------------------------------------------------------------
(* Operations: st is the state, h the height, f the fee recipient          *)

createAgentMandateState(st, h, f, tx) ==
    LET next == Moved(st.bal, Both(Delta(tx.owner, -tx.p.escrow - tx.fee), Delta(f, tx.fee)))
        new == [owner |-> tx.owner, agent |-> tx.agent, payees |-> tx.payees, balance |-> tx.p.escrow,
                escrow |-> tx.p.escrow, created |-> h, expires |-> tx.expires, maxFee |-> tx.p.maxFee,
                maxPer |-> tx.p.maxPer, feeLimit |-> tx.p.feeLimit, limit |-> tx.p.limit, fees |-> 0, spent |-> 0]
    IN  IF /\ tx.owner # tx.agent /\ tx.id \notin DOMAIN st.mandates
           /\ validateMandateRegistry(st) /\ Cardinality(DOMAIN st.mandates) < MaxGlobal
           /\ Cardinality(Owned(st, tx.owner)) < MaxPerOwner
           /\ nonceMatches(st, tx.owner, tx.nonce)
           /\ tx.expires > h /\ tx.expires - h <= MaxLifetime
           /\ monetaryLimits(tx) /\ tx.fee >= MinFee
           /\ st.bal[tx.owner] >= tx.p.escrow + tx.fee
           /\ tx.payees # {} /\ {tx.owner, tx.agent} \intersect tx.payees = {}
           /\ authorization(tx.auth, tx.owner) /\ InRange(next)
        THEN [bal |-> next, nonce |-> [st.nonce EXCEPT ![tx.owner] = @ + 1], mandates |-> Put(st.mandates, tx.id, new)]
        ELSE Refused

\* Mutant: the limit is compared with the single transfer only.
UnsummedLimit(m, tx) == tx.amount > 0 /\ tx.amount <= m.maxPer /\ tx.amount <= m.limit

spendingLimit(m, tx) == tx.amount > 0 /\ tx.amount <= m.maxPer /\ m.spent + tx.amount <= m.limit

applyAgentMandateTransferState(st, h, f, tx) ==
    IF tx.id \notin DOMAIN st.mandates THEN Refused ELSE
    LET m == st.mandates[tx.id]
        next == Moved(st.bal, Both(Delta(tx.payee, tx.amount), Delta(f, tx.fee)))
    IN  IF /\ validateMandateRegistry(st) /\ nonceMatches(st, m.agent, tx.nonce)
           /\ h >= m.created /\ h < m.expires /\ tx.payee \in m.payees /\ authorization(tx.auth, m.agent)
           /\ spendingLimit(m, tx)
           /\ tx.fee >= MinFee /\ tx.fee <= m.maxFee /\ m.fees + tx.fee <= m.feeLimit
           /\ m.balance >= tx.amount + tx.fee /\ InRange(next)
        THEN [bal |-> next, nonce |-> [st.nonce EXCEPT ![m.agent] = @ + 1],
              mandates |-> [st.mandates EXCEPT ![tx.id].balance = @ - tx.amount - tx.fee,
                                               ![tx.id].spent = @ + tx.amount, ![tx.id].fees = @ + tx.fee]]
        ELSE Refused

released(st, m, f, tx) == Moved(st.bal, Both(Delta(m.owner, m.balance - tx.fee), Delta(f, tx.fee)))

closeAgentMandateState(st, h, f, tx) ==
    IF tx.id \notin DOMAIN st.mandates THEN Refused ELSE
    LET m == st.mandates[tx.id] IN
    IF /\ validateMandateRegistry(st) /\ h >= m.created
       /\ nonceMatches(st, m.owner, tx.nonce) /\ (tx.mode = "expiry" => h >= m.expires)
       /\ authorization(tx.auth, m.owner) /\ tx.fee >= MinFee /\ st.bal[m.owner] + m.balance >= tx.fee
       /\ InRange(released(st, m, f, tx))
    THEN [bal |-> released(st, m, f, tx), nonce |-> [st.nonce EXCEPT ![m.owner] = @ + 1],
          mandates |-> Restrict(st.mandates, DOMAIN st.mandates \ {tx.id})]
    ELSE Refused

\* The expired mandates that go first: earliest expiry, then smallest id.
Batch(st, h, limit) ==
    LET due == {i \in DOMAIN st.mandates : st.mandates[i].expires <= h}
        Before(i, j) == st.mandates[i].expires < st.mandates[j].expires
                        \/ (st.mandates[i].expires = st.mandates[j].expires /\ i < j)
    IN  {i \in due : Cardinality({j \in due : Before(j, i)}) < limit}

Refunds(st, ids) == [a \in Accounts |-> SumFunction([i \in ids |-> IF st.mandates[i].owner = a THEN st.mandates[i].balance ELSE 0])]

pruneExpiredAgentMandatesState(st, h, limit) ==
    LET ids == Batch(st, h, limit)
        next == Moved(st.bal, Refunds(st, ids))
    IN  IF validateMandateRegistry(st) /\ limit >= 1 /\ limit <= PruneBatch /\ InRange(next)
        THEN [st EXCEPT !.bal = next, !.mandates = Restrict(st.mandates, DOMAIN st.mandates \ ids)]
        ELSE Refused

-----------------------------------------------------------------------------
(* Transactions, refused ones included                                     *)

Nonces == 0..MaxAccountNonce
Creates == [id : Ids, owner : Accounts, agent : Accounts, payees : {{a} : a \in Accounts}, p : Policies,
            fee : Fees, nonce : Nonces, auth : Accounts]
Create(t, h) == [id |-> t.id, owner |-> t.owner, agent |-> t.agent, payees |-> t.payees, p |-> t.p,
                 expires |-> h + t.p.life, fee |-> t.fee, nonce |-> t.nonce, auth |-> t.auth]
Spends == [id : Ids, payee : Accounts, amount : Amounts, fee : Fees, nonce : Nonces, auth : Accounts]
Closes == [id : Ids, mode : {"revoke", "expiry"}, fee : Fees, nonce : Nonces, auth : Accounts]

\* A transaction with another nonce or signer is refused without effect, so
\* the steps below only try the current nonce and the right signer.
SomeCreate == [id : Ids, owner : Accounts, agent : Accounts, payees : {{a} : a \in Accounts}, p : Policies, fee : Fees]
SomeSpend == [id : DOMAIN s.mandates, payee : Accounts, amount : Amounts, fee : Fees]
SomeClose == [id : DOMAIN s.mandates, mode : {"revoke", "expiry"}, fee : Fees]
Signed(t, actor) == t @@ [nonce |-> s.nonce[actor], auth |-> actor]

Bounded(st) == st # Refused /\ \A a \in Accounts : st.nonce[a] <= MaxAccountNonce

CreateMandate == \E t \in SomeCreate :
    LET next == createAgentMandateState(s, height, feeRecipient, Create(Signed(t, t.owner), height)) IN
    /\ Bounded(next) /\ s' = next
    /\ spentBy' = [spentBy EXCEPT ![t.id] = [escrow |-> t.p.escrow, amount |-> 0, fee |-> 0]]
    /\ UNCHANGED <<height, feeRecipient>>

SpendMandate == \E t \in SomeSpend :
    LET next == applyAgentMandateTransferState(s, height, feeRecipient, Signed(t, s.mandates[t.id].agent)) IN
    /\ Bounded(next) /\ s' = next
    /\ spentBy' = [spentBy EXCEPT ![t.id].amount = @ + t.amount, ![t.id].fee = @ + t.fee]
    /\ UNCHANGED <<height, feeRecipient>>

CloseMandate == \E t \in SomeClose :
    LET next == closeAgentMandateState(s, height, feeRecipient, Signed(t, s.mandates[t.id].owner)) IN
    Bounded(next) /\ s' = next /\ UNCHANGED <<height, feeRecipient, spentBy>>

PruneMandates == \E limit \in 1..PruneBatch :
    LET next == pruneExpiredAgentMandatesState(s, height, limit) IN
    Bounded(next) /\ next # s /\ s' = next /\ UNCHANGED <<height, feeRecipient, spentBy>>

NextHeight == height < MaxHeight /\ height' = height + 1 /\ feeRecipient' \in Proposers /\ UNCHANGED <<s, spentBy>>

Next == CreateMandate \/ SpendMandate \/ CloseMandate \/ PruneMandates \/ NextHeight
Spec == Init /\ [][Next]_vars

-----------------------------------------------------------------------------
(* Properties                                                              *)

\* Balances and escrows together never change, whatever roles coincide.
MandateConserved ==
    SumFunction(s.bal) + SumFunction([i \in DOMAIN s.mandates |-> s.mandates[i].balance]) = Funds * Cardinality(Accounts)

\* validateMandateRegistry is run by every operation on every stored record:
\* one record it refuses would block all mandates of all owners for ever.
RegistryNeverBlocks == validateMandateRegistry(s)

\* An agent never spends past the limits its owner signed, over any number of
\* transfers, and what is left of the escrow is still there for the owner.
AgentBounded ==
    \A i \in DOMAIN s.mandates :
        LET m == s.mandates[i] IN
        /\ spentBy[i].amount <= m.limit /\ spentBy[i].fee <= m.feeLimit
        /\ m.balance >= spentBy[i].escrow - m.limit - m.feeLimit
        /\ m.balance = spentBy[i].escrow - spentBy[i].amount - spentBy[i].fee

=============================================================================
