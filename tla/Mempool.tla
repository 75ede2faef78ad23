------------------------------- MODULE Mempool -------------------------------
(***************************************************************************)
(* The durable mempools of the validator replicas and the inclusion        *)
(* receipts of beacon admissions (distributed-node.mjs,                    *)
(* admission-inclusion.mjs).                                               *)
(*                                                                         *)
(* A replica keeps every pending transaction in memory and in a file, and  *)
(* a signed receipt beside each protected admission (a beacon-bond with an *)
(* operator).  All its operations are synchronous, so only a crash can     *)
(* fall between two file writes.  Of two-phase finality the model keeps    *)
(* the persistent commit vote (a prepare makes the same checks earlier);   *)
(* voting for a block, its finalization and its commit are separate steps. *)
(* The ledger is abstracted to the next nonce of each sender and to the    *)
(* one height at which a protected admission is valid (its                 *)
(* activationHeight fixes it).                                             *)
(***************************************************************************)
EXTENDS Naturals, FiniteSets, SequencesExt

CONSTANTS Replicas, Byzantine,  \* all validators, and the faulty ones
          Txs,                  \* [id, sender, nonce, kind, at]
          MaxHeight,            \* bound on the finalized chain
          MaxCrashes,           \* bound on crashes
          Recoveries,           \* may the reserve set finalize a recovery?
          Snapshots             \* may a lagging replica install a snapshot?

\* Fewer than a third of the validators are faulty (docs: floor(2n/3) + 1 votes
\* are a quorum).
ASSUME FaultyMinority ==
    /\ IsFiniteSet(Replicas) /\ Byzantine \subseteq Replicas
    /\ 3 * Cardinality(Byzantine) < Cardinality(Replicas)
    /\ Recoveries \in BOOLEAN

VARIABLES
    chain,      \* the finalized blocks after genesis, each a sequence of transactions
    height,     \* #chain.height of each replica (its journal is on disk)
    base,       \* the height below which a replica holds no block bodies
    mem,        \* #mempool, in insertion order
    files,      \* transaction files in mempool/
    receipts,   \* receipt files in mempool/, mirrored by #admissionReceipts while up
    proposed,   \* the blocks proposed for the next height
    decision,   \* commits/<height>.json: the <<height, block>> each replica voted for
    issued,     \* [by, tx, voted]: receipts ever returned, and whether the signer
                \* had already signed a commit vote for that height
    status,     \* "up", "down", or "refused": the constructor threw
    crashes

vars == <<chain, height, base, mem, files, receipts, proposed, decision, issued,
          status, crashes>>
consensus == <<chain, proposed, decision>>

Honest == Replicas \ Byzantine
Voted(r, h) == \E d \in decision[r] : d[1] = h
Quorum == ((Cardinality(Replicas) * 2) \div 3) + 1

\* A recovery block holds the single validator-recovery transaction.
RecoveryTx == [id |-> 0, sender |-> "reserve", nonce |-> 0,
               kind |-> "recovery", at |-> 0]
IsRecovery(block) == block = <<RecoveryTx>>

isProtectedBeaconAdmission(t) == t.kind = "bond"

-----------------------------------------------------------------------------
\* The ledger as the mempool sees it: the next nonce after the first h blocks.
NextNonce(sender, h) ==
    Cardinality({p \in (1..h) \X (1..Cardinality(Txs)) :
                    /\ p[2] <= Len(chain[p[1]])
                    /\ chain[p[1]][p[2]].sender = sender})

\* buildBlock + validateProposal: every transaction applies, in this order, on
\* top of the first h blocks; one that does not makes the whole block throw.
validateProposal(block, h) ==
    \A i \in 1..Len(block) :
        LET t == block[i]
            earlier == {j \in 1..(i - 1) : block[j].sender = t.sender}
        IN /\ t.nonce = NextNonce(t.sender, h) + Cardinality(earlier)
           /\ t.kind = "bond" => h + 1 = t.at
           /\ t.kind = "admission" => h + 1 <= t.at

\* TransactionMempool.take: protected admissions first, each group in
\* insertion order.
take(pool) == SelectSeq(pool, isProtectedBeaconAdmission)
              \o SelectSeq(pool, LAMBDA t : ~isProtectedBeaconAdmission(t))

\* invalidValidatorAdmissionsForNextBlock: of the stale transactions only
\* validator admissions are looked for.
InvalidAdmission(t, h) ==
    /\ t.kind = "admission"
    /\ \/ h + 1 > t.at
       \/ t.nonce < NextNonce(t.sender, h)

pruned(pool, h) == SelectSeq(pool, LAMBDA t : ~InvalidAdmission(t, h))

\* assertAdmissionInclusion without the check that the block holds the receipted transaction.
assertAdmissionInclusionLoose(block, h, obligations) ==
    \A t \in obligations : h + 1 <= t.at

\* assertAdmissionInclusionObligations for the block at height h + 1: a receipt
\* whose height has come is honoured, one whose height has passed never is.
assertAdmissionInclusion(block, h, obligations) ==
    \A t \in obligations : h + 1 >= t.at => (h + 1 = t.at /\ Contains(block, t))

-----------------------------------------------------------------------------
Init ==
    /\ chain = <<>>
    /\ height = [r \in Replicas |-> 0]
    /\ base = [r \in Replicas |-> 0]
    /\ mem = [r \in Replicas |-> <<>>]
    /\ files = [r \in Replicas |-> {}]
    /\ receipts = [r \in Replicas |-> {}]
    /\ proposed = {}
    /\ decision = [r \in Replicas |-> {}]
    /\ issued = [by: Byzantine, tx: {t \in Txs : isProtectedBeaconAdmission(t)},
                 voted: {FALSE}]
    /\ status = [r \in Replicas |-> "up"]
    /\ crashes = 0

\* Drop what #pruneInvalidValidatorAdmissions finds from memory and disk.
Prune(r, pool, fs, h) ==
    /\ mem' = [mem EXCEPT ![r] = pruned(pool, h)]
    /\ files' = [files EXCEPT ![r] = {t \in fs : ~InvalidAdmission(t, h)}]

\* submitTransaction: the whole pool with the new transaction must form a valid
\* next block, and a protected admission must be valid alone.  A refusal undoes
\* everything, so it leaves only the pruning behind; a crash may fall after
\* either file.
Accepts(r, t) ==
    LET pool == Append(pruned(mem[r], height[r]), t)
    IN /\ validateProposal(take(pool), height[r])
       /\ isProtectedBeaconAdmission(t) => validateProposal(<<t>>, height[r])

submitTransaction(r, t) ==
    /\ status[r] = "up"
    /\ ~Contains(mem[r], t)
    /\ Accepts(r, t)
    /\ Prune(r, Append(mem[r], t), files[r] \cup {t}, height[r])
    /\ IF isProtectedBeaconAdmission(t)
         THEN /\ receipts' = [receipts EXCEPT ![r] = @ \cup {t}]
              /\ issued' = issued \cup {[by |-> r, tx |-> t,
                    voted |-> Voted(r, height[r] + 1)]}
         ELSE UNCHANGED <<receipts, issued>>
    /\ UNCHANGED <<consensus, height, base, status, crashes>>

\* The process stops after the transaction file, before the receipt (or before
\* the answer): nothing was acknowledged.
SubmitCrash(r, t) ==
    /\ status[r] = "up" /\ crashes < MaxCrashes
    /\ ~Contains(mem[r], t)
    /\ Accepts(r, t)
    /\ files' = [files EXCEPT ![r] = @ \cup {t}]
    /\ mem' = [mem EXCEPT ![r] = <<>>]
    /\ status' = [status EXCEPT ![r] = "down"]
    /\ crashes' = crashes + 1
    /\ UNCHANGED <<consensus, height, base, receipts, issued>>

-----------------------------------------------------------------------------
\* buildProposal by an honest proposer; a faulty one proposes any single
\* transaction.
buildProposal(p) ==
    /\ Len(chain) < MaxHeight
    /\ status[p] = "up" /\ height[p] = Len(chain)
    /\ LET block == take(pruned(mem[p], height[p]))
       IN /\ block # <<>>
          /\ validateProposal(block, height[p])
          /\ proposed' = proposed \cup {block}
    /\ Prune(p, mem[p], files[p], height[p])
    /\ UNCHANGED <<chain, decision, height, base, receipts, issued, status, crashes>>

ByzantineProposal(t) ==
    /\ Len(chain) < MaxHeight /\ Byzantine # {}
    /\ validateProposal(<<t>>, Len(chain))
    /\ proposed' = proposed \cup {<<t>>}
    /\ UNCHANGED <<chain, decision, height, base, mem, files, receipts, issued,
                   status, crashes>>

\* commitVote: the obligations are asserted on the proposal and the one decision
\* of the height is persisted before the vote leaves.
commitVote(r, block) ==
    /\ status[r] = "up" /\ height[r] = Len(chain)
    /\ ~Voted(r, height[r] + 1)
    /\ assertAdmissionInclusion(block, height[r], receipts[r])
    /\ decision' = [decision EXCEPT ![r] = @ \cup {<<height[r] + 1, block>>}]
    /\ UNCHANGED <<chain, proposed, height, base, mem, files, receipts, issued,
                   status, crashes>>

\* A block with the votes of a quorum (faulty replicas vote for anything) is
\* final; these votes finalize no recovery (acceptBlock asks the reserves').
Extend(block) ==
    /\ chain' = Append(chain, block)
    /\ proposed' = {}
    /\ UNCHANGED <<decision, height, base, mem, files, receipts, issued, status, crashes>>

Finalize ==
    \E block \in proposed :
        /\ ~IsRecovery(block)
        /\ Cardinality(Byzantine \cup
                {r \in Honest : <<Len(chain) + 1, block>> \in decision[r]}) >= Quorum
        /\ Extend(block)

\* A validator-recovery block: its own authorization, not this quorum.
FinalizeRecovery ==
    /\ Recoveries
    /\ Len(chain) < MaxHeight
    /\ \A k \in 1..Len(chain) : ~IsRecovery(chain[k])
    /\ Extend(<<RecoveryTx>>)

\* commit without the obligations.
CommitAllowedLoose(r, block) == TRUE

\* commit accepts the next finalized block unless it breaks an obligation; a
\* recovery block is exempt.
CommitAllowed(r, block) ==
    IsRecovery(block) \/ assertAdmissionInclusion(block, height[r], receipts[r])

\* commit: journal, memory, then the files of the block's transactions; a
\* recovery block also clears every receipted admission.
commit(r) ==
    /\ status[r] = "up" /\ height[r] < Len(chain)
    /\ LET block == chain[height[r] + 1]
           h == height[r] + 1
           gone == ToSet(block) \cup (IF IsRecovery(block) THEN receipts[r] ELSE {})
       IN /\ CommitAllowed(r, block)
          /\ height' = [height EXCEPT ![r] = h]
          /\ Prune(r, SelectSeq(mem[r], LAMBDA t : t \notin gone), files[r] \ gone, h)
          /\ receipts' = [receipts EXCEPT ![r] = @ \ gone]
    /\ UNCHANGED <<consensus, base, issued, status, crashes>>

\* The process stops once persistBlock has written the journal.
CommitCrash(r) ==
    /\ status[r] = "up" /\ height[r] < Len(chain)
    /\ crashes < MaxCrashes
    /\ CommitAllowed(r, chain[height[r] + 1])
    /\ height' = [height EXCEPT ![r] = @ + 1]
    /\ mem' = [mem EXCEPT ![r] = <<>>]
    /\ status' = [status EXCEPT ![r] = "down"]
    /\ crashes' = crashes + 1
    /\ UNCHANGED <<consensus, base, files, receipts, issued>>

Crash(r) ==
    /\ status[r] = "up" /\ crashes < MaxCrashes
    /\ mem' = [mem EXCEPT ![r] = <<>>]
    /\ status' = [status EXCEPT ![r] = "down"]
    /\ crashes' = crashes + 1
    /\ UNCHANGED <<consensus, height, base, files, receipts, issued>>

\* A constructor that loads the files and looks at nothing else.
RestartForgets(r) ==
    /\ status[r] = "down"
    /\ status' = [status EXCEPT ![r] = "up"]
    /\ mem' = [mem EXCEPT ![r] = SetToSeq(files[r])]
    /\ receipts' = [receipts EXCEPT ![r] = {}]
    /\ UNCHANGED <<consensus, height, base, files, issued, crashes>>

\* readdirSync().sort(): the order of the file names.
inNameOrder(ts) == SetToSortSeq(ts, LAMBDA a, b : a.id < b.id)

\* The constructor reads mempool/ in file-name order: it drops what the bodies
\* it holds have finalized, throws on a receipt of another height, signs a
\* missing receipt if the admission still fits the height, and prunes.
Restart(r) ==
    LET h == height[r]
        done == {t \in files[r] : \E k \in (base[r] + 1)..h : Contains(chain[k], t)}
        kept == files[r] \ done
        bonds == {t \in kept : isProtectedBeaconAdmission(t)}
    IN /\ status[r] = "down"
       /\ IF \E t \in bonds : t.at # h + 1
            THEN /\ status' = [status EXCEPT ![r] = "refused"]
                 /\ UNCHANGED <<mem, files, receipts>>
            ELSE /\ status' = [status EXCEPT ![r] = "up"]
                 /\ receipts' = [receipts EXCEPT ![r] = bonds]
                 /\ Prune(r, inNameOrder(kept), kept, h)
       /\ UNCHANGED <<consensus, height, base, issued, crashes>>

\* installSnapshot without the look at the receipts.
installSnapshotBlind(r, target) ==
    /\ Snapshots /\ status[r] = "up"
    /\ height[r] < target /\ target <= Len(chain)
    /\ height' = [height EXCEPT ![r] = target]
    /\ base' = [base EXCEPT ![r] = target]
    /\ UNCHANGED <<consensus, mem, files, receipts, issued, status, crashes>>

\* installStateSnapshotCandidates: the chain jumps to the snapshot; the mempool
\* is left as it is.  A receipt whose height the snapshot passes forbids it.
installSnapshot(r, target) ==
    /\ Snapshots /\ status[r] = "up"
    /\ height[r] < target /\ target <= Len(chain)
    /\ \A t \in receipts[r] : t.at > target
    /\ height' = [height EXCEPT ![r] = target]
    /\ base' = [base EXCEPT ![r] = target]
    /\ UNCHANGED <<consensus, mem, files, receipts, issued, status, crashes>>

Next ==
    \/ \E r \in Honest, t \in Txs : submitTransaction(r, t) \/ SubmitCrash(r, t)
    \/ \E p \in Honest : buildProposal(p)
    \/ \E t \in Txs : ByzantineProposal(t)
    \/ \E r \in Honest : \E block \in proposed : commitVote(r, block)
    \/ Finalize
    \/ FinalizeRecovery
    \/ \E r \in Honest : commit(r) \/ CommitCrash(r) \/ Crash(r) \/ Restart(r)
    \/ \E r \in Honest, target \in 1..MaxHeight : installSnapshot(r, target)

Spec == Init /\ [][Next]_vars

-----------------------------------------------------------------------------
Signers(t, early) ==
    {r \in Replicas : \E i \in issued : i.by = r /\ i.tx = t /\ (early => ~i.voted)}
\* A quorum of receipts for t has been returned to clients.
Certified(t) == Cardinality(Signers(t, FALSE)) >= Quorum

\* t is in the block of its promised height, or that is a recovery block.
Included(t) == Contains(chain[t.at], t) \/ IsRecovery(chain[t.at])

\* The promise of a receipt quorum (docs/beacon.md: "A receipt quorum and any
\* finality quorum therefore intersect in enough honest validators to prevent
\* omission"): whatever crashes and restarts happen, the block at the promised
\* height holds the admission.
PromiseKept ==
    \A t \in Txs :
        (isProtectedBeaconAdmission(t) /\ Certified(t) /\ Len(chain) >= t.at) => Included(t)

\* What the code does guarantee: the promise of a quorum whose signers had not
\* yet signed a commit vote for that height when they signed the receipt.
EarlyPromiseKept ==
    \A t \in Txs :
        (/\ isProtectedBeaconAdmission(t) /\ Cardinality(Signers(t, TRUE)) >= Quorum
         /\ Len(chain) >= t.at) => Included(t)

\* A replica that stopped between any two writes starts again: the constructor
\* never meets a receipt that its own journal contradicts.
RestartSucceeds == \A r \in Honest : status[r] # "refused"

\* A running replica has its pending transactions on disk, and holds none that
\* the blocks it has replayed already contain.
PoolDurable ==
    \A r \in Honest : status[r] = "up" =>
        /\ ToSet(mem[r]) = files[r]
        /\ receipts[r] \subseteq files[r]
        /\ \A k \in 1..height[r] : ToSet(chain[k]) \cap files[r] = {}

\* An obligation is met or lifted before its height passes: a running replica
\* never holds a receipt of a height it has reached, whether it replayed the
\* block, installed a snapshot over it or followed a recovery.
NoExpiredReceipt ==
    \A r \in Honest : status[r] = "up" => \A t \in receipts[r] : t.at > height[r]

\* docs/network.md: pending transactions outside the finalized value "remain
\* queued for a later block": what a replica keeps still forms a valid next block.
StillProposable ==
    \A r \in Honest : status[r] = "up" =>
        validateProposal(take(pruned(mem[r], height[r])), height[r])

\* The error of the code speaks of a "quorum-receipted" admission: a replica
\* refuses a finalized block only for an admission with a receipt quorum.
RefusesForQuorumOnly ==
    \A r \in Honest : (status[r] = "up" /\ height[r] < Len(chain)) =>
        \/ CommitAllowed(r, chain[height[r] + 1])
        \/ \E t \in receipts[r] : Certified(t)
=============================================================================
