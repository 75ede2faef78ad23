--------------------------- MODULE OperatorEvents ---------------------------
(***************************************************************************)
(* The operator event journal of a validator replica                       *)
(* (distributed-node.mjs): a batch of consensus events handed in for the   *)
(* next height is kept in a journal file until that height is decided, and *)
(* its fate is then written to a single outcome file.  The replica follows *)
(* the finalized chain block by block or by a snapshot, which leaves it    *)
(* without the bodies of older blocks, and may stop between two writes.    *)
(* Its pending transactions are kept in one file each and count in every   *)
(* check of a batch; of them only the strict nonces of their senders are   *)
(* modelled (Mempool has their receipts).                                  *)
(***************************************************************************)
EXTENDS Naturals, FiniteSets, SequencesExt

CONSTANTS Events,       \* operator events (commits, reveals, beacons, claims)
          MaxBatch,     \* most events of one batch or block
          Deadline,     \* the last height at which an event is valid
          Txs,          \* transactions: [id, sender, nonce]
          MaxHeight,    \* bound on the finalized chain
          MaxCrashes    \* bound on crashes

ASSUME EventConstants ==
    MaxBatch \in Nat /\ Deadline \in [Events -> Nat] /\ MaxHeight \in Nat /\ MaxCrashes \in Nat

VARIABLES
    chain,      \* the finalized blocks: [events, txs], a set of each
    height,     \* the replica's height (its block journal is on disk)
    base,       \* bodies up to this height are unavailable
    journal,    \* OPERATOR-EVENTS.json: {} or one [events, expectedHeight]
    outcome,    \* OPERATOR-EVENT-OUTCOME.json: {} or one [entries, expectedHeight]
    pool,       \* #mempool in insertion order; the files in mempool/, in none
    up,         \* the process runs; its memory then equals the files
    accepted,   \* history: the batches answered with "queued"
    reported,   \* history: the outcomes that were written
    crashes

vars == <<chain, height, base, journal, outcome, pool, up, accepted, reported, crashes>>

\* normalizeOperatorEvents: a batch is not empty and bounded.
Batches == {b \in SUBSET Events : b # {} /\ Cardinality(b) <= MaxBatch}

\* The ledger takes an event once, until its deadline, and the transactions of
\* a sender with strict nonces: t comes after those of the first h blocks and
\* those in the set before.
Used(sender, h) == {t.nonce : t \in {u \in Txs : u.sender = sender /\ \E k \in 1..h : u \in chain[k].txs}}
Follows(t, h, before) ==
    Used(t.sender, h) \cup {u.nonce : u \in {v \in before : v.sender = t.sender}} = 0..(t.nonce - 1)
NoncesFollow(txs, h) == \A i \in 1..Len(txs) : Follows(txs[i], h, {txs[j] : j \in 1..(i - 1)})

EventsValid(b, h) ==
    \A e \in b : h + 1 <= Deadline[e] /\ \A k \in 1..h : e \notin chain[k].events

\* #validateOperatorEvents: the batch and all pending transactions, in the order
\* the mempool has them, form a valid next block.
ValidAt(b, txs, h) == EventsValid(b, h) /\ NoncesFollow(txs, h)

-----------------------------------------------------------------------------
\* operatorEventEntryOutcomes that takes a missing body for an empty block.
operatorEventEntryOutcomesBlind(staged, available) ==
    [e \in staged.events |->
        IF available /\ e \in chain[staged.expectedHeight].events THEN "included" ELSE "expired"]

\* operatorEventEntryOutcomes: unknown when the body of the expected height is
\* not available.
operatorEventEntryOutcomes(staged, available) ==
    [e \in staged.events |->
        IF ~available THEN "unknown"
        ELSE IF e \in chain[staged.expectedHeight].events THEN "included" ELSE "expired"]

OutcomeOf(staged, h, b) ==
    [entries |-> operatorEventEntryOutcomes(staged,
                    b < staged.expectedHeight /\ staged.expectedHeight <= h),
     expectedHeight |-> staged.expectedHeight]

\* A prune that never finds the batch stale once its height has passed.
StaleNever(h) == {s \in journal : s.expectedHeight > h + 1}

\* The entries of the batches whose height is no longer the next one.
Stale(h) == {s \in journal : s.expectedHeight # h + 1}

\* #pruneOperatorEvents at height h: the outcome is written (it replaces the
\* one before), then the journal is removed.
pruneOperatorEvents(h, b) ==
    IF Stale(h) = {} THEN UNCHANGED <<journal, outcome, reported>>
    ELSE LET result == {OutcomeOf(s, h, b) : s \in Stale(h)}
         IN /\ outcome' = result
            /\ reported' = reported \cup result
            /\ journal' = {}

\* The journal is removed first.
pruneCrashSwapped(h, b) ==
    /\ Stale(h) # {}
    /\ journal' = {}
    /\ UNCHANGED <<outcome, reported>>

\* The process stops between the two.
pruneCrash(h, b) ==
    /\ Stale(h) # {}
    /\ outcome' = {OutcomeOf(s, h, b) : s \in Stale(h)}
    /\ reported' = reported \cup outcome'
    /\ UNCHANGED journal

-----------------------------------------------------------------------------
Init ==
    /\ chain = <<>> /\ height = 0 /\ base = 0
    /\ journal = {} /\ outcome = {} /\ pool = <<>> /\ up = TRUE
    /\ accepted = {} /\ reported = {} /\ crashes = 0

\* stageOperatorEvents refuses a batch with an event that the last outcome
\* calls expired or unknown.
Unresolved(b) ==
    \E o \in outcome : \E e \in b \cap DOMAIN o.entries : o.entries[e] # "included"

\* A batch is taken when none is staged and the next block with it is valid.
CanStage(b) ==
    /\ up /\ Stale(height) = {}
    /\ ~Unresolved(b)
    /\ journal = {}
    /\ ValidAt(b, pool, height)

stageOperatorEvents(b) ==
    /\ CanStage(b)
    /\ journal' = {[events |-> b, expectedHeight |-> height + 1]}
    /\ accepted' = accepted \cup journal'
    /\ UNCHANGED <<chain, height, base, outcome, pool, up, reported, crashes>>

\* The process stops after the journal file is linked, before the answer.
StageCrash(b) ==
    /\ crashes < MaxCrashes /\ CanStage(b)
    /\ journal' = {[events |-> b, expectedHeight |-> height + 1]}
    /\ up' = FALSE /\ crashes' = crashes + 1
    /\ UNCHANGED <<chain, height, base, outcome, pool, accepted, reported>>

\* submitTransaction: with it at the end, and the staged batch, the pending
\* transactions still form a valid next block.
submitTransaction(t) ==
    /\ up /\ t \notin ToSet(pool)
    /\ ValidAt(UNION {s.events : s \in journal}, Append(pool, t), height)
    /\ pool' = Append(pool, t)
    /\ UNCHANGED <<chain, height, base, journal, outcome, up, accepted, reported, crashes>>

\* The transactions of a block stand in the order of their nonces.
Applies(T, h) ==
    \A t \in T :
        /\ Follows(t, h, {u \in T : u.nonce < t.nonce})
        /\ \A u \in T : u.sender = t.sender /\ u.nonce = t.nonce => u = t

\* Some validators finalize the next block: this replica's proposal with its
\* batch, or another one's.
Finalize ==
    /\ Len(chain) < MaxHeight
    /\ \E b \in SUBSET Events, T \in SUBSET Txs :
        /\ Cardinality(b) <= MaxBatch /\ EventsValid(b, Len(chain)) /\ Applies(T, Len(chain))
        /\ chain' = Append(chain, [events |-> b, txs |-> T])
    /\ UNCHANGED <<height, base, journal, outcome, pool, up, accepted, reported, crashes>>

commit ==
    /\ up /\ height < Len(chain)
    /\ height' = height + 1
    /\ pruneOperatorEvents(height + 1, base)
    /\ pool' = SelectSeq(pool, LAMBDA t : t \notin chain[height + 1].txs)
    /\ UNCHANGED <<chain, base, up, accepted, crashes>>

\* The mempool is left as it is.
installSnapshot(target) ==
    /\ up /\ height < target /\ target <= Len(chain)
    /\ height' = target /\ base' = target
    /\ pruneOperatorEvents(target, target)
    /\ UNCHANGED <<chain, pool, up, accepted, crashes>>

\* The process stops after the block is in the journal: before the prune, or
\* between its two writes.
CommitCrash ==
    /\ crashes < MaxCrashes /\ up /\ height < Len(chain)
    /\ height' = height + 1
    /\ \/ UNCHANGED <<journal, outcome, reported>>
       \/ pruneCrash(height + 1, base)
    /\ up' = FALSE /\ crashes' = crashes + 1
    /\ UNCHANGED <<chain, base, pool, accepted>>

\* The process stops between two operations.
Crash ==
    /\ crashes < MaxCrashes /\ up
    /\ up' = FALSE /\ crashes' = crashes + 1
    /\ UNCHANGED <<chain, height, base, journal, outcome, pool, accepted, reported>>

\* readOperatorEventOutcome: an outcome has one status per event of a batch, for
\* a height the chain has reached; anything else stops the start.
WellFormedOutcome(o) ==
    /\ DOMAIN o.entries \in Batches
    /\ \A e \in DOMAIN o.entries : o.entries[e] \in {"included", "expired", "unknown"}
    /\ 1 <= o.expectedHeight /\ o.expectedHeight <= height

\* The constructor reads mempool/ in the order of the file names, the hashes
\* of the transactions, without those that its block bodies hold.
Reloaded ==
    SetToSortSeq({t \in ToSet(pool) : \A k \in (base + 1)..height : t \notin chain[k].txs},
                 LAMBDA a, b : a.id < b.id)

\* It refuses a malformed outcome, and a batch of the next height that does not
\* form a valid block with the transactions in that order.
Starts ==
    /\ \A o \in outcome : WellFormedOutcome(o)
    /\ Stale(height) = {} => \A s \in journal : ValidAt(s.events, Reloaded, height)

\* The constructor reads the files, prunes, and validates what is left.
Restart ==
    /\ ~up /\ Starts
    /\ pool' = Reloaded
    /\ pruneOperatorEvents(height, base)
    /\ up' = TRUE
    /\ UNCHANGED <<chain, height, base, accepted, crashes>>

Next ==
    \/ \E b \in Batches : stageOperatorEvents(b) \/ StageCrash(b)
    \/ \E t \in Txs : submitTransaction(t)
    \/ Finalize \/ commit \/ CommitCrash \/ Crash \/ Restart
    \/ \E target \in 1..MaxHeight : installSnapshot(target)

\* A stopped replica is started again and keeps following the chain.
Spec == Init /\ [][Next]_vars /\ WF_vars(Restart) /\ WF_vars(commit)

-----------------------------------------------------------------------------
\* ValidAsArrived: what the constructor checks of the outcome file and the
\* journal is true of the files that the replica has written itself, with the
\* pending transactions in the order in which they have arrived.  (In the order
\* of their hashes it is not, and then the start is refused.)
ValidAsArrived ==
    /\ \A o \in outcome : WellFormedOutcome(o)
    /\ Stale(height) = {} => \A s \in journal : ValidAt(s.events, pool, height)

\* No accepted batch is lost: it is still in the journal or an outcome for its
\* height and events was written, wherever the process stopped.
BatchAccounted ==
    \A a \in accepted :
        \/ a \in journal
        \/ \E o \in reported : o.expectedHeight = a.expectedHeight /\ DOMAIN o.entries = a.events

\* An outcome never claims what the finalized chain contradicts: "included" and
\* "expired" are true of the block of that height.
OutcomeTruthful ==
    \A o \in reported : \A e \in DOMAIN o.entries :
        /\ o.entries[e] = "included" => e \in chain[o.expectedHeight].events
        /\ o.entries[e] = "expired" => e \notin chain[o.expectedHeight].events

=============================================================================
