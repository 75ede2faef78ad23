------------------------------- MODULE MCNode -------------------------------
(* The replicas and what they owe their clients: durable pools with        *)
(* admission receipts, the coordinator that relays transactions and        *)
(* produces blocks over HTTP, the rotation of the validator set, and the   *)
(* processes of a readiness cohort. A behaviour is a behaviour of one of   *)
(* them.                                                                   *)
EXTENDS Mempool, Integers, FiniteSets, Sequences, TLC
CONSTANTS r1, r2, r3, r4

VARIABLES part,   \* the component that this behaviour is about
    chain1, pool, relay, acked, session, peer, attempts, lost, crashes1, prepares, timeouts,
    commitVotes, height1, base1, mem1, files1, receipts1, proposed1, decision1, issued1, status1,
    step, state, closing, terminal, target, previousUpdates, inbox, cut, child, refused, hung,
    control, previousUpdate, adopting, request, response, pending, query, work, operations, keyed,
    expired, installed, updates, faults

suiteVars == <<part,
    chain, height, base, mem, files, receipts, proposed, decision, issued, status, crashes, chain1,
    pool, relay, acked, session, peer, attempts, lost, crashes1, prepares, timeouts, commitVotes,
    height1, base1, mem1, files1, receipts1, proposed1, decision1, issued1, status1, step, state,
    closing, terminal, target, previousUpdates, inbox, cut, child, refused, hung, control,
    previousUpdate, adopting, request, response, pending, query, work, operations, keyed, expired,
    installed, updates, faults>>

Tx(id, sender, nonce, kind, at) ==
    [id |-> id, sender |-> sender, nonce |-> nonce, kind |-> kind, at |-> at]
Bond == Tx(4, "b", 0, "bond", 1)
\* A transfer, and a bond whose receipts promise height 1.
BondTxs == {Tx(1, "s", 0, "transfer", 0), Bond}
\* Payload B schedules a rotation, to one more validator or to another one.
RotateIn == [x \in {"A", "B"} |-> IF x = "B" THEN {1, 2, 3, 4} ELSE {}]
RotateOne == [x \in {"A", "B"} |-> IF x = "B" THEN {2, 3, 4} ELSE {}]
\* A bond and a validator admission, both promised for height 2.
JumpTxs == {[id |-> 4, sender |-> "b", nonce |-> 0, kind |-> "bond", at |-> 2],
            [id |-> 5, sender |-> "v", nonce |-> 0, kind |-> "admission", at |-> 2]}
\* Honest replicas play the same part; which is which does not matter.
NodeSymmetry == Permutations({r1, r2, r3})

-----------------------------------------------------------------------------
\* Four validators, one faulty, and a crash between any two file writes.
PoolInit ==
    /\ part = "pool" /\ Init /\ chain1 = 0 /\ pool = 0 /\ relay = 0 /\ acked = 0 /\ session = 0
    /\ peer = 0 /\ attempts = 0 /\ lost = 0 /\ crashes1 = 0 /\ prepares = 0 /\ timeouts = 0
    /\ commitVotes = 0 /\ height1 = 0 /\ base1 = 0 /\ mem1 = 0 /\ files1 = 0 /\ receipts1 = 0
    /\ proposed1 = 0 /\ decision1 = 0 /\ issued1 = 0 /\ status1 = 0 /\ step = 0 /\ state = 0
    /\ closing = 0 /\ terminal = 0 /\ target = 0 /\ previousUpdates = 0 /\ inbox = 0 /\ cut = 0
    /\ child = 0 /\ refused = 0 /\ hung = 0 /\ control = 0 /\ previousUpdate = 0 /\ adopting = 0
    /\ request = 0 /\ response = 0 /\ pending = 0 /\ query = 0 /\ work = 0 /\ operations = 0
    /\ keyed = 0 /\ expired = 0 /\ installed = 0 /\ updates = 0 /\ faults = 0
PoolStep ==
    /\ part = "pool" /\ Next
    /\ UNCHANGED <<part,
        chain1, pool, relay, acked, session, peer, attempts, lost, crashes1, prepares, timeouts,
        commitVotes, height1, base1, mem1, files1, receipts1, proposed1, decision1, issued1,
        status1, step, state, closing, terminal, target, previousUpdates, inbox, cut, child,
        refused, hung, control, previousUpdate, adopting, request, response, pending, query, work,
        operations, keyed, expired, installed, updates, faults>>
-----------------------------------------------------------------------------
\* Two lost requests or answers and a restart of the coordinator.
CF == INSTANCE Coordinator WITH
    Validators <- 0..3, Txs <- {"t1"}, MaxRound <- 1, MaxAttempts <- 1, InOrder <- TRUE, Sessions <-
    {"s1"}, MaxLost <- 2, MaxCrashes <- 1, chain <- chain1, crashes <- crashes1
FaultsInit ==
    /\ part = "faults" /\ CF!Init /\ Init /\ prepares = 0 /\ timeouts = 0 /\ commitVotes = 0
    /\ height1 = 0 /\ base1 = 0 /\ mem1 = 0 /\ files1 = 0 /\ receipts1 = 0 /\ proposed1 = 0
    /\ decision1 = 0 /\ issued1 = 0 /\ status1 = 0 /\ step = 0 /\ state = 0 /\ closing = 0
    /\ terminal = 0 /\ target = 0 /\ previousUpdates = 0 /\ inbox = 0 /\ cut = 0 /\ child = 0
    /\ refused = 0 /\ hung = 0 /\ control = 0 /\ previousUpdate = 0 /\ adopting = 0 /\ request = 0
    /\ response = 0 /\ pending = 0 /\ query = 0 /\ work = 0 /\ operations = 0 /\ keyed = 0
    /\ expired = 0 /\ installed = 0 /\ updates = 0 /\ faults = 0
FaultsStep ==
    /\ part = "faults" /\ CF!Next
    /\ UNCHANGED <<part,
        chain, height, base, mem, files, receipts, proposed, decision, issued, status, crashes,
        prepares, timeouts, commitVotes, height1, base1, mem1, files1, receipts1, proposed1,
        decision1, issued1, status1, step, state, closing, terminal, target, previousUpdates, inbox,
        cut, child, refused, hung, control, previousUpdate, adopting, request, response, pending,
        query, work, operations, keyed, expired, installed, updates, faults>>
-----------------------------------------------------------------------------
\* Two overlapping calls of produceBlock among three validators.
CS == INSTANCE Coordinator WITH
    Validators <- 0..2, Txs <- {"t1"}, MaxRound <- 1, MaxAttempts <- 2, InOrder <- TRUE, Sessions <-
    {"s1", "s2"}, MaxLost <- 0, MaxCrashes <- 0, chain <- chain1, crashes <- crashes1
SessionsInit ==
    /\ part = "sessions" /\ CS!Init /\ Init /\ prepares = 0 /\ timeouts = 0 /\ commitVotes = 0
    /\ height1 = 0 /\ base1 = 0 /\ mem1 = 0 /\ files1 = 0 /\ receipts1 = 0 /\ proposed1 = 0
    /\ decision1 = 0 /\ issued1 = 0 /\ status1 = 0 /\ step = 0 /\ state = 0 /\ closing = 0
    /\ terminal = 0 /\ target = 0 /\ previousUpdates = 0 /\ inbox = 0 /\ cut = 0 /\ child = 0
    /\ refused = 0 /\ hung = 0 /\ control = 0 /\ previousUpdate = 0 /\ adopting = 0 /\ request = 0
    /\ response = 0 /\ pending = 0 /\ query = 0 /\ work = 0 /\ operations = 0 /\ keyed = 0
    /\ expired = 0 /\ installed = 0 /\ updates = 0 /\ faults = 0
SessionsStep ==
    /\ part = "sessions" /\ CS!Next
    /\ UNCHANGED <<part,
        chain, height, base, mem, files, receipts, proposed, decision, issued, status, crashes,
        prepares, timeouts, commitVotes, height1, base1, mem1, files1, receipts1, proposed1,
        decision1, issued1, status1, step, state, closing, terminal, target, previousUpdates, inbox,
        cut, child, refused, hung, control, previousUpdate, adopting, request, response, pending,
        query, work, operations, keyed, expired, installed, updates, faults>>
-----------------------------------------------------------------------------
\* Payload B of block 1 rotates validator 4 in at block 2.
FR == INSTANCE Finality WITH
    Byzantine <- {}, Genesis <- {1, 2, 3}, RotationDelay <- 1, MaxHeight <- 2, MaxRound <- 0,
    Validators <- {1, 2, 3, 4}, Payloads <- {"A", "B"}, AnswerSets <- {{1, 2, 3}, {2, 3, 4}, {1, 2,
    3, 4}}, MaxCertifications <- 1, Rotation <- RotateIn, chain <- chain1
RotationInit ==
    /\ part = "rotation" /\ FR!Init /\ Init /\ pool = 0 /\ relay = 0 /\ acked = 0 /\ session = 0
    /\ peer = 0 /\ attempts = 0 /\ lost = 0 /\ crashes1 = 0 /\ height1 = 0 /\ base1 = 0 /\ mem1 = 0
    /\ files1 = 0 /\ receipts1 = 0 /\ proposed1 = 0 /\ decision1 = 0 /\ issued1 = 0 /\ status1 = 0
    /\ step = 0 /\ state = 0 /\ closing = 0 /\ terminal = 0 /\ target = 0 /\ previousUpdates = 0
    /\ inbox = 0 /\ cut = 0 /\ child = 0 /\ refused = 0 /\ hung = 0 /\ control = 0
    /\ previousUpdate = 0 /\ adopting = 0 /\ request = 0 /\ response = 0 /\ pending = 0 /\ query = 0
    /\ work = 0 /\ operations = 0 /\ keyed = 0 /\ expired = 0 /\ installed = 0 /\ updates = 0
    /\ faults = 0
RotationStep ==
    /\ part = "rotation" /\ FR!Next
    /\ UNCHANGED <<part,
        chain, height, base, mem, files, receipts, proposed, decision, issued, status, crashes,
        pool, relay, acked, session, peer, attempts, lost, crashes1, height1, base1, mem1, files1,
        receipts1, proposed1, decision1, issued1, status1, step, state, closing, terminal, target,
        previousUpdates, inbox, cut, child, refused, hung, control, previousUpdate, adopting,
        request, response, pending, query, work, operations, keyed, expired, installed, updates,
        faults>>
-----------------------------------------------------------------------------
\* Payload B of block 1 rotates validator 1 out and 4 in at block 2.
FS == INSTANCE Finality WITH
    Byzantine <- {}, Genesis <- {1, 2, 3}, RotationDelay <- 1, MaxHeight <- 2, MaxRound <- 0,
    Validators <- {1, 2, 3, 4}, Payloads <- {"A", "B"}, AnswerSets <- {{1, 2, 3}, {2, 3, 4}, {1, 2,
    3, 4}}, MaxCertifications <- 1, Rotation <- RotateOne, chain <- chain1
SwapInit ==
    /\ part = "swap" /\ FS!Init /\ Init /\ pool = 0 /\ relay = 0 /\ acked = 0 /\ session = 0
    /\ peer = 0 /\ attempts = 0 /\ lost = 0 /\ crashes1 = 0 /\ height1 = 0 /\ base1 = 0 /\ mem1 = 0
    /\ files1 = 0 /\ receipts1 = 0 /\ proposed1 = 0 /\ decision1 = 0 /\ issued1 = 0 /\ status1 = 0
    /\ step = 0 /\ state = 0 /\ closing = 0 /\ terminal = 0 /\ target = 0 /\ previousUpdates = 0
    /\ inbox = 0 /\ cut = 0 /\ child = 0 /\ refused = 0 /\ hung = 0 /\ control = 0
    /\ previousUpdate = 0 /\ adopting = 0 /\ request = 0 /\ response = 0 /\ pending = 0 /\ query = 0
    /\ work = 0 /\ operations = 0 /\ keyed = 0 /\ expired = 0 /\ installed = 0 /\ updates = 0
    /\ faults = 0
SwapStep ==
    /\ part = "swap" /\ FS!Next
    /\ UNCHANGED <<part,
        chain, height, base, mem, files, receipts, proposed, decision, issued, status, crashes,
        pool, relay, acked, session, peer, attempts, lost, crashes1, height1, base1, mem1, files1,
        receipts1, proposed1, decision1, issued1, status1, step, state, closing, terminal, target,
        previousUpdates, inbox, cut, child, refused, hung, control, previousUpdate, adopting,
        request, response, pending, query, work, operations, keyed, expired, installed, updates,
        faults>>
-----------------------------------------------------------------------------
\* Snapshots and recovery blocks carry two replicas over heights.
MJ == INSTANCE Mempool WITH
    Replicas <- {"q1", "q2"}, Byzantine <- {}, Txs <- JumpTxs, MaxHeight <- 2, MaxCrashes <- 0,
    Recoveries <- TRUE, Snapshots <- TRUE, chain <- chain1, height <- height1, base <- base1, mem <-
    mem1, files <- files1, receipts <- receipts1, proposed <- proposed1, decision <- decision1,
    issued <- issued1, status <- status1, crashes <- crashes1
JumpInit ==
    /\ part = "jump" /\ MJ!Init /\ Init /\ pool = 0 /\ relay = 0 /\ acked = 0 /\ session = 0
    /\ peer = 0 /\ attempts = 0 /\ lost = 0 /\ prepares = 0 /\ timeouts = 0 /\ commitVotes = 0
    /\ step = 0 /\ state = 0 /\ closing = 0 /\ terminal = 0 /\ target = 0 /\ previousUpdates = 0
    /\ inbox = 0 /\ cut = 0 /\ child = 0 /\ refused = 0 /\ hung = 0 /\ control = 0
    /\ previousUpdate = 0 /\ adopting = 0 /\ request = 0 /\ response = 0 /\ pending = 0 /\ query = 0
    /\ work = 0 /\ operations = 0 /\ keyed = 0 /\ expired = 0 /\ installed = 0 /\ updates = 0
    /\ faults = 0
JumpStep ==
    /\ part = "jump" /\ MJ!Next
    /\ UNCHANGED <<part,
        chain, height, base, mem, files, receipts, proposed, decision, issued, status, crashes,
        pool, relay, acked, session, peer, attempts, lost, prepares, timeouts, commitVotes, step,
        state, closing, terminal, target, previousUpdates, inbox, cut, child, refused, hung,
        control, previousUpdate, adopting, request, response, pending, query, work, operations,
        keyed, expired, installed, updates, faults>>
-----------------------------------------------------------------------------
\* One height update and one fault.
RU == INSTANCE ValidatorReadiness WITH
    Challenges <- {}, ExpiresAt <- 2, MaxUpdates <- 1, MaxFaults <- 1, status <- status1
UpdateInit ==
    /\ part = "update" /\ RU!Init /\ Init /\ chain1 = 0 /\ pool = 0 /\ relay = 0 /\ acked = 0
    /\ session = 0 /\ peer = 0 /\ attempts = 0 /\ lost = 0 /\ crashes1 = 0 /\ prepares = 0
    /\ timeouts = 0 /\ commitVotes = 0 /\ height1 = 0 /\ base1 = 0 /\ mem1 = 0 /\ files1 = 0
    /\ receipts1 = 0 /\ proposed1 = 0 /\ decision1 = 0 /\ issued1 = 0
UpdateStep ==
    /\ part = "update" /\ RU!Next
    /\ UNCHANGED <<part,
        chain, height, base, mem, files, receipts, proposed, decision, issued, status, crashes,
        chain1, pool, relay, acked, session, peer, attempts, lost, crashes1, prepares, timeouts,
        commitVotes, height1, base1, mem1, files1, receipts1, proposed1, decision1, issued1>>
-----------------------------------------------------------------------------
\* Two challenges that may be asked again.
RS == INSTANCE ValidatorReadiness WITH
    Challenges <- {"c1", "c2"}, ExpiresAt <- 1, MaxUpdates <- 0, MaxFaults <- 0, status <- status1
SigningInit ==
    /\ part = "signing" /\ RS!Init /\ Init /\ chain1 = 0 /\ pool = 0 /\ relay = 0 /\ acked = 0
    /\ session = 0 /\ peer = 0 /\ attempts = 0 /\ lost = 0 /\ crashes1 = 0 /\ prepares = 0
    /\ timeouts = 0 /\ commitVotes = 0 /\ height1 = 0 /\ base1 = 0 /\ mem1 = 0 /\ files1 = 0
    /\ receipts1 = 0 /\ proposed1 = 0 /\ decision1 = 0 /\ issued1 = 0
SigningStep ==
    /\ part = "signing" /\ RS!Next
    /\ UNCHANGED <<part,
        chain, height, base, mem, files, receipts, proposed, decision, issued, status, crashes,
        chain1, pool, relay, acked, session, peer, attempts, lost, crashes1, prepares, timeouts,
        commitVotes, height1, base1, mem1, files1, receipts1, proposed1, decision1, issued1>>
-----------------------------------------------------------------------------
\* One challenge and one fault.
RA == INSTANCE ValidatorReadiness WITH
    Challenges <- {"c1"}, ExpiresAt <- 1, MaxUpdates <- 0, MaxFaults <- 1, status <- status1
AbortInit ==
    /\ part = "abort" /\ RA!Init /\ Init /\ chain1 = 0 /\ pool = 0 /\ relay = 0 /\ acked = 0
    /\ session = 0 /\ peer = 0 /\ attempts = 0 /\ lost = 0 /\ crashes1 = 0 /\ prepares = 0
    /\ timeouts = 0 /\ commitVotes = 0 /\ height1 = 0 /\ base1 = 0 /\ mem1 = 0 /\ files1 = 0
    /\ receipts1 = 0 /\ proposed1 = 0 /\ decision1 = 0 /\ issued1 = 0
AbortStep ==
    /\ part = "abort" /\ RA!Next
    /\ UNCHANGED <<part,
        chain, height, base, mem, files, receipts, proposed, decision, issued, status, crashes,
        chain1, pool, relay, acked, session, peer, attempts, lost, crashes1, prepares, timeouts,
        commitVotes, height1, base1, mem1, files1, receipts1, proposed1, decision1, issued1>>
-----------------------------------------------------------------------------
SuiteInit ==
    \/ PoolInit
    \/ FaultsInit
    \/ SessionsInit
    \/ RotationInit
    \/ SwapInit
    \/ JumpInit
    \/ UpdateInit
    \/ SigningInit
    \/ AbortInit
SuiteNext ==
    \/ PoolStep
    \/ FaultsStep
    \/ SessionsStep
    \/ RotationStep
    \/ SwapStep
    \/ JumpStep
    \/ UpdateStep
    \/ SigningStep
    \/ AbortStep
SuiteSpec == SuiteInit /\ [][SuiteNext]_suiteVars

\* Mempool: what a running replica holds in memory is what it would read
\* back. Coordinator: a transaction answered with success is final or in the
\* durable pools of a quorum, and overlapping sessions never finalize two
\* values of one height. Finality: across a rotation too, the parent of a
\* finalized block is on the disks of a quorum.
AnswersHold ==
    /\ part = "pool" => PoolDurable
    /\ part = "faults" => CF!AckedDurable
    /\ part = "sessions" => CS!OneChain
    /\ part = "rotation" => FR!FinalizedParentStored
    /\ part = "swap" => FS!FinalizedParentStored

\* ValidatorReadiness: the gateway serves only after both signers
\* acknowledged the activation, the launcher reports an active cohort only
\* while it serves, a key signs an operation at most once and never after the
\* launcher let go, and launcher and signers agree about the heights.
\* Mempool: snapshots and recovery blocks never carry a replica past an
\* inclusion height it has signed for.
CohortSafe ==
    /\ part = "update" => RU!ServingIsBacked /\ RU!ActiveIsServing /\ RU!HeightsAgree
    /\ part = "signing" => RS!SignedOnce /\ RS!NoLateSignature
    /\ part = "abort" =>
           RA!ServingIsBacked /\ RA!ActiveIsServing /\ RA!SignedOnce /\ RA!NoLateSignature
    /\ part = "jump" => MJ!NoExpiredReceipt

=============================================================================
