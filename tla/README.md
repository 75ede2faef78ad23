# TLA+ verification of NIR

NIR is a proof-of-progress blockchain (`src/blockchain/`, JavaScript, with a second
implementation of some ledger rules in `src/rust/`). A rotating set of validators
orders blocks with a two-phase Byzantine agreement, every node keeps its chain in a
redundant journal on disk, a large set of ledger rules decides what a block may
contain, and local programs (a wallet bridge, a wallet page, a mining laboratory)
hold keys and show what happened. This directory models the parts whose correctness
depends on order, failure and concurrency, checks them with TLC on small instances,
and proves the central safety properties with TLAPS for every size.

## 1. Inventory

| Component | State | Operations | Interaction | What is hard |
| --- | --- | --- | --- | --- |
| Two-phase finality, certificates, rotation (`distributed-node.mjs`, `validator-service.mjs`, `chain.mjs`) | decision files `prepares/`, `timeouts/`, `commits/`, the chain, the pending rotation | `vote`, `timeout`, `commitVote`, `finalizeProposal`, `commit`, `verifyCertificate` | signed HTTP requests between validators | overlapping sessions, lost answers, restarts, Byzantine validators, the joint quorum at a rotation |
| View change lock discovery (`validator-service.mjs`, `consensus-view.mjs`) | none | `discoverLockedProposal`, `selectHighestCertifiedProposal` | asks all peers for their locks | answers in any combination |
| Coordinator (`distributed-node.mjs`) | pending transactions, session, chain | `submitTransaction`, `produceBlock`, broadcast, catch-up | calls the replicas over HTTP | awaits at which other requests run, retries, restart |
| Mempool and admission receipts (`distributed-node.mjs`, `admission-inclusion.mjs`) | pool and receipt files, obligations | submit, vote, commit, snapshot, recovery, restart | guards of `vote` and `commit` | a crash between two file writes |
| Operator event journal (`distributed-node.mjs`) | journal and outcome files | stage, settle, prune, restart | follows the finalized chain | a crash between two writes, blocks replaced by a snapshot |
| Block journal, snapshots, pruning (`block-store.mjs`, `snapshot-store.mjs`, `node-cli.mjs`) | two copies of blocks, checkpoint and snapshot; quarantine directory | `loadBlockStore`, `persistBlock`, snapshot installation, `prune-*` | called by `commit` and at start | stops between writes, rot, failing writes, a node that runs between commands |
| Account history, single-process node (`account-history*.mjs`, `node-store.mjs`) | two record journals, database, archive | append, rebuild, install, restore, heartbeat | written in the commit of a block | a stop between block and history, faulty archive operators |
| Checkpoint trust, light client (`checkpoint-*.mjs`, `light-client.mjs`, `validator-recovery-trust-store.mjs`) | newest trusted checkpoint in two copies, lock files | advance, follow, recover | reads certificates and packages | two processes, stale locks, stops between copies |
| Backup and integrity tools (`backup-*.mjs`, `integrity-scrubber.mjs`) | result journal, generations, scrub cursor, repair workspace | export, drill, retention, scrub, repair, replace | run beside the node | stops between any two writes |
| Ledger: transfers, credits, assets, names, mandates (`chain.mjs`, `transfer-state-transition.mjs`, `name-registry.mjs`, `agent-mandate-transition.mjs`) | balances, nonces, stakes, tables | one rule per transaction type | run inside `#applyBlock` | conservation, replay, ordering in a block, limits |
| Ledger: block rules and upgrades (`chain.mjs`) | version, pending rotation, plan and upgrade | build, validate and apply a block, migrations, `fromVerifiedSnapshot` | around all other rules | what may share a block, the block that crosses a version |
| Ledger: validators, recovery reserves, safety randomness, beacon (`chain.mjs`, `validator-*.mjs`, `operators.mjs`, `beacon-rotation.mjs`) | bonds, queues, exits, candidates, rounds | admission, readiness, rotation, exit, slashing, commit, reveal | feed the validator set and the epoch seed | deadlines, exits racing penalties, duties that lose their bond |
| Ledger: progress and proof mining (`chain.mjs`, `proof-mining-state.mjs`, `proof-difficulty.mjs`, `memory.mjs`) | candidates, tasks, escrows, difficulty | commit, reveal, evaluate, challenge, mature | paid from the issuance budget | double payment, early reveal, order of winners |
| Validator HTTP service (`validator-service.mjs`, `operator-defense.mjs`, `peer-auth.mjs`, `ingress-limiter.mjs`) | slots, nonces, buckets, strikes | schedule, authenticate, limit, synchronize | wraps every handler | nested calls, replays, window edges, restarts |
| Readiness processes (`validator-readiness-*.mjs`) | phases of four processes and their pipes | launch, activate, sign, update height, tear down | framed messages | crash or hang of any process in any phase |
| Wallet bridge and page (`wallet-bridge.mjs`, `wallet-ui/app.js`) | accounts, session generation, dialogs, simulations, header history | pair, sign, attest, select, simulate, export | HTTP, native dialogs | awaits, account and network switches |
| Mining laboratory (`mining-practice-app.mjs`, `mining-app/app.js`) | running flag, evidence, receipts, jobs, training ledger | check, link, receipt, run, send | HTTP with lost answers | late answers, repeats |

What makes each part correct: one chain for everybody, and progress while a quorum
answers (finality, coordinator); a promise kept once given (mempool, events); a
replica that restarts where it left off (journal, history, trust, tools); money,
credits and identities that add up, and a chain that can always take another block
(ledger); duties backed by a bond until they are done, and work paid once
(validators, mining); signatures only for what a person has confirmed, and pages
that show what happened (applications). `PROJECT.json` lists every component,
modelled or not, and the 40 places that are hard to test under `hazards`.

## 2. Modules

| Modules | Contents |
| --- | --- |
| `Finality`, `ReplicatedLog` | the validator network, and the append-only log it implements |
| `LockDiscovery` | the fold over lock reports and the choice between groups |
| `Coordinator` | relay and block production over HTTP, one request at a time |
| `Mempool`, `OperatorEvents` | pools with admission receipts; the event journal |
| `BlockStore`, `BlockPruning` | the journal and the installed snapshot write by write; the pruning commands over it |
| `AccountHistory`, `CheckpointTrust`, `Backup` | history and archive; trusted checkpoints and light client; tools |
| `Transfers`, `TransferCredits`, `NativeAssets`, `NameRegistry`, `AgentMandate` | the account rules |
| `TransferState`, `TransferStateRust`, `AgentMandateRust` | the monetary transitions, and the Rust implementations over the same states |
| `BlockRules` | which blocks the chain accepts, upgrades and migrations |
| `ValidatorLifecycle`, `SafetyRandomness`, `BeaconLedger` | admission to withdrawal and recovery reserves; safety candidates; beacon authorities |
| `ProgressLedger`, `ProofMining` | progress candidates and evaluators; network tasks |
| `ValidatorHttp`, `ValidatorReadiness` | the service's protections; the readiness processes |
| `WalletBridge`, `WalletApp`, `ModelLab` | bridge, page, laboratory |
| `FinalityProofs`, `BlockPruningProofs`, `MempoolProofs`, `OperatorEventsProofs`, `NameRegistryProofs`, `SafetyRandomnessProofs`, `ProofMiningProofs`, `WalletBridgeProofs` | theorems |
| `MCFinality`, `MCStorage`, `MCAccounts`, `MCValidators`, `MCMining`, `MCNode`, `MCApps`, `MCServices` | instances for TLC |

Each module's header says what it is a model of and what it leaves out, and `map` in
`PROJECT.json` gives the lines of every definition. The conventions they share:

* An action is a handler up to its next `await`, file write or message, with every
  guard and every state change. Where the code runs synchronously it is one step;
  an operation that writes several files is a list of writes, one step each, and
  the process may stop before any of them.
* Ledger modules follow `#applyBlock`: what happens before the transactions, the
  transactions one by one, what happens after them. Money is kept in small integers
  and sums are explicit, so that a lost or doubled unit shows.
* Identities, certificates, hashes and payloads are model values or small numbers.
  Hashes are injective and signatures cannot be forged; a faulty party has signed
  whatever its own key can sign. A digest of a file is its contents.
* Messages of `Finality` are the signatures that exist, which covers loss,
  duplication, delay and reordering. Elsewhere a request is sent, answered or lost.
* History variables (`seen`, `acked`, `won`, `forfeited`, `strays` and so on) record what
  the properties speak of and guard nothing.

`Finality` identifies a block, as `blockHash` does, by its contents and its parent and not
by round, proposer or certificate: a block is the sequence of the contents of the
chain that ends in it, so agreement is comparability of sequences. `BlockStore` relies on
that: only the certificate of a block can differ between two copies.

### Suites

An MC module other than `MCFinality` is a suite. It EXTENDS one component, its base,
and instantiates the others, each under a name of its own and with bounds of its own
(`BK == INSTANCE Backup WITH ...`). Modules are instantiated over one set of variables; a
variable `part`, chosen in the initial state, says of which component the behaviour is,
and the step of a part leaves the variables it does not use at a fixed value. A
behaviour of a suite is thus exactly a behaviour of one component, and a run checks
all of them. A property of a suite is a property of the base, or the
conjunction of its parts' properties, each under `part = ...`:

| Property | Conjuncts |
| --- | --- |
| `HistoryKept`, `ToolsKeep`, `TrustKept` (storage) | of `AccountHistory`, `Backup`, `CheckpointTrust` |
| `BalancesKept`, `AgentBounded`, `ChainContinues`, `StatesRestore` (ledger_accounts) | of `Transfers`, `TransferCredits`, `NativeAssets`, `AgentMandate`, `BlockRules` |
| `SnapshotRestores`, `NeverWedged`, `BondsAccounted` (ledger_validators) | of `ValidatorLifecycle`, `BeaconLedger`, `SafetyRandomness` |
| `WorkPaidOnce`, `Agree` (ledger_mining) | of `ProgressLedger`, `ProofMining`, `BeaconLedger`; JavaScript against Rust |
| `AnswersHold`, `CohortSafe` (node) | of `Mempool`, `Coordinator`, `Finality`, `ValidatorReadiness` |
| `PagesAgree`, `IngressSafe`, `RepeatsHarmless` (apps) | of `WalletBridge`, `WalletApp`, `ModelLab`, `ValidatorHttp` |
| `AnswersCome`, `AllSettles` (services) | of `Coordinator`, `ValidatorHttp`, `OperatorEvents`, `ValidatorReadiness` |

## 3. Runs

Distinct states of the last complete run with two workers:

| Run | Question | States |
| --- | --- | --- |
| `finality_byzantine` | Are two blocks of one height ever certified, with a Byzantine first proposer and a round change? Is the network one append-only log? | 67,371 |
| `finality_offline` | Do three validators finalize two heights when the fourth may fall silent? Does a block's quorum have its parent? | 36,217 |
| `storage` | After a stop at any write and with one rotten copy of each file, does everything a process answered for load again, and do the tools keep what they confirmed? | 822,004 |
| `ledger_accounts` | Do transfers, credits, assets, names and mandates keep money, quotas, caps and identities, in blocks that can always continue and restore? | 452,692 |
| `ledger_validators` | Is every bond accounted for and every duty backed by one, without a block that can never be applied? | 1,140,364 |
| `ledger_mining` | Is work paid once and to the earliest, and do the two implementations agree? | 310,202 |
| `node` | Do receipts, success answers, rotation and readiness cohorts keep what they promise? | 589,765 |
| `apps` | Is only what was confirmed signed, do the pages show what is so, are the ingress limits kept? | 1,138,275 |
| `services` | Are announced events accounted for, and do calls, cohorts and accepted transactions come to their end? | 55,300 |
| `finality_splitlock`, `store_install`, `wallet_sign` | expected violations, see below | |

### Bounds

Every bound is a constant of its module (`MaxHeight`, `MaxCrashes`, `MaxRequests`, ...)
and appears in a guard. How they were chosen:

* `finality_byzantine`: four validators are the smallest set with a faulty member, the
  faulty one proposes first so that it can split the votes, and one more round lets
  locks of two rounds meet. `finality_offline`: two heights, each with a first proposer
  that runs; a session hears one validator or three, so that a commit is tried below and
  at the quorum. A session may sign and name the timeout of the last round, as the
  code does; no proposal is checked for a later one.
* `storage`: every combination of lock reports of four validators, and of a fifth that a
  rotation has just replaced, over two values and three rounds; three
  heights, so that there are a snapshot base, a tail and an interrupted block, and two
  certificates; three cycles of the backup automation with two stops and one failing
  write; a scrubber beside a node that commits, with two stops and a rotten copy; two
  client processes with a stop and three locks, three witnesses of which one is
  faulty, a chain with a handoff and a recovery; a node with three faults, a tree of
  history entries that is filled to its last leaf, three archive operators of which one
  is faulty.
* `ledger_accounts`: two or three accounts in every role, limits (of pending commitments,
  asset holders, mandates, credits) that are reached, mandates of which several transfers
  meet the total of the amounts or the total of the fees, and a chain that starts before
  each migration of protocol versions 26, 31 and 34.
* `ledger_validators`: the least heights at which a candidate is faulted, a queue entry
  expires, a cooldown ends and a beacon round times out. Two candidates share three
  committee members, and a rotation that lowers the quorum can make both fault at once,
  so two penalties may fall in one block.
* `ledger_mining`: two candidates with separate and with equal capabilities, two miners
  and two tasks; for the two implementations balances next to the largest amount, and two
  mandates of which one lives a block longer, so that over two heights one is pruned
  and refused and the other is not, and the limits of each are met.
* `node`: four replicas, one of them faulty, and a crash between any two file writes; two
  lost messages and a restart of the coordinator; two overlapping sessions among three
  validators with a round change; at the second height a fourth validator joins three, or
  takes the place of one of them; one fault in a readiness cohort while it signs or
  changes height.
* `apps`: two accounts, networks and concurrent requests of the two bridges that are
  shipped (the command line's with three files, the Mac wallet's with checkpoints
  only); two accounts and two operations on the page; four requests and one lost answer
  in the laboratory; two slots shared by four identities, a window of three ticks, tables
  of the ingress (addresses, quarantine entries) with fewer places than there are
  senders, two synchronizations.
* `services`: four validators and two transactions; two events, one of which is valid at
  the first height only, three pending transactions of one sender whose hashes are not
  in the order of their nonces, and two stops; all circles of three validators that ask
  one another; a cohort with one fault.

Deadlock is not checked: every instance stops at its bounds, a process may rest or
stay stopped. A property is in the list because some plausible error of the code breaks
it: `PROJECT.json` names one such mutant for each.

### Fairness

Safety uses none. `finality_offline` assumes weak fairness of the steps of the three
running replicas: a session is retried by its operator or scheduler until the height is
final, a request between running validators is answered, and a vote given once is
answered again from its file; the fourth may stop for ever. `services` assumes that a
request of the coordinator and a nested call that can be served are served (the event
loop runs what is ready), that `produceBlock` is called while something is pending (its
timer), that a stopped replica is started (where its start is not refused) and its next
block arrives, and that each
process of a cohort runs, except one that hangs, which no property expects to end by
itself.

### What the violated runs show

1. `finality_splitlock`. `docs/network.md` says that split prepare votes cannot deadlock a
   later certified round. `commitVote` does not look at the timeouts a replica has signed
   nor `vote` at its lock, so prepares of round zero for one value may become commits
   after other replicas have certified and committed another value. With two locks
   each, no value has a quorum again, with four honest validators. Agreement holds.
2. `store_install`. When `snapshot-install` moves the base of a store whose tip is
   higher, a stop between the two checkpoint copies leaves two valid checkpoints of one
   height that differ, and every later start refuses them.
3. `wallet_sign`. The page compares every field of the intent with the signed transaction;
   the intent has a request id and the transaction has none, so no signed transfer or
   resource operation is displayed.

### Behaviour a maintainer should know

Properties that hold do so with the exclusions below, each of which is a place where
the code does less than one might expect.

* Restoring a ledger. A validator that was rotated out waits in the queue again; if it
  is then slashed for the rotation block, its entry stays and `fromVerifiedSnapshot`
  refuses the state (`SnapshotRestores` excludes this). A beacon member slashed below
  the least bond while a rotation is pending has the same effect until the boundary. So
  has a validator that is slashed for a double vote and then does not reveal: the end of
  the block charges its empty bond (`chain.mjs:7328`), and a bond below zero, or of a
  disabled validator other than zero, is refused (2327, 2952) until it withdraws
  (`SafetySnapshotRestores`). And so has a committed progress owner or escrow recipient
  that registers by `#applyValidatorAdmission` or as a beacon authority, which ask less
  than `#applyValidatorBond` does (4844): the loader refuses the combination (2935,
  2961), which `ProgressRestores` excludes. `node-store` then replays in full; a
  snapshot installation fails.
* Upgrades. At version 31 a pending rotation or recovery plan, and at version 34 an active
  plan, make every block throw; `ChainContinues` excludes exactly this.
* Block journal. `createCheckpoint` hashes a block file once per process, under the hash
  of its block, which leaves the certificate out. When a commit fails at a later write,
  the process goes on, and the block is committed again with another certificate,
  `persistBlock` replaces the file and the checkpoint gets the digest of the first
  contents; the next start refuses the store (`ChecksumsExact` with `IOErrors`).
* Mempool. `RestartSucceeds` does not hold once a recovery block is in the journal and the
  process stops before the receipts it lifts are removed: the constructor refuses.
* Operator events. A replica with a staged batch reads its pending transactions back by
  hash (`distributed-node.mjs:676`) and checks them with the batch. If two of one sender
  stand in the wrong order, every start is refused (731) until a file is removed by hand;
  without a stop the batch would have settled.
* View change. At the activation height of a rotation the old and the new members may
  report one lock together, more than the new set counts. Each session then fails with
  "view-change lock group is invalid", until fewer of them answer.
* Account history. A stop between the two blocks of `tick()` leaves a beacon round whose
  secrets are gone; after eight more blocks a development network takes none. A write that
  fails after the journal has taken the block leaves memory one block behind: the
  single-process node refuses every further block until it is restarted
  (`block-store.mjs:361`). The accumulator takes its last, 2^32nd, entry, and its root is
  then the empty one, which the next load refuses. The database checks only its last
  record, so a lost older copy stays lost.
* Trust store. A crash between the copies leaves them one apart and nothing repairs them;
  a second one at the same place makes them differ by two, which is refused for ever. A
  crash between the creation and the writing of a lock leaves a file that nobody
  removes.
* Backup and repair. The scheduler reads its journal without repairing it, so after a
  stop inside an append it throws until a manual run. A component absent at the start
  whose move-in is followed by a stop is quarantined when the repair resumes, and lost.
  With both checkpoint copies unreadable the scrub cursor, possibly older, is the anchor
  that a repair may not go below. A remote repair stopped between the two moves of the
  only copy, with no cursor, cannot be resumed while the node refuses its marker; a
  second repair to the same generation fails on the directory it finds and leaves the
  marker.
* Pruning. An interrupted finalization cannot be resumed once the node has persisted
  another block, and its quarantine blocks every later plan.
* Ingress. The nonce cache keeps an entry exactly as long as a request may be in the
  window, so at the last millisecond, or after a restart, a request from a clock ahead
  can run again; `ExecutedOnce` in `IngressSafe` allows exactly that. Addresses and
  quarantine entries are kept in tables of a fixed size; who is evicted begins with a full
  bucket and no strikes, so that `RateKept` bounds a sender relative to the number of
  other addresses. Slots held by requests that wait for one another are given up only by
  the time limit of the queue.
* Wallet bridge. The Mac wallet keeps no handoffs (`wallet-macos-app.mjs:408`). Once it
  has followed the validators over a handoff, its next start, or a switch to another
  network and back, refuses its own checkpoint (`requireCheckpointHandoff`); the failed
  switch is tried again each interval. `HistoryLoads` is claimed for bridges with a
  handoff history.
* Wallet page. `export-offline-package` exports the simulation of the last handler that
  made one; the assets and the checkpoint label may be those of an earlier account or
  height.
* Laboratory. `/open-model/replay` reads its flag before it awaits the body, and two
  `POST /mining/network` at once create two sessions.

## 4. Proofs

| Theorem | Says, for every value of the constants |
| --- | --- |
| `FinalityProofs`: `TypeCorrect`, `Invariance`, `AgreementHolds`, `CertifiedUniqueHolds`, `NoAmbiguousViewHolds`, `FinalizedParentStoredHolds`, `Refinement` | `TypeOK`, the inductive invariant, `Agreement`, `CertifiedUnique`, `NoAmbiguousView`, `FinalizedParentStored`, and `Spec => LogSpec`: the network implements one append-only log |
| `BlockPruningProofs`: `RecoverableHolds`, `QuarantineCompleteHolds`, `ChecksumsExactHolds`, `LoadRestoresCopiesHolds`, `PruneTypeCorrect` | wherever an operation or a pruning command stops, and with one copy of everything damaged, the store loads up to every height the node has answered for; a listed block file is in the journal or in the quarantine; checkpoints have the digests of the files; a load that returns has repaired both copies (an action property); the types |
| `MempoolProofs`: `MempoolInvariant`, `EarlyPromiseHolds`, `RestartSucceedsHolds`, `NoExpiredReceiptHolds` | the block at a promised height has the admission; without recovery blocks a restart is never refused; no receipt outlives its height |
| `OperatorEventsProofs`: `EventsInvariant`, `BatchAccountedHolds`, `OutcomeTruthfulHolds`, `ValidAsArrivedHolds`, `StartsInOrder` | every staged batch is journalled or has its outcome; an outcome says what the chain did; with the pending transactions in the order of their arrival the files pass the checks of a start, so one is refused only when the hashes, by which the files are read back, order the transactions against their nonces |
| `NameRegistryProofs`: `Registry`, `OneNamePerAddressHolds`, `CommitsExpireHolds`, `NoFrontRunningHolds` | names and owners are inverse tables; no commitment blocks its slot for ever; a name goes only to an account that committed to it early enough (an action property) |
| `SafetyRandomnessProofs`: `SafetyInvariant`, `ObligedInvariant`, `OnTimeHolds`, `SafetySnapshotRestoresHolds`, `SafetyConservedHolds`, `ObligedAreBondedHolds` | a bond is cut only for an unrevealed commitment whose reveal block is over (an action property); the candidates, exits and bonds of a finished block restore, unless a slashed validator was charged for a missed reveal; money is neither made nor lost; who owes a reveal has a bond to lose unless it was slashed and disabled |
| `ProofMiningProofs`: `MiningInvariant`, `EarliestWinsHolds` | the earliest commitment wins a task unless its reveal came too late |
| `WalletBridgeProofs`: `BridgeInvariant`, `SignedAsConfirmedHolds`, `HistoryLoadsHolds` | only what the dialog showed is signed, with the account it named; a simulation is taken for signing once, and is current when it is taken; a bridge with a handoff history accepts its own files at the next start |

Assumptions. `ConstantsAssumption` and `FaultAssumption` (`Finality`) and `FaultyMinority`
(`Mempool`) type the constants and say that fewer than a third of a validator set is
faulty, which is what `Quorum` in the code is for. `NameConstants`, `EventConstants`,
`MiningConstants`, `BridgeConstants` and `SafetyConstants` only type numbers and say that
sets of participants are finite; `StoreConstants` and
`PruningConstants` keep the marks for a missing, damaged or absent file apart from
contents and ask for one certificate at least. `RestartSucceedsHolds` has the hypothesis
`~Recoveries`, for the reason given above. The theorems about the store have `~IOErrors`
and `~OperatorInstalls`: any write may be the last before a stop, but none fails under a
process that goes on, and the operator installs no snapshot. Neither can be dropped:
`store_install` is a counterexample without the second, and the journal item of the
section above one without the first. `ObligedAreBondedHolds` and
`SafetySnapshotRestoresHolds` have the hypothesis that the
minimum bond outlasts one penalty for every candidate there will ever be
(`SlashedTimes[Cardinality(Candidates)][MinBond] > 0`): the code charges a validator once
for every candidate it leaves unrevealed, with no limit to their number, so the
claim cannot hold without one. The code's minimum of 10^9 atoms outlasts some 1,700
penalties of one percent; the run's 4 atoms outlast its two candidates. TLC evaluates
every assumption.

Arguments.

* Finality. `Agreement` says nothing of the votes from which the next certificate is made.
  `FinalityInv` adds that an honest validator prepares and times out one block per round
  and commits to one per height, that it has stored the parent of what it commits to,
  that a commit vote rests on a prepare or timeout quorum, and that every block of every
  chain was committed by joint quorums. `QuorumIntersection` is the arithmetic of
  floor(2n/3) + 1; from it two committed siblings are one block (`CommittedSiblings`),
  and the first position at which two chains differ would be such a pair.
* Block store. `Recoverable` speaks of a load from the files as they are, and a load reads
  six of them. `StoreInv` says what any of them may hold: there is one certificate per
  height with which everything intact agrees (`Faithful`, with the certificates
  quantified); above every intact snapshot there is an intact copy of each block up to
  the last that a file, a checkpoint or an answer vouches for (`Contiguous`); of each
  pair one checkpoint and one snapshot are intact, and of two bases the older
  checkpoint ends before the newer begins, so the choice of the highest checkpoint
  never meets a conflict (`Anchored`); nothing on disk is ahead of the chain in memory or
  of the chain the writes under way end in (`Ahead`); snapshots are written first
  and checkpoints last (`Ordered`). That last order is what the proof of every write
  rests on. The commands add which steps can be left (`Programs`), that the load before a
  move leaves no other intact snapshot than the base it loaded, and that what is
  listed lies at or below every intact snapshot (`Staged`), so a moved file was not
  needed. The height a load reaches is the first gap after its base; that it exists and
  is the one the model's definition chooses is a minimal-counterexample argument
  (`LeastNat`, `GreatestHeight`, `LoadedShape`).
* Mempool. Until a replica has reached the promised height its receipt is in its files,
  whatever crashes (the invariant relates memory, files and the write in progress), so
  each of its commit votes from the receipt on is for a block with the admission. The
  quorum of receipts and the quorum of the block share an honest replica.
* Operator events. The invariant follows a batch through journal, chain and outcome
  file. A journalled batch was valid on the block before its own (`JournalValid`), and
  while that is the replica's last block the pending transactions, as they have arrived,
  follow one another's nonces (`PoolValid`); together they pass the checks of a start
  (`ValidAsArrived`). The files in `mempool/` are read back by hash, and `StartsInOrder`
  has the agreement of the two orders as its hypothesis.
* Names. The registry's two tables are inverse and every reveal refers to a commitment
  that was seen; the history of what was seen gives the delay.
* Safety randomness. `OnTime` is a fact about one step under the types; restoring needs
  that a validator with an exit owes no reveal, kept because `RandomnessCommit` asks for
  no exit and the exit request for no obligation, that who has withdrawn has no bond and
  who was slashed has none until a missed reveal is charged to it (`GoneInv`), and that
  every other bond is above zero (`BondedInv`). Conservation (`MoneyInv`) is the
  equation itself, the types, and that a locked candidate has existed (`Locked` within
  `used`, so a bond is never locked over another). What it needs of sums comes from
  their definition: a fold over a finite set is a recursive function on its subsets
  (`Sums`), which a minimal-counterexample argument shows to exist and to be unique
  (`SumsExist`, `SumsAgree`), so that whatever satisfies its two equations is the sum
  (`SumIs`); constants, differences and one change follow. `SlashedTimes` is treated
  likewise (`SlashUnfolds`, `SlashAdds`). For `ObligedAreBonded` the invariant
  (`BondedInv`) keeps an account of the penalties: a bond whose owner was neither
  slashed nor has withdrawn is what k penalties leave of the minimum, for a k no greater
  than the number of candidates that can charge no more (`Closed`). The block end is the
  only step that adds to k, and closes each candidate it charges for.
* Proof mining. A commitment still stands, or was forfeited, or its task is closed for
  good (`SubmittedInv`); a task with a winner is not open again (`WonInv`). A commitment
  earlier than the winner's therefore either was forfeited before or is withheld in
  the very block in which the winner is found (`NewWinner`), although a miner may
  commit to the same task again after a forfeit.
* Wallet bridge. `RequestInv` ties each request to the generation and account it began
  with, and says that one dialog at most can sign; `SimulationInv` ties a pending
  simulation to the state it was made from; `HistoryReaches` says that the handoffs on
  disk reach the last one the saved checkpoint names. Each handler is a lemma.

### Only model-checked

* Liveness (`OneOfflineProgress`, `AnswersCome`, `AllSettles`): fairness and ENABLED.
* The other conservation properties (`BalancesKept`, parts of `BondsAccounted`,
  `WorkPaidOnce` and `AgentBounded`): no proof was tried; the lemmas about sums in
  `SafetyRandomnessProofs` are what they need. `CommitsOpen` and `TaskCloses` need what
  the recursive loop of `Retarget` keeps. The library's induction theorems are out of
  the provers' reach; a minimal counterexample of one fixed predicate, as in `LeastNat`,
  is not, and has to be worked out for each definition.
* The store with failing writes or `snapshot-install`, beyond what the violated runs show.
* `SelectsHighest` and the properties of `AccountHistory`, `Backup`, `CheckpointTrust`,
  `Coordinator`, `ValidatorLifecycle`, `BeaconLedger`, `BlockRules`, `ValidatorHttp`,
  `ValidatorReadiness`, `WalletApp` and `ModelLab`: no proof was tried yet.
* `Agree` compares two translations of code; it is a computation on each input.

## 5. Plan

Modelling, in order: the operators' durable files (`beacon-service`, certificate records
and the data directory lock with its stale takeover), the race of a recovery block with
an ordinary one, validator handoffs, the production head and release governance, the
market service, and the pacemaker with reachability over `Finality`.

Proofs, in order: the other conservation properties with the lemmas about sums,
 `RetiredIsOut` and `ReadinessIsCurrent` of `ValidatorLifecycle`, `NoStaleDelegation` of
`TransferCredits`, and the type invariants of the modules above.

## 6. Not modelled

Hashing, signatures and encodings are assumed to be injective and unforgeable, and the
Rust codec is fixed by test vectors. Rendering, translation, native windows, market data,
release and ceremony tooling, installers and the Python evaluator have little state of
their own and no part in ordering. The search for answers, the evaluation of a model
and reward arithmetic beyond sums are taken as given. `PROJECT.json` has the reason for
every component, and for every one that is modelled in part what is left out.
