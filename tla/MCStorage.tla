----------------------------- MODULE MCStorage ------------------------------
(* What a replica keeps on disk and reads back: the two copies of the block*)
(* journal with checkpoints and snapshots, offline pruning, the locks that *)
(* a producer session collects, and the backup and repair tools. A         *)
(* behaviour is a behaviour of one of them.                                *)
EXTENDS BlockPruning, Integers, FiniteSets, TLC
CONSTANTS c1, c2, A, B, NoLock

VARIABLES part,   \* the component that this behaviour is about
    reports, next, groups, outcome, files1, checkpoints1, snapshots1, chain1, digests1, pending1,
    acked1, pc, lock, runs, crashes, faults, journal, torn, heads, backups, staging, drills, run,
    copies, node, stored, missing, cursors, look, live, fresh, aside, marker, mode, links, seen,
    staged, observed, inodes, recovery, held, current, client, tree, inst, arch

suiteVars == <<part,
    files, checkpoints, snapshots, chain, digests, pending, acked, command, quarantine, reports,
    next, groups, outcome, files1, checkpoints1, snapshots1, chain1, digests1, pending1, acked1, pc,
    lock, runs, crashes, faults, journal, torn, heads, backups, staging, drills, run, copies, node,
    stored, missing, cursors, look, live, fresh, aside, marker, mode, links, seen, staged, observed,
    inodes, recovery, held, current, client, tree, inst, arch>>

\* The certificates of a block, and the hashes of two rival blocks, are interchangeable.
StorageSymmetry == Permutations({c1, c2}) \cup Permutations({A, B})

-----------------------------------------------------------------------------
\* Four validators and a fifth reporter that the rotation has just replaced,
\* two values, three rounds: every combination of answers.
LD == INSTANCE LockDiscovery WITH
    N <- 5, ValidatorCount <- 4, Hashes <- {A, B}, MaxRound <- 2
LocksInit ==
    /\ part = "locks" /\ LD!Init /\ PruneInit /\ files1 = 0 /\ checkpoints1 = 0 /\ snapshots1 = 0
    /\ chain1 = 0 /\ digests1 = 0 /\ pending1 = 0 /\ acked1 = 0 /\ pc = 0 /\ lock = 0 /\ runs = 0
    /\ crashes = 0 /\ faults = 0 /\ journal = 0 /\ torn = 0 /\ heads = 0 /\ backups = 0
    /\ staging = 0 /\ drills = 0 /\ run = 0 /\ copies = 0 /\ node = 0 /\ stored = 0 /\ missing = 0
    /\ cursors = 0 /\ look = 0 /\ live = 0 /\ fresh = 0 /\ aside = 0 /\ marker = 0 /\ mode = 0
    /\ links = 0 /\ seen = 0 /\ staged = 0 /\ observed = 0 /\ inodes = 0 /\ recovery = 0 /\ held = 0
    /\ current = 0 /\ client = 0 /\ tree = 0 /\ inst = 0 /\ arch = 0
LocksStep ==
    /\ part = "locks" /\ LD!Next
    /\ UNCHANGED <<part,
        files, checkpoints, snapshots, chain, digests, pending, acked, command, quarantine, files1,
        checkpoints1, snapshots1, chain1, digests1, pending1, acked1, pc, lock, runs, crashes,
        faults, journal, torn, heads, backups, staging, drills, run, copies, node, stored, missing,
        cursors, look, live, fresh, aside, marker, mode, links, seen, staged, observed, inodes,
        recovery, held, current, client, tree, inst, arch>>
-----------------------------------------------------------------------------
\* Failing writes and operator installs as well.
SR == INSTANCE BlockStore WITH
    Certs <- {c1, c2}, MaxHeight <- 2, IOErrors <- TRUE, OperatorInstalls <- TRUE, files <- files1,
    checkpoints <- checkpoints1, snapshots <- snapshots1, chain <- chain1, digests <- digests1,
    pending <- pending1, acked <- acked1
RepairInit ==
    /\ part = "repair" /\ SR!Init /\ PruneInit /\ reports = 0 /\ next = 0 /\ groups = 0
    /\ outcome = 0 /\ pc = 0 /\ lock = 0 /\ runs = 0 /\ crashes = 0 /\ faults = 0 /\ journal = 0
    /\ torn = 0 /\ heads = 0 /\ backups = 0 /\ staging = 0 /\ drills = 0 /\ run = 0 /\ copies = 0
    /\ node = 0 /\ stored = 0 /\ missing = 0 /\ cursors = 0 /\ look = 0 /\ live = 0 /\ fresh = 0
    /\ aside = 0 /\ marker = 0 /\ mode = 0 /\ links = 0 /\ seen = 0 /\ staged = 0 /\ observed = 0
    /\ inodes = 0 /\ recovery = 0 /\ held = 0 /\ current = 0 /\ client = 0 /\ tree = 0 /\ inst = 0
    /\ arch = 0
RepairStep ==
    /\ part = "repair" /\ SR!Next
    /\ UNCHANGED <<part,
        files, checkpoints, snapshots, chain, digests, pending, acked, command, quarantine, reports,
        next, groups, outcome, pc, lock, runs, crashes, faults, journal, torn, heads, backups,
        staging, drills, run, copies, node, stored, missing, cursors, look, live, fresh, aside,
        marker, mode, links, seen, staged, observed, inodes, recovery, held, current, client, tree,
        inst, arch>>
-----------------------------------------------------------------------------
\* The node and, between its runs, the pruning commands; all may crash, copies
\* rot, and snapshots come from peers, ahead of the chain.
PruningInit ==
    /\ part = "prune" /\ PruneInit /\ reports = 0 /\ next = 0 /\ groups = 0 /\ outcome = 0
    /\ files1 = 0 /\ checkpoints1 = 0 /\ snapshots1 = 0 /\ chain1 = 0 /\ digests1 = 0
    /\ pending1 = 0 /\ acked1 = 0 /\ pc = 0 /\ lock = 0 /\ runs = 0 /\ crashes = 0 /\ faults = 0
    /\ journal = 0 /\ torn = 0 /\ heads = 0 /\ backups = 0 /\ staging = 0 /\ drills = 0 /\ run = 0
    /\ copies = 0 /\ node = 0 /\ stored = 0 /\ missing = 0 /\ cursors = 0 /\ look = 0 /\ live = 0
    /\ fresh = 0 /\ aside = 0 /\ marker = 0 /\ mode = 0 /\ links = 0 /\ seen = 0 /\ staged = 0
    /\ observed = 0 /\ inodes = 0 /\ recovery = 0 /\ held = 0 /\ current = 0 /\ client = 0
    /\ tree = 0 /\ inst = 0 /\ arch = 0
PruningStep ==
    /\ part = "prune" /\ PruneNext
    /\ UNCHANGED <<part,
        reports, next, groups, outcome, files1, checkpoints1, snapshots1, chain1, digests1,
        pending1, acked1, pc, lock, runs, crashes, faults, journal, torn, heads, backups, staging,
        drills, run, copies, node, stored, missing, cursors, look, live, fresh, aside, marker, mode,
        links, seen, staged, observed, inodes, recovery, held, current, client, tree, inst, arch>>
-----------------------------------------------------------------------------
\* Three cycles of the backup automation; two stops and one failing write.
BA == INSTANCE Backup WITH
    Sources <- {"s1", "s2", "s3"}, Components <- <<"checkpoint", "backup", "blocks", "index">>,
    Files <- {"checkpoint", "backup"}, Losses <- {{"index"}, {"index", "checkpoint"}, {"index",
    "checkpoint", "backup"}}, MaxBackups <- 2, MaxDrills <- 1, MaxCrashes <- 2, MaxFaults <- 1, Tool
    <- "automation", Gens <- 1 .. 2, MaxRuns <- 3, pending <- pending1, acked <- acked1
BackupInit ==
    /\ part = "backup" /\ BA!Init /\ PruneInit /\ reports = 0 /\ next = 0 /\ groups = 0
    /\ outcome = 0 /\ files1 = 0 /\ checkpoints1 = 0 /\ snapshots1 = 0 /\ chain1 = 0 /\ digests1 = 0
    /\ mode = 0 /\ links = 0 /\ seen = 0 /\ staged = 0 /\ observed = 0 /\ inodes = 0 /\ recovery = 0
    /\ held = 0 /\ current = 0 /\ client = 0 /\ tree = 0 /\ inst = 0 /\ arch = 0
BackupStep ==
    /\ part = "backup" /\ BA!Next
    /\ UNCHANGED <<part,
        files, checkpoints, snapshots, chain, digests, pending, acked, command, quarantine, reports,
        next, groups, outcome, files1, checkpoints1, snapshots1, chain1, digests1, mode, links,
        seen, staged, observed, inodes, recovery, held, current, client, tree, inst, arch>>
-----------------------------------------------------------------------------
\* The scrubber and local repairs beside a committing node; two stops, one
\* rotten copy.
BC == INSTANCE Backup WITH
    Sources <- {"s1", "s2", "s3"}, Components <- <<"checkpoint", "backup", "blocks", "index">>,
    Files <- {"checkpoint", "backup"}, Losses <- {{"index"}, {"index", "checkpoint"}, {"index",
    "checkpoint", "backup"}}, MaxBackups <- 2, MaxDrills <- 1, MaxCrashes <- 2, MaxFaults <- 1, Tool
    <- "scrubber", Gens <- 1 .. 3, MaxRuns <- 3, pending <- pending1, acked <- acked1
ScrubInit ==
    /\ part = "scrub" /\ BC!Init /\ PruneInit /\ reports = 0 /\ next = 0 /\ groups = 0
    /\ outcome = 0 /\ files1 = 0 /\ checkpoints1 = 0 /\ snapshots1 = 0 /\ chain1 = 0 /\ digests1 = 0
    /\ mode = 0 /\ links = 0 /\ seen = 0 /\ staged = 0 /\ observed = 0 /\ inodes = 0 /\ recovery = 0
    /\ held = 0 /\ current = 0 /\ client = 0 /\ tree = 0 /\ inst = 0 /\ arch = 0
ScrubStep ==
    /\ part = "scrub" /\ BC!Next
    /\ UNCHANGED <<part,
        files, checkpoints, snapshots, chain, digests, pending, acked, command, quarantine, reports,
        next, groups, outcome, files1, checkpoints1, snapshots1, chain1, digests1, mode, links,
        seen, staged, observed, inodes, recovery, held, current, client, tree, inst, arch>>
-----------------------------------------------------------------------------
\* Remote repairs of a directory that lacks the history index, and perhaps one
\* or both checkpoint copies.
BI == INSTANCE Backup WITH
    Sources <- {"s1", "s2", "s3"}, Components <- <<"checkpoint", "backup", "blocks", "index">>,
    Files <- {"checkpoint", "backup"}, Losses <- {{"index"}, {"index", "checkpoint"}, {"index",
    "checkpoint", "backup"}}, MaxBackups <- 2, MaxDrills <- 1, MaxCrashes <- 2, MaxFaults <- 1, Tool
    <- "installer", Gens <- 1 .. 3, MaxRuns <- 4, pending <- pending1, acked <- acked1
ReplaceInit ==
    /\ part = "replace" /\ BI!Init /\ PruneInit /\ reports = 0 /\ next = 0 /\ groups = 0
    /\ outcome = 0 /\ files1 = 0 /\ checkpoints1 = 0 /\ snapshots1 = 0 /\ chain1 = 0 /\ digests1 = 0
    /\ mode = 0 /\ links = 0 /\ seen = 0 /\ staged = 0 /\ observed = 0 /\ inodes = 0 /\ recovery = 0
    /\ held = 0 /\ current = 0 /\ client = 0 /\ tree = 0 /\ inst = 0 /\ arch = 0
ReplaceStep ==
    /\ part = "replace" /\ BI!Next
    /\ UNCHANGED <<part,
        files, checkpoints, snapshots, chain, digests, pending, acked, command, quarantine, reports,
        next, groups, outcome, files1, checkpoints1, snapshots1, chain1, digests1, mode, links,
        seen, staged, observed, inodes, recovery, held, current, client, tree, inst, arch>>
-----------------------------------------------------------------------------
\* Two client processes, three witnesses of which one is faulty; a chain with
\* one handoff and one recovery, four validators each and one of each set
\* faulty.
CT == INSTANCE CheckpointTrust WITH
    Procs <- {"p", "q"}, Witnesses <- 1..3, FaultyWitnesses <- {1}, Threshold <- 3, OldSet <- 1..4,
    NewSet <- {1, 3, 4, 5}, Reserves <- 6..9, FaultyValidators <- {1, 6}, HandoffAt <- 2, RecoverAt
    <- 3, SequenceDelay <- 1, HeightDelay <- 1, MaxSequence <- 2, MaxCheckpoint <- 2, MaxHeight <-
    3, MaxRevision <- 2, MaxCrashes <- 1, MaxLocks <- 3
TrustInit ==
    /\ part = "trust" /\ CT!Init /\ PruneInit /\ reports = 0 /\ next = 0 /\ groups = 0
    /\ outcome = 0 /\ files1 = 0 /\ checkpoints1 = 0 /\ snapshots1 = 0 /\ chain1 = 0 /\ digests1 = 0
    /\ pending1 = 0 /\ acked1 = 0 /\ runs = 0 /\ faults = 0 /\ journal = 0 /\ torn = 0 /\ heads = 0
    /\ backups = 0 /\ staging = 0 /\ drills = 0 /\ node = 0 /\ stored = 0 /\ missing = 0
    /\ cursors = 0 /\ look = 0 /\ live = 0 /\ fresh = 0 /\ aside = 0 /\ marker = 0 /\ tree = 0
    /\ inst = 0 /\ arch = 0
TrustStep ==
    /\ part = "trust" /\ CT!Next
    /\ UNCHANGED <<part,
        files, checkpoints, snapshots, chain, digests, pending, acked, command, quarantine, reports,
        next, groups, outcome, files1, checkpoints1, snapshots1, chain1, digests1, pending1, acked1,
        runs, faults, journal, torn, heads, backups, staging, drills, node, stored, missing,
        cursors, look, live, fresh, aside, marker, tree, inst, arch>>
-----------------------------------------------------------------------------
\* The single-process node with three faults; one account's tree, filled to its
\* last leaf; an installed history with three stops; three archive sources of
\* three operators, one faulty.
AH == INSTANCE AccountHistory WITH
    Accounts <- {"a"}, MaxHeight <- 3, MaxBuilt <- 4, MaxFaults <- 3, RevealTimeout <- 1, Depth <-
    3, Sources <- 1..3, Operators <- 1..3, FaultyOperators <- {1}, MinimumSources <- 2
HistoryInit ==
    /\ part = "history" /\ AH!Init /\ PruneInit /\ reports = 0 /\ next = 0 /\ groups = 0
    /\ outcome = 0 /\ files1 = 0 /\ checkpoints1 = 0 /\ snapshots1 = 0 /\ chain1 = 0 /\ digests1 = 0
    /\ pending1 = 0 /\ acked1 = 0 /\ pc = 0 /\ lock = 0 /\ runs = 0 /\ crashes = 0 /\ faults = 0
    /\ journal = 0 /\ torn = 0 /\ heads = 0 /\ backups = 0 /\ staging = 0 /\ drills = 0 /\ run = 0
    /\ copies = 0 /\ stored = 0 /\ missing = 0 /\ cursors = 0 /\ look = 0 /\ live = 0 /\ fresh = 0
    /\ aside = 0 /\ marker = 0 /\ links = 0 /\ seen = 0 /\ staged = 0 /\ observed = 0 /\ inodes = 0
    /\ recovery = 0 /\ held = 0 /\ current = 0 /\ client = 0
HistoryStep ==
    /\ part = "history" /\ AH!Next
    /\ UNCHANGED <<part,
        files, checkpoints, snapshots, chain, digests, pending, acked, command, quarantine, reports,
        next, groups, outcome, files1, checkpoints1, snapshots1, chain1, digests1, pending1, acked1,
        pc, lock, runs, crashes, faults, journal, torn, heads, backups, staging, drills, run,
        copies, stored, missing, cursors, look, live, fresh, aside, marker, links, seen, staged,
        observed, inodes, recovery, held, current, client>>
-----------------------------------------------------------------------------
SuiteInit ==
    \/ LocksInit
    \/ RepairInit
    \/ PruningInit
    \/ BackupInit
    \/ ScrubInit
    \/ ReplaceInit
    \/ TrustInit
    \/ HistoryInit
SuiteNext ==
    \/ LocksStep
    \/ RepairStep
    \/ PruningStep
    \/ BackupStep
    \/ ScrubStep
    \/ ReplaceStep
    \/ TrustStep
    \/ HistoryStep
SuiteSpec == SuiteInit /\ [][SuiteNext]_suiteVars

\* LockDiscovery: the selection returns what the answers say, whatever their
\* order.
SelectsHighest == part = "locks" => LD!SelectsHighest

\* Backup: wherever the automation, the scrubber or a remote repair stopped
\* or a write failed, no confirmed record, backup or committed checkpoint is
\* lost, and a repair that completes has replaced every component that was
\* there and taken the node below no checkpoint it had. BlockStore: a
\* completed load leaves two good copies of every block.
ToolsKeep ==
    [][
        /\ (part = "backup" => BA!JournalSurvives /\ BA!ConfirmedKept)'
        /\ (part = "scrub" => BC!CheckpointKept)'
        /\ (part = "replace" => BI!InstallComplete)'
        /\ part = "replace" => BI!NoRollback
        /\ part = "repair" => SR!LoadRestoresCopies
    ]_suiteVars

\* CheckpointTrust: what is trusted is on the chain and never goes back,
\* across handoffs, policy changes, an emergency recovery and stops between
\* the two copies; two processes never write at once, even when both find the
\* lock of a dead one.
TrustKept ==
    [][
        /\ (part = "trust" => CT!OneWriter /\ CT!CopiesReconcile /\ CT!TrustsTheChain)'
        /\ part = "trust" => CT!NeverRollsBack /\ CT!RecoveryNeverForgets
    ]_suiteVars

\* AccountHistory: after failed writes, stops and lost files the account
\* index opens and answers the history of the chain in memory, every entry
\* has a proof under one root, an answered block stays and is not repeated,
\* the heartbeat goes on, an installation resumes, and an archive restore
\* yields the true history.
HistoryKept ==
    /\ part = "history" =>
           AH!HistoryAgrees /\ AH!FaucetOnce /\ AH!IndexOpens /\ AH!HeartbeatGoesOn /\
           AH!HistoryRoots /\ AH!InstallResumes /\ AH!ArchiveAgreed

-----------------------------------------------------------------------------
\* The operator installs a snapshot at or below the tip of the stopped node.
SI == INSTANCE BlockStore WITH
    Certs <- {c1, c2}, MaxHeight <- 3, IOErrors <- FALSE, OperatorInstalls <- TRUE
InstallInit ==
    /\ part = "install" /\ SI!Init
    /\ command = 0 /\ quarantine = 0 /\ reports = 0 /\ next = 0 /\ groups = 0 /\ outcome = 0
    /\ files1 = 0 /\ checkpoints1 = 0 /\ snapshots1 = 0 /\ chain1 = 0 /\ digests1 = 0
    /\ pending1 = 0 /\ acked1 = 0 /\ pc = 0 /\ lock = 0 /\ runs = 0 /\ crashes = 0 /\ faults = 0
    /\ journal = 0 /\ torn = 0 /\ heads = 0 /\ backups = 0 /\ staging = 0 /\ drills = 0 /\ run = 0
    /\ copies = 0 /\ node = 0 /\ stored = 0 /\ missing = 0 /\ cursors = 0 /\ look = 0 /\ live = 0
    /\ fresh = 0 /\ aside = 0 /\ marker = 0 /\ mode = 0 /\ links = 0 /\ seen = 0 /\ staged = 0
    /\ observed = 0 /\ inodes = 0 /\ recovery = 0 /\ held = 0 /\ current = 0 /\ client = 0
    /\ tree = 0 /\ inst = 0 /\ arch = 0
InstallStep ==
    /\ SI!Next
    /\ UNCHANGED <<part,
        command, quarantine, reports, next, groups, outcome, files1, checkpoints1, snapshots1,
        chain1, digests1, pending1, acked1, pc, lock, runs, crashes, faults, journal, torn, heads,
        backups, staging, drills, run, copies, node, stored, missing, cursors, look, live, fresh,
        aside, marker, mode, links, seen, staged, observed, inodes, recovery, held, current, client,
        tree, inst, arch>>
InstallSpec == InstallInit /\ [][InstallStep]_suiteVars

\* BlockStore: a restart finds every acknowledged block also when the operator
\* installs snapshots with snapshot-install.
RecoverableAfterInstall == SI!Recoverable

=============================================================================
