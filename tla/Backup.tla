------------------------------- MODULE Backup -------------------------------
(***************************************************************************)
(* The tools an operator runs beside a node (backup-automation.mjs,        *)
(* backup-recovery.mjs, integrity-scrubber.mjs).                           *)
(*                                                                         *)
(* The automation exports a local backup, restores a generation that two   *)
(* independent operators have signed into a drill workspace, appends the   *)
(* result to a signed journal with two head copies and a pending record,   *)
(* and thins out old backups.  The scrubber compares the two copies of a   *)
(* file while the node is writing them, repairs one copy from the other,   *)
(* and can replace every component of the data directory by those of a     *)
(* restored generation.  Either may stop between any two writes.           *)
(*                                                                         *)
(* A generation is a number, its height.  A journal head is the sequence   *)
(* of records that its hash commits to.  Tool says which one runs.  *)
(***************************************************************************)
EXTENDS Integers, FiniteSets, Sequences, SequencesExt

CONSTANTS Tool,        \* "automation", "scrubber" or "installer"
          Sources,     \* the backup servers, one operator each
          Gens,        \* the generations the operators may have signed
          Components,  \* the files and directories a remote repair replaces, in order
          Files,       \* the components among them that are files, not directories
          Losses,      \* the sets of components that a damaged data directory may lack
          MaxBackups, MaxDrills,   \* the retention policy
          MaxRuns,     \* bound: runs of the tool
          MaxCrashes,  \* bound: times the process stops
          MaxFaults    \* bound: failing writes, and copies that rot

VARIABLES pc,        \* the next write of the running tool, or "idle"
          lock,      \* the lock directory: "free", "bare" (no owner file), "held" or "dead"
          runs, crashes, faults,
          journal,   \* the records of the result journal
          torn,      \* the journal ends in a partly written line
          pending,   \* the pending append: the record and the journal before it
          heads,     \* the two head copies, each the journal it commits to
          acked,     \* the longest journal whose append has returned
          backups,   \* the local backups, by number
          staging,   \* an unfinished export is left over
          drills,    \* per generation the state of its drill workspace
          run,       \* the running cycle: its backup, generation and outcome
          copies,    \* the primary and the backup copy of the store checkpoint
          node,      \* the node is "up", "between" the two copies, or "down"
          stored,    \* the highest checkpoint whose commit or installation has returned;
                     \* for a remote repair at first the highest one a file still shows
          missing,   \* the components that the data directory lacked at first
          cursors,   \* the two copies of the scrub cursor
          look,      \* the scrubber's reads of this step
          live, fresh,  \* per component the generation in the data directory and staged
          aside,     \* per repaired generation its quarantine: what was live before
          marker     \* the install marker: the generation and the components done

autoVars == <<journal, torn, pending, heads, acked, backups, staging, drills, run>>
pairVars == <<copies, node, stored, cursors, look>>
installVars == <<missing, live, fresh, aside, marker>>
scrubVars == <<pairVars, installVars>>
vars == <<pc, lock, runs, crashes, faults, autoVars, scrubVars>>

None == [gen |-> 0, done |-> {}]
NoPending == [rec |-> [ok |-> FALSE, backup |-> 0, drill |-> 0], before |-> <<>>, set |-> FALSE]
NoCursor == [ver |-> 0, source |-> 0, set |-> FALSE]
Bad == -1
Parts == Range(Components)

NoCopies == <<NoCursor, NoCursor>>
At(v) == [ver |-> v, source |-> 0, set |-> TRUE]

\* readBlockStoreCheckpoint: the newest valid checkpoint of the two copies, 0
\* without one.
readBlockStoreCheckpoint(pair) == IF pair[1] > pair[2] THEN pair[1] ELSE IF pair[2] > 0 THEN pair[2] ELSE 0

\* readCursor with repair: no copy, one copy, or two that agree; a single copy
\* is written to both files.
cursorReadable == (\E i \in {1, 2} : ~cursors[i].set) \/ cursors[1] = cursors[2]
readCursor == IF cursors[1].set THEN cursors[1] ELSE cursors[2]
repairCursor == cursors' = IF cursorReadable THEN <<readCursor, readCursor>> ELSE cursors

\* The checkpoint copies come first among the components.
checkpointOf(dir) == readBlockStoreCheckpoint(<<dir[Components[1]], dir[Components[2]]>>)

\* The rollback anchor of a remote repair: the newest checkpoint copy that can
\* be read, or else what the scrub cursor has recorded; 0 without either.
anchor == IF checkpointOf(live) > 0 THEN checkpointOf(live)
          ELSE IF cursorReadable THEN readCursor.ver ELSE 0

Init == /\ pc = "idle" /\ lock = "free" /\ runs = 0 /\ crashes = 0 /\ faults = 0
        /\ journal = <<>> /\ torn = FALSE /\ pending = NoPending /\ heads = <<<<>>, <<>>>>
        /\ acked = <<>> /\ backups = {} /\ staging = FALSE
        /\ drills = [g \in Gens |-> "none"]
        /\ run = [backup |-> 0, gen |-> 0, ok |-> FALSE]
        /\ copies = <<1, 1>> /\ node = "up"
        /\ cursors \in {NoCopies} \cup IF Tool # "installer" THEN {}
              ELSE {<<At(1), At(1)>>, <<NoCursor, At(2)>>, <<At(1), At(2)>>}
        /\ look = [ver |-> 0, left |-> 0, source |-> 0]
        /\ missing \in Losses
        /\ live = [c \in Parts |-> IF c \in missing THEN 0 ELSE 2]
        /\ stored = IF Tool = "installer" THEN anchor ELSE 1
        /\ aside = [g \in Gens |-> [c \in Parts |-> 0]] /\ fresh = [c \in Parts |-> 0]
        /\ marker = None

-----------------------------------------------------------------------------
(* The lock of either tool. *)

\* mkdirSync of the lock directory: a free lock is taken, the lock of a dead
\* owner is moved away first, one without an owner file cannot be read.
acquireLock(next) ==
    /\ pc = "idle" /\ runs < MaxRuns
    /\ lock \in {"free", "dead"}
    /\ lock' = "bare" /\ runs' = runs + 1 /\ pc' = next

\* The owner file is written; from here on the lock names its process.
writeOwner(next) == lock' = "held" /\ pc' = next

\* The release of the finally block.
release == pc' = "idle" /\ lock' = "free"

\* The process stops, between two writes or within one.
stopped == /\ pc # "idle" /\ crashes < MaxCrashes
           /\ crashes' = crashes + 1 /\ pc' = "idle"
           /\ lock' = IF lock = "held" THEN "dead" ELSE lock

-----------------------------------------------------------------------------
(* The result journal. *)

\* The pending append is the last record, or the one that would come next.
pendingMatchesTail == pending.set /\ journal = Append(pending.before, pending.rec)
pendingPrecedesTail == pending.set /\ journal = pending.before

\* The journal after the repair has cut off a partly written line.
headMatchesPrefix(h) == IsPrefix(heads[h], journal)

\* readBackupAutomationJournal with repairCrash accepts, after the cut.
journalRepairable ==
    /\ torn => pending.set
    /\ \/ \A h \in {1, 2} : heads[h] = journal
       \/ pendingMatchesTail /\ \A h \in {1, 2} : headMatchesPrefix(h)
    /\ pending.set => pendingMatchesTail \/ pendingPrecedesTail

\* The repair: cut the torn line, complete the heads, drop the pending record.
readBackupAutomationJournal(next) ==
    /\ journalRepairable
    /\ torn' = FALSE
    /\ heads' = <<journal, journal>>
    /\ pending' = NoPending
    /\ pc' = next
    /\ UNCHANGED <<journal, acked>>

record == [ok |-> run.ok, backup |-> run.backup, drill |-> run.gen]

writePending == pending' = [rec |-> record, before |-> journal, set |-> TRUE]
appendLine == journal' = Append(journal, record) /\ torn' = FALSE
writeHead(h) == heads' = [heads EXCEPT ![h] = journal]
clearPending == pending' = NoPending /\ acked' = journal

\* The steps of appendResult.
appendResult ==
    \/ pc = "read" /\ readBackupAutomationJournal("pend") /\ UNCHANGED <<lock>>
    \/ pc = "pend" /\ writePending /\ pc' = "line" /\ UNCHANGED <<lock, journal, torn, heads, acked>>
    \/ pc = "line" /\ appendLine /\ pc' = "head1" /\ UNCHANGED <<lock, pending, heads, acked>>
    \/ pc = "head1" /\ writeHead(1) /\ pc' = "head2" /\ UNCHANGED <<lock, journal, torn, pending, acked>>
    \/ pc = "head2" /\ writeHead(2) /\ pc' = "clear" /\ UNCHANGED <<lock, journal, torn, pending, acked>>
    \/ /\ pc = "clear" /\ clearPending
       /\ IF run.ok THEN pc' = "retain" /\ UNCHANGED lock ELSE release
       /\ UNCHANGED <<journal, torn, heads>>

appendSteps == {"read", "pend", "line", "head1", "head2", "clear"}

-----------------------------------------------------------------------------
(* A cycle of the automation. *)

\* The drill: receipts of independent operators that agree on one generation.
selectBackupReceipts(receipts) ==
    LET signed == {receipts[s] : s \in Sources} \ {0}
    IN {g \in signed : signed = {g} /\ Cardinality({s \in Sources : receipts[s] = g}) >= 2}

\* runBackupAutomationCycle up to the export, started by the operator or by
\* the scheduler.
cycleBegin == \/ acquireLock("owner") /\ UNCHANGED <<backups, staging, run>>
              \/ pc = "owner" /\ writeOwner("export") /\ UNCHANGED <<runs, backups, staging, run>>

\* clearCrashStaging and the export into a new staging directory.
exportBackup == /\ pc = "export" /\ pc' = "publish" /\ staging' = TRUE
                /\ run' = [backup |-> runs, gen |-> 0, ok |-> FALSE]
                /\ UNCHANGED <<backups, drills>>

\* The staging directory becomes a backup.
publishBackup == /\ pc = "publish" /\ pc' = "drill" /\ staging' = FALSE
                 /\ backups' = backups \cup {run.backup}
                 /\ UNCHANGED <<run, drills>>

\* runRemoteBackupRestoreDrill up to its choice: a completed workspace that
\* still verifies is reused, any other one is removed.
chooseDrill == /\ pc = "drill"
               /\ \E receipts \in [Sources -> Gens \cup {0}] :
                    \/ /\ selectBackupReceipts(receipts) = {}
                       /\ pc' = "read" /\ UNCHANGED <<drills, run>>
                    \/ \E g \in selectBackupReceipts(receipts) :
                         /\ run' = [run EXCEPT !.gen = g, !.ok = drills[g] = "complete"]
                         /\ IF drills[g] = "complete" THEN pc' = "read" /\ UNCHANGED drills
                            ELSE pc' = "download" /\ drills' = [drills EXCEPT ![g] = "none"]
               /\ UNCHANGED <<backups, staging>>

\* The first agreed provider whose files all match the inventory; without one
\* the cycle fails, and its record names no drill.
downloadProvider == /\ pc = "download"
                    /\ \/ pc' = "verify" /\ drills' = [drills EXCEPT ![run.gen] = "started"] /\ run' = run
                       \/ pc' = "read" /\ drills' = drills /\ run' = [run EXCEPT !.gen = 0]
                    /\ UNCHANGED <<backups, staging>>

\* The restored workspace is replayed and then marked complete.
verifyRestoredWorkspace ==
    /\ pc = "verify" /\ pc' = "read"
    /\ \/ drills' = [drills EXCEPT ![run.gen] = "complete"] /\ run' = [run EXCEPT !.ok = TRUE]
       \/ drills' = drills /\ run' = [run EXCEPT !.gen = 0]
    /\ UNCHANGED <<backups, staging>>

lastSuccess == LET ok == {i \in 1 .. Len(journal) : journal[i].ok}
               IN IF ok = {} THEN [ok |-> FALSE, backup |-> 0, drill |-> 0]
                  ELSE journal[CHOOSE i \in ok : \A j \in ok : j <= i]

\* applyRetention: the protected entry and the newest ones stay, the rest is
\* removed one by one.
kept(entries, protected, maximum) ==
    LET present == entries \cap {protected}
        newest(k) == {e \in entries \ present : Cardinality({f \in entries \ present : f > e}) < k}
    IN present \cup newest(maximum - Cardinality(present))

present == {g \in Gens : drills[g] # "none"}

applyRetention ==
    /\ pc = "retain"
    /\ LET extra == backups \ kept(backups, lastSuccess.backup, MaxBackups)
           stale == present \ kept(present, lastSuccess.drill, MaxDrills)
       IN IF extra # {} THEN /\ \E b \in extra : backups' = backups \ {b}
                             /\ UNCHANGED <<pc, lock, drills>>
          ELSE IF stale # {} THEN /\ \E g \in stale : drills' = [drills EXCEPT ![g] = "none"]
                                  /\ UNCHANGED <<pc, lock, backups>>
          ELSE release /\ UNCHANGED <<backups, drills>>
    /\ UNCHANGED <<staging, run>>

\* A failing write: before the result is appended the cycle goes on to append
\* a failure; a line may be left torn; a failure that cannot be appended ends
\* the run.
writeFails ==
    /\ pc \in {"export", "publish", "retain"} \cup appendSteps
    /\ faults < MaxFaults /\ faults' = faults + 1
    /\ torn' \in {torn, torn \/ pc = "line"}
    /\ IF pc \in appendSteps /\ ~run.ok THEN release /\ UNCHANGED run
       ELSE pc' = "read" /\ run' = [backup |-> runs, gen |-> 0, ok |-> FALSE] /\ UNCHANGED lock
    /\ staging' = FALSE
    /\ UNCHANGED <<runs, crashes, journal, pending, heads, acked, backups, drills, scrubVars>>

\* The process stops; a line being written may be torn or complete.
automationStops ==
    /\ stopped
    /\ \/ UNCHANGED <<journal, torn>>
       \/ pc = "line" /\ torn' = TRUE /\ journal' = journal
       \/ pc = "line" /\ appendLine
    /\ UNCHANGED <<runs, faults, pending, heads, acked, backups, staging, drills, run, scrubVars>>

automation ==
    \/ cycleBegin /\ UNCHANGED <<crashes, faults, journal, torn, pending, heads, acked, drills, scrubVars>>
    \/ /\ exportBackup \/ publishBackup \/ chooseDrill \/ downloadProvider \/ verifyRestoredWorkspace
       /\ UNCHANGED <<lock, runs, crashes, faults, journal, torn, pending, heads, acked, scrubVars>>
    \/ appendResult /\ UNCHANGED <<runs, crashes, faults, backups, staging, drills, run, scrubVars>>
    \/ applyRetention /\ UNCHANGED <<runs, crashes, faults, journal, torn, pending, heads, acked, scrubVars>>
    \/ writeFails
    \/ automationStops

-----------------------------------------------------------------------------
(* The two copies of the store checkpoint: the node writes them, the       *)
(* scrubber compares them, a local repair writes one over the other.       *)

\* The lock of the data directory keeps the node out while a repair holds it.
nodeMayRun == pc \notin {"forget1", "forget2"}

\* writeCheckpoint: first the backup copy, then the primary one.
writeBackup(ver) == copies' = [copies EXCEPT ![2] = ver] /\ node' = "between" /\ UNCHANGED stored
writePrimary == copies' = [copies EXCEPT ![1] = copies[2]] /\ node' = "up" /\ stored' = copies[2]

\* The node commits a block; its answer follows the second copy.
nodeCommits == \/ node = "up" /\ nodeMayRun /\ stored + 1 \in Gens /\ writeBackup(stored + 1)
               \/ node = "between" /\ writePrimary

\* The node stops, or loads its store and writes both copies from the newest.
nodeStops == node # "down" /\ crashes < MaxCrashes /\ crashes' = crashes + 1 /\ node' = "down"
             /\ UNCHANGED <<copies, stored>>
nodeStarts == /\ node = "down" /\ nodeMayRun /\ readBlockStoreCheckpoint(copies) > 0
              /\ writeBackup(readBlockStoreCheckpoint(copies))
              /\ UNCHANGED crashes

\* One copy rots; the other one is good.
copyRots == \E i \in {1, 2} : /\ faults < MaxFaults /\ copies[3 - i] = stored /\ node # "between"
                              /\ faults' = faults + 1 /\ copies' = [copies EXCEPT ![i] = Bad]
                              /\ UNCHANGED <<node, stored>>

\* checkPair on what the two reads have found: the copy that is valid for the
\* checkpoint of this step is the source of a repair of the other one.
checkPair(ver, left, right) == IF left = ver /\ right # ver THEN 1
                               ELSE IF right = ver /\ left # ver THEN 2 ELSE 0

\* A step of the sweep, up to the cursor it stores: a new sweep compares the
\* copies; one that is under way at this checkpoint goes on behind them and
\* keeps its plan.
newSweep == look' = [look EXCEPT !.ver = readBlockStoreCheckpoint(copies)] /\ pc' = "left"
goesOn == /\ readCursor.set /\ readCursor.ver = readBlockStoreCheckpoint(copies)
          /\ look' = [look EXCEPT !.ver = readCursor.ver, !.source = readCursor.source]
          /\ pc' = "cursor1"
runIntegrityScrubStep ==
    \/ acquireLock("scrub-owner") /\ UNCHANGED <<look, cursors>>
    \/ pc = "scrub-owner" /\ writeOwner("scrub") /\ UNCHANGED <<runs, look, cursors>>
    \/ /\ pc = "scrub" /\ UNCHANGED runs
       /\ IF cursorReadable /\ readBlockStoreCheckpoint(copies) > 0
          THEN (newSweep \/ goesOn) /\ repairCursor /\ UNCHANGED lock
          ELSE release /\ UNCHANGED <<look, cursors>>
    \/ pc = "left" /\ look' = [look EXCEPT !.left = copies[1]] /\ pc' = "right" /\ UNCHANGED <<lock, runs, cursors>>
    \/ /\ pc = "right" /\ look' = [look EXCEPT !.source = checkPair(look.ver, look.left, copies[2])]
       /\ pc' = "cursor1" /\ UNCHANGED <<lock, runs, cursors>>

\* writeCursor: one copy after the other.
writeCursor(i) == cursors' = [cursors EXCEPT ![i] = [ver |-> look.ver, source |-> look.source, set |-> TRUE]]
storesCursor == \/ pc = "cursor1" /\ writeCursor(1) /\ pc' = "cursor2" /\ UNCHANGED lock
                \/ pc = "cursor2" /\ writeCursor(2) /\ release

\* The cursor files are removed at the end of either repair.
forgetCursor(i) == cursors' = [cursors EXCEPT ![i] = NoCursor]
forgetCursors == \/ pc = "forget1" /\ forgetCursor(1) /\ pc' = "forget2" /\ UNCHANGED lock
                 \/ pc = "forget2" /\ forgetCursor(2) /\ release

\* repairLocalIntegrityCopies, with the data directory locked: the planned
\* source must still have the hash of the plan; the plan is dropped at the end.
repairSource(plan) == plan.source # 0 /\ copies[plan.source] = plan.ver
repairLocalIntegrityCopies ==
    \/ acquireLock("fix-owner") /\ UNCHANGED <<copies, cursors>>
    \/ pc = "fix-owner" /\ writeOwner("fix") /\ UNCHANGED <<runs, copies, cursors>>
    \/ /\ pc = "fix" /\ repairCursor /\ UNCHANGED runs
       /\ IF node = "down" /\ cursorReadable /\ repairSource(readCursor)
          THEN /\ copies' = <<readCursor.ver, readCursor.ver>>
               /\ pc' = "forget1" /\ UNCHANGED lock
          ELSE release /\ UNCHANGED copies
    \/ forgetCursors /\ UNCHANGED <<runs, copies>>

scrubber ==
    \/ nodeCommits /\ UNCHANGED <<pc, lock, runs, crashes, faults, cursors, look, installVars, autoVars>>
    \/ (nodeStops \/ nodeStarts) /\ UNCHANGED <<pc, lock, runs, faults, cursors, look, installVars, autoVars>>
    \/ copyRots /\ UNCHANGED <<pc, lock, runs, crashes, cursors, look, installVars, autoVars>>
    \/ runIntegrityScrubStep /\ UNCHANGED <<crashes, faults, copies, node, stored, installVars, autoVars>>
    \/ storesCursor /\ UNCHANGED <<runs, crashes, faults, copies, node, stored, look, installVars, autoVars>>
    \/ repairLocalIntegrityCopies /\ UNCHANGED <<crashes, faults, node, stored, look, installVars, autoVars>>
    \/ stopped /\ UNCHANGED <<runs, faults, scrubVars, autoVars>>

-----------------------------------------------------------------------------
(* A remote repair: every component of the data directory is replaced.     *)

\* A generation below the anchor is refused, and every one without an anchor
\* or with cursor copies that conflict.
rollbackRefused(g) == ~cursorReadable \/ anchor = 0 \/ g < anchor

\* repairIntegrityFromRemote up to the lock: the drill, the anchor and the
\* staged copy; with a marker the staged copy of the first attempt is used.
stageGeneration ==
    /\ pc = "stage" /\ repairCursor
    /\ \E g \in Gens :
         IF rollbackRefused(g) \/ marker.gen \notin {0, g} THEN release /\ UNCHANGED <<fresh, run>>
         ELSE /\ run' = [run EXCEPT !.gen = g, !.ok = FALSE]
              /\ IF marker.gen = 0 THEN fresh' = [c \in Parts |-> g] /\ pc' = "mark"
                 ELSE fresh' = fresh /\ pc' = "aside"
              /\ UNCHANGED lock
    /\ UNCHANGED <<stored, live, aside, marker>>

writeMarker == /\ pc = "mark" /\ pc' = "aside" /\ marker' = [gen |-> run.gen, done |-> {}]
               /\ UNCHANGED <<lock, run, stored, live, aside, fresh, cursors>>

todo == SelectSeq(Components, LAMBDA c : c \notin marker.done)

\* The old component goes to the quarantine unless one is there already.
setAsideAgain == /\ pc = "aside" /\ UNCHANGED <<lock, run, stored, fresh, marker, cursors>>
            /\ IF todo = <<>> THEN pc' = "activate" /\ UNCHANGED <<live, aside>>
               ELSE /\ pc' = "in"
                    /\ IF live[Head(todo)] # 0
                       THEN /\ aside' = [aside EXCEPT ![run.gen][Head(todo)] = live[Head(todo)]]
                            /\ live' = [live EXCEPT ![Head(todo)] = 0]
                       ELSE UNCHANGED <<live, aside>>
setAside == /\ pc = "aside" /\ UNCHANGED <<lock, run, stored, fresh, marker, cursors>>
            /\ IF todo = <<>> THEN pc' = "activate" /\ UNCHANGED <<live, aside>>
               ELSE /\ pc' = "in"
                    /\ IF live[Head(todo)] # 0 /\ aside[run.gen][Head(todo)] = 0
                       THEN /\ aside' = [aside EXCEPT ![run.gen][Head(todo)] = live[Head(todo)]]
                            /\ live' = [live EXCEPT ![Head(todo)] = 0]
                       ELSE UNCHANGED <<live, aside>>

\* The staged component goes in: over a file, but a directory is in the way.
moveIn == /\ pc = "in" /\ UNCHANGED <<run, stored, aside, marker, cursors>>
          /\ IF fresh[Head(todo)] = 0 THEN pc' = "done" /\ UNCHANGED <<lock, live, fresh>>
             ELSE IF live[Head(todo)] # 0 /\ Head(todo) \notin Files THEN release /\ UNCHANGED <<live, fresh>>
             ELSE /\ live' = [live EXCEPT ![Head(todo)] = fresh[Head(todo)]]
                  /\ fresh' = [fresh EXCEPT ![Head(todo)] = 0]
                  /\ pc' = "done" /\ UNCHANGED lock

markDone == /\ pc = "done" /\ pc' = "aside"
            /\ marker' = [marker EXCEPT !.done = @ \cup {Head(todo)}]
            /\ UNCHANGED <<lock, run, stored, live, aside, fresh, cursors>>

\* The activated checkpoint is the drill's; marker and staging are removed, the
\* quarantines thinned out to this one, the cursor files removed last.
activate == /\ pc = "activate" /\ UNCHANGED <<live, cursors>>
            /\ IF checkpointOf(live) = run.gen
               THEN /\ marker' = None /\ fresh' = [c \in Parts |-> 0]
                    /\ aside' = [g \in Gens |-> [c \in Parts |-> IF g = run.gen THEN aside[g][c] ELSE 0]]
                    /\ stored' = run.gen /\ run' = [run EXCEPT !.ok = TRUE]
                    /\ pc' = "forget1" /\ UNCHANGED lock
               ELSE release /\ UNCHANGED <<marker, fresh, aside, stored, run>>

installer ==
    \/ /\ acquireLock("stage-owner")
       /\ UNCHANGED <<crashes, faults, autoVars, scrubVars>>
    \/ /\ pc = "stage-owner" /\ writeOwner("stage")
       /\ UNCHANGED <<runs, crashes, faults, autoVars, scrubVars>>
    \/ /\ \/ stageGeneration \/ writeMarker \/ setAside \/ moveIn \/ markDone \/ activate
          \/ forgetCursors /\ UNCHANGED <<run, stored, live, fresh, aside, marker>>
       /\ UNCHANGED <<runs, crashes, faults, journal, torn, pending, heads, acked, backups, staging,
                      drills, copies, node, look, missing>>
    \/ stopped /\ UNCHANGED <<runs, faults, scrubVars, autoVars>>

Next == \/ Tool = "automation" /\ automation
        \/ Tool = "scrubber" /\ scrubber
        \/ Tool = "installer" /\ installer

Spec == Init /\ [][Next]_vars

-----------------------------------------------------------------------------
(* Properties. *)

TypeOK ==
    /\ lock \in {"free", "bare", "held", "dead"}
    /\ torn \in BOOLEAN /\ staging \in BOOLEAN /\ acked \in Seq([ok : BOOLEAN, backup : Nat, drill : Nat])
    /\ backups \subseteq 1 .. MaxRuns
    /\ drills \in [Gens -> {"none", "started", "complete"}]

\* Wherever the process stopped or a write failed, the next run can repair
\* the journal, and no record whose append has returned is lost.
JournalSurvives == journalRepairable /\ IsPrefix(acked, journal)

\* The backup and the completed drill that the last successful record names
\* are there: retention and later failing runs leave them.
ConfirmedKept ==
    lastSuccess.ok => /\ lastSuccess.backup \in backups
                      /\ drills[lastSuccess.drill] = "complete"

\* However the scrubber's reads fall between the writes of the node, a local
\* repair never loses a checkpoint whose commit has returned.
CheckpointKept == Tool = "scrubber" => \E i \in {1, 2} : copies[i] >= stored

\* A completed remote repair has replaced every component that was there at
\* first, also when it was stopped and resumed between any two of its moves.
InstallComplete ==
    Tool = "installer" /\ run.ok /\ marker.gen = 0 => \A c \in Parts \ missing : live[c] = run.gen

\* A remote repair never takes the node below the anchor: the newest checkpoint
\* that a copy of its own or else the scrub cursor has shown when the repairs
\* began, and afterwards the one last installed.
NoRollback == stored' >= stored

=============================================================================
