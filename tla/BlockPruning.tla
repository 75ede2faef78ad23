---------------------------- MODULE BlockPruning ----------------------------
(***************************************************************************)
(* Offline pruning of the block journal: the node-cli commands             *)
(* prune-stage, prune-verify and prune-finalize (blockchain/block-store    *)
(* .mjs) on the stopped node of module BlockStore.  Block files up to the  *)
(* snapshot base are moved to a quarantine directory, the rest is loaded   *)
(* as after a restart, and only then the quarantine is deleted.            *)
(*                                                                         *)
(* A command is a list of steps, of which "load" is an operation of        *)
(* BlockStore.  It may stop at any write, and the node may run between the *)
(* commands.  The commands hold the directory lock, so the node does not   *)
(* run during one.                                                         *)
(***************************************************************************)
EXTENDS BlockStore

CONSTANT Absent   \* no quarantine directory

VARIABLES
    command,      \* the steps left of the running command and what it loaded, or Idle
    quarantine    \* the directory under pruned-blocks/, or Absent

pruneVars == <<files, checkpoints, snapshots, chain, digests, pending, acked, command, quarantine>>

NoFiles == [k \in Copies |-> [h \in Heights |-> Missing]]

\* A manifest is a set of files: where they are and what they contain.
Entries == [copy : Copies, height : Heights, value : Certs \cup {Damaged}]
Steps == {"load", "mkdir", "manifest", "move", "verified", "finalizing", "delete", "rmdir"}
Commands == [steps : Seq(Steps), loaded : Chains \cup {Stopped}]
Quarantines ==
    [base : 0..MaxHeight, manifest : SUBSET Entries, deleting : BOOLEAN,
     verified : Chains \cup {Missing}, finalizing : Chains \cup {Missing},
     files : [Copies -> [Heights -> Certs \cup {Missing, Damaged}]]]

ASSUME PruningConstants ==
    Idle \notin Commands /\ Absent \notin Quarantines /\ Missing \notin Chains

\* PruneTypeOK: the steps of a command and the contents of the quarantine.
PruneTypeOK ==
    /\ TypeOK
    /\ command \in Commands \cup {Idle}
    /\ quarantine \in Quarantines \cup {Absent}

PruneInit == Init /\ command = Idle /\ quarantine = Absent

-----------------------------------------------------------------------------
(* The commands                                                            *)

\* node-cli takes the directory lock and loads the store, with all repairs,
\* before it starts the operation proper.
Command(steps) ==
    /\ chain = Stopped /\ pending = Idle /\ command = Idle
    /\ command' = [steps |-> steps, loaded |-> Stopped]
    /\ UNCHANGED <<vars, quarantine>>

\* createBlockPruningPlan: the heights that the snapshot of chain c represents.
Prunable(c) == 1..c.base

\* The manifest: the prunable files there are, with their digests.
Plan(c) ==
    {e \in Entries : e.height \in Prunable(c) /\ files[e.copy][e.height] = e.value}

\* stageBlockPruning: the manifest is on disk before a file is moved.
stageBlockPruning == quarantine = Absent /\ Command(<<"load", "mkdir", "manifest", "move">>)

\* readPruneManifest succeeds.
HasManifest == quarantine # Absent /\ quarantine.manifest # {}

\* verifyStagedBlockPruning: completes interrupted moves, loads, leaves a marker.
verifyStagedBlockPruning == HasManifest /\ Command(<<"load", "move", "load", "verified">>)

\* Mutant: the files are deleted before the verification is looked at.
finalizeDeletesFirst == HasManifest /\ Command(<<"load", "delete", "finalizing", "rmdir">>)

\* finalizeBlockPruning: checks the markers, deletes file by file, then the
\* directory.
finalizeBlockPruning == HasManifest /\ Command(<<"load", "finalizing", "delete", "rmdir">>)

-----------------------------------------------------------------------------
(* Their steps.                                                             *)

Doing(step) == command # Idle /\ command.steps # << >> /\ pending = Idle /\ Head(command.steps) = step
NextStep == command' = [command EXCEPT !.steps = Tail(@)]

\* The command ends, with an error or because it is done or stopped.
EndCommand ==
    /\ command' = Idle
    /\ pending' = Idle
    /\ digests' = [h \in Heights |-> Unhashed]
    /\ UNCHANGED <<files, checkpoints, snapshots, chain, acked, quarantine>>

LoadStore ==
    /\ Doing("load")
    /\ \/ /\ Loadable(files, checkpoints, snapshots)
          /\ Begin(Loading("prune", files, checkpoints, snapshots))
          /\ UNCHANGED <<command, quarantine>>
       \/ ~ Loadable(files, checkpoints, snapshots) /\ EndCommand

\* A write of the load, or damage meanwhile.
LoadStep ==
    /\ command # Idle
    /\ WriteSnapshot \/ WriteBlock \/ createCheckpoint \/ WriteCheckpoint \/ Damage
    /\ UNCHANGED <<command, quarantine>>

LoadReturns ==
    /\ command # Idle /\ Written
    /\ pending' = Idle
    /\ command' = [steps |-> Tail(command.steps), loaded |-> pending.chain]
    /\ UNCHANGED <<files, checkpoints, snapshots, chain, digests, acked, quarantine>>

\* Nothing may be staged when there is nothing to prune.
MakeDirectory ==
    /\ Doing("mkdir")
    /\ \/ /\ Plan(command.loaded) # {}
          /\ quarantine' = [base |-> 0, manifest |-> {}, verified |-> Missing,
                            finalizing |-> Missing, files |-> NoFiles, deleting |-> FALSE]
          /\ NextStep /\ UNCHANGED vars
       \/ Plan(command.loaded) = {} /\ EndCommand

WriteManifest ==
    /\ Doing("manifest")
    /\ quarantine' = [quarantine EXCEPT !.base = command.loaded.base,
                                        !.manifest = Plan(command.loaded)]
    /\ NextStep /\ UNCHANGED vars

\* A file of the manifest is where completeStagedMoves leaves it.
Moved(e) ==
    files[e.copy][e.height] = Missing /\ quarantine.files[e.copy][e.height] = e.value

\* The manifest lists the backup copies first, each directory by height.
Before(e, f) == IF e.copy = f.copy THEN e.height < f.height ELSE e.copy = "backup"

\* completeStagedMoves, for the next file that is not moved: as listed, or an
\* error.
MoveFile ==
    /\ Doing("move")
    /\ LET left == {e \in quarantine.manifest : ~ Moved(e)}
       IN  \/ left = {} /\ NextStep /\ UNCHANGED <<vars, quarantine>>
           \/ \E e \in left :
                /\ \A f \in left \ {e} : Before(e, f)
                /\ LET source == files[e.copy][e.height]
                       target == quarantine.files[e.copy][e.height]
                       AsListed == source = e.value /\ target \in {Missing, e.value}
                   IN  \/ /\ AsListed
                          /\ files' = [files EXCEPT ![e.copy][e.height] = Missing]
                          /\ quarantine' = [quarantine EXCEPT !.files[e.copy][e.height] = e.value]
                          /\ UNCHANGED <<checkpoints, snapshots, chain, digests, pending, acked, command>>
                       \/ ~ AsListed /\ EndCommand

\* The marker has the hash of the checkpoint that the load has just written.
WriteVerified ==
    /\ Doing("verified")
    /\ \/ /\ command.loaded.base = quarantine.base
          /\ quarantine' = [quarantine EXCEPT !.verified = command.loaded]
          /\ NextStep /\ UNCHANGED vars
       \/ command.loaded.base # quarantine.base /\ EndCommand

\* The conditions under which finalizeBlockPruning starts to delete, on a store
\* that loads as c: a verification of this very checkpoint and either an
\* earlier marker for it or every file of the manifest.
MayFinalize(c) ==
    /\ quarantine.verified = c /\ quarantine.base = c.base
    /\ \/ quarantine.finalizing = quarantine.verified
       \/ /\ quarantine.finalizing = Missing
          /\ \A e \in quarantine.manifest : quarantine.files[e.copy][e.height] = e.value

WriteFinalizing ==
    /\ Doing("finalizing")
    /\ \/ /\ MayFinalize(command.loaded)
          /\ quarantine' = [quarantine EXCEPT !.finalizing = command.loaded, !.deleting = TRUE]
          /\ NextStep /\ UNCHANGED vars
       \/ ~ MayFinalize(command.loaded) /\ EndCommand

\* Every file of the manifest that is still there is deleted in turn.
DeleteFile ==
    /\ Doing("delete")
    /\ LET left == {e \in quarantine.manifest : quarantine.files[e.copy][e.height] # Missing}
       IN  \/ left = {} /\ NextStep /\ UNCHANGED <<vars, quarantine>>
           \/ \E e \in left :
                /\ \A f \in left \ {e} : Before(e, f)
                /\ quarantine' = [quarantine EXCEPT !.files[e.copy][e.height] = Missing]
                /\ UNCHANGED <<vars, command>>

\* rmSync(recursive) removes the manifest and the markers in whatever order the
\* directory lists them, and then the directory.
RemoveDirectory ==
    /\ Doing("rmdir")
    /\ \/ /\ quarantine.manifest # {}
          /\ quarantine' = [quarantine EXCEPT !.manifest = {}]
          /\ UNCHANGED command
       \/ /\ quarantine.verified # Missing
          /\ quarantine' = [quarantine EXCEPT !.verified = Missing]
          /\ UNCHANGED command
       \/ /\ quarantine.finalizing # Missing
          /\ quarantine' = [quarantine EXCEPT !.finalizing = Missing]
          /\ UNCHANGED command
       \/ /\ quarantine.manifest = {}
          /\ quarantine.verified = Missing /\ quarantine.finalizing = Missing
          /\ quarantine' = Absent
          /\ NextStep
    /\ UNCHANGED vars

\* A command returns after its last step and may be stopped at any.
CommandEnds == command # Idle /\ EndCommand

PruneNext ==
    \/ command = Idle /\ Next /\ UNCHANGED <<command, quarantine>>
    \/ stageBlockPruning \/ verifyStagedBlockPruning \/ finalizeBlockPruning
    \/ LoadStore \/ LoadStep \/ LoadReturns
    \/ MakeDirectory \/ WriteManifest \/ MoveFile \/ WriteVerified
    \/ WriteFinalizing \/ DeleteFile \/ RemoveDirectory \/ CommandEnds

PruneSpec == PruneInit /\ [][PruneNext]_pruneVars

-----------------------------------------------------------------------------
(* Properties                                                              *)

\* Recoverable (module BlockStore), here of PruneSpec: at whatever step a command
\* or the node stops, what is left outside the quarantine loads again ("Pruning
\* never changes consensus state", docs/storage-lifecycle.md).

\* QuarantineComplete: until finalizeBlockPruning has begun, every old file is
\* in the journal or in a quarantine whose manifest lists it, with the contents
\* it was staged with ("At every point before finalization, both old journal
\* copies remain in the quarantine", docs/storage-lifecycle.md).
QuarantineComplete ==
    quarantine = Absent \/
    /\ quarantine.manifest = {} /\ ~ quarantine.deleting => quarantine.files = NoFiles
    /\ ~ quarantine.deleting =>
          \A e \in quarantine.manifest :
              \/ quarantine.files[e.copy][e.height] = e.value
              \/ files[e.copy][e.height] \in {e.value, Damaged}

=============================================================================
