----------------------------- MODULE BlockStore -----------------------------
(***************************************************************************)
(* The block journal of a node (blockchain/block-store.mjs) with the       *)
(* installed state snapshot (blockchain/snapshot-store.mjs): two copies of *)
(* every block file, of the checkpoint and of the snapshot, written one    *)
(* after the other, and a load that repairs what it can and replays.       *)
(*                                                                         *)
(* writeAtomic synchronises and renames, so a file has its old or its new  *)
(* contents, and an operation is the list of its writes.  A crash, or an   *)
(* I/O error that the process survives, may come before any of them.       *)
(*                                                                         *)
(* Finality fixes the hash of the block at every height (module Finality), *)
(* but not the certificate a node happens to receive with it: the contents *)
(* of a block file are the certificate, and the SHA-256 of a file is       *)
(* modelled by its contents.  Every intact block passes the replay.        *)
(***************************************************************************)
EXTENDS Integers, Sequences, FiniteSets

CONSTANTS
    Certs,            \* certificates that blocks may come with
    MaxHeight,        \* bound: heights explored
    IOErrors,         \* whether a write may fail under a process that goes on
    OperatorInstalls, \* whether snapshot-install is run on the stopped node
    Missing, Damaged, Unhashed, Stopped, Idle   \* distinct from all other values

Copies == {"primary", "backup"}
Heights == 1..MaxHeight
Other(k) == IF k = "primary" THEN "backup" ELSE "primary"

\* A chain from its snapshot base: the certificates of blocks base + 1, ...
\* A checkpoint has the same shape, with the digests of the block files.
Chains == UNION {[base : {b}, height : {t}, certs : [(b + 1)..t -> Certs]] :
                    b \in 0..MaxHeight, t \in 0..MaxHeight}
Covered(c) == (c.base + 1)..c.height
At(c, h) == c.certs[h]

\* An operation under way: what it has still to write and what it ends in.
Operations ==
    [op : {"load", "persist", "install", "operator", "prune"},
     chain : Chains \cup {Stopped},
     snapshot : 0..MaxHeight, snapshots : SUBSET Copies,
     blocks : SUBSET (Copies \X Heights),
     checkpoint : Chains \cup {Unhashed}, checkpoints : SUBSET Copies]

ASSUME StoreConstants ==
    /\ MaxHeight \in Nat /\ Certs # {}
    /\ Missing \notin Certs /\ Damaged \notin Certs /\ Unhashed \notin Certs /\ Missing # Damaged
    /\ Damaged \notin Chains /\ Stopped \notin Chains /\ Unhashed \notin Chains
    /\ Damaged \notin 0..MaxHeight /\ Idle \notin Operations
    /\ IOErrors \in BOOLEAN /\ OperatorInstalls \in BOOLEAN

VARIABLES
    files,        \* files[k][h]: blocks/ and block-backups/, a file per height
    checkpoints,  \* STORE-CHECKPOINT.json and its backup
    snapshots,    \* STATE-SNAPSHOT.json and its backup: a height, 0 for none
    chain,        \* the chain of the running process, or Stopped
    digests,      \* blockFileHashes: digests cached by the process, per block
    pending,      \* the operation under way, or Idle
    acked         \* the greatest height a process has answered for

disk == <<files, checkpoints, snapshots>>
vars == <<files, checkpoints, snapshots, chain, digests, pending, acked>>

\* TypeOK: what the store holds has its shape; a checkpoint that loadBlockStore
\* accepts (verifyCheckpoint) has a digest for every block it covers.
TypeOK ==
    /\ files \in [Copies -> [Heights -> Certs \cup {Missing, Damaged}]]
    /\ checkpoints \in [Copies -> Chains \cup {Damaged}]
    /\ snapshots \in [Copies -> 0..MaxHeight \cup {Damaged}]
    /\ chain \in Chains \cup {Stopped}
    /\ digests \in [Heights -> Certs \cup {Unhashed}]
    /\ pending \in Operations \cup {Idle}
    /\ acked \in 0..MaxHeight

Genesis == [base |-> 0, height |-> 0, certs |-> << >>]

\* initializeBlockStore
Init ==
    /\ files = [k \in Copies |-> [h \in Heights |-> Missing]]
    /\ checkpoints = [k \in Copies |-> Genesis]
    /\ snapshots = [k \in Copies |-> 0]
    /\ chain = Stopped
    /\ digests = [h \in Heights |-> Unhashed]
    /\ pending = Idle
    /\ acked = 0

-----------------------------------------------------------------------------
(* Loading: what is on disk decides the chain and the repairs              *)

\* The heights that the snapshot, the checkpoint or any file knows of.
KnownHeights(f, checkpoint, base) ==
    {base, checkpoint.height} \cup {h \in Heights : \E k \in Copies : f[k][h] # Missing}

LastHeight(f, checkpoint, base) ==
    CHOOSE h \in KnownHeights(f, checkpoint, base) :
        \A i \in KnownHeights(f, checkpoint, base) : i <= h

\* readCandidate: an intact file that has the digest the checkpoint expects of
\* it.  A checkpoint with another base than the snapshot expects nothing.
Usable(f, checkpoint, base, k, h) ==
    /\ f[k][h] \in Certs
    /\ (checkpoint.base = base /\ h \in Covered(checkpoint)) => f[k][h] = At(checkpoint, h)

\* The primary candidate if there is one, else the backup.
Accepted(f, checkpoint, base, h) ==
    IF Usable(f, checkpoint, base, "primary", h) THEN f["primary"][h] ELSE f["backup"][h]

\* The intact checkpoint with the greatest height.
Newest(c) ==
    CHOOSE k \in Copies :
        /\ c[k] # Damaged
        /\ c[Other(k)] # Damaged => c[k].height >= c[Other(k)].height

\* The intact snapshot with the greatest height, 0 if there is no snapshot.
Installed(s) ==
    CHOOSE h \in {s[k] : k \in Copies} \ {Damaged} :
        \A k \in Copies : s[k] # Damaged => s[k] <= h

\* loadBlockStore's refusals.
Loadable(f, c, s) ==
    /\ \E k \in Copies : c[k] # Damaged
    /\ \E k \in Copies : s[k] # Damaged
    /\ ~ /\ \A k \in Copies : c[k] # Damaged
         /\ c["primary"].height = c["backup"].height
         /\ c["primary"] # c["backup"]
    /\ LET checkpoint == c[Newest(c)]
           base == Installed(s)
       IN  /\ checkpoint.base > 0 => base > 0
           /\ \A h \in (base + 1)..LastHeight(f, checkpoint, base) :
                 \E k \in Copies : Usable(f, checkpoint, base, k, h)

LoadedChain(f, c, s) ==
    LET checkpoint == c[Newest(c)]
        base == Installed(s)
        last == LastHeight(f, checkpoint, base)
    IN  [base |-> base, height |-> last,
         certs |-> [h \in (base + 1)..last |-> Accepted(f, checkpoint, base, h)]]

\* The copies of a block that differ from the accepted one are written again.
Repairs(f, loaded) ==
    {b \in Copies \X Covered(loaded) : f[b[1]][b[2]] # At(loaded, b[2])}

SnapshotRepairs(s) == {k \in Copies : s[k] # Installed(s)}

-----------------------------------------------------------------------------
(* Operations                                                              *)

Begin(operation) ==
    /\ pending = Idle
    /\ pending' = operation
    /\ UNCHANGED <<files, checkpoints, snapshots, chain, digests, acked>>

\* loadBlockStore of store contents f, c and s, and writeCheckpoint at its end.
Loading(op, f, c, s) ==
    LET loaded == LoadedChain(f, c, s)
    IN  [op |-> op, chain |-> loaded,
         snapshot |-> loaded.base, snapshots |-> SnapshotRepairs(s),
         blocks |-> Repairs(f, loaded),
         checkpoint |-> Unhashed, checkpoints |-> Copies]

\* loadChain in the constructor of a replica, of a node or of a coordinator.
loadBlockStore ==
    /\ chain = Stopped
    /\ Loadable(files, checkpoints, snapshots)
    /\ Begin(Loading("load", files, checkpoints, snapshots))

\* persistBlock, called by commit with a verified block of the next height.  A
\* file that an interrupted attempt left is overwritten when its contents, the
\* certificate, differ, and refused when it is unreadable.
persistBlock(cert) ==
    /\ chain # Stopped /\ chain.height < MaxHeight
    /\ LET h == chain.height + 1
           grown == [i \in (chain.base + 1)..h |-> IF i = h THEN cert ELSE At(chain, i)]
       IN  /\ \A k \in Copies : files[k][h] # Damaged
           /\ Begin([op |-> "persist",
                     chain |-> [base |-> chain.base, height |-> h, certs |-> grown],
                     snapshot |-> chain.base, snapshots |-> {},
                     blocks |-> {b \in Copies \X {h} : files[b[1]][h] # cert},
                     checkpoint |-> Unhashed, checkpoints |-> Copies])

\* installBlockStoreSnapshot: both snapshot copies are written, then the store
\* is loaded again.  When that load throws, only the snapshots were written.
Installing(op, h) ==
    LET s == [k \in Copies |-> h]
    IN  IF Loadable(files, checkpoints, s)
        THEN [Loading(op, files, checkpoints, s) EXCEPT !.snapshots = Copies]
        ELSE [op |-> op, chain |-> chain, snapshot |-> h, snapshots |-> Copies,
              blocks |-> {}, checkpoint |-> Unhashed, checkpoints |-> {}]

\* installStateSnapshotCandidates: the running replica takes a snapshot ahead
\* of its chain from its peers.
installStateSnapshotCandidates(h) ==
    /\ chain # Stopped
    /\ h > chain.height
    /\ h >= Installed(snapshots)
    /\ Begin(Installing("install", h))

\* snapshot-install on the stopped node: any finalized height, no rollback.
snapshotInstall(h) ==
    /\ OperatorInstalls
    /\ chain = Stopped
    /\ \E k \in Copies : snapshots[k] # Damaged
    /\ h >= Installed(snapshots)
    /\ Begin(Installing("operator", h))

-----------------------------------------------------------------------------
(* The writes of an operation: snapshots, blocks by height, checkpoints.   *)

\* Of two copies, a repair writes the primary one first; everything else is
\* written to the backup first.
First(S, k) == IF k \in S THEN k ELSE Other(k)

WriteSnapshot ==
    /\ pending # Idle /\ pending.snapshots # {}
    /\ LET k == First(pending.snapshots,
                      IF pending.op \in {"install", "operator"} THEN "backup" ELSE "primary")
       IN  /\ snapshots' = [snapshots EXCEPT ![k] = pending.snapshot]
           /\ pending' = [pending EXCEPT !.snapshots = @ \ {k}]
    /\ UNCHANGED <<files, checkpoints, chain, digests, acked>>

WriteBlock ==
    /\ pending # Idle /\ pending.snapshots = {}
    /\ \E b \in pending.blocks :
          /\ \A other \in pending.blocks :
                \/ other = b
                \/ other[2] > b[2]
                \/ other[2] = b[2] /\ b[1] = IF pending.op = "persist" THEN "backup" ELSE "primary"
          /\ files' = [files EXCEPT ![b[1]][b[2]] = At(pending.chain, b[2])]
          /\ pending' = [pending EXCEPT !.blocks = @ \ {b}]
    /\ UNCHANGED <<checkpoints, snapshots, chain, digests, acked>>

\* Mutant: the checkpoint is made, and written, before the block files.
createCheckpointEarly ==
    /\ pending # Idle /\ pending.snapshots = {}
    /\ pending.checkpoint = Unhashed /\ pending.checkpoints # {}
    /\ pending' = [pending EXCEPT !.checkpoint = pending.chain]
    /\ UNCHANGED <<files, checkpoints, snapshots, chain, digests, acked>>

\* writeCheckpoint starts with createCheckpoint: a digest that the process has
\* computed for a block hash before is taken from the cache.
createCheckpoint ==
    /\ pending # Idle /\ pending.snapshots = {} /\ pending.blocks = {}
    /\ pending.checkpoint = Unhashed /\ pending.checkpoints # {}
    /\ digests' = [h \in Heights |->
                      IF digests[h] = Unhashed /\ h \in Covered(pending.chain)
                      THEN At(pending.chain, h) ELSE digests[h]]
    /\ LET hashes == [h \in Covered(pending.chain) |-> digests'[h]]
       IN  pending' = [pending EXCEPT !.checkpoint = [pending.chain EXCEPT !.certs = hashes]]
    /\ UNCHANGED <<files, checkpoints, snapshots, chain, acked>>

WriteCheckpoint ==
    /\ pending # Idle /\ pending.checkpoint # Unhashed /\ pending.checkpoints # {}
    /\ LET k == First(pending.checkpoints, "backup")
       IN  /\ checkpoints' = [checkpoints EXCEPT ![k] = pending.checkpoint]
           /\ pending' = [pending EXCEPT !.checkpoints = @ \ {k}]
    /\ UNCHANGED <<files, snapshots, chain, digests, acked>>

Written == pending # Idle /\ pending.snapshots = {} /\ pending.blocks = {} /\ pending.checkpoints = {}

\* The operation returns: the process adopts the chain and answers for it; the
\* operator's command ends.
Return ==
    /\ Written
    /\ pending' = Idle
    /\ \/ /\ pending.op \in {"load", "persist", "install"}
          /\ chain' = pending.chain
          /\ acked' = pending.chain.height
          /\ UNCHANGED digests
       \/ /\ pending.op = "operator"
          /\ digests' = [h \in Heights |-> Unhashed]
          /\ UNCHANGED <<chain, acked>>
    /\ UNCHANGED disk

\* A write throws and the process goes on with the chain it had: commit's and
\* the snapshot handler's error answer.
Throw ==
    /\ IOErrors
    /\ pending # Idle /\ pending.op \in {"persist", "install"}
    /\ \/ pending.snapshots # {} \/ pending.blocks # {}
       \/ pending.checkpoint # Unhashed /\ pending.checkpoints # {}
    /\ pending' = Idle
    /\ UNCHANGED <<files, checkpoints, snapshots, chain, digests, acked>>

\* The process ends, at rest or within an operation.
Crash ==
    /\ chain # Stopped \/ pending # Idle
    /\ chain' = Stopped
    /\ pending' = Idle
    /\ digests' = [h \in Heights |-> Unhashed]
    /\ UNCHANGED <<files, checkpoints, snapshots, acked>>

\* One copy of something that has an intact second copy rots.
Damage ==
    /\ \E k \in Copies :
          \/ \E h \in 1..acked :
                /\ files[k][h] \in Certs /\ files[Other(k)][h] \in Certs
                /\ files' = [files EXCEPT ![k][h] = Damaged]
                /\ UNCHANGED <<checkpoints, snapshots>>
          \/ /\ checkpoints[k] # Damaged /\ checkpoints[Other(k)] # Damaged
             /\ checkpoints' = [checkpoints EXCEPT ![k] = Damaged]
             /\ UNCHANGED <<files, snapshots>>
          \/ /\ snapshots[k] \notin {0, Damaged} /\ snapshots[Other(k)] \notin {0, Damaged}
             /\ snapshots' = [snapshots EXCEPT ![k] = Damaged]
             /\ UNCHANGED <<files, checkpoints>>
    /\ UNCHANGED <<chain, digests, pending, acked>>

Next ==
    \/ loadBlockStore
    \/ \E cert \in Certs : persistBlock(cert)
    \/ \E h \in Heights : installStateSnapshotCandidates(h) \/ snapshotInstall(h)
    \/ WriteSnapshot \/ WriteBlock \/ createCheckpoint \/ WriteCheckpoint
    \/ Return \/ Throw \/ Crash \/ Damage

Spec == Init /\ [][Next]_vars

-----------------------------------------------------------------------------
(* Properties                                                              *)

\* Recoverable: a node that stops now, in whatever operation and with one copy
\* of each thing damaged, loads again, at no lower height than it has answered
\* for: "A checkpoint left behind by a crash is advanced from later valid
\* journal entries" (docs/node.md).
Recoverable ==
    /\ Loadable(files, checkpoints, snapshots)
    /\ LoadedChain(files, checkpoints, snapshots).height >= acked

\* LoadRestoresCopies: when loadBlockStore returns, both copies of every block
\* of the chain hold the block, and both checkpoints have its file's digest,
\* unless they were damaged again meanwhile.
LoadRestoresCopies ==
    \A k \in Copies : \A h \in Heights :
          (Return /\ pending.op = "load" /\ h \in Covered(chain'))
              => /\ files[k][h] \in {At(chain', h), Damaged}
                 /\ checkpoints[k] = Damaged \/ At(checkpoints[k], h) = At(chain', h)

\* ChecksumsExact: with no operation under way a checkpoint that covers a block
\* of the chain has the digest of the block's file: "Each checkpoint commits to the network,
\* height, tip, block hashes, and exact SHA-256 digest of every journal file"
\* (docs/node.md).
ChecksumsExact ==
    (pending = Idle /\ chain # Stopped) =>
        \A k, j \in Copies : checkpoints[k] # Damaged =>
            \A h \in Covered(checkpoints[k]) \cap Covered(chain) :
                files[j][h] \in Certs => files[j][h] = At(checkpoints[k], h)
=============================================================================
