---------------------------- MODULE CheckpointTrust ----------------------------
(* What a client trusts besides the chain it talks to.                       *)
(*  "store":    checkpoint-trust-store.mjs keeps the newest checkpoint that  *)
(*              witnesses attested in two copies under a lock file; packages *)
(*              and witness policies come from checkpoint-trust-package(-v2) *)
(*              and checkpoint-witness-policy-transition.mjs.                *)
(*  "recovery": validator-recovery-trust-store.mjs, one file and a lock,     *)
(*              advanced by compare and swap.                                *)
(*  "client":   light-client.mjs follows finality proofs, validator handoffs *)
(*              and an emergency recovery.                                   *)
(* A behaviour is about one of the three.  Signatures are perfect: only a    *)
(* faulty witness or validator signs what is not on the chain.               *)
EXTENDS Integers, FiniteSets

CONSTANTS Procs,        \* processes of the client that use the same files
          Witnesses, FaultyWitnesses, Threshold,
          OldSet, NewSet, Reserves, FaultyValidators,  \* validator sets of the client's chain
          HandoffAt, RecoverAt,   \* heights at which NewSet and Reserves take over
          SequenceDelay, HeightDelay,   \* least distance of a policy change
          MaxSequence, MaxCheckpoint, MaxHeight, MaxRevision, MaxCrashes, MaxLocks   \* bounds

VARIABLES mode,
          copies,       \* the two files: a set with the record, or {} when absent
          lock,         \* the lock file: its inode (0: none) and owner (process, run)
          links,        \* second name a process gave the lock file: an inode or 0
          run, pc, seen, staged, observed,   \* of each process
          crashes, inodes,
          recovery, held, current,    \* recovery store, its lock, what each process read
          client        \* the light client

store == <<copies, lock, links, run, pc, seen, staged, observed, crashes, inodes>>
recoveryVars == <<recovery, held, current>>
vars == <<mode, store, recoveryVars, client>>

NoPolicy == [sequence |-> 0, height |-> 0]
-----------------------------------------------------------------------------
\* Attestations.  A checkpoint is a block of the chain or something else.
View == [height : 1..MaxCheckpoint, real : BOOLEAN]

\* An honest witness signs only what verifyRecentFinalityCheckpoint accepts; it keeps no
\* record of the sequence numbers it used.
createCheckpointWitnessAttestation(w, v) == v.real \/ w \in FaultyWitnesses
validateCheckpointWitnessAttestation(w, v) ==
    w \in Witnesses /\ createCheckpointWitnessAttestation(w, v)

\* A witness that signed two views for one sequence number is exposed by both.
createCheckpointWitnessEquivocationEvidence(w, v, x) ==
    /\ v # x
    /\ validateCheckpointWitnessAttestation(w, v)
    /\ validateCheckpointWitnessAttestation(w, x)

\* Evidence is accepted only for a member of the policy it names.
validateCheckpointWitnessEquivocationEvidence(w, v, x) ==
    w \in Witnesses /\ createCheckpointWitnessEquivocationEvidence(w, v, x)

\* The policy asks for at least two witnesses and more than two thirds of them.
validateCheckpointWitnessPolicy ==
    Threshold >= 2 /\ Threshold * 3 > Cardinality(Witnesses) * 2

\* Packages that can be put together: enough different witnesses on one view.
assembleCheckpointTrustPackage == {p \in
    [sequence : 0..MaxSequence, view : View, signers : {w \in SUBSET Witnesses :
        Cardinality(w) <= Threshold}, generation : 0..1] :
    \A w \in p.signers : validateCheckpointWitnessAttestation(w, p.view)}

\* A package for the pinned policy, on or above the floor, with enough witnesses.
verifyCheckpointTrustPackage(p, r, minSequence, minHeight) ==
    /\ p.sequence >= minSequence
    /\ p.view.height >= minHeight
    /\ p.generation = r.generation
    /\ Cardinality(p.signers) >= Threshold

\* Version 2 adds what the certificates commit to; a witness signs the commitment with the
\* view, and the reader compares it with the one it computes from the certificates.
certificateCommitment(v) == v.real
createCheckpointWitnessAttestationV2(w, v, c) ==
    w \in FaultyWitnesses \/ (v.real /\ c = certificateCommitment(v))
validateCheckpointWitnessAttestationV2(w, v, c) ==
    w \in Witnesses /\ createCheckpointWitnessAttestationV2(w, v, c)
assembleCheckpointTrustPackageV2 == {p \in
    [view : View, commitment : BOOLEAN, signers : SUBSET Witnesses] :
    \A w \in p.signers : validateCheckpointWitnessAttestationV2(w, p.view, p.commitment)}
verifyCheckpointTrustPackageV2(p, minHeight) ==
    p.view.height >= minHeight /\ Cardinality(p.signers) >= Threshold

\* The change of policy: signed by the old witnesses, possession shown by the new ones,
\* some keys in common, and at a distance from where it was made.
validateCheckpointWitnessPolicyTransition(t, r) ==
    /\ t.sequence >= r.sequence + SequenceDelay
    /\ t.height >= r.height + HeightDelay
-----------------------------------------------------------------------------
\* The record, and the two copies on disk.
Genesis(p) == [revision |-> 0, previous |-> {}, sequence |-> p.sequence, height |-> p.view.height,
               real |-> p.view.real, generation |-> p.generation, pending |-> NoPolicy]
recordFromVerified(r, p) ==
    [r EXCEPT !.revision = @ + 1, !.previous = {r}, !.sequence = p.sequence,
              !.height = p.view.height, !.real = p.view.real]

\* One of the two records is the other or its legal successor.
advancedCheckpoint(o, n) ==
    n.generation = o.generation /\ n.pending = o.pending /\ n.sequence > o.sequence
        /\ n.height >= o.height
scheduledPolicy(o, n) ==
    n.generation = o.generation /\ o.pending = NoPolicy /\ n.pending # NoPolicy
        /\ n.sequence = o.sequence /\ n.height = o.height
activatedPolicy(o, n) ==
    /\ o.pending # NoPolicy /\ n.pending = NoPolicy /\ n.generation = o.generation + 1
    /\ n.sequence > o.sequence /\ n.sequence >= o.pending.sequence
    /\ n.height >= o.height /\ n.height >= o.pending.height
Reconcilable(a, b) == a = b \/ \E o \in {a, b}, n \in {a, b} :
    /\ n.revision = o.revision + 1 /\ n.previous = {o}
    /\ advancedCheckpoint(o, n) \/ scheduledPolicy(o, n) \/ activatedPolicy(o, n)
reconcileCopies(a, b) == IF a.revision > b.revision THEN a ELSE b

Both == copies[1] # {} /\ copies[2] # {}
Copy(i) == CHOOSE r \in copies[i] : TRUE
readCopy == Both /\ Reconcilable(Copy(1), Copy(2))

\* What a process reads, if the copies agree and it has seen nothing newer.
loadAtTarget(p) ==
    /\ readCopy
    /\ \A o \in observed[p] : LET v == reconcileCopies(Copy(1), Copy(2)) IN
        v.revision > o.revision \/ v = o
Loaded == reconcileCopies(Copy(1), Copy(2))
-----------------------------------------------------------------------------
\* The lock file.
Unlocked == [inode |-> 0, owner |-> <<"none", 0>>]
processIsAlive(o) == o[1] \in Procs /\ run[o[1]] = o[2] /\ pc[o[1]] # "down"
NamesOf(i) == (IF lock.inode = i THEN 1 ELSE 0) + Cardinality({p \in Procs : links[p] = i})
readLock == lock.inode # 0 /\ NamesOf(lock.inode) = 1

Set(p, s) == pc' = [pc EXCEPT ![p] = s]

\* Create the lock file; it exists: look whether its owner is dead, twice.
acquireLock(p) ==
    /\ mode = "store" /\ pc[p] \in {"idle", "retry"}
    /\ \/ /\ lock.inode = 0 /\ inodes < MaxLocks
          /\ lock' = [inode |-> inodes + 1, owner |-> <<p, run[p]>>]
          /\ inodes' = inodes + 1
          /\ Set(p, "held") /\ seen' = [seen EXCEPT ![p] = inodes + 1]
       \/ /\ lock.inode # 0 /\ pc[p] = "idle" /\ readLock /\ ~processIsAlive(lock.owner)
          /\ Set(p, "stale") /\ seen' = [seen EXCEPT ![p] = lock.inode]
          /\ UNCHANGED <<lock, inodes>>
       \/ /\ lock.inode # 0 /\ pc[p] = "retry"
          /\ Set(p, "idle") /\ UNCHANGED <<lock, inodes, seen>>
    /\ UNCHANGED <<mode, copies, links, run, staged, observed, crashes, recoveryVars, client>>

\* The second name for what is now at the lock's path.
linkStaleLock(p) ==
    /\ pc[p] = "stale"
    /\ IF lock.inode = 0 THEN Set(p, "idle") /\ UNCHANGED links
       ELSE Set(p, "linked") /\ links' = [links EXCEPT ![p] = lock.inode]
    /\ UNCHANGED <<mode, copies, lock, run, seen, staged, observed, crashes, inodes,
                   recoveryVars, client>>

\* A variant that removes whatever lock is there.
UnlinkAnything(p) ==
    /\ pc[p] = "linked"
    /\ lock' = Unlocked /\ Set(p, "unlinked")
    /\ UNCHANGED <<mode, copies, links, run, seen, staged, observed, crashes, inodes,
                   recoveryVars, client>>

\* Only the file that was read, with exactly these two names, is removed.
unlinkStaleLock(p) ==
    /\ pc[p] = "linked"
    /\ IF lock.inode = seen[p] /\ links[p] = seen[p] /\ NamesOf(seen[p]) = 2
       THEN lock' = Unlocked /\ Set(p, "unlinked")
       ELSE UNCHANGED lock /\ Set(p, "changed")
    /\ UNCHANGED <<mode, copies, links, run, seen, staged, observed, crashes, inodes,
                   recoveryVars, client>>

\* The second name goes, unless it is that of another file.
removeStaleLock(p) ==
    /\ pc[p] \in {"unlinked", "changed"}
    /\ links' = [links EXCEPT ![p] = IF @ = seen[p] THEN 0 ELSE @]
    /\ Set(p, IF pc[p] = "unlinked" THEN "retry" ELSE "idle")
    /\ UNCHANGED <<mode, copies, lock, run, seen, staged, observed, crashes, inodes,
                   recoveryVars, client>>

Stage(p, r) == staged' = [staged EXCEPT ![p] = {r}] /\ Set(p, "staged")
Bounded(r) == r.revision < MaxRevision

\* The first package creates the store: both files must be new.
createCheckpointTrustStore(p) ==
    /\ pc[p] = "held" /\ copies[1] = {} /\ copies[2] = {}
    /\ \E k \in assembleCheckpointTrustPackage :
        /\ k.generation = 0
        /\ verifyCheckpointTrustPackage(k, Genesis(k), 0, 1)
        /\ Stage(p, Genesis(k))
    /\ UNCHANGED <<mode, copies, lock, links, run, seen, observed, crashes, inodes, recoveryVars,
                   client>>

\* A newer package advances the floor; the same one changes nothing; a policy change
\* whose floor is reached must be activated first.
verifyAndAdvanceCheckpointTrustStore(p) ==
    /\ pc[p] = "held" /\ loadAtTarget(p) /\ Bounded(Loaded)
    /\ \E k \in assembleCheckpointTrustPackage : LET old == Loaded IN
        /\ verifyCheckpointTrustPackage(k, old, old.sequence, old.height)
        /\ k.sequence > old.sequence
        /\ ~(old.pending # NoPolicy /\ k.sequence >= old.pending.sequence
                /\ k.view.height >= old.pending.height)
        /\ Stage(p, recordFromVerified(old, k))
    /\ UNCHANGED <<mode, copies, lock, links, run, seen, observed, crashes, inodes, recoveryVars,
                   client>>

scheduleCheckpointWitnessPolicyTransition(p) ==
    /\ pc[p] = "held" /\ loadAtTarget(p) /\ Bounded(Loaded)
    /\ Loaded.pending = NoPolicy /\ Loaded.generation = 0
    /\ \E t \in [sequence : 1..MaxSequence, height : 1..MaxCheckpoint] :
        /\ validateCheckpointWitnessPolicyTransition(t, Loaded)
        /\ Stage(p, [Loaded EXCEPT !.revision = @ + 1, !.previous = {Loaded}, !.pending = t])
    /\ UNCHANGED <<mode, copies, lock, links, run, seen, observed, crashes, inodes, recoveryVars,
                   client>>

\* The package that activates it is of the old policy and at or above both floors.
activateCheckpointWitnessPolicyTransition(p) ==
    /\ pc[p] = "held" /\ loadAtTarget(p) /\ Bounded(Loaded) /\ Loaded.pending # NoPolicy
    /\ \E k \in assembleCheckpointTrustPackage : LET old == Loaded IN
        /\ verifyCheckpointTrustPackage(k, old, old.sequence + 1, old.height)
        /\ k.sequence >= old.pending.sequence /\ k.view.height >= old.pending.height
        /\ Stage(p, [recordFromVerified(old, k) EXCEPT !.generation = @ + 1, !.pending = NoPolicy])
    /\ UNCHANGED <<mode, copies, lock, links, run, seen, observed, crashes, inodes, recoveryVars,
                   client>>

\* The command fails or has nothing to do.
NothingToWrite(p) ==
    /\ pc[p] = "held" /\ Set(p, "written")
    /\ observed' = [observed EXCEPT ![p] = IF Both /\ loadAtTarget(p) THEN {Loaded} ELSE @]
    /\ UNCHANGED <<mode, copies, lock, links, run, seen, staged, crashes, inodes, recoveryVars,
                   client>>

\* The two copies are replaced one after the other, each by rename.
writeAtomic(p) ==
    /\ pc[p] \in {"staged", "half"}
    /\ copies' = [copies EXCEPT ![IF pc[p] = "staged" THEN 1 ELSE 2] = staged[p]]
    /\ IF pc[p] = "staged" THEN Set(p, "half") /\ UNCHANGED observed
       ELSE Set(p, "written") /\ observed' = [observed EXCEPT ![p] = staged[p]]
    /\ UNCHANGED <<mode, lock, links, run, seen, staged, crashes, inodes, recoveryVars, client>>

\* The lock is released only while it is still the file this process made.
withExclusiveLock(p) ==
    /\ pc[p] = "written" /\ Set(p, "idle")
    /\ lock' = IF readLock /\ lock.inode = seen[p] THEN Unlocked ELSE lock
    /\ staged' = [staged EXCEPT ![p] = {}]
    /\ UNCHANGED <<mode, copies, links, run, seen, observed, crashes, inodes, recoveryVars, client>>

\* Reading without the lock.
loadCheckpointTrustStore(p) ==
    /\ mode = "store" /\ pc[p] = "idle" /\ Both /\ loadAtTarget(p) /\ observed[p] # {Loaded}
    /\ observed' = [observed EXCEPT ![p] = {Loaded}]
    /\ UNCHANGED <<mode, copies, lock, links, run, pc, seen, staged, crashes, inodes,
                   recoveryVars, client>>

\* The process stops anywhere, with what it had on disk, and comes back.
Crash(p) ==
    /\ mode = "store" /\ pc[p] # "down" /\ crashes < MaxCrashes
    /\ crashes' = crashes + 1 /\ Set(p, "down")
    /\ staged' = [staged EXCEPT ![p] = {}] /\ observed' = [observed EXCEPT ![p] = {}]
    /\ UNCHANGED <<mode, copies, lock, links, run, seen, inodes, recoveryVars, client>>
Restart(p) ==
    /\ pc[p] = "down" /\ Set(p, "idle") /\ run' = [run EXCEPT ![p] = @ + 1]
    /\ seen' = [seen EXCEPT ![p] = 0]
    /\ UNCHANGED <<mode, copies, lock, links, staged, observed, crashes, inodes, recoveryVars,
                   client>>
-----------------------------------------------------------------------------
\* The recovery store: checkpoint height, generation and the plans already used.
Plans == {"a", "b"}
loadValidatorRecoveryTrustStore(p) ==
    /\ mode = "recovery" /\ held # p /\ current' = [current EXCEPT ![p] = recovery]
    /\ current[p] # recovery /\ UNCHANGED <<mode, store, recovery, held, client>>

\* The next value follows from what this process read; then the lock.
advanceValidatorRecoveryTrustStore(p) ==
    /\ mode = "recovery" /\ held = "none" /\ current[p].height < MaxHeight
    /\ held' = p /\ UNCHANGED <<mode, store, recovery, current, client>>

\* Under the lock the file must still be what was read; a recovery uses a new plan.
compareAndSwap(p) ==
    /\ mode = "recovery" /\ held = p /\ recovery = current[p]
    /\ \E u \in SUBSET (Plans \ current[p].used) :
        /\ Cardinality(u) <= 1
        /\ recovery' = [height |-> current[p].height + 1,
                        generation |-> current[p].generation + Cardinality(u),
                        used |-> current[p].used \union u]
    /\ current' = [current EXCEPT ![p] = recovery'] /\ held' = "none"
    /\ UNCHANGED <<mode, store, client>>
compareFails(p) ==
    /\ mode = "recovery" /\ held = p /\ recovery # current[p] /\ held' = "none"
    /\ UNCHANGED <<mode, store, recovery, current, client>>
-----------------------------------------------------------------------------
\* The light client.  A proof says which set signed it and who; a block that is not on
\* the chain is signed by faulty validators only.
Quorum(votes, set) == Cardinality(votes \intersect set) * 3 > Cardinality(set) * 2
SetAt(h) == IF h >= RecoverAt THEN Reserves ELSE IF h >= HandoffAt THEN NewSet ELSE OldSet
Voters(real, sets) == IF real THEN sets ELSE sets \intersect FaultyValidators

\* Prepare and commit certificates of the set in force, and of the old one at a handoff.
verifyVotes(votes, set, old) ==
    /\ votes \subseteq set \union old
    /\ Quorum(votes, set)
    /\ (old # {} => Quorum(votes, old))

\* A handoff is signed by quorums of both sets, which overlap by a third.
verifyValidatorHandoff(votes, set, next) ==
    /\ Quorum(votes, set) /\ Quorum(votes, next)
    /\ Cardinality(set \intersect next) * 3 >=
        (IF Cardinality(set) < Cardinality(next) THEN Cardinality(set) ELSE Cardinality(next))

\* The next header: it continues the last one, and at a handoff names that block.
verifyFinalityProofChain ==
    /\ mode = "client" /\ client.height < MaxHeight
    /\ client.height + 1 # RecoverAt \/ client.set # NewSet
    /\ \E real \in BOOLEAN, next \in {client.set, NewSet, FaultyValidators} :
        LET votes == Voters(real, client.set \union next) IN
        /\ real => client.real /\ next = (IF client.height + 1 = HandoffAt THEN NewSet
                                          ELSE client.set)
        /\ next # client.set => verifyValidatorHandoff(votes, client.set, next)
        /\ verifyVotes(votes, next, IF next = client.set THEN {} ELSE client.set)
        /\ client' = [height |-> client.height + 1, set |-> next, real |-> real]
    /\ UNCHANGED <<mode, store, recoveryVars>>

\* A client that has been away starts again from an attested checkpoint: it is the block
\* of the package, finalized by the validators the package names, and above the
\* client's own height.
verifyRecentFinalityCheckpoint ==
    /\ mode = "client" /\ client.real
    /\ \E k \in assembleCheckpointTrustPackageV2 :
        LET set == IF k.view.real THEN SetAt(k.view.height) ELSE FaultyValidators IN
        /\ verifyCheckpointTrustPackageV2(k, client.height + 1)
        /\ verifyVotes(Voters(k.view.real, set), set, {})
        /\ client' = [height |-> k.view.height, set |-> set, real |-> k.view.real]
    /\ UNCHANGED <<mode, store, recoveryVars>>

\* A recovery: the plan is the one that the previous finalized header commits to, and a
\* quorum of its reserves signed the block.
verifyValidatorRecoveryTransition ==
    /\ mode = "client" /\ client.height < MaxHeight
    /\ \E real \in BOOLEAN, plan \in {Reserves, FaultyValidators} :
        /\ client.real => plan = Reserves /\ client.height + 1 = RecoverAt
        /\ real => client.real
        /\ Quorum(Voters(real, plan), plan)
        /\ client' = [height |-> client.height + 1, set |-> plan, real |-> real]
    /\ UNCHANGED <<mode, store, recoveryVars>>
-----------------------------------------------------------------------------
Init ==
    /\ mode \in {"store", "recovery", "client"}
    /\ copies = <<{}, {}>> /\ lock = Unlocked /\ links = [p \in Procs |-> 0]
    /\ run = [p \in Procs |-> 0] /\ pc = [p \in Procs |-> "idle"] /\ seen = [p \in Procs |-> 0]
    /\ staged = [p \in Procs |-> {}] /\ observed = [p \in Procs |-> {}]
    /\ crashes = 0 /\ inodes = 0
    /\ recovery = [height |-> 0, generation |-> 0, used |-> {}] /\ held = "none"
    /\ current = [p \in Procs |-> recovery]
    /\ client = [height |-> 0, set |-> OldSet, real |-> TRUE]

Step(p) ==
    \/ acquireLock(p) \/ linkStaleLock(p) \/ unlinkStaleLock(p) \/ removeStaleLock(p)
    \/ createCheckpointTrustStore(p) \/ verifyAndAdvanceCheckpointTrustStore(p)
    \/ scheduleCheckpointWitnessPolicyTransition(p)
    \/ activateCheckpointWitnessPolicyTransition(p)
    \/ NothingToWrite(p) \/ writeAtomic(p) \/ withExclusiveLock(p)
    \/ loadCheckpointTrustStore(p) \/ Crash(p) \/ Restart(p)
    \/ loadValidatorRecoveryTrustStore(p) \/ advanceValidatorRecoveryTrustStore(p)
    \/ compareAndSwap(p) \/ compareFails(p)

Next == (\E p \in Procs : Step(p)) \/ verifyFinalityProofChain \/ verifyRecentFinalityCheckpoint
        \/ verifyValidatorRecoveryTransition

Spec == Init /\ [][Next]_vars
-----------------------------------------------------------------------------
\* Two processes never write the store at once, even when both find the lock of a dead
\* process and one of them takes its place while the other is still removing it.
OneWriter == \A p, q \in Procs :
    pc[p] \in {"held", "staged", "half"} /\ pc[q] \in {"held", "staged", "half"} => p = q

\* Once the store exists its copies agree or follow one another, also when a process
\* stopped between them: a client can read what it trusts.  (A second stop between the
\* copies, after a first one, leaves two records that are not neighbours, which nothing
\* repairs.)
CopiesReconcile ==
    Both /\ crashes <= 1 /\ (\A p \in Procs : pc[p] # "half") => readCopy

\* What the store holds was attested by a quorum of witnesses and is on the chain.
TrustsTheChain == /\ (Both => Copy(1).real /\ Copy(2).real) /\ client.real

\* No copy of the trusted checkpoint ever goes back: not by a late writer, a crash or a
\* package with an old height.
NeverRollsBack == \A i \in 1..2 : copies[i] # {} =>
    copies'[i] # {} /\ LET o == Copy(i) n == Copy(i)' IN
        /\ n.revision >= o.revision /\ n.generation >= o.generation
        /\ n.sequence >= o.sequence /\ n.height >= o.height

\* The recovery store forgets neither a used plan nor a generation, whoever advances it.
RecoveryNeverForgets ==
    recovery.used \subseteq recovery'.used /\ recovery.height <= recovery'.height
        /\ recovery'.generation = Cardinality(recovery'.used)
=============================================================================
