------------------------- MODULE BlockPruningProofs -------------------------
(***************************************************************************)
(* Proofs about modules BlockStore and BlockPruning: whatever operation or *)
(* command stops at whatever write, and whichever copy rots, the node      *)
(* loads again everything it has answered for (Recoverable), and no file   *)
(* leaves the journal before its copy is in the quarantine                 *)
(* (QuarantineComplete).                                                   *)
(***************************************************************************)
EXTENDS BlockPruning, WellFoundedInduction, TLAPS

-----------------------------------------------------------------------------
(* The inductive invariant                                                 *)

\* Finality fixes one block for every height; truth is the certificate that
\* the first intact file of the height has.
True(truth, c) == \A h \in Covered(c) : At(c, h) = truth[h]

\* Everything intact, in memory or on disk, agrees on the contents of a block.
Faithful(truth) ==
    /\ \A k \in Copies, h \in Heights : files[k][h] \in Certs => files[k][h] = truth[h]
    /\ \A k \in Copies : checkpoints[k] # Damaged => True(truth, checkpoints[k])
    /\ chain # Stopped => True(truth, chain)
    /\ pending # Idle => True(truth, pending.chain)
    /\ \A h \in Heights : digests[h] \in {Unhashed, truth[h]}

Intact(h) == \E k \in Copies : files[k][h] \in Certs

\* The heights that something on disk, or an answer, vouches for.
Known(h) ==
    \/ h <= acked
    \/ \E k \in Copies : files[k][h] # Missing
    \/ \E k \in Copies : checkpoints[k] # Damaged /\ h <= checkpoints[k].height

\* From every intact snapshot on there is an intact copy of every block up to
\* the last that is known.
Contiguous ==
    \A k \in Copies : snapshots[k] # Damaged =>
        \A g, h \in Heights : snapshots[k] < h /\ h <= g /\ Known(g) => Intact(h)

\* A checkpoint of an older base ends before base.
Older(c, base) ==
    c # Damaged => c.base <= c.height /\ c.base <= base /\ (c.base < base => c.height < base)

\* One copy of each is intact; no checkpoint has a later base than a snapshot,
\* and of two bases the older checkpoint ends before the newer begins.
Anchored ==
    /\ \E k \in Copies : checkpoints[k] # Damaged
    /\ \E k \in Copies : snapshots[k] # Damaged
    /\ \A k, j \in Copies : snapshots[j] # Damaged => Older(checkpoints[k], snapshots[j])
    /\ \A k, j \in Copies : checkpoints[j] # Damaged /\ checkpoints[k] # Damaged =>
          (checkpoints[k].base < checkpoints[j].base => checkpoints[k].height < checkpoints[j].base)
    /\ \A k \in Copies, h \in Heights : files[k][h] = Damaged => h <= acked

\* The chain that a process has, or that its operation ends in.
Top == IF pending # Idle THEN pending.chain ELSE chain

\* Nothing on disk is ahead of the chain of a process, and both copies of all
\* its blocks and of its snapshot are there or on the list of writes.
Ahead ==
    /\ Top \in Chains /\ Top.base <= Top.height
    /\ \A h \in Heights : Known(h) => h <= Top.height
    /\ \A k \in Copies : Older(checkpoints[k], Top.base)
    /\ \A k \in Copies, h \in Covered(Top) :
          files[k][h] # Missing \/ (pending # Idle /\ <<k, h>> \in pending.blocks)
    /\ \A k \in Copies :
          snapshots[k] \in {Top.base, Damaged} \/
          (pending # Idle /\ k \in pending.snapshots /\ snapshots[k] <= Top.base)

\* Snapshots are written first and checkpoints last.
Ordered ==
    pending # Idle =>
        /\ pending.snapshot = pending.chain.base
        /\ pending.blocks \subseteq Copies \X Covered(pending.chain)
        /\ pending.checkpoint # Unhashed =>
              pending.snapshots = {} /\ pending.blocks = {} /\ pending.checkpoint = pending.chain
        /\ pending.checkpoints = {} => pending.checkpoint # Unhashed
        /\ \A k \in Copies \ pending.checkpoints : checkpoints[k] \in {pending.chain, Damaged}
        /\ pending.op # "operator"

StoreInv ==
    /\ TypeOK
    /\ \E truth \in [Heights -> Certs] : Faithful(truth)
    /\ Contiguous /\ Anchored
    /\ pending # Idle \/ chain # Stopped => Ahead
    /\ Ordered

\* A process has digests of blocks of its chain only.
Hashed ==
    command = Idle =>
        \A h \in Heights :
            digests[h] # Unhashed => (pending # Idle \/ chain # Stopped) /\ h <= Top.height

\* A command runs on a stopped node, and after its load the intact snapshots
\* are the base it loaded.
Programs ==
    {<<"load", "mkdir", "manifest", "move">>, <<"mkdir", "manifest", "move">>,
     <<"manifest", "move">>, <<"move">>,
     <<"load", "move", "load", "verified">>, <<"move", "load", "verified">>,
     <<"load", "verified">>, <<"verified">>,
     <<"load", "finalizing", "delete", "rmdir">>, <<"finalizing", "delete", "rmdir">>,
     <<"delete", "rmdir">>, <<"rmdir">>, << >>}

Staging(p) ==
    p \in {<<"load", "mkdir", "manifest", "move">>, <<"mkdir", "manifest", "move">>, << >>}
Filling(p) == p = <<"manifest", "move">>
Deleting(p) == p \in {<<"delete", "rmdir">>, <<"rmdir">>}

CommandInv ==
    command # Idle =>
        /\ chain = Stopped /\ command.steps \in Programs
        /\ pending # Idle => pending.op = "prune" /\ command.steps # << >> /\ Head(command.steps) = "load"
        /\ command.loaded = Stopped =>
              command.steps # << >> /\ Head(command.steps) = "load"
        /\ command.loaded # Stopped =>
              \A k \in Copies : snapshots[k] \in {command.loaded.base, Damaged}
        /\ pending # Idle /\ command.loaded # Stopped => pending.chain.base = command.loaded.base
        /\ ~ Staging(command.steps) => quarantine # Absent
        /\ Filling(command.steps) => ~ quarantine.deleting /\ quarantine.files = NoFiles
        /\ Deleting(command.steps) => quarantine.deleting

\* A file is staged once, and is at or below every intact snapshot.
Staged ==
    quarantine # Absent =>
        \A e \in quarantine.manifest :
            /\ \A k \in Copies : snapshots[k] # Damaged => e.height <= snapshots[k]
            /\ \A f \in quarantine.manifest :
                  f.copy = e.copy /\ f.height = e.height => f = e

PruneInv ==
    /\ PruneTypeOK
    /\ StoreInv
    /\ Hashed
    /\ command = Idle => (pending # Idle => pending.op # "prune")
    /\ CommandInv
    /\ Staged
    /\ QuarantineComplete

-----------------------------------------------------------------------------
(* Numbers                                                                 *)

LEMMA LeastNat ==
    ASSUME NEW T \in SUBSET Nat, T # {}
    PROVE  \E x \in T : \A y \in T : x <= y
<1> DEFINE R == OpToRel(<, Nat)
<1>1. IsWellFoundedOn(R, Nat)
  BY NatLessThanWellFounded
<1>2. \E x \in T : \A y \in T : ~ (<<y, x>> \in R)
  <2> HIDE DEF R
  <2> QED BY <1>1, WFMin
<1>3. \A x, y \in Nat : x < y => <<x, y>> \in R
  BY DEF OpToRel
<1> HIDE DEF R
<1>4. PICK x \in T : \A y \in T : ~ (<<y, x>> \in R)
  BY <1>2
<1>5. ASSUME NEW y \in T PROVE x <= y
  <2>1. ~ (y < x)
    BY <1>3, <1>4
  <2> QED BY <2>1
<1> QED BY <1>5

\* A set of heights has a greatest.
LEMMA GreatestHeight ==
    ASSUME NEW n \in Nat, NEW T \in SUBSET (0..n), T # {}
    PROVE  \E x \in T : \A y \in T : y <= x
<1> DEFINE D == {n - t : t \in T}
<1>1. D \in SUBSET Nat /\ D # {}
  <2>1. \A t \in T : n - t \in Nat
    OBVIOUS
  <2>2. PICK t \in T : TRUE
    OBVIOUS
  <2>3. n - t \in D
    OBVIOUS
  <2> QED BY <2>1, <2>3
<1>2. PICK d \in D : \A e \in D : d <= e
  BY <1>1, LeastNat
<1>3. PICK x \in T : d = n - x
  OBVIOUS
<1>4. \A y \in T : n - x <= n - y
  BY <1>2, <1>3
<1> QED BY <1>4

-----------------------------------------------------------------------------
(* What a load makes of the files                                          *)

Files == [Copies -> [Heights -> Certs \cup {Missing, Damaged}]]
Checkpoints == [Copies -> Chains \cup {Damaged}]
Snapshots == [Copies -> 0..MaxHeight \cup {Damaged}]

\* The chains from base b to height t.
Spans(b, t) == [base : {b}, height : {t}, certs : [(b + 1)..t -> Certs]]

LEMMA ChainShape ==
    ASSUME NEW c \in Chains
    PROVE  /\ c.base \in 0..MaxHeight /\ c.height \in 0..MaxHeight
           /\ c.certs \in [Covered(c) -> Certs]
           /\ c = [base |-> c.base, height |-> c.height, certs |-> c.certs]
<1>1. PICK b \in 0..MaxHeight, t \in 0..MaxHeight : c \in Spans(b, t)
  <2>1. Chains = UNION {Spans(i, j) : i \in 0..MaxHeight, j \in 0..MaxHeight}
    BY DEF Chains, Spans
  <2>2. PICK S \in {Spans(i, j) : i \in 0..MaxHeight, j \in 0..MaxHeight} : c \in S
    BY <2>1
  <2> QED BY <2>2
<1>2. c.base = b /\ c.height = t /\ c.certs \in [(b + 1)..t -> Certs]
  BY <1>1 DEF Spans
<1>3. c = [base |-> c.base, height |-> c.height, certs |-> c.certs]
  BY <1>1 DEF Spans
<1> QED BY <1>2, <1>3 DEF Covered

LEMMA ChainMade ==
    ASSUME NEW b \in 0..MaxHeight, NEW t \in 0..MaxHeight, NEW g \in [(b + 1)..t -> Certs]
    PROVE  [base |-> b, height |-> t, certs |-> g] \in Chains
<1>1. [base |-> b, height |-> t, certs |-> g] \in Spans(b, t)
  BY DEF Spans
<1>2. Spans(b, t) \in {Spans(i, j) : i \in 0..MaxHeight, j \in 0..MaxHeight}
  OBVIOUS
<1>3. Chains = UNION {Spans(i, j) : i \in 0..MaxHeight, j \in 0..MaxHeight}
  BY DEF Chains, Spans
<1> QED BY <1>1, <1>2, <1>3

LEMMA InstalledIsGreatest ==
    ASSUME NEW s \in Snapshots, \E k \in Copies : s[k] # Damaged
    PROVE  /\ Installed(s) \in 0..MaxHeight
           /\ \E k \in Copies : s[k] # Damaged /\ s[k] = Installed(s)
           /\ \A k \in Copies : s[k] # Damaged => s[k] <= Installed(s)
<1>1. PICK h \in {s[k] : k \in Copies} \ {Damaged} : \A k \in Copies : s[k] # Damaged => s[k] <= h
  BY StoreConstants DEF Snapshots, Copies
<1>2. /\ Installed(s) \in {s[k] : k \in Copies} \ {Damaged}
      /\ \A k \in Copies : s[k] # Damaged => s[k] <= Installed(s)
  BY <1>1 DEF Installed
<1> QED BY <1>2 DEF Snapshots

LEMMA NewestIsHighest ==
    ASSUME NEW c \in Checkpoints, \E k \in Copies : c[k] # Damaged
    PROVE  /\ Newest(c) \in Copies /\ c[Newest(c)] # Damaged /\ c[Newest(c)] \in Chains
           /\ \A k \in Copies : c[k] # Damaged => c[k].height <= c[Newest(c)].height
<1>1. \A k \in Copies : c[k] # Damaged => c[k] \in Chains /\ c[k].height \in 0..MaxHeight
  BY ChainShape DEF Checkpoints
<1>2. \E k \in Copies : c[k] # Damaged /\ (c[Other(k)] # Damaged => c[k].height >= c[Other(k)].height)
  BY <1>1, StoreConstants DEF Copies, Other
<1>3. /\ Newest(c) \in Copies /\ c[Newest(c)] # Damaged
      /\ c[Other(Newest(c))] # Damaged => c[Newest(c)].height >= c[Other(Newest(c))].height
  BY <1>2 DEF Newest
<1> QED BY <1>1, <1>3, StoreConstants DEF Copies, Other

LEMMA LastIsGreatest ==
    ASSUME NEW f \in Files, NEW checkpoint \in Chains, NEW base \in 0..MaxHeight
    PROVE  /\ LastHeight(f, checkpoint, base) \in KnownHeights(f, checkpoint, base)
           /\ LastHeight(f, checkpoint, base) \in 0..MaxHeight
           /\ \A i \in KnownHeights(f, checkpoint, base) : i <= LastHeight(f, checkpoint, base)
<1> DEFINE K == KnownHeights(f, checkpoint, base)
<1>1. K \in SUBSET (0..MaxHeight) /\ K # {}
  BY ChainShape, StoreConstants DEF KnownHeights, Heights
<1>2. \E x \in K : \A y \in K : y <= x
  BY <1>1, GreatestHeight, StoreConstants
<1>3. /\ LastHeight(f, checkpoint, base) \in K
      /\ \A i \in K : i <= LastHeight(f, checkpoint, base)
  BY <1>2 DEF LastHeight
<1> QED BY <1>1, <1>3

\* A load ends in a chain from the installed snapshot to the last height there
\* is, and of every block of it there is a copy.
LEMMA LoadedShape ==
    ASSUME NEW f \in Files, NEW c \in Checkpoints, NEW s \in Snapshots, Loadable(f, c, s)
    PROVE  LET loaded == LoadedChain(f, c, s)
           IN  /\ loaded \in Chains
               /\ loaded.base = Installed(s) /\ loaded.base \in 0..MaxHeight
               /\ loaded.height = LastHeight(f, c[Newest(c)], Installed(s))
               /\ loaded.base <= loaded.height
               /\ \A k \in Copies : c[k] # Damaged => c[k].height <= loaded.height
               /\ \A k \in Copies, h \in Heights : f[k][h] # Missing => h <= loaded.height
               /\ \A h \in Covered(loaded) :
                     /\ h \in Heights
                     /\ At(loaded, h) = Accepted(f, c[Newest(c)], Installed(s), h)
                     /\ \E k \in Copies : f[k][h] = At(loaded, h)
<1> DEFINE checkpoint == c[Newest(c)]
           base == Installed(s)
           last == LastHeight(f, checkpoint, base)
           loaded == LoadedChain(f, c, s)
<1>1. (\E k \in Copies : c[k] # Damaged) /\ (\E k \in Copies : s[k] # Damaged)
  BY DEF Loadable
<1>2. base \in 0..MaxHeight /\ checkpoint \in Chains
  BY <1>1, InstalledIsGreatest, NewestIsHighest
<1>3. last \in 0..MaxHeight /\ \A i \in KnownHeights(f, checkpoint, base) : i <= last
  BY <1>2, LastIsGreatest
<1>4. \A h \in (base + 1)..last : \E k \in Copies : Usable(f, checkpoint, base, k, h)
  BY DEF Loadable
<1>5. \A h \in (base + 1)..last : Accepted(f, checkpoint, base, h) \in Certs
  BY <1>4 DEF Accepted, Usable, Copies
<1>6. loaded = [base |-> base, height |-> last,
                certs |-> [h \in (base + 1)..last |-> Accepted(f, checkpoint, base, h)]]
  BY DEF LoadedChain
<1>7. loaded \in Chains
  BY <1>2, <1>3, <1>5, <1>6, ChainMade
<1>8. base <= last /\ checkpoint.height <= last
  BY <1>3 DEF KnownHeights
<1>9. \A k \in Copies : c[k] # Damaged => c[k].height <= last
  BY <1>1, <1>2, <1>3, <1>8, NewestIsHighest, ChainShape DEF Checkpoints
<1>10. \A k \in Copies, h \in Heights : f[k][h] # Missing => h <= last
  BY <1>3 DEF KnownHeights
<1>11. ASSUME NEW h \in Covered(loaded)
       PROVE  /\ h \in Heights
              /\ At(loaded, h) = Accepted(f, checkpoint, base, h)
              /\ \E k \in Copies : f[k][h] = At(loaded, h)
  <2>1. h \in (base + 1)..last /\ h \in Heights
    BY <1>2, <1>3, <1>6, StoreConstants DEF Covered, Heights
  <2>2. At(loaded, h) = Accepted(f, checkpoint, base, h)
    BY <1>6, <2>1 DEF At
  <2> QED BY <2>1, <2>2 DEF Accepted, Copies
<1> QED BY <1>2, <1>6, <1>7, <1>8, <1>9, <1>10, <1>11

-----------------------------------------------------------------------------
(* The store loads at every moment                                         *)

\* What a load takes from the files is what they agree on.
LEMMA LoadedTrue ==
    ASSUME TypeOK, NEW truth \in [Heights -> Certs], Faithful(truth),
           NEW s \in Snapshots, Loadable(files, checkpoints, s)
    PROVE  True(truth, LoadedChain(files, checkpoints, s))
<1> DEFINE loaded == LoadedChain(files, checkpoints, s)
<1>1. files \in Files /\ checkpoints \in Checkpoints
  BY DEF TypeOK, Files, Checkpoints
<1>2. ASSUME NEW h \in Covered(loaded) PROVE At(loaded, h) = truth[h]
  <2>1. h \in Heights /\ loaded \in Chains /\ \E k \in Copies : files[k][h] = At(loaded, h)
    BY <1>1, <1>2, LoadedShape
  <2>2. At(loaded, h) \in Certs
    BY <1>2, <2>1, ChainShape DEF At, Covered
  <2> QED BY <2>1, <2>2 DEF Faithful
<1> QED BY <1>2 DEF True

\* Two checkpoints of one height are the same.
LEMMA CheckpointsAgree ==
    ASSUME NEW truth \in [Heights -> Certs], NEW c \in Chains, NEW d \in Chains,
           True(truth, c), True(truth, d), c.base = d.base, c.height = d.height
    PROVE  c = d
<1>1. /\ c.certs \in [Covered(c) -> Certs] /\ d.certs \in [Covered(c) -> Certs]
      /\ c = [base |-> c.base, height |-> c.height, certs |-> c.certs]
      /\ d = [base |-> d.base, height |-> d.height, certs |-> d.certs]
  BY ChainShape DEF Covered
<1>2. \A h \in Covered(c) : c.certs[h] = truth[h] /\ d.certs[h] = truth[h]
  BY DEF True, At, Covered
<1>3. c.certs = d.certs
  BY <1>1, <1>2
<1> QED BY <1>1, <1>3

LEMMA StoreLoads ==
    ASSUME StoreInv
    PROVE  Loadable(files, checkpoints, snapshots)
<1> DEFINE checkpoint == checkpoints[Newest(checkpoints)]
           base == Installed(snapshots)
           last == LastHeight(files, checkpoint, base)
<1>1. files \in Files /\ checkpoints \in Checkpoints /\ snapshots \in Snapshots
  BY DEF StoreInv, TypeOK, Files, Checkpoints, Snapshots
<1>2. PICK truth \in [Heights -> Certs] : Faithful(truth)
  BY DEF StoreInv
<1>3. (\E k \in Copies : checkpoints[k] # Damaged) /\ (\E k \in Copies : snapshots[k] # Damaged)
  BY DEF StoreInv, Anchored
<1>4. ASSUME \A k \in Copies : checkpoints[k] # Damaged,
             checkpoints["primary"].height = checkpoints["backup"].height
      PROVE  checkpoints["primary"] = checkpoints["backup"]
  <2>1. /\ checkpoints["primary"] \in Chains /\ checkpoints["backup"] \in Chains
        /\ checkpoints["primary"] # Damaged /\ checkpoints["backup"] # Damaged
    BY <1>1, <1>4 DEF Checkpoints, Copies
  <2>2. \A k \in Copies : True(truth, checkpoints[k])
    BY <1>2, <1>4 DEF Faithful
  <2>3. /\ \A k, j \in Copies : checkpoints[k].base < checkpoints[j].base
                => checkpoints[k].height < checkpoints[j].base
        /\ \A k \in Copies : checkpoints[k].base <= checkpoints[k].height
    BY <1>3, <1>4 DEF StoreInv, Anchored, Older
  <2>4. checkpoints["primary"].base = checkpoints["backup"].base
    BY <1>4, <2>1, <2>3, ChainShape DEF Copies
  <2> QED BY <1>4, <2>1, <2>2, <2>4, CheckpointsAgree DEF Copies
<1>5. /\ base \in 0..MaxHeight /\ checkpoint \in Chains /\ checkpoint # Damaged
      /\ Newest(checkpoints) \in Copies
      /\ \E k \in Copies : snapshots[k] # Damaged /\ snapshots[k] = base
  BY <1>1, <1>3, InstalledIsGreatest, NewestIsHighest
<1>6. checkpoint.base > 0 => base > 0
  BY <1>5, ChainShape DEF StoreInv, Anchored, Older
<1>7. last \in 0..MaxHeight /\ last \in KnownHeights(files, checkpoint, base)
  BY <1>1, <1>5, LastIsGreatest
<1>8. last = base \/ Known(last)
  BY <1>5, <1>7, ChainShape DEF KnownHeights, Known
<1>9. ASSUME NEW h \in (base + 1)..last
      PROVE  \E k \in Copies : Usable(files, checkpoint, base, k, h)
  <2>1. h \in Heights /\ last \in Heights /\ base < h /\ h <= last /\ Known(last)
    BY <1>5, <1>7, <1>8, <1>9, StoreConstants DEF Heights
  <2>2. Intact(h)
    BY <1>5, <2>1 DEF StoreInv, Contiguous
  <2>3. PICK k \in Copies : files[k][h] \in Certs
    BY <2>2 DEF Intact
  <2>4. files[k][h] = truth[h]
    BY <1>2, <2>1, <2>3 DEF Faithful
  <2>5. h \in Covered(checkpoint) => At(checkpoint, h) = truth[h]
    BY <1>2, <1>5 DEF Faithful, True
  <2> QED BY <2>3, <2>4, <2>5 DEF Usable
<1> QED BY <1>3, <1>4, <1>6, <1>9 DEF Loadable

\* A load reaches every height that is known.
LEMMA LoadedHighest ==
    ASSUME StoreInv
    PROVE  LET loaded == LoadedChain(files, checkpoints, snapshots)
           IN  /\ loaded.height >= acked
               /\ \A h \in Heights : Known(h) => h <= loaded.height
<1> DEFINE loaded == LoadedChain(files, checkpoints, snapshots)
<1>1. /\ files \in Files /\ checkpoints \in Checkpoints /\ snapshots \in Snapshots
      /\ acked \in 0..MaxHeight
  BY DEF StoreInv, TypeOK, Files, Checkpoints, Snapshots
<1>2. Loadable(files, checkpoints, snapshots)
  BY StoreLoads
<1>3. /\ loaded \in Chains /\ loaded.base = Installed(snapshots) /\ loaded.base <= loaded.height
      /\ \A k \in Copies : checkpoints[k] # Damaged => checkpoints[k].height <= loaded.height
      /\ \A k \in Copies, h \in Heights : files[k][h] # Missing => h <= loaded.height
  BY <1>1, <1>2, LoadedShape
<1>4. loaded.base \in 0..MaxHeight /\ loaded.height \in 0..MaxHeight
  BY <1>3, ChainShape
<1>5. PICK j \in Copies : snapshots[j] # Damaged /\ snapshots[j] = loaded.base
  BY <1>1, <1>3, InstalledIsGreatest DEF StoreInv, Anchored
<1>6. loaded.height >= acked
  <2>1. CASE acked <= loaded.base
    BY <1>1, <1>3, <1>4, <2>1, StoreConstants
  <2>2. CASE loaded.base < acked
    <3>1. acked \in Heights /\ Known(acked)
      BY <1>1, <1>4, <2>2, StoreConstants DEF Heights, Known
    <3>2. Intact(acked)
      BY <1>5, <2>2, <3>1 DEF StoreInv, Contiguous, Heights
    <3> QED BY <1>3, <3>1, <3>2, StoreConstants DEF Intact
  <2> QED BY <1>1, <1>4, <2>1, <2>2
<1>7. ASSUME NEW h \in Heights, Known(h) PROVE h <= loaded.height
  <2>1. \A k \in Copies : checkpoints[k] # Damaged => checkpoints[k].height \in 0..MaxHeight
    BY <1>1, ChainShape DEF Checkpoints
  <2> QED BY <1>1, <1>3, <1>4, <1>6, <1>7, <2>1 DEF Known, Heights
<1> QED BY <1>6, <1>7

\* The property, of the states of the invariant.
LEMMA StoreInvRecoverable ==
    ASSUME StoreInv
    PROVE  Recoverable
BY StoreLoads, LoadedHighest DEF Recoverable

-----------------------------------------------------------------------------
(* The steps of the store                                                  *)

\* Once an operation has written its blocks every one of them is there.
LEMMA CoveredIntact ==
    ASSUME StoreInv, pending # Idle, pending.snapshots = {},
           NEW h \in Covered(pending.chain), \A k \in Copies : <<k, h>> \notin pending.blocks
    PROVE  h \in Heights /\ Intact(h)
<1>1. Ahead /\ Top = pending.chain /\ pending.chain \in Chains
  BY DEF StoreInv, Ahead, Top
<1>2. h \in Heights /\ pending.chain.base < h
  BY <1>1, ChainShape, StoreConstants DEF Covered, Heights
<1>3. \A k \in Copies : files[k][h] \in Certs \cup {Damaged}
  <2>1. \A k \in Copies : files[k][h] \in Certs \cup {Missing, Damaged}
    BY <1>2 DEF StoreInv, TypeOK
  <2>2. \A k \in Copies : files[k][h] # Missing
    BY <1>1 DEF Ahead
  <2> QED BY <2>1, <2>2
<1>4. CASE \E k \in Copies : files[k][h] \in Certs
  BY <1>2, <1>4 DEF Intact
<1>5. CASE \A k \in Copies : files[k][h] = Damaged
  <2>1. Known(h)
    BY <1>2, <1>5 DEF StoreInv, Anchored, Known, Copies
  <2>2. PICK k \in Copies : snapshots[k] # Damaged
    BY DEF StoreInv, Anchored
  <2>3. snapshots[k] = pending.chain.base
    BY <1>1, <2>2 DEF Ahead
  <2> QED BY <1>2, <2>1, <2>2, <2>3 DEF StoreInv, Contiguous, Heights
<1> QED BY <1>3, <1>4, <1>5

\* A chain covers its heights only: the bounds of a chain with base and height.
LEMMA CoveredHeights ==
    ASSUME NEW c \in Chains
    PROVE  \A h \in Covered(c) : h \in Heights /\ c.base < h /\ h <= c.height /\ At(c, h) \in Certs
BY ChainShape, StoreConstants DEF Covered, Heights, At

\* A load is an operation that keeps the invariant.
LEMMA LoadingTyped ==
    ASSUME NEW f \in Files, NEW c \in Checkpoints, NEW s \in Snapshots, Loadable(f, c, s),
           NEW op \in {"load", "install", "prune"}
    PROVE  Loading(op, f, c, s) \in Operations
<1> DEFINE loaded == LoadedChain(f, c, s)
<1>1. loaded \in Chains /\ loaded.base \in 0..MaxHeight
  BY LoadedShape
<1>2. Repairs(f, loaded) \in SUBSET (Copies \X Heights)
  BY <1>1, CoveredHeights DEF Repairs
<1>3. SnapshotRepairs(s) \in SUBSET Copies
  BY DEF SnapshotRepairs
<1> HIDE DEF loaded
<1> QED BY <1>1, <1>2, <1>3 DEF Loading, Operations, loaded

LEMMA LoadingKeeps ==
    ASSUME StoreInv, pending = Idle, chain = Stopped, NEW op \in {"load", "prune"},
           Begin(Loading(op, files, checkpoints, snapshots))
    PROVE  StoreInv'
<1> DEFINE loaded == LoadedChain(files, checkpoints, snapshots)
<1>1. files \in Files /\ checkpoints \in Checkpoints /\ snapshots \in Snapshots
  BY DEF StoreInv, TypeOK, Files, Checkpoints, Snapshots
<1>2. Loadable(files, checkpoints, snapshots)
  BY StoreLoads
<1>3. /\ loaded \in Chains /\ loaded.base <= loaded.height
      /\ loaded.base \in 0..MaxHeight /\ loaded.base = Installed(snapshots)
  BY <1>1, <1>2, LoadedShape
<1>4. /\ pending' = [op |-> op, chain |-> loaded,
                     snapshot |-> loaded.base, snapshots |-> SnapshotRepairs(snapshots),
                     blocks |-> Repairs(files, loaded),
                     checkpoint |-> Unhashed, checkpoints |-> Copies]
      /\ UNCHANGED <<files, checkpoints, snapshots, chain, digests, acked>>
  BY DEF Begin, Loading
<1>5. pending' \in Operations /\ pending' # Idle
  BY <1>1, <1>2, LoadingTyped, StoreConstants DEF Begin
<1> HIDE DEF loaded
<1>6. TypeOK'
  BY <1>4, <1>5 DEF StoreInv, TypeOK
<1>7. \E truth \in [Heights -> Certs] : Faithful(truth)'
  <2>1. PICK truth \in [Heights -> Certs] : Faithful(truth)
    BY DEF StoreInv
  <2>2. True(truth, loaded)
    BY <1>1, <1>2, <2>1, LoadedTrue DEF StoreInv, loaded
  <2>3. Faithful(truth)'
    BY <1>4, <2>1, <2>2 DEF Faithful
  <2> QED BY <2>3
<1>8. Contiguous' /\ Anchored'
  BY <1>4 DEF StoreInv, Contiguous, Anchored, Known, Intact
<1>9. Ahead'
  <2>1. Top' = loaded
    BY <1>4, <1>5 DEF Top
  <2>2. \A h \in Heights : Known(h)' => h <= loaded.height
    BY <1>4, LoadedHighest DEF Known, loaded
  <2>3. PICK j \in Copies : snapshots[j] # Damaged /\ snapshots[j] = loaded.base
    BY <1>1, <1>3, InstalledIsGreatest DEF StoreInv, Anchored
  <2>4. \A k \in Copies : Older(checkpoints[k], loaded.base)
    BY <2>3 DEF StoreInv, Anchored
  <2>5. ASSUME NEW k \in Copies, NEW h \in Covered(loaded), files[k][h] = Missing
        PROVE  <<k, h>> \in Repairs(files, loaded)
    BY <1>3, <2>5, CoveredHeights, StoreConstants DEF Repairs
  <2>6. ASSUME NEW k \in Copies, snapshots[k] \notin {loaded.base, Damaged}
        PROVE  k \in SnapshotRepairs(snapshots) /\ snapshots[k] <= loaded.base
    BY <1>1, <1>3, <2>3, <2>6, InstalledIsGreatest DEF SnapshotRepairs
  <2> QED BY <1>3, <1>4, <1>5, <2>1, <2>2, <2>4, <2>5, <2>6 DEF Ahead
<1>10. Ordered'
  <2>1. Repairs(files, loaded) \subseteq Copies \X Covered(loaded)
    BY DEF Repairs
  <2> QED BY <1>4, <2>1 DEF Ordered, Copies
<1> QED BY <1>6, <1>7, <1>8, <1>9, <1>10 DEF StoreInv

LEMMA PersistKeeps ==
    ASSUME StoreInv, Hashed, command = Idle, NEW cert \in Certs, persistBlock(cert)
    PROVE  StoreInv'
<1> DEFINE h == chain.height + 1
           grown == [i \in (chain.base + 1)..h |-> IF i = h THEN cert ELSE At(chain, i)]
           new == [base |-> chain.base, height |-> h, certs |-> grown]
           missing == {b \in Copies \X {h} : files[b[1]][h] # cert}
<1>1. pending = Idle /\ chain # Stopped /\ chain.height < MaxHeight
  BY DEF persistBlock, Begin
<1>2. Ahead /\ Top = chain /\ chain \in Chains /\ chain.base <= chain.height
  BY <1>1 DEF StoreInv, Ahead, Top
<1>3. chain.base \in 0..MaxHeight /\ chain.height \in 0..MaxHeight /\ h \in Heights /\ h \in 0..MaxHeight
  BY <1>1, <1>2, ChainShape, StoreConstants DEF Heights
<1>4. /\ pending' = [op |-> "persist", chain |-> new, snapshot |-> chain.base, snapshots |-> {},
                     blocks |-> missing, checkpoint |-> Unhashed, checkpoints |-> Copies]
      /\ UNCHANGED <<files, checkpoints, snapshots, chain, digests, acked>>
  BY DEF persistBlock, Begin
<1>5. grown \in [(chain.base + 1)..h -> Certs]
  <2>1. ASSUME NEW i \in (chain.base + 1)..h, i # h PROVE At(chain, i) \in Certs
    <3>1. i \in Covered(chain)
      BY <1>2, <1>3, <2>1 DEF Covered
    <3> QED BY <1>2, <3>1, CoveredHeights
  <2> QED BY <2>1
<1>6. new \in Chains
  BY <1>3, <1>5, ChainMade
<1>7. new.base = chain.base /\ new.height = h /\ new.certs = grown
  OBVIOUS
<1>8. \A i \in Covered(new) :
          /\ i \in Heights /\ (i = h \/ i \in Covered(chain))
          /\ At(new, i) = IF i = h THEN cert ELSE At(chain, i)
  BY <1>3, <1>6, CoveredHeights DEF Covered, At
<1>9. missing \in SUBSET (Copies \X Heights) /\ missing \subseteq Copies \X Covered(new)
  BY <1>2, <1>3 DEF Covered
<1> HIDE DEF new, missing
<1>10. pending' \in Operations /\ pending' # Idle
  BY <1>3, <1>4, <1>6, <1>9, StoreConstants DEF Operations, Copies
<1>11. \A i \in Heights : Known(i) => i # h
  BY <1>2, <1>3 DEF Ahead
<1>12. TypeOK'
  BY <1>4, <1>10 DEF StoreInv, TypeOK
<1>13. \E truth \in [Heights -> Certs] : Faithful(truth)'
  <2>1. PICK old \in [Heights -> Certs] : Faithful(old)
    BY DEF StoreInv
  <2>2. PICK truth \in [Heights -> Certs] :
            truth[h] = cert /\ \A i \in Heights : i # h => truth[i] = old[i]
    <3>1. [old EXCEPT ![h] = cert] \in [Heights -> Certs]
      OBVIOUS
    <3> QED BY <1>3, <3>1
  <2> HIDE DEF h
  <2>3. \A k \in Copies, i \in Heights : files[k][i] \in Certs => files[k][i] = truth[i]
    BY <1>11, <2>1, <2>2, StoreConstants DEF Faithful, Known
  <2>4. ASSUME NEW k \in Copies, checkpoints[k] # Damaged PROVE True(truth, checkpoints[k])
    <3>1. checkpoints[k] \in Chains
      BY <2>4 DEF StoreInv, TypeOK
    <3>2. \A i \in Covered(checkpoints[k]) : i \in Heights /\ Known(i)
      BY <2>4, <3>1, CoveredHeights DEF Known
    <3> QED BY <1>11, <2>1, <2>2, <2>4, <3>2 DEF Faithful, True
  <2>5. True(truth, chain) /\ True(truth, new)
    <3>1. \A i \in Covered(chain) : i \in Heights /\ i # h /\ At(chain, i) = old[i]
      BY <1>1, <1>2, <1>3, <2>1, CoveredHeights DEF Faithful, True, h
    <3> QED BY <1>8, <2>2, <3>1 DEF True
  <2>6. ASSUME NEW i \in Heights PROVE digests[i] \in {Unhashed, truth[i]}
    <3>1. digests[i] # Unhashed => i # h
      BY <1>1, <1>2, <1>3 DEF Hashed, h
    <3> QED BY <2>1, <2>2, <3>1 DEF Faithful
  <2>7. Faithful(truth)'
    BY <1>4, <2>3, <2>4, <2>5, <2>6 DEF Faithful
  <2> QED BY <2>2, <2>7
<1>14. Contiguous' /\ Anchored'
  BY <1>4 DEF StoreInv, Contiguous, Anchored, Known, Intact
<1>15. Ahead'
  <2>1. Top' = new
    BY <1>4, <1>10 DEF Top
  <2>2. \A i \in Heights : Known(i)' => i <= h
    BY <1>2, <1>3, <1>4 DEF Ahead, Known, Heights
  <2>3. \A k \in Copies : Older(checkpoints[k], chain.base)
    BY <1>2 DEF Ahead
  <2>4. ASSUME NEW k \in Copies, NEW i \in Covered(new), files[k][i] = Missing
        PROVE  <<k, i>> \in missing
    <3>1. i \notin Covered(chain)
      BY <1>1, <1>2, <2>4 DEF Ahead
    <3> QED BY <1>8, <2>4, <3>1, StoreConstants DEF missing
  <2>5. \A k \in Copies : snapshots[k] \in {chain.base, Damaged}
    BY <1>1, <1>2 DEF Ahead
  <2> QED BY <1>2, <1>3, <1>4, <1>6, <1>7, <1>10, <2>1, <2>2, <2>3, <2>4, <2>5 DEF Ahead
<1>16. Ordered'
  BY <1>4, <1>7, <1>9 DEF Ordered, Copies
<1> QED BY <1>12, <1>13, <1>14, <1>15, <1>16 DEF StoreInv

\* Every intact checkpoint ends within the chain of the process.
LEMMA CheckpointsBelow ==
    ASSUME TypeOK, Ahead
    PROVE  \A k \in Copies : checkpoints[k] # Damaged =>
               checkpoints[k].height \in 0..MaxHeight /\ checkpoints[k].height <= Top.height
<1> SUFFICES ASSUME NEW k \in Copies, checkpoints[k] # Damaged
             PROVE  checkpoints[k].height \in 0..MaxHeight /\ checkpoints[k].height <= Top.height
  OBVIOUS
<1>1. checkpoints[k].height \in 0..MaxHeight /\ Top.height \in 0..MaxHeight
  BY ChainShape DEF TypeOK, Ahead
<1>2. CASE checkpoints[k].height = 0
  BY <1>1, <1>2
<1>3. CASE checkpoints[k].height # 0
  <2>1. checkpoints[k].height \in Heights /\ Known(checkpoints[k].height)
    BY <1>1, <1>3, StoreConstants DEF Heights, Known
  <2> QED BY <1>1, <2>1 DEF Ahead
<1> QED BY <1>2, <1>3

LEMMA InstallKeeps ==
    ASSUME StoreInv, NEW h \in Heights, installStateSnapshotCandidates(h)
    PROVE  /\ StoreInv'
           /\ pending' # Idle /\ pending'.op = "install" /\ pending'.chain.height = h
<1> DEFINE s == [k \in Copies |-> h]
           loaded == LoadedChain(files, checkpoints, s)
           checkpoint == checkpoints[Newest(checkpoints)]
<1>1. /\ pending = Idle /\ chain # Stopped /\ h > chain.height
      /\ pending' = Installing("install", h)
      /\ UNCHANGED <<files, checkpoints, snapshots, chain, digests, acked>>
  BY DEF installStateSnapshotCandidates, Begin
<1>2. Ahead /\ Top = chain /\ chain \in Chains /\ chain.base <= chain.height
  BY <1>1 DEF StoreInv, Ahead, Top
<1>3. chain.base \in 0..MaxHeight /\ chain.height \in 0..MaxHeight /\ h \in 0..MaxHeight /\ h > 0
  BY <1>2, ChainShape, StoreConstants DEF Heights
<1>4. files \in Files /\ checkpoints \in Checkpoints /\ s \in Snapshots
  BY <1>3 DEF StoreInv, TypeOK, Files, Checkpoints, Snapshots
<1>5. \E k \in Copies : s[k] # Damaged
  BY <1>3, StoreConstants DEF Copies
<1>6. Installed(s) = h
  <2>1. \E k \in Copies : s[k] = Installed(s)
    BY <1>4, <1>5, InstalledIsGreatest
  <2> QED BY <2>1
<1>7. checkpoint \in Chains /\ checkpoint # Damaged /\ Newest(checkpoints) \in Copies
  BY <1>4, NewestIsHighest DEF StoreInv, Anchored
<1>8. \A k \in Copies : checkpoints[k] # Damaged =>
          checkpoints[k].height \in 0..MaxHeight /\ checkpoints[k].height < h
  BY <1>1, <1>2, <1>3, CheckpointsBelow DEF StoreInv
<1>9. \A k \in Copies, i \in Heights : files[k][i] # Missing => i < h
  BY <1>1, <1>2, <1>3 DEF Ahead, Known, Heights
<1>10. LastHeight(files, checkpoint, h) = h
  <2>1. \A i \in KnownHeights(files, checkpoint, h) : i \in 0..MaxHeight /\ i <= h
    BY <1>3, <1>7, <1>8, <1>9, StoreConstants DEF KnownHeights, Heights
  <2>2. /\ LastHeight(files, checkpoint, h) \in KnownHeights(files, checkpoint, h)
        /\ \A i \in KnownHeights(files, checkpoint, h) : i <= LastHeight(files, checkpoint, h)
    BY <1>3, <1>4, <1>7, LastIsGreatest
  <2>3. h \in KnownHeights(files, checkpoint, h)
    BY DEF KnownHeights
  <2> QED BY <1>3, <2>1, <2>2, <2>3
<1>11. Loadable(files, checkpoints, s)
  <2>1. Loadable(files, checkpoints, snapshots)
    BY StoreLoads
  <2>2. \A i \in (h + 1)..h : FALSE
    BY <1>3
  <2> QED BY <1>3, <1>5, <1>6, <1>10, <2>1, <2>2 DEF Loadable
<1>12. loaded \in Chains /\ loaded.base = h /\ loaded.height = h /\ Covered(loaded) = {}
  <2>1. loaded \in Chains /\ loaded.base = h /\ loaded.height = h
    BY <1>4, <1>6, <1>10, <1>11, LoadedShape
  <2> QED BY <1>3, <2>1 DEF Covered
<1>13. Repairs(files, loaded) = {}
  BY <1>12 DEF Repairs
<1>14. pending' = [Loading("install", files, checkpoints, s) EXCEPT !.snapshots = Copies]
  BY <1>1, <1>11 DEF Installing
<1>15. pending' \in Operations /\ pending' # Idle
  <2>1. Loading("install", files, checkpoints, s) \in Operations
    BY <1>4, <1>11, LoadingTyped
  <2> HIDE DEF s
  <2> QED BY <1>14, <2>1, StoreConstants DEF Operations
<1>16. pending' = [op |-> "install", chain |-> loaded, snapshot |-> h, snapshots |-> Copies,
                   blocks |-> {}, checkpoint |-> Unhashed, checkpoints |-> Copies]
  BY <1>12, <1>13, <1>14 DEF Loading
<1> HIDE DEF loaded
<1>17. TypeOK'
  BY <1>1, <1>15 DEF StoreInv, TypeOK
<1>18. \E truth \in [Heights -> Certs] : Faithful(truth)'
  <2>1. PICK truth \in [Heights -> Certs] : Faithful(truth)
    BY DEF StoreInv
  <2>2. True(truth, loaded)
    BY <1>12 DEF True
  <2>3. Faithful(truth)'
    BY <1>1, <1>16, <2>1, <2>2 DEF Faithful
  <2> QED BY <2>3
<1>19. Contiguous' /\ Anchored'
  BY <1>1 DEF StoreInv, Contiguous, Anchored, Known, Intact
<1>20. Ahead'
  <2>1. Top' = loaded
    BY <1>15, <1>16 DEF Top
  <2>2. \A i \in Heights : Known(i)' => i <= h
    BY <1>1, <1>2, <1>3 DEF Ahead, Known, Heights
  <2>3. ASSUME NEW k \in Copies PROVE Older(checkpoints[k], h)
    <3>1. Older(checkpoints[k], chain.base)
      BY <1>2 DEF Ahead
    <3>2. checkpoints[k] # Damaged => checkpoints[k].base \in 0..MaxHeight
      BY ChainShape DEF StoreInv, TypeOK
    <3> QED BY <1>1, <1>2, <1>3, <1>8, <3>1, <3>2 DEF Older
  <2>4. \A k \in Copies : snapshots[k] = Damaged \/ snapshots[k] <= h
    BY <1>1, <1>2, <1>3 DEF Ahead
  <2> QED BY <1>1, <1>3, <1>12, <1>15, <1>16, <2>1, <2>2, <2>3, <2>4 DEF Ahead
<1>21. Ordered'
  BY <1>12, <1>16 DEF Ordered, Copies
<1> QED BY <1>12, <1>15, <1>16, <1>17, <1>18, <1>19, <1>20, <1>21 DEF StoreInv

LEMMA WriteSnapshotKeeps ==
    ASSUME StoreInv, WriteSnapshot
    PROVE  /\ StoreInv'
           /\ pending' # Idle /\ pending'.chain = pending.chain /\ pending'.op = pending.op
           /\ \A k \in Copies : snapshots'[k] \in {snapshots[k], pending.chain.base}
<1>1. /\ pending # Idle /\ pending.snapshots # {}
      /\ UNCHANGED <<files, checkpoints, chain, digests, acked>>
  BY DEF WriteSnapshot
<1>2. pending \in Operations /\ pending.snapshots \in SUBSET Copies
  BY <1>1 DEF StoreInv, TypeOK, Operations
<1>3. PICK k \in pending.snapshots :
          /\ snapshots' = [snapshots EXCEPT ![k] = pending.snapshot]
          /\ pending' = [pending EXCEPT !.snapshots = @ \ {k}]
  BY <1>1, <1>2 DEF WriteSnapshot, First, Other, Copies
<1>4. Ahead /\ Top = pending.chain /\ pending.chain \in Chains /\ pending.snapshot = pending.chain.base
  BY <1>1 DEF StoreInv, Ahead, Top, Ordered
<1>5. pending.chain.base \in 0..MaxHeight /\ k \in Copies
  BY <1>2, <1>4, ChainShape
<1>6. pending' \in Operations /\ pending' # Idle
  BY <1>2, <1>3, StoreConstants DEF Operations
<1>7. /\ pending'.chain = pending.chain /\ pending'.op = pending.op
      /\ pending'.snapshot = pending.snapshot /\ pending'.snapshots = pending.snapshots \ {k}
      /\ pending'.blocks = pending.blocks /\ pending'.checkpoint = pending.checkpoint
      /\ pending'.checkpoints = pending.checkpoints
  BY <1>2, <1>3 DEF Operations
<1>8. \A j \in Copies : snapshots'[j] = IF j = k THEN pending.chain.base ELSE snapshots[j]
  BY <1>3, <1>4 DEF StoreInv, TypeOK
<1>9. TypeOK'
  BY <1>1, <1>3, <1>4, <1>5, <1>6 DEF StoreInv, TypeOK
<1>10. \E truth \in [Heights -> Certs] : Faithful(truth)'
  BY <1>1, <1>6, <1>7 DEF StoreInv, Faithful
<1>11. Contiguous'
  <2> SUFFICES ASSUME NEW j \in Copies, snapshots'[j] # Damaged,
                      NEW g \in Heights, NEW h \in Heights,
                      snapshots'[j] < h, h <= g, Known(g)'
               PROVE  Intact(h)'
    BY DEF Contiguous
  <2>1. Known(g) /\ (Intact(h) => Intact(h)')
    BY <1>1 DEF Known, Intact
  <2>2. PICK i \in Copies : snapshots[i] # Damaged
    BY DEF StoreInv, Anchored
  <2>3. snapshots[i] <= pending.chain.base /\ snapshots[i] \in 0..MaxHeight
    BY <1>4, <1>5, <2>2 DEF Ahead, StoreInv, TypeOK
  <2>4. CASE j = k
    BY <1>5, <1>8, <2>1, <2>2, <2>3, <2>4 DEF StoreInv, Contiguous, Heights
  <2>5. CASE j # k
    BY <1>8, <2>1, <2>5 DEF StoreInv, Contiguous
  <2> QED BY <2>4, <2>5
<1>12. Anchored'
  <2>1. \E j \in Copies : snapshots'[j] # Damaged
    BY <1>5, <1>8, StoreConstants
  <2>2. \A i, j \in Copies : snapshots'[j] # Damaged => Older(checkpoints[i], snapshots'[j])
    BY <1>4, <1>8 DEF StoreInv, Anchored, Ahead
  <2> QED BY <1>1, <2>1, <2>2 DEF StoreInv, Anchored
<1>13. Ahead'
  <2>1. Top' = Top
    BY <1>4, <1>6, <1>7 DEF Top
  <2>2. \A h \in Heights : Known(h)' = Known(h)
    BY <1>1 DEF Known
  <2> HIDE DEF Known
  <2> QED BY <1>1, <1>4, <1>6, <1>7, <1>8, <2>1, <2>2 DEF Ahead
<1>14. Ordered'
  BY <1>1, <1>7 DEF StoreInv, Ordered
<1>15. \A j \in Copies : snapshots'[j] \in {snapshots[j], pending.chain.base}
  BY <1>8
<1> QED BY <1>6, <1>7, <1>9, <1>10, <1>11, <1>12, <1>13, <1>14, <1>15 DEF StoreInv

LEMMA WriteBlockKeeps ==
    ASSUME StoreInv, WriteBlock
    PROVE  /\ StoreInv'
           /\ pending' # Idle /\ pending'.chain = pending.chain /\ pending'.op = pending.op
           /\ \A k \in Copies, h \in Heights :
                 h <= pending.chain.base => files'[k][h] = files[k][h]
<1>1. /\ pending # Idle /\ pending.snapshots = {}
      /\ UNCHANGED <<checkpoints, snapshots, chain, digests, acked>>
  BY DEF WriteBlock
<1>2. pending \in Operations
  BY <1>1 DEF StoreInv, TypeOK
<1>3. PICK b \in pending.blocks :
          /\ \A other \in pending.blocks : other = b \/ other[2] > b[2] \/ other[2] = b[2]
          /\ files' = [files EXCEPT ![b[1]][b[2]] = At(pending.chain, b[2])]
          /\ pending' = [pending EXCEPT !.blocks = @ \ {b}]
  BY DEF WriteBlock
<1>4. /\ Ahead /\ Top = pending.chain /\ pending.chain \in Chains
      /\ pending.blocks \subseteq Copies \X Covered(pending.chain)
  BY <1>1 DEF StoreInv, Ahead, Top, Ordered
<1> DEFINE k == b[1]
           t == b[2]
<1>5. k \in Copies /\ t \in Covered(pending.chain) /\ b = <<k, t>>
  BY <1>3, <1>4
<1>6. /\ t \in Heights /\ pending.chain.base < t /\ t <= pending.chain.height
      /\ At(pending.chain, t) \in Certs
  BY <1>4, <1>5, CoveredHeights
<1>7. pending.chain.base \in 0..MaxHeight /\ pending.chain.height \in 0..MaxHeight
  BY <1>4, ChainShape
<1>8. pending' \in Operations /\ pending' # Idle
  BY <1>2, <1>3, StoreConstants DEF Operations
<1>9. /\ pending'.chain = pending.chain /\ pending'.op = pending.op
      /\ pending'.snapshot = pending.snapshot /\ pending'.snapshots = pending.snapshots
      /\ pending'.blocks = pending.blocks \ {b} /\ pending'.checkpoint = pending.checkpoint
      /\ pending'.checkpoints = pending.checkpoints
  BY <1>2, <1>3 DEF Operations
<1> HIDE DEF k, t
<1>10. \A j \in Copies, h \in Heights :
          files'[j][h] = IF j = k /\ h = t THEN At(pending.chain, t) ELSE files[j][h]
  BY <1>3, <1>5, <1>6 DEF StoreInv, TypeOK, k, t
<1>11. TypeOK'
  <2>1. files' \in [Copies -> [Heights -> Certs \cup {Missing, Damaged}]]
    BY <1>3, <1>5, <1>6 DEF StoreInv, TypeOK, k, t
  <2> QED BY <1>1, <1>8, <2>1 DEF StoreInv, TypeOK
<1>12. \E truth \in [Heights -> Certs] : Faithful(truth)'
  <2>1. PICK truth \in [Heights -> Certs] : Faithful(truth)
    BY DEF StoreInv
  <2>2. At(pending.chain, t) = truth[t]
    BY <1>1, <1>5, <2>1 DEF Faithful, True
  <2>3. \A j \in Copies, h \in Heights : files'[j][h] \in Certs => files'[j][h] = truth[h]
    BY <1>10, <2>1, <2>2 DEF Faithful
  <2>4. Faithful(truth)'
    BY <1>1, <1>8, <1>9, <2>1, <2>3 DEF Faithful
  <2> QED BY <2>4
<1>13. \A h \in Heights : Intact(h) => Intact(h)'
  BY <1>6, <1>10 DEF Intact
<1>14. Intact(t)'
  BY <1>5, <1>6, <1>10 DEF Intact
<1>15. \A g \in Heights : Known(g)' => Known(g) \/ g = t
  BY <1>1, <1>10 DEF Known
<1>16. Contiguous'
  <2> SUFFICES ASSUME NEW j \in Copies, snapshots'[j] # Damaged,
                      NEW g \in Heights, NEW h \in Heights,
                      snapshots'[j] < h, h <= g, Known(g)'
               PROVE  Intact(h)'
    BY DEF Contiguous
  <2>1. CASE Known(g)
    BY <1>1, <1>13, <2>1 DEF StoreInv, Contiguous
  <2>2. CASE h = t
    BY <1>14, <2>2
  <2>3. CASE g = t /\ h # t
    <3>1. h < t /\ snapshots[j] = pending.chain.base
      BY <1>1, <1>4, <2>3 DEF Ahead, Heights
    <3>2. h \in Covered(pending.chain)
      BY <1>1, <1>6, <1>7, <3>1 DEF Covered, Heights
    <3>3. \A i \in Copies : <<i, h>> \notin pending.blocks
      BY <1>3, <1>6, <3>1 DEF Heights, t
    <3> QED BY <1>1, <1>13, <3>2, <3>3, CoveredIntact
  <2> QED BY <1>15, <2>1, <2>2, <2>3
<1>17. Anchored'
  <2>1. \A j \in Copies, h \in Heights : files'[j][h] = Damaged => h <= acked
    BY <1>6, <1>10, StoreConstants DEF StoreInv, Anchored
  <2> QED BY <1>1, <2>1 DEF StoreInv, Anchored
<1>18. Ahead'
  <2>1. Top' = Top
    BY <1>4, <1>8, <1>9 DEF Top
  <2>2. \A h \in Heights : Known(h)' => h <= Top.height
    BY <1>4, <1>6, <1>15 DEF Ahead
  <2>3. ASSUME NEW j \in Copies, NEW h \in Covered(pending.chain), files'[j][h] = Missing
        PROVE  <<j, h>> \in pending.blocks \ {b}
    BY <1>1, <1>4, <1>5, <1>6, <1>10, <2>3, CoveredHeights, StoreConstants DEF Ahead
  <2> QED BY <1>1, <1>4, <1>8, <1>9, <2>1, <2>2, <2>3 DEF Ahead
<1>19. Ordered'
  BY <1>1, <1>3, <1>9 DEF StoreInv, Ordered
<1>20. \A j \in Copies, h \in Heights : h <= pending.chain.base => files'[j][h] = files[j][h]
  BY <1>6, <1>7, <1>10 DEF Heights
<1> QED BY <1>8, <1>9, <1>11, <1>12, <1>16, <1>17, <1>18, <1>19, <1>20 DEF StoreInv

LEMMA CreateCheckpointKeeps ==
    ASSUME StoreInv, createCheckpoint
    PROVE  /\ StoreInv'
           /\ pending' # Idle /\ pending'.chain = pending.chain /\ pending'.op = pending.op
           /\ \A h \in Heights : digests'[h] # Unhashed =>
                 digests[h] # Unhashed \/ h <= pending.chain.height
<1> DEFINE hashes == [h \in Covered(pending.chain) |-> digests'[h]]
<1>1. /\ pending # Idle /\ pending.snapshots = {} /\ pending.blocks = {}
      /\ pending' = [pending EXCEPT !.checkpoint = [pending.chain EXCEPT !.certs = hashes]]
      /\ digests' = [h \in Heights |->
                        IF digests[h] = Unhashed /\ h \in Covered(pending.chain)
                        THEN At(pending.chain, h) ELSE digests[h]]
      /\ UNCHANGED <<files, checkpoints, snapshots, chain, acked>>
  BY DEF createCheckpoint
<1>2. pending \in Operations
  BY <1>1 DEF StoreInv, TypeOK
<1>3. Ahead /\ Top = pending.chain /\ pending.chain \in Chains
  BY <1>1 DEF StoreInv, Ahead, Top
<1>4. PICK truth \in [Heights -> Certs] : Faithful(truth)
  BY DEF StoreInv
<1>5. \A h \in Covered(pending.chain) :
          h \in Heights /\ h <= pending.chain.height /\ At(pending.chain, h) = truth[h] /\ truth[h] # Unhashed
  BY <1>1, <1>3, <1>4, CoveredHeights, StoreConstants DEF Faithful, True
<1>6. \A h \in Heights : digests[h] \in {Unhashed, truth[h]}
  BY <1>4 DEF Faithful
<1>7. \A h \in Heights : digests'[h] \in {Unhashed, truth[h]}
  BY <1>1, <1>5, <1>6
<1>8. \A h \in Covered(pending.chain) : digests'[h] = At(pending.chain, h)
  BY <1>1, <1>5, <1>6
<1>9. [pending.chain EXCEPT !.certs = hashes] = pending.chain
  <2>1. /\ pending.chain.certs \in [Covered(pending.chain) -> Certs]
        /\ pending.chain = [base |-> pending.chain.base, height |-> pending.chain.height,
                            certs |-> pending.chain.certs]
    BY <1>3, ChainShape
  <2>2. hashes = pending.chain.certs
    BY <1>8, <2>1 DEF At
  <2> QED BY <2>1, <2>2
<1>10. pending' = [pending EXCEPT !.checkpoint = pending.chain]
  BY <1>1, <1>9
<1>11. /\ pending'.chain = pending.chain /\ pending'.op = pending.op
       /\ pending'.snapshot = pending.snapshot /\ pending'.snapshots = pending.snapshots
       /\ pending'.blocks = pending.blocks /\ pending'.checkpoint = pending.chain
       /\ pending'.checkpoints = pending.checkpoints
  BY <1>2, <1>10 DEF Operations
<1>12. pending' \in Operations /\ pending' # Idle
  BY <1>2, <1>3, <1>10, StoreConstants DEF Operations
<1>13. TypeOK'
  <2>1. digests' \in [Heights -> Certs \cup {Unhashed}]
    BY <1>1, <1>5, <1>6
  <2> QED BY <1>1, <1>12, <2>1 DEF StoreInv, TypeOK
<1>14. Faithful(truth)'
  BY <1>1, <1>4, <1>7, <1>11, <1>12 DEF Faithful
<1>15. Contiguous' /\ Anchored'
  BY <1>1 DEF StoreInv, Contiguous, Anchored, Known, Intact
<1>16. Ahead'
  <2>1. Top' = Top
    BY <1>3, <1>11, <1>12 DEF Top
  <2>2. \A h \in Heights : Known(h)' = Known(h)
    BY <1>1 DEF Known
  <2> HIDE DEF Known
  <2> QED BY <1>1, <1>3, <1>11, <1>12, <2>1, <2>2 DEF Ahead
<1>17. Ordered'
  BY <1>1, <1>3, <1>11, StoreConstants DEF StoreInv, Ordered
<1>18. \A h \in Heights : digests'[h] # Unhashed => digests[h] # Unhashed \/ h <= pending.chain.height
  BY <1>1, <1>5
<1> QED BY <1>11, <1>12, <1>13, <1>14, <1>15, <1>16, <1>17, <1>18 DEF StoreInv

LEMMA WriteCheckpointKeeps ==
    ASSUME StoreInv, WriteCheckpoint
    PROVE  /\ StoreInv'
           /\ pending' # Idle /\ pending'.chain = pending.chain /\ pending'.op = pending.op
<1>1. /\ pending # Idle /\ pending.checkpoint # Unhashed /\ pending.checkpoints # {}
      /\ UNCHANGED <<files, snapshots, chain, digests, acked>>
  BY DEF WriteCheckpoint
<1>2. pending \in Operations /\ pending.checkpoints \in SUBSET Copies
  BY <1>1 DEF StoreInv, TypeOK, Operations
<1>3. PICK k \in pending.checkpoints :
          /\ checkpoints' = [checkpoints EXCEPT ![k] = pending.checkpoint]
          /\ pending' = [pending EXCEPT !.checkpoints = @ \ {k}]
  BY <1>1, <1>2 DEF WriteCheckpoint, First, Other, Copies
<1>4. /\ Ahead /\ Top = pending.chain /\ pending.chain \in Chains
      /\ pending.chain.base <= pending.chain.height
      /\ pending.checkpoint = pending.chain /\ pending.snapshots = {} /\ pending.blocks = {}
  BY <1>1 DEF StoreInv, Ahead, Top, Ordered
<1>5. pending.chain.base \in 0..MaxHeight /\ pending.chain.height \in 0..MaxHeight /\ k \in Copies
  BY <1>2, <1>4, ChainShape
<1>6. pending' \in Operations /\ pending' # Idle
  BY <1>2, <1>3, StoreConstants DEF Operations
<1>7. /\ pending'.chain = pending.chain /\ pending'.op = pending.op
      /\ pending'.snapshot = pending.snapshot /\ pending'.snapshots = pending.snapshots
      /\ pending'.blocks = pending.blocks /\ pending'.checkpoint = pending.checkpoint
      /\ pending'.checkpoints = pending.checkpoints \ {k}
  BY <1>2, <1>3 DEF Operations
<1>8. \A j \in Copies : checkpoints'[j] = IF j = k THEN pending.chain ELSE checkpoints[j]
  BY <1>3, <1>4 DEF StoreInv, TypeOK
<1>9. TypeOK'
  BY <1>1, <1>3, <1>4, <1>5, <1>6 DEF StoreInv, TypeOK
<1>10. \E truth \in [Heights -> Certs] : Faithful(truth)'
  BY <1>1, <1>6, <1>7, <1>8 DEF StoreInv, Faithful
<1>11. \A g \in Heights : Known(g)' => g <= pending.chain.height
  <2>1. \A g \in Heights : Known(g)' => Known(g) \/ g <= pending.chain.height
    BY <1>1, <1>8 DEF Known
  <2> QED BY <1>4, <2>1 DEF Ahead
<1>12. \A h \in Covered(pending.chain) : Intact(h)'
  <2>1. \A h \in Covered(pending.chain) : Intact(h)
    BY <1>1, <1>4, CoveredIntact
  <2> QED BY <1>1, <2>1 DEF Intact
<1>13. \A j \in Copies : snapshots[j] \in {pending.chain.base, Damaged}
  BY <1>4 DEF Ahead
<1>14. Contiguous'
  BY <1>1, <1>5, <1>11, <1>12, <1>13 DEF Contiguous, Covered, Heights
<1>15. Older(pending.chain, pending.chain.base)
  BY <1>4, <1>5 DEF Older
<1>16. \A j \in Copies : Older(checkpoints[j], pending.chain.base)
  BY <1>4 DEF Ahead
<1>17. Anchored'
  <2>1. \E j \in Copies : checkpoints'[j] # Damaged
    BY <1>4, <1>5, <1>8, StoreConstants
  <2>2. \A i, j \in Copies : snapshots[j] # Damaged => Older(checkpoints'[i], snapshots[j])
    BY <1>8, <1>13, <1>15, <1>16
  <2>3. \A i \in Copies : checkpoints'[i] # Damaged => checkpoints'[i].base \in 0..MaxHeight
    BY <1>9, ChainShape DEF TypeOK
  <2>4. \A i, j \in Copies : checkpoints'[j] # Damaged /\ checkpoints'[i] # Damaged =>
            (checkpoints'[i].base < checkpoints'[j].base => checkpoints'[i].height < checkpoints'[j].base)
    BY <1>5, <1>8, <1>16, <2>3 DEF StoreInv, Anchored, Older
  <2> QED BY <1>1, <2>1, <2>2, <2>4 DEF StoreInv, Anchored
<1>18. Ahead'
  <2>1. Top' = Top
    BY <1>4, <1>6, <1>7 DEF Top
  <2>2. \A j \in Copies : Older(checkpoints'[j], pending.chain.base)
    BY <1>8, <1>15, <1>16
  <2> HIDE DEF Known
  <2> QED BY <1>1, <1>4, <1>6, <1>7, <1>11, <2>1, <2>2 DEF Ahead
<1>19. Ordered'
  BY <1>1, <1>4, <1>7, <1>8 DEF StoreInv, Ordered
<1> QED BY <1>6, <1>7, <1>9, <1>10, <1>14, <1>17, <1>18, <1>19 DEF StoreInv

LEMMA ReturnKeeps ==
    ASSUME StoreInv, Return
    PROVE  StoreInv'
<1>1. /\ pending # Idle /\ pending.snapshots = {} /\ pending.blocks = {} /\ pending' = Idle
      /\ UNCHANGED <<files, checkpoints, snapshots>>
  BY DEF Return, Written, disk
<1>2. /\ chain' = pending.chain /\ acked' = pending.chain.height /\ UNCHANGED digests
      /\ Ahead /\ Top = pending.chain /\ pending.chain \in Chains
  BY <1>1 DEF Return, StoreInv, Ordered, Ahead, Top
<1>3. pending.chain.base \in 0..MaxHeight /\ pending.chain.height \in 0..MaxHeight
  BY <1>2, ChainShape
<1>4. TypeOK'
  BY <1>1, <1>2, <1>3 DEF StoreInv, TypeOK
<1>5. \E truth \in [Heights -> Certs] : Faithful(truth)'
  BY <1>1, <1>2 DEF StoreInv, Faithful
<1>6. \A g \in Heights : Known(g)' => g <= pending.chain.height
  <2>1. \A g \in Heights : Known(g)' => Known(g) \/ g <= pending.chain.height
    BY <1>1, <1>2 DEF Known
  <2> QED BY <1>2, <2>1 DEF Ahead
<1>7. \A h \in Covered(pending.chain) : Intact(h)'
  <2>1. \A h \in Covered(pending.chain) : Intact(h)
    BY <1>1, CoveredIntact
  <2> QED BY <1>1, <2>1 DEF Intact
<1>8. \A j \in Copies : snapshots[j] \in {pending.chain.base, Damaged}
  BY <1>1, <1>2 DEF Ahead
<1>9. Contiguous'
  BY <1>1, <1>3, <1>6, <1>7, <1>8 DEF Contiguous, Covered, Heights
<1>10. Anchored'
  <2>1. \A k \in Copies, h \in Heights : files[k][h] = Damaged => h <= pending.chain.height
    <3>1. \A k \in Copies, h \in Heights : files[k][h] = Damaged => Known(h)
      BY DEF StoreInv, Anchored, Known
    <3> QED BY <1>2, <3>1 DEF Ahead
  <2> QED BY <1>1, <1>2, <2>1 DEF StoreInv, Anchored
<1>11. Ahead'
  <2>1. Top' = Top
    BY <1>1, <1>2 DEF Top
  <2> HIDE DEF Known
  <2> QED BY <1>1, <1>2, <1>6, <1>8, <2>1 DEF Ahead
<1>12. Ordered'
  BY <1>1 DEF Ordered
<1> QED BY <1>4, <1>5, <1>9, <1>10, <1>11, <1>12 DEF StoreInv

\* A process or a command that ends forgets everything but the disk.
LEMMA StopKeeps ==
    ASSUME StoreInv, chain' = Stopped, pending' = Idle,
           digests' \in {digests, [h \in Heights |-> Unhashed]},
           UNCHANGED <<files, checkpoints, snapshots, acked>>
    PROVE  StoreInv'
<1>1. TypeOK'
  BY DEF StoreInv, TypeOK
<1>2. \E truth \in [Heights -> Certs] : Faithful(truth)'
  BY DEF StoreInv, Faithful
<1>3. Contiguous' /\ Anchored'
  BY DEF StoreInv, Contiguous, Anchored, Known, Intact
<1>4. Ordered'
  BY DEF Ordered
<1> QED BY <1>1, <1>2, <1>3, <1>4 DEF StoreInv

LEMMA DamageKeeps ==
    ASSUME StoreInv, Damage
    PROVE  /\ StoreInv'
           /\ \A k \in Copies : snapshots'[k] \in {snapshots[k], Damaged}
           /\ \A k \in Copies, h \in Heights : files'[k][h] \in {files[k][h], Damaged}
<1>1. UNCHANGED <<chain, digests, pending, acked>>
  BY DEF Damage
<1>2. \A k \in Copies : k # Other(k) /\ Other(k) \in Copies
  BY DEF Copies, Other
<1>3. /\ files' \in Files /\ checkpoints' \in Checkpoints /\ snapshots' \in Snapshots
      /\ \A k \in Copies, h \in Heights :
            \/ files'[k][h] = files[k][h]
            \/ /\ files'[k][h] = Damaged /\ files[k][h] \in Certs
               /\ files[Other(k)][h] \in Certs /\ files'[Other(k)][h] = files[Other(k)][h]
               /\ h <= acked
      /\ \A k \in Copies :
            \/ checkpoints'[k] = checkpoints[k]
            \/ checkpoints'[k] = Damaged /\ checkpoints[Other(k)] # Damaged
               /\ checkpoints'[Other(k)] = checkpoints[Other(k)]
      /\ \A k \in Copies :
            \/ snapshots'[k] = snapshots[k]
            \/ snapshots'[k] = Damaged /\ snapshots[Other(k)] # Damaged
               /\ snapshots'[Other(k)] = snapshots[Other(k)]
  <2>1. files \in Files /\ checkpoints \in Checkpoints /\ snapshots \in Snapshots /\ acked \in 0..MaxHeight
    BY DEF StoreInv, TypeOK, Files, Checkpoints, Snapshots
  <2>2. PICK k \in Copies :
          \/ \E h \in 1..acked :
                /\ files[k][h] \in Certs /\ files[Other(k)][h] \in Certs
                /\ files' = [files EXCEPT ![k][h] = Damaged]
                /\ UNCHANGED <<checkpoints, snapshots>>
          \/ /\ checkpoints[k] # Damaged /\ checkpoints[Other(k)] # Damaged
             /\ checkpoints' = [checkpoints EXCEPT ![k] = Damaged]
             /\ UNCHANGED <<files, snapshots>>
          \/ /\ snapshots[k] \notin {0, Damaged} /\ snapshots[Other(k)] \notin {0, Damaged}
             /\ snapshots' = [snapshots EXCEPT ![k] = Damaged]
             /\ UNCHANGED <<files, checkpoints>>
    BY DEF Damage
  <2>3. CASE \E h \in 1..acked :
                /\ files[k][h] \in Certs /\ files[Other(k)][h] \in Certs
                /\ files' = [files EXCEPT ![k][h] = Damaged]
                /\ UNCHANGED <<checkpoints, snapshots>>
    <3>1. PICK h \in 1..acked :
                /\ files[k][h] \in Certs /\ files[Other(k)][h] \in Certs
                /\ files' = [files EXCEPT ![k][h] = Damaged]
                /\ UNCHANGED <<checkpoints, snapshots>>
      BY <2>3
    <3>2. h \in Heights /\ h <= acked
      BY <2>1, StoreConstants DEF Heights
    <3>3. files' \in Files
      BY <2>1, <3>1, <3>2 DEF Files
    <3>4. \A j \in Copies, i \in Heights :
             files'[j][i] = IF j = k /\ i = h THEN Damaged ELSE files[j][i]
      BY <2>1, <3>1, <3>2 DEF Files
    <3> QED BY <1>2, <2>1, <3>1, <3>2, <3>3, <3>4
  <2>4. CASE /\ checkpoints[k] # Damaged /\ checkpoints[Other(k)] # Damaged
             /\ checkpoints' = [checkpoints EXCEPT ![k] = Damaged]
             /\ UNCHANGED <<files, snapshots>>
    BY <1>2, <2>1, <2>4 DEF Checkpoints
  <2>5. CASE /\ snapshots[k] \notin {0, Damaged} /\ snapshots[Other(k)] \notin {0, Damaged}
             /\ snapshots' = [snapshots EXCEPT ![k] = Damaged]
             /\ UNCHANGED <<files, checkpoints>>
    BY <1>2, <2>1, <2>5 DEF Snapshots
  <2> QED BY <2>2, <2>3, <2>4, <2>5
<1>4. TypeOK'
  BY <1>1, <1>3 DEF StoreInv, TypeOK, Files, Checkpoints, Snapshots
<1>5. \E truth \in [Heights -> Certs] : Faithful(truth)'
  <2>1. PICK truth \in [Heights -> Certs] : Faithful(truth)
    BY DEF StoreInv
  <2>2. Faithful(truth)'
    BY <1>1, <1>3, <2>1, StoreConstants DEF Faithful
  <2> QED BY <2>2
<1>6. \A h \in Heights : (Intact(h) => Intact(h)') /\ (Known(h)' => Known(h))
  <2>1. \A h \in Heights : Intact(h) => Intact(h)'
    BY <1>2, <1>3 DEF Intact
  <2>2. \A h \in Heights : Known(h)' => Known(h)
    BY <1>1, <1>3, StoreConstants DEF Known
  <2> QED BY <2>1, <2>2
<1>7. Contiguous'
  <2> HIDE DEF Known, Intact
  <2> QED BY <1>3, <1>6 DEF StoreInv, Contiguous
<1>8. Anchored'
  <2>1. (\E k \in Copies : checkpoints'[k] # Damaged) /\ (\E k \in Copies : snapshots'[k] # Damaged)
    BY <1>2, <1>3 DEF StoreInv, Anchored
  <2>2. \A k, j \in Copies : snapshots'[j] # Damaged => Older(checkpoints'[k], snapshots'[j])
    BY <1>3 DEF StoreInv, Anchored, Older
  <2>3. \A k, j \in Copies : checkpoints'[j] # Damaged /\ checkpoints'[k] # Damaged =>
          (checkpoints'[k].base < checkpoints'[j].base => checkpoints'[k].height < checkpoints'[j].base)
    BY <1>3 DEF StoreInv, Anchored
  <2>4. \A k \in Copies, h \in Heights : files'[k][h] = Damaged => h <= acked
    BY <1>3 DEF StoreInv, Anchored
  <2> QED BY <1>1, <2>1, <2>2, <2>3, <2>4 DEF Anchored
<1>9. pending # Idle \/ chain # Stopped => Ahead'
  <2> SUFFICES ASSUME Ahead PROVE Ahead'
    BY DEF StoreInv
  <2>1. Top' = Top /\ Top \in Chains
    BY <1>1 DEF Top, Ahead
  <2>2. \A k \in Copies : Older(checkpoints'[k], Top.base)
    BY <1>3 DEF Ahead, Older
  <2>3. \A k \in Copies, h \in Covered(Top) :
          files'[k][h] # Missing \/ (pending # Idle /\ <<k, h>> \in pending.blocks)
    BY <1>3, <2>1, CoveredHeights, StoreConstants DEF Ahead
  <2>4. \A k \in Copies :
          snapshots'[k] \in {Top.base, Damaged} \/
          (pending # Idle /\ k \in pending.snapshots /\ snapshots'[k] <= Top.base)
    BY <1>3 DEF Ahead
  <2> HIDE DEF Known
  <2> QED BY <1>1, <1>6, <2>1, <2>2, <2>3, <2>4 DEF Ahead
<1>10. Ordered'
  <2>1. \A k \in Copies : checkpoints'[k] \in {checkpoints[k], Damaged}
    BY <1>3
  <2> QED BY <1>1, <2>1 DEF StoreInv, Ordered
<1> QED BY <1>1, <1>3, <1>4, <1>5, <1>7, <1>8, <1>9, <1>10 DEF StoreInv

\* A file that no intact snapshot needs is moved away.
LEMMA RemoveKeeps ==
    ASSUME StoreInv, chain = Stopped, pending = Idle, NEW k \in Copies, NEW h \in Heights,
           \A j \in Copies : snapshots[j] # Damaged => h <= snapshots[j],
           files' = [files EXCEPT ![k][h] = Missing],
           UNCHANGED <<checkpoints, snapshots, chain, digests, pending, acked>>
    PROVE  StoreInv'
<1>1. \A j \in Copies, i \in Heights : files'[j][i] = IF j = k /\ i = h THEN Missing ELSE files[j][i]
  BY DEF StoreInv, TypeOK
<1>2. TypeOK'
  <2>1. files' \in [Copies -> [Heights -> Certs \cup {Missing, Damaged}]]
    BY DEF StoreInv, TypeOK
  <2> QED BY <2>1 DEF StoreInv, TypeOK
<1>3. \E truth \in [Heights -> Certs] : Faithful(truth)'
  <2>1. PICK truth \in [Heights -> Certs] : Faithful(truth)
    BY DEF StoreInv
  <2>2. Faithful(truth)'
    BY <1>1, <2>1, StoreConstants DEF Faithful
  <2> QED BY <2>2
<1>4. \A i \in Heights : (Known(i)' => Known(i)) /\ (i # h /\ Intact(i) => Intact(i)')
  BY <1>1 DEF Known, Intact
<1>5. \A j \in Copies, i \in Heights : snapshots[j] # Damaged /\ snapshots[j] < i => i # h
  BY DEF StoreInv, TypeOK, Heights
<1>6. Contiguous'
  <2> HIDE DEF Known, Intact
  <2> QED BY <1>4, <1>5 DEF StoreInv, Contiguous
<1>7. Anchored'
  BY <1>1, StoreConstants DEF StoreInv, Anchored
<1> QED BY <1>2, <1>3, <1>6, <1>7 DEF StoreInv, Ordered

LEMMA StoreStutters ==
    ASSUME StoreInv, UNCHANGED <<files, checkpoints, snapshots, chain, digests, pending, acked>>
    PROVE  StoreInv'
<1>1. TypeOK'
  BY DEF StoreInv, TypeOK
<1>2. \E truth \in [Heights -> Certs] : Faithful(truth)'
  BY DEF StoreInv, Faithful
<1>3. Contiguous' /\ Anchored'
  BY DEF StoreInv, Contiguous, Anchored, Known, Intact
<1>4. pending # Idle \/ chain # Stopped => Ahead'
  <2>1. Top' = Top /\ \A h \in Heights : Known(h)' = Known(h)
    BY DEF Top, Known
  <2> HIDE DEF Known
  <2> QED BY <2>1 DEF StoreInv, Ahead
<1>5. Ordered'
  BY DEF StoreInv, Ordered
<1> QED BY <1>1, <1>2, <1>3, <1>4, <1>5 DEF StoreInv

\* When a load returns, both copies of every block, and of its digest, are what
\* the load accepted, or damaged since.
LEMMA ReturnRestores ==
    ASSUME StoreInv
    PROVE  LoadRestoresCopies
<1> SUFFICES ASSUME NEW k \in Copies, NEW h \in Heights,
                    Return, pending.op = "load", h \in Covered(chain')
             PROVE  /\ files[k][h] \in {At(chain', h), Damaged}
                    /\ checkpoints[k] = Damaged \/ At(checkpoints[k], h) = At(chain', h)
  BY DEF LoadRestoresCopies
<1>1. /\ pending # Idle /\ pending.blocks = {} /\ pending.checkpoints = {}
      /\ chain' = pending.chain
  BY DEF Return, Written
<1>2. Ahead /\ Top = pending.chain /\ pending.chain \in Chains
  BY <1>1 DEF StoreInv, Ahead, Top
<1>3. PICK truth \in [Heights -> Certs] : Faithful(truth)
  BY DEF StoreInv
<1>4. At(pending.chain, h) = truth[h]
  BY <1>1, <1>3 DEF Faithful, True
<1>5. files[k][h] \in {truth[h], Damaged}
  <2>1. files[k][h] # Missing /\ files[k][h] \in Certs \cup {Missing, Damaged}
    BY <1>1, <1>2 DEF Ahead, StoreInv, TypeOK
  <2> QED BY <1>3, <2>1 DEF Faithful
<1>6. checkpoints[k] \in {pending.chain, Damaged}
  BY <1>1 DEF StoreInv, Ordered
<1> QED BY <1>1, <1>4, <1>5, <1>6

\* A digest in an intact checkpoint is that of every intact copy of the block.
LEMMA StoreInvExact ==
    ASSUME StoreInv
    PROVE  ChecksumsExact
<1>1. PICK truth \in [Heights -> Certs] : Faithful(truth)
  BY DEF StoreInv
<1> SUFFICES ASSUME NEW k \in Copies, NEW j \in Copies, checkpoints[k] # Damaged,
                    NEW h \in Covered(checkpoints[k]), files[j][h] \in Certs
             PROVE  files[j][h] = At(checkpoints[k], h)
  BY DEF ChecksumsExact
<1>2. h \in Heights
  BY CoveredHeights DEF StoreInv, TypeOK
<1> QED BY <1>1, <1>2 DEF Faithful, True

-----------------------------------------------------------------------------
(* The steps of the commands                                               *)

\* What is left of a command after its next step.
LEMMA ProgramSteps ==
    ASSUME NEW p \in Programs
    PROVE  /\ p \in Seq(Steps)
           /\ p # << >> =>
                 /\ Tail(p) \in Programs
                 /\ Head(p) # "mkdir" => (Staging(p) => Staging(Tail(p))) /\ ~ Filling(Tail(p))
                 /\ Head(p) = "mkdir" => ~ Deleting(Tail(p))
                 /\ Head(p) = "manifest" => Filling(p)
                 /\ Head(p) \notin {"load", "mkdir"} => ~ Staging(p)
                 /\ Head(p) \in {"delete", "rmdir"} => Deleting(p)
                 /\ Head(p) \notin {"finalizing", "delete"} => ~ Deleting(Tail(p))
<1> USE DEF Programs, Steps, Staging, Filling, Deleting
<1>1. CASE p = <<"load", "mkdir", "manifest", "move">>
  BY <1>1
<1>2. CASE p = <<"mkdir", "manifest", "move">>
  BY <1>2
<1>3. CASE p = <<"manifest", "move">>
  BY <1>3
<1>4. CASE p = <<"move">>
  BY <1>4
<1>5. CASE p = <<"load", "move", "load", "verified">>
  BY <1>5
<1>6. CASE p = <<"move", "load", "verified">>
  BY <1>6
<1>7. CASE p = <<"load", "verified">>
  BY <1>7
<1>8. CASE p = <<"verified">>
  BY <1>8
<1>9. CASE p = <<"load", "finalizing", "delete", "rmdir">>
  BY <1>9
<1>10. CASE p = <<"finalizing", "delete", "rmdir">>
  BY <1>10
<1>11. CASE p = <<"delete", "rmdir">>
  BY <1>11
<1>12. CASE p = <<"rmdir">>
  BY <1>12
<1>13. CASE p = << >>
  BY <1>13
<1> QED BY <1>1, <1>2, <1>3, <1>4, <1>5, <1>6, <1>7, <1>8, <1>9, <1>10, <1>11, <1>12, <1>13

\* A step that writes no file and no snapshot below base, an intact snapshot's
\* height or more, and otherwise only damages.
Above(base) ==
    /\ \E j \in Copies : snapshots[j] # Damaged /\ snapshots[j] <= base
    /\ \A k \in Copies : snapshots'[k] \in {snapshots[k], Damaged, base}
    /\ \A k \in Copies, h \in Heights : h <= base => files'[k][h] \in {files[k][h], Damaged}

\* Such a step leaves alone what is staged.
LEMMA StagedKept ==
    ASSUME PruneTypeOK, Staged, QuarantineComplete, UNCHANGED quarantine,
           NEW base \in 0..MaxHeight, Above(base)
    PROVE  Staged' /\ QuarantineComplete'
<1>1. CASE quarantine = Absent
  BY <1>1 DEF Staged, QuarantineComplete
<1>2. CASE quarantine # Absent
  <2>1. PICK j \in Copies : snapshots[j] # Damaged /\ snapshots[j] <= base
    BY DEF Above
  <2>2. \A e \in quarantine.manifest : e.copy \in Copies /\ e.height \in Heights
    BY <1>2 DEF PruneTypeOK, Quarantines, Entries
  <2>3. \A e \in quarantine.manifest : e.height <= base
    BY <1>2, <2>1, <2>2 DEF PruneTypeOK, TypeOK, Staged, Heights
  <2>4. Staged'
    BY <1>2, <2>3 DEF Staged, Above
  <2>5. \A e \in quarantine.manifest :
            files'[e.copy][e.height] \in {files[e.copy][e.height], Damaged}
    BY <2>2, <2>3 DEF Above
  <2>6. QuarantineComplete'
    BY <1>2, <2>5 DEF QuarantineComplete
  <2> QED BY <2>4, <2>6
<1> QED BY <1>1, <1>2

LEMMA DamageAbove ==
    ASSUME StoreInv,
           \A k \in Copies : snapshots'[k] \in {snapshots[k], Damaged},
           \A k \in Copies, h \in Heights : files'[k][h] \in {files[k][h], Damaged}
    PROVE  \E base \in 0..MaxHeight : Above(base)
<1>1. PICK j \in Copies : snapshots[j] # Damaged
  BY DEF StoreInv, Anchored
<1>2. snapshots[j] \in 0..MaxHeight
  BY <1>1 DEF StoreInv, TypeOK
<1>3. Above(snapshots[j])
  BY <1>1, <1>2 DEF Above
<1> QED BY <1>2, <1>3

\* An operation writes above the base of its chain.
LEMMA WriteAbove ==
    ASSUME StoreInv, pending # Idle,
           \A k \in Copies : snapshots'[k] \in {snapshots[k], pending.chain.base},
           \A k \in Copies, h \in Heights : h <= pending.chain.base => files'[k][h] = files[k][h]
    PROVE  \E base \in 0..MaxHeight : Above(base)
<1>1. Ahead /\ Top = pending.chain /\ pending.chain \in Chains
  BY DEF StoreInv, Ahead, Top
<1>2. pending.chain.base \in 0..MaxHeight
  BY <1>1, ChainShape
<1>3. PICK j \in Copies : snapshots[j] # Damaged
  BY DEF StoreInv, Anchored
<1>4. snapshots[j] <= pending.chain.base
  BY <1>1, <1>2, <1>3 DEF Ahead
<1>5. Above(pending.chain.base)
  BY <1>3, <1>4 DEF Above
<1> QED BY <1>2, <1>5

\* A write of the operation under way, or damage.
LEMMA WritesKeep ==
    ASSUME StoreInv, pending # Idle,
           WriteSnapshot \/ WriteBlock \/ createCheckpoint \/ WriteCheckpoint \/ Damage
    PROVE  /\ StoreInv'
           /\ pending' # Idle /\ pending'.chain = pending.chain /\ pending'.op = pending.op
           /\ UNCHANGED <<chain, acked>>
           /\ \A k \in Copies : snapshots'[k] \in {snapshots[k], Damaged, pending.chain.base}
           /\ \E base \in 0..MaxHeight : Above(base)
           /\ \A h \in Heights : digests'[h] # Unhashed =>
                 digests[h] # Unhashed \/ h <= pending.chain.height
<1>1. CASE WriteSnapshot
  <2>1. UNCHANGED <<files, chain, acked, digests>>
    BY <1>1 DEF WriteSnapshot
  <2> QED BY <1>1, <2>1, WriteSnapshotKeeps, WriteAbove
<1>2. CASE WriteBlock
  <2>1. UNCHANGED <<snapshots, chain, acked, digests>>
    BY <1>2 DEF WriteBlock
  <2> QED BY <1>2, <2>1, WriteBlockKeeps, WriteAbove
<1>3. CASE createCheckpoint
  <2>1. UNCHANGED <<files, snapshots, chain, acked>>
    BY <1>3 DEF createCheckpoint
  <2> QED BY <1>3, <2>1, CreateCheckpointKeeps, WriteAbove
<1>4. CASE WriteCheckpoint
  <2>1. UNCHANGED <<files, snapshots, chain, acked, digests>>
    BY <1>4 DEF WriteCheckpoint
  <2> QED BY <1>4, <2>1, WriteCheckpointKeeps, WriteAbove
<1>5. CASE Damage
  <2>1. UNCHANGED <<chain, digests, pending, acked>>
    BY <1>5 DEF Damage
  <2> QED BY <1>5, <2>1, DamageKeeps, DamageAbove
<1> QED BY <1>1, <1>2, <1>3, <1>4, <1>5

\* A step of the node: no write fails, and no snapshot is installed offline.
LEMMA NodeKeeps ==
    ASSUME ~ IOErrors, ~ OperatorInstalls, PruneInv, command = Idle, Next,
           UNCHANGED <<command, quarantine>>
    PROVE  PruneInv'
<1> USE DEF PruneInv
<1>1. StoreInv' /\ \E base \in 0..MaxHeight : Above(base)
  <2>1. CASE loadBlockStore
    <3>1. UNCHANGED <<files, snapshots>> /\ StoreInv'
      BY <2>1, LoadingKeeps DEF loadBlockStore, Begin
    <3> QED BY <3>1, DamageAbove
  <2>2. ASSUME NEW cert \in Certs, persistBlock(cert)
        PROVE  StoreInv' /\ \E base \in 0..MaxHeight : Above(base)
    <3>1. UNCHANGED <<files, snapshots>> /\ StoreInv'
      BY <2>2, PersistKeeps DEF persistBlock, Begin
    <3> QED BY <3>1, DamageAbove
  <2>3. ASSUME NEW h \in Heights, installStateSnapshotCandidates(h)
        PROVE  StoreInv' /\ \E base \in 0..MaxHeight : Above(base)
    <3>1. UNCHANGED <<files, snapshots>> /\ StoreInv'
      BY <2>3, InstallKeeps DEF installStateSnapshotCandidates, Begin
    <3> QED BY <3>1, DamageAbove
  <2>4. CASE WriteSnapshot \/ WriteBlock \/ createCheckpoint \/ WriteCheckpoint
    <3>1. pending # Idle
      BY <2>4 DEF WriteSnapshot, WriteBlock, createCheckpoint, WriteCheckpoint
    <3> QED BY <2>4, <3>1, WritesKeep
  <2>5. CASE Return
    <3>1. UNCHANGED <<files, snapshots>> /\ StoreInv'
      BY <2>5, ReturnKeeps DEF Return, disk
    <3> QED BY <3>1, DamageAbove
  <2>6. CASE Crash
    <3>1. UNCHANGED <<files, snapshots>> /\ StoreInv'
      BY <2>6, StopKeeps DEF Crash
    <3> QED BY <3>1, DamageAbove
  <2>7. CASE Damage
    BY <2>7, DamageKeeps, DamageAbove
  <2> QED BY <2>1, <2>2, <2>3, <2>4, <2>5, <2>6, <2>7 DEF Next, snapshotInstall, Throw
<1>2. Staged' /\ QuarantineComplete'
  BY <1>1, StagedKept
<1>3. Hashed' /\ (pending' # Idle => pending'.op # "prune")
  <2>1. CASE loadBlockStore
    BY <2>1 DEF Hashed, loadBlockStore, Begin, Loading
  <2>2. ASSUME NEW cert \in Certs, persistBlock(cert)
        PROVE  Hashed' /\ (pending' # Idle => pending'.op # "prune")
    <3>1. /\ pending = Idle /\ chain # Stopped /\ UNCHANGED <<digests, chain>>
          /\ pending'.chain.height = chain.height + 1 /\ pending'.op = "persist"
      BY <2>2 DEF persistBlock, Begin
    <3>2. chain.height \in 0..MaxHeight
      BY <3>1, ChainShape DEF StoreInv, TypeOK
    <3>3. \A h \in Heights : digests[h] # Unhashed => h <= chain.height
      BY <3>1 DEF Hashed, Top
    <3>4. pending' = Idle \/ Top' = pending'.chain
      BY DEF Top
    <3> QED BY <3>1, <3>2, <3>3, <3>4 DEF Hashed, Top, Heights
  <2>3. ASSUME NEW h \in Heights, installStateSnapshotCandidates(h)
        PROVE  Hashed' /\ (pending' # Idle => pending'.op # "prune")
    <3>1. /\ pending = Idle /\ chain # Stopped /\ UNCHANGED <<digests, chain>> /\ h > chain.height
          /\ pending' # Idle /\ pending'.op = "install" /\ pending'.chain.height = h
      BY <2>3, InstallKeeps DEF installStateSnapshotCandidates, Begin
    <3>2. chain.height \in 0..MaxHeight
      BY <3>1, ChainShape DEF StoreInv, TypeOK
    <3>3. \A i \in Heights : digests[i] # Unhashed => i <= chain.height
      BY <3>1 DEF Hashed, Top
    <3> QED BY <3>1, <3>2, <3>3 DEF Hashed, Top, Heights
  <2>4. CASE pending # Idle /\ (WriteSnapshot \/ WriteBlock \/ createCheckpoint \/ WriteCheckpoint \/ Damage)
    <3>1. pending # Idle
      BY <2>4
    <3>2. /\ pending' # Idle /\ pending'.chain = pending.chain /\ pending'.op = pending.op
          /\ \A h \in Heights : digests'[h] # Unhashed =>
                 digests[h] # Unhashed \/ h <= pending.chain.height
      BY <2>4, <3>1, WritesKeep
    <3>3. \A h \in Heights : digests[h] # Unhashed => h <= pending.chain.height
      BY <3>1 DEF Hashed, Top
    <3> QED BY <3>1, <3>2, <3>3 DEF Hashed, Top
  <2>5. CASE Return
    <3>1. pending # Idle /\ pending.chain # Stopped
      BY <2>5, StoreConstants DEF Return, Written, StoreInv, Ahead, Top
    <3>2. pending.op # "operator"
      BY <3>1 DEF StoreInv, Ordered
    <3> QED BY <2>5, <3>1, <3>2 DEF Hashed, Return, Top
  <2>6. CASE Crash
    BY <2>6 DEF Hashed, Crash
  <2>7. CASE Damage /\ pending = Idle
    BY <2>7 DEF Hashed, Damage, Top
  <2> QED BY <2>1, <2>2, <2>3, <2>4, <2>5, <2>6, <2>7
          DEF Next, snapshotInstall, Throw, WriteSnapshot, WriteBlock, createCheckpoint, WriteCheckpoint
<1>4. PruneTypeOK'
  BY <1>1 DEF PruneTypeOK, StoreInv
<1>5. CommandInv'
  BY DEF CommandInv
<1> QED BY <1>1, <1>2, <1>3, <1>4, <1>5

\* A command ends: only the disk and the quarantine are left.
LEMMA EndCommandKeeps ==
    ASSUME PruneInv, command # Idle, EndCommand
    PROVE  PruneInv'
<1>1. /\ command' = Idle /\ pending' = Idle /\ digests' = [h \in Heights |-> Unhashed]
      /\ UNCHANGED <<files, checkpoints, snapshots, chain, acked, quarantine>>
  BY DEF EndCommand
<1>2. chain' = Stopped
  BY <1>1 DEF PruneInv, CommandInv
<1>3. StoreInv'
  BY <1>1, <1>2, StopKeeps DEF PruneInv
<1>4. Staged' /\ QuarantineComplete'
  BY <1>1, DamageAbove, StagedKept DEF PruneInv
<1>5. Hashed'
  BY <1>1 DEF Hashed
<1>6. PruneTypeOK'
  BY <1>1, <1>3 DEF PruneInv, PruneTypeOK, StoreInv
<1>7. CommandInv'
  BY <1>1 DEF CommandInv
<1> QED BY <1>1, <1>3, <1>4, <1>5, <1>6, <1>7 DEF PruneInv

\* A command starts.
LEMMA CommandKeeps ==
    ASSUME PruneInv,
           stageBlockPruning \/ verifyStagedBlockPruning \/ finalizeBlockPruning
    PROVE  PruneInv'
<1>1. PICK p \in {<<"load", "mkdir", "manifest", "move">>, <<"load", "move", "load", "verified">>,
                  <<"load", "finalizing", "delete", "rmdir">>} :
          Command(p) /\ (p # <<"load", "mkdir", "manifest", "move">> => quarantine # Absent)
  BY DEF stageBlockPruning, verifyStagedBlockPruning, finalizeBlockPruning, HasManifest
<1>2. /\ chain = Stopped /\ pending = Idle
      /\ command' = [steps |-> p, loaded |-> Stopped]
      /\ UNCHANGED <<files, checkpoints, snapshots, chain, digests, pending, acked, quarantine>>
  BY <1>1 DEF Command, vars
<1>3. /\ p \in Programs /\ p # << >> /\ Head(p) = "load"
      /\ ~ Filling(p) /\ ~ Deleting(p) /\ (~ Staging(p) => quarantine # Absent)
  <2>1. CASE p = <<"load", "mkdir", "manifest", "move">>
    BY <2>1 DEF Programs, Filling, Deleting, Staging
  <2>2. CASE p = <<"load", "move", "load", "verified">>
    BY <1>1, <2>2 DEF Programs, Filling, Deleting, Staging
  <2>3. CASE p = <<"load", "finalizing", "delete", "rmdir">>
    BY <1>1, <2>3 DEF Programs, Filling, Deleting, Staging
  <2> QED BY <1>1, <2>1, <2>2, <2>3
<1>4. StoreInv'
  BY <1>2, StoreStutters DEF PruneInv
<1>5. Staged' /\ QuarantineComplete'
  BY <1>2, DamageAbove, StagedKept DEF PruneInv
<1>6. command' \in Commands /\ command' # Idle
  BY <1>2, <1>3, ProgramSteps, PruningConstants DEF Commands
<1>7. PruneTypeOK'
  BY <1>2, <1>4, <1>6 DEF PruneInv, PruneTypeOK, StoreInv
<1>8. Hashed'
  BY <1>6 DEF Hashed
<1>9. CommandInv'
  BY <1>2, <1>3, <1>6 DEF CommandInv
<1> QED BY <1>4, <1>5, <1>6, <1>7, <1>8, <1>9 DEF PruneInv

\* What a command at a step of its own relies on.
LEMMA DoingFacts ==
    ASSUME PruneInv, NEW step \in Steps, Doing(step)
    PROVE  /\ command # Idle /\ pending = Idle /\ chain = Stopped
           /\ command \in Commands
           /\ command.steps \in Programs /\ command.steps # << >> /\ Head(command.steps) = step
           /\ Tail(command.steps) \in Programs
           /\ step # "load" => command.loaded \in Chains
BY ProgramSteps DEF PruneInv, CommandInv, PruneTypeOK, Doing, Commands

LEMMA LoadStoreKeeps ==
    ASSUME PruneInv, LoadStore
    PROVE  PruneInv'
<1>1. /\ command # Idle /\ pending = Idle /\ chain = Stopped
      /\ command.steps # << >> /\ Head(command.steps) = "load"
  BY DEF LoadStore, Doing, PruneInv, CommandInv
<1>2. CASE EndCommand
  BY <1>1, <1>2, EndCommandKeeps
<1>3. CASE /\ Begin(Loading("prune", files, checkpoints, snapshots))
           /\ UNCHANGED <<command, quarantine>>
  <2>1. StoreInv'
    BY <1>1, <1>3, LoadingKeeps DEF PruneInv
  <2>2. /\ UNCHANGED <<files, checkpoints, snapshots, chain, digests, acked>>
        /\ pending'.op = "prune"
        /\ pending'.chain.base = Installed(snapshots)
    BY <1>3 DEF Begin, Loading, LoadedChain
  <2>3. Staged' /\ QuarantineComplete'
    BY <1>3, <2>2, DamageAbove, StagedKept DEF PruneInv
  <2>4. command.loaded # Stopped => pending'.chain.base = command.loaded.base
    <3> SUFFICES ASSUME command.loaded # Stopped PROVE Installed(snapshots) = command.loaded.base
      BY <2>2
    <3>1. snapshots \in Snapshots /\ \E k \in Copies : snapshots[k] # Damaged
      BY DEF PruneInv, StoreInv, TypeOK, Anchored, Snapshots
    <3>2. \E k \in Copies : snapshots[k] # Damaged /\ snapshots[k] = Installed(snapshots)
      BY <3>1, InstalledIsGreatest
    <3> QED BY <1>1, <3>2 DEF PruneInv, CommandInv
  <2>5. PruneTypeOK' /\ Hashed'
    BY <1>1, <1>3, <2>1, <2>2 DEF PruneInv, PruneTypeOK, StoreInv, Hashed
  <2>6. CommandInv'
    BY <1>1, <1>3, <2>2, <2>4 DEF PruneInv, CommandInv
  <2> QED BY <1>1, <1>3, <2>1, <2>3, <2>5, <2>6 DEF PruneInv
<1> QED BY <1>2, <1>3 DEF LoadStore

LEMMA LoadStepKeeps ==
    ASSUME PruneInv, LoadStep
    PROVE  PruneInv'
<1>1. command # Idle /\ chain = Stopped /\ UNCHANGED <<command, quarantine>>
  BY DEF LoadStep, PruneInv, CommandInv
<1>2. CASE pending # Idle
  <2>1. /\ StoreInv'
        /\ pending' # Idle /\ pending'.chain = pending.chain /\ pending'.op = pending.op
        /\ UNCHANGED <<chain, acked>>
        /\ \A k \in Copies : snapshots'[k] \in {snapshots[k], Damaged, pending.chain.base}
        /\ \E base \in 0..MaxHeight : Above(base)
    BY <1>2, WritesKeep DEF LoadStep, PruneInv
  <2>2. Staged' /\ QuarantineComplete'
    BY <1>1, <2>1, StagedKept DEF PruneInv
  <2>3. PruneTypeOK' /\ Hashed'
    BY <1>1, <2>1 DEF PruneInv, PruneTypeOK, StoreInv, Hashed
  <2>4. CommandInv'
    BY <1>1, <1>2, <2>1 DEF PruneInv, CommandInv
  <2> QED BY <1>1, <2>1, <2>2, <2>3, <2>4 DEF PruneInv
<1>3. CASE pending = Idle
  <2>1. Damage
    BY <1>3 DEF LoadStep, WriteSnapshot, WriteBlock, createCheckpoint, WriteCheckpoint
  <2>2. /\ StoreInv'
        /\ \A k \in Copies : snapshots'[k] \in {snapshots[k], Damaged}
        /\ \E base \in 0..MaxHeight : Above(base)
    BY <2>1, DamageKeeps, DamageAbove DEF PruneInv
  <2>3. UNCHANGED <<chain, pending>>
    BY <2>1 DEF Damage
  <2>4. Staged' /\ QuarantineComplete'
    BY <1>1, <2>2, StagedKept DEF PruneInv
  <2>5. PruneTypeOK' /\ Hashed'
    BY <1>1, <2>2 DEF PruneInv, PruneTypeOK, StoreInv, Hashed
  <2>6. CommandInv'
    BY <1>1, <1>3, <2>2, <2>3 DEF PruneInv, CommandInv
  <2> QED BY <1>1, <2>2, <2>4, <2>5, <2>6 DEF PruneInv
<1> QED BY <1>2, <1>3

LEMMA LoadReturnsKeeps ==
    ASSUME PruneInv, LoadReturns
    PROVE  PruneInv'
<1>1. /\ command # Idle /\ pending # Idle /\ pending.snapshots = {} /\ pending' = Idle
      /\ command' = [steps |-> Tail(command.steps), loaded |-> pending.chain]
      /\ UNCHANGED <<files, checkpoints, snapshots, chain, digests, acked, quarantine>>
  BY DEF LoadReturns, Written
<1>2. /\ chain = Stopped /\ command.steps \in Programs /\ command.steps # << >>
      /\ Head(command.steps) = "load" /\ (~ Staging(command.steps) => quarantine # Absent)
  BY <1>1 DEF PruneInv, CommandInv
<1>3. /\ Tail(command.steps) \in Programs /\ Tail(command.steps) \in Seq(Steps)
      /\ (~ Staging(Tail(command.steps)) => quarantine # Absent)
      /\ ~ Filling(Tail(command.steps)) /\ ~ Deleting(Tail(command.steps))
  BY <1>2, ProgramSteps
<1>4. /\ pending.chain \in Chains /\ pending.chain # Stopped
      /\ \A k \in Copies : snapshots[k] \in {pending.chain.base, Damaged}
  BY <1>1, StoreConstants DEF PruneInv, StoreInv, Ahead, Top
<1>5. StoreInv'
  BY <1>1, <1>2, StopKeeps DEF PruneInv
<1>6. Staged' /\ QuarantineComplete'
  BY <1>1, DamageAbove, StagedKept DEF PruneInv
<1>7. command' \in Commands /\ command' # Idle
  BY <1>1, <1>3, <1>4, PruningConstants DEF Commands
<1>8. PruneTypeOK' /\ Hashed'
  BY <1>1, <1>5, <1>7 DEF PruneInv, PruneTypeOK, StoreInv, Hashed
<1>9. CommandInv'
  BY <1>1, <1>2, <1>3, <1>4, <1>7 DEF CommandInv
<1> QED BY <1>1, <1>5, <1>6, <1>7, <1>8, <1>9 DEF PruneInv

\* A step that only writes in the quarantine directory.
LEMMA QuarantineStepKeeps ==
    ASSUME PruneInv, NEW step \in Steps \ {"load"}, Doing(step), UNCHANGED vars,
           NextStep \/ UNCHANGED command,
           quarantine' \in Quarantines \cup {Absent}, Staged', QuarantineComplete',
           ~ Staging(command'.steps) => quarantine' # Absent,
           Filling(command'.steps) => ~ quarantine'.deleting /\ quarantine'.files = NoFiles,
           Deleting(command'.steps) => quarantine'.deleting
    PROVE  PruneInv'
<1>1. /\ command # Idle /\ pending = Idle /\ chain = Stopped /\ command \in Commands
      /\ command.steps \in Programs /\ Tail(command.steps) \in Programs
      /\ command.loaded \in Chains
  BY DoingFacts
<1>2. UNCHANGED <<files, checkpoints, snapshots, chain, digests, pending, acked>>
  BY DEF vars
<1>3. StoreInv'
  BY <1>2, StoreStutters DEF PruneInv
<1>4. /\ command' \in Commands /\ command' # Idle /\ command'.steps \in Programs
      /\ command'.loaded = command.loaded
  <2>1. CASE UNCHANGED command
    BY <1>1, <2>1
  <2>2. CASE NextStep
    <3>1. Tail(command.steps) \in Seq(Steps)
      BY <1>1, ProgramSteps
    <3>2. command' = [steps |-> Tail(command.steps), loaded |-> command.loaded]
      BY <1>1, <2>2 DEF NextStep, Commands
    <3> QED BY <1>1, <3>1, <3>2, PruningConstants DEF Commands
  <2> QED BY <2>1, <2>2
<1>5. PruneTypeOK' /\ Hashed'
  BY <1>3, <1>4 DEF PruneTypeOK, StoreInv, Hashed
<1>6. command.loaded # Stopped /\ \A k \in Copies : snapshots[k] \in {command.loaded.base, Damaged}
  BY <1>1, StoreConstants DEF PruneInv, CommandInv
<1>7. CommandInv'
  BY <1>1, <1>2, <1>4, <1>6 DEF CommandInv
<1> QED BY <1>1, <1>2, <1>3, <1>4, <1>5, <1>7 DEF PruneInv

\* The steps of a command after the one it does.
LEMMA NextSteps ==
    ASSUME PruneInv, NEW step \in Steps, Doing(step), NextStep
    PROVE  /\ command'.steps = Tail(command.steps)
           /\ step # "mkdir" => (Staging(command.steps) => Staging(command'.steps))
           /\ step # "mkdir" => ~ Filling(command'.steps)
           /\ step \notin {"finalizing", "delete"} => ~ Deleting(command'.steps)
<1>1. /\ command \in Commands /\ command.steps \in Programs /\ command.steps # << >>
      /\ Head(command.steps) = step
  BY DoingFacts
<1>2. command'.steps = Tail(command.steps)
  BY <1>1 DEF NextStep, Commands
<1> QED BY <1>1, <1>2, ProgramSteps

\* What a step finds in the quarantine.
LEMMA DoingQuarantine ==
    ASSUME PruneInv, NEW step \in Steps \ {"load", "mkdir"}, Doing(step)
    PROVE  /\ ~ Staging(command.steps)
           /\ quarantine # Absent /\ quarantine \in Quarantines
           /\ step = "manifest" => ~ quarantine.deleting /\ quarantine.files = NoFiles
           /\ step \in {"delete", "rmdir"} => quarantine.deleting /\ Deleting(command.steps)
<1>1. /\ command # Idle /\ command.steps \in Programs /\ command.steps # << >>
      /\ Head(command.steps) = step
  BY DoingFacts
<1>2. /\ ~ Staging(command.steps)
      /\ step = "manifest" => Filling(command.steps)
      /\ step \in {"delete", "rmdir"} => Deleting(command.steps)
  BY <1>1, ProgramSteps
<1> QED BY <1>1, <1>2 DEF PruneInv, CommandInv, PruneTypeOK

LEMMA MakeDirectoryKeeps ==
    ASSUME PruneInv, MakeDirectory
    PROVE  PruneInv'
<1>1. Doing("mkdir") /\ "mkdir" \in Steps \ {"load"}
  BY DEF MakeDirectory, Steps
<1>2. CASE EndCommand
  BY <1>1, <1>2, EndCommandKeeps DEF Doing
<1>3. CASE /\ quarantine' = [base |-> 0, manifest |-> {}, verified |-> Missing,
                             finalizing |-> Missing, files |-> NoFiles, deleting |-> FALSE]
           /\ NextStep /\ UNCHANGED vars
  <2>1. NoFiles \in [Copies -> [Heights -> Certs \cup {Missing, Damaged}]]
    BY DEF NoFiles
  <2>2. quarantine' \in Quarantines
    <3>1. 0 \in 0..MaxHeight /\ {} \in SUBSET Entries /\ Missing \in Chains \cup {Missing}
      BY StoreConstants
    <3> QED BY <1>3, <2>1, <3>1 DEF Quarantines
  <2>3. Staged' /\ QuarantineComplete'
    BY <1>3 DEF Staged, QuarantineComplete
  <2>4. ~ Deleting(command'.steps)
    BY <1>1, <1>3, NextSteps
  <2>5. quarantine' # Absent
    BY <2>2, PruningConstants
  <2> QED BY <1>1, <1>3, <2>2, <2>3, <2>4, <2>5, QuarantineStepKeeps
<1> QED BY <1>2, <1>3 DEF MakeDirectory

LEMMA WriteManifestKeeps ==
    ASSUME PruneInv, WriteManifest
    PROVE  PruneInv'
<1>1. Doing("manifest") /\ "manifest" \in Steps \ {"load", "mkdir"} /\ NextStep /\ UNCHANGED vars
  BY DEF WriteManifest, Steps
<1>2. /\ quarantine # Absent /\ quarantine \in Quarantines
      /\ ~ quarantine.deleting /\ quarantine.files = NoFiles
  BY <1>1, DoingQuarantine
<1>3. command # Idle /\ command.loaded \in Chains /\ command.loaded # Stopped
  BY <1>1, DoingFacts, StoreConstants
<1>4. \A k \in Copies : snapshots[k] \in {command.loaded.base, Damaged}
  BY <1>3 DEF PruneInv, CommandInv
<1>5. command.loaded.base \in 0..MaxHeight
  BY <1>3, ChainShape
<1>6. Plan(command.loaded) \in SUBSET Entries
  BY DEF Plan
<1>7. /\ quarantine' \in Quarantines /\ quarantine' # Absent
      /\ quarantine'.manifest = Plan(command.loaded) /\ quarantine'.files = NoFiles
  BY <1>2, <1>5, <1>6, PruningConstants DEF WriteManifest, Quarantines
<1>8. ASSUME NEW e \in Plan(command.loaded)
      PROVE  /\ files[e.copy][e.height] = e.value
             /\ \A k \in Copies : snapshots[k] # Damaged => e.height <= snapshots[k]
             /\ \A f \in Plan(command.loaded) : f.copy = e.copy /\ f.height = e.height => f = e
  <2>1. e \in Entries /\ files[e.copy][e.height] = e.value /\ e.height \in 1..command.loaded.base
    BY DEF Plan, Prunable
  <2>2. \A k \in Copies : snapshots[k] # Damaged => e.height <= snapshots[k]
    BY <1>4, <1>5, <2>1
  <2>3. ASSUME NEW f \in Plan(command.loaded), f.copy = e.copy, f.height = e.height PROVE f = e
    <3>1. f \in Entries /\ f.value = files[f.copy][f.height]
      BY DEF Plan
    <3> QED BY <2>1, <2>3, <3>1 DEF Entries
  <2> QED BY <2>1, <2>2, <2>3
<1>9. Staged' /\ QuarantineComplete'
  BY <1>1, <1>7, <1>8 DEF Staged, QuarantineComplete, vars
<1>10. ~ Filling(command'.steps) /\ ~ Deleting(command'.steps)
  BY <1>1, NextSteps
<1> QED BY <1>1, <1>7, <1>9, <1>10, QuarantineStepKeeps

\* A step that changes neither the manifest nor the files of the quarantine,
\* unless it has begun to delete.
LEMMA MarkerKept ==
    ASSUME PruneInv, quarantine \in Quarantines, quarantine # Absent, UNCHANGED <<files, snapshots>>,
           quarantine' \in Quarantines,
           quarantine'.manifest \subseteq quarantine.manifest,
           \/ quarantine'.deleting
           \/ /\ quarantine'.manifest = quarantine.manifest
              /\ quarantine'.files = quarantine.files
              /\ quarantine'.deleting = quarantine.deleting
    PROVE  quarantine' # Absent /\ Staged' /\ QuarantineComplete'
<1>1. quarantine' # Absent
  BY PruningConstants
<1>2. Staged'
  BY DEF PruneInv, Staged
<1>3. QuarantineComplete'
  BY DEF PruneInv, QuarantineComplete
<1> QED BY <1>1, <1>2, <1>3

LEMMA WriteVerifiedKeeps ==
    ASSUME PruneInv, WriteVerified
    PROVE  PruneInv'
<1>1. Doing("verified") /\ "verified" \in Steps \ {"load", "mkdir"}
  BY DEF WriteVerified, Steps
<1>2. CASE EndCommand
  BY <1>1, <1>2, EndCommandKeeps DEF Doing
<1>3. CASE /\ quarantine' = [quarantine EXCEPT !.verified = command.loaded]
           /\ NextStep /\ UNCHANGED vars
  <2>1. quarantine # Absent /\ quarantine \in Quarantines /\ command.loaded \in Chains
    BY <1>1, DoingQuarantine, DoingFacts
  <2>2. /\ quarantine' \in Quarantines
        /\ quarantine'.manifest = quarantine.manifest /\ quarantine'.files = quarantine.files
        /\ quarantine'.deleting = quarantine.deleting
    BY <1>3, <2>1 DEF Quarantines
  <2>3. quarantine' # Absent /\ Staged' /\ QuarantineComplete'
    BY <1>3, <2>1, <2>2, MarkerKept DEF vars
  <2>4. ~ Filling(command'.steps) /\ ~ Deleting(command'.steps)
    BY <1>1, <1>3, NextSteps
  <2> QED BY <1>1, <1>3, <2>2, <2>3, <2>4, QuarantineStepKeeps
<1> QED BY <1>2, <1>3 DEF WriteVerified

LEMMA WriteFinalizingKeeps ==
    ASSUME PruneInv, WriteFinalizing
    PROVE  PruneInv'
<1>1. Doing("finalizing") /\ "finalizing" \in Steps \ {"load", "mkdir"}
  BY DEF WriteFinalizing, Steps
<1>2. CASE EndCommand
  BY <1>1, <1>2, EndCommandKeeps DEF Doing
<1>3. CASE /\ quarantine' = [quarantine EXCEPT !.finalizing = command.loaded, !.deleting = TRUE]
           /\ NextStep /\ UNCHANGED vars
  <2>1. quarantine # Absent /\ quarantine \in Quarantines /\ command.loaded \in Chains
    BY <1>1, DoingQuarantine, DoingFacts
  <2>2. /\ quarantine' \in Quarantines
        /\ quarantine'.manifest = quarantine.manifest /\ quarantine'.deleting
    BY <1>3, <2>1 DEF Quarantines
  <2>3. quarantine' # Absent /\ Staged' /\ QuarantineComplete'
    BY <1>3, <2>1, <2>2, MarkerKept DEF vars
  <2>4. ~ Filling(command'.steps)
    BY <1>1, <1>3, NextSteps
  <2> QED BY <1>1, <1>3, <2>2, <2>3, <2>4, QuarantineStepKeeps
<1> QED BY <1>2, <1>3 DEF WriteFinalizing

LEMMA DeleteFileKeeps ==
    ASSUME PruneInv, DeleteFile
    PROVE  PruneInv'
<1>1. Doing("delete") /\ "delete" \in Steps \ {"load", "mkdir"} /\ UNCHANGED vars
  BY DEF DeleteFile, Steps
<1>2. /\ quarantine # Absent /\ quarantine \in Quarantines /\ quarantine.deleting
      /\ ~ Staging(command.steps) /\ Deleting(command.steps)
  BY <1>1, DoingQuarantine
<1>3. ~ Filling(command.steps)
  BY <1>2 DEF Filling, Deleting
<1>4. CASE NextStep /\ UNCHANGED quarantine
  <2>1. Staged' /\ QuarantineComplete'
    BY <1>1, <1>2, <1>4, MarkerKept DEF vars
  <2>2. ~ Filling(command'.steps)
    BY <1>1, <1>4, NextSteps
  <2> QED BY <1>1, <1>2, <1>4, <2>1, <2>2, QuarantineStepKeeps
<1>5. ASSUME NEW e \in quarantine.manifest,
             quarantine' = [quarantine EXCEPT !.files[e.copy][e.height] = Missing], UNCHANGED command
      PROVE  PruneInv'
  <2>1. e.copy \in Copies /\ e.height \in Heights
    BY <1>2 DEF Quarantines, Entries
  <2>2. /\ quarantine' \in Quarantines
        /\ quarantine'.manifest = quarantine.manifest /\ quarantine'.deleting
    BY <1>2, <1>5, <2>1 DEF Quarantines
  <2>3. quarantine' # Absent /\ Staged' /\ QuarantineComplete'
    BY <1>1, <1>2, <2>2, MarkerKept DEF vars
  <2> QED BY <1>1, <1>3, <1>5, <2>2, <2>3, QuarantineStepKeeps
<1> QED BY <1>4, <1>5 DEF DeleteFile

LEMMA RemoveDirectoryKeeps ==
    ASSUME PruneInv, RemoveDirectory
    PROVE  PruneInv'
<1>1. Doing("rmdir") /\ "rmdir" \in Steps \ {"load", "mkdir"} /\ UNCHANGED vars
  BY DEF RemoveDirectory, Steps
<1>2. /\ quarantine # Absent /\ quarantine \in Quarantines /\ quarantine.deleting
      /\ ~ Staging(command.steps) /\ Deleting(command.steps)
  BY <1>1, DoingQuarantine
<1>3. ~ Filling(command.steps)
  BY <1>2 DEF Filling, Deleting
<1>4. CASE /\ UNCHANGED command
           /\ \/ quarantine' = [quarantine EXCEPT !.manifest = {}]
              \/ quarantine' = [quarantine EXCEPT !.verified = Missing]
              \/ quarantine' = [quarantine EXCEPT !.finalizing = Missing]
  <2>1. /\ quarantine' \in Quarantines /\ quarantine'.deleting
        /\ quarantine'.manifest \subseteq quarantine.manifest
    BY <1>2, <1>4 DEF Quarantines
  <2>2. quarantine' # Absent /\ Staged' /\ QuarantineComplete'
    BY <1>1, <1>2, <2>1, MarkerKept DEF vars
  <2> QED BY <1>1, <1>3, <1>4, <2>1, <2>2, QuarantineStepKeeps
<1>5. CASE quarantine' = Absent /\ NextStep
  <2>1. Staged' /\ QuarantineComplete'
    BY <1>5 DEF Staged, QuarantineComplete
  <2>2. ~ Filling(command'.steps) /\ ~ Deleting(command'.steps)
    BY <1>1, <1>5, NextSteps
  <2>3. Staging(command'.steps)
    <3>1. command'.steps = << >>
      <4>1. command.steps = <<"rmdir">>
        BY <1>1, <1>2, DoingFacts DEF Deleting
      <4> QED BY <1>1, <1>5, <4>1, NextSteps
    <3> QED BY <3>1 DEF Staging
  <2> QED BY <1>1, <1>5, <2>1, <2>2, <2>3, QuarantineStepKeeps
<1> QED BY <1>4, <1>5 DEF RemoveDirectory

LEMMA MoveFileKeeps ==
    ASSUME PruneInv, MoveFile
    PROVE  PruneInv'
<1>1. Doing("move") /\ "move" \in Steps \ {"load", "mkdir"}
  BY DEF MoveFile, Steps
<1>2. /\ command # Idle /\ pending = Idle /\ chain = Stopped
      /\ quarantine # Absent /\ quarantine \in Quarantines /\ ~ Staging(command.steps)
  BY <1>1, DoingFacts, DoingQuarantine
<1>3. CASE EndCommand
  BY <1>2, <1>3, EndCommandKeeps
<1>4. CASE NextStep /\ UNCHANGED <<vars, quarantine>>
  <2>1. Staged' /\ QuarantineComplete' /\ quarantine' \in Quarantines
    BY <1>2, <1>4, MarkerKept DEF vars
  <2>2. ~ Filling(command'.steps) /\ ~ Deleting(command'.steps)
    BY <1>1, <1>4, NextSteps
  <2> QED BY <1>1, <1>2, <1>4, <2>1, <2>2, QuarantineStepKeeps
<1>5. ASSUME NEW e \in quarantine.manifest,
             files[e.copy][e.height] = e.value,
             files' = [files EXCEPT ![e.copy][e.height] = Missing],
             quarantine' = [quarantine EXCEPT !.files[e.copy][e.height] = e.value],
             UNCHANGED <<checkpoints, snapshots, chain, digests, pending, acked, command>>
      PROVE  PruneInv'
  <2>1. e.copy \in Copies /\ e.height \in Heights /\ e.value \in Certs \cup {Damaged}
    BY <1>2 DEF Quarantines, Entries
  <2>2. StoreInv'
    BY <1>2, <1>5, <2>1, RemoveKeeps DEF PruneInv, Staged
  <2>3. /\ quarantine' \in Quarantines /\ quarantine' # Absent
        /\ quarantine'.manifest = quarantine.manifest /\ quarantine'.deleting = quarantine.deleting
    <3> DEFINE new == [quarantine.files EXCEPT ![e.copy][e.height] = e.value]
    <3>1. new \in [Copies -> [Heights -> Certs \cup {Missing, Damaged}]]
      BY <1>2, <2>1 DEF Quarantines
    <3>2. quarantine' = [quarantine EXCEPT !.files = new]
      BY <1>2, <1>5 DEF Quarantines
    <3> HIDE DEF new
    <3>3. /\ quarantine' \in Quarantines
          /\ quarantine'.manifest = quarantine.manifest /\ quarantine'.deleting = quarantine.deleting
      BY <1>2, <3>1, <3>2 DEF Quarantines
    <3> QED BY <3>3, PruningConstants
  <2>4. \A k \in Copies, h \in Heights :
            /\ files'[k][h] = IF k = e.copy /\ h = e.height THEN Missing ELSE files[k][h]
            /\ quarantine'.files[k][h] =
                  IF k = e.copy /\ h = e.height THEN e.value ELSE quarantine.files[k][h]
    BY <1>2, <1>5, <2>1 DEF Quarantines, PruneInv, PruneTypeOK, TypeOK
  <2>5. Staged'
    BY <1>2, <1>5, <2>3 DEF PruneInv, Staged
  <2>6. ASSUME NEW f \in quarantine.manifest, ~ quarantine.deleting
        PROVE  \/ quarantine'.files[f.copy][f.height] = f.value
               \/ files'[f.copy][f.height] \in {f.value, Damaged}
    <3>1. f.copy \in Copies /\ f.height \in Heights
      BY <1>2 DEF Quarantines, Entries
    <3>2. CASE f.copy = e.copy /\ f.height = e.height
      <4>1. f = e
        BY <1>2, <3>2 DEF PruneInv, Staged
      <4> QED BY <2>1, <2>4, <4>1
    <3>3. CASE ~ (f.copy = e.copy /\ f.height = e.height)
      BY <1>2, <2>4, <2>6, <3>1, <3>3 DEF PruneInv, QuarantineComplete
    <3> QED BY <3>2, <3>3
  <2>7. QuarantineComplete'
    BY <1>2, <2>3, <2>6 DEF QuarantineComplete
  <2>8. PruneTypeOK' /\ Hashed'
    BY <1>2, <1>5, <2>2, <2>3 DEF PruneInv, PruneTypeOK, StoreInv, Hashed
  <2>9. CommandInv'
    <3>1. ~ Filling(command.steps)
      BY <1>1, DoingFacts DEF Filling
    <3> QED BY <1>2, <1>5, <2>3, <3>1 DEF PruneInv, CommandInv
  <2> QED BY <1>2, <1>5, <2>2, <2>5, <2>7, <2>8, <2>9 DEF PruneInv
<1> QED BY <1>3, <1>4, <1>5 DEF MoveFile

-----------------------------------------------------------------------------
(* Theorems                                                                *)

LEMMA PruneInitInv == PruneInit => PruneInv
<1> SUFFICES ASSUME PruneInit PROVE PruneInv
  OBVIOUS
<1>1. Genesis \in Chains
  <2>1. 0 \in 0..MaxHeight
    BY StoreConstants
  <2>2. << >> \in [(0 + 1)..0 -> Certs]
    OBVIOUS
  <2>3. [base |-> 0, height |-> 0, certs |-> << >>] \in Chains
    BY ONLY <2>1, <2>2, ChainMade
  <2> QED BY <2>3 DEF Genesis
<1>2. Genesis.base = 0 /\ Genesis.height = 0 /\ Covered(Genesis) = {}
  BY DEF Genesis, Covered
<1>3. TypeOK
  BY <1>1, StoreConstants DEF PruneInit, Init, TypeOK
<1>4. \E truth \in [Heights -> Certs] : Faithful(truth)
  <2>1. PICK cert \in Certs : TRUE
    BY StoreConstants
  <2>2. [h \in Heights |-> cert] \in [Heights -> Certs]
    OBVIOUS
  <2>3. PICK truth \in [Heights -> Certs] : TRUE
    BY <2>2
  <2>4. Faithful(truth)
    BY <1>2, StoreConstants DEF PruneInit, Init, Faithful, True
  <2> QED BY <2>4
<1>5. \A h \in Heights : ~ Known(h)
  BY <1>2, StoreConstants DEF PruneInit, Init, Known, Heights
<1>6. Contiguous
  BY <1>5 DEF Contiguous
<1>7. Anchored
  BY <1>1, <1>2, StoreConstants DEF PruneInit, Init, Anchored, Older, Copies
<1>8. pending = Idle /\ chain = Stopped /\ command = Idle /\ quarantine = Absent
      /\ \A h \in Heights : digests[h] = Unhashed
  BY DEF PruneInit, Init
<1> QED BY <1>3, <1>4, <1>6, <1>7, <1>8
        DEF PruneInv, StoreInv, PruneTypeOK, Ordered, Hashed, CommandInv, Staged, QuarantineComplete

\* The invariant is inductive, when no write fails under a process that goes on
\* and no operator installs a snapshot.
LEMMA PruneStepInv ==
    ASSUME ~ IOErrors, ~ OperatorInstalls, PruneInv, [PruneNext]_pruneVars
    PROVE  PruneInv'
<1>1. CASE UNCHANGED pruneVars
  <2>1. UNCHANGED <<files, checkpoints, snapshots, chain, digests, pending, acked, command, quarantine>>
    BY <1>1 DEF pruneVars
  <2>2. StoreInv'
    BY <2>1, StoreStutters DEF PruneInv
  <2>3. Staged' /\ QuarantineComplete'
    BY <2>1, DamageAbove, StagedKept DEF PruneInv
  <2>4. PruneTypeOK' /\ Hashed' /\ CommandInv'
    BY <2>1, <2>2 DEF PruneInv, PruneTypeOK, StoreInv, Hashed, Top, CommandInv
  <2> QED BY <2>1, <2>2, <2>3, <2>4 DEF PruneInv
<1>2. CASE PruneNext
  BY <1>2, NodeKeeps, CommandKeeps, LoadStoreKeeps, LoadStepKeeps, LoadReturnsKeeps,
     MakeDirectoryKeeps, WriteManifestKeeps, MoveFileKeeps, WriteVerifiedKeeps,
     WriteFinalizingKeeps, DeleteFileKeeps, RemoveDirectoryKeeps, EndCommandKeeps
     DEF PruneNext, CommandEnds
<1> QED BY <1>1, <1>2

\* What is in memory, on disk and in the quarantine has its shape.
THEOREM PruneTypeCorrect ==
    ASSUME ~ IOErrors, ~ OperatorInstalls
    PROVE  PruneSpec => []PruneTypeOK
<1>1. PruneInv => PruneTypeOK
  BY DEF PruneInv
<1> QED BY <1>1, PruneInitInv, PruneStepInv, PTL DEF PruneSpec

\* The node recovers: at every step of an operation or a pruning command, and
\* with one copy of everything damaged, loadBlockStore succeeds and reaches the
\* height the node has answered for.
THEOREM RecoverableHolds ==
    ASSUME ~ IOErrors, ~ OperatorInstalls
    PROVE  PruneSpec => []Recoverable
<1>1. PruneInv => Recoverable
  BY StoreInvRecoverable DEF PruneInv
<1> QED BY <1>1, PruneInitInv, PruneStepInv, PTL DEF PruneSpec

\* No block file is lost by pruning before finalizeBlockPruning deletes it: it
\* is in the journal or in the quarantine, as the manifest lists it.
THEOREM QuarantineCompleteHolds ==
    ASSUME ~ IOErrors, ~ OperatorInstalls
    PROVE  PruneSpec => []QuarantineComplete
<1>1. PruneInv => QuarantineComplete
  BY DEF PruneInv
<1> QED BY <1>1, PruneInitInv, PruneStepInv, PTL DEF PruneSpec

\* Every checkpoint has the exact digests of the journal's files.
THEOREM ChecksumsExactHolds ==
    ASSUME ~ IOErrors, ~ OperatorInstalls
    PROVE  PruneSpec => []ChecksumsExact
<1>1. PruneInv => ChecksumsExact
  BY StoreInvExact DEF PruneInv
<1> QED BY <1>1, PruneInitInv, PruneStepInv, PTL DEF PruneSpec

\* A load that returns has repaired both copies of everything.
THEOREM LoadRestoresCopiesHolds ==
    ASSUME ~ IOErrors, ~ OperatorInstalls
    PROVE  PruneSpec => [][LoadRestoresCopies]_pruneVars
<1>1. PruneInv => LoadRestoresCopies
  BY ReturnRestores DEF PruneInv
<1>2. PruneInv /\ [PruneNext]_pruneVars => [LoadRestoresCopies]_pruneVars
  BY <1>1
<1> QED BY <1>2, PruneInitInv, PruneStepInv, PTL DEF PruneSpec

=============================================================================
