--------------------------- MODULE AccountHistory ---------------------------
(***************************************************************************)
(* The account history index: the two journals of records, the database    *)
(* built from them, the Merkle commitments of one account, the crash-safe  *)
(* installation of an archived history, and the restoration of one from    *)
(* several archive operators.  "node" is the single-process node that      *)
(* writes its blocks and its history in one commit, with its heartbeat and *)
(* its faucet.                                                             *)
(***************************************************************************)
EXTENDS Integers, Sequences, SequencesExt, FiniteSets

CONSTANTS Accounts,       \* the addresses the faucet may pay
          MaxHeight,      \* bound on the blocks of a behaviour
          MaxBuilt,       \* bound on the blocks built, with the abandoned ones
          MaxFaults,      \* bound on stops, failed writes and lost files
          RevealTimeout,  \* blocks in which a beacon round is revealed
          Depth,          \* levels of the Merkle tree of one account
          Sources, Operators, FaultyOperators, MinimumSources

VARIABLES mode, node, tree, inst, arch
vars == <<mode, node, tree, inst, arch>>
Only(v) ==
    /\ UNCHANGED mode
    /\ v # "node" => UNCHANGED node
    /\ v # "tree" => UNCHANGED tree
    /\ v # "inst" => UNCHANGED inst
    /\ v # "arch" => UNCHANGED arch
-----------------------------------------------------------------------------
\* The node.  A block is a number and what it does; a record at height h commits to the
\* blocks up to h, and is written here as their sequence.
Kinds == Accounts \union {"empty", "beacon", "reveal"}
Copies == 1..2
NoBlock == [id |-> 0, kind |-> "empty"]
Heights == 1..MaxHeight
chain == SubSeq(node.journal, 1, node.height) \* the chain in memory
kinds(s) == {s[k].kind : k \in 1..Len(s)}
count(s, kind) == Cardinality({k \in 1..Len(s) : s[k].kind = kind})

\* A beacon round is committed and not revealed; a task is open after a reveal.
roundCommitted(s) == count(s, "beacon") > count(s, "reveal")
taskOpen(s) == count(s, "reveal") > 0
committedAt(s) == CHOOSE k \in 1..Len(s) : s[k].kind = "beacon" /\
                    \A j \in k + 1..Len(s) : s[j].kind # "beacon"
\* The ledger refuses a second commit of a round, and every block once a round that cannot
\* lose its members is overdue.
Buildable(s, kind) ==
    /\ kind = "beacon" => ~roundCommitted(s)
    /\ kind = "reveal" => roundCommitted(s)
    /\ roundCommitted(s) => Len(s) + 1 <= committedAt(s) + RevealTimeout

Commit(kind, then) ==
    /\ mode = "node" /\ node.pc = "idle" /\ node.then = "none"
    /\ node.height < MaxHeight /\ node.built < MaxBuilt
    /\ Buildable(chain, kind)
    /\ node' = [node EXCEPT !.built = @ + 1, !.pc = "persist", !.then = then,
                            !.block = [id |-> node.built + 1, kind |-> kind]]
    /\ Only("node")

\* One payment per fresh address, judged on the chain in memory.
faucet(a) == a \notin kinds(chain) /\ Commit(a, "none")

\* The heartbeat: a block while a task is open, else the two blocks of a beacon round.
tick == \/ taskOpen(chain) /\ Commit("empty", "none")
        \/ ~taskOpen(chain) /\ Commit("beacon", "reveal")
tickReveals ==
    /\ mode = "node" /\ node.pc = "idle" /\ node.then = "reveal"
    /\ node.height < MaxHeight /\ node.built < MaxBuilt
    /\ node' = [node EXCEPT !.built = @ + 1, !.pc = "persist", !.then = "none",
                            !.block = [id |-> node.built + 1, kind |-> "reveal"]]
    /\ Only("node")

Step(pc, r) == /\ mode = "node" /\ node.pc = pc /\ node' = r /\ Only("node")
Thrown == [node EXCEPT !.pc = "idle", !.then = "none", !.block = NoBlock,
                       !.cut = @ \/ node.then = "reveal" \/ node.block.kind = "reveal"]

\* The journal refuses another block at a height it holds, in either of its copies.
Journaled == [node EXCEPT !.journal = Append(@, node.block)]
persistBlock ==
    Step("persist", IF Len(node.journal) > node.height THEN Thrown
                    ELSE [Journaled EXCEPT !.pc = "primary"])

\* A record is valid where it follows the records before it.
Record(h) == SubSeq(node.journal, 1, h)
verifyRecord(c, h, previous) ==
    LET r == node.record[c][h] IN
    /\ Len(r) = h
    /\ SubSeq(r, 1, h - 1) = previous
createRecord(c, h) == [node EXCEPT !.record[c][h] = Record(h)]

\* The history of the block: both journals, then the database in one transaction.
writePrimary == Step("primary", [createRecord(1, node.height + 1) EXCEPT !.pc = "backup"])
writeBackup == Step("backup", [createRecord(2, node.height + 1) EXCEPT !.pc = "database"])
appendRecord ==
    Step("database", [node EXCEPT !.database = Record(node.height + 1), !.height = @ + 1,
                                  !.pc = "idle", !.acked = Append(@, node.block),
                                  !.block = NoBlock])

Faulty(r) == node.faults < MaxFaults /\ node' = [r EXCEPT !.faults = node.faults + 1]
\* The block may have reached one copy of the journal when its write fails or is stopped;
\* the next start takes it from there.
StopsAt(pc) ==
    \/ Faulty([Thrown EXCEPT !.pc = pc, !.torn = TRUE])
    \/ /\ node.pc = "persist" /\ Len(node.journal) = node.height
       /\ Faulty([Thrown EXCEPT !.pc = pc, !.torn = TRUE, !.journal = Journaled.journal])
\* A write fails: the exception leaves the chain in memory as it was.
writeFails ==
    /\ mode = "node" /\ node.pc \in {"persist", "primary", "backup", "database"}
    /\ StopsAt("idle") /\ Only("node")
crash == mode = "node" /\ node.pc # "down" /\ StopsAt("down") /\ Only("node")
\* One copy of a record, or the database, is lost or damaged.
loseRecord(c, h) ==
    /\ mode = "node" /\ node.record[c][h] # <<>>
    /\ Faulty([node EXCEPT !.record[c][h] = <<>>]) /\ Only("node")
loseDatabase ==
    /\ mode = "node" /\ node.pc = "down"
    /\ Faulty([node EXCEPT !.database = <<>>]) /\ Only("node")

\* Opening: the chain comes from the journal (with or without a resume snapshot), then the
\* database is taken if it is the chain's and its last record is in a copy that agrees.
loadChain == Step("down", [node EXCEPT !.height = Len(node.journal), !.pc = "check",
                                                !.torn = FALSE])
selfVerified(c, h) == Len(node.record[c][h]) = h
verifyLatestRecordCopies ==
    LET h == node.height
        valid == {c \in Copies : h > 0 /\ selfVerified(c, h) /\ node.record[c][h] = node.database}
    IN \/ h = 0
       \/ /\ valid # {}
          /\ (\A c \in Copies : selfVerified(c, h)) => node.record[1][h] = node.record[2][h]
matchesCommitments == node.database = chain
Repaired == IF node.height = 0 THEN node
            ELSE [node EXCEPT !.record = [c \in Copies |->
                    [node.record[c] EXCEPT ![node.height] = node.database]]]
\* A variant that trusts the last record alone.
CheckRecordOnly ==
    \/ /\ node.database # <<>>
       /\ Step("check", [node EXCEPT !.pc = "idle"])
    \/ /\ node.database = <<>>
       /\ Step("check", [node EXCEPT !.pc = "load", !.loaded = 0])
openDatabase ==
    \/ /\ verifyLatestRecordCopies /\ matchesCommitments
       /\ Step("check", [Repaired EXCEPT !.pc = "idle"])
    \/ /\ ~(verifyLatestRecordCopies /\ matchesCommitments)
       /\ Step("check", [node EXCEPT !.pc = "load", !.loaded = 0])

\* Otherwise it is rebuilt, one height after the other, from either copy or from the block;
\* the copy that differs is written again.
retained(h) == h > node.base
Candidates(h) == {c \in Copies : verifyRecord(c, h, SubSeq(node.journal, 1, h - 1))}
loadRecord ==
    LET h == node.loaded + 1
        found == Candidates(h)
    IN
    /\ h <= node.height
    /\ IF \/ found = {} /\ ~retained(h)
          \/ found = Copies /\ node.record[1][h] # node.record[2][h]
       THEN Step("load", [node EXCEPT !.pc = "refused"])
       ELSE Step("load", [node EXCEPT !.loaded = h, !.record =
                [c \in Copies |-> [node.record[c] EXCEPT ![h] = Record(h)]]])
sealCheckpoint ==
    /\ node.loaded = node.height
    /\ Step("load", [node EXCEPT !.database = chain, !.pc = "idle"])

NodeStart(base) ==
    [built |-> base, journal |-> [k \in 1..base |-> [id |-> k, kind |-> "empty"]],
     height |-> base, base |-> base, pc |-> "idle", then |-> "none", block |-> NoBlock,
     acked |-> [k \in 1..base |-> [id |-> k, kind |-> "empty"]],
     record |-> [c \in Copies |-> [h \in Heights |->
                    IF h > base THEN <<>> ELSE [k \in 1..h |-> [id |-> k, kind |-> "empty"]]]],
     database |-> [k \in 1..base |-> [id |-> k, kind |-> "empty"]],
     loaded |-> 0, faults |-> 0, cut |-> FALSE, torn |-> FALSE]
NodeStep ==
    \/ \E a \in Accounts : faucet(a)
    \/ tick \/ tickReveals \/ persistBlock \/ writePrimary \/ writeBackup \/ appendRecord
    \/ writeFails \/ crash \/ loseDatabase
    \/ \E c \in Copies, h \in Heights : loseRecord(c, h)
    \/ loadChain \/ openDatabase \/ loadRecord \/ sealCheckpoint
-----------------------------------------------------------------------------
\* The commitments of one account: the frontier that the ledger keeps, and the nodes that
\* the database keeps.  A hash is the term it is taken of.
Ids == {"x", "y"}
leaf(id, i) == <<"leaf", i, id>>
hash(l, r) == <<"node", l, r>>
emptyHash[l \in 0..Depth] == IF l = 0 THEN <<"empty", 0, 0>>
                             ELSE hash(emptyHash[l - 1], emptyHash[l - 1])
bit(i, l) == (i \div 2^l) % 2
siblingPosition(p) == IF p % 2 = 0 THEN p + 1 ELSE p - 1

rootFromFrontier(frontier, n) ==
    LET up[l \in 0..Depth] == IF l = 0 THEN emptyHash[0]
                              ELSE IF bit(n, l - 1) = 1 THEN hash(frontier[l - 1], up[l - 1])
                              ELSE hash(up[l - 1], emptyHash[l - 1])
    IN up[Depth]
\* The value carried to the first level whose bit is zero; the levels below are emptied
\* (all of them, and the value is lost, when no bit is zero).
appendAccountHistory(frontier, n, id) ==
    LET free == CHOOSE l \in 0..Depth : /\ l < Depth => bit(n, l) = 0
                                        /\ \A k \in 0..l - 1 : bit(n, k) = 1
        carry[l \in 0..Depth] == IF l = 0 THEN leaf(id, n) ELSE hash(frontier[l - 1], carry[l - 1])
    IN [l \in 0..Depth - 1 |-> IF l < free THEN emptyHash[0]
                               ELSE IF l = free THEN carry[l] ELSE frontier[l]]
\* The nodes on the path of leaf n; a position not in the table is empty.
At(nodes, l, p) == IF <<l, p>> \in DOMAIN nodes THEN nodes[<<l, p>>] ELSE emptyHash[l]
appendNodes(nodes, n, id) ==
    LET value[l \in 0..Depth] ==
            IF l = 0 THEN leaf(id, n)
            ELSE LET p == n \div 2^(l - 1)
                     s == At(nodes, l - 1, siblingPosition(p)) IN
                 IF p % 2 = 0 THEN hash(value[l - 1], s) ELSE hash(s, value[l - 1])
    IN [k \in DOMAIN nodes \union {<<l, n \div 2^l>> : l \in 0..Depth} |->
            IF \E l \in 0..Depth : k = <<l, n \div 2^l>> THEN value[k[1]] ELSE nodes[k]]
\* The entries of a page come with the siblings of their path.
page(nodes, i) == [l \in 0..Depth - 1 |-> At(nodes, l, siblingPosition(i \div 2^l))]
verifyAccountHistoryEntry(id, i, siblings, root) ==
    LET value[l \in 0..Depth] ==
            IF l = 0 THEN leaf(id, i)
            ELSE IF (i \div 2^(l - 1)) % 2 = 0 THEN hash(value[l - 1], siblings[l - 1])
                 ELSE hash(siblings[l - 1], value[l - 1])
    IN value[Depth] = root

append(id) ==
    /\ mode = "tree" /\ Len(tree.ids) < 2^Depth
    /\ LET n == Len(tree.ids) IN
       tree' = [ids |-> Append(tree.ids, id),
                frontier |-> appendAccountHistory(tree.frontier, n, id),
                nodes |-> appendNodes(tree.nodes, n, id)]
    /\ Only("tree")
-----------------------------------------------------------------------------
\* Installing an archived history: two staged copies, a marker, then the live copies are
\* replaced one after the other.
Places == {<<"staged", 1>>, <<"staged", 2>>, <<"live", 1>>, <<"live", 2>>}
Order == <<<<"staged", 1>>, <<"staged", 2>>, <<"live", 1>>, <<"live", 2>>>>
InstStep(pc, r) == /\ mode = "install" /\ inst.pc = pc /\ inst' = r /\ Only("inst")
Put(p, v, pc) == [inst EXCEPT !.set[p] = v, !.pc = pc]
clearStaging == InstStep("begin", [inst EXCEPT !.pc = "stage", !.set = [p \in Places |->
                            IF p[1] = "staged" THEN "part" ELSE inst.set[p]]])
\* The records are verified as they are staged.
stageRecords == InstStep("stage", [inst EXCEPT !.pc = "mark", !.set = [p \in Places |->
                            IF p[1] = "staged" THEN "whole" ELSE inst.set[p]]])
verifyStaged ==
    IF \A p \in Places : p[1] = "staged" => inst.set[p] = "whole"
    THEN InstStep("mark", [inst EXCEPT !.pc = "finish", !.marker = TRUE])
    ELSE InstStep("mark", [inst EXCEPT !.pc = "failed"])
verifyRecordDirectory(p) == inst.set[p] = "whole"
\* The first place whose records verify is the source for the live copies.
finishPreparedInstallation ==
    LET found == SelectSeq(Order, verifyRecordDirectory) IN
    IF found = <<>> THEN InstStep("finish", [inst EXCEPT !.pc = "lost"])
    ELSE InstStep("finish", [inst EXCEPT !.source = Head(found), !.pc = "clear1"])
ClearPc(c) == IF c = 1 THEN "clear1" ELSE "clear2"
FillPc(c) == IF c = 1 THEN "fill1" ELSE "fill2"
AfterCopy(c) == IF c = 1 THEN "clear2" ELSE "unmark"
copyRecordSet(c) ==
    \/ /\ inst.source = <<"live", c>>
       /\ InstStep(ClearPc(c), [inst EXCEPT !.pc = AfterCopy(c)])
    \/ /\ inst.source # <<"live", c>>
       /\ InstStep(ClearPc(c), Put(<<"live", c>>, "part", FillPc(c)))
    \/ InstStep(FillPc(c), IF verifyRecordDirectory(inst.source)
                           THEN Put(<<"live", c>>, "whole", AfterCopy(c))
                           ELSE [inst EXCEPT !.pc = "failed"])
removeMarker ==
    IF \A c \in Copies : verifyRecordDirectory(<<"live", c>>)
    THEN InstStep("unmark", [inst EXCEPT !.marker = FALSE, !.pc = "clean"])
    ELSE InstStep("unmark", [inst EXCEPT !.pc = "failed"])
removeStaging == InstStep("clean", [inst EXCEPT !.pc = "done", !.set = [p \in Places |->
                            IF p[1] = "staged" THEN "part" ELSE inst.set[p]]])
\* A stop anywhere; a copy damaged; the next start finishes what the marker promises.
instCrash ==
    /\ mode = "install" /\ inst.pc \notin {"lost", "down"} /\ inst.stops < MaxFaults
    /\ inst' = [inst EXCEPT !.pc = "down", !.stops = @ + 1] /\ Only("inst")
instDamage(p) ==
    /\ mode = "install" /\ inst.set[p] = "whole" /\ inst.lost < 2
    /\ inst' = [inst EXCEPT !.set[p] = "part", !.lost = @ + 1] /\ Only("inst")
instOpen == InstStep("down", [inst EXCEPT !.pc = IF inst.marker THEN "finish" ELSE "begin"])
InstallStep ==
    \/ clearStaging \/ stageRecords \/ verifyStaged \/ finishPreparedInstallation
    \/ removeMarker \/ removeStaging \/ instCrash \/ instOpen
    \/ \E c \in Copies : copyRecordSet(c)
    \/ \E p \in Places : instDamage(p)
-----------------------------------------------------------------------------
\* Restoring from archive operators.  What a source offers is signed by its operator:
\* the true content, another one that also fits the chain, or nothing valid.
Roots == {"true", "forged", "none"}
createSignedHistoryArchive(op) == IF op \in FaultyOperators THEN Roots ELSE {"true", "none"}
ArchiveStart(offers) == [offer |-> offers, left |-> Sources, providers |-> {}, pc |-> "ask",
                         tried |-> {}, gone |-> {}, installed |-> "none"]
verifySignedHistoryArchiveManifest(s) == arch.offer[s].root # "none"
\* A manifest arrives and verifies, or the source is passed over.
fetchVerifiedManifest(s) ==
    /\ mode = "archive" /\ arch.pc = "ask" /\ s \in arch.left
    /\ arch' = [arch EXCEPT !.left = @ \ {s}, !.providers =
                    IF verifySignedHistoryArchiveManifest(s) THEN @ \union {s} ELSE @]
    /\ Only("arch")
roots == {arch.offer[s].root : s \in arch.providers}
signers == {arch.offer[s].op : s \in arch.providers}
selectRemoteManifests ==
    IF \/ Cardinality(signers) < Cardinality(arch.providers)
       \/ Cardinality(roots) > 1
       \/ Cardinality(arch.providers) < MinimumSources
    THEN "failed" ELSE "get"
manifestsSelected ==
    /\ mode = "archive" /\ arch.pc = "ask" /\ arch.left = {}
    /\ arch' = [arch EXCEPT !.pc = selectRemoteManifests] /\ Only("arch")
\* The archive of a source is replaced, or it stops answering, while we download.
sourceGone(s) ==
    /\ mode = "archive" /\ s \in arch.providers \ arch.gone /\ arch.pc = "get"
    /\ arch' = [arch EXCEPT !.gone = @ \union {s}] /\ Only("arch")
verifyHistoryArchiveChunk(s) == s \notin arch.gone
nextProvider(s) ==
    arch' = [arch EXCEPT !.tried = @ \union {s},
                         !.pc = IF arch.providers = arch.tried \union {s} THEN "failed" ELSE "get"]
downloadChunksToDirectory(s) ==
    /\ mode = "archive" /\ arch.pc = "get" /\ s \in arch.providers \ arch.tried
    /\ \/ /\ verifyHistoryArchiveChunk(s)
          /\ arch' = [arch EXCEPT !.pc = "done", !.installed = arch.offer[s].root]
       \/ ~verifyHistoryArchiveChunk(s) /\ nextProvider(s)
    /\ Only("arch")
ArchiveStep ==
    \/ manifestsSelected
    \/ \E s \in Sources : fetchVerifiedManifest(s) \/ sourceGone(s) \/ downloadChunksToDirectory(s)
-----------------------------------------------------------------------------
Init ==
    /\ mode \in {"node", "tree", "install", "archive"}
    /\ IF mode = "node" THEN \E base \in 0..1 : node = NodeStart(base) ELSE node = NodeStart(0)
    /\ tree = [ids |-> <<>>, frontier |-> [l \in 0..Depth - 1 |-> emptyHash[0]], nodes |-> <<>>]
    /\ inst = [set |-> [p \in Places |-> "part"], marker |-> FALSE, pc |-> "begin",
               source |-> <<"live", 1>>, stops |-> 0, lost |-> 0]
    /\ IF mode = "archive"
       THEN \E op \in [Sources -> Operators], root \in [Sources -> Roots] :
              /\ \A s \in Sources : root[s] \in createSignedHistoryArchive(op[s])
              /\ arch = ArchiveStart([s \in Sources |-> [op |-> op[s], root |-> root[s]]])
       ELSE arch = ArchiveStart([s \in Sources |-> [op |-> CHOOSE o \in Operators : TRUE,
                                                    root |-> "none"]])
Next == NodeStep \/ (\E id \in Ids : append(id)) \/ InstallStep \/ ArchiveStep
Spec == Init /\ [][Next]_vars
-----------------------------------------------------------------------------
\* What the index answers is the history of the chain in memory: a commit that failed half
\* way, a stop, and a database of another height never show through.
HistoryAgrees == node.pc = "idle" => node.database = chain

\* A block whose caller was answered is in the journal at its height, whatever fails later,
\* and no address is paid twice by the faucet although callers retry what failed.
FaucetOnce == /\ \A k \in 1..Len(node.acked) : \E j \in 1..Len(node.journal) :
                    node.journal[j] = node.acked[k]
              /\ \A a \in Accounts : count(node.journal, a) <= 1

\* The index opens after any faults, unless both copies of a record are gone whose block
\* has been pruned.
IndexOpens == node.pc = "refused" =>
                \E h \in 1..node.base : \A c \in Copies : node.record[c][h] = <<>>

\* The heartbeat can go on, unless it was stopped between the two blocks of a round, or a
\* write failed after the journal took the block: then only a restart helps, because every
\* other block of that height is refused.
HeartbeatGoesOn == node.pc = "idle" /\ node.then = "none" /\ node.height < MaxHeight =>
    \/ node.cut \/ node.torn
    \/ /\ Len(node.journal) = node.height
       /\ Buildable(chain, IF taskOpen(chain) THEN "empty" ELSE "beacon")

\* The node table and the tree of all entries have one root; each entry's proof verifies
\* for its own transaction and for no other.  The frontier has that root too, except in the
\* full tree, where it has the root of no entry at all, which the code takes for invalid.
HistoryRoots ==
    LET n == Len(tree.ids)
        full[l \in 0..Depth] == [p \in 0..2^(Depth - l) - 1 |->
            IF l = 0 THEN IF p < n THEN leaf(tree.ids[p + 1], p) ELSE emptyHash[0]
            ELSE hash(full[l - 1][2 * p], full[l - 1][2 * p + 1])]
        root == full[Depth][0]
    IN mode = "tree" =>
        /\ rootFromFrontier(tree.frontier, n) = IF n < 2^Depth THEN root ELSE emptyHash[Depth]
        /\ At(tree.nodes, Depth, 0) = root
        /\ \A i \in 0..n - 1, id \in Ids :
            verifyAccountHistoryEntry(id, i, page(tree.nodes, i), root) <=> id = tree.ids[i + 1]

\* Once the marker is written the installation survives any stop and the loss of one copy.
InstallResumes == inst.pc = "lost" => inst.lost >= 2

\* With fewer faulty operators than the sources that must agree, what is installed is the
\* true history; and two answering honest operators suffice when nobody disagrees.
ArchiveAgreed ==
    /\ arch.installed # "forged"
    /\ arch.pc = "failed" /\ arch.providers # {} /\ selectRemoteManifests = "get" =>
            arch.providers \subseteq arch.gone
=============================================================================
