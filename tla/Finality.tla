------------------------------ MODULE Finality ------------------------------
(***************************************************************************)
(* Two-phase finality of the NIR chain: ValidatorReplica's vote, timeout,  *)
(* commitVote, finalizeProposal and commit (blockchain/distributed-node    *)
(* .mjs), the producer sessions and P2P handlers that call them            *)
(* (blockchain/validator-service.mjs) and the certificate checks of        *)
(* NirChain (blockchain/chain.mjs).                                        *)
(*                                                                         *)
(* A block is identified by its blockHash, which commits to previousHash   *)
(* and to the block's contents and to nothing of the round, the proposer   *)
(* or the certificates.  The model's block is therefore the sequence of    *)
(* the contents (payloads) of the chain that ends in it: Len(b) is its     *)
(* height, Parent(b) the block its previousHash names, and a chain is the  *)
(* block at its tip.                                                       *)
(*                                                                         *)
(* Every decision of a replica is a file that the handler writes before it *)
(* lets the signature go (prepares/, timeouts/, commits/), and every       *)
(* handler decides from the files alone, so a restarted replica continues  *)
(* from exactly this state.  A producer session keeps nothing else: a      *)
(* session that crashes, loses an answer or fails a quorum is a session    *)
(* that takes no further step, and a later session finds the same files.   *)
(* Messages are the signatures themselves: a signature once given may      *)
(* reach anybody at any later time, or nobody.                             *)
(***************************************************************************)
EXTENDS Integers, Sequences, FiniteSets

CONSTANTS
    Validators,     \* addresses, as naturals: < is the order of the addresses
    Byzantine,      \* the validators that may sign anything
    Genesis,        \* the genesis validator set
    Payloads,       \* block contents
    Rotation,       \* Rotation[x]: the set payload x schedules, {} for none
    RotationDelay,  \* blocks from the scheduling block to the activation
    AnswerSets,     \* bound: the sets of validators whose prepares come together
    MaxCertifications, \* bound: certificates a replica commits a block with
    MaxHeight,      \* bound: heights explored
    MaxRound        \* MAX_CONSENSUS_ROUND

ASSUME ConstantsAssumption ==
    /\ Validators \subseteq Nat /\ IsFiniteSet(Validators)
    /\ Byzantine \subseteq Validators
    /\ Genesis \subseteq Validators
    /\ Rotation \in [Payloads -> SUBSET Validators]
    /\ RotationDelay \in Nat \ {0}
    /\ AnswerSets \subseteq SUBSET Validators
    /\ MaxHeight \in Nat
    /\ MaxRound \in Nat

ValidatorSets == {Genesis} \cup ({Rotation[x] : x \in Payloads} \ {{}})

\* The fault model: fewer than a third of every validator set is Byzantine.
ASSUME FaultAssumption ==
    \A S \in ValidatorSets : 3 * Cardinality(S \cap Byzantine) < Cardinality(S)

VARIABLES
    chain,       \* chain[v]: the finalized chain replica v has persisted
    prepares,    \* prepares/<height>-<round>.json files of every replica
    timeouts,    \* timeouts/<height>-<round>.json files
    commitVotes  \* the contents commits/<height>.json files have had

vars == <<chain, prepares, timeouts, commitVotes>>

Honest == Validators \ Byzantine
Rounds == 0..MaxRound

\* The rounds a request may name: timeout computes round + 1 without looking at
\* MAX_CONSENSUS_ROUND, which only the chain's checks enforce.
NamedRounds == 0..(MaxRound + 1)

-----------------------------------------------------------------------------
(* Blocks and validator sets                                               *)

Parent(b) == SubSeq(b, 1, Len(b) - 1)
Payload(b) == b[Len(b)]

\* The heights at which chain c schedules a rotation that is active at height h.
Activated(c, h) ==
    {i \in 1..Len(c) : Rotation[c[i]] # {} /\ i + RotationDelay <= h}

\* validatorMembersForHeight: the set scheduled last among the activated ones.
validatorMembersForHeight(c, h) ==
    LET Last(i) == \A j \in Activated(c, h) : j <= i
    IN  IF \E i \in Activated(c, h) : Last(i)
        THEN Rotation[c[CHOOSE i \in Activated(c, h) : Last(i)]]
        ELSE Genesis

Required(c) == validatorMembersForHeight(c, Len(c) + 1)

\* The next block is the first of a rotated set: the old set signs as well.
AtBoundary(c) ==
    \E i \in 1..Len(c) : Rotation[c[i]] # {} /\ i + RotationDelay = Len(c) + 1

Previous(c) == validatorMembersForHeight(c, Len(c))

Accepted(c) == Required(c) \cup (IF AtBoundary(c) THEN Previous(c) ELSE {})

pendingValidatorRotation(c) ==
    \E i \in 1..Len(c) : Rotation[c[i]] # {} /\ i + RotationDelay > Len(c)

\* scheduleValidatorRotation: one rotation at a time, with one-third overlap.
ValidPayload(c, x) ==
    Rotation[x] # {} =>
        /\ ~ pendingValidatorRotation(c)
        /\ \/ 3 * Cardinality(Rotation[x] \cap Required(c)) >= Cardinality(Rotation[x])
           \/ 3 * Cardinality(Rotation[x] \cap Required(c)) >= Cardinality(Required(c))

-----------------------------------------------------------------------------
(* Quorums, signatures and certificates                                    *)

\* Mutant: two thirds instead of more than two thirds.
TwoThirds(voters, members) ==
    Cardinality(voters \cap members) >= (2 * Cardinality(members)) \div 3

\* Mutant: every member has to answer.
Unanimous(voters, members) ==
    Cardinality(voters \cap members) >= Cardinality(members)

\* floor(2n/3) + 1 of the members.
HasQuorum(voters, members) ==
    Cardinality(voters \cap members) >= (2 * Cardinality(members)) \div 3 + 1

\* Mutant: one answer of a member is enough.
AnyMember(voters, c) == voters \cap Required(c) # {}

\* requireSetQuorum over required and, at a boundary, over the previous set.
JointQuorum(voters, c) ==
    /\ HasQuorum(voters, Required(c))
    /\ AtBoundary(c) => HasQuorum(voters, Previous(c))

SignedPrepare(v, b, r) ==
    v \in Byzantine \/ [validator |-> v, block |-> b, round |-> r] \in prepares

SignedTimeout(v, b, r) ==
    v \in Byzantine \/ [validator |-> v, block |-> b, round |-> r] \in timeouts

SignedCommit(v, b, cert) ==
    \/ v \in Byzantine
    \/ \E r \in NamedRounds : [validator |-> v, block |-> b, round |-> r, cert |-> cert]
                                 \in commitVotes

\* Mutant: the round limit is not checked.
anyRoundCertificate(b, r) ==
    r > 0 => HasQuorum({v \in Validators : SignedTimeout(v, b, r)}, Required(Parent(b)))

\* verifyRoundCertificate: a round within the limit, and after the first one a
\* timeout quorum for this very block.
verifyRoundCertificate(b, r) ==
    /\ r <= MaxRound
    /\ r > 0 => HasQuorum({v \in Validators : SignedTimeout(v, b, r)}, Required(Parent(b)))

\* prepareCertificate: a quorum of prepares of one round, at most the proposal's.
prepareCertificate(b, r, cert) ==
    /\ cert.round <= r
    /\ \A v \in cert.voters : SignedPrepare(v, b, cert.round)
    /\ cert.voters \subseteq Accepted(Parent(b))
    /\ JointQuorum(cert.voters, Parent(b))

\* A certificate's round is at most the round of its proposal.
Certificates == [round : Rounds, voters : AnswerSets]

\* verifyCertificate: the finality certificate of a block, which anybody who
\* has the votes can put together.
verifyCertificate(b) ==
    \E cert \in Certificates :
        /\ JointQuorum({v \in Accepted(Parent(b)) : SignedCommit(v, b, cert)}, Parent(b))
        /\ \E r \in NamedRounds : prepareCertificate(b, r, cert) /\ verifyRoundCertificate(b, r)

\* The addresses of a validator set in order.
Order == [S \in ValidatorSets |->
            [i \in 0..(Cardinality(S) - 1) |->
                CHOOSE v \in S : Cardinality({w \in S : w < v}) = i]]

\* expectedProposer: position (height + round) mod n of the sorted addresses.
expectedProposer(c, r) ==
    LET order == Order[Required(c)]
    IN  order[(Len(c) + 1 + r) % Cardinality(DOMAIN order)]

\* validateProposal on the chain of replica v, and the rebuilt block's equality.
validateProposal(v, b, r) ==
    /\ Len(b) = Len(chain[v]) + 1
    /\ Parent(b) = chain[v]
    /\ ValidPayload(chain[v], Payload(b))
    /\ verifyRoundCertificate(b, r)

\* The blocks that extend v's chain.
Children(v) == {Append(chain[v], x) : x \in Payloads}

-----------------------------------------------------------------------------
(* What a producer session of v may hold                                   *)

\* Replica v has no lock at the height of b, or its lock is b.
LockAllows(v, b) ==
    \A l \in commitVotes : (l.validator = v /\ Len(l.block) = Len(b)) => l.block = b

\* validateLockedProposal: the proof replica v demands of a reported lock.
validateLockedProposal(v, l) ==
    /\ l.validator \in Accepted(chain[v])
    /\ validateProposal(v, l.block, l.round)
    /\ prepareCertificate(l.block, l.round, l.cert)

\* discoverLockedProposal: the locks that peers report.  Any subset of them may
\* answer, and what was read is used after awaits during which the lock may
\* have been re-certified, so every lock ever held may be the one selected.
discoverLockedProposal(v) == {l \in commitVotes : validateLockedProposal(v, l)}

\* preparedProposal(0), else buildProposal
FreshProposal(v, b) ==
    /\ b \in Children(v)
    /\ ValidPayload(chain[v], Payload(b))
    /\ \A p \in prepares :
          (p.validator = v /\ Len(p.block) = Len(b) /\ p.round = 0) => p.block = b

\* A session of v has proposal b at round r without a recovered certificate:
\* fresh, or advanced through timeouts that v itself signed.
HoldsUncertified(v, b, r) ==
    \/ r = 0 /\ FreshProposal(v, b)
    \/ /\ [validator |-> v, block |-> b, round |-> r] \in timeouts
       /\ verifyRoundCertificate(b, r)

\* produceValidatorBlock: a session of v has proposal b at round r, recovered
\* from a lock or not.
HoldsProposal(v, b, r) ==
    \/ HoldsUncertified(v, b, r)
    \/ \E l \in discoverLockedProposal(v) : l.block = b /\ l.round = r

-----------------------------------------------------------------------------
(* The operations of a replica                                             *)

\* TypeOK: a replica votes, certifies and commits only in the rounds there are.
\* It may sign the timeout of the last round, as timeout has no limit of its
\* own, and even a quorum of those never makes a proposal that is voted for.
TypeOK ==
    /\ chain \in [Honest -> Seq(Payloads)]
    /\ prepares \subseteq [validator : Honest, block : Seq(Payloads), round : Rounds]
    /\ timeouts \subseteq [validator : Honest, block : Seq(Payloads), round : NamedRounds]
    /\ commitVotes \subseteq [validator : Honest, block : Seq(Payloads), round : Rounds,
                              cert : Certificates]

Init ==
    /\ chain = [v \in Honest |-> << >>]
    /\ prepares = {}
    /\ timeouts = {}
    /\ commitVotes = {}

\* The decision files of replica v for the height of b and round r.
FileAt(files, v, b, r) ==
    {f \in files : f.validator = v /\ Len(f.block) = Len(b) /\ f.round = r}

\* Mutant: the vote does not look for an earlier decision of the round.
voteForgetful(v, b, r) ==
    /\ v \in Accepted(chain[v])
    /\ validateProposal(v, b, r)
    /\ prepares' = prepares \cup {[validator |-> v, block |-> b, round |-> r]}
    /\ UNCHANGED <<chain, timeouts, commitVotes>>

\* vote: refuses a block that does not validate and a second block in a round.
\* An existing file for b answers the same vote again.
vote(v, b, r) ==
    /\ FileAt(prepares, v, b, r) = {}
    /\ v \in Accepted(chain[v])
    /\ validateProposal(v, b, r)
    /\ prepares' = prepares \cup {[validator |-> v, block |-> b, round |-> r]}
    /\ UNCHANGED <<chain, timeouts, commitVotes>>

\* finalizeValidatorProposal, without a recovered certificate: the elected
\* proposer votes for the proposal of its own session, or of the session that
\* delegated it (/v1/p2p/produce), and then sends it out.
Propose(v, b, r) ==
    /\ v = expectedProposer(chain[v], r)
    /\ Byzantine = {} =>
           \E w \in Honest : HoldsUncertified(w, b, r) /\ (r = 0 => w = v)
    /\ vote(v, b, r)

\* /v1/p2p/proposals: the proposal comes from its proposer, who voted first.
PrepareVote(v, b, r) ==
    /\ v # expectedProposer(chain[v], r)
    /\ SignedPrepare(expectedProposer(chain[v], r), b, r)
    /\ vote(v, b, r)

\* Mutant: the commit decision is not compared with the one on disk.
commitVoteUnlocked(v, b, r, cert) ==
    /\ Cardinality({l \in commitVotes : l.validator = v /\ l.block = b}) < MaxCertifications
    /\ v \in Accepted(chain[v])
    /\ prepareCertificate(b, r, cert)
    /\ validateProposal(v, b, r)
    /\ commitVotes' = commitVotes \cup
           {[validator |-> v, block |-> b, round |-> r, cert |-> cert]}
    /\ UNCHANGED <<chain, prepares, timeouts>>

\* commitVote: one value per height for good; a new certificate for the same
\* value re-certifies the lock, the same certificate answers the same vote.
commitVote(v, b, r, cert) ==
    /\ LockAllows(v, b)
    /\ Cardinality({l \in commitVotes : l.validator = v /\ l.block = b}) < MaxCertifications
    /\ v \in Accepted(chain[v])
    /\ prepareCertificate(b, r, cert)
    /\ validateProposal(v, b, r)
    /\ commitVotes' = commitVotes \cup
           {[validator |-> v, block |-> b, round |-> r, cert |-> cert]}
    /\ UNCHANGED <<chain, prepares, timeouts>>

\* finalizeValidatorProposal: the proposer has its own prepare vote and those
\* of the peers that answered, and commits first itself.
CertifyProposal(v, b, r, voters) ==
    /\ v = expectedProposer(chain[v], r)
    /\ [validator |-> v, block |-> b, round |-> r] \in prepares
    /\ v \in voters
    /\ commitVote(v, b, r, [round |-> r, voters |-> voters])

\* finalizeValidatorProposal with a recovered certificate: the proposer of a
\* later round (or of the same one) commits to a reported lock's value.
CertifyRecovered(v, b, r, cert) ==
    /\ v = expectedProposer(chain[v], r)
    /\ Byzantine = {} =>
           \E w \in Honest : \E l \in discoverLockedProposal(w) :
              l.block = b /\ l.cert = cert /\ l.round <= r
    /\ commitVote(v, b, r, cert)

\* /v1/p2p/commits: the proposer, who committed first, sends the certificate.
CommitVote(v, b, r, cert) ==
    /\ v # expectedProposer(chain[v], r)
    /\ expectedProposer(chain[v], r) \notin Byzantine =>
           [validator |-> expectedProposer(chain[v], r), block |-> b, round |-> r,
            cert |-> cert] \in commitVotes
    /\ commitVote(v, b, r, cert)

\* timeout, after observeRoundTimeout's wait: v, in its own session or asked by
\* a peer that has itself signed the timeout, finds the proposer of round r
\* unreachable.  A validator always reaches itself.
timeout(v, b, r) ==
    /\ v # expectedProposer(chain[v], r)
    /\ FileAt(timeouts, v, b, r + 1) = {}
    /\ Byzantine = {} =>
           \/ HoldsProposal(v, b, r)
           \/ \E w \in Honest : [validator |-> w, block |-> b, round |-> r + 1] \in timeouts
    /\ LockAllows(v, b)
    /\ v \in Required(chain[v])
    /\ validateProposal(v, b, r)
    /\ timeouts' = timeouts \cup {[validator |-> v, block |-> b, round |-> r + 1]}
    /\ UNCHANGED <<chain, prepares, commitVotes>>

\* commit: a certified block that extends the chain is persisted.
commit(v, b) ==
    /\ Len(b) = Len(chain[v]) + 1
    /\ Parent(b) = chain[v]
    /\ ValidPayload(chain[v], Payload(b))
    /\ verifyCertificate(b)
    /\ chain' = [chain EXCEPT ![v] = b]
    /\ UNCHANGED <<prepares, timeouts, commitVotes>>

\* finalizeProposal: the proposer has a quorum of commit votes, its own included.
finalizeProposal(v, b) ==
    /\ \E l \in commitVotes : /\ l.validator = v /\ l.block = b
                              /\ v = expectedProposer(chain[v], l.round)
    /\ commit(v, b)

\* /v1/p2p/blocks and synchronizeValidator: some replica serves the block, or a
\* Byzantine validator assembled it from the votes.
ReceiveBlock(v, b) ==
    /\ Byzantine = {} =>
           \E w \in Honest : Len(chain[w]) >= Len(b) /\ SubSeq(chain[w], 1, Len(b)) = b
    /\ commit(v, b)

ReplicaStep(v) ==
    /\ Len(chain[v]) < MaxHeight
    /\ \E b \in Children(v), r \in NamedRounds :
           \/ Propose(v, b, r)
           \/ PrepareVote(v, b, r)
           \/ timeout(v, b, r)
           \/ \E voters \in AnswerSets : CertifyProposal(v, b, r, voters)
           \/ \E cert \in Certificates : CertifyRecovered(v, b, r, cert) \/ CommitVote(v, b, r, cert)

BlockStep(v) ==
    \E b \in Children(v) : finalizeProposal(v, b) \/ ReceiveBlock(v, b)

Next == \E v \in Honest : ReplicaStep(v) \/ BlockStep(v)

Spec == Init /\ [][Next]_vars

-----------------------------------------------------------------------------
(* Properties                                                              *)

IsPrefixOf(c, d) == Len(c) <= Len(d) /\ SubSeq(d, 1, Len(c)) = c

\* Agreement: of the chains two honest replicas have persisted, one extends the
\* other, whatever votes and rounds appendBlock's certificates came from.
Agreement ==
    \A v, w \in Honest : IsPrefixOf(chain[v], chain[w]) \/ IsPrefixOf(chain[w], chain[v])

\* CertifiedUnique: nobody, a Byzantine validator with all the votes included,
\* can put together finality certificates for two blocks of one height.
CertifiedUnique ==
    \A l, m \in commitVotes :
        (Len(l.block) = Len(m.block) /\ l.block # m.block)
            => ~ (verifyCertificate(l.block) /\ verifyCertificate(m.block))

\* NoAmbiguousView: two valid lock proofs of one round are for one block, so
\* selectHighestCertifiedProposal's "conflicting values carry the same highest
\* view certificate" is never thrown over honest validators' locks.
NoAmbiguousView ==
    \A l, m \in commitVotes :
        (Parent(l.block) = Parent(m.block) /\ l.round = m.round) => l.block = m.block

\* FinalizedParentStored: when a block is finalized, a quorum of its validator
\* set, and at a rotation boundary of the outgoing set too, has persisted the
\* block's parent; a new set cannot start from a chain the old one lacks.
FinalizedParentStored ==
    \A v \in Honest : \A i \in 1..Len(chain[v]) :
        LET parent == SubSeq(chain[v], 1, i - 1)
            holders == {w \in Validators : w \in Byzantine \/ IsPrefixOf(parent, chain[w])}
        IN  /\ HasQuorum(holders, Required(parent))
            /\ AtBoundary(parent) => HasQuorum(holders, Previous(parent))

\* LockedValueReachable: whatever the locks, some block of the height can still
\* gather a commit quorum from replicas that are not locked on another block.
LockedValueReachable ==
    \A v \in Honest : \A l \in commitVotes :
        Parent(l.block) = chain[v] =>
            \E b \in Children(v) :
                JointQuorum({w \in Validators : w \in Byzantine \/ LockAllows(w, b)}, chain[v])

-----------------------------------------------------------------------------
(* The abstract specification                                              *)

Log == INSTANCE ReplicatedLog WITH Replicas <- Honest, Values <- Payloads, log <- chain

\* LogSpec: to its readers the network is one replicated log: a replica only
\* ever appends the one value the log has, or will have, at that position.
LogSpec == Log!Spec
=============================================================================
