--------------------------- MODULE FinalityProofs ---------------------------
(***************************************************************************)
(* Proofs about Finality for every validator set, schedule of rotations,   *)
(* number of rounds and height, and every set of Byzantine validators that *)
(* is less than a third of each validator set.                             *)
(***************************************************************************)
EXTENDS Finality, FiniteSetTheorems, SequenceTheorems, TLAPS

-----------------------------------------------------------------------------
(* Facts about blocks                                                      *)

(* A child of a chain has the chain as its parent: what blockHash commits  *)
(* to through previousHash.                                                *)
LEMMA ChildFacts ==
  ASSUME NEW c \in Seq(Payloads), NEW x \in Payloads
  PROVE  /\ Append(c, x) \in Seq(Payloads)
         /\ Len(Append(c, x)) = Len(c) + 1
         /\ Parent(Append(c, x)) = c
         /\ Payload(Append(c, x)) = x
         /\ Append(c, x) # << >>
  BY DEF Parent, Payload

(* The validator set of any height of any chain is one of ValidatorSets.   *)
LEMMA MembersAreValidatorSet ==
  ASSUME NEW c \in Seq(Payloads), NEW h
  PROVE  validatorMembersForHeight(c, h) \in ValidatorSets
<1> DEFINE Last(i) == \A j \in Activated(c, h) : j <= i
<1>1. CASE \E i \in Activated(c, h) : Last(i)
  <2>1. PICK i \in Activated(c, h) : i = CHOOSE k \in Activated(c, h) : Last(k)
    BY <1>1
  <2>2. i \in 1..Len(c) /\ Rotation[c[i]] # {}
    BY DEF Activated
  <2>3. c[i] \in Payloads
    BY <2>2
  <2>4. validatorMembersForHeight(c, h) = Rotation[c[i]]
    BY <1>1, <2>1 DEF validatorMembersForHeight
  <2> QED BY <2>2, <2>3, <2>4 DEF ValidatorSets
<1>2. CASE ~ \E i \in Activated(c, h) : Last(i)
  BY <1>2 DEF validatorMembersForHeight, ValidatorSets
<1> QED BY <1>1, <1>2

(* Every validator set is a finite set of validators.                      *)
LEMMA ValidatorSetsFinite ==
  ASSUME NEW S \in ValidatorSets
  PROVE  S \subseteq Validators /\ IsFiniteSet(S)
<1>1. S \subseteq Validators
  BY ConstantsAssumption DEF ValidatorSets
<1> QED BY <1>1, ConstantsAssumption, FS_Subset

(* Two quorums of one validator set share an honest validator: the fact    *)
(* behind floor(2n/3) + 1 in requireSetQuorum and verifyCertificate.       *)
LEMMA QuorumIntersection ==
  ASSUME NEW S \in ValidatorSets, NEW P, NEW Q, HasQuorum(P, S), HasQuorum(Q, S)
  PROVE  \E v \in S : v \in P /\ v \in Q /\ v \notin Byzantine
<1> DEFINE PS == P \cap S
           QS == Q \cap S
           BS == S \cap Byzantine
           n == Cardinality(S)
<1>1. IsFiniteSet(S) /\ n \in Nat
  BY ValidatorSetsFinite, FS_CardinalityType
<1>2. /\ IsFiniteSet(PS) /\ Cardinality(PS) \in Nat
      /\ IsFiniteSet(QS) /\ Cardinality(QS) \in Nat
      /\ IsFiniteSet(BS) /\ Cardinality(BS) \in Nat
      /\ IsFiniteSet(PS \cap QS) /\ Cardinality(PS \cap QS) \in Nat
      /\ IsFiniteSet(PS \cup QS) /\ Cardinality(PS \cup QS) \in Nat
  <2>1. PS \in SUBSET S /\ QS \in SUBSET S /\ BS \in SUBSET S
        /\ PS \cap QS \in SUBSET S /\ PS \cup QS \in SUBSET S
    OBVIOUS
  <2> QED BY <1>1, <2>1, FS_Subset, FS_CardinalityType
<1>3. Cardinality(PS \cup QS) <= n
  BY <1>1, FS_Subset, PS \cup QS \in SUBSET S
<1>4. Cardinality(PS \cup QS) = Cardinality(PS) + Cardinality(QS) - Cardinality(PS \cap QS)
  BY <1>2, FS_Union
<1>5. Cardinality(PS) >= (2 * n) \div 3 + 1 /\ Cardinality(QS) >= (2 * n) \div 3 + 1
  BY DEF HasQuorum
<1>6. 3 * Cardinality(BS) < n
  BY FaultAssumption
<1>7. Cardinality(BS) < Cardinality(PS \cap QS)
  <2> HIDE DEF PS, QS, BS, n
  <2> QED BY <1>1, <1>2, <1>3, <1>4, <1>5, <1>6
<1>8. ~ (PS \cap QS \subseteq BS)
  <2> SUFFICES ASSUME PS \cap QS \in SUBSET BS PROVE FALSE
    OBVIOUS
  <2>1. Cardinality(PS \cap QS) <= Cardinality(BS)
    BY <1>2, FS_Subset
  <2> HIDE DEF PS, QS, BS
  <2> QED BY <1>2, <1>7, <2>1
<1> QED BY <1>8

(* A quorum stays a quorum when more votes come in.                        *)
LEMMA QuorumMonotone ==
  ASSUME NEW S \in ValidatorSets, NEW P, NEW Q, P \subseteq Q, HasQuorum(P, S)
  PROVE  HasQuorum(Q, S)
<1>1. IsFiniteSet(Q \cap S) /\ P \cap S \in SUBSET (Q \cap S)
  BY ValidatorSetsFinite, FS_Subset, Q \cap S \in SUBSET S
<1>2. IsFiniteSet(P \cap S) /\ Cardinality(P \cap S) <= Cardinality(Q \cap S)
  BY <1>1, FS_Subset
<1>3. Cardinality(P \cap S) \in Nat /\ Cardinality(Q \cap S) \in Nat /\ Cardinality(S) \in Nat
  BY <1>1, <1>2, ValidatorSetsFinite, FS_CardinalityType
<1> QED BY <1>2, <1>3 DEF HasQuorum

-----------------------------------------------------------------------------
(* The steps of the system                                                 *)

(* The chain's own check is what keeps a named round within the limit.     *)
LEMMA RoundWithinLimit ==
  ASSUME NEW v, NEW b, NEW r \in NamedRounds, validateProposal(v, b, r)
  PROVE  r \in Rounds
BY ConstantsAssumption DEF validateProposal, verifyRoundCertificate, NamedRounds, Rounds

(* The four things a step does, whatever message or session caused it: a   *)
(* prepare vote, a timeout, a commit vote or a finalized block.            *)
LEMMA StepCases ==
  ASSUME TypeOK, Next
  PROVE  \E v \in Honest, x \in Payloads :
            \/ \E r \in Rounds : vote(v, Append(chain[v], x), r)
            \/ \E r \in Rounds : timeout(v, Append(chain[v], x), r)
            \/ \E r \in Rounds, cert \in Certificates :
                    commitVote(v, Append(chain[v], x), r, cert)
            \/ commit(v, Append(chain[v], x))
<1>1. PICK v \in Honest : ReplicaStep(v) \/ BlockStep(v)
  BY DEF Next
<1>2. CASE ReplicaStep(v)
  <2>1. PICK x \in Payloads, r \in NamedRounds :
           LET b == Append(chain[v], x)
           IN  \/ Propose(v, b, r)
               \/ PrepareVote(v, b, r)
               \/ timeout(v, b, r)
               \/ \E voters \in AnswerSets : CertifyProposal(v, b, r, voters)
               \/ \E cert \in Certificates :
                        CertifyRecovered(v, b, r, cert) \/ CommitVote(v, b, r, cert)
    BY <1>2 DEF ReplicaStep, Children
  <2>2. CASE Propose(v, Append(chain[v], x), r) \/ PrepareVote(v, Append(chain[v], x), r)
    <3>1. vote(v, Append(chain[v], x), r)
      BY <2>2 DEF Propose, PrepareVote
    <3> QED BY <3>1, RoundWithinLimit DEF vote
  <2>3. CASE timeout(v, Append(chain[v], x), r)
    BY <2>3, RoundWithinLimit DEF timeout
  <2>4. CASE \E voters \in AnswerSets : CertifyProposal(v, Append(chain[v], x), r, voters)
    <3>1. PICK voters \in AnswerSets : CertifyProposal(v, Append(chain[v], x), r, voters)
      BY <2>4
    <3>2. commitVote(v, Append(chain[v], x), r, [round |-> r, voters |-> voters])
      BY <3>1 DEF CertifyProposal
    <3>3. r \in Rounds
      BY <3>2, RoundWithinLimit DEF commitVote
    <3>4. [round |-> r, voters |-> voters] \in Certificates
      BY <3>3 DEF Certificates
    <3> QED BY <3>2, <3>3, <3>4
  <2>5. CASE \E cert \in Certificates : \/ CertifyRecovered(v, Append(chain[v], x), r, cert)
                                        \/ CommitVote(v, Append(chain[v], x), r, cert)
    <3>1. PICK cert \in Certificates : commitVote(v, Append(chain[v], x), r, cert)
      BY <2>5 DEF CertifyRecovered, CommitVote
    <3> QED BY <3>1, RoundWithinLimit DEF commitVote
  <2> QED BY <2>1, <2>2, <2>3, <2>4, <2>5
<1>3. CASE BlockStep(v)
  BY <1>3 DEF BlockStep, Children, finalizeProposal, ReceiveBlock
<1> QED BY <1>1, <1>2, <1>3

(* The variables keep their types.                                         *)
LEMMA TypeStep ==
  ASSUME TypeOK, [Next]_vars
  PROVE  TypeOK'
<1>1. CASE Next
  <2>1. PICK v \in Honest, x \in Payloads :
            \/ \E r \in Rounds : vote(v, Append(chain[v], x), r)
            \/ \E r \in Rounds : timeout(v, Append(chain[v], x), r)
            \/ \E r \in Rounds, cert \in Certificates :
                    commitVote(v, Append(chain[v], x), r, cert)
            \/ commit(v, Append(chain[v], x))
    BY <1>1, StepCases
  <2> DEFINE b == Append(chain[v], x)
  <2>2. b \in Seq(Payloads)
    BY ChildFacts DEF TypeOK
  <2> HIDE DEF b
  <2>3. ASSUME NEW r \in Rounds, vote(v, b, r) PROVE TypeOK'
    BY <2>2, <2>3 DEF TypeOK, vote
  <2>4. ASSUME NEW r \in Rounds, timeout(v, b, r) PROVE TypeOK'
    <3>1. r + 1 \in NamedRounds
      BY <2>4, ConstantsAssumption DEF Rounds, NamedRounds
    <3> QED BY <2>2, <2>4, <3>1 DEF TypeOK, timeout
  <2>5. ASSUME NEW r \in Rounds, NEW cert \in Certificates, commitVote(v, b, r, cert)
        PROVE  TypeOK'
    BY <2>2, <2>5 DEF TypeOK, commitVote
  <2>6. CASE commit(v, b)
    BY <2>2, <2>6 DEF TypeOK, commit
  <2> QED BY <2>1, <2>3, <2>4, <2>5, <2>6 DEF b
<1>2. CASE UNCHANGED vars
  BY <1>2 DEF TypeOK, vars
<1> QED BY <1>1, <1>2

(* Type correctness: a timeout may name the round after the last one, as   *)
(* the handler has no limit of its own, and yet no replica ever votes,     *)
(* certifies or commits in a round beyond MAX_CONSENSUS_ROUND.             *)
THEOREM TypeCorrect == Spec => []TypeOK
<1>1. Init => TypeOK
  BY DEF Init, TypeOK
<1>2. TypeOK /\ [Next]_vars => TypeOK'
  BY TypeStep
<1> QED BY <1>1, <1>2, PTL DEF Spec

-----------------------------------------------------------------------------
(* Prefixes                                                                *)

(* The prefixes of a chain are chains, and each is the parent of the next. *)
LEMMA CutFacts ==
  ASSUME NEW c \in Seq(Payloads), NEW i \in 0..Len(c)
  PROVE  /\ SubSeq(c, 1, i) \in Seq(Payloads)
         /\ Len(SubSeq(c, 1, i)) = i
         /\ i > 0 => Parent(SubSeq(c, 1, i)) = SubSeq(c, 1, i - 1)
         /\ \A j \in 1..i : SubSeq(c, 1, i)[j] = c[j]
  BY DEF Parent

(* Appending a block leaves the earlier prefixes as they were.             *)
LEMMA AppendCut ==
  ASSUME NEW c \in Seq(Payloads), NEW x \in Payloads, NEW i \in 0..Len(c)
  PROVE  SubSeq(Append(c, x), 1, i) = SubSeq(c, 1, i)
  OBVIOUS

(* A chain is a prefix of itself.                                          *)
LEMMA PrefixReflexive ==
  ASSUME NEW c \in Seq(Payloads)
  PROVE  IsPrefixOf(c, c)
  BY DEF IsPrefixOf

(* A chain is a prefix of the chain with one more block.                   *)
LEMMA PrefixAppend ==
  ASSUME NEW c \in Seq(Payloads), NEW d \in Seq(Payloads), NEW x \in Payloads,
         IsPrefixOf(c, d)
  PROVE  IsPrefixOf(c, Append(d, x))
  BY DEF IsPrefixOf

(* A prefix has the blocks of the longer chain at its positions.           *)
LEMMA PrefixElements ==
  ASSUME NEW c \in Seq(Payloads), NEW d \in Seq(Payloads), IsPrefixOf(c, d)
  PROVE  \A j \in 1..Len(c) : c[j] = d[j]
<1>1. Len(c) \in 0..Len(d) /\ SubSeq(d, 1, Len(c)) = c
  BY DEF IsPrefixOf
<1> QED BY <1>1, CutFacts

(* Two prefixes of one length of comparable chains are one chain.          *)
LEMMA PrefixesOfComparable ==
  ASSUME NEW c \in Seq(Payloads), NEW d \in Seq(Payloads),
         NEW p \in Seq(Payloads), NEW q \in Seq(Payloads),
         IsPrefixOf(p, c), IsPrefixOf(q, d), Len(p) = Len(q),
         IsPrefixOf(c, d) \/ IsPrefixOf(d, c)
  PROVE  p = q
<1>1. /\ \A j \in 1..Len(p) : p[j] = c[j]
      /\ \A j \in 1..Len(q) : q[j] = d[j]
      /\ Len(p) <= Len(c) /\ Len(q) <= Len(d)
  BY PrefixElements DEF IsPrefixOf
<1>2. \A j \in 1..Len(p) : c[j] = d[j]
  <2>1. CASE IsPrefixOf(c, d)
    BY <1>1, <2>1, PrefixElements
  <2>2. CASE IsPrefixOf(d, c)
    BY <1>1, <2>2, PrefixElements
  <2> QED BY <2>1, <2>2
<1> QED BY <1>1, <1>2, SeqEqual

-----------------------------------------------------------------------------
(* The inductive invariant                                                 *)

\* The validators that may have signed a commit of b, with any certificate.
CommitSigners(b) ==
    {w \in Validators : w \in Byzantine \/ \E l \in commitVotes : l.validator = w /\ l.block = b}

PrepareSigners(b, r) == {w \in Validators : SignedPrepare(w, b, r)}
TimeoutSigners(b, r) == {w \in Validators : SignedTimeout(w, b, r)}

\* An honest validator prepares one block in a round of a height,
PrepareUnique ==
    \A p, q \in prepares :
        (p.validator = q.validator /\ Len(p.block) = Len(q.block) /\ p.round = q.round)
            => p.block = q.block

\* times out one block into a round,
TimeoutUnique ==
    \A p, q \in timeouts :
        (p.validator = q.validator /\ Len(p.block) = Len(q.block) /\ p.round = q.round)
            => p.block = q.block

\* and commits to one block at a height, in whatever round.
LockUnique ==
    \A l, m \in commitVotes :
        (l.validator = m.validator /\ Len(l.block) = Len(m.block)) => l.block = m.block

\* A commit vote is for a block whose parent its signer has persisted.
VotesExtend ==
    \A l \in commitVotes :
        l.block # << >> /\ IsPrefixOf(Parent(l.block), chain[l.validator])

\* A commit vote of round zero rests on a prepare quorum of that round, one of
\* a later round on a timeout quorum into it.
VotesCertified ==
    \A l \in commitVotes :
        /\ l.round = 0 => HasQuorum(PrepareSigners(l.block, 0), Required(Parent(l.block)))
        /\ l.round > 0 => HasQuorum(TimeoutSigners(l.block, l.round), Required(Parent(l.block)))

\* Every block of every replica's chain was committed by quorums.
ChainCommitted ==
    \A v \in Honest : \A i \in 1..Len(chain[v]) :
        JointQuorum(CommitSigners(SubSeq(chain[v], 1, i)), SubSeq(chain[v], 1, i - 1))

FinalityInv ==
    /\ TypeOK
    /\ PrepareUnique
    /\ TimeoutUnique
    /\ LockUnique
    /\ VotesExtend
    /\ VotesCertified
    /\ ChainCommitted
    /\ Agreement

-----------------------------------------------------------------------------
(* Consequences of quorum intersection                                     *)

(* Both parts of a joint quorum stay when more votes come in.              *)
LEMMA JointQuorumMonotone ==
  ASSUME NEW c \in Seq(Payloads), NEW P, NEW Q, P \subseteq Q, JointQuorum(P, c)
  PROVE  JointQuorum(Q, c)
<1>1. Required(c) \in ValidatorSets /\ Previous(c) \in ValidatorSets
  BY MembersAreValidatorSet DEF Required, Previous
<1> QED BY <1>1, QuorumMonotone DEF JointQuorum

(* A finality certificate that verifies holds a joint quorum of commits.   *)
LEMMA CertificateCommits ==
  ASSUME NEW c \in Seq(Payloads), NEW x \in Payloads, verifyCertificate(Append(c, x))
  PROVE  JointQuorum(CommitSigners(Append(c, x)), c)
<1> DEFINE b == Append(c, x)
<1>1. Parent(b) = c
  BY ChildFacts
<1>2. PICK cert \in Certificates :
          JointQuorum({v \in Accepted(c) : SignedCommit(v, b, cert)}, c)
  BY <1>1 DEF verifyCertificate
<1>3. Required(c) \subseteq Validators /\ Previous(c) \subseteq Validators
  BY MembersAreValidatorSet, ValidatorSetsFinite DEF Required, Previous
<1>4. Accepted(c) \subseteq Validators
  BY <1>3 DEF Accepted
<1>5. {v \in Accepted(c) : SignedCommit(v, b, cert)} \subseteq CommitSigners(b)
  <2> SUFFICES ASSUME NEW v \in Accepted(c), SignedCommit(v, b, cert)
               PROVE  v \in CommitSigners(b)
    OBVIOUS
  <2>1. CASE v \in Byzantine
    BY <1>4, <2>1 DEF CommitSigners
  <2>2. CASE \E r \in NamedRounds : [validator |-> v, block |-> b, round |-> r,
                                       cert |-> cert] \in commitVotes
    BY <1>4, <2>2 DEF CommitSigners
  <2> QED BY <2>1, <2>2 DEF SignedCommit
<1> QED BY <1>2, <1>5, JointQuorumMonotone

(* Two blocks with one parent cannot both be committed by quorums.         *)
LEMMA CommittedSiblings ==
  ASSUME TypeOK, LockUnique,
         NEW c \in Seq(Payloads), NEW b \in Seq(Payloads), NEW d \in Seq(Payloads),
         Len(b) = Len(d),
         JointQuorum(CommitSigners(b), c), JointQuorum(CommitSigners(d), c)
  PROVE  b = d
<1>1. Required(c) \in ValidatorSets
  BY MembersAreValidatorSet DEF Required
<1>2. PICK v \in Required(c) : /\ v \in CommitSigners(b) /\ v \in CommitSigners(d)
                               /\ v \notin Byzantine
  BY <1>1, QuorumIntersection DEF JointQuorum
<1>3. PICK l \in commitVotes : l.validator = v /\ l.block = b
  BY <1>2 DEF CommitSigners
<1>4. PICK m \in commitVotes : m.validator = v /\ m.block = d
  BY <1>2 DEF CommitSigners
<1> QED BY <1>3, <1>4 DEF LockUnique

-----------------------------------------------------------------------------
(* One lemma for each kind of step                                         *)

(* More signatures keep every quorum that the invariant speaks of.         *)
LEMMA SignersGrow ==
  ASSUME TypeOK, prepares \subseteq prepares', timeouts \subseteq timeouts',
         commitVotes \subseteq commitVotes', NEW b, NEW r
  PROVE  /\ CommitSigners(b) \subseteq CommitSigners(b)'
         /\ PrepareSigners(b, r) \subseteq PrepareSigners(b, r)'
         /\ TimeoutSigners(b, r) \subseteq TimeoutSigners(b, r)'
  BY DEF CommitSigners, PrepareSigners, TimeoutSigners, SignedPrepare, SignedTimeout

(* Commit votes that stay are as well certified as before.                 *)
LEMMA CertifiedGrow ==
  ASSUME TypeOK, VotesCertified, VotesExtend, prepares \subseteq prepares',
         timeouts \subseteq timeouts', NEW l \in commitVotes
  PROVE  /\ l.round = 0 => HasQuorum(PrepareSigners(l.block, 0)', Required(Parent(l.block)))
         /\ l.round > 0 => HasQuorum(TimeoutSigners(l.block, l.round)', Required(Parent(l.block)))
<1>1. l.block \in Seq(Payloads) /\ Len(l.block) - 1 \in 0..Len(l.block)
  BY DEF TypeOK, VotesExtend
<1>2. Parent(l.block) \in Seq(Payloads)
  BY <1>1, CutFacts DEF Parent
<1>3. Required(Parent(l.block)) \in ValidatorSets
  BY <1>2, MembersAreValidatorSet DEF Required
<1>4. /\ PrepareSigners(l.block, 0) \subseteq PrepareSigners(l.block, 0)'
      /\ TimeoutSigners(l.block, l.round) \subseteq TimeoutSigners(l.block, l.round)'
  BY DEF PrepareSigners, TimeoutSigners, SignedPrepare, SignedTimeout
<1>5. CASE l.round = 0
  <2>1. HasQuorum(PrepareSigners(l.block, 0), Required(Parent(l.block)))
    BY <1>5 DEF VotesCertified
  <2>2. ~ (l.round > 0)
    BY <1>5
  <2> QED BY <1>3, <1>4, <2>1, <2>2, QuorumMonotone
<1>6. CASE l.round # 0
  <2>1. l.round > 0 => HasQuorum(TimeoutSigners(l.block, l.round), Required(Parent(l.block)))
    BY DEF VotesCertified
  <2> QED BY <1>3, <1>4, <1>6, <2>1, QuorumMonotone
<1> QED BY <1>5, <1>6

(* A committed block stays committed when more votes come in.              *)
LEMMA StaysCommitted ==
  ASSUME TypeOK, commitVotes \subseteq commitVotes',
         NEW CONSTANT c \in Seq(Payloads), NEW CONSTANT b,
         JointQuorum(CommitSigners(b), c)
  PROVE  JointQuorum(CommitSigners(b)', c)
<1>1. CommitSigners(b) \subseteq CommitSigners(b)'
  BY DEF CommitSigners
<1> QED BY <1>1, JointQuorumMonotone

(* Chains that do not change stay committed.                               *)
LEMMA ChainsStayCommitted ==
  ASSUME TypeOK, ChainCommitted, commitVotes \subseteq commitVotes', UNCHANGED chain
  PROVE  ChainCommitted'
<1> SUFFICES ASSUME NEW v \in Honest, NEW i \in 1..Len(chain[v])
             PROVE  JointQuorum(CommitSigners(SubSeq(chain[v], 1, i)), SubSeq(chain[v], 1, i - 1))'
  BY DEF ChainCommitted
<1>1. chain[v] \in Seq(Payloads) /\ i - 1 \in 0..Len(chain[v])
  BY DEF TypeOK
<1>2. PICK c : c = SubSeq(chain[v], 1, i - 1)
  OBVIOUS
<1>3. PICK b : b = SubSeq(chain[v], 1, i)
  OBVIOUS
<1>4. c \in Seq(Payloads)
  BY <1>1, <1>2, CutFacts
<1>5. JointQuorum(CommitSigners(b), c)
  BY <1>2, <1>3 DEF ChainCommitted
<1>6. JointQuorum(CommitSigners(b)', c)
  BY <1>4, <1>5, StaysCommitted
<1>7. c = SubSeq(chain[v], 1, i - 1)' /\ b = SubSeq(chain[v], 1, i)'
  BY <1>2, <1>3
<1> QED BY <1>6, <1>7

(* A prepare vote keeps the invariant.                                     *)
LEMMA VoteStep ==
  ASSUME FinalityInv, NEW v \in Honest, NEW b \in Seq(Payloads), NEW r \in Rounds,
         vote(v, b, r), TypeOK'
  PROVE  FinalityInv'
<1> USE DEF FinalityInv
<1>1. /\ UNCHANGED <<chain, timeouts, commitVotes>>
      /\ prepares' = prepares \cup {[validator |-> v, block |-> b, round |-> r]}
      /\ FileAt(prepares, v, b, r) = {}
  BY DEF vote
<1>2. PrepareUnique'
  BY <1>1 DEF PrepareUnique, FileAt
<1>3. TimeoutUnique' /\ LockUnique' /\ VotesExtend' /\ Agreement'
  BY <1>1 DEF TimeoutUnique, LockUnique, VotesExtend, Agreement
<1>4. VotesCertified'
  <2>1. prepares \subseteq prepares' /\ timeouts \subseteq timeouts'
    BY <1>1
  <2> QED BY <1>1, <2>1, CertifiedGrow DEF VotesCertified
<1>5. ChainCommitted'
  BY <1>1, ChainsStayCommitted
<1> QED BY <1>2, <1>3, <1>4, <1>5

(* A timeout keeps the invariant.                                          *)
LEMMA TimeoutStep ==
  ASSUME FinalityInv, NEW v \in Honest, NEW b \in Seq(Payloads), NEW r \in Rounds,
         timeout(v, b, r), TypeOK'
  PROVE  FinalityInv'
<1> USE DEF FinalityInv
<1>1. /\ UNCHANGED <<chain, prepares, commitVotes>>
      /\ timeouts' = timeouts \cup {[validator |-> v, block |-> b, round |-> r + 1]}
      /\ FileAt(timeouts, v, b, r + 1) = {}
  BY DEF timeout
<1>2. TimeoutUnique'
  BY <1>1 DEF TimeoutUnique, FileAt
<1>3. PrepareUnique' /\ LockUnique' /\ VotesExtend' /\ Agreement'
  BY <1>1 DEF PrepareUnique, LockUnique, VotesExtend, Agreement
<1>4. VotesCertified'
  <2>1. prepares \subseteq prepares' /\ timeouts \subseteq timeouts'
    BY <1>1
  <2> QED BY <1>1, <2>1, CertifiedGrow DEF VotesCertified
<1>5. ChainCommitted'
  BY <1>1, ChainsStayCommitted
<1> QED BY <1>2, <1>3, <1>4, <1>5

(* A commit vote keeps the invariant: the lock admits no second block, and *)
(* its certificate rests on the signatures VotesCertified asks for.        *)
LEMMA CommitVoteStep ==
  ASSUME FinalityInv, NEW v \in Honest, NEW b \in Seq(Payloads), NEW r \in Rounds,
         NEW cert \in Certificates, commitVote(v, b, r, cert), TypeOK'
  PROVE  FinalityInv'
<1> USE DEF FinalityInv
<1> DEFINE vt == [validator |-> v, block |-> b, round |-> r, cert |-> cert]
<1>1. /\ UNCHANGED <<chain, prepares, timeouts>>
      /\ commitVotes' = commitVotes \cup {vt}
      /\ LockAllows(v, b)
      /\ prepareCertificate(b, r, cert)
      /\ Len(b) = Len(chain[v]) + 1
      /\ Parent(b) = chain[v]
      /\ verifyRoundCertificate(b, r)
  BY DEF commitVote, validateProposal
<1>2. PrepareUnique' /\ TimeoutUnique' /\ Agreement'
  BY <1>1 DEF PrepareUnique, TimeoutUnique, Agreement
<1>3. LockUnique'
  BY <1>1 DEF LockUnique, LockAllows
<1>4. chain[v] \in Seq(Payloads)
  BY DEF TypeOK
<1>5. VotesExtend'
  <2>1. b # << >>
    BY <1>1, <1>4
  <2>2. IsPrefixOf(Parent(b), chain[v])
    BY <1>1, <1>4, PrefixReflexive
  <2> QED BY <1>1, <2>1, <2>2 DEF VotesExtend
<1>6. VotesCertified'
  <2>1. r = 0 => HasQuorum(PrepareSigners(b, 0), Required(Parent(b)))
    <3> SUFFICES ASSUME r = 0 PROVE HasQuorum(PrepareSigners(b, 0), Required(Parent(b)))
      OBVIOUS
    <3>1. cert.round = 0
      BY <1>1 DEF prepareCertificate, Certificates, Rounds
    <3>2. Required(Parent(b)) \in ValidatorSets
      BY <1>1, <1>4, MembersAreValidatorSet DEF Required
    <3>3. cert.voters \subseteq Validators
      BY ConstantsAssumption DEF Certificates
    <3>4. cert.voters \subseteq PrepareSigners(b, 0)
      BY <1>1, <3>1, <3>3 DEF prepareCertificate, PrepareSigners
    <3>5. HasQuorum(cert.voters, Required(Parent(b)))
      BY <1>1 DEF prepareCertificate, JointQuorum
    <3> QED BY <3>2, <3>4, <3>5, QuorumMonotone
  <2>2. r > 0 => HasQuorum(TimeoutSigners(b, r), Required(Parent(b)))
    BY <1>1 DEF verifyRoundCertificate, TimeoutSigners
  <2>3. \A l \in commitVotes :
           /\ l.round = 0 => HasQuorum(PrepareSigners(l.block, 0), Required(Parent(l.block)))
           /\ l.round > 0 => HasQuorum(TimeoutSigners(l.block, l.round), Required(Parent(l.block)))
    BY DEF VotesCertified
  <2>4. \A l \in commitVotes \cup {vt} :
           /\ l.round = 0 => HasQuorum(PrepareSigners(l.block, 0), Required(Parent(l.block)))
           /\ l.round > 0 => HasQuorum(TimeoutSigners(l.block, l.round), Required(Parent(l.block)))
    BY <2>1, <2>2, <2>3
  <2>5. \A d, k : /\ PrepareSigners(d, k)' = PrepareSigners(d, k)
                 /\ TimeoutSigners(d, k)' = TimeoutSigners(d, k)
    BY <1>1 DEF PrepareSigners, TimeoutSigners, SignedPrepare, SignedTimeout
  <2> QED BY <1>1, <2>4, <2>5 DEF VotesCertified
<1>7. ChainCommitted'
  <2>1. commitVotes \subseteq commitVotes'
    BY <1>1
  <2> QED BY <1>1, <2>1, ChainsStayCommitted
<1> QED BY <1>2, <1>3, <1>5, <1>6, <1>7

(* A finalized block agrees with whatever another replica has finalized.   *)
LEMMA CommitAgrees ==
  ASSUME FinalityInv, NEW v \in Honest, NEW x \in Payloads,
         verifyCertificate(Append(chain[v], x)), NEW w \in Honest
  PROVE  \/ IsPrefixOf(Append(chain[v], x), chain[w])
         \/ IsPrefixOf(chain[w], Append(chain[v], x))
<1> USE DEF FinalityInv
<1> DEFINE b == Append(chain[v], x)
           d == SubSeq(chain[w], 1, Len(b))
<1>1. chain[v] \in Seq(Payloads) /\ chain[w] \in Seq(Payloads)
  BY DEF TypeOK
<1>2. b \in Seq(Payloads) /\ Len(b) = Len(chain[v]) + 1
  BY <1>1, ChildFacts
<1>3. CASE IsPrefixOf(chain[w], chain[v])
  BY <1>1, <1>3, PrefixAppend
<1>4. CASE IsPrefixOf(chain[v], chain[w]) /\ Len(chain[w]) = Len(chain[v])
  <2>1. IsPrefixOf(chain[w], chain[v])
    BY <1>1, <1>4, PrefixReflexive, PrefixesOfComparable
  <2> QED BY <1>3, <2>1
<1>5. CASE IsPrefixOf(chain[v], chain[w]) /\ Len(chain[w]) > Len(chain[v])
  <2>1. Len(b) \in 1..Len(chain[w]) /\ Len(b) - 1 = Len(chain[v])
    BY <1>1, <1>2, <1>5
  <2>2. SubSeq(chain[w], 1, Len(b) - 1) = chain[v]
    BY <1>5, <2>1 DEF IsPrefixOf
  <2>3. JointQuorum(CommitSigners(d), chain[v])
    BY <2>1, <2>2 DEF ChainCommitted
  <2>4. JointQuorum(CommitSigners(b), chain[v])
    BY <1>1, CertificateCommits
  <2>5. d \in Seq(Payloads) /\ Len(d) = Len(b)
    BY <1>1, <2>1, CutFacts
  <2>6. b = d
    <3> HIDE DEF b, d
    <3> QED BY <1>1, <1>2, <2>3, <2>4, <2>5, CommittedSiblings
  <2> QED BY <2>1, <2>6 DEF IsPrefixOf
<1>6. \/ IsPrefixOf(chain[w], chain[v])
      \/ IsPrefixOf(chain[v], chain[w]) /\ Len(chain[w]) >= Len(chain[v])
  BY DEF Agreement, IsPrefixOf
<1> QED BY <1>1, <1>3, <1>4, <1>5, <1>6

(* A finalized block keeps the invariant.                                  *)
LEMMA CommitStep ==
  ASSUME FinalityInv, NEW v \in Honest, NEW x \in Payloads,
         commit(v, Append(chain[v], x)), TypeOK'
  PROVE  FinalityInv'
<1> USE DEF FinalityInv
<1>1. PICK c : c = chain[v]
  OBVIOUS
<1>2. c \in Seq(Payloads) /\ chain \in [Honest -> Seq(Payloads)]
  BY <1>1 DEF TypeOK
<1>3. PICK b : b = Append(c, x)
  OBVIOUS
<1>4. b \in Seq(Payloads) /\ Len(b) = Len(c) + 1 /\ Parent(b) = c
  BY <1>2, <1>3, ChildFacts
<1>5. /\ UNCHANGED <<prepares, timeouts, commitVotes>>
      /\ verifyCertificate(b)
      /\ chain' = [chain EXCEPT ![v] = b]
  BY <1>1, <1>3 DEF commit
<1>6. chain'[v] = b /\ \A w \in Honest : w # v => chain'[w] = chain[w]
  BY <1>2, <1>5
<1>7. PrepareUnique' /\ TimeoutUnique' /\ LockUnique'
  BY <1>5 DEF PrepareUnique, TimeoutUnique, LockUnique
<1>8. VotesCertified'
  <2>1. prepares \subseteq prepares' /\ timeouts \subseteq timeouts'
    BY <1>5
  <2> QED BY <1>5, <2>1, CertifiedGrow DEF VotesCertified
<1>9. VotesExtend'
  <2> SUFFICES ASSUME NEW l \in commitVotes
               PROVE  l.block # << >> /\ IsPrefixOf(Parent(l.block), chain'[l.validator])
    BY <1>5 DEF VotesExtend
  <2>1. l.block # << >> /\ IsPrefixOf(Parent(l.block), chain[l.validator])
    BY DEF VotesExtend
  <2>2. l.validator \in Honest /\ l.block \in Seq(Payloads)
    BY DEF TypeOK
  <2>3. CASE l.validator # v
    BY <1>6, <2>1, <2>2, <2>3
  <2>4. CASE l.validator = v
    <3>1. Parent(l.block) \in Seq(Payloads)
      BY <2>1, <2>2, CutFacts DEF Parent
    <3> QED BY <1>1, <1>2, <1>3, <1>6, <2>1, <2>4, <3>1, PrefixAppend
  <2> QED BY <2>3, <2>4
<1>10. ChainCommitted'
  <2>1. \A d : CommitSigners(d)' = CommitSigners(d)
    BY <1>5 DEF CommitSigners
  <2> SUFFICES ASSUME NEW w \in Honest, NEW i \in 1..Len(chain'[w])
               PROVE  JointQuorum(CommitSigners(SubSeq(chain'[w], 1, i)),
                                  SubSeq(chain'[w], 1, i - 1))
    BY <2>1 DEF ChainCommitted
  <2>2. CASE w # v
    BY <1>6, <2>2 DEF ChainCommitted
  <2>3. CASE w = v /\ i <= Len(c)
    <3>1. i \in 0..Len(c) /\ i - 1 \in 0..Len(c) /\ i \in 1..Len(c)
      BY <1>2, <1>4, <2>3
    <3>2. SubSeq(b, 1, i) = SubSeq(c, 1, i) /\ SubSeq(b, 1, i - 1) = SubSeq(c, 1, i - 1)
      BY <1>2, <1>3, <3>1, AppendCut
    <3> QED BY <1>1, <1>6, <2>3, <3>1, <3>2 DEF ChainCommitted
  <2>4. CASE w = v /\ i = Len(c) + 1
    <3>1. SubSeq(b, 1, i) = b /\ SubSeq(b, 1, i - 1) = c
      <4>1. SubSeq(b, 1, i - 1) = Parent(b)
        BY <1>2, <1>4, <2>4 DEF Parent
      <4> QED BY <1>4, <2>4, <4>1
    <3>2. JointQuorum(CommitSigners(b), c)
      BY <1>2, <1>3, <1>5, CertificateCommits
    <3> QED BY <1>6, <2>4, <3>1, <3>2
  <2> QED BY <1>2, <1>4, <1>6, <2>2, <2>3, <2>4
<1>11. Agreement'
  <2>1. \A w \in Honest : IsPrefixOf(b, chain[w]) \/ IsPrefixOf(chain[w], b)
    BY <1>1, <1>3, <1>5, CommitAgrees
  <2>2. IsPrefixOf(b, b)
    BY <1>4, PrefixReflexive
  <2> SUFFICES ASSUME NEW u \in Honest, NEW w \in Honest
               PROVE  IsPrefixOf(chain'[u], chain'[w]) \/ IsPrefixOf(chain'[w], chain'[u])
    BY DEF Agreement
  <2> QED BY <1>6, <2>1, <2>2 DEF Agreement
<1> QED BY <1>7, <1>8, <1>9, <1>10, <1>11

-----------------------------------------------------------------------------
(* The theorems                                                            *)

(* Every step keeps the invariant.                                         *)
LEMMA InvStep ==
  ASSUME FinalityInv, [Next]_vars
  PROVE  FinalityInv'
<1>1. TypeOK /\ TypeOK'
  BY TypeStep DEF FinalityInv
<1>2. CASE Next
  <2>1. PICK v \in Honest, x \in Payloads :
            \/ \E r \in Rounds : vote(v, Append(chain[v], x), r)
            \/ \E r \in Rounds : timeout(v, Append(chain[v], x), r)
            \/ \E r \in Rounds, cert \in Certificates :
                    commitVote(v, Append(chain[v], x), r, cert)
            \/ commit(v, Append(chain[v], x))
    BY <1>1, <1>2, StepCases
  <2>2. Append(chain[v], x) \in Seq(Payloads)
    BY <1>1, ChildFacts DEF TypeOK
  <2>3. CASE \E r \in Rounds : vote(v, Append(chain[v], x), r)
    BY <1>1, <2>2, <2>3, VoteStep
  <2>4. CASE \E r \in Rounds : timeout(v, Append(chain[v], x), r)
    BY <1>1, <2>2, <2>4, TimeoutStep
  <2>5. CASE \E r \in Rounds, cert \in Certificates :
                  commitVote(v, Append(chain[v], x), r, cert)
    BY <1>1, <2>2, <2>5, CommitVoteStep
  <2>6. CASE commit(v, Append(chain[v], x))
    BY <1>1, <2>6, CommitStep
  <2> QED BY <2>1, <2>3, <2>4, <2>5, <2>6
<1>3. CASE UNCHANGED vars
  BY <1>3 DEF vars, FinalityInv, TypeOK, PrepareUnique, TimeoutUnique, LockUnique, VotesExtend,
              VotesCertified, ChainCommitted, Agreement, PrepareSigners, TimeoutSigners,
              CommitSigners, SignedPrepare, SignedTimeout
<1> QED BY <1>2, <1>3

(* The empty state satisfies the invariant.                                *)
LEMMA InvInit ==
  ASSUME Init
  PROVE  FinalityInv
<1>1. chain \in [Honest -> Seq(Payloads)] /\ \A v \in Honest : chain[v] = << >>
  BY DEF Init
<1>2. TypeOK
  BY DEF Init, TypeOK
<1>3. PrepareUnique /\ TimeoutUnique /\ LockUnique /\ VotesExtend /\ VotesCertified
  BY DEF Init, PrepareUnique, TimeoutUnique, LockUnique, VotesExtend, VotesCertified
<1>4. ChainCommitted
  BY <1>1 DEF ChainCommitted
<1>5. Agreement
  BY <1>1, PrefixReflexive DEF Agreement
<1> QED BY <1>2, <1>3, <1>4, <1>5 DEF FinalityInv

(* The inductive invariant holds in every reachable state.                 *)
THEOREM Invariance == Spec => []FinalityInv
<1>1. Init => FinalityInv
  BY InvInit
<1>2. FinalityInv /\ [Next]_vars => FinalityInv'
  BY InvStep
<1> QED BY <1>1, <1>2, PTL DEF Spec

(* Honest replicas never persist conflicting chains: commit's certificate  *)
(* check, the lock of commitVote and the joint quorum at a rotation        *)
(* boundary are together enough, for every number of validators.           *)
THEOREM AgreementHolds == Spec => []Agreement
<1>1. FinalityInv => Agreement
  BY DEF FinalityInv
<1> QED BY <1>1, Invariance, PTL

(* The honest locks of one height share their parent.                      *)
LEMMA LocksShareParent ==
  ASSUME FinalityInv, NEW l \in commitVotes, NEW m \in commitVotes,
         Len(l.block) = Len(m.block)
  PROVE  Parent(l.block) = Parent(m.block) /\ Parent(l.block) \in Seq(Payloads)
<1> USE DEF FinalityInv
<1>1. /\ l.validator \in Honest /\ m.validator \in Honest
      /\ l.block \in Seq(Payloads) /\ m.block \in Seq(Payloads)
      /\ chain \in [Honest -> Seq(Payloads)]
  BY DEF TypeOK
<1>2. /\ l.block # << >> /\ IsPrefixOf(Parent(l.block), chain[l.validator])
      /\ m.block # << >> /\ IsPrefixOf(Parent(m.block), chain[m.validator])
  BY DEF VotesExtend
<1>3. /\ Parent(l.block) \in Seq(Payloads) /\ Len(Parent(l.block)) = Len(l.block) - 1
      /\ Parent(m.block) \in Seq(Payloads) /\ Len(Parent(m.block)) = Len(m.block) - 1
  BY <1>1, <1>2, CutFacts DEF Parent
<1>4. \/ IsPrefixOf(chain[l.validator], chain[m.validator])
      \/ IsPrefixOf(chain[m.validator], chain[l.validator])
  BY <1>1 DEF Agreement
<1> QED BY <1>1, <1>2, <1>3, <1>4, PrefixesOfComparable

(* Finality certificates for two blocks of one height cannot exist, even   *)
(* before any replica has applied one of them.                             *)
THEOREM CertifiedUniqueHolds == Spec => []CertifiedUnique
<1>1. FinalityInv => CertifiedUnique
  <2> SUFFICES ASSUME FinalityInv, NEW l \in commitVotes, NEW m \in commitVotes,
                      Len(l.block) = Len(m.block),
                      verifyCertificate(l.block), verifyCertificate(m.block)
               PROVE  l.block = m.block
    BY DEF CertifiedUnique
  <2> USE DEF FinalityInv
  <2>1. Parent(l.block) = Parent(m.block) /\ Parent(l.block) \in Seq(Payloads)
    BY LocksShareParent
  <2>2. /\ l.block \in Seq(Payloads) /\ l.block # << >>
        /\ m.block \in Seq(Payloads) /\ m.block # << >>
    BY DEF TypeOK, VotesExtend
  <2>3. ASSUME NEW b \in Seq(Payloads), b # << >>, verifyCertificate(b),
               Parent(b) \in Seq(Payloads)
        PROVE  JointQuorum(CommitSigners(b), Parent(b))
    <3>1. b[Len(b)] \in Payloads
      BY <2>3
    <3>2. b = Append(Parent(b), b[Len(b)])
      BY <2>3 DEF Parent
    <3> HIDE DEF FinalityInv
    <3> QED BY <2>3, <3>1, <3>2, CertificateCommits
  <2> QED BY <2>1, <2>2, <2>3, CommittedSiblings
<1> QED BY <1>1, Invariance, PTL

(* Lock proofs of one round carry one block: in round zero because a       *)
(* validator prepares one block, later because it times out one block.     *)
THEOREM NoAmbiguousViewHolds == Spec => []NoAmbiguousView
<1>1. FinalityInv => NoAmbiguousView
  <2> SUFFICES ASSUME FinalityInv, NEW l \in commitVotes, NEW m \in commitVotes,
                      Parent(l.block) = Parent(m.block), l.round = m.round
               PROVE  l.block = m.block
    BY DEF NoAmbiguousView
  <2> USE DEF FinalityInv
  <2>1. /\ l.block \in Seq(Payloads) /\ l.block # << >>
        /\ m.block \in Seq(Payloads) /\ m.block # << >>
        /\ l.round \in Nat
    BY DEF TypeOK, VotesExtend, Rounds
  <2>2. /\ Parent(l.block) \in Seq(Payloads)
        /\ Len(Parent(l.block)) = Len(l.block) - 1
        /\ Len(Parent(m.block)) = Len(m.block) - 1
    BY <2>1, CutFacts DEF Parent
  <2>3. Len(l.block) = Len(m.block)
    BY <2>1, <2>2
  <2> DEFINE S == Required(Parent(l.block))
  <2>4. S \in ValidatorSets /\ S \subseteq Validators
    BY <2>2, MembersAreValidatorSet, ValidatorSetsFinite DEF Required
  <2>5. CASE l.round = 0
    <3>1. /\ HasQuorum(PrepareSigners(l.block, 0), S)
          /\ HasQuorum(PrepareSigners(m.block, 0), S)
      BY <2>5 DEF VotesCertified
    <3>2. PICK v \in S : /\ v \in PrepareSigners(l.block, 0)
                         /\ v \in PrepareSigners(m.block, 0)
                         /\ v \notin Byzantine
      BY <2>4, <3>1, QuorumIntersection
    <3>3. /\ [validator |-> v, block |-> l.block, round |-> 0] \in prepares
          /\ [validator |-> v, block |-> m.block, round |-> 0] \in prepares
      BY <3>2 DEF PrepareSigners, SignedPrepare
    <3> QED BY <2>3, <3>3 DEF PrepareUnique
  <2>6. CASE l.round > 0
    <3>1. /\ HasQuorum(TimeoutSigners(l.block, l.round), S)
          /\ HasQuorum(TimeoutSigners(m.block, l.round), S)
      BY <2>6 DEF VotesCertified
    <3>2. PICK v \in S : /\ v \in TimeoutSigners(l.block, l.round)
                         /\ v \in TimeoutSigners(m.block, l.round)
                         /\ v \notin Byzantine
      BY <2>4, <3>1, QuorumIntersection
    <3>3. /\ [validator |-> v, block |-> l.block, round |-> l.round] \in timeouts
          /\ [validator |-> v, block |-> m.block, round |-> l.round] \in timeouts
      BY <3>2 DEF TimeoutSigners, SignedTimeout
    <3> QED BY <2>3, <3>3 DEF TimeoutUnique
  <2> QED BY <2>1, <2>5, <2>6
<1> QED BY <1>1, Invariance, PTL

(* A finalized block's parent is on the disks of quorums of both sets.     *)
THEOREM FinalizedParentStoredHolds == Spec => []FinalizedParentStored
<1>1. FinalityInv => FinalizedParentStored
  <2> SUFFICES ASSUME FinalityInv, NEW v \in Honest, NEW i \in 1..Len(chain[v])
               PROVE  JointQuorum({w \in Validators : \/ w \in Byzantine
                                      \/ IsPrefixOf(SubSeq(chain[v], 1, i - 1), chain[w])},
                                  SubSeq(chain[v], 1, i - 1))
    BY DEF FinalizedParentStored, JointQuorum
  <2> USE DEF FinalityInv
  <2> DEFINE c == SubSeq(chain[v], 1, i - 1)
             b == SubSeq(chain[v], 1, i)
  <2>1. chain[v] \in Seq(Payloads) /\ i \in 0..Len(chain[v]) /\ i - 1 \in 0..Len(chain[v])
        /\ i > 0
    BY DEF TypeOK
  <2>2. c \in Seq(Payloads) /\ Parent(b) = c
    BY <2>1, CutFacts
  <2>3. JointQuorum(CommitSigners(b), c)
    BY DEF ChainCommitted
  <2> HIDE DEF b, c
  <2>4. CommitSigners(b) \subseteq
            {w \in Validators : w \in Byzantine \/ IsPrefixOf(c, chain[w])}
    BY <2>2 DEF CommitSigners, VotesExtend
  <2>5. JointQuorum({w \in Validators : w \in Byzantine \/ IsPrefixOf(c, chain[w])}, c)
    BY <2>2, <2>3, <2>4, JointQuorumMonotone
  <2> QED BY <2>5 DEF c
<1> QED BY <1>1, Invariance, PTL

(* Every step appends to the log or leaves it: of the four things a step   *)
(* does only commit changes a chain.                                       *)
LEMMA LogStep ==
  ASSUME FinalityInv, [Next]_vars
  PROVE  [Log!Next]_chain
<1> USE DEF FinalityInv
<1>1. CASE Next
  <2>1. PICK v \in Honest, x \in Payloads :
            \/ \E r \in Rounds : vote(v, Append(chain[v], x), r)
            \/ \E r \in Rounds : timeout(v, Append(chain[v], x), r)
            \/ \E r \in Rounds, cert \in Certificates :
                    commitVote(v, Append(chain[v], x), r, cert)
            \/ commit(v, Append(chain[v], x))
    BY <1>1, StepCases
  <2>2. CASE \E r \in Rounds : vote(v, Append(chain[v], x), r)
    BY <2>2 DEF vote
  <2>3. CASE \E r \in Rounds : timeout(v, Append(chain[v], x), r)
    BY <2>3 DEF timeout
  <2>4. CASE \E r \in Rounds, cert \in Certificates :
                  commitVote(v, Append(chain[v], x), r, cert)
    BY <2>4 DEF commitVote
  <2>5. CASE commit(v, Append(chain[v], x))
    <3>1. /\ chain' = [chain EXCEPT ![v] = Append(chain[v], x)]
          /\ verifyCertificate(Append(chain[v], x))
      BY <2>5 DEF commit
    <3>2. ASSUME NEW q \in Honest, Len(chain[q]) > Len(chain[v])
          PROVE  chain[q][Len(chain[v]) + 1] = x
      <4>1. chain[v] \in Seq(Payloads) /\ chain[q] \in Seq(Payloads)
        BY DEF TypeOK
      <4>2. PICK b : b = Append(chain[v], x)
        OBVIOUS
      <4>3. /\ b \in Seq(Payloads) /\ Len(b) = Len(chain[v]) + 1
            /\ b[Len(b)] = x
        BY <4>1, <4>2, ChildFacts DEF Payload
      <4>4. IsPrefixOf(b, chain[q]) \/ IsPrefixOf(chain[q], b)
        BY <3>1, <4>2, CommitAgrees
      <4>5. CASE IsPrefixOf(b, chain[q])
        BY <4>1, <4>3, <4>5, PrefixElements
      <4>6. CASE IsPrefixOf(chain[q], b)
        <5>1. Len(chain[q]) = Len(b)
          BY <3>2, <4>1, <4>3, <4>6 DEF IsPrefixOf
        <5> QED BY <4>1, <4>3, <4>6, <5>1, PrefixElements
      <4> QED BY <4>4, <4>5, <4>6
    <3> QED BY <3>1, <3>2 DEF Log!Next, Log!Extend
  <2> QED BY <2>1, <2>2, <2>3, <2>4, <2>5
<1>2. CASE UNCHANGED vars
  BY <1>2 DEF vars
<1> QED BY <1>1, <1>2

(* The network implements the replicated log.                              *)
THEOREM Refinement == Spec => LogSpec
<1>1. Init => Log!Init
  BY DEF Init, Log!Init
<1>2. FinalityInv /\ [Next]_vars => [Log!Next]_chain
  BY LogStep
<1> QED BY <1>1, <1>2, Invariance, PTL DEF Spec, LogSpec, Log!Spec
=============================================================================
