---------------------------- MODULE MempoolProofs ----------------------------
(***************************************************************************)
(* Proofs about Mempool, for any validators of which fewer than a third    *)
(* are faulty, any transactions and any bounds.                            *)
(*                                                                         *)
(* A receipt promises the next height.  Until the replica has reached that *)
(* height the receipt is in its files whatever happens, so every commit    *)
(* vote it signs for the height after the receipt is for a block with the  *)
(* admission; a quorum of receipts and the quorum of the block share an    *)
(* honest replica.                                                         *)
(***************************************************************************)
EXTENDS Mempool, FiniteSetTheorems, SequenceTheorems, TLAPS

\* What the files and the history of a replica are.
TypeOK ==
    /\ chain \in Seq(ToSet(chain))
    /\ height \in [Replicas -> Nat] /\ base \in [Replicas -> Nat]
    /\ \A r \in Replicas : base[r] <= height[r]
    /\ files \in [Replicas -> SUBSET Txs] /\ receipts \in [Replicas -> SUBSET Txs]
    /\ DOMAIN decision = Replicas
    /\ status \in [Replicas -> {"up", "down", "refused"}]

\* A protected admission is in no block but that of its activation height.
BondsInPlace ==
    /\ \A k \in 1..Len(chain) : \A i \in 1..Len(chain[k]) :
          isProtectedBeaconAdmission(chain[k][i]) => chain[k][i].at = k
    /\ \A b \in proposed : \A i \in 1..Len(b) :
          isProtectedBeaconAdmission(b[i]) => b[i].at = Len(chain) + 1

\* The validators whose votes a block of the chain rests on.
Voters(k, b) == Byzantine \cup {r \in Honest : <<k, b>> \in decision[r]}

\* A block is final by the votes of a quorum or as a recovery.
ChainCertified ==
    \A k \in 1..Len(chain) : \/ IsRecovery(chain[k]) /\ Recoveries
                             \/ Cardinality(Voters(k, chain[k])) >= Quorum /\ ~IsRecovery(chain[k])

\* What an early receipt of an honest replica still guarantees.
EarlyKept(i) ==
    /\ i.tx \in Txs /\ isProtectedBeaconAdmission(i.tx)
    /\ i.tx.at \in 1..(height[i.by] + 1)
    /\ height[i.by] < i.tx.at => i.tx \in receipts[i.by]
    /\ \A d \in decision[i.by] : d[1] = i.tx.at => Contains(d[2], i.tx)
EarlyReceipts == \A i \in issued : (i.by \in Honest /\ ~i.voted) => EarlyKept(i)

\* The admissions in the files of a replica: those of a running one have a receipt
\* and are for its next block; one that a stopped replica keeps for an earlier block
\* is in the part of the chain that it replays.
FilesOf(r) ==
    /\ receipts[r] \subseteq files[r]
    /\ \A t \in receipts[r] : isProtectedBeaconAdmission(t)
    /\ \A t \in files[r] : isProtectedBeaconAdmission(t) =>
        /\ status[r] = "up" => t.at = height[r] + 1 /\ t \in receipts[r]
        /\ (status[r] = "down" /\ ~Recoveries /\ t.at # height[r] + 1) =>
              \E k \in (base[r] + 1)..height[r] : Contains(chain[k], t)
FilesInPlace ==
    \A r \in Honest :
        /\ height[r] <= Len(chain)
        /\ FilesOf(r)
        /\ ~Recoveries => status[r] # "refused"

MempoolInv == TypeOK /\ BondsInPlace /\ ChainCertified /\ EarlyReceipts /\ FilesInPlace

-----------------------------------------------------------------------------
(* Quorums and sequences                                                   *)

LEMMA ReplicasFinite ==
  /\ IsFiniteSet(Replicas) /\ Cardinality(Replicas) \in Nat
  /\ \A S \in SUBSET Replicas : IsFiniteSet(S) /\ Cardinality(S) \in Nat
                               /\ Cardinality(S) <= Cardinality(Replicas)
  /\ Quorum \in Nat
<1>1. IsFiniteSet(Replicas) /\ Cardinality(Replicas) \in Nat
  BY FaultyMinority, FS_CardinalityType
<1>2. \A S \in SUBSET Replicas : IsFiniteSet(S) /\ Cardinality(S) <= Cardinality(Replicas)
  BY <1>1, FS_Subset
<1>3. \A S \in SUBSET Replicas : Cardinality(S) \in Nat
  BY <1>2, FS_CardinalityType
<1>4. Quorum \in Nat
  <2> DEFINE n == Cardinality(Replicas)
  <2>1. n \in Nat BY <1>1
  <2> HIDE DEF n
  <2>2. (n * 2) \div 3 + 1 \in Nat BY <2>1
  <2> QED BY <2>2 DEF Quorum, n
<1> QED BY <1>1, <1>2, <1>3, <1>4

\* Two quorums share an honest replica (admission-inclusion.mjs relies on it).
LEMMA HonestInBoth ==
  ASSUME NEW S \in SUBSET Replicas, NEW V \in SUBSET Replicas,
         Cardinality(S) >= Quorum, Cardinality(V) >= Quorum
  PROVE  \E r \in Honest : r \in S /\ r \in V
<1> DEFINE n == Cardinality(Replicas)  s == Cardinality(S)  v == Cardinality(V)
           i == Cardinality(S \cap V)  u == Cardinality(S \cup V)  b == Cardinality(Byzantine)
<1>1. /\ n \in Nat /\ s \in Nat /\ v \in Nat /\ i \in Nat /\ u \in Nat /\ b \in Nat
      /\ u <= n /\ IsFiniteSet(S) /\ IsFiniteSet(V) /\ IsFiniteSet(Byzantine)
  <2>1. S \cap V \in SUBSET Replicas /\ S \cup V \in SUBSET Replicas /\ Byzantine \in SUBSET Replicas
    BY FaultyMinority
  <2> QED BY <2>1, ReplicasFinite
<1>2. u = s + v - i
  BY <1>1, FS_Union
<1>3. s >= (n * 2) \div 3 + 1 /\ v >= (n * 2) \div 3 + 1 /\ 3 * b < n
  BY FaultyMinority DEF Quorum
<1>4. b < i
  <2> HIDE DEF n, s, v, i, u, b
  <2> QED BY <1>1, <1>2, <1>3
<1>5. ~ (S \cap V \subseteq Byzantine)
  <2> SUFFICES ASSUME S \cap V \subseteq Byzantine PROVE FALSE
    OBVIOUS
  <2>1. i <= b
    BY <1>1, FS_Subset
  <2> HIDE DEF i, b
  <2> QED BY <1>1, <1>4, <2>1
<1> QED BY <1>5 DEF Honest

LEMMA OwnElements ==
  ASSUME NEW T, NEW q \in Seq(T)
  PROVE  q \in Seq(ToSet(q))
<1>1. Len(q) \in Nat /\ q \in [1..Len(q) -> T] /\ DOMAIN q = 1..Len(q)
  OBVIOUS
<1>2. q \in [1..Len(q) -> ToSet(q)]
  BY <1>1 DEF ToSet
<1> QED BY <1>1, <1>2, SeqDef

\* A chain with one more block.
LEMMA AppendFacts ==
  ASSUME NEW s, s \in Seq(ToSet(s)), NEW b
  PROVE  /\ Append(s, b) \in Seq(ToSet(Append(s, b)))
         /\ Len(s) \in Nat /\ Len(Append(s, b)) = Len(s) + 1
         /\ \A k \in 1..Len(s) : Append(s, b)[k] = s[k]
         /\ Append(s, b)[Len(s) + 1] = b
<1> DEFINE T == ToSet(s) \cup {b}
<1>1. s \in Seq(T)
  <2>1. Len(s) \in Nat /\ s \in [1..Len(s) -> ToSet(s)]
    OBVIOUS
  <2>2. s \in [1..Len(s) -> T]
    BY <2>1
  <2> QED BY <2>1, <2>2, SeqDef
<1> b \in T
  OBVIOUS
<1> HIDE DEF T
<1>2. /\ Append(s, b) \in Seq(T) /\ Len(s) \in Nat /\ Len(Append(s, b)) = Len(s) + 1
      /\ \A k \in 1..Len(s) : Append(s, b)[k] = s[k]
      /\ Append(s, b)[Len(s) + 1] = b
  BY <1>1
<1> QED BY <1>2, OwnElements

\* What the check of one admission alone says (the block of a bond is its height).
LEMMA ValidBond ==
  ASSUME NEW b, NEW h, validateProposal(b, h)
  PROVE  \A i \in 1..Len(b) : isProtectedBeaconAdmission(b[i]) => b[i].at = h + 1
BY DEF validateProposal, isProtectedBeaconAdmission

\* Pruning removes no protected admission.
LEMMA BondStays ==
  ASSUME NEW t, NEW h, isProtectedBeaconAdmission(t)
  PROVE  ~InvalidAdmission(t, h)
BY DEF isProtectedBeaconAdmission, InvalidAdmission

LEMMA RecoveryFacts ==
  /\ IsRecovery(<<RecoveryTx>>)
  /\ ~isProtectedBeaconAdmission(RecoveryTx)
BY DEF IsRecovery, RecoveryTx, isProtectedBeaconAdmission

-----------------------------------------------------------------------------
(* The steps                                                               *)

\* Steps that leave the chain, the proposals and the votes alone.
LEMMA QuietConsensus ==
  ASSUME BondsInPlace, ChainCertified, UNCHANGED consensus
  PROVE  BondsInPlace' /\ ChainCertified'
BY DEF BondsInPlace, ChainCertified, Voters, consensus

\* A step of replica r changes no file and no height of another.
Alone(r) ==
    \A q \in Replicas \ {r} :
        /\ height'[q] = height[q] /\ base'[q] = base[q] /\ status'[q] = status[q]
        /\ files'[q] = files[q] /\ receipts'[q] = receipts[q] /\ decision'[q] = decision[q]

LEMMA OthersKeep ==
  ASSUME MempoolInv, NEW r \in Replicas, Alone(r), UNCHANGED chain
  PROVE  /\ \A q \in Honest \ {r} : FilesInPlace => /\ height'[q] <= Len(chain')
                                                    /\ FilesOf(q)'
                                                    /\ ~Recoveries => status'[q] # "refused"
         /\ \A i \in issued : (i.by \in Honest \ {r} /\ EarlyKept(i)) => EarlyKept(i)'
BY DEF MempoolInv, Alone, Honest, FilesInPlace, FilesOf, EarlyKept

LEMMA MempoolInit ==
  Init => MempoolInv
<1> SUFFICES ASSUME Init PROVE MempoolInv
  OBVIOUS
<1>1. TypeOK
  BY DEF Init, TypeOK
<1>2. BondsInPlace /\ ChainCertified
  BY DEF Init, BondsInPlace, ChainCertified
<1>3. EarlyReceipts
  BY DEF Init, EarlyReceipts, Honest
<1>4. FilesInPlace
  BY DEF Init, FilesInPlace, FilesOf, Honest
<1> QED BY <1>1, <1>2, <1>3, <1>4 DEF MempoolInv

LEMMA SubmitStep ==
  ASSUME MempoolInv, NEW r \in Honest, NEW t \in Txs, submitTransaction(r, t)
  PROVE  MempoolInv'
<1> USE DEF MempoolInv
<1>1. /\ r \in Replicas /\ status[r] = "up"
      /\ UNCHANGED <<chain, proposed, decision, height, base, status>>
      /\ files' = [files EXCEPT ![r] = {u \in files[r] \cup {t} : ~InvalidAdmission(u, height[r])}]
  BY DEF submitTransaction, Honest, consensus, Prune
<1>2. isProtectedBeaconAdmission(t) =>
        /\ t.at = height[r] + 1
        /\ receipts' = [receipts EXCEPT ![r] = @ \cup {t}]
        /\ issued' = issued \cup {[by |-> r, tx |-> t, voted |-> Voted(r, height[r] + 1)]}
  <2>1. isProtectedBeaconAdmission(t) => validateProposal(<<t>>, height[r])
    BY DEF submitTransaction, Accepts
  <2> QED BY <2>1, ValidBond DEF submitTransaction
<1>3. ~isProtectedBeaconAdmission(t) => UNCHANGED <<receipts, issued>>
  BY DEF submitTransaction
<1>4. receipts' \in [Replicas -> SUBSET Txs] /\ receipts[r] \subseteq receipts'[r]
  BY <1>1, <1>2, <1>3 DEF TypeOK
<1>5. TypeOK'
  BY <1>1, <1>4 DEF TypeOK
<1>6. BondsInPlace' /\ ChainCertified'
  BY <1>1, QuietConsensus DEF consensus
<1>7. Alone(r)
  BY <1>1, <1>2, <1>3 DEF Alone, TypeOK
<1>8. FilesInPlace'
  <2>1. FilesOf(r)'
    <3>1. \A u \in receipts'[r] : u \in files'[r] /\ isProtectedBeaconAdmission(u)
      BY <1>1, <1>2, <1>3, BondStays DEF FilesInPlace, FilesOf, TypeOK
    <3>2. \A u \in files'[r] : isProtectedBeaconAdmission(u) =>
              u.at = height[r] + 1 /\ u \in receipts'[r]
      BY <1>1, <1>2, <1>3 DEF FilesInPlace, FilesOf, TypeOK
    <3> QED BY <1>1, <3>1, <3>2 DEF FilesOf
  <2>2. height'[r] <= Len(chain') /\ (~Recoveries => status'[r] # "refused")
    BY <1>1 DEF FilesInPlace
  <2> QED BY <1>1, <1>7, <2>1, <2>2, OthersKeep DEF FilesInPlace
<1>9. EarlyReceipts'
  <2> SUFFICES ASSUME NEW i \in issued', i.by \in Honest, ~i.voted
               PROVE  EarlyKept(i)'
    BY DEF EarlyReceipts
  <2>1. CASE i \in issued
    <3>1. EarlyKept(i)
      BY <2>1 DEF EarlyReceipts
    <3>2. CASE i.by = r
      BY <1>1, <1>4, <3>1, <3>2 DEF EarlyKept
    <3> QED BY <1>1, <1>7, <2>1, <3>1, <3>2, OthersKeep
  <2>2. CASE i \notin issued
    <3>1. /\ isProtectedBeaconAdmission(t) /\ i.by = r /\ i.tx = t
          /\ ~Voted(r, height[r] + 1)
      BY <1>2, <1>3, <2>2
    <3>2. t.at = height[r] + 1 /\ t \in receipts'[r] /\ height[r] \in Nat
      BY <1>1, <1>2, <3>1 DEF TypeOK
    <3>3. \A d \in decision[r] : d[1] # t.at
      BY <3>1, <3>2 DEF Voted
    <3> QED BY <1>1, <3>1, <3>2, <3>3 DEF EarlyKept
  <2> QED BY <2>1, <2>2
<1> QED BY <1>5, <1>6, <1>8, <1>9

\* What the steps of one replica that return no receipt must keep.
LEMMA LocalStep ==
  ASSUME MempoolInv, NEW r \in Honest, Alone(r), UNCHANGED <<consensus, issued>>, TypeOK',
         height'[r] \in Nat, height[r] <= height'[r], height'[r] <= Len(chain),
         FilesOf(r)', ~Recoveries => status'[r] # "refused",
         \A t \in receipts[r] : height'[r] < t.at => t \in receipts'[r]
  PROVE  MempoolInv'
<1> USE DEF MempoolInv
<1>1. r \in Replicas /\ UNCHANGED <<chain, decision>>
  BY DEF Honest, consensus
<1>2. BondsInPlace' /\ ChainCertified'
  BY QuietConsensus
<1>3. FilesInPlace'
  BY <1>1, OthersKeep DEF FilesInPlace
<1>4. EarlyReceipts'
  <2> SUFFICES ASSUME NEW i \in issued, i.by \in Honest, ~i.voted
               PROVE  EarlyKept(i)'
    BY DEF EarlyReceipts
  <2>1. EarlyKept(i)
    BY DEF EarlyReceipts
  <2>2. CASE i.by = r
    <3>1. height[r] \in Nat /\ i.tx.at \in Nat /\ i.tx.at <= height'[r] + 1
      BY <1>1, <2>1, <2>2 DEF EarlyKept, TypeOK
    <3>2. height'[r] < i.tx.at => i.tx \in receipts'[r]
      BY <2>1, <2>2, <3>1 DEF EarlyKept
    <3> QED BY <1>1, <2>1, <2>2, <3>1, <3>2 DEF EarlyKept
  <2> QED BY <1>1, <2>1, <2>2, OthersKeep
<1> QED BY <1>2, <1>3, <1>4

LEMMA SubmitCrashStep ==
  ASSUME MempoolInv, NEW r \in Honest, NEW t \in Txs, SubmitCrash(r, t)
  PROVE  MempoolInv'
<1> USE DEF MempoolInv
<1>1. /\ r \in Replicas /\ status[r] = "up"
      /\ UNCHANGED <<consensus, issued, height, base, receipts, chain, decision>>
      /\ files' = [files EXCEPT ![r] = @ \cup {t}]
      /\ status' = [status EXCEPT ![r] = "down"]
  BY DEF SubmitCrash, Honest, consensus
<1>2. isProtectedBeaconAdmission(t) => t.at = height[r] + 1
  <2>1. isProtectedBeaconAdmission(t) => validateProposal(<<t>>, height[r])
    BY DEF SubmitCrash, Accepts
  <2> QED BY <2>1, ValidBond
<1>3. TypeOK' /\ Alone(r)
  BY <1>1 DEF TypeOK, Alone
<1>4. FilesOf(r)'
  BY <1>1, <1>2 DEF FilesInPlace, FilesOf, TypeOK
<1>5. /\ height'[r] \in Nat /\ height[r] <= height'[r] /\ height'[r] <= Len(chain)
      /\ ~Recoveries => status'[r] # "refused"
      /\ \A u \in receipts[r] : height'[r] < u.at => u \in receipts'[r]
  BY <1>1 DEF FilesInPlace, TypeOK
<1> QED BY <1>1, <1>3, <1>4, <1>5, LocalStep

LEMMA CrashStep ==
  ASSUME MempoolInv, NEW r \in Honest, Crash(r)
  PROVE  MempoolInv'
<1> USE DEF MempoolInv
<1>1. /\ r \in Replicas /\ status[r] = "up"
      /\ UNCHANGED <<consensus, issued, height, base, receipts, files, chain, decision>>
      /\ status' = [status EXCEPT ![r] = "down"]
  BY DEF Crash, Honest, consensus
<1>2. TypeOK' /\ Alone(r)
  BY <1>1 DEF TypeOK, Alone
<1>3. FilesOf(r)'
  BY <1>1 DEF FilesInPlace, FilesOf, TypeOK
<1>4. /\ height'[r] \in Nat /\ height[r] <= height'[r] /\ height'[r] <= Len(chain)
      /\ ~Recoveries => status'[r] # "refused"
      /\ \A t \in receipts[r] : height'[r] < t.at => t \in receipts'[r]
  BY <1>1 DEF FilesInPlace, TypeOK
<1> QED BY <1>1, <1>2, <1>3, <1>4, LocalStep

\* A block that the obligations allow holds every receipted admission, unless it is
\* a recovery.
LEMMA AllowedHolds ==
  ASSUME MempoolInv, NEW r \in Honest, status[r] = "up", NEW b, CommitAllowed(r, b), ~IsRecovery(b)
  PROVE  \A t \in receipts[r] : Contains(b, t)
<1> SUFFICES ASSUME NEW t \in receipts[r] PROVE Contains(b, t)
  OBVIOUS
<1>1. r \in Replicas /\ height[r] \in Nat
  BY DEF Honest, MempoolInv, TypeOK
<1>2. t.at = height[r] + 1
  BY DEF MempoolInv, FilesInPlace, FilesOf
<1>3. assertAdmissionInclusion(b, height[r], receipts[r])
  BY DEF CommitAllowed
<1> QED BY <1>1, <1>2, <1>3 DEF assertAdmissionInclusion

LEMMA CommitCrashStep ==
  ASSUME MempoolInv, NEW r \in Honest, CommitCrash(r)
  PROVE  MempoolInv'
<1> USE DEF MempoolInv
<1>1. /\ r \in Replicas /\ status[r] = "up" /\ height[r] < Len(chain)
      /\ UNCHANGED <<consensus, issued, base, receipts, files, chain, decision>>
      /\ height' = [height EXCEPT ![r] = @ + 1]
      /\ status' = [status EXCEPT ![r] = "down"]
      /\ CommitAllowed(r, chain[height[r] + 1])
  BY DEF CommitCrash, Honest, consensus
<1>2. /\ TypeOK' /\ Alone(r) /\ height[r] \in Nat /\ base[r] \in Nat /\ base[r] <= height[r]
      /\ height'[r] = height[r] + 1 /\ Len(chain) \in Nat
  BY <1>1 DEF TypeOK, Alone
<1>3. ~Recoveries => \A t \in receipts[r] : Contains(chain[height'[r]], t)
  <2>1. height'[r] \in 1..Len(chain)
    BY <1>1, <1>2
  <2>2. ~Recoveries => ~IsRecovery(chain[height'[r]])
    BY <2>1 DEF ChainCertified
  <2> QED BY <1>1, <1>2, <2>2, AllowedHolds
<1>4. FilesOf(r)'
  <2>1. \A t \in files[r] : isProtectedBeaconAdmission(t) => t \in receipts[r]
    BY <1>1 DEF FilesInPlace, FilesOf
  <2>2. height'[r] \in (base[r] + 1)..height'[r]
    BY <1>2
  <2>3. \A t \in files[r] : (isProtectedBeaconAdmission(t) /\ ~Recoveries) =>
           \E k \in (base'[r] + 1)..height'[r] : Contains(chain[k], t)
    BY <1>1, <1>3, <2>1, <2>2
  <2> QED BY <1>1, <1>2, <2>3 DEF FilesInPlace, FilesOf, TypeOK
<1>5. /\ height'[r] \in Nat /\ height[r] <= height'[r] /\ height'[r] <= Len(chain)
      /\ ~Recoveries => status'[r] # "refused"
      /\ \A t \in receipts[r] : height'[r] < t.at => t \in receipts'[r]
  BY <1>1, <1>2 DEF FilesInPlace
<1> QED BY <1>1, <1>2, <1>4, <1>5, LocalStep

LEMMA CommitStep ==
  ASSUME MempoolInv, NEW r \in Honest, commit(r)
  PROVE  MempoolInv'
<1> USE DEF MempoolInv
<1> DEFINE b == chain[height[r] + 1]
           gone == ToSet(b) \cup (IF IsRecovery(b) THEN receipts[r] ELSE {})
<1>1. /\ r \in Replicas /\ status[r] = "up" /\ height[r] < Len(chain)
      /\ UNCHANGED <<consensus, issued, base, status, chain, decision>>
      /\ height' = [height EXCEPT ![r] = height[r] + 1]
      /\ files' = [files EXCEPT ![r] = {t \in files[r] \ gone : ~InvalidAdmission(t, height[r] + 1)}]
      /\ receipts' = [receipts EXCEPT ![r] = @ \ gone]
      /\ CommitAllowed(r, b)
  BY DEF commit, Honest, consensus, Prune
<1>2. /\ TypeOK' /\ Alone(r) /\ height[r] \in Nat /\ base[r] \in Nat /\ base[r] <= height[r]
      /\ height'[r] = height[r] + 1 /\ Len(chain) \in Nat
      /\ files'[r] \subseteq files[r] \ gone /\ receipts'[r] = receipts[r] \ gone
  BY <1>1 DEF TypeOK, Alone
<1>3. receipts[r] \subseteq gone
  <2>1. CASE IsRecovery(b)
    BY <2>1
  <2>2. CASE ~IsRecovery(b)
    <3>1. \A t \in receipts[r] : Contains(b, t)
      BY <1>1, <2>2, AllowedHolds
    <3>2. \A t : Contains(b, t) => t \in ToSet(b)
      <4>1. b = chain[height[r] + 1] /\ DOMAIN b = 1..Len(b)
        OBVIOUS
      <4> QED BY <4>1 DEF Contains, ToSet
    <3> QED BY <3>1, <3>2
  <2> QED BY <2>1, <2>2
<1>4. FilesOf(r)'
  <2>1. \A t \in files[r] : isProtectedBeaconAdmission(t) => t \in receipts[r]
    BY <1>1 DEF FilesInPlace, FilesOf
  <2> HIDE DEF gone
  <2> QED BY <1>1, <1>2, <1>3, <2>1 DEF FilesOf
<1> HIDE DEF gone, b
<1>5. \A t \in receipts[r] : t.at = height[r] + 1
  BY <1>1 DEF FilesInPlace, FilesOf
<1>6. /\ height'[r] \in Nat /\ height[r] <= height'[r] /\ height'[r] <= Len(chain)
      /\ ~Recoveries => status'[r] # "refused"
      /\ \A t \in receipts[r] : height'[r] < t.at => t \in receipts'[r]
  BY <1>1, <1>2, <1>5 DEF FilesInPlace
<1> QED BY <1>1, <1>2, <1>4, <1>6, LocalStep

LEMMA RestartStep ==
  ASSUME MempoolInv, NEW r \in Honest, Restart(r)
  PROVE  MempoolInv'
<1> USE DEF MempoolInv
<1> DEFINE h == height[r]
           done == {t \in files[r] : \E k \in (base[r] + 1)..h : Contains(chain[k], t)}
           kept == files[r] \ done
           bonds == {t \in kept : isProtectedBeaconAdmission(t)}
<1>1. /\ r \in Replicas /\ status[r] = "down"
      /\ UNCHANGED <<consensus, issued, height, base, chain, decision>>
      /\ h \in Nat /\ base[r] \in Nat /\ h <= Len(chain) /\ Len(chain) \in Nat
  BY DEF Restart, Honest, consensus, TypeOK, FilesInPlace
<1>2. CASE \E t \in bonds : t.at # h + 1
  <2>1. status' = [status EXCEPT ![r] = "refused"] /\ UNCHANGED <<mem, files, receipts>>
    BY <1>2 DEF Restart
  <2>2. TypeOK' /\ Alone(r)
    BY <1>1, <2>1 DEF TypeOK, Alone
  <2>3. FilesOf(r)'
    BY <1>1, <2>1 DEF FilesInPlace, FilesOf, TypeOK
  <2>4. Recoveries
    BY <1>1, <1>2 DEF FilesInPlace, FilesOf
  <2>5. /\ height'[r] \in Nat /\ height[r] <= height'[r] /\ height'[r] <= Len(chain)
        /\ \A t \in receipts[r] : height'[r] < t.at => t \in receipts'[r]
    BY <1>1, <2>1
  <2> QED BY <1>1, <2>2, <2>3, <2>4, <2>5, LocalStep
<1>3. CASE ~ \E t \in bonds : t.at # h + 1
  <2>1. /\ status' = [status EXCEPT ![r] = "up"]
        /\ receipts' = [receipts EXCEPT ![r] = bonds]
        /\ files' = [files EXCEPT ![r] = {t \in kept : ~InvalidAdmission(t, h)}]
    BY <1>3 DEF Restart, Prune
  <2>2. TypeOK' /\ Alone(r)
    BY <1>1, <2>1 DEF TypeOK, Alone
  <2>3. FilesOf(r)'
    <3>1. receipts'[r] = bonds /\ files'[r] = {t \in kept : ~InvalidAdmission(t, h)}
          /\ status'[r] = "up" /\ height'[r] = h
      BY <1>1, <2>1 DEF TypeOK
    <3> QED BY <1>3, <3>1, BondStays DEF FilesOf
  <2>4. \A t \in receipts[r] : height'[r] < t.at => t \in receipts'[r]
    <3> SUFFICES ASSUME NEW t \in receipts[r], h < t.at PROVE t \in bonds
      BY <1>1, <2>1 DEF TypeOK
    <3>1. t \in files[r] /\ isProtectedBeaconAdmission(t)
      BY <1>1 DEF FilesInPlace, FilesOf
    <3>2. t \notin done
      <4> SUFFICES ASSUME NEW k \in (base[r] + 1)..h, Contains(chain[k], t) PROVE FALSE
        OBVIOUS
      <4>1. k \in 1..Len(chain) /\ k <= h
        BY <1>1
      <4>2. t.at = k
        BY <3>1, <4>1 DEF BondsInPlace, Contains
      <4> QED BY <1>1, <4>1, <4>2
    <3> QED BY <3>1, <3>2
  <2>5. /\ height'[r] \in Nat /\ height[r] <= height'[r] /\ height'[r] <= Len(chain)
        /\ status'[r] # "refused"
    BY <1>1, <2>1 DEF TypeOK
  <2> QED BY <1>1, <2>2, <2>3, <2>4, <2>5, LocalStep
<1> QED BY <1>2, <1>3

LEMMA SnapshotStep ==
  ASSUME MempoolInv, NEW r \in Honest, NEW target \in 1..MaxHeight, installSnapshot(r, target)
  PROVE  MempoolInv'
<1> USE DEF MempoolInv
<1>1. /\ r \in Replicas /\ status[r] = "up"
      /\ UNCHANGED <<consensus, issued, files, receipts, status, chain, decision>>
      /\ height[r] < target /\ target <= Len(chain) /\ target \in Nat
      /\ height' = [height EXCEPT ![r] = target] /\ base' = [base EXCEPT ![r] = target]
      /\ \A t \in receipts[r] : t.at > target
  BY DEF installSnapshot, Honest, consensus
<1>2. TypeOK' /\ Alone(r) /\ height[r] \in Nat
  BY <1>1 DEF TypeOK, Alone
<1>3. \A t \in files[r] : ~isProtectedBeaconAdmission(t)
  BY <1>1, <1>2 DEF FilesInPlace, FilesOf
<1>4. FilesOf(r)'
  BY <1>1, <1>3 DEF FilesInPlace, FilesOf
<1>5. /\ height'[r] \in Nat /\ height[r] <= height'[r] /\ height'[r] <= Len(chain)
      /\ ~Recoveries => status'[r] # "refused"
      /\ \A t \in receipts[r] : height'[r] < t.at => t \in receipts'[r]
  BY <1>1, <1>2 DEF FilesInPlace, TypeOK
<1> QED BY <1>1, <1>2, <1>4, <1>5, LocalStep

\* A proposal that the ledger finds valid.
LEMMA ProposeStep ==
  ASSUME MempoolInv, NEW b, validateProposal(b, Len(chain)), proposed' = proposed \cup {b},
         UNCHANGED <<chain, decision>>
  PROVE  BondsInPlace' /\ ChainCertified'
<1>1. \A i \in 1..Len(b) : isProtectedBeaconAdmission(b[i]) => b[i].at = Len(chain) + 1
  BY ValidBond
<1>2. BondsInPlace'
  BY <1>1 DEF MempoolInv, BondsInPlace
<1>3. ChainCertified'
  BY DEF MempoolInv, ChainCertified, Voters
<1> QED BY <1>2, <1>3

LEMMA BuildStep ==
  ASSUME MempoolInv, NEW p \in Honest, buildProposal(p)
  PROVE  MempoolInv'
<1> USE DEF MempoolInv
<1>1. /\ p \in Replicas
      /\ UNCHANGED <<chain, decision, height, base, receipts, issued, status>>
      /\ files' = [files EXCEPT ![p] = {t \in files[p] : ~InvalidAdmission(t, height[p])}]
  BY DEF buildProposal, Honest, Prune
<1>2. TypeOK' /\ Alone(p)
  BY <1>1 DEF TypeOK, Alone
<1>3. BondsInPlace' /\ ChainCertified'
  <2>1. PICK b : validateProposal(b, Len(chain)) /\ proposed' = proposed \cup {b}
    BY DEF buildProposal
  <2> QED BY <1>1, <2>1, ProposeStep
<1>4. FilesInPlace'
  <2>1. FilesOf(p)'
    BY <1>1, BondStays DEF FilesInPlace, FilesOf, TypeOK
  <2> QED BY <1>1, <1>2, <2>1, OthersKeep DEF FilesInPlace
<1>5. EarlyReceipts'
  BY <1>1 DEF EarlyReceipts, EarlyKept
<1> QED BY <1>2, <1>3, <1>4, <1>5

LEMMA FaultyStep ==
  ASSUME MempoolInv, NEW t \in Txs, ByzantineProposal(t)
  PROVE  MempoolInv'
<1> USE DEF MempoolInv
<1>1. UNCHANGED <<chain, decision, height, base, files, receipts, issued, status>>
  BY DEF ByzantineProposal
<1>2. BondsInPlace' /\ ChainCertified'
  BY <1>1, ProposeStep DEF ByzantineProposal
<1> QED BY <1>1, <1>2 DEF TypeOK, FilesInPlace, FilesOf, EarlyReceipts, EarlyKept

LEMMA VoteStep ==
  ASSUME MempoolInv, NEW r \in Honest, NEW b \in proposed, commitVote(r, b)
  PROVE  MempoolInv'
<1> USE DEF MempoolInv
<1>1. /\ r \in Replicas /\ status[r] = "up" /\ height[r] \in Nat
      /\ UNCHANGED <<chain, proposed, height, base, files, receipts, issued, status>>
      /\ decision' = [decision EXCEPT ![r] = @ \cup {<<height[r] + 1, b>>}]
      /\ assertAdmissionInclusion(b, height[r], receipts[r])
  BY DEF commitVote, Honest, TypeOK
<1>2. TypeOK' /\ BondsInPlace' /\ FilesInPlace'
  BY <1>1 DEF TypeOK, BondsInPlace, FilesInPlace, FilesOf
<1>3. ChainCertified'
  <2> SUFFICES ASSUME NEW k \in 1..Len(chain), Cardinality(Voters(k, chain[k])) >= Quorum
               PROVE  Cardinality(Voters(k, chain[k])') >= Quorum
    BY <1>1 DEF ChainCertified
  <2>1. Voters(k, chain[k]) \subseteq Voters(k, chain[k])'
    BY <1>1 DEF Voters, TypeOK, Honest
  <2>2. Voters(k, chain[k])' \in SUBSET Replicas
    BY FaultyMinority DEF Voters, Honest
  <2>3. Cardinality(Voters(k, chain[k])) <= Cardinality(Voters(k, chain[k])')
    BY <2>1, <2>2, ReplicasFinite, FS_Subset
  <2>4. Cardinality(Voters(k, chain[k])) \in Nat /\ Cardinality(Voters(k, chain[k])') \in Nat
    BY <2>1, <2>2, ReplicasFinite
  <2> QED BY <2>3, <2>4, ReplicasFinite
<1>4. EarlyReceipts'
  <2> SUFFICES ASSUME NEW i \in issued, i.by \in Honest, ~i.voted
               PROVE  EarlyKept(i)'
    BY <1>1 DEF EarlyReceipts
  <2>1. EarlyKept(i) /\ i.by \in Replicas
    BY DEF EarlyReceipts, Honest
  <2>2. ASSUME i.by = r, i.tx.at = height[r] + 1
        PROVE  Contains(b, i.tx)
    <3>1. i.tx \in receipts[r]
      BY <1>1, <2>1, <2>2 DEF EarlyKept
    <3> QED BY <1>1, <2>2, <3>1 DEF assertAdmissionInclusion
  <2>3. \A d \in decision'[i.by] : d[1] = i.tx.at => Contains(d[2], i.tx)
    BY <1>1, <2>1, <2>2 DEF EarlyKept, TypeOK
  <2> QED BY <1>1, <2>1, <2>3 DEF EarlyKept
<1> QED BY <1>2, <1>3, <1>4

\* A block becomes final.
LEMMA ExtendStep ==
  ASSUME MempoolInv, NEW b, Extend(b),
         \A i \in 1..Len(b) : isProtectedBeaconAdmission(b[i]) => b[i].at = Len(chain) + 1,
         \/ IsRecovery(b) /\ Recoveries
         \/ /\ ~IsRecovery(b)
            /\ Cardinality(Byzantine \cup
                   {r \in Honest : <<Len(chain) + 1, b>> \in decision[r]}) >= Quorum
  PROVE  MempoolInv'
<1> USE DEF MempoolInv
<1> DEFINE n == Len(chain)
<1>1. /\ chain' = Append(chain, b) /\ proposed' = {}
      /\ UNCHANGED <<decision, height, base, files, receipts, issued, status>>
  BY DEF Extend
<1>2. /\ chain' \in Seq(ToSet(chain')) /\ n \in Nat /\ Len(chain') = n + 1
      /\ \A k \in 1..n : chain'[k] = chain[k]
      /\ chain'[n + 1] = b
  BY <1>1, AppendFacts DEF TypeOK
<1> HIDE DEF n
<1>3. \A k \in 1..Len(chain') : k = n + 1 \/ k \in 1..n
  BY <1>2
<1>4. n = Len(chain)
  BY DEF n
<1>5. TypeOK'
  BY <1>1, <1>2 DEF TypeOK
<1>6. BondsInPlace'
  BY <1>1, <1>2, <1>3, <1>4 DEF BondsInPlace
<1>7. ChainCertified'
  <2>1. \A k \in 1..Len(chain') : Voters(k, chain[k])' = Voters(k, chain'[k])
    BY <1>1 DEF Voters
  <2>2. Voters(n + 1, b) = Byzantine \cup {r \in Honest : <<n + 1, b>> \in decision[r]}
    BY DEF Voters
  <2> SUFFICES ASSUME NEW k \in 1..Len(chain')
               PROVE  \/ IsRecovery(chain'[k]) /\ Recoveries
                      \/ Cardinality(Voters(k, chain'[k])) >= Quorum /\ ~IsRecovery(chain'[k])
    BY <2>1 DEF ChainCertified
  <2>3. CASE k = n + 1
    BY <1>2, <1>4, <2>2, <2>3
  <2>4. CASE k \in 1..n
    BY <1>2, <1>4, <2>4 DEF ChainCertified
  <2> QED BY <1>3, <2>3, <2>4
<1>8. FilesInPlace'
  <2> SUFFICES ASSUME NEW r \in Honest
               PROVE  height[r] <= Len(chain') /\ FilesOf(r)' /\ (~Recoveries => status[r] # "refused")
    BY <1>1 DEF FilesInPlace
  <2>1. /\ r \in Replicas /\ height[r] \in Nat /\ base[r] \in Nat /\ height[r] <= n
        /\ FilesOf(r) /\ (~Recoveries => status[r] # "refused")
    BY <1>4 DEF Honest, TypeOK, FilesInPlace
  <2>2. \A k \in (base[r] + 1)..height[r] : chain'[k] = chain[k]
    BY <1>2, <2>1
  <2>3. FilesOf(r)'
    BY <1>1, <2>1, <2>2 DEF FilesOf
  <2> QED BY <1>2, <2>1, <2>3
<1>9. EarlyReceipts'
  BY <1>1 DEF EarlyReceipts, EarlyKept
<1> QED BY <1>5, <1>6, <1>7, <1>8, <1>9

LEMMA FinalizeStep ==
  ASSUME MempoolInv, Finalize
  PROVE  MempoolInv'
<1>1. PICK b \in proposed :
        /\ ~IsRecovery(b) /\ Extend(b)
        /\ Cardinality(Byzantine \cup
               {r \in Honest : <<Len(chain) + 1, b>> \in decision[r]}) >= Quorum
  BY DEF Finalize
<1>2. \A i \in 1..Len(b) : isProtectedBeaconAdmission(b[i]) => b[i].at = Len(chain) + 1
  BY DEF MempoolInv, BondsInPlace
<1> QED BY <1>1, <1>2, ExtendStep

LEMMA RecoveryStep ==
  ASSUME MempoolInv, FinalizeRecovery
  PROVE  MempoolInv'
<1> DEFINE b == <<RecoveryTx>>
<1>1. \A i \in 1..Len(b) : ~isProtectedBeaconAdmission(b[i])
  <2>1. \A i \in 1..Len(b) : b[i] = RecoveryTx
    OBVIOUS
  <2> QED BY <2>1, RecoveryFacts
<1>2. Extend(b) /\ Recoveries /\ IsRecovery(b)
  BY RecoveryFacts DEF FinalizeRecovery
<1> HIDE DEF b
<1> QED BY <1>1, <1>2, ExtendStep

LEMMA MempoolStep ==
  ASSUME MempoolInv, [Next]_vars
  PROVE  MempoolInv'
<1>1. CASE Next
  <2>1. ASSUME NEW r \in Honest, NEW t \in Txs, submitTransaction(r, t) \/ SubmitCrash(r, t)
        PROVE  MempoolInv'
    BY <2>1, SubmitStep, SubmitCrashStep
  <2>2. ASSUME NEW p \in Honest, buildProposal(p)
        PROVE  MempoolInv'
    BY <2>2, BuildStep
  <2>3. ASSUME NEW t \in Txs, ByzantineProposal(t)
        PROVE  MempoolInv'
    BY <2>3, FaultyStep
  <2>4. ASSUME NEW r \in Honest, NEW b \in proposed, commitVote(r, b)
        PROVE  MempoolInv'
    BY <2>4, VoteStep
  <2>5. ASSUME NEW r \in Honest, commit(r) \/ CommitCrash(r) \/ Crash(r) \/ Restart(r)
        PROVE  MempoolInv'
    BY <2>5, CommitStep, CommitCrashStep, CrashStep, RestartStep
  <2>6. ASSUME NEW r \in Honest, NEW target \in 1..MaxHeight, installSnapshot(r, target)
        PROVE  MempoolInv'
    BY <2>6, SnapshotStep
  <2> QED BY <1>1, <2>1, <2>2, <2>3, <2>4, <2>5, <2>6, FinalizeStep, RecoveryStep DEF Next
<1>2. CASE UNCHANGED vars
  BY <1>2 DEF vars, MempoolInv, TypeOK, BondsInPlace, ChainCertified, Voters, EarlyReceipts,
              EarlyKept, FilesInPlace, FilesOf
<1> QED BY <1>1, <1>2

-----------------------------------------------------------------------------
(* The theorems                                                            *)

\* Every reachable state of the replicas satisfies the inductive invariant: files, votes
\* and receipts (submitTransaction, commitVote, commit, the constructor) stay in step.
THEOREM MempoolInvariant == Spec => []MempoolInv
<1>1. Init => MempoolInv
  BY MempoolInit
<1>2. MempoolInv /\ [Next]_vars => MempoolInv'
  BY MempoolStep
<1> QED BY <1>1, <1>2, PTL DEF Spec

\* The promise of a quorum of early receipts is kept: the block at the promised height
\* holds the admission, or is a recovery (submitTransaction and commitVote).
THEOREM EarlyPromiseHolds == Spec => []EarlyPromiseKept
<1>1. MempoolInv => EarlyPromiseKept
  <2> SUFFICES ASSUME MempoolInv, NEW t \in Txs, Cardinality(Signers(t, TRUE)) >= Quorum,
                      Len(chain) >= t.at
               PROVE  Included(t)
    BY DEF EarlyPromiseKept
  <2> USE DEF MempoolInv
  <2> DEFINE S == Signers(t, TRUE)
  <2>1. \A r \in S : \E i \in issued : i.by = r /\ i.tx = t /\ ~i.voted
    BY DEF Signers
  <2>2. S \in SUBSET Replicas
    BY DEF Signers
  <2> HIDE DEF S
  <2>3. S \cap Honest # {}
    BY <2>2, HonestInBoth DEF S
  <2>4. PICK q \in S : q \in Honest
    BY <2>3
  <2>5. PICK j \in issued : j.by = q /\ j.tx = t /\ ~j.voted
    BY <2>1, <2>4
  <2>6. t.at \in 1..Len(chain)
    <3>1. t.at \in 1..(height[q] + 1) /\ height[q] \in Nat
      BY <2>4, <2>5 DEF EarlyReceipts, EarlyKept, Honest, TypeOK
    <3>2. Len(chain) \in Nat
      BY DEF TypeOK
    <3> QED BY <3>1, <3>2
  <2>7. CASE IsRecovery(chain[t.at])
    BY <2>7 DEF Included
  <2>8. CASE ~IsRecovery(chain[t.at])
    <3>1. /\ Cardinality(Voters(t.at, chain[t.at])) >= Quorum
          /\ Voters(t.at, chain[t.at]) \in SUBSET Replicas
      BY <2>6, <2>8, FaultyMinority DEF ChainCertified, Voters, Honest
    <3>2. PICK r \in Honest : r \in S /\ r \in Voters(t.at, chain[t.at])
      BY <2>2, <3>1, HonestInBoth DEF S
    <3>3. PICK i \in issued : i.by = r /\ i.tx = t /\ ~i.voted
      BY <2>1, <3>2
    <3>4. <<t.at, chain[t.at]>> \in decision[r]
      BY <3>2 DEF Voters, Honest
    <3> QED BY <3>2, <3>3, <3>4 DEF EarlyReceipts, EarlyKept, Included
  <2> QED BY <2>7, <2>8
<1> QED BY <1>1, MempoolInvariant, PTL

\* Where no recovery block cuts in, a replica that stopped between any two writes starts
\* again: the constructor never meets a receipt that its journal contradicts.
THEOREM RestartSucceedsHolds ==
  ASSUME ~Recoveries
  PROVE  Spec => []RestartSucceeds
<1>1. MempoolInv => RestartSucceeds
  BY DEF MempoolInv, FilesInPlace, RestartSucceeds
<1> QED BY <1>1, MempoolInvariant, PTL

\* A running replica never holds a receipt of a height it has reached, however it got
\* there (commit, installStateSnapshotCandidates, a recovery block or the constructor).
THEOREM NoExpiredReceiptHolds == Spec => []NoExpiredReceipt
<1>1. MempoolInv => NoExpiredReceipt
  BY DEF MempoolInv, FilesInPlace, FilesOf, NoExpiredReceipt, TypeOK, Honest
<1> QED BY <1>1, MempoolInvariant, PTL
=============================================================================
