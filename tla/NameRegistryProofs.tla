------------------------- MODULE NameRegistryProofs -------------------------
(***************************************************************************)
(* Proofs about NameRegistry, for any names, accounts, limits and delays.  *)
(***************************************************************************)
EXTENDS NameRegistry, FiniteSetTheorems, TLAPS

\* The registry's maps, and the counters of the ledger, keep their types.
TypeOK ==
    /\ height \in Nat \ {0} /\ burned \in Nat
    /\ names \in [Names -> {None} \cup [owner : Accounts]]
    /\ owners \in [Accounts -> {None} \cup [name : Names]]
    /\ commits \in [Commitments -> {None} \cup [at : Nat, sender : Accounts]]
    /\ committed \in [Commitments -> Nat]
    /\ balances \in [Accounts -> Nat]

\* Each map is the inverse of the other, and both keep to their limits.
OwnersNamed == \A a \in Accounts : owners[a] # None => names[owners[a].name] = [owner |-> a]
NamesOwned == \A n \in Names : names[n] # None => owners[names[n].owner] = [name |-> n]
Limits ==
    /\ IsFiniteSet(Taken) /\ Cardinality(Taken) <= MaxNames
    /\ IsFiniteSet(Pending) /\ Cardinality(Pending) <= MaxCommits

\* What is remembered of a pending commitment: it is not older than its first
\* submission, and it has not outlived its lifetime by more than a block.
CommitsDated ==
    /\ \A c \in Commitments : committed[c] <= height
    /\ \A c \in Commitments : commits[c] # None =>
          /\ 1 <= committed[c] /\ committed[c] <= commits[c].at /\ commits[c].at <= height
          /\ height <= commits[c].at + CommitLifetime + 1

RegistryInv == TypeOK /\ OwnersNamed /\ NamesOwned /\ Limits /\ CommitsDated

-----------------------------------------------------------------------------
(* The values of the maps                                                  *)

LEMMA NoneIsNone ==
    /\ \A a : [owner |-> a] # None
    /\ \A n : [name |-> n] # None
    /\ \A t, a : [at |-> t, sender |-> a] # None
<1>1. DOMAIN None = {"none"}  BY DEF None
<1>2. \A a : DOMAIN [owner |-> a] = {"owner"}  OBVIOUS
<1>3. \A n : DOMAIN [name |-> n] = {"name"}  OBVIOUS
<1>4. \A t, a : DOMAIN [at |-> t, sender |-> a] = {"at", "sender"}  OBVIOUS
<1> QED  BY <1>1, <1>2, <1>3, <1>4

LEMMA NamedHasOwner ==
  ASSUME TypeOK, NEW n \in Names, names[n] # None
  PROVE  names[n].owner \in Accounts /\ names[n] = [owner |-> names[n].owner]
BY DEF TypeOK

LEMMA HolderHasName ==
  ASSUME TypeOK, NEW a \in Accounts, owners[a] # None
  PROVE  owners[a].name \in Names /\ owners[a] = [name |-> owners[a].name]
BY DEF TypeOK

LEMMA PendingHasDate ==
  ASSUME TypeOK, NEW c \in Commitments, commits[c] # None
  PROVE  commits[c].at \in Nat /\ commits[c].sender \in Accounts
BY DEF TypeOK

-----------------------------------------------------------------------------
(* The sizes of the tables                                                 *)

LEMMA Shrinks ==
  ASSUME NEW S, IsFiniteSet(S), NEW T \in SUBSET S, NEW m \in Nat, Cardinality(S) <= m
  PROVE  IsFiniteSet(T) /\ Cardinality(T) <= m
BY FS_Subset, FS_CardinalityType

LEMMA GrowsByOne ==
  ASSUME NEW S, IsFiniteSet(S), NEW x, NEW T \in SUBSET (S \cup {x}),
         NEW m \in Nat, Cardinality(S) < m
  PROVE  IsFiniteSet(T) /\ Cardinality(T) <= m
<1>1. Cardinality(S) \in Nat  BY FS_CardinalityType
<1>2. /\ IsFiniteSet(S \cup {x})
      /\ Cardinality(S \cup {x}) = IF x \in S THEN Cardinality(S) ELSE Cardinality(S) + 1
  BY FS_AddElement
<1>3. Cardinality(S \cup {x}) <= m  BY <1>1, <1>2
<1> QED  BY <1>2, <1>3, Shrinks

\* Two maps that are inverse have equally many entries.
LEMMA EquallyMany ==
  ASSUME TypeOK, OwnersNamed, NamesOwned, IsFiniteSet(Taken)
  PROVE  Cardinality(Held) = Cardinality(Taken)
<1> DEFINE f == [n \in Taken |-> names[n].owner]
<1>1. f \in Bijection(Taken, Held)
  <2>1. \A n \in Taken : names[n].owner \in Held
    BY NamedHasOwner, NoneIsNone DEF NamesOwned, Taken, Held
  <2>2. \A m, n \in Taken : names[m].owner = names[n].owner => m = n
    <3> SUFFICES ASSUME NEW m \in Taken, NEW n \in Taken, names[m].owner = names[n].owner
                 PROVE  m = n
      OBVIOUS
    <3>1. [name |-> m] = [name |-> n]  BY DEF NamesOwned, Taken
    <3>2. [name |-> m].name = [name |-> n].name  BY <3>1
    <3> QED  BY <3>2
  <2>3. \A a \in Held : \E n \in Taken : names[n].owner = a
    <3> SUFFICES ASSUME NEW a \in Held PROVE \E n \in Taken : names[n].owner = a
      OBVIOUS
    <3>1. names[owners[a].name] = [owner |-> a] /\ owners[a].name \in Names
      BY HolderHasName DEF OwnersNamed, Held
    <3> QED  BY <3>1, NoneIsNone DEF Taken
  <2> QED  BY <2>1, <2>2, <2>3 DEF Bijection, Injection, Surjection, IsInjective
<1> QED  BY <1>1, FS_Bijection DEF ExistsBijection

-----------------------------------------------------------------------------
(* The invariant                                                           *)

LEMMA RegistryInit == Init => RegistryInv
<1> SUFFICES ASSUME Init PROVE RegistryInv
  OBVIOUS
<1>1. TypeOK  BY NameConstants DEF Init, TypeOK
<1>2. Taken = {} /\ Pending = {}  BY DEF Init, Taken, Pending
<1>3. Limits  BY <1>2, FS_EmptySet, NameConstants DEF Limits
<1> QED  BY <1>1, <1>3 DEF Init, RegistryInv, OwnersNamed, NamesOwned, CommitsDated

LEMMA CommitStep ==
  ASSUME RegistryInv, NEW a \in Accounts, NEW c \in Commitments, applyNameCommit(a, c)
  PROVE  RegistryInv'
<1> USE DEF RegistryInv
<1>1. TypeOK'
  BY DEF applyNameCommit, applyNameTransaction, TypeOK
<1>2. OwnersNamed' /\ NamesOwned'
  BY DEF applyNameCommit, OwnersNamed, NamesOwned
<1>3. Limits'
  <2>1. Taken' = Taken  BY DEF applyNameCommit, Taken
  <2>2. Pending' \subseteq Pending \cup {c}
    BY DEF applyNameCommit, Pending, TypeOK
  <2> QED  BY <2>1, <2>2, GrowsByOne, NameConstants DEF Limits, applyNameCommit
<1>4. CommitsDated'
  <2>1. \A d \in Commitments : committed'[d] <= height'
    BY DEF applyNameCommit, CommitsDated, TypeOK
  <2>2. commits'[c].at = height /\ height' = height
    BY DEF applyNameCommit, TypeOK
  <2>3. committed'[c] = IF committed[c] = 0 THEN height ELSE committed[c]
    BY DEF applyNameCommit, TypeOK
  <2>4. \A d \in Commitments : d # c => commits'[d] = commits[d] /\ committed'[d] = committed[d]
    BY DEF applyNameCommit, TypeOK
  <2> QED  BY <2>1, <2>2, <2>3, <2>4, NameConstants DEF CommitsDated, TypeOK
<1> QED  BY <1>1, <1>2, <1>3, <1>4

LEMMA RegisterStep ==
  ASSUME RegistryInv, NEW a \in Accounts, NEW n \in Names, NEW s \in Salts,
         applyNameRegister(a, n, s)
  PROVE  RegistryInv'
<1> USE DEF RegistryInv
<1> DEFINE c == <<n, a, s>>
<1>0. c \in Commitments  BY DEF Commitments
<1>1. TypeOK'
  <2>1. balances'[a] = balances[a] - Price[n] /\ balances[a] >= Price[n] /\ Price[n] \in Nat
    BY NameConstants DEF applyNameRegister, applyNameTransaction, TypeOK
  <2>2. balances' \in [Accounts -> Nat] /\ burned' \in Nat
    BY <2>1, NameConstants DEF applyNameRegister, applyNameTransaction, TypeOK
  <2>3. names' \in [Names -> {None} \cup [owner : Accounts]]
    BY DEF applyNameRegister, TypeOK
  <2>4. owners' \in [Accounts -> {None} \cup [name : Names]]
    BY DEF applyNameRegister, TypeOK
  <2>5. commits' \in [Commitments -> {None} \cup [at : Nat, sender : Accounts]]
    BY <1>0 DEF applyNameRegister, TypeOK
  <2> QED  BY <2>2, <2>3, <2>4, <2>5 DEF applyNameRegister, TypeOK
<1>2. names'[n] = [owner |-> a] /\ owners'[a] = [name |-> n] /\ names[n] = None
  BY DEF applyNameRegister, TypeOK, Taken
<1>3. \A b \in Accounts : b # a => owners'[b] = owners[b]
  BY DEF applyNameRegister, TypeOK
<1>4. \A m \in Names : m # n => names'[m] = IF owners[a] = [name |-> m] THEN None ELSE names[m]
  BY DEF applyNameRegister
<1>5. OwnersNamed'
  <2> SUFFICES ASSUME NEW b \in Accounts, owners'[b] # None
               PROVE  names'[owners'[b].name] = [owner |-> b]
    BY DEF OwnersNamed
  <2>1. CASE b = a  BY <2>1, <1>2
  <2>2. CASE b # a
    <3> DEFINE m == owners[b].name
    <3>1. owners'[b] = owners[b] /\ m \in Names /\ names[m] = [owner |-> b]
      BY <2>2, <1>3, HolderHasName DEF OwnersNamed
    <3>2. m # n  BY <3>1, <1>2, NoneIsNone
    <3>3. owners[a] # [name |-> m]
      <4> SUFFICES ASSUME owners[a] = [name |-> m] PROVE FALSE
        OBVIOUS
      <4>1. owners[a] # None /\ owners[a].name = m  BY NoneIsNone
      <4>2. [owner |-> a] = [owner |-> b]  BY <4>1, <3>1 DEF OwnersNamed
      <4>3. [owner |-> a].owner = [owner |-> b].owner  BY <4>2
      <4> QED  BY <4>3, <2>2
    <3> QED  BY <3>1, <3>2, <3>3, <1>4
  <2> QED  BY <2>1, <2>2
<1>6. NamesOwned'
  <2> SUFFICES ASSUME NEW m \in Names, names'[m] # None
               PROVE  owners'[names'[m].owner] = [name |-> m]
    BY DEF NamesOwned
  <2>1. CASE m = n  BY <2>1, <1>2
  <2>2. CASE m # n
    <3>1. names'[m] = names[m] /\ names[m] # None /\ owners[a] # [name |-> m]
      BY <2>2, <1>4
    <3>2. names[m].owner \in Accounts /\ owners[names[m].owner] = [name |-> m]
      BY <3>1, NamedHasOwner DEF NamesOwned
    <3> QED  BY <3>1, <3>2, <1>3
  <2> QED  BY <2>1, <2>2
<1>7. Limits'
  <2>1. Taken' \subseteq Taken \cup {n}  BY <1>4 DEF Taken
  <2>2. Pending' \subseteq Pending  BY <1>0 DEF applyNameRegister, Pending, TypeOK
  <2>3. IsFiniteSet(Taken') /\ Cardinality(Taken') <= MaxNames
    BY <2>1, GrowsByOne, NameConstants DEF Limits, applyNameRegister
  <2>4. IsFiniteSet(Pending') /\ Cardinality(Pending') <= MaxCommits
    BY <2>2, Shrinks, NameConstants DEF Limits
  <2> QED  BY <2>3, <2>4 DEF Limits
<1>8. CommitsDated'
  <2>1. \A d \in Commitments : commits'[d] # None => commits'[d] = commits[d]
    BY <1>0 DEF applyNameRegister, TypeOK
  <2> QED  BY <2>1 DEF CommitsDated, applyNameRegister
<1> QED  BY <1>1, <1>5, <1>6, <1>7, <1>8

LEMMA ReleaseStep ==
  ASSUME RegistryInv, NEW a \in Accounts, applyNameRelease(a)
  PROVE  RegistryInv'
<1> USE DEF RegistryInv
<1> DEFINE n == owners[a].name
<1>0. n \in Names /\ owners[a] = [name |-> n] /\ names[n] = [owner |-> a]
  BY HolderHasName DEF applyNameRelease, OwnersNamed
<1>1. TypeOK'
  BY <1>0 DEF applyNameRelease, applyNameTransaction, TypeOK
<1>2. /\ names'[n] = None /\ owners'[a] = None
      /\ \A m \in Names : m # n => names'[m] = names[m]
      /\ \A b \in Accounts : b # a => owners'[b] = owners[b]
  BY <1>0 DEF applyNameRelease, TypeOK
<1>3. OwnersNamed'
  <2> SUFFICES ASSUME NEW b \in Accounts, owners'[b] # None
               PROVE  names'[owners'[b].name] = [owner |-> b]
    BY DEF OwnersNamed
  <2>1. b # a /\ owners'[b] = owners[b]  BY <1>2
  <2>2. owners[b].name \in Names /\ names[owners[b].name] = [owner |-> b]
    BY <2>1, HolderHasName DEF OwnersNamed
  <2>3. [owner |-> a].owner # [owner |-> b].owner  BY <2>1
  <2>4. owners[b].name # n  BY <2>2, <2>3, <1>0
  <2> QED  BY <2>1, <2>2, <2>4, <1>2
<1>4. NamesOwned'
  <2> SUFFICES ASSUME NEW m \in Names, names'[m] # None
               PROVE  owners'[names'[m].owner] = [name |-> m]
    BY DEF NamesOwned
  <2>1. m # n /\ names'[m] = names[m]  BY <1>2
  <2>2. names[m].owner \in Accounts /\ owners[names[m].owner] = [name |-> m]
    BY <2>1, NamedHasOwner DEF NamesOwned
  <2>3. [name |-> m].name # [name |-> n].name  BY <2>1
  <2>4. names[m].owner # a  BY <2>2, <2>3, <1>0
  <2> QED  BY <2>1, <2>2, <2>4, <1>2
<1>5. Limits'
  <2>1. Taken' \subseteq Taken /\ Pending' = Pending
    BY <1>2 DEF applyNameRelease, Taken, Pending
  <2> QED  BY <2>1, Shrinks, NameConstants DEF Limits
<1>6. CommitsDated'  BY DEF applyNameRelease, CommitsDated
<1> QED  BY <1>1, <1>3, <1>4, <1>5, <1>6

LEMMA TransferStep ==
  ASSUME RegistryInv, NEW a \in Accounts, NEW b \in Accounts, applyNameTransfer(a, b)
  PROVE  RegistryInv'
<1> USE DEF RegistryInv
<1> DEFINE n == owners[a].name
<1>0. n \in Names /\ owners[a] = [name |-> n] /\ names[n] = [owner |-> a] /\ a # b
  BY HolderHasName DEF applyNameTransfer, OwnersNamed
<1>1. TypeOK'
  BY <1>0 DEF applyNameTransfer, applyNameTransaction, TypeOK
<1>2. /\ names'[n] = [owner |-> b] /\ owners'[a] = None /\ owners'[b] = [name |-> n]
      /\ \A m \in Names : m # n => names'[m] = names[m]
      /\ \A d \in Accounts \ {a, b} : owners'[d] = owners[d]
  BY <1>0 DEF applyNameTransfer, TypeOK
<1>3. OwnersNamed'
  <2> SUFFICES ASSUME NEW d \in Accounts, owners'[d] # None
               PROVE  names'[owners'[d].name] = [owner |-> d]
    BY DEF OwnersNamed
  <2>1. CASE d = b  BY <2>1, <1>2
  <2>2. CASE d # b
    <3>1. d # a /\ owners'[d] = owners[d]  BY <2>2, <1>2
    <3>2. owners[d].name \in Names /\ names[owners[d].name] = [owner |-> d]
      BY <3>1, HolderHasName DEF OwnersNamed
    <3>3. [owner |-> a].owner # [owner |-> d].owner  BY <3>1
    <3>4. owners[d].name # n  BY <3>2, <3>3, <1>0
    <3> QED  BY <3>1, <3>2, <3>4, <1>2
  <2> QED  BY <2>1, <2>2
<1>4. NamesOwned'
  <2> SUFFICES ASSUME NEW m \in Names, names'[m] # None
               PROVE  owners'[names'[m].owner] = [name |-> m]
    BY DEF NamesOwned
  <2>1. CASE m = n  BY <2>1, <1>2
  <2>2. CASE m # n
    <3>1. names'[m] = names[m]  BY <2>2, <1>2
    <3>2. names[m].owner \in Accounts /\ owners[names[m].owner] = [name |-> m]
      BY <3>1, NamedHasOwner DEF NamesOwned
    <3>3. [name |-> m].name # [name |-> n].name  BY <2>2
    <3>4. names[m].owner # a /\ names[m].owner # b
      BY <3>2, <3>3, <1>0, NoneIsNone DEF applyNameTransfer
    <3> QED  BY <3>1, <3>2, <3>4, <1>2
  <2> QED  BY <2>1, <2>2
<1>5. Limits'
  <2>1. Taken' \subseteq Taken /\ Pending' = Pending
    BY <1>0, <1>2, NoneIsNone DEF applyNameTransfer, Taken, Pending
  <2> QED  BY <2>1, Shrinks, NameConstants DEF Limits
<1>6. CommitsDated'  BY DEF applyNameTransfer, CommitsDated
<1> QED  BY <1>1, <1>3, <1>4, <1>5, <1>6

LEMMA EndStep ==
  ASSUME RegistryInv, endNameRegistryBlock
  PROVE  RegistryInv'
<1> USE DEF RegistryInv
<1>1. TypeOK'
  BY DEF endNameRegistryBlock, TypeOK
<1>2. OwnersNamed' /\ NamesOwned'
  BY DEF endNameRegistryBlock, OwnersNamed, NamesOwned
<1>3. Limits'
  <2>1. Taken' = Taken /\ Pending' \subseteq Pending
    BY DEF endNameRegistryBlock, Taken, Pending
  <2> QED  BY <2>1, Shrinks, NameConstants DEF Limits
<1>4. CommitsDated'
  BY NameConstants, PendingHasDate DEF endNameRegistryBlock, CommitsDated, TypeOK
<1> QED  BY <1>1, <1>2, <1>3, <1>4

LEMMA RegistryStep == RegistryInv /\ [Next]_vars => RegistryInv'
<1> SUFFICES ASSUME RegistryInv, [Next]_vars PROVE RegistryInv'
  OBVIOUS
<1>1. CASE UNCHANGED vars
  BY <1>1 DEF vars, RegistryInv, TypeOK, OwnersNamed, NamesOwned, Limits, CommitsDated,
              Taken, Pending
<1>2. CASE Next
  BY <1>2, CommitStep, RegisterStep, ReleaseStep, TransferStep, EndStep DEF Next
<1> QED  BY <1>1, <1>2

THEOREM Registry == Spec => []RegistryInv
BY RegistryInit, RegistryStep, PTL DEF Spec

-----------------------------------------------------------------------------
(* What it gives                                                           *)

\* Names and their owners are inverse maps of equally many entries within the
\* limits: the state after any transaction is one that parseNameRegistrySnapshot
\* accepts.
THEOREM OneNamePerAddressHolds == Spec => []OneNamePerAddress
<1>1. RegistryInv => OneNamePerAddress
  BY EquallyMany DEF RegistryInv, OneNamePerAddress, parseNameRegistrySnapshot, OwnersNamed,
                     Limits, Held
<1> QED  BY <1>1, Registry, PTL

\* A commitment is dropped at the end of the first block after its lifetime.
THEOREM CommitsExpireHolds == Spec => []CommitsExpire
<1>1. RegistryInv => CommitsExpire
  BY DEF RegistryInv, CommitsDated, CommitsExpire, Pending
<1> QED  BY <1>1, Registry, PTL

\* Whoever gets a free name has committed to it RevealDelay blocks before.
THEOREM NoFrontRunningHolds == Spec => NoFrontRunning
<1>1. RegistryInv /\ [Next]_vars => [\A n \in Names : AgedClaim(n)]_vars
  <2> SUFFICES ASSUME RegistryInv, Next, NEW n \in Names, names'[n] # None, n \notin Taken
               PROVE  \E salt \in Salts :
                        LET c == <<n, names'[n].owner, salt>>
                        IN  committed[c] # 0 /\ height >= committed[c] + RevealDelay
    BY DEF AgedClaim
  <2>0. names[n] = None /\ names'[n] # names[n]  BY DEF Taken
  <2>1. ASSUME NEW a \in Accounts, applyNameRelease(a) PROVE FALSE
    BY <2>0, <2>1 DEF applyNameRelease, RegistryInv, TypeOK
  <2>2. ASSUME NEW a \in Accounts, NEW b \in Accounts, applyNameTransfer(a, b) PROVE FALSE
    <3>1. names[owners[a].name] = [owner |-> a]
      BY <2>2 DEF applyNameTransfer, RegistryInv, OwnersNamed
    <3>2. n # owners[a].name  BY <3>1, <2>0, NoneIsNone
    <3> QED  BY <2>0, <2>2, <3>2 DEF applyNameTransfer, RegistryInv, TypeOK
  <2>3. ASSUME NEW a \in Accounts, NEW m \in Names, NEW s \in Salts, applyNameRegister(a, m, s)
        PROVE  \E salt \in Salts :
                 LET c == <<n, names'[n].owner, salt>>
                 IN  committed[c] # 0 /\ height >= committed[c] + RevealDelay
    <3>1. n = m /\ names'[n] = [owner |-> a]  BY <2>0, <2>3 DEF applyNameRegister
    <3>2. <<n, a, s>> \in Commitments  BY DEF Commitments
    <3>3. /\ 1 <= committed[<<n, a, s>>] /\ committed[<<n, a, s>>] <= commits[<<n, a, s>>].at
          /\ height >= commits[<<n, a, s>>].at + RevealDelay
      BY <2>3, <3>1, <3>2 DEF applyNameRegister, RegistryInv, CommitsDated
    <3>4. commits[<<n, a, s>>].at \in Nat /\ committed[<<n, a, s>>] \in Nat
      BY <2>3, <3>1, <3>2, PendingHasDate DEF applyNameRegister, RegistryInv, TypeOK
    <3>5. committed[<<n, a, s>>] # 0 /\ height >= committed[<<n, a, s>>] + RevealDelay
      BY <3>3, <3>4, NameConstants DEF RegistryInv, TypeOK
    <3>6. names'[n].owner = a  BY <3>1
    <3> QED  BY <3>5, <3>6
  <2>4. ASSUME NEW a \in Accounts, NEW c \in Commitments, applyNameCommit(a, c) PROVE FALSE
    BY <2>0, <2>4 DEF applyNameCommit
  <2>5. ASSUME endNameRegistryBlock PROVE FALSE
    BY <2>0, <2>5 DEF endNameRegistryBlock
  <2> QED  BY <2>1, <2>2, <2>3, <2>4, <2>5 DEF Next
<1> QED  BY <1>1, Registry, PTL DEF Spec, NoFrontRunning
=============================================================================
