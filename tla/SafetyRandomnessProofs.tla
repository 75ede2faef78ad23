----------------------- MODULE SafetyRandomnessProofs -----------------------
(***************************************************************************)
(* What module SafetyRandomness promises of safety candidates, for any     *)
(* number of validators and candidates, any bonds and delays: penalties    *)
(* come on time, the state between two blocks restores, no money is made   *)
(* or lost, and who owes a reveal still has a bond to lose.                *)
(***************************************************************************)
EXTENDS SafetyRandomness, Functions, FiniteSetTheorems, WellFoundedInduction, TLAPS

-----------------------------------------------------------------------------
(* The inductive invariant                                                 *)

\* A candidate's record: reveals answer commitments, and it was locked in this
\* block, whose transactions have begun, or in an earlier one.
CandidateInv ==
    /\ candidateBonds \in [Candidates -> {None} \cup
           [committedHeight : Nat, committee : BOOLEAN,
            commits : SUBSET Validators, reveals : SUBSET Validators]]
    /\ \A c \in Locked :
          /\ candidateBonds[c].committedHeight <= height
          /\ phase = "claims" => candidateBonds[c].committedHeight < height
          /\ candidateBonds[c].reveals \subseteq candidateBonds[c].commits

\* Who has asked to leave, or has left, owes no reveal; the delay of the others
\* has begun in this block, whose transactions have begun, or in an earlier one.
ExitInv ==
    /\ \A v \in Validators : (exits[v] # None \/ v \in retiredValidators) => ~ Unrevealed(v)
    /\ \A v \in Validators : exits[v] # None =>
          /\ v \notin retiredValidators /\ exits[v].unlockHeight \in Nat
          /\ exits[v].unlockHeight = 0 <=> v \in validators
          /\ exits[v].unlockHeight <= height + WithdrawalDelay
          /\ phase = "claims" => exits[v].unlockHeight < height + WithdrawalDelay

SafetyInv ==
    /\ height \in Nat \ {0}
    /\ phase \in {"claims", "txs", "contributions"}
    /\ DOMAIN exits = Validators
    /\ validators \subseteq Validators
    /\ retiredValidators \subseteq Validators \ validators
    /\ CandidateInv /\ ExitInv

-----------------------------------------------------------------------------
(* The steps                                                               *)

LEMMA InitInv == Init => SafetyInv
  BY DEF Init, SafetyInv, CandidateInv, ExitInv, Locked, Unrevealed

\* A step that leaves the candidates alone, or removes some, keeps CandidateInv.
LEMMA FewerCandidates ==
  ASSUME SafetyInv, height' = height, phase' \in {"claims", "txs", "contributions"},
         phase' = "claims" => phase = "claims",
         NEW gone \in SUBSET Candidates,
         candidateBonds' = [c \in Candidates |-> IF c \in gone THEN None ELSE candidateBonds[c]]
  PROVE  CandidateInv'
  BY DEF SafetyInv, CandidateInv, Locked

\* A step that leaves the exits alone and obliges nobody that is leaving keeps
\* ExitInv.
LEMMA ExitsKept ==
  ASSUME SafetyInv, height' = height, phase' = "claims" => phase = "claims",
         UNCHANGED <<validators, retiredValidators, exits>>,
         \A v \in Validators : Unrevealed(v)' =>
             Unrevealed(v) \/ (exits[v] = None /\ v \notin retiredValidators)
  PROVE  ExitInv'
  BY DEF SafetyInv, ExitInv

LEMMA ClaimStep ==
  ASSUME SafetyInv, NEW c \in Candidates, verifySafetyClaim(c)
  PROVE  SafetyInv'
<1>1. candidateBonds' = [d \in Candidates |-> IF d \in {c} THEN None ELSE candidateBonds[d]]
  BY DEF verifySafetyClaim, SafetyInv, CandidateInv
<1>2. CandidateInv'
  BY <1>1, FewerCandidates DEF verifySafetyClaim, SafetyInv
<1>3. ExitInv'
  <2>1. \A v \in Validators : Unrevealed(v)' => Unrevealed(v)
    BY <1>1 DEF Unrevealed, Locked
  <2>2. QED
    BY <2>1, ExitsKept DEF verifySafetyClaim
<1>4. QED
  BY <1>2, <1>3 DEF verifySafetyClaim, SafetyInv

LEMMA BondStep ==
  ASSUME SafetyInv, NEW c \in Candidates, applyCandidateBond(c)
  PROVE  SafetyInv'
<1>1. /\ candidateBonds' = [candidateBonds EXCEPT ![c] = Candidate(height)]
      /\ height' = height /\ phase' = "txs" /\ exits' = exits /\ validators' = validators
      /\ retiredValidators' = retiredValidators
  BY DEF applyCandidateBond, InTransactions
<1>2. Candidate(height) \in [committedHeight : Nat, committee : BOOLEAN,
                             commits : SUBSET Validators, reveals : SUBSET Validators]
  BY DEF Candidate, SafetyInv
<1>3. CandidateInv'
  BY <1>1, <1>2 DEF SafetyInv, CandidateInv, Locked, Candidate
<1>4. ExitInv'
  <2>1. \A v \in Validators : Unrevealed(v)' => Unrevealed(v)
    BY <1>1 DEF SafetyInv, CandidateInv, Unrevealed, Locked, Candidate
  <2>2. QED
    BY <1>1, <2>1, ExitsKept
<1>5. QED
  BY <1>1, <1>3, <1>4 DEF SafetyInv

\* Slashing leaves the candidates and the exits alone.
LEMMA SlashStep ==
  ASSUME SafetyInv, NEW v \in Validators, applyValidatorEquivocation(v)
  PROVE  SafetyInv'
  BY DEF applyValidatorEquivocation, InTransactions, SafetyInv, CandidateInv, ExitInv, Unrevealed, Locked

\* Who withdraws retires: it had left the active set and owes nothing.
LEMMA WithdrawStep ==
  ASSUME SafetyInv, NEW v \in Validators, applyValidatorWithdrawalClaim(v)
  PROVE  SafetyInv'
<1>1. CandidateInv'
  BY DEF applyValidatorWithdrawalClaim, InTransactions, SafetyInv, CandidateInv, Locked
<1>2. /\ height' = height /\ phase' = "txs" /\ validators' = validators /\ v \notin validators
      /\ exits' = [exits EXCEPT ![v] = None] /\ ~ Unrevealed(v)
      /\ retiredValidators' = retiredValidators \union {v}
  BY DEF applyValidatorWithdrawalClaim, InTransactions, hasPendingValidatorRandomnessObligation, Unrevealed
<1>3. \A w \in Validators : Unrevealed(w)' <=> Unrevealed(w)
  BY DEF applyValidatorWithdrawalClaim, Unrevealed, Locked
<1>4. ExitInv'
  BY <1>2, <1>3 DEF SafetyInv, ExitInv
<1>5. QED
  BY <1>1, <1>2, <1>4 DEF SafetyInv

LEMMA ExitStep ==
  ASSUME SafetyInv, NEW v \in Validators, applyValidatorExitRequest(v)
  PROVE  SafetyInv'
<1>1. CandidateInv'
  BY DEF applyValidatorExitRequest, InTransactions, SafetyInv, CandidateInv, Locked
<1>2. ExitInv'
  <2>. DEFINE exit == [unlockHeight |-> IF v \in validators THEN 0 ELSE height + WithdrawalDelay]
  <2>1. /\ \A w \in Validators : w # v => exits'[w] = exits[w]
        /\ exits'[v] = exit /\ v \notin retiredValidators /\ phase' = "txs"
        /\ UNCHANGED <<height, validators, retiredValidators>>
    BY DEF applyValidatorExitRequest, InTransactions, SafetyInv
  <2>2. /\ exit.unlockHeight \in Nat /\ (exit.unlockHeight = 0 <=> v \in validators)
        /\ exit.unlockHeight <= height + WithdrawalDelay
    BY SafetyConstants DEF SafetyInv
  <2>3. ~ Unrevealed(v)'
    BY DEF applyValidatorExitRequest, hasPendingValidatorRandomnessObligation, Unrevealed, Locked
  <2>4. \A w \in Validators : Unrevealed(w)' <=> Unrevealed(w)
    BY DEF applyValidatorExitRequest, Unrevealed, Locked
  <2>. HIDE DEF exit
  <2>5. QED
    BY <2>1, <2>2, <2>3, <2>4 DEF SafetyInv, ExitInv
<1>3. QED
  BY <1>1, <1>2 DEF applyValidatorExitRequest, InTransactions, SafetyInv

LEMMA CommitStep ==
  ASSUME SafetyInv, NEW c \in Candidates, NEW v \in Validators, RandomnessCommit(c, v)
  PROVE  SafetyInv'
<1>1. /\ c \in Locked /\ exits[v] = None /\ exits' = exits /\ v \in validators
      /\ candidateBonds' = [candidateBonds EXCEPT ![c].commits = @ \union {v}]
      /\ phase' = "contributions" /\ UNCHANGED <<height, validators, retiredValidators>>
  BY DEF RandomnessCommit
<1>2. CandidateInv'
  BY <1>1 DEF SafetyInv, CandidateInv, Locked
<1>3. \A w \in Validators : Unrevealed(w)' => Unrevealed(w) \/ w = v
  BY <1>1 DEF SafetyInv, CandidateInv, Unrevealed, Locked
<1>4. ExitInv'
  BY <1>1, <1>3, ExitsKept DEF SafetyInv
<1>5. QED
  BY <1>1, <1>2, <1>4 DEF SafetyInv

LEMMA RevealStep ==
  ASSUME SafetyInv, NEW c \in Candidates, NEW v \in Validators, RandomnessReveal(c, v)
  PROVE  SafetyInv'
<1>1. /\ c \in Locked /\ v \in candidateBonds[c].commits /\ exits' = exits
      /\ candidateBonds' = [candidateBonds EXCEPT ![c].reveals = @ \union {v}]
      /\ phase' = "contributions" /\ UNCHANGED <<height, validators, retiredValidators>>
  BY DEF RandomnessReveal
<1>2. CandidateInv'
  BY <1>1 DEF SafetyInv, CandidateInv, Locked
<1>3. \A w \in Validators : Unrevealed(w)' => Unrevealed(w)
  BY <1>1 DEF SafetyInv, CandidateInv, Unrevealed, Locked
<1>4. ExitInv'
  BY <1>1, <1>3, ExitsKept
<1>5. QED
  BY <1>1, <1>2, <1>4 DEF SafetyInv

LEMMA EndStep ==
  ASSUME SafetyInv, NEW leaving \in SUBSET Validators, EndBlock(leaving)
  PROVE  SafetyInv'
<1>. DEFINE kept(c) == candidateBonds'[c] = candidateBonds[c]
            committeeOnly(c) == c \in Locked /\ candidateBonds'[c] = [candidateBonds[c] EXCEPT !.committee = TRUE]
            excluded(v) == exits[v] # None /\ exits[v].unlockHeight = 0 /\ v \notin validators'
            left == [unlockHeight |-> height + WithdrawalDelay]
<1>1. /\ height' = height + 1 /\ phase' = "claims" /\ validators' \subseteq validators
      /\ validators' \subseteq Validators /\ retiredValidators' = retiredValidators
  BY DEF EndBlock, SafetyInv
<1>2. /\ DOMAIN candidateBonds' = Candidates
      /\ \A c \in Candidates : kept(c) \/ committeeOnly(c) \/ candidateBonds'[c] = None
      /\ candidateBonds' = [c \in Candidates |-> candidateBonds'[c]]
  BY DEF EndBlock, Locked
<1>3. DOMAIN exits' = Validators
      /\ \A v \in Validators : exits'[v] = IF excluded(v) THEN left ELSE exits[v]
  BY DEF EndBlock
<1>4. CandidateInv'
  <2>. DEFINE Record == [committedHeight : Nat, committee : BOOLEAN,
                         commits : SUBSET Validators, reveals : SUBSET Validators]
  <2>1. \A c \in Locked : candidateBonds[c] \in Record
    BY DEF SafetyInv, CandidateInv, Locked
  <2>2. ASSUME NEW r \in Record
        PROVE  LET s == [r EXCEPT !.committee = TRUE]
               IN  /\ s \in Record /\ s.committedHeight = r.committedHeight
                   /\ s.commits = r.commits /\ s.reveals = r.reveals
    OBVIOUS
  <2>3. ASSUME NEW c \in Locked'
        PROVE  /\ c \in Locked /\ candidateBonds'[c] \in Record
               /\ candidateBonds'[c].committedHeight = candidateBonds[c].committedHeight
               /\ candidateBonds'[c].commits = candidateBonds[c].commits
               /\ candidateBonds'[c].reveals = candidateBonds[c].reveals
    <3>1. c \in Candidates /\ candidateBonds'[c] # None
      BY DEF Locked
    <3>2. CASE kept(c)
      BY <3>1, <3>2, <2>1 DEF Locked
    <3>3. CASE committeeOnly(c)
      BY <3>3, <2>1, <2>2
    <3>4. QED
      BY <3>1, <3>2, <3>3, <1>2
  <2>. HIDE DEF Record
  <2>4. \A c \in Locked : /\ candidateBonds[c].committedHeight \in Nat
                          /\ candidateBonds[c].committedHeight <= height
                          /\ candidateBonds[c].reveals \subseteq candidateBonds[c].commits
    BY DEF SafetyInv, CandidateInv, Locked
  <2>5. \A c \in Locked' : candidateBonds'[c].committedHeight < height'
    BY <1>1, <2>3, <2>4 DEF SafetyInv
  <2>6. candidateBonds' \in [Candidates -> {None} \cup Record]
    BY <1>2, <2>3 DEF Locked
  <2>7. \A c \in Locked' : candidateBonds'[c].committedHeight <= height'
    BY <1>1, <2>3, <2>4 DEF SafetyInv
  <2>8. \A c \in Locked' : candidateBonds'[c].reveals \subseteq candidateBonds'[c].commits
    BY <2>3, <2>4
  <2>9. QED
    BY <2>5, <2>6, <2>7, <2>8 DEF CandidateInv, Record
<1>5. \A v \in Validators : Unrevealed(v)' => Unrevealed(v)
  BY <1>2 DEF SafetyInv, CandidateInv, Unrevealed, Locked
<1>6. ExitInv'
  <2>1. /\ left # None /\ left.unlockHeight \in Nat \ {0} /\ left.unlockHeight < height' + WithdrawalDelay
    BY <1>1, SafetyConstants DEF SafetyInv, None
  <2>2. ASSUME NEW v \in Validators, exits'[v] # None
        PROVE  /\ exits[v] # None /\ v \notin retiredValidators' /\ exits'[v].unlockHeight \in Nat
               /\ exits'[v].unlockHeight = 0 <=> v \in validators'
               /\ exits'[v].unlockHeight < height' + WithdrawalDelay
    <3>1. CASE excluded(v)
      <4>. HIDE DEF left
      <4>. QED BY <1>1, <1>3, <2>1, <2>2, <3>1 DEF SafetyInv, ExitInv
    <3>2. CASE ~ excluded(v)
      <4>1. exits'[v] = exits[v] /\ exits[v] # None
        BY <1>3, <2>2, <3>2
      <4>. HIDE DEF left
      <4>2. QED
        BY <1>1, <4>1, <3>2, SafetyConstants DEF SafetyInv, ExitInv
    <3>3. QED
      BY <3>1, <3>2
  <2>3. \A v \in Validators : exits'[v] # None => exits'[v].unlockHeight <= height' + WithdrawalDelay
    BY <1>1, <2>2, SafetyConstants DEF SafetyInv
  <2>4. QED
    BY <1>1, <1>5, <2>2, <2>3 DEF SafetyInv, ExitInv
<1>7. QED
  BY <1>1, <1>3, <1>4, <1>6 DEF SafetyInv

LEMMA SafetyStep == SafetyInv /\ [Next]_vars => SafetyInv'
<1>. SUFFICES ASSUME SafetyInv, [Next]_vars PROVE SafetyInv'
  OBVIOUS
<1>1. CASE UNCHANGED vars
  BY <1>1 DEF vars, SafetyInv, CandidateInv, ExitInv, Unrevealed, Locked
<1>2. CASE \E c \in Candidates : verifySafetyClaim(c)
  BY <1>2, ClaimStep
<1>3. CASE \E c \in Candidates : applyCandidateBond(c)
  BY <1>3, BondStep
<1>4. CASE \E c \in Candidates : verifyFallbackBeacon(c)
  BY <1>4 DEF verifyFallbackBeacon, SafetyInv, CandidateInv, ExitInv, Unrevealed, Locked
<1>5. CASE \E v \in Validators : applyValidatorEquivocation(v) \/ applyValidatorWithdrawalClaim(v)
  BY <1>5, SlashStep, WithdrawStep
<1>6. CASE \E v \in Validators : applyValidatorExitRequest(v)
  BY <1>6, ExitStep
<1>7. CASE \E c \in Candidates, v \in Validators : RandomnessCommit(c, v)
  BY <1>7, CommitStep
<1>8. CASE \E c \in Candidates, v \in Validators : RandomnessReveal(c, v)
  BY <1>8, RevealStep
<1>9. CASE \E v \in Validators : EndBlock({}) \/ EndBlock({v})
  BY <1>9, EndStep
<1>10. QED
  BY <1>1, <1>2, <1>3, <1>4, <1>5, <1>6, <1>7, <1>8, <1>9 DEF Next

-----------------------------------------------------------------------------
(* The theorems                                                            *)

\* Candidates' records are well formed and nobody on the way out owes a reveal,
\* through every order of claims, transactions, contributions and block ends.
THEOREM SafetyInvariant == Spec => []SafetyInv
<1>1. Init => SafetyInv
  BY InitInv
<1>2. SafetyInv /\ [Next]_vars => SafetyInv'
  BY SafetyStep
<1>3. QED
  BY <1>1, <1>2, PTL DEF Spec

\* One step of OnTimeHolds, for one validator.
LEMMA OnTimeStep ==
  ASSUME SafetyInv, [Next]_vars, NEW v \in Validators
  PROVE  SlashedOnTime(v)
<1>. SUFFICES ASSUME validatorBonds'[v] # validatorBonds[v], phase' = "claims"
     PROVE \E c \in Locked : /\ height > candidateBonds[c].committedHeight + 2
                             /\ v \in candidateBonds[c].commits \ candidateBonds[c].reveals
  BY DEF SlashedOnTime
<1>1. PICK leaving \in SUBSET Validators : EndBlock(leaving)
  BY DEF Next, vars, verifySafetyClaim, applyCandidateBond, verifyFallbackBeacon,
         applyValidatorEquivocation, applyValidatorExitRequest, applyValidatorWithdrawalClaim,
         RandomnessCommit, RandomnessReveal, InTransactions
<1>2. PICK c \in Locked : Faulted(c) /\ v \in candidateBonds[c].commits \ candidateBonds[c].reveals
  BY <1>1 DEF EndBlock
<1>3. height > candidateBonds[c].committedHeight + 2
  BY <1>2 DEF Faulted, SafetyInv, CandidateInv, Locked
<1>4. QED
  BY <1>2, <1>3

\* Only the block end takes a part of a bond, and only of a validator that has
\* committed for a candidate, did not reveal, and had its whole reveal block.
THEOREM OnTimeHolds == Spec => OnTime
<1>1. SafetyInv /\ [Next]_vars => [\A v \in Validators : SlashedOnTime(v)]_vars
  BY OnTimeStep
<1>2. QED
  BY <1>1, SafetyInvariant, PTL DEF Spec, OnTime

-----------------------------------------------------------------------------
(* Induction, over numbers and over finite sets: least counterexamples.    *)

\* A set of numbers has a least one.
LEMMA LeastNat ==
    ASSUME NEW T \in SUBSET Nat, T # {}
    PROVE  \E x \in T : \A y \in T : x <= y
<1> DEFINE R == OpToRel(<, Nat)
<1>1. IsWellFoundedOn(R, Nat)
  BY NatLessThanWellFounded
<1>2. \E x \in T : \A y \in T : ~ (<<y, x>> \in R)
  <2> HIDE DEF R
  <2> QED BY <1>1, WFMin
<1>3. \A x, y \in Nat : x < y => <<x, y>> \in R
  BY DEF OpToRel
<1> HIDE DEF R
<1>4. PICK x \in T : \A y \in T : ~ (<<y, x>> \in R)
  BY <1>2
<1>5. ASSUME NEW y \in T PROVE x <= y
  <2>1. ~ (y < x)
    BY <1>3, <1>4
  <2> QED BY <2>1
<1> QED BY <1>5

\* Among the sets of which something does not hold there is a minimal one.
LEMMA MinimalSet ==
  ASSUME NEW S, IsFiniteSet(S), NEW B \in SUBSET SUBSET S, B # {}
  PROVE  \E s \in B : \A t \in B : t \subseteq s => t = s
<1>. DEFINE sizes == {Cardinality(s) : s \in B}
<1>1. \A s \in B : IsFiniteSet(s) /\ Cardinality(s) \in Nat
  BY FS_Subset, FS_CardinalityType
<1>2. PICK s \in B : \A t \in B : Cardinality(s) <= Cardinality(t)
  <2>1. sizes \in SUBSET Nat /\ sizes # {}
    BY <1>1
  <2>2. PICK n \in sizes : \A m \in sizes : n <= m
    BY <2>1, LeastNat
  <2>3. QED
    BY <2>2
<1>3. ASSUME NEW t \in B, t \subseteq s PROVE t = s
  <2>1. Cardinality(t) <= Cardinality(s)
    BY <1>1, <1>3, FS_Subset
  <2>2. Cardinality(t) = Cardinality(s)
    BY <1>1, <1>2, <2>1
  <2>3. QED
    BY <1>1, <1>3, <2>2, FS_Subset
<1>4. QED
  BY <1>3

-----------------------------------------------------------------------------
(* The sum of a function                                                   *)

\* The element that the recursion of a sum takes out of s first.
One(s) == CHOOSE x \in s : TRUE

\* g gives the sum of f over every subset of S: what the recursion of
\* SumFunctionOnSet is solved by.
Sums(f, S, g) ==
    g = [s \in SUBSET S |-> IF s = {} THEN 0 ELSE f[One(s)] + g[s \ {One(s)}]]

\* The sum is what the chosen solution of its recursion gives.
LEMMA SumUnfolds ==
  ASSUME NEW f, NEW S
  PROVE  SumFunctionOnSet(f, S) = (CHOOSE g : Sums(f, S, g))[S]
  BY DEF SumFunctionOnSet, FoldFunctionOnSet, MapThenFoldSet, Sums, One

LEMMA OneIn == \A s : s # {} => One(s) \in s
  BY DEF One

\* Two solutions, for S and for a subset T, agree on what both are about.
LEMMA SumsAgree ==
  ASSUME NEW f, NEW S, IsFiniteSet(S), NEW T \in SUBSET S, NEW g, NEW h,
         Sums(f, S, g), Sums(f, T, h)
  PROVE  \A s \in SUBSET T : g[s] = h[s]
<1>. DEFINE B == {s \in SUBSET T : g[s] # h[s]}
<1>1. SUFFICES ASSUME B # {} PROVE FALSE
  OBVIOUS
<1>2. PICK s \in B : \A t \in B : t \subseteq s => t = s
  <2>1. B \in SUBSET SUBSET S
    OBVIOUS
  <2>. HIDE DEF B
  <2>2. QED
    BY <1>1, <2>1, MinimalSet
<1>3. s \in SUBSET S /\ s \in SUBSET T
  OBVIOUS
<1>4. /\ g[s] = (IF s = {} THEN 0 ELSE f[One(s)] + g[s \ {One(s)}])
      /\ h[s] = (IF s = {} THEN 0 ELSE f[One(s)] + h[s \ {One(s)}])
  BY <1>3 DEF Sums
<1>5. s # {}
  BY <1>4
<1>6. One(s) \in s
  BY <1>5, OneIn
<1>7. s \ {One(s)} \in SUBSET T /\ s \ {One(s)} # s /\ s \ {One(s)} \subseteq s
  BY <1>6
<1>8. g[s \ {One(s)}] = h[s \ {One(s)}]
  BY <1>2, <1>7
<1>9. QED
  BY <1>4, <1>8

\* So every solution gives the sum.
LEMMA SumsGive ==
  ASSUME NEW f, NEW S, IsFiniteSet(S), NEW g, Sums(f, S, g)
  PROVE  SumFunctionOnSet(f, S) = g[S]
<1>. DEFINE h == CHOOSE k : Sums(f, S, k)
<1>1. Sums(f, S, h)
  OBVIOUS
<1>2. h[S] = g[S]
  <2>. HIDE DEF h
  <2>. QED BY <1>1, SumsAgree
<1>3. QED
  BY <1>2, SumUnfolds

\* What the sums of S say of a subset.
LEMMA SumsRestrict ==
  ASSUME NEW f, NEW S, IsFiniteSet(S), NEW g, Sums(f, S, g), NEW T \in SUBSET S
  PROVE  SumFunctionOnSet(f, T) = g[T]
<1>. DEFINE h == [s \in SUBSET T |-> g[s]]
<1>1. ASSUME NEW s \in SUBSET T
      PROVE  h[s] = IF s = {} THEN 0 ELSE f[One(s)] + h[s \ {One(s)}]
  <2>1. g[s] = IF s = {} THEN 0 ELSE f[One(s)] + g[s \ {One(s)}]
    BY DEF Sums
  <2>2. h[s] = g[s] /\ h[s \ {One(s)}] = g[s \ {One(s)}]
    OBVIOUS
  <2>3. QED
    BY <2>1, <2>2
<1>2. Sums(f, T, h)
  BY <1>1 DEF Sums
<1>3. h[T] = g[T]
  OBVIOUS
<1>4. IsFiniteSet(T)
  BY FS_Subset
<1>5. SumFunctionOnSet(f, T) = h[T]
  <2>. HIDE DEF h
  <2>. QED BY <1>2, <1>4, SumsGive
<1>6. QED
  BY <1>3, <1>5

\* With a solution, the sum loses one element at a time.
LEMMA SumsStep ==
  ASSUME NEW f, NEW S, IsFiniteSet(S), NEW g, Sums(f, S, g), S # {}
  PROVE  SumFunctionOnSet(f, S) = f[One(S)] + SumFunctionOnSet(f, S \ {One(S)})
<1>1. g[S] = f[One(S)] + g[S \ {One(S)}]
  BY DEF Sums
<1>2. SumFunctionOnSet(f, S) = g[S] /\ SumFunctionOnSet(f, S \ {One(S)}) = g[S \ {One(S)}]
  BY SumsRestrict
<1>3. QED
  BY <1>1, <1>2

\* There is a solution for every finite set.
LEMMA SumsExist ==
  ASSUME NEW f, NEW S, IsFiniteSet(S)
  PROVE  \E g : Sums(f, S, g)
<1>. DEFINE B == {s \in SUBSET S : ~ \E g : Sums(f, s, g)}
<1>1. SUFFICES ASSUME B # {} PROVE FALSE
  OBVIOUS
<1>2. PICK s \in B : \A t \in B : t \subseteq s => t = s
  <2>. HIDE DEF B
  <2>1. B \in SUBSET SUBSET S
    BY DEF B
  <2>2. QED
    BY <1>1, <2>1, MinimalSet
<1>3. \A t \in SUBSET s : IsFiniteSet(t)
  BY FS_Subset
<1>4. ASSUME NEW t \in SUBSET s, t # s PROVE \E g : Sums(f, t, g)
  BY <1>2, <1>4
<1>. DEFINE sum(t) == SumFunctionOnSet(f, t)
            G == [t \in SUBSET s |-> IF t = {} THEN 0 ELSE f[One(t)] + sum(t \ {One(t)})]
<1>5. ASSUME NEW t \in SUBSET s, t # s PROVE G[t] = sum(t)
  <2>1. PICK g : Sums(f, t, g)
    BY <1>4, <1>5
  <2>2. CASE t = {}
    <3>1. g[t] = 0
      BY <2>1, <2>2 DEF Sums
    <3>2. QED
      BY <3>1, <2>1, <2>2, <1>3, SumsGive
  <2>3. CASE t # {}
    BY <2>1, <2>3, <1>3, SumsStep
  <2>4. QED
    BY <2>2, <2>3
<1>6. ASSUME NEW t \in SUBSET s
      PROVE  G[t] = IF t = {} THEN 0 ELSE f[One(t)] + G[t \ {One(t)}]
  <2>1. CASE t = {}
    BY <2>1
  <2>2. CASE t # {}
    <3>1. t \ {One(t)} \in SUBSET s /\ t \ {One(t)} # s
      BY <2>2, OneIn
    <3>2. G[t \ {One(t)}] = sum(t \ {One(t)})
      BY <3>1, <1>5
    <3>. HIDE DEF sum
    <3>3. QED
      BY <2>2, <3>2
  <2>3. QED
    BY <2>1, <2>2
<1>7. Sums(f, s, G)
  <2>. HIDE DEF sum
  <2>1. QED
    BY <1>6 DEF Sums
<1>8. QED
  BY <1>7

\* The two equations of a sum.
LEMMA SumEmpty == ASSUME NEW f PROVE SumFunctionOnSet(f, {}) = 0
<1>1. IsFiniteSet({})
  BY FS_EmptySet
<1>2. PICK g : Sums(f, {}, g)
  BY <1>1, SumsExist
<1>3. g[{}] = 0
  BY <1>2 DEF Sums
<1>4. QED
  BY <1>1, <1>2, <1>3, SumsGive

LEMMA SumStep ==
  ASSUME NEW f, NEW S, IsFiniteSet(S), S # {}
  PROVE  SumFunctionOnSet(f, S) = f[One(S)] + SumFunctionOnSet(f, S \ {One(S)})
<1>1. PICK g : Sums(f, S, g)
  BY SumsExist
<1>2. QED
  BY <1>1, SumsStep

\* A sum of integers is an integer.
LEMMA SumInt ==
  ASSUME NEW S, IsFiniteSet(S), NEW f, \A x \in S : f[x] \in Int
  PROVE  SumFunctionOnSet(f, S) \in Int
<1>. DEFINE B == {s \in SUBSET S : SumFunctionOnSet(f, s) \notin Int}
<1>1. SUFFICES ASSUME B # {} PROVE FALSE
  OBVIOUS
<1>2. PICK s \in B : \A t \in B : t \subseteq s => t = s
  <2>1. B \in SUBSET SUBSET S
    OBVIOUS
  <2>. HIDE DEF B
  <2>2. QED
    BY <1>1, <2>1, MinimalSet
<1>3. s # {} /\ IsFiniteSet(s)
  <2>1. IsFiniteSet(s)
    BY FS_Subset
  <2>2. SumFunctionOnSet(f, {}) \in Int
    BY SumEmpty
  <2>3. QED
    BY <2>1, <2>2
<1>4. One(s) \in s
  BY <1>3, OneIn
<1>5. SumFunctionOnSet(f, s \ {One(s)}) \in Int
  BY <1>2, <1>4
<1>6. QED
  BY <1>3, <1>4, <1>5, SumStep

\* Whatever unfolds as a sum does is the sum.
Unfolds(f, S, G) ==
    /\ G \in [SUBSET S -> Int] /\ G[{}] = 0
    /\ \A s \in SUBSET S : \A x \in s : G[s] = f[x] + G[s \ {x}]

LEMMA SumIs ==
  ASSUME NEW S, IsFiniteSet(S), NEW f, NEW G, Unfolds(f, S, G)
  PROVE  SumFunctionOnSet(f, S) = G[S]
<1>1. ASSUME NEW s \in SUBSET S
      PROVE  G[s] = IF s = {} THEN 0 ELSE f[One(s)] + G[s \ {One(s)}]
  BY OneIn DEF Unfolds
<1>2. Sums(f, S, G)
  BY <1>1 DEF Sums, Unfolds
<1>3. QED
  BY <1>2, SumsGive

\* Any element may be taken out of a sum first.
LEMMA SumRemove ==
  ASSUME NEW S, IsFiniteSet(S), NEW f, \A x \in S : f[x] \in Int
  PROVE  \A s \in SUBSET S : \A x \in s :
            SumFunctionOnSet(f, s) = f[x] + SumFunctionOnSet(f, s \ {x})
<1>. DEFINE sum(s) == SumFunctionOnSet(f, s)
            B == {s \in SUBSET S : \E x \in s : sum(s) # f[x] + sum(s \ {x})}
<1>1. SUFFICES ASSUME B # {} PROVE FALSE
  OBVIOUS
<1>2. PICK s \in B : \A t \in B : t \subseteq s => t = s
  <2>1. B \in SUBSET SUBSET S
    OBVIOUS
  <2>. HIDE DEF B
  <2>2. QED
    BY <1>1, <2>1, MinimalSet
<1>3. PICK x \in s : sum(s) # f[x] + sum(s \ {x})
  OBVIOUS
<1>4. PICK y \in s : sum(s) = f[y] + sum(s \ {y})
  BY <1>3, FS_Subset, OneIn, SumStep
<1>6. x # y
  BY <1>3, <1>4
<1>7. /\ sum(s \ {y}) = f[x] + sum((s \ {y}) \ {x})
      /\ sum(s \ {x}) = f[y] + sum((s \ {x}) \ {y})
  <2>. HIDE DEF sum
  <2>1. \A t \in SUBSET S : t \notin B => \A z \in t : sum(t) = f[z] + sum(t \ {z})
    OBVIOUS
  <2>2. s \ {x} \in SUBSET S /\ s \ {y} \in SUBSET S /\ s \ {x} # s /\ s \ {y} # s
    OBVIOUS
  <2>3. s \ {x} \notin B /\ s \ {y} \notin B
    <3>. HIDE DEF B
    <3>. QED BY <1>2, <2>2
  <2>4. y \in s \ {x} /\ x \in s \ {y}
    BY <1>6
  <2>5. QED
    BY <2>1, <2>2, <2>3, <2>4
<1>8. (s \ {y}) \ {x} = (s \ {x}) \ {y} /\ sum((s \ {y}) \ {x}) = sum((s \ {x}) \ {y})
  OBVIOUS
<1>9. f[x] \in Int /\ f[y] \in Int /\ sum((s \ {x}) \ {y}) \in Int
  BY <1>3, FS_Subset, SumInt
<1>10. QED
  <2>1. sum(s) # f[x] + sum(s \ {x}) /\ sum(s) = f[y] + sum(s \ {y})
    BY <1>3, <1>4
  <2>. HIDE DEF sum, B
  <2>. DEFINE r == sum((s \ {x}) \ {y})
              p == sum(s \ {x})
              q == sum(s \ {y})
  <2>2. q = f[x] + r /\ p = f[y] + r /\ r \in Int
    BY <1>7, <1>8, <1>9
  <2>3. sum(s) # f[x] + p /\ sum(s) = f[y] + q
    BY <2>1
  <2>. HIDE DEF r, p, q
  <2>4. QED
    BY <2>2, <2>3, <1>9

\* The sum of constants, of differences, and of a function changed in one place.
LEMMA SumConst ==
  ASSUME NEW S, IsFiniteSet(S), NEW k \in Int
  PROVE  SumFunctionOnSet([x \in S |-> k], S) = k * Cardinality(S)
<1>. DEFINE G == [s \in SUBSET S |-> k * Cardinality(s)]
            f == [x \in S |-> k]
<1>1. G[{}] = 0
  BY FS_EmptySet
<1>2. ASSUME NEW s \in SUBSET S, NEW x \in s PROVE G[s] = f[x] + G[s \ {x}]
  <2>1. IsFiniteSet(s) /\ Cardinality(s) \in Nat /\ Cardinality(s \ {x}) = Cardinality(s) - 1
    BY FS_Subset, FS_CardinalityType, FS_RemoveElement
  <2>2. k * Cardinality(s) = k + k * (Cardinality(s) - 1)
    BY <2>1
  <2>3. QED
    BY <2>1, <2>2
<1>3. SumFunctionOnSet(f, S) = G[S]
  <2>. HIDE DEF f
  <2>1. G \in [SUBSET S -> Int]
    BY FS_Subset, FS_CardinalityType
  <2>. HIDE DEF G
  <2>2. Unfolds(f, S, G)
    BY <1>1, <1>2, <2>1 DEF Unfolds
  <2>3. QED
    BY <2>2, SumIs
<1>4. QED
  BY <1>3

LEMMA SumMinus ==
  ASSUME NEW S, IsFiniteSet(S), NEW f, NEW g, NEW d,
         \A x \in S : f[x] \in Int /\ g[x] \in Int /\ d[x] = f[x] - g[x]
  PROVE  SumFunctionOnSet(d, S) = SumFunctionOnSet(f, S) - SumFunctionOnSet(g, S)
<1>. DEFINE G == [s \in SUBSET S |-> SumFunctionOnSet(f, s) - SumFunctionOnSet(g, s)]
<1>1. G[{}] = 0
  BY SumEmpty
<1>2. ASSUME NEW s \in SUBSET S, NEW x \in s PROVE G[s] = d[x] + G[s \ {x}]
  <2>1. /\ SumFunctionOnSet(f, s) = f[x] + SumFunctionOnSet(f, s \ {x})
        /\ SumFunctionOnSet(g, s) = g[x] + SumFunctionOnSet(g, s \ {x})
    BY SumRemove
  <2>2. /\ SumFunctionOnSet(f, s \ {x}) \in Int /\ SumFunctionOnSet(g, s \ {x}) \in Int
    BY FS_Subset, SumInt
  <2>3. f[x] \in Int /\ g[x] \in Int /\ d[x] = f[x] - g[x]
    OBVIOUS
  <2>4. QED
    BY <2>1, <2>2, <2>3
<1>3. G \in [SUBSET S -> Int]
  BY FS_Subset, SumInt
<1>4. SumFunctionOnSet(d, S) = G[S]
  <2>. HIDE DEF G
  <2>1. Unfolds(d, S, G)
    BY <1>1, <1>2, <1>3 DEF Unfolds
  <2>2. QED
    BY <2>1, SumIs
<1>5. QED
  BY <1>4

LEMMA SumChange ==
  ASSUME NEW S, IsFiniteSet(S), NEW f, \A x \in S : f[x] \in Int, NEW v \in S,
         NEW g, g[v] \in Int, \A x \in S : x # v => g[x] = f[x]
  PROVE  SumFunctionOnSet(g, S) = SumFunctionOnSet(f, S) - f[v] + g[v]
<1>. DEFINE d == [x \in S |-> IF x = v THEN f[v] - g[v] ELSE 0]
            G == [s \in SUBSET S |-> IF v \in s THEN f[v] - g[v] ELSE 0]
<1>1. SumFunctionOnSet(g, S) = SumFunctionOnSet(f, S) - SumFunctionOnSet(d, S)
  <2>1. \A x \in S : f[x] \in Int /\ d[x] \in Int /\ g[x] = f[x] - d[x]
    OBVIOUS
  <2>. HIDE DEF d
  <2>2. QED
    BY <2>1, SumMinus
<1>2. SumFunctionOnSet(d, S) = f[v] - g[v]
  <2>1. G[{}] = 0
    OBVIOUS
  <2>2. \A s \in SUBSET S : \A x \in s : G[s] = d[x] + G[s \ {x}]
    OBVIOUS
  <2>3. G \in [SUBSET S -> Int]
    OBVIOUS
  <2>4. SumFunctionOnSet(d, S) = G[S]
    <3>. HIDE DEF G, d
    <3>1. Unfolds(d, S, G)
      BY <2>1, <2>2, <2>3 DEF Unfolds
    <3>2. QED
      BY <3>1, SumIs
  <2>5. QED
    BY <2>4
<1>3. SumFunctionOnSet(f, S) \in Int
  BY SumInt
<1>4. QED
  BY <1>1, <1>2, <1>3

-----------------------------------------------------------------------------
(* Repeated penalties                                                      *)

\* What one penalty leaves of a bond.
Rest(bond) == bond - Penalty(bond)

\* A penalty takes something.
LEMMA RestInt == \A b \in Int : Rest(b) \in Int /\ Rest(b) < b
  BY SafetyConstants DEF Rest, Penalty

\* g says what up to k penalties leave of any bond.
Rests(k, g) ==
    /\ g \in [0..k -> [Int -> Int]]
    /\ \A b \in Int : g[0][b] = b
    /\ \A n \in 0..k, b \in Int : n # 0 => g[n][b] = g[n - 1][Rest(b)]

\* There is such a g, and it is unique.
LEMMA RestsExist == \A k \in Nat : \E g : Rests(k, g)
<1>. DEFINE T == {k \in Nat : ~ \E g : Rests(k, g)}
<1>1. SUFFICES ASSUME T # {} PROVE FALSE
  OBVIOUS
<1>2. PICK k \in T : \A j \in T : k <= j
  <2>1. T \in SUBSET Nat
    OBVIOUS
  <2>. HIDE DEF T
  <2>2. QED
    BY <1>1, <2>1, LeastNat
<1>3. CASE k = 0
  <2>. DEFINE g == [n \in 0..0 |-> [b \in Int |-> b]]
  <2>1. Rests(0, g)
    BY DEF Rests
  <2>2. QED
    BY <1>3, <2>1
<1>4. CASE k # 0
  <2>1. k - 1 \in Nat /\ k - 1 \notin T
    BY <1>2, <1>4
  <2>2. PICK h : Rests(k - 1, h)
    BY <2>1
  <2>. DEFINE g == [n \in 0..k |-> IF n < k THEN h[n] ELSE [b \in Int |-> h[k - 1][Rest(b)]]]
  <2>3. g \in [0..k -> [Int -> Int]]
    <3>1. k - 1 \in 0..(k - 1) /\ \A n \in 0..(k - 1) : h[n] \in [Int -> Int]
      BY <1>4, <2>2 DEF Rests
    <3>2. [b \in Int |-> h[k - 1][Rest(b)]] \in [Int -> Int]
      BY <3>1, RestInt
    <3>3. \A n \in 0..k : n < k => n \in 0..(k - 1)
      OBVIOUS
    <3>4. \A n \in 0..k : (IF n < k THEN h[n] ELSE [b \in Int |-> h[k - 1][Rest(b)]]) \in [Int -> Int]
      BY <3>1, <3>2, <3>3
    <3>5. QED
      BY <3>4
  <2>4. \A b \in Int : g[0][b] = b
    BY <1>4, <2>2 DEF Rests
  <2>5. ASSUME NEW n \in 0..k, NEW b \in Int, n # 0 PROVE g[n][b] = g[n - 1][Rest(b)]
    <3>1. g[n - 1] = h[n - 1]
      BY <2>5
    <3>2. CASE n < k
      <4>1. g[n] = h[n] /\ n \in 0..(k - 1)
        BY <3>2
      <4>2. QED
        BY <2>2, <2>5, <3>1, <4>1 DEF Rests
    <3>3. CASE n = k
      BY <3>1, <3>3
    <3>4. QED
      BY <3>2, <3>3
  <2>6. Rests(k, g)
    <3>. HIDE DEF g
    <3>. QED BY <2>3, <2>4, <2>5 DEF Rests
  <2>7. QED
    BY <2>6
<1>5. QED
  BY <1>3, <1>4

LEMMA RestsAgree ==
  ASSUME NEW k \in Nat, NEW j \in Nat, NEW g, NEW h, Rests(k, g), Rests(j, h)
  PROVE  \A n \in 0..k : n \in 0..j => \A b \in Int : g[n][b] = h[n][b]
<1>. DEFINE T == {n \in 0..k : n <= j /\ \E b \in Int : g[n][b] # h[n][b]}
<1>1. SUFFICES ASSUME T # {} PROVE FALSE
  OBVIOUS
<1>2. PICK n \in T : \A m \in T : n <= m
  <2>1. T \in SUBSET Nat
    OBVIOUS
  <2>. HIDE DEF T
  <2>2. QED
    BY <1>1, <2>1, LeastNat
<1>3. PICK b \in Int : g[n][b] # h[n][b]
  OBVIOUS
<1>4. n # 0
  BY <1>3 DEF Rests
<1>5. g[n][b] = g[n - 1][Rest(b)] /\ h[n][b] = h[n - 1][Rest(b)]
  <2>1. n \in 0..k /\ n \in 0..j
    OBVIOUS
  <2>. HIDE DEF T
  <2>2. QED
    BY <1>4, <2>1 DEF Rests
<1>6. n - 1 \in 0..k /\ n - 1 <= j /\ n - 1 \notin T
  BY <1>2, <1>4
<1>7. QED
  BY <1>3, <1>5, <1>6, RestInt

\* The recursion that defines SlashedTimes has a solution, so it holds.
LEMMA SlashUnfolds ==
    \A n \in Nat, b \in Int :
        /\ SlashedTimes[n][b] \in Int
        /\ SlashedTimes[n][b] = IF n = 0 THEN b ELSE SlashedTimes[n - 1][Rest(b)]
<1>. DEFINE g(k) == CHOOSE h : Rests(k, h)
            G == [n \in Nat |-> g(n)[n]]
            Solves(f) == f = [n \in Nat |-> [b \in Int |-> IF n = 0 THEN b ELSE f[n - 1][b - Penalty(b)]]]
<1>1. \A k \in Nat : Rests(k, g(k))
  BY RestsExist
<1>. HIDE DEF g
<1>2. ASSUME NEW n \in Nat PROVE G[n] \in [Int -> Int]
  <2>1. g(n) \in [0..n -> [Int -> Int]] /\ n \in 0..n
    BY <1>1 DEF Rests
  <2>2. QED
    BY <2>1
<1>3. ASSUME NEW n \in Nat, NEW b \in Int
      PROVE  G[n][b] = IF n = 0 THEN b ELSE G[n - 1][Rest(b)]
  <2>1. CASE n = 0
    BY <1>1, <2>1 DEF Rests
  <2>2. CASE n # 0
    <3>1. n - 1 \in Nat /\ n \in 0..n /\ n - 1 \in 0..n /\ n - 1 \in 0..(n - 1)
      BY <2>2
    <3>2. g(n)[n][b] = g(n)[n - 1][Rest(b)]
      BY <1>1, <2>2, <3>1 DEF Rests
    <3>3. g(n)[n - 1][Rest(b)] = g(n - 1)[n - 1][Rest(b)]
      BY <1>1, <3>1, RestsAgree, RestInt
    <3>4. QED
      BY <2>2, <3>1, <3>2, <3>3
  <2>3. QED
    BY <2>1, <2>2
<1>4. ASSUME NEW n \in Nat
      PROVE  G[n] = [b \in Int |-> IF n = 0 THEN b ELSE G[n - 1][b - Penalty(b)]]
  <2>1. G[n] = [b \in Int |-> G[n][b]]
    BY <1>2
  <2>. HIDE DEF G
  <2>2. QED
    BY <1>3, <2>1 DEF Rest
<1>5. Solves(G)
  <2>1. G = [n \in Nat |-> G[n]]
    OBVIOUS
  <2>. HIDE DEF G
  <2>2. QED
    BY <1>4, <2>1
<1>6. Solves(SlashedTimes)
  <2>. HIDE DEF G
  <2>1. QED
    BY <1>5 DEF SlashedTimes
<1>7. \A n \in Nat, b \in Int : SlashedTimes[n][b] = IF n = 0 THEN b ELSE SlashedTimes[n - 1][Rest(b)]
  BY <1>6 DEF Rest
<1>8. \A n \in Nat, b \in Int : SlashedTimes[n][b] \in Int
  <2>. DEFINE T == {n \in Nat : \E b \in Int : SlashedTimes[n][b] \notin Int}
  <2>1. SUFFICES ASSUME T # {} PROVE FALSE
    OBVIOUS
  <2>2. PICK n \in T : \A m \in T : n <= m
    <3>1. T \in SUBSET Nat
      OBVIOUS
    <3>. HIDE DEF T
    <3>2. QED
      BY <2>1, <3>1, LeastNat
  <2>3. PICK b \in Int : SlashedTimes[n][b] \notin Int
    OBVIOUS
  <2>4. n # 0 /\ SlashedTimes[n][b] = SlashedTimes[n - 1][Rest(b)]
    BY <1>7, <2>3
  <2>5. n - 1 \in Nat /\ n - 1 \notin T
    BY <2>2, <2>4
  <2>6. QED
    BY <2>3, <2>4, <2>5, RestInt
<1>9. QED
  BY <1>7, <1>8

\* Penalties add up, each takes something, and so fewer of them leave more.
LEMMA SlashAdds ==
    \A k \in Nat, n \in Nat, b \in Int : SlashedTimes[n][SlashedTimes[k][b]] = SlashedTimes[n + k][b]
<1>. DEFINE T == {k \in Nat : \E n \in Nat, b \in Int : SlashedTimes[n][SlashedTimes[k][b]] # SlashedTimes[n + k][b]}
<1>1. SUFFICES ASSUME T # {} PROVE FALSE
  OBVIOUS
<1>2. PICK k \in T : \A m \in T : k <= m
  <2>1. T \in SUBSET Nat
    OBVIOUS
  <2>. HIDE DEF T
  <2>2. QED
    BY <1>1, <2>1, LeastNat
<1>3. PICK n \in Nat, b \in Int : SlashedTimes[n][SlashedTimes[k][b]] # SlashedTimes[n + k][b]
  OBVIOUS
<1>4. k # 0
  BY <1>3, SlashUnfolds
<1>5. k - 1 \in Nat /\ k - 1 \notin T /\ n + k \in Nat /\ n + k # 0 /\ (n + k) - 1 = n + (k - 1)
  BY <1>2, <1>4
<1>6. SlashedTimes[k][b] = SlashedTimes[k - 1][Rest(b)] /\ SlashedTimes[n + k][b] = SlashedTimes[n + (k - 1)][Rest(b)]
  BY <1>4, <1>5, SlashUnfolds
<1>7. SlashedTimes[n][SlashedTimes[k - 1][Rest(b)]] = SlashedTimes[n + (k - 1)][Rest(b)]
  BY <1>5, RestInt
<1>8. QED
  BY <1>3, <1>6, <1>7

LEMMA SlashTakes == \A n \in Nat, b \in Int : SlashedTimes[n][b] <= b
<1>. DEFINE T == {n \in Nat : \E b \in Int : ~ (SlashedTimes[n][b] <= b)}
<1>1. SUFFICES ASSUME T # {} PROVE FALSE
  OBVIOUS
<1>2. PICK n \in T : \A m \in T : n <= m
  <2>1. T \in SUBSET Nat
    OBVIOUS
  <2>. HIDE DEF T
  <2>2. QED
    BY <1>1, <2>1, LeastNat
<1>3. PICK b \in Int : ~ (SlashedTimes[n][b] <= b)
  OBVIOUS
<1>4. n # 0
  BY <1>3, SlashUnfolds
<1>5. n - 1 \in Nat /\ n - 1 \notin T
  BY <1>2, <1>4
<1>6. SlashedTimes[n][b] = SlashedTimes[n - 1][Rest(b)] /\ SlashedTimes[n - 1][Rest(b)] <= Rest(b)
  BY <1>4, <1>5, SlashUnfolds, RestInt
<1>7. QED
  BY <1>3, <1>5, <1>6, RestInt, SlashUnfolds

LEMMA FewerLeaveMore ==
  ASSUME NEW n \in Nat, NEW k \in 0..n, NEW b \in Int
  PROVE  SlashedTimes[n][b] <= SlashedTimes[k][b]
<1>1. PICK j \in Nat : j + k = n
  <2>1. n - k \in Nat /\ (n - k) + k = n
    OBVIOUS
  <2>2. QED
    BY <2>1
<1>2. k \in Nat /\ SlashedTimes[k][b] \in Int
  BY SlashUnfolds
<1>3. SlashedTimes[j][SlashedTimes[k][b]] = SlashedTimes[j + k][b]
  BY <1>2, SlashAdds
<1>4. QED
  BY <1>1, <1>2, <1>3, SlashTakes

-----------------------------------------------------------------------------
(* Conservation                                                            *)

\* The amounts are integers, and a locked candidate has existed.
Money ==
    /\ balances \in Int /\ burned \in Int
    /\ validatorBonds \in [Validators -> Int]
    /\ Locked \subseteq used

MoneyInv == SafetyInv /\ Money /\ SafetyConserved

\* Candidates are counted and bonds are summed over finite sets.
LEMMA FinitelyLocked == Locked \in SUBSET Candidates /\ IsFiniteSet(Locked) /\ Cardinality(Locked) \in Nat
  BY SafetyConstants, FS_Subset, FS_CardinalityType DEF Locked

LEMMA SumOfAll == ASSUME NEW f, DOMAIN f = Validators PROVE SumFunction(f) = SumFunctionOnSet(f, Validators)
  BY DEF SumFunction, SumFunctionOnSet, FoldFunction

LEMMA BondsInt == \A f \in [Validators -> Int] : SumFunction(f) \in Int
  BY SafetyConstants, SumInt, SumOfAll

\* The three parts of a settlement are the whole bond.
LEMMA SettlementIsWhole ==
    LET s == calculateSafetySettlement
    IN  /\ s.reporter \in Int /\ s.evaluators \in Int /\ s.burned \in Int
        /\ s.reporter + s.evaluators + s.burned = CandidateBond
<1>1. (7 * CandidateBond) \div 10 \in Int /\ CandidateBond \div 10 \in Int
  BY SafetyConstants
<1>2. (CandidateBond \div 10) \div Evaluators \in Int
  BY <1>1, SafetyConstants
<1>3. Evaluators * ((CandidateBond \div 10) \div Evaluators) \in Int
  BY <1>2, SafetyConstants
<1>4. QED
  BY <1>1, <1>3, SafetyConstants DEF calculateSafetySettlement

\* At genesis nothing is locked or burned.
LEMMA MoneyInit == Init => MoneyInv
<1>. SUFFICES ASSUME Init PROVE MoneyInv
  OBVIOUS
<1>1. SumFunction(validatorBonds) = MinBond * Cardinality(Validators)
  <2>. DEFINE f == [v \in Validators |-> MinBond]
  <2>1. SumFunctionOnSet(f, Validators) = MinBond * Cardinality(Validators)
    <3>1. IsFiniteSet(Validators) /\ MinBond \in Int
      BY SafetyConstants
    <3>2. QED
      BY <3>1, SumConst
  <2>2. DOMAIN f = Validators /\ validatorBonds = f
    BY DEF Init
  <2>. HIDE DEF f
  <2>3. QED
    BY <2>1, <2>2, SumOfAll
<1>2. Locked = {} /\ Cardinality(Locked) = 0
  BY FS_EmptySet DEF Init, Locked
<1>3. MinBond * Cardinality(Validators) \in Int
  BY SafetyConstants, FS_CardinalityType
<1>4. Money
  BY <1>2, SafetyConstants DEF Money, Init
<1>5. SafetyConserved
  BY <1>1, <1>2, <1>3, SafetyConstants DEF SafetyConserved, Init
<1>6. QED
  BY <1>4, <1>5, InitInv DEF MoneyInv

\* The arithmetic of a movement.
LEMMA Balances ==
  ASSUME NEW p \in Int, NEW q \in Int, NEW a \in Int, NEW x \in Int,
         NEW pp \in Int, NEW qq \in Int, NEW b \in Int, NEW y \in Int, NEW all \in Int,
         p + q + x + a = all, (pp - p) + (qq - q) + (b - a) = y
  PROVE  pp + qq + (x - y) + b = all
  OBVIOUS

\* Balances, burned total and validator bonds grow by the bonds of n candidates.
Moved(n) ==
    (balances' - balances) + (burned' - burned)
        + (SumFunction(validatorBonds') - SumFunction(validatorBonds)) = CandidateBond * n

\* Money that moves between the balances, the burned total and the bonds.
LEMMA Moves ==
  ASSUME MoneyInv, Money', NEW n \in Int, Cardinality(Locked') = Cardinality(Locked) - n, Moved(n)
  PROVE  SafetyConserved'
<1>1. PICK p \in Int, q \in Int, pp \in Int, qq \in Int :
         p = balances /\ q = burned /\ pp = balances' /\ qq = burned'
  BY DEF MoneyInv, Money
<1>2. PICK a \in Int, b \in Int : a = SumFunction(validatorBonds) /\ b = SumFunction(validatorBonds')
  BY BondsInt DEF MoneyInv, Money
<1>3. PICK m \in Int, k \in Int, all \in Int :
         /\ m = Cardinality(Locked) /\ k = CandidateBond
         /\ all = Funds + MinBond * Cardinality(Validators)
  BY SafetyConstants, FinitelyLocked, FS_CardinalityType
<1>4. p + q + k * m + a = all
  BY <1>1, <1>2, <1>3 DEF MoneyInv, SafetyConserved
<1>5. (pp - p) + (qq - q) + (b - a) = k * n
  BY <1>1, <1>2, <1>3 DEF Moved
<1>6. PICK x \in Int, y \in Int : x = k * m /\ y = k * n
  OBVIOUS
<1>7. k * (m - n) = x - y
  BY <1>6
<1>8. pp + qq + (x - y) + b = all
  BY <1>4, <1>5, <1>6, Balances
<1>9. pp + qq + k * (m - n) + b = all
  BY <1>7, <1>8
<1>10. QED
  BY <1>1, <1>2, <1>3, <1>9 DEF SafetyConserved, Locked

\* A step that leaves the money alone and removes no candidate.
LEMMA MoneyKept ==
  ASSUME MoneyInv, UNCHANGED <<balances, burned, validatorBonds, used>>, Locked' = Locked
  PROVE  Money' /\ SafetyConserved'
<1>1. Money'
  BY DEF MoneyInv, Money
<1>2. Cardinality(Locked') = Cardinality(Locked)
  BY DEF Locked
<1>3. SafetyConserved'
  BY <1>2 DEF MoneyInv, SafetyConserved
<1>4. QED
  BY <1>1, <1>3

\* A settlement pays out and burns exactly the bond of its candidate.
LEMMA ClaimConserves ==
  ASSUME MoneyInv, NEW c \in Candidates, verifySafetyClaim(c)
  PROVE  Money' /\ SafetyConserved'
<1>. DEFINE s == calculateSafetySettlement
<1>1. /\ balances' = balances + s.reporter + s.evaluators
      /\ burned' = burned + s.burned
      /\ candidateBonds' = [candidateBonds EXCEPT ![c] = None]
      /\ validatorBonds' = validatorBonds /\ used' = used /\ c \in Locked
  BY DEF verifySafetyClaim
<1>2. Locked' = Locked \ {c}
  BY <1>1 DEF MoneyInv, SafetyInv, CandidateInv, Locked
<1>3. Cardinality(Locked') = Cardinality(Locked) - 1
  BY <1>1, <1>2, FinitelyLocked, FS_RemoveElement
<1>4. s.reporter \in Int /\ s.evaluators \in Int /\ s.burned \in Int
      /\ s.reporter + s.evaluators + s.burned = CandidateBond
  BY SettlementIsWhole
<1>. HIDE DEF s
<1>5. Money'
  BY <1>1, <1>2, <1>4 DEF MoneyInv, Money
<1>6. (balances' - balances) + (burned' - burned)
            + (SumFunction(validatorBonds') - SumFunction(validatorBonds)) = CandidateBond * 1
  <2>1. SumFunction(validatorBonds') = SumFunction(validatorBonds) /\ SumFunction(validatorBonds) \in Int
    BY <1>1, BondsInt DEF MoneyInv, Money
  <2>. DEFINE a == SumFunction(validatorBonds)
              b == SumFunction(validatorBonds')
  <2>2. b = a /\ a \in Int
    BY <2>1
  <2>. HIDE DEF a, b
  <2>3. (balances' - balances) + (burned' - burned) + (b - a) = CandidateBond * 1
    BY <1>1, <1>4, <2>2, SafetyConstants DEF MoneyInv, Money
  <2>4. QED
    BY <2>3 DEF a, b
<1>7. QED
  BY <1>3, <1>5, <1>6, Moves DEF Moved

\* Locking moves the bond out of the balances.
LEMMA BondConserves ==
  ASSUME MoneyInv, NEW c \in Candidates, applyCandidateBond(c)
  PROVE  Money' /\ SafetyConserved'
<1>1. /\ balances' = balances - CandidateBond /\ burned' = burned
      /\ candidateBonds' = [candidateBonds EXCEPT ![c] = Candidate(height)]
      /\ validatorBonds' = validatorBonds /\ used' = used \union {c} /\ c \notin used
  BY DEF applyCandidateBond
<1>2. Locked' = Locked \union {c} /\ c \notin Locked
  BY <1>1 DEF MoneyInv, Money, SafetyInv, CandidateInv, Locked, Candidate, None
<1>3. Cardinality(Locked') = Cardinality(Locked) - (-1)
  BY <1>2, FinitelyLocked, FS_AddElement
<1>4. Money'
  BY <1>1, <1>2, SafetyConstants DEF MoneyInv, Money
<1>5. (balances' - balances) + (burned' - burned)
            + (SumFunction(validatorBonds') - SumFunction(validatorBonds)) = CandidateBond * (-1)
  <2>1. SumFunction(validatorBonds') = SumFunction(validatorBonds) /\ SumFunction(validatorBonds) \in Int
    BY <1>1, BondsInt DEF MoneyInv, Money
  <2>. DEFINE a == SumFunction(validatorBonds)
              b == SumFunction(validatorBonds')
  <2>2. b = a /\ a \in Int
    BY <2>1
  <2>. HIDE DEF a, b
  <2>3. (balances' - balances) + (burned' - burned) + (b - a) = CandidateBond * (-1)
    BY <1>1, <2>2, SafetyConstants DEF MoneyInv, Money
  <2>4. QED
    BY <2>3 DEF a, b
<1>6. QED
  BY <1>3, <1>4, <1>5, Moves DEF Moved

\* A validator's bond that is burned, or goes back to its balance, whole.
LEMMA WholeBondConserves ==
  ASSUME MoneyInv, NEW v \in Validators, validatorBonds' = [validatorBonds EXCEPT ![v] = 0],
         candidateBonds' = candidateBonds, used' = used,
         \/ balances' = balances + validatorBonds[v] /\ burned' = burned
         \/ burned' = burned + validatorBonds[v] /\ balances' = balances
  PROVE  Money' /\ SafetyConserved'
<1>. DEFINE a == SumFunction(validatorBonds)
            b == SumFunction(validatorBonds')
            n == 0
<1>1. validatorBonds \in [Validators -> Int] /\ validatorBonds' \in [Validators -> Int]
  BY DEF MoneyInv, Money
<1>2. b = a - validatorBonds[v]
  <2>1. /\ a = SumFunctionOnSet(validatorBonds, Validators)
        /\ b = SumFunctionOnSet(validatorBonds', Validators)
    BY <1>1, SumOfAll
  <2>2. validatorBonds'[v] = 0 /\ \A w \in Validators : w # v => validatorBonds'[w] = validatorBonds[w]
    BY <1>1
  <2>3. \A w \in Validators : validatorBonds[w] \in Int
    BY <1>1
  <2>. DEFINE S == Validators
              f == validatorBonds
              g == validatorBonds'
  <2>4. IsFiniteSet(S) /\ v \in S /\ (\A x \in S : f[x] \in Int) /\ g[v] \in Int /\ g[v] = 0
        /\ f[v] \in Int /\ \A x \in S : x # v => g[x] = f[x]
    BY <2>2, <2>3, SafetyConstants
  <2>. HIDE DEF a, b, f, g, S
  <2>5. SumFunctionOnSet(g, S) = SumFunctionOnSet(f, S) - f[v] + g[v] /\ SumFunctionOnSet(f, S) \in Int
    BY <2>4, SumChange, SumInt
  <2>6. SumFunctionOnSet(g, S) = SumFunctionOnSet(f, S) - f[v]
    BY <2>4, <2>5
  <2>7. QED
    BY <2>1, <2>6 DEF f, g, S
<1>3. a \in Int /\ validatorBonds[v] \in Int
  BY <1>1, BondsInt
<1>4. Locked' = Locked /\ Cardinality(Locked') = Cardinality(Locked) - n
  <2>1. Locked' = Locked
    BY DEF Locked
  <2>2. QED
    BY <2>1, FinitelyLocked
<1>5. Money'
  BY <1>1, <1>3, <1>4 DEF MoneyInv, Money
<1>6. (balances' - balances) + (burned' - burned) + (b - a) = CandidateBond * n
  <2>. HIDE DEF a, b
  <2>1. QED
    BY <1>2, <1>3, SafetyConstants DEF MoneyInv, Money
<1>7. n \in Int
  OBVIOUS
<1>8. QED
  <2>. HIDE DEF n
  <2>. QED BY <1>4, <1>5, <1>6, <1>7, Moves DEF Moved

\* Penalties are burned, and the bond of a refund goes back to the balances.
LEMMA EndConserves ==
  ASSUME MoneyInv, NEW leaving, EndBlock(leaving)
  PROVE  Money' /\ SafetyConserved'
<1>. DEFINE faults == {c \in Locked : Faulted(c)}
            refunds == faults \ fallback
            charges(v) == {c \in faults : v \in candidateBonds[c].commits \ candidateBonds[c].reveals}
            after == [v \in Validators |-> IF charges(v) = {} THEN validatorBonds[v]
                                           ELSE SlashedTimes[Cardinality(charges(v))][validatorBonds[v]]]
            taken == [v \in Validators |-> validatorBonds[v] - after[v]]
            a == SumFunction(validatorBonds)
            b == SumFunction(validatorBonds')
            n == Cardinality(refunds)
<1>1. /\ validatorBonds' = after /\ burned' = burned + SumFunction(taken)
      /\ balances' = balances + CandidateBond * n /\ used' = used
      /\ candidateBonds' = [c \in Candidates |->
               IF c \in refunds THEN None
               ELSE IF c \in Locked /\ (Revealed(c) \/ c \in faults)
                    THEN [candidateBonds[c] EXCEPT !.committee = TRUE]
               ELSE candidateBonds[c]]
  BY DEF EndBlock
<1>2. \A v \in Validators : IsFiniteSet(charges(v)) /\ Cardinality(charges(v)) \in Nat
  BY FinitelyLocked, FS_Subset, FS_CardinalityType
<1>3. after \in [Validators -> Int] /\ validatorBonds \in [Validators -> Int]
  <2>1. \A v \in Validators : validatorBonds[v] \in Int
    BY DEF MoneyInv, Money
  <2>2. \A v \in Validators : SlashedTimes[Cardinality(charges(v))][validatorBonds[v]] \in Int
    BY <1>2, <2>1, SlashUnfolds
  <2>. HIDE DEF charges
  <2>3. QED
    BY <2>1, <2>2 DEF MoneyInv, Money
<1>4. refunds \in SUBSET Locked /\ IsFiniteSet(refunds) /\ n \in Nat
  BY FinitelyLocked, FS_Subset, FS_CardinalityType
<1>5. Locked' = Locked \ refunds
  <2>1. \A c \in Locked : [candidateBonds[c] EXCEPT !.committee = TRUE] # None
    BY DEF MoneyInv, SafetyInv, CandidateInv, Locked, None
  <2>. HIDE DEF refunds, faults
  <2>2. QED
    BY <1>1, <2>1 DEF Locked
<1>6. Cardinality(Locked') = Cardinality(Locked) - n
  <2>. HIDE DEF refunds
  <2>1. Locked \cap refunds = refunds
    BY <1>4
  <2>2. Cardinality(Locked \ refunds) = Cardinality(Locked) - Cardinality(Locked \cap refunds)
    BY FinitelyLocked, <1>4, FS_Difference
  <2>3. QED
    BY <1>5, <2>1, <2>2
<1>7. SumFunction(taken) = a - b
  <2>1. /\ a = SumFunctionOnSet(validatorBonds, Validators)
        /\ b = SumFunctionOnSet(after, Validators)
        /\ SumFunction(taken) = SumFunctionOnSet(taken, Validators)
    BY <1>1, <1>3, SumOfAll
  <2>2. \A v \in Validators : /\ validatorBonds[v] \in Int /\ after[v] \in Int
                              /\ taken[v] = validatorBonds[v] - after[v]
    BY <1>3
  <2>. HIDE DEF a, b, after, taken
  <2>3. QED
    BY <2>1, <2>2, SafetyConstants, SumMinus
<1>8. a \in Int /\ b \in Int
  BY <1>1, <1>3, BondsInt
<1>9. CandidateBond * n \in Int
  BY <1>4, SafetyConstants
<1>. HIDE DEF faults, refunds, charges, after, taken, n
<1>10. Money'
  <2>. HIDE DEF a, b
  <2>1. QED
    BY <1>1, <1>3, <1>5, <1>7, <1>8, <1>9 DEF MoneyInv, Money
<1>11. (balances' - balances) + (burned' - burned) + (b - a) = CandidateBond * n
  <2>. DEFINE x == CandidateBond * n
  <2>. HIDE DEF a, b, x
  <2>1. balances' = balances + x /\ burned' = burned + (a - b) /\ x \in Int
    BY <1>1, <1>7, <1>9 DEF x
  <2>2. (balances' - balances) + (burned' - burned) + (b - a) = x
    BY <2>1, <1>8 DEF MoneyInv, Money
  <2>3. QED
    BY <2>2 DEF x
<1>12. QED
  BY <1>4, <1>6, <1>10, <1>11, Moves DEF Moved

\* Every step conserves.
LEMMA MoneyStep == MoneyInv /\ [Next]_vars => MoneyInv'
<1>. SUFFICES ASSUME MoneyInv, [Next]_vars PROVE Money' /\ SafetyConserved'
  BY SafetyStep DEF MoneyInv
<1>1. CASE UNCHANGED vars
  BY <1>1, MoneyKept DEF vars, Locked
<1>2. CASE \E c \in Candidates : verifySafetyClaim(c)
  BY <1>2, ClaimConserves
<1>3. CASE \E c \in Candidates : applyCandidateBond(c)
  BY <1>3, BondConserves
<1>4. CASE \E c \in Candidates : verifyFallbackBeacon(c)
  BY <1>4, MoneyKept DEF verifyFallbackBeacon, Locked
<1>5. CASE \E v \in Validators : applyValidatorEquivocation(v)
  BY <1>5, WholeBondConserves DEF applyValidatorEquivocation
<1>6. CASE \E v \in Validators : applyValidatorExitRequest(v)
  BY <1>6, MoneyKept DEF applyValidatorExitRequest, Locked
<1>7. CASE \E v \in Validators : applyValidatorWithdrawalClaim(v)
  BY <1>7, WholeBondConserves DEF applyValidatorWithdrawalClaim
<1>8. CASE \E c \in Candidates, v \in Validators : RandomnessCommit(c, v) \/ RandomnessReveal(c, v)
  <2>1. PICK c \in Candidates, v \in Validators : RandomnessCommit(c, v) \/ RandomnessReveal(c, v)
    BY <1>8
  <2>2. /\ candidateBonds' = [candidateBonds EXCEPT ![c].commits = @ \union {v}]
           \/ candidateBonds' = [candidateBonds EXCEPT ![c].reveals = @ \union {v}]
        /\ c \in Locked /\ UNCHANGED <<balances, burned, validatorBonds, used>>
    BY <2>1 DEF RandomnessCommit, RandomnessReveal
  <2>3. Locked' = Locked
    BY <2>2 DEF MoneyInv, SafetyInv, CandidateInv, Locked, None
  <2>4. QED
    BY <2>2, <2>3, MoneyKept
<1>9. CASE \E v \in Validators : EndBlock({}) \/ EndBlock({v})
  BY <1>9, EndConserves
<1>10. QED
  BY <1>1, <1>2, <1>3, <1>4, <1>5, <1>6, <1>7, <1>8, <1>9 DEF Next

\* Locking, settling, refunding and slashing conserve the money, for any number
\* of candidates and validators, and any amounts.
THEOREM SafetyConservedHolds == Spec => []SafetyConserved
<1>1. Init => MoneyInv
  BY MoneyInit
<1>2. MoneyInv /\ [Next]_vars => MoneyInv'
  BY MoneyStep
<1>3. MoneyInv => SafetyConserved
  BY DEF MoneyInv
<1>4. QED
  BY <1>1, <1>2, <1>3, PTL DEF Spec

-----------------------------------------------------------------------------
(* Obligations and bonds                                                   *)

\* The candidates that can charge nobody any more: settled, refunded, or with
\* their committee.
Closed == {c \in used : candidateBonds[c] = None \/ candidateBonds[c].committee}

\* The bond of v is what at most n penalties leave of the minimum.
Untouched(v, n) == \E k \in 0..n : validatorBonds[v] = SlashedTimes[k][MinBond]

\* Who has lost or taken its bond.
Gone == disabledValidators \union retiredValidators

\* The slashed are registered and, until a missed reveal is charged, have no bond;
\* the retired have none.
GoneInv ==
    /\ disabledValidators \subseteq Validators \ retiredValidators
    /\ \A v \in retiredValidators : validatorBonds[v] = 0
    /\ \A v \in disabledValidators :
          /\ validatorBonds[v] <= 0
          /\ v \notin nonRevealers => validatorBonds[v] = 0

\* A bond that is neither burned nor taken home has paid at most one penalty for
\* every candidate that is closed.
BondedInv ==
    /\ used \in SUBSET Candidates /\ Locked \subseteq used
    /\ validatorBonds \in [Validators -> Int]
    /\ \A v \in Validators \ Gone : Untouched(v, Cardinality(Closed))

ObligedInv == SafetyInv /\ GoneInv /\ BondedInv

\* No more candidates are closed than there are.
LEMMA ClosedFinite ==
  ASSUME BondedInv
  PROVE  Closed \in SUBSET Candidates /\ IsFiniteSet(Closed) /\ Cardinality(Closed) \in Nat
         /\ Cardinality(Closed) <= Cardinality(Candidates)
  BY SafetyConstants, FS_Subset, FS_CardinalityType DEF BondedInv, Closed

\* At genesis every bond is whole.
LEMMA ObligedInit == Init => ObligedInv
<1>. SUFFICES ASSUME Init PROVE GoneInv /\ BondedInv
  BY InitInv DEF ObligedInv
<1>1. Closed = {} /\ Cardinality(Closed) = 0
  BY FS_EmptySet DEF Init, Closed
<1>2. MinBond \in Int /\ SlashedTimes[0][MinBond] = MinBond
  BY SafetyConstants, SlashUnfolds
<1>3. QED
  BY <1>1, <1>2 DEF Init, GoneInv, Gone, BondedInv, Untouched, Locked

\* A step of a validator, or one that closes no candidate.
LEMMA BondsKept ==
  ASSUME ObligedInv, used' \in SUBSET Candidates, Locked' \subseteq used', Closed \subseteq Closed', IsFiniteSet(Closed'),
         Gone \subseteq Gone', validatorBonds' \in [Validators -> Int],
         \A v \in Validators \ Gone' : validatorBonds'[v] = validatorBonds[v]
  PROVE  BondedInv'
<1>1. Cardinality(Closed) \in Nat /\ Cardinality(Closed') \in Nat /\ Cardinality(Closed) <= Cardinality(Closed')
  BY ClosedFinite, FS_Subset, FS_CardinalityType DEF ObligedInv
<1>2. ASSUME NEW v \in Validators \ Gone'
      PROVE  Untouched(v, Cardinality(Closed))'
  <2>1. PICK k \in 0..Cardinality(Closed) : validatorBonds[v] = SlashedTimes[k][MinBond]
    BY DEF ObligedInv, BondedInv, Untouched
  <2>2. k \in 0..Cardinality(Closed')
    BY <1>1
  <2>3. validatorBonds'[v] = SlashedTimes[k][MinBond]
    BY <2>1
  <2>4. QED
    BY <2>2, <2>3 DEF Untouched
<1>3. QED
  BY <1>2 DEF BondedInv

\* The block end closes every candidate it charges a bond for.
LEMMA EndCharges ==
  ASSUME ObligedInv, NEW leaving, EndBlock(leaving)
  PROVE  GoneInv' /\ BondedInv'
<1>. DEFINE faults == {c \in Locked : Faulted(c)}
            refunds == faults \ fallback
            charges(v) == {c \in faults : v \in candidateBonds[c].commits \ candidateBonds[c].reveals}
<1>1. /\ UNCHANGED <<used, disabledValidators, retiredValidators>> /\ Gone' = Gone
      /\ candidateBonds' = [c \in Candidates |->
               IF c \in refunds THEN None
               ELSE IF c \in Locked /\ (Revealed(c) \/ c \in faults)
                    THEN [candidateBonds[c] EXCEPT !.committee = TRUE]
               ELSE candidateBonds[c]]
      /\ DOMAIN validatorBonds' = Validators
      /\ \A v \in Validators : validatorBonds'[v] =
             IF charges(v) = {} THEN validatorBonds[v]
             ELSE SlashedTimes[Cardinality(charges(v))][validatorBonds[v]]
      /\ nonRevealers' = nonRevealers \union {v \in Validators : charges(v) # {}}
  BY DEF EndBlock, Gone
<1>2. Locked \in SUBSET used /\ used \in SUBSET Candidates /\ Locked' \in SUBSET Locked
  BY <1>1 DEF ObligedInv, BondedInv, Locked
<1>3. \A c \in Locked : [candidateBonds[c] EXCEPT !.committee = TRUE].committee
  BY DEF ObligedInv, SafetyInv, CandidateInv, Locked
<1>4. faults \cap Closed = {} /\ faults \cup Closed \subseteq Closed'
  <2>1. faults \cap Closed = {}
    BY DEF Faulted, Closed, Locked
  <2>2. ASSUME NEW c \in faults PROVE c \in Closed'
    <3>1. c \in used' /\ c \in Candidates /\ c \in Locked
      BY <1>1, <1>2
    <3>2. candidateBonds'[c] = None \/ candidateBonds'[c].committee
      <4>. HIDE DEF refunds, faults
      <4>. QED BY <1>1, <1>3, <2>2, <3>1
    <3>3. QED
      BY <3>1, <3>2 DEF Closed
  <2>3. ASSUME NEW c \in Closed PROVE c \in Closed'
    <3>1. c \in used' /\ c \in Candidates /\ (candidateBonds[c] = None \/ candidateBonds[c].committee)
      BY <1>1, <1>2 DEF Closed
    <3>2. candidateBonds'[c] = None \/ candidateBonds'[c].committee
      <4>. HIDE DEF refunds, faults
      <4>. QED BY <1>1, <1>3, <3>1 DEF Locked
    <3>3. QED
      BY <3>1, <3>2 DEF Closed
  <2>4. QED
    BY <2>1, <2>2, <2>3
<1>5. /\ IsFiniteSet(faults) /\ Cardinality(faults) \in Nat
      /\ IsFiniteSet(Closed) /\ Cardinality(Closed) \in Nat
      /\ IsFiniteSet(Closed') /\ Cardinality(Closed') \in Nat
  <2>1. Closed' \in SUBSET Candidates /\ faults \in SUBSET Candidates
    BY <1>1, <1>2 DEF Closed
  <2>2. QED
    BY <2>1, SafetyConstants, FS_Subset, FS_CardinalityType, ClosedFinite DEF ObligedInv
<1>6. Cardinality(faults) + Cardinality(Closed) <= Cardinality(Closed')
  <2>1. IsFiniteSet(faults \cup Closed) /\ Cardinality(faults \cup Closed) <= Cardinality(Closed')
    BY <1>4, <1>5, FS_Subset
  <2>. HIDE DEF faults
  <2>2. Cardinality(faults \cup Closed) = Cardinality(faults) + Cardinality(Closed)
    <3>1. Cardinality(faults \cup Closed) = Cardinality(faults) + Cardinality(Closed) - Cardinality(faults \cap Closed)
      BY <1>5, FS_Union
    <3>2. Cardinality(faults \cap Closed) = 0
      BY <1>4, FS_EmptySet
    <3>3. QED
      BY <3>1, <3>2, <1>5
  <2>3. QED
    BY <2>1, <2>2
<1>7. ASSUME NEW v \in Validators
       PROVE  LET n == Cardinality(charges(v))
              IN  n \in Nat /\ n <= Cardinality(faults) /\ (charges(v) = {} <=> n = 0)
  <2>1. charges(v) \in SUBSET faults
    OBVIOUS
  <2>. HIDE DEF faults, charges
  <2>2. QED
    BY <1>5, <2>1, FS_Subset, FS_CardinalityType, FS_EmptySet
<1>8. ASSUME NEW v \in Validators
       PROVE  /\ validatorBonds'[v] \in Int /\ validatorBonds'[v] <= validatorBonds[v]
              /\ charges(v) = {} => validatorBonds'[v] = validatorBonds[v]
  <2>. HIDE DEF faults, charges
  <2>1. validatorBonds[v] \in Int
    BY DEF ObligedInv, BondedInv
  <2>2. Cardinality(charges(v)) \in Nat
    BY <1>7
  <2>3. LET b == SlashedTimes[Cardinality(charges(v))][validatorBonds[v]]
        IN  b \in Int /\ b <= validatorBonds[v]
    BY <2>1, <2>2, SlashUnfolds, SlashTakes
  <2>4. QED
    BY <1>1, <2>1, <2>3
<1>9. GoneInv'
  <2>1. ASSUME NEW v \in retiredValidators PROVE charges(v) = {}
    BY DEF ObligedInv, SafetyInv, ExitInv, Unrevealed
  <2>2. ASSUME NEW v \in retiredValidators PROVE validatorBonds'[v] = 0
    <3>. HIDE DEF charges
    <3>. QED BY <1>8, <2>1 DEF ObligedInv, GoneInv, SafetyInv
  <2>3. ASSUME NEW v \in disabledValidators
        PROVE  validatorBonds'[v] <= 0 /\ (v \notin nonRevealers' => validatorBonds'[v] = 0)
    <3>1. v \in Validators /\ validatorBonds[v] \in Int /\ validatorBonds[v] <= 0
          /\ (v \notin nonRevealers => validatorBonds[v] = 0)
      BY DEF ObligedInv, GoneInv, BondedInv
    <3>. HIDE DEF charges
    <3>2. QED
      BY <1>1, <1>8, <3>1
  <2>4. QED
    BY <1>1, <2>2, <2>3 DEF ObligedInv, GoneInv
<1>10. ASSUME NEW v \in Validators \ Gone'
      PROVE  Untouched(v, Cardinality(Closed))'
  <2>. DEFINE n == Cardinality(charges(v))
  <2>1. n \in Nat /\ n <= Cardinality(faults) /\ (charges(v) = {} <=> n = 0)
    BY <1>7
  <2>2. PICK k \in 0..Cardinality(Closed) : validatorBonds[v] = SlashedTimes[k][MinBond]
    BY <1>1 DEF ObligedInv, BondedInv, Untouched
  <2>. DEFINE bond == SlashedTimes[k][MinBond]
  <2>3. bond \in Int /\ MinBond \in Int /\ k \in Nat
    BY SafetyConstants, SlashUnfolds
  <2>4. validatorBonds'[v] = SlashedTimes[n][bond]
    <3>1. validatorBonds'[v] = IF charges(v) = {} THEN bond ELSE SlashedTimes[n][bond]
      BY <1>1, <2>2
    <3>2. SlashedTimes[0][bond] = bond
      BY <2>3, SlashUnfolds
    <3>. HIDE DEF charges, bond, n
    <3>3. QED
      BY <2>1, <3>1, <3>2
  <2>5. SlashedTimes[n][bond] = SlashedTimes[n + k][MinBond]
    <3>. HIDE DEF n
    <3>. QED BY <2>1, <2>3, SlashAdds
  <2>6. n + k \in 0..Cardinality(Closed')
    <3>. HIDE DEF n, faults
    <3>. QED BY <1>5, <1>6, <2>1
  <2>7. QED
    <3>. HIDE DEF n, bond
    <3>. QED BY <2>4, <2>5, <2>6 DEF Untouched
<1>11. validatorBonds' \in [Validators -> Int]
  <2>. HIDE DEF charges, faults
  <2>. QED BY <1>8 DEF EndBlock
<1>12. QED
  BY <1>1, <1>2, <1>10, <1>9, <1>11 DEF BondedInv

\* Every step keeps the account of the penalties.
LEMMA ObligedStep == ObligedInv /\ [Next]_vars => ObligedInv'
<1>. SUFFICES ASSUME ObligedInv, [Next]_vars PROVE GoneInv' /\ BondedInv'
  BY SafetyStep DEF ObligedInv
<1>. DEFINE Stays == /\ \A v \in Validators \ Gone' : validatorBonds'[v] = validatorBonds[v]
                     /\ validatorBonds' \in [Validators -> Int]
                     /\ Gone \subseteq Gone' /\ GoneInv'
            Opens == /\ used' \in SUBSET Candidates /\ Locked' \subseteq used' /\ Closed \subseteq Closed'
<1>0. ASSUME Stays, Opens PROVE GoneInv' /\ BondedInv'
  <2>1. Closed' \in SUBSET Candidates
    BY <1>0 DEF Closed
  <2>2. IsFiniteSet(Closed')
    BY <2>1, SafetyConstants, FS_Subset
  <2>3. QED
    BY <1>0, <2>2, BondsKept
<1>11. UNCHANGED <<validatorBonds, disabledValidators, retiredValidators, nonRevealers>> => Stays
  BY DEF ObligedInv, BondedInv, GoneInv, Gone
<1>12. UNCHANGED <<candidateBonds, used>> => Opens
  BY DEF ObligedInv, BondedInv, Closed, Locked
<1>1. CASE UNCHANGED vars
  BY <1>1, <1>0, <1>11, <1>12 DEF vars
<1>2. CASE \E c \in Candidates : verifySafetyClaim(c)
  <2>1. PICK c \in Candidates : verifySafetyClaim(c)
    BY <1>2
  <2>2. Opens
    BY <2>1 DEF verifySafetyClaim, ObligedInv, BondedInv, SafetyInv, CandidateInv, Closed, Locked
  <2>3. QED
    BY <1>0, <1>11, <2>1, <2>2 DEF verifySafetyClaim
<1>3. CASE \E c \in Candidates : applyCandidateBond(c)
  <2>1. PICK c \in Candidates : applyCandidateBond(c)
    BY <1>3
  <2>2. Opens
    BY <2>1 DEF applyCandidateBond, ObligedInv, BondedInv, SafetyInv, CandidateInv, Closed, Locked
  <2>3. QED
    BY <1>0, <1>11, <2>1, <2>2 DEF applyCandidateBond
<1>4. CASE \E c \in Candidates : verifyFallbackBeacon(c)
  BY <1>4, <1>0, <1>11, <1>12 DEF verifyFallbackBeacon
<1>5. CASE \E v \in Validators : applyValidatorEquivocation(v)
  <2>1. PICK v \in Validators : applyValidatorEquivocation(v)
    BY <1>5
  <2>2. /\ validatorBonds' = [validatorBonds EXCEPT ![v] = 0]
        /\ disabledValidators' = disabledValidators \union {v}
        /\ UNCHANGED <<retiredValidators, nonRevealers>> /\ v \notin retiredValidators
    BY <2>1, SafetyConstants DEF applyValidatorEquivocation, ObligedInv, GoneInv, BondedInv
  <2>3. Stays
    BY <2>2 DEF ObligedInv, BondedInv, GoneInv, Gone
  <2>4. QED
    BY <2>1, <1>0, <1>12, <2>3 DEF applyValidatorEquivocation
<1>6. CASE \E v \in Validators : applyValidatorExitRequest(v)
  BY <1>6, <1>0, <1>11, <1>12 DEF applyValidatorExitRequest
<1>7. CASE \E v \in Validators : applyValidatorWithdrawalClaim(v)
  <2>1. PICK v \in Validators : applyValidatorWithdrawalClaim(v)
    BY <1>7
  <2>2. /\ validatorBonds' = [validatorBonds EXCEPT ![v] = 0]
        /\ disabledValidators' = disabledValidators \ {v}
        /\ retiredValidators' = retiredValidators \union {v}
        /\ nonRevealers' = nonRevealers
    BY <2>1 DEF applyValidatorWithdrawalClaim
  <2>3. Stays
    BY <2>2 DEF ObligedInv, BondedInv, GoneInv, Gone
  <2>4. QED
    BY <2>1, <1>0, <1>12, <2>3 DEF applyValidatorWithdrawalClaim
<1>8. CASE \E c \in Candidates, v \in Validators : RandomnessCommit(c, v) \/ RandomnessReveal(c, v)
  <2>1. PICK c \in Candidates, v \in Validators : RandomnessCommit(c, v) \/ RandomnessReveal(c, v)
    BY <1>8
  <2>2. /\ candidateBonds' = [candidateBonds EXCEPT ![c].commits = @ \union {v}]
           \/ candidateBonds' = [candidateBonds EXCEPT ![c].reveals = @ \union {v}]
        /\ c \in Locked
        /\ UNCHANGED <<validatorBonds, disabledValidators, retiredValidators, nonRevealers, used>>
    BY <2>1 DEF RandomnessCommit, RandomnessReveal
  <2>3. Opens
    BY <2>2 DEF ObligedInv, BondedInv, SafetyInv, CandidateInv, Closed, Locked
  <2>4. QED
    BY <1>0, <1>11, <2>2, <2>3
<1>9. CASE \E v \in Validators : EndBlock({}) \/ EndBlock({v})
  BY <1>9, EndCharges
<1>10. QED
  BY <1>1, <1>2, <1>3, <1>4, <1>5, <1>6, <1>7, <1>8, <1>9 DEF Next

\* The account of the penalties is kept by every step.
THEOREM ObligedInvariant == Spec => []ObligedInv
<1>1. Init => ObligedInv
  BY ObligedInit
<1>2. ObligedInv /\ [Next]_vars => ObligedInv'
  BY ObligedStep
<1>3. QED
  BY <1>1, <1>2, PTL DEF Spec

\* A bond that outlasts one penalty for every candidate there will ever be, and
\* is neither burned nor taken home, is never used up.
LEMMA BondLasts ==
  ASSUME SlashedTimes[Cardinality(Candidates)][MinBond] > 0, ObligedInv, NEW v \in Validators \ Gone
  PROVE  validatorBonds[v] > 0
<1>1. PICK k \in 0..Cardinality(Closed) : validatorBonds[v] = SlashedTimes[k][MinBond]
  BY DEF ObligedInv, BondedInv, Untouched
<1>. DEFINE n == Cardinality(Candidates)
<1>2. n \in Nat /\ k \in 0..n /\ MinBond \in Int
  BY ClosedFinite, SafetyConstants, FS_CardinalityType DEF ObligedInv
<1>3. SlashedTimes[n][MinBond] <= SlashedTimes[k][MinBond] /\ SlashedTimes[n][MinBond] \in Int
      /\ SlashedTimes[k][MinBond] \in Int
  BY <1>2, FewerLeaveMore, SlashUnfolds
<1>4. QED
  BY <1>1, <1>3

\* When a bond outlasts one penalty for every candidate there will ever be, no
\* validator that owes a reveal has taken its bond home: at any time it has
\* lost it by a slash, which disables it, or some of it is left.
THEOREM ObligedAreBondedHolds ==
  ASSUME SlashedTimes[Cardinality(Candidates)][MinBond] > 0
  PROVE  Spec => []ObligedAreBonded
<1>1. ObligedInv => ObligedAreBonded
  <2>. SUFFICES ASSUME ObligedInv, NEW v \in Validators, Unrevealed(v), v \notin disabledValidators
       PROVE validatorBonds[v] > 0
    BY DEF ObligedAreBonded
  <2>1. v \notin retiredValidators
    BY DEF ObligedInv, SafetyInv, ExitInv
  <2>2. QED
    BY <2>1, BondLasts DEF Gone
<1>2. QED
  BY <1>1, ObligedInvariant, PTL

\* With such bonds, fromVerifiedSnapshot accepts the candidate bonds, the pending
\* exits and the validator bonds of every state between two blocks, except while
\* a validator that was slashed and then charged for a missed reveal is registered.
THEOREM SafetySnapshotRestoresHolds ==
  ASSUME SlashedTimes[Cardinality(Candidates)][MinBond] > 0
  PROVE  Spec => []SafetySnapshotRestores
<1>1. ObligedInv => SafetySnapshotRestores
  <2>. SUFFICES ASSUME ObligedInv, phase = "claims", ~ChargedAfterSlash
       PROVE /\ \A c \in Locked : restoredCandidate(c)
             /\ \A v \in Validators : exits[v] # None => restoredExit(v)
             /\ \A v \in Validators : restoredBond(v)
    BY DEF SafetySnapshotRestores
  <2>1. \A c \in Locked : restoredCandidate(c)
    BY DEF ObligedInv, SafetyInv, CandidateInv, restoredCandidate
  <2>2. ASSUME NEW v \in Validators, exits[v] # None PROVE restoredExit(v)
    <3>1. /\ v \notin retiredValidators /\ (exits[v].unlockHeight = 0 <=> v \in validators)
          /\ exits[v].unlockHeight < height + WithdrawalDelay /\ ~ Unrevealed(v)
      BY <2>2 DEF ObligedInv, SafetyInv, ExitInv
    <3>2. validatorBonds[v] > 0 \/ v \in disabledValidators
      BY <3>1, BondLasts DEF Gone
    <3>3. QED
      BY <3>1, <3>2 DEF restoredExit, Unrevealed, hasPendingValidatorRandomnessObligation
  <2>3. ASSUME NEW v \in Validators PROVE restoredBond(v)
    <3>1. validatorBonds[v] \in Int
      BY DEF ObligedInv, BondedInv
    <3>2. CASE v \in disabledValidators
      BY <3>1, <3>2 DEF ObligedInv, GoneInv, ChargedAfterSlash, restoredBond
    <3>3. CASE v \in retiredValidators
      BY <3>3 DEF ObligedInv, GoneInv, restoredBond
    <3>4. CASE v \notin Gone
      BY <3>1, <3>4, BondLasts DEF Gone, restoredBond
    <3>5. QED
      BY <3>2, <3>3, <3>4 DEF Gone
  <2>4. QED
    BY <2>1, <2>2, <2>3
<1>2. QED
  BY <1>1, ObligedInvariant, PTL
=============================================================================
