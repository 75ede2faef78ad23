-------------------------- MODULE ProofMiningProofs --------------------------
(***************************************************************************)
(* Who wins a network task in module ProofMining, for any number of tasks  *)
(* and miners, any delays and any limits.                                  *)
(***************************************************************************)
EXTENDS ProofMining, TLAPS

Tasks == [issued : Nat, closes : Nat, status : {"open", "solved", "expired"}, solved : Nat]
Commitments == [at : Nat, idx : Nat, revealed : BOOLEAN]

\* The variables that decide a task keep their types.
TypeInv ==
    /\ height \in Nat /\ txs \in Nat /\ round \in 0..MaxRound
    /\ tasks \in [Rounds -> {None} \cup Tasks]
    /\ commits \in [Answers -> {None} \cup Commitments]
    /\ submitted \subseteq Answers \X Nat \X Nat
    /\ won \subseteq Answers \X Nat \X Nat

\* A task comes with its round, and nobody commits to one before.
RoundInv ==
    /\ \A r \in OpenTasks : r <= round
    /\ \A s \in submitted : s[1][1] <= round
    /\ \A w \in won : w[1][1] <= round

\* A commitment still stands as it was made, or was forfeited, or its task is
\* closed for good.
SubmittedInv ==
    \A s \in submitted :
        \/ s \in forfeited
        \/ s[1] \in Submitted /\ commits[s[1]].at = s[2] /\ commits[s[1]].idx = s[3]
        \/ s[1][1] \notin OpenTasks

\* A task with a winner is not open again.
WonInv == \A w \in won : w[1][1] \notin OpenTasks

MiningInv == TypeInv /\ RoundInv /\ SubmittedInv /\ WonInv /\ EarliestWins

-----------------------------------------------------------------------------
(* Facts about records                                                     *)

LEMMA Records == None \notin Tasks /\ None \notin Commitments
  BY DEF None, Tasks, Commitments

\* A task with an earliest revealed answer has a winner.
LEMMA WinnerWins ==
  ASSUME NEW r \in Solved
  PROVE  Winner(r) \in Answers /\ Wins(r, Winner(r))
<1>1. \E c \in Answers : Wins(r, c)
  BY DEF Solved
<1>2. QED
  BY <1>1, Zenon DEF Winner

-----------------------------------------------------------------------------
(* The steps                                                               *)

LEMMA InitInv == Init => MiningInv
  BY MiningConstants DEF Init, MiningInv, TypeInv, RoundInv, SubmittedInv, WonInv, EarliestWins,
     Rounds, OpenTasks, Kept

\* Steps that leave the record of winners and commitments alone and open no
\* task that was issued before.
LEMMA Frame ==
  ASSUME MiningInv, TypeInv',
         UNCHANGED <<commits, submitted, forfeited, won>>,
         round' >= round,
         \A r \in OpenTasks' : r \in OpenTasks \/ (r > round /\ r <= round')
  PROVE  MiningInv'
<1>1. RoundInv'
  BY DEF MiningInv, TypeInv, RoundInv, OpenTasks, Kept, Rounds, Answers
<1>2. SubmittedInv'
  BY DEF MiningInv, TypeInv, RoundInv, SubmittedInv, Submitted, Answers, Rounds
<1>3. WonInv'
  BY DEF MiningInv, TypeInv, RoundInv, WonInv, Answers, Rounds
<1>4. EarliestWins'
  BY DEF MiningInv, EarliestWins
<1>5. QED
  BY <1>1, <1>2, <1>3, <1>4 DEF MiningInv

LEMMA StartStep ==
  ASSUME MiningInv, NEW b \in BOOLEAN, StartBlock(b)
  PROVE  MiningInv'
<1>1. CASE UNCHANGED <<round, tasks>>
  <2>1. TypeInv'
    BY <1>1 DEF StartBlock, MiningInv, TypeInv, Answers, Rounds
  <2>2. OpenTasks' = OpenTasks
    BY <1>1 DEF OpenTasks, Kept
  <2>3. QED
    BY <1>1, <2>1, <2>2, Frame DEF StartBlock, MiningInv, TypeInv
<1>2. CASE round' = round + 1 /\ tasks' = tasks
  <2>1. round < MaxRound
    BY <1>2 DEF StartBlock, MiningInv, TypeInv
  <2>2. TypeInv'
    BY <1>2, <2>1, MiningConstants DEF StartBlock, MiningInv, TypeInv, Answers, Rounds
  <2>3. OpenTasks' = OpenTasks
    BY <1>2 DEF OpenTasks, Kept
  <2>4. QED
    BY <1>2, <2>2, <2>3, Frame DEF StartBlock, MiningInv, TypeInv
<1>3. CASE /\ round' = round + 1
           /\ tasks' = [tasks EXCEPT ![round + 1] = [issued |-> height + 1, closes |-> height + 1 + Expiry,
                                                     status |-> "open", solved |-> 0]]
  <2>1. round < MaxRound /\ round + 1 \in Rounds
    BY <1>3, MiningConstants DEF StartBlock, MiningInv, TypeInv, Rounds
  <2>2. [issued |-> height + 1, closes |-> height + 1 + Expiry, status |-> "open", solved |-> 0] \in Tasks
    BY MiningConstants DEF MiningInv, TypeInv, Tasks
  <2>3. TypeInv'
    <3>1. /\ height' = height + 1 /\ txs' = 0
          /\ UNCHANGED <<commits, submitted, won>>
      BY DEF StartBlock
    <3>2. tasks' \in [Rounds -> {None} \cup Tasks]
      BY <1>3, <2>1, <2>2 DEF MiningInv, TypeInv
    <3>3. round' \in 0..MaxRound
      BY <1>3, <2>1, MiningConstants DEF MiningInv, TypeInv
    <3>4. QED
      BY <3>1, <3>2, <3>3 DEF MiningInv, TypeInv, Answers, Rounds
  <2>4. \A r \in OpenTasks' : r \in OpenTasks \/ r = round + 1
    BY <1>3 DEF OpenTasks, Kept, MiningInv, TypeInv
  <2>5. QED
    BY <1>3, <2>3, <2>4, Frame DEF StartBlock, MiningInv, TypeInv
<1>4. QED
  BY <1>1, <1>2, <1>3 DEF StartBlock, issueProofTask

LEMMA CommitStep ==
  ASSUME MiningInv, NEW c \in Answers, applyProofAnswerCommit(c)
  PROVE  MiningInv'
<1>1. /\ c \notin Submitted /\ c[1] \in OpenTasks
      /\ commits' = [commits EXCEPT ![c] = [at |-> height, idx |-> txs, revealed |-> FALSE]]
      /\ submitted' = submitted \union {<<c, height, txs>>}
      /\ UNCHANGED <<height, round, tasks, forfeited, won>> /\ txs' = txs + 1
  BY DEF applyProofAnswerCommit, Transaction
<1>2. [at |-> height, idx |-> txs, revealed |-> FALSE] \in Commitments
  BY DEF MiningInv, TypeInv, Commitments
<1>3. TypeInv'
  BY <1>1, <1>2 DEF MiningInv, TypeInv, Rounds, Answers
<1>4. OpenTasks' = OpenTasks
  BY <1>1 DEF OpenTasks, Kept
<1>5. /\ \A d \in Answers : d # c => commits'[d] = commits[d]
      /\ commits'[c] # None /\ commits'[c].at = height /\ commits'[c].idx = txs
  BY <1>1, <1>2, Records DEF MiningInv, TypeInv
<1>6. \A s \in submitted' : s \in submitted \/ s = <<c, height, txs>>
  BY <1>1
<1>7. RoundInv'
  BY <1>1, <1>4, <1>6 DEF MiningInv, TypeInv, RoundInv
<1>8. SubmittedInv'
  <2>. SUFFICES ASSUME NEW s \in submitted', s \notin forfeited, s[1][1] \in OpenTasks
       PROVE s[1] \in Submitted' /\ commits'[s[1]].at = s[2] /\ commits'[s[1]].idx = s[3]
    BY <1>1, <1>4 DEF SubmittedInv
  <2>1. CASE s = <<c, height, txs>>
    BY <2>1, <1>5 DEF Submitted
  <2>2. CASE s \in submitted
    <3>1. s[1] \in Submitted /\ commits[s[1]].at = s[2] /\ commits[s[1]].idx = s[3]
      BY <2>2 DEF MiningInv, SubmittedInv
    <3>2. QED
      BY <3>1, <1>1, <1>5 DEF Submitted
  <2>3. QED
    BY <2>1, <2>2, <1>6
<1>9. WonInv'
  BY <1>1, <1>4 DEF MiningInv, WonInv
<1>10. EarliestWins'
  <2>. SUFFICES ASSUME NEW w \in won, NEW s \in submitted', s[1][1] = w[1][1],
                       s[2] < w[2] \/ (s[2] = w[2] /\ s[3] < w[3])
       PROVE s \in forfeited
    BY <1>1 DEF EarliestWins
  <2>1. s # <<c, height, txs>>
    BY <1>1 DEF MiningInv, WonInv
  <2>2. QED
    BY <2>1, <1>6 DEF MiningInv, EarliestWins
<1>11. QED
  BY <1>3, <1>7, <1>8, <1>9, <1>10 DEF MiningInv

LEMMA RevealStep ==
  ASSUME MiningInv, NEW c \in Answers, applyProofAnswerReveal(c)
  PROVE  MiningInv'
<1>1. /\ c \in Submitted
      /\ commits' = [commits EXCEPT ![c].revealed = TRUE]
      /\ UNCHANGED <<height, round, tasks, submitted, forfeited, won>> /\ txs' = txs + 1
  BY DEF applyProofAnswerReveal, Transaction
<1>2. ASSUME NEW r \in Commitments
      PROVE  LET q == [r EXCEPT !.revealed = TRUE]
             IN  q \in Commitments /\ q.at = r.at /\ q.idx = r.idx
  BY DEF Commitments
<1>3. commits[c] \in Commitments
  BY <1>1 DEF MiningInv, TypeInv, Submitted
<1>4. commits' = [commits EXCEPT ![c] = [commits[c] EXCEPT !.revealed = TRUE]]
  BY <1>1
<1>5. \A d \in Answers : /\ commits'[d] = None <=> commits[d] = None
                         /\ commits'[d] \in {None} \cup Commitments
                         /\ commits[d] # None => commits'[d].at = commits[d].at /\ commits'[d].idx = commits[d].idx
  BY <1>2, <1>3, <1>4, Records DEF MiningInv, TypeInv
<1>6. TypeInv'
  <2>1. commits' \in [Answers -> {None} \cup Commitments]
    BY <1>2, <1>3, <1>4 DEF MiningInv, TypeInv
  <2>2. QED
    BY <1>1, <2>1 DEF MiningInv, TypeInv, Answers, Rounds
<1>7. OpenTasks' = OpenTasks
  BY <1>1 DEF OpenTasks, Kept
<1>8. RoundInv' /\ WonInv' /\ EarliestWins'
  BY <1>1, <1>7 DEF MiningInv, RoundInv, WonInv, EarliestWins
<1>9. SubmittedInv'
  BY <1>1, <1>5, <1>7 DEF MiningInv, SubmittedInv, Submitted
<1>10. QED
  BY <1>6, <1>8, <1>9 DEF MiningInv

\* What the end of a block does to tasks and commitments.
LEMMA EndFacts ==
  ASSUME MiningInv, endProofMiningBlock
  PROVE  /\ \A r \in Rounds : tasks'[r] \in {None, Closed[r]}
         /\ tasks' \in [Rounds -> {None} \cup Tasks]
         /\ OpenTasks' \subseteq OpenTasks \ Solved
         /\ commits' \in [Answers -> {None} \cup Commitments]
         /\ \A c \in Submitted : c \notin Withheld /\ c[1] \notin Solved => commits'[c] = commits[c]
<1>1. tasks' = [r \in Rounds |-> IF r \in Retarget.kept THEN Closed[r] ELSE None]
  BY DEF endProofMiningBlock
<1>2. commits' = [c \in Answers |-> IF c \in Withheld \/ c[1] \in Solved THEN None ELSE commits[c]]
  BY DEF endProofMiningBlock
<1>3. Solved \subseteq OpenTasks /\ OpenTasks \subseteq Rounds /\ Expired \subseteq OpenTasks
  BY DEF Solved, Expired, OpenTasks, Kept
<1>4. \A r \in OpenTasks : tasks[r] \in Tasks /\ tasks[r].status = "open"
  BY DEF MiningInv, TypeInv, OpenTasks, Kept
<1>5. \A r \in Solved : commits[Winner(r)] \in Commitments
  BY WinnerWins DEF Wins, AnswersOf, Submitted, MiningInv, TypeInv
<1>6. ASSUME NEW t \in Tasks, NEW a \in Nat
      PROVE  /\ [t EXCEPT !.status = "solved", !.solved = a] \in Tasks
             /\ [t EXCEPT !.status = "solved", !.solved = a].status # "open"
             /\ [t EXCEPT !.status = "expired"] \in Tasks
             /\ [t EXCEPT !.status = "expired"].status # "open"
  BY DEF Tasks
<1>7. \A r \in Rounds :
         Closed[r] = IF r \in Solved THEN [tasks[r] EXCEPT !.status = "solved", !.solved = commits[Winner(r)].at]
                     ELSE IF r \in Expired THEN [tasks[r] EXCEPT !.status = "expired"] ELSE tasks[r]
  BY DEF Closed
<1>8. \A r \in Solved : commits[Winner(r)].at \in Nat
  BY <1>5 DEF Commitments
<1>9. \A r \in Rounds : /\ Closed[r] \in {None} \cup Tasks
                        /\ r \in Solved => Closed[r].status # "open"
                        /\ r \notin OpenTasks => Closed[r] = tasks[r]
  <2>. SUFFICES ASSUME NEW r \in Rounds
       PROVE /\ Closed[r] \in {None} \cup Tasks
             /\ r \in Solved => Closed[r].status # "open"
             /\ r \notin OpenTasks => Closed[r] = tasks[r]
    OBVIOUS
  <2>1. CASE r \in Solved
    <3>1. tasks[r] \in Tasks /\ commits[Winner(r)].at \in Nat
      BY <2>1, <1>3, <1>4, <1>8
    <3>2. Closed[r] = [tasks[r] EXCEPT !.status = "solved", !.solved = commits[Winner(r)].at]
      BY <2>1, <1>7
    <3>3. Closed[r] \in Tasks /\ Closed[r].status # "open"
      BY <3>1, <3>2, <1>6
    <3>4. QED
      BY <2>1, <3>3, <1>3
  <2>2. CASE r \notin Solved /\ r \in Expired
    BY <2>2, <1>3, <1>4, <1>6, <1>7
  <2>3. CASE r \notin Solved /\ r \notin Expired
    BY <2>3, <1>7 DEF MiningInv, TypeInv
  <2>4. QED
    BY <2>1, <2>2, <2>3
<1>10. OpenTasks' \subseteq OpenTasks \ Solved
  <2>. SUFFICES ASSUME NEW r \in OpenTasks' PROVE r \in OpenTasks /\ r \notin Solved
    OBVIOUS
  <2>1. r \in Rounds /\ tasks'[r] # None /\ tasks'[r].status = "open"
    BY DEF OpenTasks, Kept
  <2>2. tasks'[r] = Closed[r]
    BY <2>1, <1>1
  <2>3. r \notin Solved
    BY <2>1, <2>2, <1>9
  <2>4. r \in OpenTasks
    BY <2>1, <2>2, <1>9 DEF OpenTasks, Kept
  <2>5. QED
    BY <2>3, <2>4
<1>11. QED
  <2>1. commits' \in [Answers -> {None} \cup Commitments]
    BY <1>2 DEF MiningInv, TypeInv
  <2>2. \A c \in Submitted : c \notin Withheld /\ c[1] \notin Solved => commits'[c] = commits[c]
    BY <1>2 DEF Submitted
  <2>3. tasks' \in [Rounds -> {None} \cup Tasks] /\ \A r \in Rounds : tasks'[r] \in {None, Closed[r]}
    BY <1>1, <1>9
  <2>4. QED
    BY <2>1, <2>2, <2>3, <1>10

\* An earlier commitment than the winner's has been forfeited by the end of the block.
LEMMA NewWinner ==
  ASSUME MiningInv, NEW r \in Solved, NEW s \in submitted, s[1][1] = r,
         LET w == Winner(r)
         IN  s[2] < commits[w].at \/ (s[2] = commits[w].at /\ s[3] < commits[w].idx)
  PROVE  s \in forfeited \/ (s[1] \in Withheld /\ s = <<s[1], commits[s[1]].at, commits[s[1]].idx>>)
<1>. DEFINE w == Winner(r)
<1>1. /\ w \in Answers /\ commits[w] \in Commitments
      /\ \A d \in AnswersOf(r) \ {w} : earlier(w, d)
  BY WinnerWins DEF Wins, AnswersOf, Submitted, MiningInv, TypeInv
<1>. HIDE DEF w
<1>2. SUFFICES ASSUME s \notin forfeited
      PROVE s[1] \in Withheld /\ s = <<s[1], commits[s[1]].at, commits[s[1]].idx>>
  OBVIOUS
<1>3. r \in OpenTasks
  BY DEF Solved
<1>4. s[1] \in Submitted /\ commits[s[1]].at = s[2] /\ commits[s[1]].idx = s[3]
  BY <1>2, <1>3 DEF MiningInv, SubmittedInv
<1>5. s \in Answers \X Nat \X Nat
  BY DEF MiningInv, TypeInv
<1>6. s = <<s[1], s[2], s[3]>> /\ s[2] \in Nat /\ s[3] \in Nat
  BY <1>5
<1>7. s[2] < commits[w].at \/ (s[2] = commits[w].at /\ s[3] < commits[w].idx)
  BY DEF w
<1>8. commits[w].at \in Nat /\ commits[w].idx \in Nat
  BY <1>1 DEF Commitments
<1>9. s[1] # w /\ ~ earlier(w, s[1])
  BY <1>4, <1>6, <1>7, <1>8 DEF earlier
<1>10. s[1] \in Withheld
  BY <1>1, <1>4, <1>9 DEF AnswersOf
<1>11. QED
  BY <1>4, <1>6, <1>10

LEMMA EndStep ==
  ASSUME MiningInv, endProofMiningBlock
  PROVE  MiningInv'
<1>. DEFINE winners == {<<Winner(r), commits[Winner(r)].at, commits[Winner(r)].idx>> : r \in Solved}
<1>1. /\ forfeited' = forfeited \union {<<c, commits[c].at, commits[c].idx>> : c \in Withheld}
      /\ won' = won \union winners
      /\ UNCHANGED <<height, round, submitted>> /\ txs' = 0
  BY DEF endProofMiningBlock
<1>2. \A r \in Solved : /\ r \in OpenTasks /\ Winner(r) \in Answers /\ Winner(r)[1] = r
                        /\ commits[Winner(r)] \in Commitments
  BY WinnerWins DEF Wins, AnswersOf, Submitted, MiningInv, TypeInv, Solved
<1>3. \A v \in winners : \E r \in Solved :
         v[1] = Winner(r) /\ v[2] = commits[Winner(r)].at /\ v[3] = commits[Winner(r)].idx
  OBVIOUS
<1>4. winners \subseteq Answers \X Nat \X Nat
  BY <1>2 DEF Commitments
<1>5. \A v \in winners : v[1][1] \in Solved
  BY <1>2, <1>3
<1>. HIDE DEF winners
<1>6. TypeInv'
  BY <1>1, <1>4, EndFacts DEF MiningInv, TypeInv, Answers, Rounds
<1>7. RoundInv'
  BY <1>1, <1>2, <1>5, EndFacts DEF MiningInv, RoundInv
<1>8. WonInv'
  BY <1>1, <1>5, EndFacts DEF MiningInv, WonInv
<1>9. SubmittedInv'
  <2>. SUFFICES ASSUME NEW s \in submitted, s \notin forfeited', s[1][1] \in OpenTasks'
       PROVE s[1] \in Submitted' /\ commits'[s[1]].at = s[2] /\ commits'[s[1]].idx = s[3]
    BY <1>1 DEF SubmittedInv
  <2>1. s[1][1] \in OpenTasks /\ s[1][1] \notin Solved /\ s \notin forfeited
    BY <1>1, EndFacts
  <2>2. s[1] \in Submitted /\ commits[s[1]].at = s[2] /\ commits[s[1]].idx = s[3]
    BY <2>1 DEF MiningInv, SubmittedInv
  <2>3. s = <<s[1], s[2], s[3]>>
    BY DEF MiningInv, TypeInv
  <2>4. s[1] \notin Withheld
    BY <1>1, <2>2, <2>3
  <2>5. commits'[s[1]] = commits[s[1]]
    BY <2>1, <2>2, <2>4, EndFacts
  <2>6. QED
    BY <2>2, <2>5 DEF Submitted
<1>10. EarliestWins'
  <2>. SUFFICES ASSUME NEW v \in won', NEW s \in submitted, s[1][1] = v[1][1],
                       s[2] < v[2] \/ (s[2] = v[2] /\ s[3] < v[3])
       PROVE s \in forfeited'
    BY <1>1 DEF EarliestWins
  <2>1. CASE v \in won
    BY <2>1, <1>1 DEF MiningInv, EarliestWins
  <2>2. CASE v \in winners
    <3>1. PICK r \in Solved :
             v[1] = Winner(r) /\ v[2] = commits[Winner(r)].at /\ v[3] = commits[Winner(r)].idx
      BY <2>2, <1>3
    <3>2. s[1][1] = r
      BY <3>1, <1>2
    <3>3. s \in forfeited \/ (s[1] \in Withheld /\ s = <<s[1], commits[s[1]].at, commits[s[1]].idx>>)
      BY <3>1, <3>2, NewWinner
    <3>4. QED
      BY <3>3, <1>1
  <2>3. QED
    BY <2>1, <2>2, <1>1
<1>11. QED
  BY <1>6, <1>7, <1>8, <1>9, <1>10 DEF MiningInv

LEMMA MiningStep == MiningInv /\ [Next]_vars => MiningInv'
<1>. SUFFICES ASSUME MiningInv, [Next]_vars PROVE MiningInv'
  OBVIOUS
<1>1. CASE UNCHANGED vars
  <2>1. OpenTasks' = OpenTasks
    BY <1>1 DEF vars, task, OpenTasks, Kept
  <2>2. TypeInv'
    BY <1>1 DEF vars, task, MiningInv, TypeInv, Answers, Rounds
  <2>3. QED
    BY <1>1, <2>1, <2>2, Frame DEF vars, task, MiningInv, TypeInv
<1>2. CASE \E b \in BOOLEAN : StartBlock(b)
  BY <1>2, StartStep
<1>3. CASE \E c \in Answers : applyProofAnswerCommit(c)
  BY <1>3, CommitStep
<1>4. CASE \E c \in Answers : applyProofAnswerReveal(c)
  BY <1>4, RevealStep
<1>5. CASE endProofMiningBlock
  BY <1>5, EndStep
<1>6. QED
  BY <1>1, <1>2, <1>3, <1>4, <1>5 DEF Next

-----------------------------------------------------------------------------
(* The theorems                                                            *)

\* Commitments, forfeits, open tasks and winners stay in step through commits,
\* reveals, expiries and commitments that are made again.
THEOREM MiningInvariant == Spec => []MiningInv
<1>1. Init => MiningInv
  BY InitInv
<1>2. MiningInv /\ [Next]_vars => MiningInv'
  BY MiningStep
<1>3. QED
  BY <1>1, <1>2, PTL DEF Spec

\* The earliest commitment to a task wins it, unless its reveal came too late.
THEOREM EarliestWinsHolds == Spec => []EarliestWins
<1>1. MiningInv => EarliestWins
  BY DEF MiningInv
<1>2. QED
  BY <1>1, MiningInvariant, PTL
=============================================================================
