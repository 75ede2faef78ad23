---------------------------- MODULE ProofMining ----------------------------
(***************************************************************************)
(* Network tasks of blockchain/proof-mining-state.mjs as #applyBlock of    *)
(* blockchain/chain.mjs drives them: tasks issued by beacon rounds, hidden *)
(* answers, reveals, the winner of a task, the level of the next tasks,    *)
(* and rewards that are minted into escrow and mature.  Time is counted in *)
(* blocks.  A commitment is named by its task and its miner; a revealed    *)
(* answer is always a right one, others are refused.                       *)
(***************************************************************************)
EXTENDS Integers, Sequences, FiniteSets, FiniteSetsExt, SequencesExt, TLC

CONSTANTS
    Miners, MaxRound,
    RevealDelay, RevealWindow, CommitBond, MaxOpenTasks, MaxCommitsPerTask, MaxPendingRewards,
    Window, TargetTime, Expiry, InitialLevel, MinLevel, MaxLevel,   \* PROOF_DIFFICULTY_V1
    RewardInterval,      \* MIN_REWARD_INTERVAL_MS
    RewardLimit,         \* MAX_PROGRESS_REWARDS_PER_BLOCK
    EscrowDelay,         \* PROGRESS_REWARD_ESCROW_DELAY_BLOCKS
    EpochReward, HalvingInterval, Pool,
    Funds, MaxTx, MaxHeight

ASSUME MiningConstants == MaxRound \in Nat /\ Expiry \in Nat

None == [none |-> TRUE]
Rounds == 1..MaxRound

VARIABLES
    height, open, txs,
    round,           \* rounds finalized so far
    level, tasks,    \* tasks[r]: None or [issued, closes, status, solved]
    commits,         \* commits[<<r, m>>]: None or [at, idx, revealed]
    pendingRewards,  \* sequence of <<r, m>>
    escrows,         \* escrows[r]: None or [amount, unlock]
    epoch, lastReward, mined, balances, burned,
    submitted,       \* every commitment made, as <<c, at, idx>> (history)
    forfeited,       \* those whose window passed without a reveal (history)
    won              \* those that solved their task (history)

task == <<level, tasks, commits, pendingRewards>>
reward == <<escrows, epoch, lastReward, mined>>
vars == <<height, open, txs, round, task, reward, balances, burned, submitted, forfeited, won>>

Answers == Rounds \X Miners
Init ==
    /\ height = 0 /\ open = FALSE /\ txs = 0 /\ round = 0
    /\ level = InitialLevel /\ tasks = [r \in Rounds |-> None] /\ commits = [c \in Answers |-> None]
    /\ pendingRewards = <<>> /\ escrows = [r \in Rounds |-> None]
    /\ epoch = 0 /\ lastReward = 0 /\ mined = 0 /\ balances = Funds /\ burned = 0
    /\ submitted = {} /\ forfeited = {} /\ won = {}

Kept == {r \in Rounds : tasks[r] # None}
OpenTasks == {r \in Kept : tasks[r].status = "open"}
Submitted == {c \in Answers : commits[c] # None}
earlier(c, d) == commits[c].at < commits[d].at \/ (commits[c].at = commits[d].at /\ commits[c].idx < commits[d].idx)

-----------------------------------------------------------------------------
(* Before the transactions                                                 *)

\* A finalized beacon round issues a task unless too many are open.
issueProofTask(h) ==
    IF Cardinality(OpenTasks) >= MaxOpenTasks THEN tasks
    ELSE [tasks EXCEPT ![round + 1] = [issued |-> h, closes |-> h + Expiry, status |-> "open", solved |-> 0]]

scheduledEpochBudget == EpochReward \div 2^(epoch \div HalvingInterval)
budget == Min({scheduledEpochBudget, Pool - mined})

IssuesRewards(h) == pendingRewards # <<>> /\ h >= lastReward + RewardInterval
Taken == SubSeq(pendingRewards, 1, Min({RewardLimit, Len(pendingRewards)}))

\* allocateProgressRewards with equal scores: the remainder goes one by one
\* to the first fingerprints.  It throws when the budget is zero.
allocate(i) == budget \div Len(Taken) + (IF i <= budget % Len(Taken) THEN 1 ELSE 0)

\* Matured rewards are paid, new ones wait in escrow; empty shares are dropped.
escrowProofRewards(h) ==
    [r \in Rounds |-> IF \E i \in DOMAIN Taken : Taken[i][1] = r /\ allocate(i) > 0
                      THEN [amount |-> allocate(CHOOSE i \in DOMAIN Taken : Taken[i][1] = r), unlock |-> h + EscrowDelay]
                      ELSE IF escrows[r] # None /\ h >= escrows[r].unlock THEN None ELSE escrows[r]]

matureProofRewards(h) ==
    SumFunction([r \in Rounds |-> IF escrows[r] # None /\ h >= escrows[r].unlock THEN escrows[r].amount ELSE 0])

StartBlock(finalizesRound) ==
    LET h == height + 1 IN
    /\ ~open /\ height < MaxHeight /\ (finalizesRound => round < MaxRound)
    /\ height' = h /\ open' = TRUE /\ txs' = 0
    /\ round' = IF finalizesRound THEN round + 1 ELSE round
    /\ tasks' = IF finalizesRound THEN issueProofTask(h) ELSE tasks
    /\ balances' = balances + matureProofRewards(h)
    /\ IF IssuesRewards(h)
       THEN /\ budget > 0
            /\ escrows' = escrowProofRewards(h)
            /\ pendingRewards' = SubSeq(pendingRewards, Len(Taken) + 1, Len(pendingRewards))
            /\ mined' = mined + budget /\ epoch' = epoch + 1 /\ lastReward' = h
       ELSE /\ escrows' = [r \in Rounds |-> IF escrows[r] # None /\ h >= escrows[r].unlock THEN None ELSE escrows[r]]
            /\ UNCHANGED <<pendingRewards, mined, epoch, lastReward>>
    /\ UNCHANGED <<level, commits, burned, submitted, forfeited, won>>

-----------------------------------------------------------------------------
(* Transactions                                                            *)

Transaction ==
    /\ open /\ txs < MaxTx /\ txs' = txs + 1
    /\ UNCHANGED <<height, open, round, level, tasks, pendingRewards, reward, burned, forfeited, won>>

applyProofAnswerCommit(c) ==
    /\ Transaction /\ c \notin Submitted
    /\ c[1] \in OpenTasks /\ height <= tasks[c[1]].closes
    /\ Cardinality({d \in Submitted : d[1] = c[1]}) < MaxCommitsPerTask
    /\ balances >= CommitBond /\ balances' = balances - CommitBond
    /\ commits' = [commits EXCEPT ![c] = [at |-> height, idx |-> txs, revealed |-> FALSE]]
    /\ submitted' = submitted \union {<<c, height, txs>>}

applyProofAnswerReveal(c) ==
    /\ Transaction /\ c \in Submitted /\ ~commits[c].revealed /\ c[1] \in OpenTasks
    /\ height >= commits[c].at + RevealDelay /\ height <= commits[c].at + RevealWindow
    /\ commits' = [commits EXCEPT ![c].revealed = TRUE]
    /\ UNCHANGED <<balances, submitted>>

-----------------------------------------------------------------------------
(* After the transactions                                                  *)

\* Not revealed in time: the bond is charged.
Withheld == {c \in Submitted : ~commits[c].revealed /\ height >= commits[c].at + RevealWindow}
AnswersOf(r) == {c \in Submitted \ Withheld : c[1] = r}

\* Mutant: the first revealed answer wins although an earlier one may come.
FirstRevealed(r, c) == c \in AnswersOf(r) /\ commits[c].revealed /\ \A d \in AnswersOf(r) \ {c} : commits[d].revealed => earlier(c, d)

\* The earliest revealed answer wins once no earlier one is pending.
Wins(r, c) == c \in AnswersOf(r) /\ commits[c].revealed /\ \A d \in AnswersOf(r) \ {c} : earlier(c, d)
Solved == {r \in OpenTasks : \E c \in Answers : Wins(r, c)}
Winner(r) == CHOOSE c \in Answers : Wins(r, c)

Expired == {r \in OpenTasks \ Solved : AnswersOf(r) = {} /\ height > tasks[r].closes}

Closed == [r \in Rounds |->
    IF r \in Solved THEN [tasks[r] EXCEPT !.status = "solved", !.solved = commits[Winner(r)].at]
    ELSE IF r \in Expired THEN [tasks[r] EXCEPT !.status = "expired"] ELSE tasks[r]]

\* Solve times in ascending order; expired and late ones sort last.
solveTime(t) == IF t.status = "solved" /\ t.solved - t.issued <= Expiry THEN t.solved - t.issued ELSE Expiry + 1
\* Half of a window is allowed to be late before the level drops.
Median(rs) == LET times == SetToSortSeq({<<solveTime(Closed[r]), r>> : r \in rs}, LAMBDA a, b : a[1] < b[1] \/ (a[1] = b[1] /\ a[2] < b[2]))
              IN times[(Window - 1) \div 2 + 1][1]

nextSearchLevel(l, rs) ==
    LET m == Median(rs)
        next == IF m > Expiry \/ m > 4 * TargetTime THEN l - 2
                ELSE IF m > 2 * TargetTime THEN l - 1
                ELSE IF m * 4 <= TargetTime THEN l + 2
                ELSE IF m * 2 <= TargetTime THEN l + 1 ELSE l
    IN  Min({MaxLevel, Max({MinLevel, next})})

\* The oldest Window tasks of a set, and whether they are all closed.
Oldest(rs) == CHOOSE o \in kSubset(Window, rs) : \A r \in o, s \in rs \ o : r < s
Complete(rs) == Cardinality(rs) >= Window /\ \A r \in Oldest(rs) : Closed[r].status # "open"

\* The loop drops complete windows in issue order, one level change each.
Retarget ==
    LET loop[rs \in SUBSET Rounds, l \in Int] ==
            IF Complete(rs) THEN loop[rs \ Oldest(rs), nextSearchLevel(l, Oldest(rs))] ELSE [kept |-> rs, level |-> l]
    IN  loop[Kept, level]

\* Released when their task is solved, with their bond.
Released == {c \in Submitted \ Withheld : c[1] \in Solved}

endProofMiningBlock ==
    LET winning == SetToSortSeq({Winner(r) : r \in Solved}, LAMBDA a, b : a[1] < b[1])
        burn == {c \in Withheld : c[1] \in OpenTasks}
        refund == (Withheld \ burn) \union Released
    IN
    /\ open /\ Len(pendingRewards) + Len(winning) <= MaxPendingRewards
    /\ pendingRewards' = pendingRewards \o winning
    /\ level' = Retarget.level
    /\ tasks' = [r \in Rounds |-> IF r \in Retarget.kept THEN Closed[r] ELSE None]
    /\ commits' = [c \in Answers |-> IF c \in Withheld \/ c[1] \in Solved THEN None ELSE commits[c]]
    /\ balances' = balances + CommitBond * Cardinality(refund)
    /\ burned' = burned + CommitBond * Cardinality(burn)
    /\ forfeited' = forfeited \union {<<c, commits[c].at, commits[c].idx>> : c \in Withheld}
    /\ won' = won \union {<<Winner(r), commits[Winner(r)].at, commits[Winner(r)].idx>> : r \in Solved}
    /\ open' = FALSE /\ txs' = 0
    /\ UNCHANGED <<height, round, reward, submitted>>

Next ==
    \/ \E b \in BOOLEAN : StartBlock(b)
    \/ \E c \in Answers : applyProofAnswerCommit(c) \/ applyProofAnswerReveal(c)
    \/ endProofMiningBlock

Spec == Init /\ [][Next]_vars

-----------------------------------------------------------------------------
(* Properties                                                              *)

TypeOK ==
    /\ height \in 0..MaxHeight /\ open \in BOOLEAN /\ txs \in 0..MaxTx /\ round \in 0..MaxRound
    /\ level \in MinLevel..MaxLevel /\ Len(pendingRewards) <= MaxPendingRewards
    /\ balances \in Nat /\ burned \in Nat /\ mined \in 0..Pool

\* Every unit is a balance, a locked bond, an escrowed reward or burned: a
\* bond is returned or burned exactly once, a reward is minted and paid once.
ProofConserved ==
    balances + CommitBond * Cardinality(Submitted) + burned
        + SumFunction([r \in Rounds |-> IF escrows[r] = None THEN 0 ELSE escrows[r].amount]) = Funds + mined

\* The miner who committed first wins: whatever was committed to a task
\* before the winning answer let its reveal window pass.
EarliestWins ==
    \A w \in won, s \in submitted :
        /\ s[1][1] = w[1][1]
        /\ s[2] < w[2] \/ (s[2] = w[2] /\ s[3] < w[3])
        => s \in forfeited

\* No bond is locked behind a task that can no longer be decided: every
\* commitment belongs to a stored open task.
CommitsOpen == ~open => \A c \in Submitted : c[1] \in OpenTasks

\* Every task is decided: it is closed at the latest one reveal window after
\* its last moment for commitments, whatever the miners withhold.
TaskCloses == ~open => \A r \in OpenTasks : height < tasks[r].closes + RevealWindow

=============================================================================
