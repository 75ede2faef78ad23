------------------------ MODULE OperatorEventsProofs ------------------------
(***************************************************************************)
(* Proofs about OperatorEvents, for any events, deadlines and bounds.      *)
(***************************************************************************)
EXTENDS OperatorEvents, TLAPS

Blocks == [events : SUBSET Events, txs : SUBSET Txs]
Staged == [events : Batches, expectedHeight : Nat]
Fates == {"included", "expired", "unknown"}

\* The files and the history variables keep their types.
TypeOK ==
    /\ chain \in Seq(Blocks)
    /\ height \in Nat /\ height <= Len(chain) /\ base \in Nat
    /\ journal \in SUBSET Staged /\ accepted \in SUBSET Staged
    /\ crashes \in Nat

\* The journal holds one batch, of the block after one that the replica had, and
\* the ledger found it valid then.
JournalOne == \A s, t \in journal : s = t
JournalValid ==
    \A s \in journal :
        s.expectedHeight >= 1 /\ s.expectedHeight <= height + 1
        /\ EventsValid(s.events, s.expectedHeight - 1)

\* With the pending transactions as they have arrived, the batch of the next
\* height forms a valid block.
PoolValid == \A s \in journal : s.expectedHeight = height + 1 => NoncesFollow(pool, height)

\* An outcome has a fate for every event of a batch, and a height of the past.
OutcomeFormed(o, h) ==
    /\ o.entries \in [DOMAIN o.entries -> Fates] /\ DOMAIN o.entries \in Batches
    /\ o.expectedHeight \in 1..h
OutcomesFormed == \A o \in outcome \cup reported : OutcomeFormed(o, height)

EventsInv ==
    /\ TypeOK /\ JournalOne /\ JournalValid /\ PoolValid /\ OutcomesFormed
    /\ BatchAccounted /\ OutcomeTruthful

-----------------------------------------------------------------------------
(* The operators                                                           *)

\* An outcome of a block that the replica has tells what the block holds.
LEMMA OutcomeOfStaged ==
  ASSUME TypeOK, NEW s \in Staged, NEW h \in Nat, NEW b \in Nat, h <= Len(chain)
  PROVE  LET o == OutcomeOf(s, h, b)
         IN  /\ o.expectedHeight = s.expectedHeight
             /\ DOMAIN o.entries = s.events /\ o.entries \in [s.events -> Fates]
             /\ \A e \in s.events :
                   /\ o.entries[e] = "included" => e \in chain[s.expectedHeight].events
                   /\ o.entries[e] = "expired" => e \notin chain[s.expectedHeight].events
BY DEF OutcomeOf, operatorEventEntryOutcomes, Staged, Fates

\* Whether a batch, or the pending transactions, are valid at a height depends on
\* the blocks up to it.
LEMMA ValidAtPast ==
  ASSUME chain \in Seq(Blocks), NEW b \in SUBSET Events, NEW h \in Nat, h <= Len(chain),
         NEW x \in Blocks, chain' = Append(chain, x), EventsValid(b, h)
  PROVE  EventsValid(b, h)'
BY DEF EventsValid

LEMMA NoncesFollowPast ==
  ASSUME chain \in Seq(Blocks), height \in Nat, height <= Len(chain), NEW x \in Blocks,
         chain' = Append(chain, x), pool' = pool, height' = height, NoncesFollow(pool, height)
  PROVE  NoncesFollow(pool, height)'
<1>1. \A k \in 1..height : chain'[k] = chain[k]
  OBVIOUS
<1>2. \A a : Used(a, height)' = Used(a, height)
  BY <1>1 DEF Used
<1>3. \A t, before : Follows(t, height, before)' <=> Follows(t, height, before)
  BY <1>2 DEF Follows
<1> QED
  BY <1>3 DEF NoncesFollow

\* A batch that is not the next one is of a block that the replica now has.
LEMMA StaleIsPast ==
  ASSUME TypeOK, JournalValid, NEW h \in Nat, h >= height, NEW s \in Stale(h)
  PROVE  s \in journal /\ s \in Staged /\ s.expectedHeight \in 1..h
BY DEF Stale, TypeOK, JournalValid, Staged

-----------------------------------------------------------------------------
(* pruneOperatorEvents and a stop inside it                                *)

\* What a step that prunes at height h keeps, once height' = h.
LEMMA PruneStep ==
  ASSUME EventsInv, NEW h \in Nat, NEW b \in Nat, h >= height, h <= Len(chain), height' = h,
         chain' = chain, accepted' = accepted,
         pruneOperatorEvents(h, b) \/ pruneCrash(h, b) \/ UNCHANGED <<journal, outcome, reported>>
  PROVE  /\ journal' \in SUBSET Staged /\ JournalOne' /\ JournalValid' /\ OutcomesFormed'
         /\ BatchAccounted' /\ OutcomeTruthful'
<1> USE DEF EventsInv
<1> DEFINE result == {OutcomeOf(s, h, b) : s \in Stale(h)}
<1>1. /\ journal' = journal \/ (journal' = {} /\ Stale(h) # {} /\ reported' = reported \cup result)
      /\ \/ outcome' = outcome /\ reported' = reported
         \/ outcome' = result /\ reported' = reported \cup result
  BY DEF pruneOperatorEvents, pruneCrash
<1>2. journal' \in SUBSET Staged /\ JournalOne'
  BY <1>1 DEF TypeOK, JournalOne
<1>3. JournalValid'
  BY <1>1 DEF TypeOK, JournalValid, EventsValid, Staged
<1>4. \A o \in result : OutcomeFormed(o, h)
  <2> SUFFICES ASSUME NEW s \in Stale(h) PROVE OutcomeFormed(OutcomeOf(s, h, b), h)
    OBVIOUS
  <2>1. s \in Staged /\ s.expectedHeight \in 1..h  BY StaleIsPast
  <2>2. s.events \in Batches  BY <2>1 DEF Staged
  <2> QED  BY <2>1, <2>2, OutcomeOfStaged DEF OutcomeFormed
<1>5. OutcomesFormed'
  <2>1. \A o \in outcome \cup reported : OutcomeFormed(o, h)
    BY DEF OutcomesFormed, OutcomeFormed, TypeOK
  <2> QED  BY <2>1, <1>1, <1>4 DEF OutcomesFormed
<1>6. BatchAccounted'
  <2> SUFFICES ASSUME NEW a \in accepted, a \notin journal'
               PROVE  \E o \in reported' : o.expectedHeight = a.expectedHeight
                                           /\ DOMAIN o.entries = a.events
    BY DEF BatchAccounted
  <2>1. CASE a \notin journal
    BY <2>1, <1>1 DEF BatchAccounted
  <2>2. CASE a \in journal
    <3>1. a \in Stale(h) /\ a \in Staged /\ reported' = reported \cup result
      BY <2>2, <1>1 DEF Stale, JournalOne, TypeOK
    <3>2. OutcomeOf(a, h, b) \in reported'  BY <3>1
    <3> QED  BY <3>1, <3>2, OutcomeOfStaged
  <2> QED  BY <2>1, <2>2
<1>7. OutcomeTruthful'
  <2> SUFFICES ASSUME NEW o \in result, NEW e \in DOMAIN o.entries
               PROVE  /\ o.entries[e] = "included" => e \in chain[o.expectedHeight].events
                      /\ o.entries[e] = "expired" => e \notin chain[o.expectedHeight].events
    BY <1>1 DEF OutcomeTruthful
  <2>1. PICK s \in Stale(h) : o = OutcomeOf(s, h, b)  OBVIOUS
  <2>2. s \in Staged  BY StaleIsPast
  <2> QED  BY <2>1, <2>2, OutcomeOfStaged
<1> QED  BY <1>2, <1>3, <1>5, <1>6, <1>7

-----------------------------------------------------------------------------
(* The steps                                                               *)

LEMMA EventsInit == Init => EventsInv
BY DEF Init, EventsInv, TypeOK, JournalOne, JournalValid, PoolValid, OutcomesFormed,
       BatchAccounted, OutcomeTruthful

LEMMA StageStep ==
  ASSUME EventsInv, NEW b \in Batches, stageOperatorEvents(b) \/ StageCrash(b)
  PROVE  EventsInv'
<1> USE DEF EventsInv
<1>1. /\ journal = {} /\ EventsValid(b, height) /\ NoncesFollow(pool, height)
      /\ UNCHANGED <<chain, height, base, outcome, pool, reported>>
      /\ journal' = {[events |-> b, expectedHeight |-> height + 1]}
      /\ accepted' \in {accepted, accepted \cup journal'}
      /\ crashes' \in Nat
  BY DEF stageOperatorEvents, StageCrash, CanStage, ValidAt, TypeOK
<1>2. [events |-> b, expectedHeight |-> height + 1] \in Staged  BY DEF Staged, TypeOK
<1>3. TypeOK' /\ JournalOne'
  BY <1>1, <1>2 DEF TypeOK, JournalOne
<1>4. JournalValid'
  BY <1>1 DEF JournalValid, EventsValid, TypeOK
<1>5. OutcomesFormed' /\ OutcomeTruthful'
  BY <1>1 DEF OutcomesFormed, OutcomeFormed, OutcomeTruthful
<1>6. BatchAccounted'
  BY <1>1 DEF BatchAccounted
<1>7. PoolValid'
  <2>1. NoncesFollow(pool, height)'  BY <1>1 DEF NoncesFollow, Follows, Used
  <2> QED  BY <2>1 DEF PoolValid
<1> QED  BY <1>3, <1>4, <1>5, <1>6, <1>7

\* A transaction is taken only if it forms a valid block with the staged batch.
LEMMA SubmitStep ==
  ASSUME EventsInv, NEW t \in Txs, submitTransaction(t)
  PROVE  EventsInv'
<1> USE DEF EventsInv
<1>1. /\ NoncesFollow(Append(pool, t), height) /\ pool' = Append(pool, t)
      /\ UNCHANGED <<chain, height, base, journal, outcome, accepted, reported, crashes>>
  BY DEF submitTransaction, ValidAt
<1>2. NoncesFollow(pool, height)'
  BY <1>1 DEF NoncesFollow, Follows, Used
<1>3. PoolValid'
  BY <1>2 DEF PoolValid
<1>4. TypeOK' /\ JournalOne' /\ JournalValid' /\ OutcomesFormed' /\ BatchAccounted' /\ OutcomeTruthful'
  BY <1>1 DEF TypeOK, JournalOne, JournalValid, EventsValid, OutcomesFormed, OutcomeFormed,
              BatchAccounted, OutcomeTruthful
<1> QED  BY <1>3, <1>4

\* The process stops: the files are as they were.
LEMMA CrashStep ==
  ASSUME EventsInv, Crash
  PROVE  EventsInv'
<1> USE DEF EventsInv
<1>1. crashes' \in Nat /\ UNCHANGED <<chain, height, base, journal, outcome, pool, accepted, reported>>
  BY EventConstants DEF Crash, TypeOK
<1>2. NoncesFollow(pool, height)' <=> NoncesFollow(pool, height)
  BY <1>1 DEF NoncesFollow, Follows, Used
<1> QED
  BY <1>1, <1>2 DEF TypeOK, JournalOne, JournalValid, PoolValid, EventsValid, OutcomesFormed, OutcomeFormed,
              BatchAccounted, OutcomeTruthful

LEMMA FinalizeStep ==
  ASSUME EventsInv, Finalize
  PROVE  EventsInv'
<1> USE DEF EventsInv
<1>1. PICK x \in Blocks : chain' = Append(chain, x)  BY DEF Finalize, Blocks
<1>2. UNCHANGED <<height, base, journal, outcome, pool, up, accepted, reported, crashes>>
  BY DEF Finalize
<1>3. \A k \in 1..Len(chain) : chain'[k] = chain[k]  BY <1>1 DEF TypeOK
<1>4. TypeOK' /\ JournalOne' /\ OutcomesFormed' /\ BatchAccounted'
  BY <1>1, <1>2 DEF TypeOK, JournalOne, OutcomesFormed, OutcomeFormed, BatchAccounted
<1>5. JournalValid'
  <2> SUFFICES ASSUME NEW s \in journal PROVE EventsValid(s.events, s.expectedHeight - 1)'
    BY <1>2 DEF JournalValid
  <2>1. s.events \in SUBSET Events /\ s.expectedHeight \in Nat  BY DEF TypeOK, Staged, Batches
  <2>2. s.expectedHeight - 1 \in Nat /\ s.expectedHeight - 1 <= Len(chain)
    BY <2>1 DEF JournalValid, TypeOK
  <2> QED  BY <2>1, <2>2, <1>1, ValidAtPast DEF JournalValid, TypeOK
<1>6. OutcomeTruthful'
  BY <1>2, <1>3 DEF OutcomeTruthful, OutcomesFormed, OutcomeFormed, TypeOK
<1>7. PoolValid'
  BY <1>1, <1>2, NoncesFollowPast DEF PoolValid, TypeOK
<1> QED  BY <1>4, <1>5, <1>6, <1>7

\* commit, installSnapshot, Restart and a stop inside a commit all follow the
\* finalized chain to a height h and prune there.
LEMMA FollowStep ==
  ASSUME EventsInv,
         \/ commit \/ CommitCrash \/ Restart
         \/ \E target \in 1..MaxHeight : installSnapshot(target)
  PROVE  EventsInv'
<1> USE DEF EventsInv
<1>1. PICK h \in Nat, b \in Nat :
        /\ h >= height /\ h <= Len(chain) /\ height' = h
        /\ pruneOperatorEvents(h, b) \/ pruneCrash(h, b) \/ UNCHANGED <<journal, outcome, reported>>
  <2>1. CASE commit \/ CommitCrash
    <3>1. height + 1 \in Nat /\ base \in Nat /\ height + 1 >= height  BY DEF TypeOK
    <3> QED  BY <2>1, <3>1 DEF commit, CommitCrash, TypeOK
  <2>2. CASE Restart
    <3>1. height \in Nat /\ base \in Nat /\ height >= height  BY DEF TypeOK
    <3> QED  BY <2>2, <3>1 DEF Restart, TypeOK
  <2>3. ASSUME NEW target \in 1..MaxHeight, installSnapshot(target)
        PROVE  /\ target \in Nat /\ target >= height /\ target <= Len(chain) /\ height' = target
               /\ pruneOperatorEvents(target, target)
    BY <2>3, EventConstants DEF installSnapshot, TypeOK
  <2> QED  BY <2>1, <2>2, <2>3
<1>2. chain' = chain /\ accepted' = accepted /\ base' \in Nat /\ crashes' \in Nat
  BY EventConstants DEF commit, CommitCrash, Restart, installSnapshot, TypeOK
<1>3. /\ journal' \in SUBSET Staged /\ JournalOne' /\ JournalValid' /\ OutcomesFormed'
      /\ BatchAccounted' /\ OutcomeTruthful'
  BY <1>1, <1>2, PruneStep
<1>4. TypeOK'  BY <1>1, <1>2, <1>3 DEF TypeOK
<1>5. PoolValid'
  <2>1. CASE Restart
    \* The constructor has validated the batch with the transactions it has loaded.
    <3>1. ASSUME NEW s \in journal', s.expectedHeight = height + 1 PROVE NoncesFollow(Reloaded, height)
      <4>1. s \in journal /\ Stale(height) = {}
        BY <2>1, <3>1 DEF Restart, pruneOperatorEvents
      <4> QED  BY <4>1, <2>1 DEF Restart, Starts, ValidAt
    <3>2. /\ pool' = Reloaded /\ height' = height /\ chain' = chain
      BY <2>1 DEF Restart
    <3>3. ASSUME NEW R, pool' = R, NoncesFollow(R, height) PROVE NoncesFollow(pool, height)'
      BY <3>2, <3>3 DEF NoncesFollow, Follows, Used
    <3> QED  BY <3>1, <3>2, <3>3 DEF PoolValid
  <2>2. CASE ~Restart
    \* The batch is not the one of the height after.
    <3>1. height' >= height + 1 /\ height' \in Nat
      BY <2>2, EventConstants DEF commit, CommitCrash, installSnapshot, TypeOK
    <3>2. journal' \subseteq journal
      BY <1>1 DEF pruneOperatorEvents, pruneCrash
    <3>3. \A s \in journal : s.expectedHeight # height' + 1
      BY <3>1 DEF JournalValid, TypeOK, Staged
    <3> QED  BY <3>2, <3>3 DEF PoolValid
  <2> QED  BY <2>1, <2>2
<1> QED  BY <1>3, <1>4, <1>5

LEMMA EventsStep == EventsInv /\ [Next]_vars => EventsInv'
<1> SUFFICES ASSUME EventsInv, [Next]_vars PROVE EventsInv'
  OBVIOUS
<1>1. CASE UNCHANGED vars
  <2>1. NoncesFollow(pool, height)' <=> NoncesFollow(pool, height)
    BY <1>1 DEF vars, NoncesFollow, Follows, Used
  <2> QED
    BY <1>1, <2>1 DEF vars, EventsInv, TypeOK, JournalOne, JournalValid, PoolValid, EventsValid,
              OutcomesFormed, OutcomeFormed, BatchAccounted, OutcomeTruthful
<1>2. CASE Next
  BY <1>2, StageStep, SubmitStep, CrashStep, FinalizeStep, FollowStep DEF Next
<1> QED  BY <1>1, <1>2

THEOREM EventsInvariant == Spec => []EventsInv
BY EventsInit, EventsStep, PTL DEF Spec

-----------------------------------------------------------------------------
(* What it gives                                                           *)

\* An accepted batch is in the journal or an outcome for its height and events
\* was written, wherever and however often the process stopped.
THEOREM BatchAccountedHolds == Spec => []BatchAccounted
BY EventsInvariant, PTL DEF EventsInv

\* No outcome claims what the finalized chain contradicts.
THEOREM OutcomeTruthfulHolds == Spec => []OutcomeTruthful
BY EventsInvariant, PTL DEF EventsInv

\* What the constructor of a replica checks holds of the outcome file and the
\* journal that the replica has left behind, whenever it has stopped, with its
\* pending transactions in the order in which they have arrived: it is only
\* their reloading in another order that can make it refuse the start.
THEOREM ValidAsArrivedHolds == Spec => []ValidAsArrived
<1>1. EventsInv => ValidAsArrived
  <2> SUFFICES ASSUME EventsInv PROVE ValidAsArrived
    OBVIOUS
  <2>1. \A o \in outcome : WellFormedOutcome(o)
    BY DEF EventsInv, OutcomesFormed, OutcomeFormed, WellFormedOutcome, Fates, TypeOK
  <2>2. ASSUME Stale(height) = {}, NEW s \in journal PROVE ValidAt(s.events, pool, height)
    <3>1. s.expectedHeight = height + 1  BY <2>2 DEF Stale
    <3>2. s.expectedHeight - 1 = height  BY <3>1 DEF EventsInv, TypeOK
    <3> QED  BY <3>1, <3>2 DEF EventsInv, JournalValid, PoolValid, ValidAt
  <2> QED  BY <2>1, <2>2 DEF ValidAsArrived
<1> QED  BY <1>1, EventsInvariant, PTL

\* And so the start succeeds whenever the order of the hashes is an order in
\* which the pending transactions are valid.
THEOREM StartsInOrder == Spec => [](NoncesFollow(Reloaded, height) => Starts)
<1>1. ValidAsArrived => (NoncesFollow(Reloaded, height) => Starts)
  BY DEF ValidAsArrived, Starts, ValidAt
<1> QED  BY <1>1, ValidAsArrivedHolds, PTL
=============================================================================
