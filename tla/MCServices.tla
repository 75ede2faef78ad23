----------------------------- MODULE MCServices -----------------------------
(* What must come to happen: a coordinator makes the transactions final    *)
(* that it has accepted, a replica settles the operator events it has      *)
(* staged, and no process of a readiness cohort outlives it. A behaviour is*)
(* a behaviour of one of them.                                             *)
EXTENDS OperatorEvents, Integers, FiniteSets, Sequences

VARIABLES part,   \* the component that this behaviour is about
    chain1, pool1, relay, acked, session, peer, attempts, lost, crashes1, step, state, closing,
    terminal, target, previousUpdates, inbox, cut, child, refused, hung, control, status,
    previousUpdate, adopting, request, response, pending, query, work, operations, keyed, expired,
    installed, updates, faults, mode, now, sched, replay, calls, catchup

suiteVars == <<part,
    chain, height, base, journal, outcome, pool, up, accepted, reported, crashes, chain1, pool1,
    relay, acked, session, peer, attempts, lost, crashes1, step, state, closing, terminal, target,
    previousUpdates, inbox, cut, child, refused, hung, control, status, previousUpdate, adopting,
    request, response, pending, query, work, operations, keyed, expired, installed, updates, faults,
    mode, now, sched, replay, calls, catchup>>

\* Timeout requests in a circle: who asks, who is asked, whose health it then asks for.
TimeoutCalls == {<<1, 2, 3>>, <<2, 3, 1>>, <<3, 1, 2>>, <<1, 3, 2>>}
\* The second event is valid at the first height only.
Deadlines == [e \in {"e1", "e2"} |-> IF e = "e1" THEN 2 ELSE 1]
\* Two transactions of one sender: the hash of the first stands before the hash of
\* one that may follow it, and after the hash of another.
Transfers == {[id |-> 2, sender |-> "a", nonce |-> 0], [id |-> 1, sender |-> "a", nonce |-> 1],
              [id |-> 3, sender |-> "a", nonce |-> 1]}

-----------------------------------------------------------------------------
\* Four validators, two transactions, one produceBlock at a time.
CO == INSTANCE Coordinator WITH
    Validators <- 0..3, Txs <- {"t1", "t2"}, Sessions <- {"s1"}, MaxRound <- 1, MaxAttempts <- 2,
    MaxLost <- 0, MaxCrashes <- 0, InOrder <- TRUE, chain <- chain1, pool <- pool1, crashes <-
    crashes1
CoordInit ==
    /\ part = "coordinator" /\ CO!Init /\ Init /\ step = 0 /\ state = 0 /\ closing = 0
    /\ terminal = 0 /\ target = 0 /\ previousUpdates = 0 /\ inbox = 0 /\ cut = 0 /\ child = 0
    /\ refused = 0 /\ hung = 0 /\ control = 0 /\ status = 0 /\ previousUpdate = 0 /\ adopting = 0
    /\ request = 0 /\ response = 0 /\ pending = 0 /\ query = 0 /\ work = 0 /\ operations = 0
    /\ keyed = 0 /\ expired = 0 /\ installed = 0 /\ updates = 0 /\ faults = 0 /\ mode = 0 /\ now = 0
    /\ sched = 0 /\ replay = 0 /\ calls = 0 /\ catchup = 0
CoordRest == UNCHANGED <<part,
        chain, height, base, journal, outcome, pool, up, accepted, reported, crashes, step, state,
        closing, terminal, target, previousUpdates, inbox, cut, child, refused, hung, control,
        status, previousUpdate, adopting, request, response, pending, query, work, operations,
        keyed, expired, installed, updates, faults, mode, now, sched, replay, calls, catchup>>
CoordStep == part = "coordinator" /\ CO!Next /\ CoordRest
-----------------------------------------------------------------------------
\* Two events and transactions of one sender; the process may stop twice
\* between any two writes.
EventsInit ==
    /\ part = "events" /\ Init /\ chain1 = 0 /\ pool1 = 0 /\ relay = 0 /\ acked = 0 /\ session = 0
    /\ peer = 0 /\ attempts = 0 /\ lost = 0 /\ crashes1 = 0 /\ step = 0 /\ state = 0 /\ closing = 0
    /\ terminal = 0 /\ target = 0 /\ previousUpdates = 0 /\ inbox = 0 /\ cut = 0 /\ child = 0
    /\ refused = 0 /\ hung = 0 /\ control = 0 /\ status = 0 /\ previousUpdate = 0 /\ adopting = 0
    /\ request = 0 /\ response = 0 /\ pending = 0 /\ query = 0 /\ work = 0 /\ operations = 0
    /\ keyed = 0 /\ expired = 0 /\ installed = 0 /\ updates = 0 /\ faults = 0 /\ mode = 0 /\ now = 0
    /\ sched = 0 /\ replay = 0 /\ calls = 0 /\ catchup = 0
EventsRest == UNCHANGED <<part,
        chain1, pool1, relay, acked, session, peer, attempts, lost, crashes1, step, state, closing,
        terminal, target, previousUpdates, inbox, cut, child, refused, hung, control, status,
        previousUpdate, adopting, request, response, pending, query, work, operations, keyed,
        expired, installed, updates, faults, mode, now, sched, replay, calls, catchup>>
EventsStep == part = "events" /\ Next /\ EventsRest
-----------------------------------------------------------------------------
\* A readiness cohort with one fault.
RC == INSTANCE ValidatorReadiness WITH
    Challenges <- {}, ExpiresAt <- 2, MaxUpdates <- 0, MaxFaults <- 1
CohortInit ==
    /\ part = "cohort" /\ RC!Init /\ Init /\ chain1 = 0 /\ pool1 = 0 /\ relay = 0 /\ acked = 0
    /\ session = 0 /\ peer = 0 /\ attempts = 0 /\ lost = 0 /\ crashes1 = 0 /\ mode = 0 /\ now = 0
    /\ sched = 0 /\ replay = 0 /\ calls = 0 /\ catchup = 0
CohortRest == UNCHANGED <<part,
        chain, height, base, journal, outcome, pool, up, accepted, reported, crashes, chain1, pool1,
        relay, acked, session, peer, attempts, lost, crashes1, mode, now, sched, replay, calls,
        catchup>>
CohortStep == part = "cohort" /\ RC!Next /\ CohortRest
-----------------------------------------------------------------------------
\* Three validators ask one another for timeouts and for the proposer's health.
VH == INSTANCE ValidatorHttp WITH
    Modes <- {"calls"}, Identities <- {"a", "b", "c", "d"}, MaxConcurrent <- 2, MaxPerIdentity <- 1,
    MaxQueued <- 4, MaxQueuedPerIdentity <- 2, Skew <- 1, Ttl <- 2, Burst <- 2, Refill <- 1,
    MaxAddresses <- 2, MaxActive <- 2, Threshold <- 2, QuarantineTime <- 2, DecayTime <- 3, Nested
    <- TimeoutCalls, Peers <- 1..3, Faulty <- {3}, SnapshotGap <- 2, RangeLimit <- 1, MaxTime <- 5,
    MaxEntries <- 4, MaxHeight <- 2, MaxRuns <- 2, MaxOthers <- 2
HttpInit ==
    /\ part = "http" /\ VH!Init /\ Init /\ chain1 = 0 /\ pool1 = 0 /\ relay = 0 /\ acked = 0
    /\ session = 0 /\ attempts = 0 /\ lost = 0 /\ crashes1 = 0 /\ step = 0 /\ state = 0
    /\ closing = 0 /\ terminal = 0 /\ target = 0 /\ previousUpdates = 0 /\ inbox = 0 /\ cut = 0
    /\ child = 0 /\ refused = 0 /\ hung = 0 /\ status = 0 /\ previousUpdate = 0 /\ adopting = 0
    /\ request = 0 /\ response = 0 /\ pending = 0 /\ query = 0 /\ work = 0 /\ operations = 0
    /\ keyed = 0 /\ expired = 0 /\ installed = 0 /\ updates = 0 /\ faults = 0
HttpRest == UNCHANGED <<part,
        chain, height, base, journal, outcome, pool, up, accepted, reported, crashes, chain1, pool1,
        relay, acked, session, attempts, lost, crashes1, step, state, closing, terminal, target,
        previousUpdates, inbox, cut, child, refused, hung, status, previousUpdate, adopting,
        request, response, pending, query, work, operations, keyed, expired, installed, updates,
        faults>>
HttpStep == part = "http" /\ VH!Next /\ HttpRest
-----------------------------------------------------------------------------
SuiteInit ==
    \/ CoordInit
    \/ EventsInit
    \/ CohortInit
    \/ HttpInit
SuiteNext ==
    \/ CoordStep
    \/ EventsStep
    \/ CohortStep
    \/ HttpStep
SuiteSpec ==
    /\ SuiteInit /\ [][SuiteNext]_suiteVars
    /\ \A c \in TimeoutCalls : WF_suiteVars(part = "http" /\ VH!CallStep(c) /\ HttpRest)
    /\ WF_suiteVars(part = "coordinator" /\ CO!SessionStep("s1") /\ CoordRest) /\ WF_suiteVars(part = "coordinator" /\ CO!ProduceStart("s1") /\ CoordRest)
    /\ WF_suiteVars(part = "events" /\ Restart /\ EventsRest) /\ WF_suiteVars(part = "events" /\ commit /\ EventsRest)
    /\ \A p \in RC!Procs : WF_suiteVars(part = "cohort" /\ RC!Ends(p) /\ CohortRest)

\* Coordinator: with answers that arrive, every transaction that
\* submitTransaction has accepted becomes final. ValidatorHttp: validators
\* that ask one another while they hold each other's slots all get an answer.
AnswersCome ==
    /\ []<>(part = "coordinator" => acked \subseteq CO!Finalized(chain1))
    /\ \A c \in TimeoutCalls :
          (part = "http" /\ calls[c] = "queued") ~> (part = "http" /\ calls[c] = "done")

\* OperatorEvents: a batch whose height has been finalized does not stay
\* queued; the replica comes to report it, unless its start is refused.
\* ValidatorReadiness: once a cohort is torn down, or its launcher has died,
\* every process of it ends, except one that hangs under a dead launcher.
AllSettles ==
    /\ []<>(part = "events" => (~up /\ ~Starts) \/ \A staged \in journal : staged.expectedHeight > Len(chain))
    /\ (part = "cohort" /\ cut) ~> (part = "cohort" /\ RC!CohortEnds)

=============================================================================
