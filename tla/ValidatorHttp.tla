---------------------------- MODULE ValidatorHttp ----------------------------
(* A validator's HTTP service (validator-service.mjs) and what protects it.   *)
(*  "schedule": VerificationScheduler of operator-defense.mjs, which shares   *)
(*              the verification slots between identities.                    *)
(*  "replay":   peer-auth.mjs with the ReplayNonceCache.                      *)
(*  "limits":   HttpIngressGuard, IngressLimiter and PeerReputation.          *)
(*  "calls":    handlers that hold a slot while they ask another validator.   *)
(*  "sync":     synchronizeValidator, run twice at once, with faulty peers.   *)
(*  "control":  the operator's local socket.                                  *)
(* A behaviour is about one of them; what a handler does to the chain is in   *)
(* the modules Finality, Coordinator and Mempool.                             *)
EXTENDS Integers, FiniteSets, Sequences, SequencesExt

CONSTANTS Modes,                        \* which of the six a run is about
          Identities, MaxConcurrent, MaxPerIdentity, MaxQueued, MaxQueuedPerIdentity,
          Skew, Ttl,                    \* PEER_CLOCK_SKEW_MS and the nonce cache's ttlMs, in ticks
          Burst, Refill, MaxAddresses, MaxActive,
          Threshold, QuarantineTime, DecayTime, MaxEntries,
          Nested,                       \* timeout requests: <<asking, asked, proposer>>
          Peers, Faulty, SnapshotGap, RangeLimit,
          MaxTime, MaxHeight, MaxRuns, MaxOthers   \* bounds

VARIABLES mode, now, sched, replay, peer, calls, catchup, control

vars == <<mode, now, sched, replay, peer, calls, catchup, control>>
Only(v) == \* v is the variable that the step changes
    /\ (v # "now" => UNCHANGED now) /\ (v # "sched" => UNCHANGED sched)
    /\ (v # "replay" => UNCHANGED replay) /\ (v # "peer" => UNCHANGED peer)
    /\ (v # "calls" => UNCHANGED calls) /\ (v # "catchup" => UNCHANGED catchup)
    /\ (v # "control" => UNCHANGED control) /\ UNCHANGED mode

least(S) == CHOOSE x \in S : \A y \in S : x <= y
-----------------------------------------------------------------------------
\* The verification scheduler: round robin over the identities that have a queue.
Eligible(s, i) == s.queue[i] > 0 /\ s.active[i] < MaxPerIdentity
activeTotal(s) == s.active[CHOOSE i \in Identities : TRUE] +
    FoldLeft(LAMBDA t, i : t + s.active[i], 0,
             SetToSeq(Identities \ {CHOOSE i \in Identities : TRUE}))
queuedTotal(s) == FoldLeft(LAMBDA t, i : t + s.queue[i], 0, SetToSeq(Identities))

\* An identity without a queue leaves the order; the cursor may then be past its end.
compact(s, i) ==
    IF s.queue[i] > 0 \/ ~Contains(s.order, i) THEN s
    ELSE LET order == Remove(s.order, i) IN
         [s EXCEPT !.order = order,
                   !.cursor = IF order = <<>> THEN 0 ELSE @ % Len(order)]

\* The first one from the cursor that may start, and where the cursor then stands.
nextIdentity(s) ==
    LET n == Len(s.order)
        at(k) == ((s.cursor + k) % n) + 1
        found == {k \in 0..n - 1 : Eligible(s, s.order[at(k)])}
    IN IF found = {} THEN <<>>
       ELSE <<s.order[at(least(found))], (s.cursor + least(found) + 1) % n>>

\* Start jobs while there is room; count who was passed over although it could start.
Start(s) ==
    IF activeTotal(s) >= MaxConcurrent \/ nextIdentity(s) = <<>> THEN s
    ELSE LET i == nextIdentity(s)[1]
             started == [s EXCEPT !.queue[i] = @ - 1, !.active[i] = @ + 1,
                                  !.cursor = nextIdentity(s)[2],
                                  !.passed = [j \in Identities |->
                                      IF j = i \/ ~Eligible(s, j) THEN 0 ELSE @[j] + 1]]
         IN compact(started, i)
drain(s) == FoldLeft(LAMBDA t, k : Start(t), s, [k \in 1..MaxConcurrent |-> k])

afterTask(s) == drain(s)

enqueue(i) ==
    /\ mode = "schedule"
    /\ queuedTotal(sched) < MaxQueued /\ sched.queue[i] < MaxQueuedPerIdentity
    /\ sched' = drain([sched EXCEPT !.queue[i] = @ + 1,
                                    !.order = IF Contains(@, i) THEN @ ELSE Append(@, i)])
    /\ Only("sched")
taskEnds(i) ==
    /\ mode = "schedule" /\ sched.active[i] > 0
    /\ sched' = afterTask([sched EXCEPT !.active[i] = @ - 1])
    /\ Only("sched")
queueTimeout(i) ==
    /\ mode = "schedule" /\ sched.queue[i] > 0
    /\ sched' = compact([sched EXCEPT !.queue[i] = @ - 1, !.passed[i] = 0], i)
    /\ Only("sched")
-----------------------------------------------------------------------------
\* Authenticated requests.  A request is its timestamp (its nonce is new); the network may
\* deliver it at any time and again.  Peers' clocks are ahead or behind.
Requests == 0..MaxTime
InWindow(r) == r >= replay.notBefore /\ r - now <= Skew /\ now - r <= Skew

\* A nonce stays in the cache until its time is over; cleanup drops it then.
cached(r) == replay.expires[r] > now
verifyPeerRequest(r) ==
    /\ mode = "replay"
    /\ InWindow(r) /\ ~cached(r)
    /\ replay' = [replay EXCEPT !.expires[r] = now + Ttl, !.done[r] = @ \union {now},
                                !.first[r] = IF @ < 0 THEN now ELSE @]
    /\ Only("replay")

\* Mutant: the clock floor is not moved by a restart.
RestartOldFloor ==
    /\ mode = "replay" /\ replay.runs < MaxRuns /\ now < MaxTime /\ now' = now + 1
    /\ replay' = [replay EXCEPT !.runs = @ + 1, !.expires = [r \in Requests |-> 0]]
    /\ UNCHANGED <<mode, sched, peer, calls, catchup, control>>

\* A restart takes time and forgets the nonces; requests signed before its end are refused.
authNotBefore ==
    /\ mode = "replay" /\ replay.runs < MaxRuns /\ now < MaxTime /\ now' = now + 1
    /\ replay' = [replay EXCEPT !.runs = @ + 1, !.expires = [r \in Requests |-> 0],
                                !.notBefore = now + 1]
    /\ UNCHANGED <<mode, sched, peer, calls, catchup, control>>
-----------------------------------------------------------------------------
\* One caller at the door, with one address and one identity, and the other ones.  A table
\* keeps its entries by how recently they were stored and drops the oldest one when it is
\* full, so that MaxAddresses (MaxEntries) others who come after the caller push it out.
Min2(a, b) == IF a < b THEN a ELSE b
Max2(a, b) == IF a > b THEN a ELSE b

\* The token bucket (that of IngressLimiter is the same); no entry is a full bucket.
tokensNow == Min2(Burst, peer.tokens + (now - peer.updatedAt) * Refill)
consume == [peer EXCEPT !.tokens = tokensNow - 1, !.updatedAt = now, !.newer = 0,
                        !.taken = @ + 1]

\* The token is spent before the limit of open requests is looked at.
begin ==
    /\ mode = "limits" /\ tokensNow >= 1
    /\ peer' = IF peer.waiting + peer.inside >= MaxActive THEN consume
               ELSE [consume EXCEPT !.waiting = @ + 1]
    /\ Only("peer")

\* Another address is let in: the caller's entry has one more in front of it, or goes.
otherAddress ==
    /\ mode = "limits" /\ peer.newer < MaxAddresses /\ peer.others < MaxOthers
    /\ peer' = [peer EXCEPT !.newer = @ + 1, !.others = @ + 1,
                            !.tokens = IF peer.newer + 1 = MaxAddresses THEN Burst ELSE @,
                            !.updatedAt = IF peer.newer + 1 = MaxAddresses THEN 0 ELSE @]
    /\ Only("peer")

\* Strikes decay with time; a quarantine that is over leaves one strike less than it took.
\* An identity that has no entry starts with none.
current ==
    LET struckAt == IF peer.overtaken = MaxEntries THEN now ELSE peer.struckAt
        steps == (now - struckAt) \div DecayTime
        decayed == Max2(0, peer.strikes - steps)
        over == peer.until > 0 /\ peer.until <= now
    IN [peer EXCEPT !.struckAt = struckAt + steps * DecayTime, !.overtaken = 0,
                    !.until = IF over THEN 0 ELSE @,
                    !.strikes = IF over THEN Min2(decayed, Threshold - 1) ELSE decayed]

\* The request is authentic: is the identity in quarantine?  Its entry is the newest again.
assertAllowed ==
    /\ mode = "limits" /\ peer.waiting > 0
    /\ peer' = IF current.until > now THEN [current EXCEPT !.waiting = @ - 1]
               ELSE [current EXCEPT !.waiting = @ - 1, !.inside = @ + 1]
    /\ Only("peer")

\* The same for another identity, whose entry may push out one that is in quarantine.
otherIdentity ==
    /\ mode = "limits" /\ peer.overtaken < MaxEntries /\ peer.strikes > 0
    /\ peer' = IF peer.overtaken + 1 < MaxEntries THEN [peer EXCEPT !.overtaken = @ + 1]
               ELSE [peer EXCEPT !.overtaken = MaxEntries, !.strikes = 0, !.until = 0,
                                 !.struckAt = 0]
    /\ Only("peer")

\* It ends in an objective violation; in the quarantine that is no reason to extend it.
recordViolation ==
    /\ mode = "limits" /\ peer.inside > 0
    /\ LET strikes == Min2(Threshold + 1, current.strikes + 1)
           quarantined == strikes >= Threshold /\ current.until <= now IN
       peer' = [current EXCEPT !.inside = @ - 1, !.struckAt = now, !.strikes = strikes,
                    !.until = IF quarantined THEN now + QuarantineTime ELSE @]
    /\ Only("peer")

\* It is not authentic, or it is answered.
finishIngress ==
    /\ mode = "limits"
    /\ \/ peer.waiting > 0 /\ peer' = [peer EXCEPT !.waiting = @ - 1]
       \/ peer.inside > 0 /\ peer' = [peer EXCEPT !.inside = @ - 1]
    /\ Only("peer")

Tick ==
    /\ mode \in {"replay", "limits"} /\ now < MaxTime /\ now' = now + 1 /\ Only("now")
-----------------------------------------------------------------------------
\* Handlers of /v1/p2p/timeouts hold a slot of the asking validator at the asked one while
\* they ask the proposer for its health, which needs a slot there; slots are of one asking
\* and one asked validator.  A call is its triple; the client gives up after its timeout.
Held(u, v) == {c \in Nested : c[1] = u /\ c[2] = v /\ calls[c] \in {"held", "asking"}}
FreeSlot(u, v) == Cardinality(Held(u, v)) < MaxPerIdentity
To(c, s) == calls' = [calls EXCEPT ![c] = s] /\ Only("calls")

gossipPeerRequest(c) == mode = "calls" /\ calls[c] = "new" /\ To(c, "queued")
slotGiven(c) ==
    /\ mode = "calls" /\ calls[c] = "queued" /\ FreeSlot(c[1], c[2])
    /\ To(c, "held")
proposerIsReachable(c) == mode = "calls" /\ calls[c] = "held" /\ To(c, "asking")
\* The health answer comes once the proposer has a slot for the asking validator.
healthAnswer(c) ==
    /\ mode = "calls" /\ calls[c] = "asking" /\ FreeSlot(c[2], c[3])
    /\ To(c, "done")
requestTimeout(c) ==
    mode = "calls" /\ calls[c] \in {"queued", "asking"} /\ To(c, "done")
-----------------------------------------------------------------------------
\* Catching up.  The chain is a number of blocks, the installed base one of them.  A faulty
\* peer announces any height and serves nothing, or blocks that do not verify.
Honest == Peers \ Faulty
Runs == 1..2
Set(r, f, v) == [catchup EXCEPT !.run[r] = [@ EXCEPT !.pc = f, !.left = v]]

\* The heights that the peers announce; those above ours are tried from the highest on.
\* (The order of equal ones is that of the peers.)
peerHealth(r) ==
    /\ mode = "sync" /\ catchup.run[r].pc = "idle" /\ catchup.runs < MaxRuns
    /\ \E lie \in {0, MaxHeight + 1} :
        LET said == [p \in Peers |-> IF p \in Faulty THEN lie ELSE catchup.heights[p]]
            above == {p \in Peers : said[p] > catchup.h}
            order == SetToSortSeq(above, LAMBDA p, q :
                        said[p] > said[q] \/ (said[p] = said[q] /\ p < q))
        IN catchup' = [catchup EXCEPT !.runs = @ + 1, !.run[r] =
                [pc |-> IF above = {} THEN "ended"
                        ELSE IF said[order[1]] - catchup.h >= SnapshotGap THEN "snapshot" ELSE "try",
                 left |-> order, said |-> said, asked |-> 0, overtaken |-> FALSE,
                 goal |-> Max2(0, catchup.heights[CHOOSE p \in Honest :
                            \A q \in Honest : catchup.heights[p] >= catchup.heights[q]])]]
    /\ Only("catchup")

\* A quorum of snapshots of one height above ours is installed, or replay goes on.
installStateSnapshotCandidates(r) ==
    /\ mode = "sync" /\ catchup.run[r].pc = "snapshot"
    /\ \/ catchup' = Set(r, "try", catchup.run[r].left)
       \/ \E p \in Honest :
            /\ catchup.heights[p] > catchup.h
            /\ catchup' = [Set(r, "try", catchup.run[r].left) EXCEPT
                            !.h = catchup.heights[p], !.base = catchup.heights[p]]
    /\ Only("catchup")

\* Ask the first of them for the blocks after our tip, if we are still below its height.
requestRange(r) ==
    /\ mode = "sync" /\ catchup.run[r].pc = "try"
    /\ LET run == catchup.run[r] IN
       catchup' = IF run.left = <<>> \/ catchup.h >= run.said[Head(run.left)]
                  THEN Set(r, "ended", <<>>)
                  ELSE [catchup EXCEPT !.run[r] = [@ EXCEPT !.pc = "wait", !.asked = catchup.h + 1]]
    /\ Only("catchup")

\* It serves nothing, or what does not verify: the next peer.
rangeFails(r) ==
    /\ mode = "sync" /\ catchup.run[r].pc = "wait"
    /\ Head(catchup.run[r].left) \in Faulty
    /\ catchup' = Set(r, "try", Tail(catchup.run[r].left))
    /\ Only("catchup")

\* It serves the next blocks.  A block we have is passed over, one that the installed
\* snapshot has replaced is a conflict, and so is one that does not follow the tip.
commitRange(r) ==
    /\ mode = "sync" /\ catchup.run[r].pc = "wait"
    /\ LET run == catchup.run[r]
           p == Head(run.left)
           last == Min2(run.asked + RangeLimit - 1, catchup.heights[p]) IN
       /\ p \notin Faulty
       /\ catchup' = IF run.asked > catchup.heights[p] THEN Set(r, "try", Tail(run.left))
                     ELSE IF run.asked <= catchup.base
                     THEN [Set(r, "try", Tail(run.left)) EXCEPT !.run[r].overtaken = TRUE]
                     ELSE [Set(r, "try", run.left) EXCEPT !.h = Max2(@, last)]
    /\ Only("catchup")
syncEnds(r) ==
    /\ mode = "sync" /\ catchup.run[r].pc = "ended"
    /\ catchup' = Set(r, "idle", <<>>)
    /\ Only("catchup")

\* The chain goes on while we synchronize.
blockArrives ==
    /\ mode = "sync" /\ catchup.h < MaxHeight
    /\ \E p \in Honest : catchup.heights[p] > catchup.h
    /\ catchup' = [catchup EXCEPT !.h = @ + 1]
    /\ Only("catchup")
peerGrows(p) ==
    /\ mode = "sync" /\ p \in Honest /\ catchup.heights[p] < MaxHeight
    /\ catchup' = [catchup EXCEPT !.heights[p] = @ + 1]
    /\ Only("catchup")
-----------------------------------------------------------------------------
\* The local control socket: one operation at a time, whatever the sockets do.
Sockets == 1..2
enable == mode = "control" /\ ~control.ready /\ control' = [control EXCEPT !.ready = TRUE]
          /\ Only("control")
connect(k) ==
    /\ mode = "control" /\ control.socket[k] = "closed" /\ control.ready
    /\ control' = [control EXCEPT !.socket[k] = "open"]
    /\ Only("control")
\* The frame is complete and the client has ended its side.
socketEnd(k) ==
    /\ mode = "control" /\ control.socket[k] = "open"
    /\ \E valid \in BOOLEAN :
        control' = IF ~valid \/ control.operation > 0
                   THEN [control EXCEPT !.socket[k] = "closed"]
                   ELSE [control EXCEPT !.socket[k] = "owns", !.operation = @ + 1]
    /\ Only("control")
\* The deadline, or the client, destroys the socket; the operation goes on.
destroy(k) ==
    /\ mode = "control" /\ control.socket[k] \in {"open", "owns"}
    /\ control' = [control EXCEPT !.socket[k] = IF @ = "owns" THEN "gone" ELSE "closed"]
    /\ Only("control")
operationEnds(k) ==
    /\ mode = "control" /\ control.socket[k] \in {"owns", "gone"}
    /\ control' = [control EXCEPT !.operation = @ - 1, !.socket[k] = "closed"]
    /\ Only("control")
-----------------------------------------------------------------------------
Init ==
    /\ mode \in Modes
    /\ now = 0
    /\ sched = [order |-> <<>>, cursor |-> 0, queue |-> [i \in Identities |-> 0],
                active |-> [i \in Identities |-> 0], passed |-> [i \in Identities |-> 0]]
    /\ replay = [expires |-> [r \in Requests |-> 0], done |-> [r \in Requests |-> {}],
                 first |-> [r \in Requests |-> -1],
                 notBefore |-> 0, runs |-> 0]
    /\ peer = [tokens |-> Burst, updatedAt |-> 0, newer |-> MaxAddresses, taken |-> 0, others |-> 0,
               waiting |-> 0, inside |-> 0, strikes |-> 0, struckAt |-> 0, until |-> 0,
               overtaken |-> MaxEntries]
    /\ calls = [c \in Nested |-> "new"]
    /\ catchup = [h |-> 0, base |-> 0, runs |-> 0, heights |-> [p \in Peers |-> 1],
                  run |-> [r \in Runs |-> [pc |-> "idle", left |-> <<>>,
                      said |-> [p \in Peers |-> 0], asked |-> 0, overtaken |-> FALSE, goal |-> 0]]]
    /\ control = [ready |-> FALSE, operation |-> 0, socket |-> [k \in Sockets |-> "closed"]]

\* A handler goes on, and timers fire.
CallStep(c) == slotGiven(c) \/ proposerIsReachable(c) \/ healthAnswer(c) \/ requestTimeout(c)

Next ==
    \/ \E i \in Identities : enqueue(i) \/ taskEnds(i) \/ queueTimeout(i)
    \/ (\E r \in Requests : verifyPeerRequest(r)) \/ authNotBefore \/ Tick
    \/ begin \/ otherAddress \/ assertAllowed \/ otherIdentity
    \/ recordViolation \/ finishIngress
    \/ \E c \in Nested : gossipPeerRequest(c) \/ CallStep(c)
    \/ \E r \in Runs : peerHealth(r) \/ installStateSnapshotCandidates(r) \/ requestRange(r)
                       \/ rangeFails(r) \/ commitRange(r) \/ syncEnds(r)
    \/ blockArrives \/ (\E p \in Peers : peerGrows(p))
    \/ enable \/ \E k \in Sockets : connect(k) \/ socketEnd(k) \/ destroy(k) \/ operationEnds(k)

Fairness == \A c \in Nested : WF_vars(CallStep(c))

Spec == Init /\ [][Next]_vars /\ Fairness
-----------------------------------------------------------------------------
\* Slots are shared: nobody who may start waits while a slot is free, and nobody is passed
\* over for more than one round for each other identity, although the order shrinks under
\* the cursor (which skips one whenever an identity in front of it leaves).
SlotsShared ==
    /\ activeTotal(sched) <= MaxConcurrent
    /\ activeTotal(sched) < MaxConcurrent => \A i \in Identities : ~Eligible(sched, i)
    /\ \A i \in Identities : sched.passed[i] <= Cardinality(Identities) * (Cardinality(Identities) - 1)

\* A request of a peer whose clock is not ahead is executed once, whatever the network
\* repeats and however often the validator restarts; one from the future at most once in a
\* run, or once more at the very end of its window, when its nonce has just expired.
ExecutedOnce == \A r \in Requests :
    /\ replay.first[r] >= r => Cardinality(replay.done[r]) <= 1
    /\ replay.runs = 0 => \A t, u \in replay.done[r] : t < u => u - t = Ttl

\* The caller gets no more than its burst and what was refilled since, and one more burst
\* for every MaxAddresses other addresses: so many have to come between two of its requests
\* before its bucket is forgotten.
RateKept == peer.taken <= Burst * (1 + peer.others \div MaxAddresses) + now * Refill

\* A quarantine is not extended by requests that were already inside.
QuarantineEnds == peer'.until # peer.until /\ peer'.until # 0 => peer.until <= now

\* Validators that ask one another while they hold each other's slots all get an answer.
CallsReturn == \A c \in Nested : calls[c] = "queued" ~> calls[c] = "done"

\* When no synchronization is running any more, the node has reached the height of every
\* honest peer that the last one asked, whatever the other peers announced or served
\* (unless a snapshot that the other one installed overtook the blocks it was waiting for).
SyncReaches ==
    (\A r \in Runs : catchup.run[r].pc \in {"idle", "ended"}) =>
        \A r \in Runs : catchup.run[r].pc = "ended" =>
            catchup.h >= catchup.run[r].goal \/ catchup.run[r].overtaken

\* One control operation at a time, and the socket is free again when none runs.
ControlFree ==
    LET running == {k \in Sockets : control.socket[k] \in {"owns", "gone"}} IN
    control.operation = Cardinality(running) /\ Cardinality(running) <= 1
=============================================================================
