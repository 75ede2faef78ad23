----------------------------- MODULE Coordinator -----------------------------
(***************************************************************************)
(* DistributedCoordinator of distributed-node.mjs and the validator        *)
(* handlers that serve it: transaction relay with a durability quorum,     *)
(* block production by prepare, timeout and commit rounds over HTTP, the   *)
(* final broadcast, catch-up of peers and recovery of pending transactions.*)
(*                                                                         *)
(* Every await of the coordinator is a point where other requests run: a   *)
(* session of produceBlock sends one request to each validator and goes on *)
(* when each has been answered or lost.  A block value is its transactions *)
(* and its timestamp; an attempt takes a new timestamp.  Validators keep   *)
(* prepares, timeouts and the commit lock in files.                        *)
(***************************************************************************)
EXTENDS Naturals, FiniteSets, Sequences

CONSTANTS Validators,      \* 0..N-1
          Txs,             \* independent valid transactions
          Sessions,        \* concurrent produceBlock calls
          MaxRound,        \* MAX_CONSENSUS_ROUND
          MaxAttempts,     \* bound: calls of produceBlock
          MaxLost,         \* bound: requests or answers lost
          MaxCrashes,      \* bound: coordinator restarts
          InOrder          \* bound: the requests of one phase arrive in one order
                           \* (different validators share no state)


VARIABLES
    chain,      \* the coordinator's finalized values (journal and memory)
    pool,       \* the coordinator's #mempool
    relay,      \* submitTransaction calls: tx -> [asked, got, queued]
    acked,      \* transactions answered with success
    session,    \* produceBlock calls
    peer,       \* validator -> its chain, pool and decision files
    attempts, lost, crashes

vars == <<chain, pool, relay, acked, session, peer, attempts, lost, crashes>>

N == Cardinality(Validators)
Quorum == ((N * 2) \div 3) + 1
expectedProposer(h, round) == (h + round) % N

Idle == [pc |-> "idle", txs |-> {}, stamp |-> 0, h |-> 0, round |-> 0,
         asked |-> {}, got |-> {}, available |-> {}]
Value(s) == [txs |-> s.txs, stamp |-> s.stamp]
Arrives(v, asked) == v \in asked /\ (InOrder => \A w \in asked : v <= w)
Finalized(c) == UNION {c[k].txs : k \in 1..Len(c)}

Init ==
    /\ chain = <<>> /\ pool = {} /\ relay = [t \in {} |-> {}] /\ acked = {}
    /\ session = [s \in Sessions |-> Idle]
    /\ peer = [v \in Validators |-> [chain |-> <<>>, pool |-> {}, prepares |-> {},
                                     timeouts |-> {}, lock |-> {}]]
    /\ attempts = 0 /\ lost = 0 /\ crashes = 0

-----------------------------------------------------------------------------
\* submitTransaction: #queueLocal takes a transaction that the ledger accepts,
\* then relays it to every validator.
SubmitStart(t) ==
    /\ t \notin DOMAIN relay /\ t \notin acked /\ t \notin Finalized(chain)
    /\ relay' = [x \in DOMAIN relay \cup {t} |->
                    IF x = t THEN [asked |-> Validators, got |-> {}, queued |-> t \notin pool]
                    ELSE relay[x]]
    /\ pool' = pool \cup {t}
    /\ UNCHANGED <<chain, acked, session, peer, attempts, lost, crashes>>

\* A validator stores the transaction (or knows it, or has it finalized and
\* refuses it) and its answer arrives; or the answer or the request is lost.
RelayDeliver(t, v) ==
    /\ t \in DOMAIN relay /\ Arrives(v, relay[t].asked)
    /\ LET fresh == t \notin Finalized(peer[v].chain)
           stored == [peer EXCEPT ![v].pool = IF fresh THEN @ \cup {t} ELSE @]
       IN \/ /\ peer' = stored
             /\ relay' = [relay EXCEPT ![t].asked = @ \ {v},
                                       ![t].got = IF fresh THEN @ \cup {v} ELSE @]
             /\ UNCHANGED lost
          \/ /\ lost < MaxLost /\ lost' = lost + 1
             /\ peer' \in {stored, peer}
             /\ relay' = [relay EXCEPT ![t].asked = @ \ {v}]
    /\ UNCHANGED <<chain, pool, acked, session, attempts, crashes>>

\* Without the durability quorum.
SubmitEndAny(t) ==
    /\ t \in DOMAIN relay /\ relay[t].asked = {}
    /\ relay' = [x \in DOMAIN relay \ {t} |-> relay[x]]
    /\ acked' = acked \cup {t}
    /\ UNCHANGED <<chain, pool, session, peer, attempts, lost, crashes>>

SubmitEnd(t) ==
    /\ t \in DOMAIN relay /\ relay[t].asked = {}
    /\ relay' = [x \in DOMAIN relay \ {t} |-> relay[x]]
    /\ IF Cardinality(relay[t].got) >= Quorum
         THEN acked' = acked \cup {t} /\ UNCHANGED pool
         ELSE /\ pool' = IF relay[t].queued THEN pool \ {t} ELSE pool
              /\ UNCHANGED acked
    /\ UNCHANGED <<chain, session, peer, attempts, lost, crashes>>

-----------------------------------------------------------------------------
\* produceBlock: pending transactions are recovered from the validators' pools,
\* the lagging validators are brought up, and the first proposal is built.
recoverPeerTransactions ==
    (pool \cup UNION {peer[v].pool : v \in Validators}) \ Finalized(chain)

ProduceStart(s) ==
    /\ session[s].pc = "idle" /\ attempts < MaxAttempts
    /\ recoverPeerTransactions # {}
    /\ pool' = recoverPeerTransactions
    /\ attempts' = attempts + 1
    /\ session' = [session EXCEPT ![s] =
            [Idle EXCEPT !.pc = "sync", !.txs = pool', !.stamp = attempts',
                         !.h = Len(chain) + 1, !.asked = Validators]]
    /\ UNCHANGED <<chain, relay, acked, peer, lost, crashes>>

\* commit at a validator: the block, and its transactions leave the pool.
Adopt(p, blocks) ==
    [p EXCEPT !.chain = blocks, !.pool = @ \ Finalized(blocks)]

\* vote: one value per height and round.
voteOk(p, h, round, value) ==
    /\ Len(p.chain) + 1 = h
    /\ \A d \in p.prepares : d.h = h /\ d.round = round => d.value = value

\* timeout: one value per height and next round, and never against the lock.
timeoutOk(p, h, round, value) ==
    /\ Len(p.chain) + 1 = h
    /\ \A d \in p.lock : d.h = h => d.value = value
    /\ \A d \in p.timeouts : d.h = h /\ d.round = round + 1 => d.value = value

\* commitVote without a look at the decision of the height.
commitVoteOkLoose(p, h, value) == Len(p.chain) + 1 = h

\* commitVote: one value per height.
commitVoteOk(p, h, value) ==
    /\ Len(p.chain) + 1 = h
    /\ \A d \in p.lock : d.h = h => d.value = value

\* What validator p does with the request of the phase: accepted or not, and
\* its files afterwards.
Handle(p, s) ==
    LET value == Value(s)
        file == [h |-> s.h, round |-> s.round, value |-> value]
    IN CASE s.pc = "sync" ->
              [ok |-> Len(p.chain) <= Len(chain) /\ p.chain = SubSeq(chain, 1, Len(p.chain)),
               peer |-> IF Len(p.chain) < Len(chain) THEN Adopt(p, chain) ELSE p]
         [] s.pc = "prepare" ->
              [ok |-> voteOk(p, s.h, s.round, value),
               peer |-> IF voteOk(p, s.h, s.round, value)
                          THEN [p EXCEPT !.prepares = @ \cup {file}] ELSE p]
         [] s.pc = "timeout" ->
              [ok |-> timeoutOk(p, s.h, s.round, value),
               peer |-> IF timeoutOk(p, s.h, s.round, value)
                          THEN [p EXCEPT !.timeouts = @ \cup {[file EXCEPT !.round = s.round + 1]}]
                          ELSE p]
         [] s.pc = "commit" ->
              [ok |-> commitVoteOk(p, s.h, value),
               peer |-> IF commitVoteOk(p, s.h, value)
                          THEN [p EXCEPT !.lock = @ \cup {[h |-> s.h, value |-> value]}] ELSE p]
         [] s.pc = "broadcast" ->
              [ok |-> TRUE,
               peer |-> IF Len(p.chain) + 1 = s.h THEN Adopt(p, SubSeq(chain, 1, s.h)) ELSE p]

\* One request of a phase reaches its validator and is answered; or the answer,
\* or the request itself, is lost.
Deliver(s, v) ==
    /\ Arrives(v, session[s].asked)
    /\ LET r == Handle(peer[v], session[s])
       IN \/ /\ peer' = [peer EXCEPT ![v] = r.peer]
             /\ session' = [session EXCEPT ![s].asked = @ \ {v},
                                           ![s].got = IF r.ok THEN @ \cup {v} ELSE @]
             /\ UNCHANGED lost
          \/ /\ lost < MaxLost /\ lost' = lost + 1
             /\ \/ peer' = [peer EXCEPT ![v] = r.peer]
                \/ UNCHANGED peer
             /\ session' = [session EXCEPT ![s].asked = @ \ {v}]
    /\ UNCHANGED <<chain, pool, relay, acked, attempts, crashes>>

-----------------------------------------------------------------------------
Answered(s, pc) == session[s].pc = pc /\ session[s].asked = {}
Rest == <<pool, relay, acked, peer, attempts, lost, crashes>>

Goto(s, pc, to) ==
    session' = [session EXCEPT ![s].pc = pc, ![s].asked = to, ![s].got = {}]
Throw(s) == session' = [session EXCEPT ![s] = Idle]

\* The available validators are taken from the failed results.
SyncEndRejected(s) ==
    /\ Answered(s, "sync")
    /\ session' = [session EXCEPT ![s].pc = "prepare", ![s].asked = {},
                                  ![s].available = Validators \ session[s].got, ![s].got = {}]
    /\ UNCHANGED <<chain, Rest>>

\* The proposal of a round is built on the chain as it is now: another session
\* may have finalized the height, and then buildBlock throws.
SyncEnd(s) ==
    /\ Answered(s, "sync")
    /\ IF session[s].h = Len(chain) + 1
         THEN session' = [session EXCEPT ![s].pc = "prepare", ![s].asked = session[s].got,
                                         ![s].available = session[s].got, ![s].got = {}]
         ELSE Throw(s)
    /\ UNCHANGED <<chain, Rest>>

PrepareEnd(s) ==
    LET me == session[s]
        won == Cardinality(me.got) >= Quorum /\ expectedProposer(me.h, me.round) \in me.got
    IN /\ Answered(s, "prepare")
       /\ IF won THEN Goto(s, "commit", me.available)
          ELSE IF me.round = MaxRound THEN Throw(s)
          ELSE Goto(s, "timeout", me.available)
       /\ UNCHANGED <<chain, Rest>>

TimeoutEnd(s) ==
    LET me == session[s]
    IN /\ Answered(s, "timeout")
       /\ IF Cardinality(me.got) >= Quorum /\ me.h = Len(chain) + 1
            THEN session' = [session EXCEPT ![s].pc = "prepare", ![s].round = @ + 1,
                                            ![s].asked = me.available, ![s].got = {}]
            ELSE Throw(s)
       /\ UNCHANGED <<chain, Rest>>

\* The block is verified on a fork, persisted, indexed, and then broadcast.
CommitEnd(s) ==
    LET me == session[s]
        won == Cardinality(me.got) >= Quorum /\ expectedProposer(me.h, me.round) \in me.got
    IN /\ Answered(s, "commit")
       /\ IF won /\ me.h = Len(chain) + 1
            THEN /\ chain' = Append(chain, Value(me))
                 /\ pool' = pool \ me.txs
                 /\ Goto(s, "broadcast", Validators)
            ELSE Throw(s) /\ UNCHANGED <<chain, pool>>
       /\ UNCHANGED <<relay, acked, peer, attempts, lost, crashes>>

BroadcastEnd(s) ==
    /\ Answered(s, "broadcast")
    /\ Throw(s)
    /\ UNCHANGED <<chain, Rest>>

\* The coordinator stops: sessions, relays and the in-memory pool are gone.
Crash ==
    /\ crashes < MaxCrashes /\ crashes' = crashes + 1
    /\ pool' = {} /\ relay' = [t \in {} |-> {}]
    /\ session' = [s \in Sessions |-> Idle]
    /\ UNCHANGED <<chain, acked, peer, attempts, lost>>

SessionStep(s) ==
    \/ \E v \in Validators : Deliver(s, v)
    \/ SyncEnd(s) \/ PrepareEnd(s) \/ TimeoutEnd(s) \/ CommitEnd(s) \/ BroadcastEnd(s)

Next ==
    \/ \E t \in Txs : SubmitStart(t) \/ SubmitEnd(t)
    \/ \E t \in Txs, v \in Validators : RelayDeliver(t, v)
    \/ \E s \in Sessions : ProduceStart(s) \/ SessionStep(s)
    \/ Crash

\* Requests are answered or time out, and somebody asks for a block again.
Fairness ==
    /\ \A s \in Sessions : WF_vars(SessionStep(s)) /\ WF_vars(ProduceStart(s))

Spec == Init /\ [][Next]_vars /\ Fairness

-----------------------------------------------------------------------------
\* Every validator holds a prefix of the coordinator's chain, and no two commit
\* quorums of one height exist for different values, whatever sessions overlap
\* and whatever answers are lost.
OneChain ==
    /\ \A v \in Validators : peer[v].chain = SubSeq(chain, 1, Len(peer[v].chain))
    /\ \A v, w \in Validators : \A d \in peer[v].lock, e \in peer[w].lock :
          LET backers(x) == {u \in Validators : x \in peer[u].lock}
          IN (d.h = e.h /\ Cardinality(backers(d)) >= Quorum
                        /\ Cardinality(backers(e)) >= Quorum) => d = e

\* A transaction answered with success is final or in the durable pools of a
\* quorum, so a coordinator that restarts with an empty pool finds it again.
AckedDurable ==
    \A t \in acked :
        \/ t \in Finalized(chain)
        \/ Cardinality({v \in Validators : t \in peer[v].pool}) >= Quorum

=============================================================================
