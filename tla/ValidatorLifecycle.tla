------------------------ MODULE ValidatorLifecycle ------------------------
(***************************************************************************)
(* The life of a validator identity in blockchain/chain.mjs: admission     *)
(* queue, readiness, rotation into the active set, exit and withdrawal,    *)
(* slashing, readmission, and the reserve plan with emergency recovery.    *)
(* StartBlock is the part of #applyBlock before the transactions, EndBlock *)
(* the part after them; a RecoveryBlock holds nothing else.  Peer registry *)
(* bindings, nonces and fees are left out.                                 *)
(***************************************************************************)
EXTENDS Integers, FiniteSets, FiniteSetsExt

CONSTANTS
    Identities, Genesis,    \* Genesis: the validators of the first block
    MinSetSize,             \* MIN_VALIDATOR_SET_SIZE
    MinBond,                \* MIN_VALIDATOR_BOND
    RotationDelay,          \* MIN_ROTATION_DELAY_BLOCKS
    AdmissionDelay,         \* VALIDATOR_ADMISSION_DELAY_BLOCKS
    AdmissionExpiry,        \* VALIDATOR_ADMISSION_EXPIRY_BLOCKS
    ReadinessWindow,        \* 16 blocks in #applyValidatorAdmissionReadiness
    WithdrawalDelay,        \* VALIDATOR_WITHDRAWAL_DELAY_BLOCKS
    RecoveryDelay,          \* VALIDATOR_RECOVERY_DELAY_BLOCKS
    Funds, MaxTx,           \* MaxTx: bound on the transactions of a block
    MaxHeight               \* bound on the blocks of a run


None == [none |-> TRUE]

VARIABLES
    height, open,   \* open: a block is being applied
    kind,           \* what it holds: "none", "rotation", "admission", "lifecycle", "plan"
    txs,            \* transactions in it
    validators, registered, retired, disabled,
    bonds, balances, burned,
    exits,          \* exits[v]: None or [unlock], 0 while v is active
    admissions,     \* admissions[v]: None or [eligible, expiry, ready, observed]
    rotation,       \* #pendingValidatorRotation: None or [at, set]
    scheduled,      \* the rotation of this block
    plan,           \* validatorRecoveryPlan: None or [at, reserves]
    floor,          \* validatorReadinessObservationFloor
    recent,         \* previous set of a transition in the last block
    setAt,          \* setAt[h]: the active set after block h (history)
    lastActive      \* lastActive[v]: last height v was active (history)

membership == <<validators, registered, retired, disabled>>
money == <<bonds, balances, burned>>
queue == <<exits, admissions, plan, floor>>
vars == <<height, open, kind, txs, membership, money, queue, rotation, scheduled, recent, setAt, lastActive>>

NewAdmission(h) == [eligible |-> h + AdmissionDelay, expiry |-> h + AdmissionDelay + AdmissionExpiry,
                    ready |-> 0, observed |-> 0, submitted |-> h]

Init ==
    /\ height = 0 /\ open = FALSE /\ kind = "none" /\ txs = 0
    /\ validators = Genesis /\ registered = Genesis /\ retired = {} /\ disabled = {}
    /\ bonds = [v \in Identities |-> IF v \in Genesis THEN MinBond ELSE 0]
    /\ balances = Funds /\ burned = 0
    /\ exits = [v \in Identities |-> None] /\ admissions = [v \in Identities |-> None]
    /\ rotation = None /\ scheduled = None /\ plan = None /\ floor = 0 /\ recent = {}
    /\ setAt = [h \in 0..MaxHeight |-> Genesis]
    /\ lastActive = [v \in Identities |-> 0]

Reserves == IF plan = None THEN {} ELSE plan.reserves
Pending == {v \in Identities : admissions[v] # None}
quorum(n) == (2 * n) \div 3 + 1
ActivatesNow == rotation # None /\ rotation.at = height

-----------------------------------------------------------------------------
(* Before the transactions                                                 *)

\* Admissions that expire unselected are refunded and their identity retired.
ExpiredAdmissions(h) ==
    {v \in Pending : admissions[v].expiry <= h} \ (Reserves \union IF rotation = None THEN {} ELSE rotation.set)

\* scheduleValidatorRotation: the current members too must be bonded or disabled.
CurrentSetAccepted == \A v \in validators : bonds[v] >= MinBond \/ v \in disabled

\* The newcomers are the first of the eligible queue, in order of submission
\* (the hash rank inside a block is left open).
assertValidatorAdmissionSelection(set, at) ==
    LET newcomers == set \ validators
        eligible == {v \in Pending :
            /\ admissions[v].ready > at /\ admissions[v].eligible <= height
            /\ admissions[v].expiry > at /\ admissions[v].observed >= floor
            /\ setAt[admissions[v].observed] = validators
            /\ v \notin disabled /\ exits[v] = None /\ v \notin Reserves
            /\ bonds[v] >= MinBond}
    IN  /\ newcomers \subseteq eligible
        /\ \A v \in newcomers, w \in eligible \ newcomers : admissions[v].submitted <= admissions[w].submitted

scheduleValidatorRotation(set, at) ==
    /\ rotation = None
    /\ set \subseteq registered \ (disabled \union retired)
    /\ \A v \in set : exits[v] = None /\ bonds[v] >= MinBond
    /\ Cardinality(set) >= MinSetSize /\ CurrentSetAccepted
    /\ at >= height + RotationDelay
    /\ 3 * Cardinality(set \intersect validators) >= Min({Cardinality(set), Cardinality(validators)})
    /\ assertValidatorAdmissionSelection(set, at)

Expire(h) ==
    LET gone == ExpiredAdmissions(h) IN
    /\ balances' = balances + SumFunction([v \in Identities |-> IF v \in gone THEN bonds[v] ELSE 0])
    /\ bonds' = [v \in Identities |-> IF v \in gone THEN 0 ELSE bonds[v]]
    /\ registered' = registered \ gone /\ retired' = retired \union gone
    /\ admissions' = [v \in Identities |-> IF v \in gone THEN None ELSE admissions[v]]

StartBlock(r) ==
    /\ ~open /\ height < MaxHeight
    /\ r # None => scheduleValidatorRotation(r.set, r.at) /\ r.set \intersect ExpiredAdmissions(height + 1) = {}
    /\ Expire(height + 1)
    /\ height' = height + 1 /\ open' = TRUE /\ txs' = 0 /\ scheduled' = r
    /\ kind' = IF r # None THEN "rotation" ELSE "none"
    /\ UNCHANGED <<validators, disabled, burned, exits, plan, floor, rotation, recent, setAt, lastActive>>

-----------------------------------------------------------------------------
(* Transactions                                                            *)

\* A block does not mix rotations, admissions, lifecycle requests and plans.
Transaction(k) ==
    /\ open /\ txs < MaxTx
    /\ k # "free" => kind \in {"none", k} /\ (k \in {"admission", "lifecycle"} => ~ActivatesNow)
    /\ kind' = IF k = "free" THEN kind ELSE k
    /\ txs' = txs + 1
    /\ UNCHANGED <<height, open, rotation, scheduled, floor, recent, setAt, lastActive>>

\* A top-up of a registered validator; new identities use the queue.
applyValidatorBond(v) ==
    /\ Transaction("free")
    /\ v \in registered \ (Pending \union disabled \union retired) /\ exits[v] = None
    /\ balances > 0
    /\ balances' = balances - 1 /\ bonds' = [bonds EXCEPT ![v] = @ + 1]
    /\ UNCHANGED <<membership, burned, exits, admissions, plan>>

applyValidatorAdmission(v) ==
    /\ Transaction("admission")
    /\ v \notin Pending \union validators \union retired \union disabled
    /\ v \in registered => bonds[v] = 0
    /\ exits[v] = None /\ balances >= MinBond
    /\ balances' = balances - MinBond /\ bonds' = [bonds EXCEPT ![v] = MinBond]
    /\ registered' = registered \union {v}
    /\ admissions' = [admissions EXCEPT ![v] = NewAdmission(height)]
    /\ UNCHANGED <<validators, retired, disabled, burned, exits, plan>>

\* A quorum of the active set certified the candidate's endpoint at observed.
applyValidatorAdmissionReadiness(v, observed) ==
    /\ Transaction("admission")
    /\ v \in Pending \ (disabled \union Reserves) /\ exits[v] = None
    /\ rotation # None => v \notin rotation.set
    /\ observed \in (height - ReadinessWindow)..(height - 1) /\ observed >= floor
    /\ observed + ReadinessWindow > height
    /\ setAt[observed] = validators
    /\ admissions' = [admissions EXCEPT ![v].ready = observed + ReadinessWindow, ![v].observed = observed]
    /\ UNCHANGED <<membership, money, exits, plan>>

Committed(v) == (rotation # None /\ v \in rotation.set) \/ v \in Reserves

applyValidatorExitRequest(v) ==
    /\ Transaction("lifecycle")
    /\ v \in registered \ (Pending \union retired) /\ exits[v] = None
    /\ bonds[v] > 0 \/ v \in disabled
    /\ ~Committed(v)
    /\ exits' = [exits EXCEPT ![v] = [unlock |-> IF v \in validators THEN 0 ELSE height + WithdrawalDelay]]
    /\ UNCHANGED <<membership, money, admissions, plan>>

\* Mutant: exclusion suffices, the cooldown is not awaited.
WithdrawEarly(v) ==
    /\ Transaction("lifecycle")
    /\ exits[v] # None /\ exits[v].unlock # 0
    /\ v \in registered \ (Pending \union validators) /\ ~Committed(v)
    /\ balances' = balances + bonds[v] /\ bonds' = [bonds EXCEPT ![v] = 0]
    /\ exits' = [exits EXCEPT ![v] = None]
    /\ registered' = registered \ {v} /\ retired' = retired \union {v} /\ disabled' = disabled \ {v}
    /\ UNCHANGED <<validators, burned, admissions, plan>>

applyValidatorWithdrawalClaim(v) ==
    /\ Transaction("lifecycle")
    /\ exits[v] # None /\ exits[v].unlock # 0 /\ height >= exits[v].unlock
    /\ v \in registered \ (Pending \union validators) /\ ~Committed(v)
    /\ balances' = balances + bonds[v] /\ bonds' = [bonds EXCEPT ![v] = 0]
    /\ exits' = [exits EXCEPT ![v] = None]
    /\ registered' = registered \ {v} /\ retired' = retired \union {v} /\ disabled' = disabled \ {v}
    /\ UNCHANGED <<validators, burned, admissions, plan>>

\* Conflicting votes on the last block, by a member of its set or of the one before.
applyValidatorEquivocation(v) ==
    /\ Transaction("free")
    /\ v \in (validators \union recent) \ disabled /\ bonds[v] >= MinBond
    /\ burned' = burned + bonds[v] /\ bonds' = [bonds EXCEPT ![v] = 0]
    /\ disabled' = disabled \union {v}
    /\ UNCHANGED <<validators, registered, retired, balances, exits, admissions, plan>>

\* As many bonded reserves as there are active validators, each with an admission.
applyValidatorRecoveryPlan(reserves) ==
    /\ Transaction("plan")
    /\ plan = None /\ rotation = None
    /\ Cardinality(reserves) = Cardinality(validators)
    /\ reserves \subseteq (registered \intersect Pending) \ (validators \union retired \union disabled)
    /\ \A v \in reserves : exits[v] = None /\ bonds[v] >= MinBond /\ admissions[v].expiry > height
    /\ plan' = [at |-> height + RecoveryDelay, reserves |-> reserves]
    /\ admissions' = [v \in Identities |->
           IF v \in reserves THEN [admissions[v] EXCEPT !.ready = 0, !.observed = 0] ELSE admissions[v]]
    /\ UNCHANGED <<membership, money, exits>>

-----------------------------------------------------------------------------
(* After the transactions                                                  *)

Cleared(adm) == [v \in Identities |-> IF adm[v] = None THEN None ELSE [adm[v] EXCEPT !.ready = 0, !.observed = 0]]

\* Mutant: a validator that was rotated in keeps its place in the queue.
ActivationKeepsSelected(adm, next) ==
    [v \in Identities |->
        IF v \in validators /\ v \notin next /\ exits[v] = None /\ v \notin disabled \union retired /\ bonds[v] >= MinBond
        THEN NewAdmission(height)
        ELSE Cleared(adm)[v]]

\* Selected newcomers leave the queue; members rotated out enter it again.
Activation(adm, next) ==
    [v \in Identities |->
        IF v \in next THEN None
        ELSE IF v \in validators /\ exits[v] = None /\ v \notin disabled \union retired /\ bonds[v] >= MinBond
             THEN NewAdmission(height)
        ELSE Cleared(adm)[v]]

\* An ordinary rotation cancels the plan: expired reserves are refunded.
PlanCancelled == scheduled # None /\ plan # None
ReleasedReserves == IF PlanCancelled THEN {v \in Reserves : admissions[v].expiry <= height} ELSE {}

EndBlock ==
    LET next == IF ActivatesNow THEN rotation.set ELSE validators
        pending == IF scheduled # None THEN scheduled ELSE IF ActivatesNow THEN None ELSE rotation
        gone == ReleasedReserves
    IN  /\ open /\ open' = FALSE
        /\ validators' = next
        /\ recent' = IF next # validators THEN validators ELSE {}
        /\ rotation' = IF pending # None /\ pending.set \intersect disabled # {} THEN None ELSE pending
        /\ floor' = IF ActivatesNow THEN height ELSE floor
        /\ balances' = balances + SumFunction([v \in Identities |-> IF v \in gone THEN bonds[v] ELSE 0])
        /\ bonds' = [v \in Identities |-> IF v \in gone THEN 0 ELSE bonds[v]]
        /\ registered' = registered \ gone /\ retired' = retired \union gone
        /\ admissions' = LET adm == IF ActivatesNow THEN Activation(admissions, next) ELSE admissions IN
               [v \in Identities |-> IF v \in gone THEN None
                                     ELSE IF PlanCancelled /\ v \in Reserves THEN Cleared(adm)[v] ELSE adm[v]]
        /\ plan' = IF PlanCancelled THEN None ELSE plan
        /\ exits' = [v \in Identities |->
               IF exits[v] # None /\ exits[v].unlock = 0 /\ v \notin next
               THEN [unlock |-> height + WithdrawalDelay] ELSE exits[v]]
        /\ setAt' = [h \in 0..MaxHeight |-> IF h >= height THEN next ELSE setAt[h]]
        /\ lastActive' = [v \in Identities |-> IF v \in next THEN height ELSE lastActive[v]]
        /\ kind' = "none" /\ txs' = 0 /\ scheduled' = None
        /\ UNCHANGED <<height, disabled, burned>>

\* The bond of an active validator shrinks after a missing reveal (SafetyRandomness).
SlashNonReveal(v) ==
    /\ Transaction("free")
    /\ v \in validators /\ exits[v] = None /\ bonds[v] > 1
    /\ bonds' = [bonds EXCEPT ![v] = @ - 1] /\ burned' = burned + 1
    /\ UNCHANGED <<membership, balances, exits, admissions, plan>>

\* Evidence that destroys the active quorum hands the chain to the reserves.
RecoveryBlock(offenders) ==
    LET h == height + 1
        spared == validators \ (disabled \union offenders)
        gone == ExpiredAdmissions(h)
    IN  /\ ~open /\ height < MaxHeight
        /\ plan # None /\ h >= plan.at
        /\ offenders # {} /\ offenders \subseteq validators \ disabled
        /\ \A v \in offenders : bonds[v] >= MinBond
        /\ Cardinality(spared) < quorum(Cardinality(validators))
        /\ height' = h
        /\ validators' = Reserves /\ recent' = {}
        /\ disabled' = disabled \union offenders
        /\ burned' = burned + SumFunction([v \in Identities |-> IF v \in offenders THEN bonds[v] ELSE 0])
        /\ balances' = balances + SumFunction([v \in Identities |-> IF v \in gone THEN bonds[v] ELSE 0])
        /\ bonds' = [v \in Identities |-> IF v \in offenders \union gone THEN 0 ELSE bonds[v]]
        /\ registered' = registered \ gone /\ retired' = retired \union gone
        /\ admissions' = [v \in Identities |-> IF v \in Reserves \union gone THEN None ELSE Cleared(admissions)[v]]
        /\ floor' = h /\ rotation' = None /\ plan' = None
        /\ exits' = [v \in Identities |->
               IF exits[v] # None /\ exits[v].unlock = 0 THEN [unlock |-> h + WithdrawalDelay] ELSE exits[v]]
        /\ setAt' = [i \in 0..MaxHeight |-> IF i >= h THEN Reserves ELSE setAt[i]]
        /\ lastActive' = [v \in Identities |-> IF v \in validators \union Reserves THEN h ELSE lastActive[v]]
        /\ UNCHANGED <<open, kind, txs, scheduled>>

Rotations == [at : {height + RotationDelay}, set : SUBSET Identities]

Next ==
    \/ StartBlock(None) \/ \E r \in Rotations : StartBlock(r)
    \/ \E v \in Identities : \/ applyValidatorBond(v) \/ applyValidatorAdmission(v)
                             \/ applyValidatorExitRequest(v) \/ applyValidatorWithdrawalClaim(v)
                             \/ applyValidatorEquivocation(v) \/ SlashNonReveal(v)
    \/ \E v \in Identities, o \in 0..MaxHeight : applyValidatorAdmissionReadiness(v, o)
    \/ \E s \in SUBSET Identities : applyValidatorRecoveryPlan(s) \/ RecoveryBlock(s)
    \/ EndBlock

Spec == Init /\ [][Next]_vars

-----------------------------------------------------------------------------
(* What fromVerifiedSnapshot checks of the state that a snapshot carries    *)

InRotation == IF rotation = None THEN {} ELSE rotation.set

\* A queue entry is bonded, plays no other part, and its readiness is that of
\* the active set; an expired one is there only because it was selected.
restoredAdmission(v) ==
    LET a == admissions[v] IN
    /\ v \in registered \ (validators \union disabled \union retired)
    /\ bonds[v] >= MinBond /\ exits[v] = None /\ a.submitted <= height
    /\ a.ready > 0 => /\ a.observed \in floor..height /\ setAt[a.observed] = validators
                      /\ a.ready \in (a.observed + 1)..(a.observed + ReadinessWindow)
    /\ a.expiry <= height => v \in Reserves \union InRotation

\* The cooldown of a request runs exactly while its validator is not active.
restoredExit(v) ==
    /\ v \in registered /\ (exits[v].unlock = 0 <=> v \in validators)
    /\ exits[v].unlock <= height + WithdrawalDelay
    /\ bonds[v] > 0 \/ v \in disabled

restoredRetirement(v) == v \notin registered \union disabled /\ bonds[v] = 0

restoredPlan ==
    /\ \A v \in Reserves : /\ v \in (registered \intersect Pending) \ (validators \union retired)
                           /\ bonds[v] >= MinBond /\ exits[v] = None /\ admissions[v].ready = 0
    /\ Cardinality(Reserves) \in {0, Cardinality(validators)}

restoredRotation == \A v \in InRotation : v \notin retired /\ exits[v] = None

restoredDisabled == \A v \in disabled : v \in registered /\ bonds[v] = 0

-----------------------------------------------------------------------------
(* Properties                                                              *)

\* LifecycleConserved: bonds are locked, returned or burned, never lost or doubled.
LifecycleConserved ==
    balances + burned + SumFunction(bonds) = Funds + MinBond * Cardinality(Genesis)

\* RetiredIsOut: the tombstone of an identity is final: a retired validator is in no
\* set, queue, rotation or plan again, and holds no bond.
RetiredIsOut ==
    \A v \in retired : /\ v \notin validators \union registered \union Pending \union Reserves
                       /\ rotation # None => v \notin rotation.set
                       /\ bonds[v] = 0

\* SlashableUntilCooldown: "the bond remains slashable until finalized exclusion and a
\* provisional 64-block testnet cooldown have both completed" (docs/protocol.md): no
\* validator takes its bond home while active or sooner than that after it was.
SlashableUntilCooldown ==
    \A v \in Identities :
           (exits[v] # None /\ exits'[v] = None)
           => v \notin validators /\ height >= lastActive[v] + WithdrawalDelay

\* ReadinessIsCurrent: a candidate counts as ready only on an observation made by the
\* set that is active now, without another set in between (also after A, B, A).
ReadinessIsCurrent ==
    \A v \in Pending : admissions[v].ready > 0 =>
        \A h \in admissions[v].observed..(height - 1) : setAt[h] = validators

\* ReservesKept: while a plan stands its reserves stay in the queue, so that cancelling
\* the plan never finds one missing and refuses every rotation.
ReservesKept == plan # None => Reserves \subseteq Pending /\ Reserves \subseteq registered

\* SnapshotRestores: the state between any two blocks passes the checks of
\* fromVerifiedSnapshot, so a node can always join or restart from it.  The one
\* state the code does not accept is left out: the queue entry of a validator
\* that was slashed after it had been rotated out (see the README).
SnapshotRestores ==
    (~open /\ disabled \intersect (Pending \union retired) = {}) =>
        /\ \A v \in Pending : restoredAdmission(v)
        /\ \A v \in Identities : exits[v] # None => restoredExit(v)
        /\ \A v \in retired : restoredRetirement(v)
        /\ restoredPlan /\ restoredRotation /\ restoredDisabled
        /\ recent # {} => recent # validators

=============================================================================
