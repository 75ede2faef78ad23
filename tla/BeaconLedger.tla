---------------------------- MODULE BeaconLedger ----------------------------
(***************************************************************************)
(* Beacon authorities in blockchain/chain.mjs with EpochRandomnessMachine  *)
(* of blockchain/operators.mjs: bonds, delayed admissions, rotations,      *)
(* retirements and the commit/reveal rounds.  StartBlock is the part of    *)
(* #applyBlock before the transactions, EndBlock the part after them.  The *)
(* hash that selects a committee is a free choice among the eligible; the  *)
(* rank of an admission is the order of Rank.                              *)
(***************************************************************************)
EXTENDS Integers, FiniteSets, FiniteSetsExt

CONSTANTS
    Authorities, Genesis,
    Legacy,              \* registered but inactive in the restored state
    Rank,                \* Rank[a]: beaconAdmissionRank, distinct numbers
    Withholders,         \* authorities that may let a reveal time out
    MinBond,             \* MIN_BEACON_BOND
    StartBond,           \* bond of the genesis authorities in the first state
    RevealTimeout,       \* EPOCH_REVEAL_TIMEOUT_BLOCKS
    RotationDelay, RetirementDelay, AdmissionDelay, AdmissionExpiry,
    Funds, MaxTx, MaxHeight


None == [none |-> TRUE]

VARIABLES
    height, open, kind, txs,   \* the block being applied
    active, registered, retired,
    bonds, balances, burned, bondingActive,
    admissions,                \* admissions[a]: None or [activation, expiry]
    retirements,               \* retirements[a]: None or [unlock]
    rotation, scheduled,       \* None or [at, set]
    committee, commits, reveals, commitHeight, excluded, disabled

block == <<height, open, kind, txs>>
members == <<active, registered, retired>>
money == <<bonds, balances, burned, bondingActive>>
machine == <<committee, commits, reveals, commitHeight, excluded, disabled>>
vars == <<block, members, money, admissions, retirements, rotation, scheduled, machine>>

\* Mutant: one member more than two thirds plus one.
OneTooMany(set) == (2 * Cardinality(set)) \div 3 + 2

committeeSize(set) == (2 * Cardinality(set)) \div 3 + 1
\* selectOperatorCommittee: some committee of the right size.
Committees(set, out) == {c \in SUBSET (set \ out) : Cardinality(c) = committeeSize(set)}

Init ==
    /\ height = 0 /\ open = FALSE /\ kind = "none" /\ txs = 0
    /\ active = Genesis /\ registered = Genesis \union Legacy /\ retired = {}
    /\ bonds = [a \in Authorities |-> IF a \in Legacy THEN MinBond ELSE IF a \in Genesis THEN StartBond ELSE 0] /\ balances = Funds /\ burned = 0 /\ bondingActive = FALSE
    /\ admissions = [a \in Authorities |-> None] /\ retirements = [a \in Authorities |-> None]
    /\ rotation = None /\ scheduled = None
    /\ committee \in Committees(Genesis, {})
    /\ commits = {} /\ reveals = {} /\ commitHeight = 0 /\ excluded = {} /\ disabled = {}

InRotation(r) == IF r = None THEN {} ELSE r.set
ActivatesNow == rotation # None /\ rotation.at = height

-----------------------------------------------------------------------------
(* Before the transactions                                                 *)

NonRevealers == committee \ reveals
\* expire acts on the block of height h: the reveal window is over.
TimedOut(h) == commitHeight # 0 /\ h > commitHeight + RevealTimeout /\ NonRevealers # {}

\* Otherwise expire throws, and with it every block that could follow.
CanRotateCommittee ==
    /\ Cardinality(active) - Cardinality(excluded) - Cardinality(NonRevealers) >= committeeSize(active)
    /\ Committees(active, excluded \union NonRevealers \union disabled) # {}

\* Burns 1 %, at least one unit; below the minimum the authority is disabled.
SlashNonRevealers ==
    LET penalty(a) == IF bonds[a] >= 100 THEN bonds[a] \div 100 ELSE 1
        faulty == IF bondingActive THEN NonRevealers ELSE {}
    IN  /\ \A a \in faulty : bonds[a] >= MinBond
        /\ bonds' = [a \in Authorities |-> IF a \in faulty THEN bonds[a] - penalty(a) ELSE bonds[a]]
        /\ burned' = burned + SumFunction([a \in faulty |-> penalty(a)])
        /\ disabled' = disabled \union {a \in faulty : bonds'[a] < MinBond}

expire(h) ==
    IF TimedOut(h)
    THEN /\ CanRotateCommittee
         /\ excluded' = excluded \union NonRevealers
         /\ commitHeight' = 0 /\ commits' = {} /\ reveals' = {}
         /\ committee' \in Committees(active, excluded' \union disabled)
         /\ SlashNonRevealers
    ELSE UNCHANGED <<machine, bonds, burned>>

\* Members are active or come from the front of the eligible queue.
assertBeaconRotationAdmissions(r) ==
    LET eligible == {a \in Authorities : /\ admissions[a] # None
                                         /\ admissions[a].activation <= height
                                         /\ admissions[a].expiry > r.at}
        newcomers == r.set \ active
    IN  /\ newcomers \subseteq eligible
        /\ \A a \in newcomers, b \in eligible \ newcomers : Rank[a] < Rank[b]

verifyBeaconRotation(r) ==
    /\ Cardinality(r.set) = Cardinality(active)
    /\ 3 * Cardinality(r.set \intersect active) >= Cardinality(active)
    /\ \A a \in r.set : bonds[a] >= MinBond
    /\ r.at >= height + RotationDelay

StartBlock(r) ==
    /\ ~open /\ height < MaxHeight
    /\ r # None => rotation = None /\ bondingActive /\ assertBeaconRotationAdmissions(r) /\ verifyBeaconRotation(r)
    /\ expire(height + 1)
    /\ height' = height + 1 /\ open' = TRUE /\ txs' = 0 /\ scheduled' = r
    /\ kind' = IF r # None THEN "rotation" ELSE "none"
    /\ UNCHANGED <<members, balances, bondingActive, admissions, retirements, rotation>>

\* Contributions are applied before the transactions, none at a boundary.
Contribution(a) ==
    /\ open /\ txs = 0 /\ ~ActivatesNow
    /\ a \in committee
    /\ bondingActive => bonds[a] >= MinBond
    /\ UNCHANGED <<block, members, money, admissions, retirements, rotation, scheduled, disabled>>

commit(a) ==
    /\ Contribution(a) /\ a \notin commits
    /\ commits' = commits \union {a}
    /\ commitHeight' = IF commits' = committee THEN height ELSE commitHeight
    /\ UNCHANGED <<committee, reveals, excluded>>

\* The last reveal completes the round and selects the next committee.
reveal(a) ==
    /\ Contribution(a) /\ a \notin reveals /\ commitHeight # 0 /\ height > commitHeight
    /\ IF reveals \union {a} = committee
       THEN /\ committee' \in Committees(active, disabled)
            /\ commits' = {} /\ reveals' = {} /\ commitHeight' = 0 /\ excluded' = {}
       ELSE reveals' = reveals \union {a} /\ UNCHANGED <<committee, commits, commitHeight, excluded>>

-----------------------------------------------------------------------------
(* Transactions                                                            *)

Transaction(k) ==
    /\ open /\ txs < MaxTx /\ kind \in {"none", k}
    /\ kind' = k /\ txs' = txs + 1
    /\ UNCHANGED <<height, open, rotation, scheduled, machine, members, burned, bondingActive>>

\* A registered authority tops up; a new one pays the minimum and queues.
applyBeaconBond(a, amount) ==
    /\ Transaction("bond") /\ ~(a \in active /\ a \in disabled) /\ admissions[a] = None /\ balances >= amount
    /\ a \in registered \/ (a \notin retired /\ amount = MinBond)
    /\ balances' = balances - amount /\ bonds' = [bonds EXCEPT ![a] = @ + amount]
    /\ admissions' = IF a \in registered THEN admissions
                     ELSE [admissions EXCEPT ![a] = [activation |-> height + AdmissionDelay,
                                                     expiry |-> height + AdmissionDelay + AdmissionExpiry]]
    /\ UNCHANGED retirements

\* A registered authority outside the active and the next set may ask to
\* leave; the fee, one unit, comes out of the bond.  EndBlock starts the same
\* retirement by itself: only the block after a restored state meets such one.
applyBeaconRetirement(a) ==
    /\ Transaction("retire")
    /\ a \in registered \ (active \union InRotation(rotation)) /\ retirements[a] = None /\ bonds[a] > 1
    /\ bonds' = [bonds EXCEPT ![a] = @ - 1] /\ balances' = balances + 1
    /\ retirements' = [retirements EXCEPT ![a] = [unlock |-> height + RetirementDelay]]
    /\ UNCHANGED admissions

-----------------------------------------------------------------------------
(* After the transactions                                                  *)

\* A boundary at which a member has lost its bond cancels the rotation.
Activates == ActivatesNow /\ \A a \in rotation.set : bonds[a] >= MinBond
ActiveAfter == IF Activates THEN rotation.set ELSE active
RotationAfter == IF scheduled # None THEN scheduled ELSE IF ActivatesNow THEN None ELSE rotation
RegisteredAfter == IF Activates THEN registered \union rotation.set ELSE registered
AdmissionsAfter == [a \in Authorities |-> IF Activates /\ a \in rotation.set THEN None ELSE admissions[a]]
\* Whoever is registered and in neither set starts to retire.
RetirementsAfter ==
    [a \in Authorities |-> IF a \in RegisteredAfter \ (ActiveAfter \union InRotation(RotationAfter)) /\ retirements[a] = None
                           THEN [unlock |-> height + RetirementDelay] ELSE retirements[a]]
Expiring == {a \in Authorities : AdmissionsAfter[a] # None /\ height >= AdmissionsAfter[a].expiry} \ InRotation(RotationAfter)
Maturing == {a \in Authorities : RetirementsAfter[a] # None /\ height >= RetirementsAfter[a].unlock}

\* The conditions under which the end of a block throws.
EndAccepted ==
    /\ \A a \in Expiring : bonds[a] = MinBond /\ a \notin retired
    /\ \A a \in Maturing : /\ a \notin ActiveAfter \union InRotation(RotationAfter)
                           /\ a \in RegisteredAfter \ retired /\ bonds[a] > 0

\* Expired admissions lose 10 %, matured retirements get their bond back.
Settle ==
    /\ balances' = balances + SumFunction([a \in Expiring |-> bonds[a] - bonds[a] \div 10]) + SumFunction([a \in Maturing |-> bonds[a]])
    /\ burned' = burned + SumFunction([a \in Expiring |-> bonds[a] \div 10])
    /\ bonds' = [a \in Authorities |-> IF a \in Expiring \union Maturing THEN 0 ELSE bonds[a]]

EndBlock ==
    /\ open /\ EndAccepted
    \* Only withholders miss the window: the others reveal in time.
    /\ TimedOut(height + 1) => NonRevealers \subseteq Withholders
    /\ open' = FALSE /\ kind' = "none" /\ txs' = 0 /\ scheduled' = None
    /\ bondingActive' = (bondingActive \/ \A a \in active : bonds[a] >= MinBond)
    /\ active' = ActiveAfter /\ rotation' = RotationAfter
    /\ IF Activates
       THEN /\ committee' \in Committees(ActiveAfter, {})
            /\ commits' = {} /\ reveals' = {} /\ commitHeight' = 0 /\ excluded' = {} /\ disabled' = {}
       ELSE UNCHANGED machine
    /\ Settle
    /\ admissions' = [a \in Authorities |-> IF a \in Expiring THEN None ELSE AdmissionsAfter[a]]
    /\ retirements' = [a \in Authorities |-> IF a \in Maturing THEN None ELSE RetirementsAfter[a]]
    /\ registered' = RegisteredAfter \ Maturing /\ retired' = retired \union Expiring \union Maturing
    /\ UNCHANGED height

Next ==
    \/ \E r \in {None} \union [at : {height + RotationDelay}, set : SUBSET Authorities] : StartBlock(r)
    \/ \E a \in Authorities : commit(a) \/ reveal(a)
    \/ \E a \in Authorities, n \in {1, MinBond} : applyBeaconBond(a, n)
    \/ \E a \in Authorities : applyBeaconRetirement(a)
    \/ EndBlock

Spec == Init /\ [][Next]_vars

-----------------------------------------------------------------------------
(* What fromVerifiedSnapshot checks of the state that a snapshot carries    *)

restoredAdmission(a) ==
    /\ admissions[a].expiry > height /\ bonds[a] = MinBond /\ a \notin registered \union retired

restoredRetirement(a) ==
    /\ retirements[a].unlock > height /\ bonds[a] > 0
    /\ a \in registered \ (active \union InRotation(rotation))

\* verifyBeaconRotation again, with the bonds of today.
restoredRotation ==
    /\ rotation.at > height /\ Cardinality(rotation.set) = Cardinality(active)
    /\ 3 * Cardinality(rotation.set \intersect active) >= Cardinality(active)
    /\ \A a \in rotation.set : a \in registered \/ (admissions[a] # None /\ admissions[a].expiry > rotation.at)

restoredRegistry == active \subseteq registered /\ registered \intersect retired = {}

\* EpochRandomnessMachine.fromSnapshot selects the committee again.
fromSnapshot ==
    /\ excluded \union disabled \subseteq active
    /\ committee \in Committees(active, excluded \union disabled)
    /\ commits \subseteq committee /\ reveals \subseteq commits
    /\ IF commitHeight = 0 THEN commits # committee /\ reveals = {} ELSE commits = committee

-----------------------------------------------------------------------------
(* Properties                                                              *)

\* Bonds, balances and burned coins add up: slashing, expiry and retirement
\* of the same identity never pay or burn a unit twice.
BeaconConserved == balances + burned + SumFunction(bonds) = Funds + MinBond * Cardinality(Legacy) + StartBond * Cardinality(Genesis)

\* The hooks of #applyBlock that throw on inconsistent retirements or
\* admissions never do: a block may always end.
EndNeverThrows == open => EndAccepted

\* Every committee member the next timeout would slash still has the minimum
\* bond; otherwise slashing throws and no block follows.
CommitteeBonded == bondingActive => \A a \in committee : bonds[a] >= MinBond

\* While at most a third of the authorities withhold, a timeout always finds
\* another committee and the chain goes on.  With more, expire throws for
\* every later block.
NeverWedged == ~open /\ TimedOut(height + 1) => CanRotateCommittee

\* Every registered authority outside the active and the next set is on its
\* way out once a block is applied: no bond stays locked without an end.
RetirementAutomatic == ~open /\ height > 0 => \A a \in registered \ (active \union InRotation(rotation)) : retirements[a] # None

\* The state between any two blocks passes the checks of fromVerifiedSnapshot.
\* The one that the code refuses is left out: a pending rotation of which a
\* member has since been slashed below the minimum (see the README).
BeaconSnapshotRestores ==
    ~open =>
        /\ restoredRegistry /\ fromSnapshot
        /\ \A a \in Authorities : admissions[a] # None => restoredAdmission(a)
        /\ \A a \in Authorities : retirements[a] # None => restoredRetirement(a)
        /\ rotation # None => restoredRotation

=============================================================================
