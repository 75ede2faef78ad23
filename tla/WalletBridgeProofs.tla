------------------------- MODULE WalletBridgeProofs -------------------------
(***************************************************************************)
(* Proofs about WalletBridge, for any accounts, networks, requests and     *)
(* bounds.                                                                 *)
(***************************************************************************)
EXTENDS WalletBridge, FiniteSetTheorems, TLAPS

\* A finalized state, or none.
States == {NoState} \cup (Networks \X Int)
Kinds == {"idle", "pair", "sign", "attest", "founder", "app-connect", "select", "create", "verify", "security"}
Phases == {"idle", "body", "dialog"}
Requests == [kind : Kinds, phase : Phases, gen : Nat, account : Accounts \cup {""},
             state : States, base : Int]

\* The variables the properties depend on keep their types.
TypeOK ==
    /\ active \in Accounts /\ entries \subseteq Accounts /\ gen \in Nat
    /\ req \in [Reqs -> Requests]
    /\ accountStates \in [Accounts -> States]
    /\ net \in Networks /\ checkpoint \in Int /\ tip \in Int /\ headers \in Nat
    /\ saved \in [Networks -> {None} \cup Nat] /\ known \in Nat
    /\ opts \in [checkpoint : BOOLEAN, headers : BOOLEAN, handoffs : BOOLEAN]
    /\ simCount \in 0..MaxSims /\ consumed \in [1..MaxSims -> Nat]

\* A dialog whose confirmation makes a signature with a vault of this wallet.
Signing(q) == q.phase = "dialog" /\ q.kind \in {"sign", "attest", "founder"}

\* A request belongs to this generation of the session or to an earlier one.
OfGeneration == \A r \in Reqs : req[r].gen <= gen

\* The dialog of a payment belongs to the active account as long as its session does.
OfAccount ==
    \A r \in Reqs :
        req[r].kind = "sign" /\ req[r].phase = "dialog" /\ req[r].gen = gen => req[r].account = active

\* At most one such dialog is open, and pending says so.
OneDialog ==
    /\ \A q, r \in Reqs : Signing(req[q]) /\ Signing(req[r]) => q = r
    /\ \A r \in Reqs : Signing(req[r]) => pending

\* A simulation in the table was not attempted yet, and its id names it alone.
Unattempted ==
    /\ \A s \in sims : s.id \in 1..simCount /\ consumed[s.id] = 0
    /\ \A s, t \in sims : s.id = t.id => s = t
    /\ \A i \in 1..MaxSims : i > simCount => consumed[i] = 0

\* The header history reaches the tip and the saved checkpoint, and the handoff
\* history the last handoff that the checkpoint names.
HistoryReaches ==
    /\ opts.headers => (tip # None => headers >= tip) /\ (SavedHere # None => headers >= SavedHere)
    /\ opts.handoffs => requireCheckpointHandoff(SavedHere, known)

RequestInv == OfGeneration /\ OfAccount /\ OneDialog /\ PaymentAlone
SimulationInv == Unattempted /\ SimulationOnce /\ SimulationsCurrent
BridgeInv == TypeOK /\ RequestInv /\ SimulationInv /\ HistoryReaches /\ DialogShown

-----------------------------------------------------------------------------
(* The operators                                                           *)

\* The requests that the handlers build.
LEMMA RequestFacts ==
  ASSUME TypeOK
  PROVE  /\ Idle \in Requests /\ ~Signing(Idle)
         /\ Empty \in [Accounts -> States]
         /\ Base \in Int /\ Persisted \in Int
<1>1. NoState \in States
  BY DEF States
<1>2. Idle \in Requests
  <2>1. None \in Int
    BY DEF None
  <2>2. QED
    BY <1>1, <2>1 DEF Requests, Idle, Kinds, Phases
<1>a. ~Signing(Idle)
  BY DEF Idle, Signing
<1>3. Empty \in [Accounts -> States]
  BY <1>1 DEF Empty
<1>4. Base \in Int /\ Persisted \in Int
  BY DEF TypeOK, Base, Persisted, None
<1>5. QED
  BY <1>2, <1>a, <1>3, <1>4

\* There are finitely many handoffs, and so up to every height.
LEMMA BehindType ==
  ASSUME NEW h
  PROVE  Behind(h) \in Nat
<1>1. {x \in Handoffs : x <= h} \subseteq Handoffs
  OBVIOUS
<1>2. IsFiniteSet({x \in Handoffs : x <= h})
  BY <1>1, BridgeConstants, FS_Subset
<1>3. QED
  BY <1>2, FS_CardinalityType DEF Behind

\* A saved checkpoint is a height.
LEMMA SavedNat ==
  ASSUME TypeOK
  PROVE  SavedHere \in {None} \cup Nat
BY DEF TypeOK, SavedHere

\* A set of finalized states is finite, and the one of a simulation has one member.
LEMMA OneState ==
  ASSUME TypeOK, NEW others \in SUBSET Accounts, NEW assets \in SUBSET Holders,
         NEW E, E = {accountStates[a] : a \in others \cup {active}} \cup {assetStates[a] : a \in assets},
         bridgeSimulationEvidence(E)
  PROVE  E = {accountStates[active]}
<1> DEFINE O == others \cup {active}
           F == {accountStates[a] : a \in O}
           G == {assetStates[a] : a \in assets}
           f == [a \in O |-> accountStates[a]]
           g == [a \in assets |-> assetStates[a]]
<1>1. IsFiniteSet(O) /\ IsFiniteSet(assets)
  <2>1. O \subseteq Accounts /\ assets \subseteq Accounts
    BY BridgeConstants DEF TypeOK
  <2>2. QED
    BY <2>1, BridgeConstants, FS_Subset
<1>2. IsFiniteSet(F)
  <2>1. f \in Surjection(O, F)
    BY DEF Surjection
  <2>2. QED
    BY <2>1, <1>1, FS_Surjection
<1>3. IsFiniteSet(G)
  <2>1. g \in Surjection(assets, G)
    BY DEF Surjection
  <2>2. QED
    BY <2>1, <1>1, FS_Surjection
<1>4. IsFiniteSet(E)
  BY <1>2, <1>3, FS_Union
<1>5. PICK x : E = {x}
  BY <1>4, FS_Singleton DEF bridgeSimulationEvidence
<1>6. accountStates[active] \in E
  OBVIOUS
<1>7. QED
  BY <1>5, <1>6

\* An action that opens no dialog, and leaves the flags of an open one alone, keeps
\* the invariant of the requests.
LEMMA NoNewDialog ==
  ASSUME TypeOK, RequestInv, gen' \in Nat, gen' >= gen, active' = active \/ gen' > gen,
         \A r \in Reqs : req'[r].gen <= gen',
         \A r \in Reqs : Signing(req'[r]) => req'[r] = req[r],
         \A r \in Reqs : Signing(req'[r]) => pending',
         \A r \in Reqs : Signing(req'[r]) /\ req'[r].kind = "sign" => ~securityPending' /\ ~accountPending'
  PROVE  RequestInv'
<1>1. OfGeneration'
  BY DEF OfGeneration
<1>2. OfAccount'
  <2>1. SUFFICES ASSUME NEW r \in Reqs, req'[r].kind = "sign", req'[r].phase = "dialog", req'[r].gen = gen'
                 PROVE  req'[r].account = active'
    BY DEF OfAccount
  <2>2. req'[r] = req[r]
    BY <2>1 DEF Signing
  <2>3. req[r].gen \in Nat /\ req[r].gen <= gen /\ gen \in Nat /\ gen' \in Nat
    BY DEF TypeOK, Requests, RequestInv, OfGeneration
  <2>4. gen' = gen /\ active' = active
    BY <2>1, <2>2, <2>3
  <2>5. QED
    BY <2>1, <2>2, <2>4 DEF RequestInv, OfAccount
<1>3. OneDialog'
  BY DEF OneDialog, RequestInv
<1>4. PaymentAlone'
  BY DEF PaymentAlone, RequestInv, Signing
<1>5. QED
  BY <1>1, <1>2, <1>3, <1>4 DEF RequestInv

\* An action that gives request r a value that is no such dialog.
LEMMA RequestMoves ==
  ASSUME TypeOK, RequestInv, NEW r \in Reqs, NEW v \in Requests, ~Signing(v), v.gen <= gen',
         req' = [req EXCEPT ![r] = v], gen' \in Nat, gen' >= gen
  PROVE  /\ req' \in [Reqs -> Requests]
         /\ \A q \in Reqs : req'[q].gen <= gen'
         /\ \A q \in Reqs : Signing(req'[q]) => q # r /\ req'[q] = req[q]
<1>1. req' \in [Reqs -> Requests]
  BY DEF TypeOK
<1>2. \A q \in Reqs : req'[q] = IF q = r THEN v ELSE req[q]
  BY DEF TypeOK
<1>3. \A q \in Reqs : req[q].gen \in Nat /\ req[q].gen <= gen
  BY DEF TypeOK, Requests, RequestInv, OfGeneration
<1>4. v.gen \in Nat
  BY DEF Requests
<1>5. QED
  BY <1>1, <1>2, <1>3, <1>4 DEF TypeOK

\* An action that leaves the simulations alone, or only takes some out of the table.
LEMMA SimulationsStay ==
  ASSUME TypeOK, SimulationInv, sims' \subseteq sims, UNCHANGED <<simCount, consumed>>,
         sims' = {} \/ UNCHANGED <<accountStates, active>>
  PROVE  SimulationInv'
BY DEF SimulationInv, Unattempted, SimulationOnce, SimulationsCurrent

\* An action that gives request r such a value, and under the dialog of another
\* request changes no flag.
LEMMA RequestReplaced ==
  ASSUME TypeOK, RequestInv, NEW r \in Reqs, NEW v \in Requests, ~Signing(v), v.gen <= gen',
         req' = [req EXCEPT ![r] = v], gen' \in Nat, gen' >= gen, active' = active \/ gen' > gen,
         \/ ~pending \/ Signing(req[r])
         \/ pending' /\ (securityPending' => securityPending) /\ (accountPending' => accountPending)
  PROVE  RequestInv' /\ req' \in [Reqs -> Requests]
<1>1. /\ req' \in [Reqs -> Requests]
      /\ \A q \in Reqs : req'[q].gen <= gen'
      /\ \A q \in Reqs : Signing(req'[q]) => q # r /\ req'[q] = req[q]
  BY RequestMoves
<1>2. \A q \in Reqs : Signing(req'[q]) =>
         pending' /\ (securityPending' => securityPending) /\ (accountPending' => accountPending)
  BY <1>1 DEF RequestInv, OneDialog
<1>3. \A q \in Reqs : Signing(req'[q]) => pending'
  BY <1>2
<1>4. \A q \in Reqs : Signing(req'[q]) /\ req'[q].kind = "sign" => ~securityPending' /\ ~accountPending'
  BY <1>1, <1>2 DEF RequestInv, PaymentAlone, Signing
<1>5. RequestInv'
  BY <1>1, <1>3, <1>4, NoNewDialog
<1>6. QED
  BY <1>1, <1>5

\* An action that changes a request, the pairing and the session and nothing else.
LEMMA RequestAlone ==
  ASSUME BridgeInv, NEW r \in Reqs, NEW v \in Requests, ~Signing(v), v.gen <= gen,
         req' = [req EXCEPT ![r] = v],
         UNCHANGED <<opts, entries, active, gen, flags, trust, evidence, simCount, consumed, strays>>
  PROVE  BridgeInv'
<1>1. gen' \in Nat /\ gen' >= gen /\ v.gen <= gen' /\ active' = active
  BY DEF BridgeInv, TypeOK
<1>2. \/ ~pending \/ Signing(req[r])
      \/ pending' /\ (securityPending' => securityPending) /\ (accountPending' => accountPending)
  BY DEF flags
<1>3. RequestInv' /\ req' \in [Reqs -> Requests]
  BY <1>1, <1>2, RequestReplaced DEF BridgeInv
<1>4. TypeOK'
  BY <1>3 DEF BridgeInv, TypeOK, trust, evidence
<1>5. SimulationInv'
  BY SimulationsStay DEF BridgeInv, evidence
<1>6. HistoryReaches' /\ DialogShown'
  BY DEF BridgeInv, HistoryReaches, SavedHere, DialogShown, trust
<1>7. QED
  BY <1>3, <1>4, <1>5, <1>6 DEF BridgeInv

\* A step that changes none of these variables.
LEMMA BridgeStutters ==
  ASSUME BridgeInv, UNCHANGED <<opts, entries, active, gen, flags, trust, evidence, simCount, consumed, strays, req>>
  PROVE  BridgeInv'
<1>1. TypeOK'
  BY DEF BridgeInv, TypeOK, trust, evidence
<1>2. RequestInv'
  BY DEF BridgeInv, RequestInv, OfGeneration, OfAccount, OneDialog, PaymentAlone, flags
<1>3. SimulationInv'
  BY SimulationsStay DEF BridgeInv, evidence
<1>4. HistoryReaches' /\ DialogShown'
  BY DEF BridgeInv, HistoryReaches, SavedHere, DialogShown, trust
<1>5. QED
  BY <1>1, <1>2, <1>3, <1>4 DEF BridgeInv

-----------------------------------------------------------------------------
(* The initial state                                                       *)

LEMMA BridgeInit ==
  ASSUME Init
  PROVE  BridgeInv
<1>1. active \in Accounts /\ net \in Networks
  BY BridgeConstants DEF Init
<1>2. NoState \in States /\ Idle \in Requests /\ ~Signing(Idle) /\ Empty \in [Accounts -> States]
  <2>1. NoState \in States
    BY DEF States
  <2>2. None \in Int
    BY DEF None
  <2>3. Idle \in Requests
    BY <2>1, <2>2 DEF Requests, Idle, Kinds, Phases
  <2>4. ~Signing(Idle)
    BY DEF Idle, Signing
  <2>5. Empty \in [Accounts -> States]
    BY <2>1 DEF Empty
  <2>6. QED
    BY <2>1, <2>3, <2>4, <2>5
<1>3. TypeOK
  BY <1>1, <1>2, BridgeConstants DEF Init, TypeOK, None
<1>4. RequestInv
  <2>a. Idle.kind = "idle" /\ Idle.gen = 0
    BY DEF Idle
  <2>1. \A r \in Reqs : req[r] = Idle
    BY DEF Init
  <2>2. OfGeneration
    <3>1. gen = 0
      BY DEF Init
    <3>2. QED
      BY <3>1, <2>1, <2>a DEF OfGeneration
  <2>3. OfAccount
    BY <2>1, <2>a DEF OfAccount
  <2>4. OneDialog
    BY <2>1, <1>2 DEF OneDialog
  <2>5. PaymentAlone
    BY <2>1, <2>a DEF PaymentAlone
  <2>6. QED
    BY <2>2, <2>3, <2>4, <2>5 DEF RequestInv
<1>5. SimulationInv
  BY DEF Init, SimulationInv, Unattempted, SimulationOnce, SimulationsCurrent
<1>6. HistoryReaches
  <2>1. SavedHere = None /\ tip = None
    BY DEF Init, SavedHere
  <2>2. QED
    BY <2>1 DEF HistoryReaches, requireCheckpointHandoff
<1>7. DialogShown
  BY DEF Init, DialogShown
<1>8. QED
  BY <1>3, <1>4, <1>5, <1>6, <1>7 DEF BridgeInv

-----------------------------------------------------------------------------
(* Sessions and accounts                                                   *)

\* What a new session generation does to the rest.
LEMMA GenerationEnds ==
  ASSUME BridgeInv, gen' = gen + 1, ClearEvidence,
         UNCHANGED <<opts, entries, active, flags, trust, simCount, consumed, req, strays>>
  PROVE  BridgeInv'
<1>1. gen' \in Nat /\ gen' >= gen /\ gen \in Nat
  BY DEF BridgeInv, TypeOK
<1>2. TypeOK'
  <2>1. accountStates' \in [Accounts -> States]
    BY RequestFacts DEF BridgeInv, ClearEvidence
  <2>2. QED
    BY <1>1, <2>1 DEF BridgeInv, TypeOK, trust
<1>3. RequestInv'
  <2>1. \A r \in Reqs : req'[r].gen <= gen'
    <3>1. \A r \in Reqs : req[r].gen \in Nat /\ req[r].gen <= gen
      BY DEF BridgeInv, TypeOK, Requests, RequestInv, OfGeneration
    <3>2. QED
      BY <1>1, <3>1
  <2>2. \A r \in Reqs : Signing(req'[r]) => pending'
    BY DEF BridgeInv, RequestInv, OneDialog, flags
  <2>3. \A r \in Reqs : Signing(req'[r]) /\ req'[r].kind = "sign" => ~securityPending' /\ ~accountPending'
    BY DEF BridgeInv, RequestInv, PaymentAlone, Signing, flags
  <2>4. active' = active /\ \A r \in Reqs : req'[r] = req[r]
    OBVIOUS
  <2>5. QED
    BY <1>1, <2>1, <2>2, <2>3, <2>4, NoNewDialog DEF BridgeInv
<1>4. SimulationInv'
  BY SimulationsStay DEF BridgeInv, ClearEvidence
<1>5. HistoryReaches' /\ DialogShown'
  BY DEF BridgeInv, HistoryReaches, SavedHere, DialogShown, trust
<1>6. QED
  BY <1>2, <1>3, <1>4, <1>5 DEF BridgeInv

\* What activating an account does to the session and the evidence.
LEMMA ActivateFacts ==
  ASSUME TypeOK, NEW a \in Accounts, Activate(a)
  PROVE  /\ gen' \in Nat /\ gen' >= gen /\ (active' = active \/ gen' > gen)
         /\ active' \in Accounts /\ accountStates' \in [Accounts -> States]
         /\ sims' \subseteq sims /\ (sims' = {} \/ UNCHANGED <<accountStates, active>>)
<1>1. CASE a = active
  BY <1>1 DEF Activate, TypeOK, evidence
<1>2. CASE a # active
  BY <1>2, RequestFacts DEF Activate, TypeOK, ClearEvidence
<1>3. QED
  BY <1>1, <1>2

\* A request that ends, and under the dialog of another one changes no flag.
LEMMA RequestEnds ==
  ASSUME TypeOK, RequestInv, NEW r \in Reqs, End(r), gen' \in Nat, gen' >= gen, active' = active \/ gen' > gen,
         \/ ~pending \/ Signing(req[r])
         \/ pending' /\ (securityPending' => securityPending) /\ (accountPending' => accountPending)
  PROVE  RequestInv' /\ req' \in [Reqs -> Requests]
<1>1. Idle \in Requests /\ ~Signing(Idle)
  BY RequestFacts
<1>a. Idle.gen <= gen'
  BY DEF Idle
<1>2. req' = [req EXCEPT ![r] = Idle]
  BY DEF End
<1>3. QED
  BY <1>1, <1>a, <1>2, RequestReplaced

LEMMA SessionStep ==
  ASSUME BridgeInv,
         \/ Disconnect \/ RestartPairing
         \/ \E r \in Reqs :
              \/ PairStart(r) \/ PairRight(r) \/ PairWrong(r) \/ Refuse(r)
              \/ \E k \in Kinds : Arrive(r, k)
  PROVE  BridgeInv'
<1>1. CASE Disconnect \/ RestartPairing
  BY <1>1, GenerationEnds DEF Disconnect, RestartPairing
<1>a. gen \in Nat
  BY DEF BridgeInv, TypeOK
<1>2. ASSUME NEW r \in Reqs, PairStart(r) PROVE BridgeInv'
  <2>1. CASE pairing.attempts < MaxAttempts
    <3> DEFINE v == [Idle EXCEPT !.kind = "pair", !.phase = "body"]
    <3>1. v \in Requests /\ ~Signing(v) /\ v.gen <= gen
      <4>1. Idle \in Requests
        BY RequestFacts DEF BridgeInv
      <4>2. v.gen = 0
        BY DEF Idle
      <4>3. v.phase = "body"
        BY DEF Idle
      <4>4. v \in Requests
        BY <4>1 DEF Requests, Kinds, Phases
      <4>5. QED
        BY <4>2, <4>3, <4>4, <1>a DEF Signing
    <3>2. req' = [req EXCEPT ![r] = v]
      BY <1>2, <2>1 DEF PairStart
    <3>3. QED
      BY <1>2, <3>1, <3>2, RequestAlone DEF PairStart
  <2>2. CASE ~(pairing.attempts < MaxAttempts)
    BY <1>2, <2>2, BridgeStutters DEF PairStart
  <2>3. QED
    BY <2>1, <2>2
<1>3. ASSUME NEW r \in Reqs, PairRight(r) \/ PairWrong(r) \/ Refuse(r) PROVE BridgeInv'
  <2>1. Idle \in Requests /\ ~Signing(Idle)
    BY RequestFacts DEF BridgeInv
  <2>2. Idle.gen <= gen
    BY <1>a DEF Idle
  <2>3. req' = [req EXCEPT ![r] = Idle]
    BY <1>3 DEF PairRight, PairWrong, Refuse, End
  <2>4. QED
    BY <1>3, <2>1, <2>2, <2>3, RequestAlone DEF PairRight, PairWrong, Refuse
<1>4. ASSUME NEW r \in Reqs, NEW k \in Kinds, Arrive(r, k) PROVE BridgeInv'
  <2> DEFINE v == [Idle EXCEPT !.kind = k, !.phase = "body", !.gen = gen,
                               !.base = IF k = "verify" THEN Base ELSE None]
  <2>1. v \in Requests /\ ~Signing(v) /\ v.gen <= gen
    <3>1. Idle \in Requests /\ Base \in Int
      BY RequestFacts DEF BridgeInv
    <3>2. None \in Int
      BY DEF None
    <3>3. v.gen = gen /\ v.phase = "body"
      BY DEF Idle
    <3>4. v \in Requests
      BY <3>1, <3>2, <1>a DEF Requests, Phases
    <3>5. QED
      BY <3>3, <3>4, <1>a DEF Signing
  <2>2. req' = [req EXCEPT ![r] = v]
    BY <1>4 DEF Arrive
  <2>3. QED
    BY <1>4, <2>1, <2>2, RequestAlone DEF Arrive
<1>5. QED
  BY <1>1, <1>2, <1>3, <1>4

-----------------------------------------------------------------------------
(* Dialogs                                                                 *)

\* A dialog with a vault of this wallet opens while no other one is open.
LEMMA DialogOpens ==
  ASSUME TypeOK, RequestInv, NEW r \in Reqs, req[r].kind \in {"sign", "attest", "founder"}, Dialog(r),
         ~pending, pending' = TRUE, UNCHANGED <<gen, active, securityPending, accountPending>>,
         req[r].kind = "sign" => ~securityPending /\ ~accountPending
  PROVE  RequestInv' /\ req' \in [Reqs -> Requests]
<1> DEFINE v == [req[r] EXCEPT !.phase = "dialog", !.gen = gen, !.account = active, !.state = accountStates[active]]
<1>1. req' = [req EXCEPT ![r] = v]
  BY DEF Dialog, TypeOK
<1>2. req[r] \in Requests /\ active \in Accounts /\ accountStates[active] \in States /\ gen \in Nat
  BY DEF TypeOK
<1>3. v \in Requests
  BY <1>2 DEF Requests, Phases
<1>4. v.kind = req[r].kind /\ v.gen = gen /\ v.account = active
  BY <1>2 DEF Requests
<1> HIDE DEF v
<1>5. req' \in [Reqs -> Requests]
  BY <1>1, <1>3 DEF TypeOK
<1>6. \A q \in Reqs : req'[q] = IF q = r THEN v ELSE req[q]
  BY <1>1 DEF TypeOK
<1>7. \A q \in Reqs : ~Signing(req[q])
  BY DEF RequestInv, OneDialog
<1>8. OfGeneration'
  BY <1>2, <1>4, <1>6 DEF OfGeneration, RequestInv
<1>9. OfAccount'
  BY <1>4, <1>6 DEF OfAccount, RequestInv
<1>10. OneDialog'
  BY <1>6, <1>7 DEF OneDialog
<1>11. PaymentAlone'
  <2>1. SUFFICES ASSUME NEW q \in Reqs, req'[q].kind = "sign", req'[q].phase = "dialog"
                 PROVE  pending' /\ ~securityPending' /\ ~accountPending'
    BY DEF PaymentAlone
  <2>2. q = r
    BY <2>1, <1>6, <1>7 DEF Signing
  <2>3. req[r].kind = "sign"
    BY <2>1, <2>2, <1>4, <1>6
  <2>4. QED
    BY <2>3
<1>12. QED
  BY <1>5, <1>8, <1>9, <1>10, <1>11 DEF RequestInv

\* A simulation is taken out of the table by the attempt to sign it.
LEMMA SimulationTaken ==
  ASSUME TypeOK, SimulationInv, NEW s \in sims, sims' = sims \ {s},
         consumed' = [consumed EXCEPT ![s.id] = @ + 1], UNCHANGED <<simCount, accountStates, active>>
  PROVE  SimulationInv' /\ consumed' \in [1..MaxSims -> Nat]
<1>1. s.id \in 1..simCount /\ consumed[s.id] = 0 /\ simCount \in Nat /\ simCount <= MaxSims /\ MaxSims \in Nat
  BY BridgeConstants DEF TypeOK, SimulationInv, Unattempted
<1>2. \A i \in 1..MaxSims : consumed'[i] = IF i = s.id THEN 1 ELSE consumed[i]
  BY <1>1 DEF TypeOK
<1>3. consumed' \in [1..MaxSims -> Nat]
  BY <1>1 DEF TypeOK
<1>4. Unattempted'
  <2>1. \A t \in sims' : t \in sims /\ t # s /\ t.id # s.id /\ t.id \in 1..simCount /\ consumed[t.id] = 0
    BY DEF SimulationInv, Unattempted
  <2>2. \A t \in sims' : t.id \in 1..simCount' /\ consumed'[t.id] = 0
    BY <1>1, <1>2, <2>1
  <2>3. \A t, u \in sims' : t.id = u.id => t = u
    BY DEF SimulationInv, Unattempted
  <2>4. \A i \in 1..MaxSims : i > simCount' => consumed'[i] = 0
    BY <1>1, <1>2 DEF SimulationInv, Unattempted
  <2>5. QED
    BY <2>2, <2>3, <2>4 DEF Unattempted
<1>5. SimulationOnce'
  BY <1>2 DEF SimulationOnce, SimulationInv
<1>6. SimulationsCurrent'
  BY DEF SimulationsCurrent, SimulationInv
<1>7. QED
  BY <1>3, <1>4, <1>5, <1>6 DEF SimulationInv

LEMMA DialogStep ==
  ASSUME BridgeInv,
         \E r \in Reqs :
            \/ SignOperatorLink(r) \/ SignName(r) \/ SignLocalIrisReceipt(r)
            \/ FounderBody(r) \/ AppConnectBody(r)
            \/ \E s \in sims : SignBody(r, s) \/ SignUnanchored(r, s)
  PROVE  BridgeInv'
<1>1. ASSUME NEW r \in Reqs, AttestBody(r) \/ FounderBody(r) PROVE BridgeInv'
  <2>1. ~pending /\ req[r].kind \in {"attest", "founder"}
    BY <1>1 DEF AttestBody, FounderBody, Body, Busy
  <2>2. /\ Dialog(r) /\ pending' = TRUE
        /\ UNCHANGED <<opts, entries, active, gen, securityPending, accountPending, trust, evidence, simCount, consumed, strays>>
    BY <1>1 DEF AttestBody, FounderBody
  <2>3. req[r].kind # "sign" /\ req[r].kind \in {"sign", "attest", "founder"}
    BY <2>1
  <2>4. RequestInv' /\ req' \in [Reqs -> Requests]
    BY <2>1, <2>2, <2>3, DialogOpens DEF BridgeInv
  <2>5. TypeOK'
    BY <2>2, <2>4 DEF BridgeInv, TypeOK, trust, evidence
  <2>6. SimulationInv'
    BY <2>2, SimulationsStay DEF BridgeInv, evidence
  <2>7. HistoryReaches' /\ DialogShown'
    BY <2>2 DEF BridgeInv, HistoryReaches, SavedHere, DialogShown, trust
  <2>8. QED
    BY <2>4, <2>5, <2>6, <2>7 DEF BridgeInv
<1>2. ASSUME NEW r \in Reqs, NEW s \in sims, SignBody(r, s) PROVE BridgeInv'
  <2>1. ~pending /\ ~securityPending /\ ~accountPending /\ req[r].kind = "sign"
    BY <1>2 DEF SignBody, Body, Busy
  <2>2. /\ Dialog(r) /\ pending' = TRUE /\ sims' = sims \ {s} /\ consumed' = [consumed EXCEPT ![s.id] = @ + 1]
        /\ UNCHANGED <<opts, entries, active, gen, securityPending, accountPending, trust, accountStates, simCount, strays>>
    BY <1>2 DEF SignBody
  <2>3. RequestInv' /\ req' \in [Reqs -> Requests]
    BY <2>1, <2>2, DialogOpens DEF BridgeInv
  <2>4. SimulationInv' /\ consumed' \in [1..MaxSims -> Nat]
    BY <2>2, SimulationTaken DEF BridgeInv
  <2>5. TypeOK'
    BY <2>2, <2>3, <2>4 DEF BridgeInv, TypeOK, trust
  <2>6. HistoryReaches' /\ DialogShown'
    BY <2>2 DEF BridgeInv, HistoryReaches, SavedHere, DialogShown, trust
  <2>7. QED
    BY <2>3, <2>4, <2>5, <2>6 DEF BridgeInv
<1>3. ASSUME NEW r \in Reqs, AppConnectBody(r) PROVE BridgeInv'
  <2> DEFINE v == [req[r] EXCEPT !.phase = "dialog", !.gen = gen, !.account = active, !.state = accountStates[active]]
  <2>1. req' = [req EXCEPT ![r] = v] /\ req[r].kind = "app-connect"
    BY <1>3 DEF AppConnectBody, Dialog, BridgeInv, TypeOK
  <2>2. req[r] \in Requests /\ active \in Accounts /\ accountStates[active] \in States /\ gen \in Nat
    BY DEF BridgeInv, TypeOK
  <2>3. v \in Requests
    BY <2>2 DEF Requests, Phases
  <2>4. v.kind = "app-connect" /\ v.gen = gen
    BY <2>1, <2>2 DEF Requests
  <2> HIDE DEF v
  <2>5. ~Signing(v) /\ v.gen <= gen
    BY <2>2, <2>4 DEF Signing
  <2>6. QED
    BY <1>3, <2>1, <2>3, <2>5, RequestAlone DEF AppConnectBody
<1>4. ASSUME NEW r \in Reqs, NEW s \in sims, SignUnanchored(r, s) PROVE BridgeInv'
  <2>1. /\ End(r) /\ sims' = sims \ {s} /\ consumed' = [consumed EXCEPT ![s.id] = @ + 1]
        /\ UNCHANGED <<opts, entries, active, gen, flags, trust, accountStates, simCount, strays>>
    BY <1>4 DEF SignUnanchored
  <2>2. gen' \in Nat /\ gen' >= gen /\ active' = active
    BY <2>1 DEF BridgeInv, TypeOK
  <2>3. ~pending \/ (pending' /\ (securityPending' => securityPending) /\ (accountPending' => accountPending))
    BY <2>1 DEF flags
  <2>4. RequestInv' /\ req' \in [Reqs -> Requests]
    BY <2>1, <2>2, <2>3, RequestEnds DEF BridgeInv
  <2>5. SimulationInv' /\ consumed' \in [1..MaxSims -> Nat]
    BY <2>1, SimulationTaken DEF BridgeInv
  <2>6. TypeOK'
    BY <2>1, <2>4, <2>5 DEF BridgeInv, TypeOK, trust
  <2>7. HistoryReaches' /\ DialogShown'
    BY <2>1 DEF BridgeInv, HistoryReaches, SavedHere, DialogShown, trust
  <2>8. QED
    BY <2>4, <2>5, <2>6, <2>7 DEF BridgeInv
<1>5. QED
  BY <1>1, <1>2, <1>3, <1>4 DEF SignOperatorLink, SignName, SignLocalIrisReceipt

\* The end of a dialog: what was confirmed is what is signed with.
LEMMA AnswerStep ==
  ASSUME BridgeInv, NEW r \in Reqs, Approve(r) \/ Decline(r)
  PROVE  BridgeInv'
<1>1. /\ req[r].phase = "dialog" /\ req[r].kind \in {"sign", "attest", "founder", "app-connect"}
      /\ pending' = (pending /\ req[r].kind = "app-connect") /\ End(r)
      /\ UNCHANGED <<opts, entries, active, gen, securityPending, accountPending, trust, evidence, simCount, consumed>>
  BY DEF Approve, Decline
<1>2. \/ ~pending \/ Signing(req[r])
      \/ pending' /\ (securityPending' => securityPending) /\ (accountPending' => accountPending)
  BY <1>1 DEF Signing
<1>3. gen' \in Nat /\ gen' >= gen
  BY <1>1 DEF BridgeInv, TypeOK
<1>4. RequestInv' /\ req' \in [Reqs -> Requests]
  BY <1>1, <1>2, <1>3, RequestEnds DEF BridgeInv
<1>5. TypeOK'
  BY <1>1, <1>4 DEF BridgeInv, TypeOK, trust, evidence
<1>6. SimulationInv'
  BY <1>1, SimulationsStay DEF BridgeInv, evidence
<1>7. HistoryReaches'
  BY <1>1 DEF BridgeInv, HistoryReaches, SavedHere, trust
<1>8. DialogShown'
  <2>1. SameWallet(r) => AsConfirmed(r)
    <3>1. CASE req[r].kind = "sign"
      <4>1. req[r].gen = gen => req[r].account = active
        BY <1>1, <3>1 DEF BridgeInv, RequestInv, OfAccount
      <4>2. QED
        BY <3>1, <4>1 DEF SameWallet, AsConfirmed
    <3>2. CASE req[r].kind \in {"attest", "founder"}
      BY <3>2 DEF SameWallet, AsConfirmed
    <3>3. CASE req[r].kind = "app-connect"
      BY <3>3 DEF SameWallet, AsConfirmed
    <3>4. QED
      BY <1>1, <3>1, <3>2, <3>3
  <2>2. ~strays
    BY DEF BridgeInv, DialogShown
  <2>3. strays' => strays \/ (SameWallet(r) /\ ~AsConfirmed(r))
    BY DEF Approve, Decline
  <2>4. QED
    BY <2>1, <2>2, <2>3 DEF DialogShown
<1>9. QED
  BY <1>4, <1>5, <1>6, <1>7, <1>8 DEF BridgeInv

-----------------------------------------------------------------------------
(* Security windows and accounts                                           *)

LEMMA AccountStep ==
  ASSUME BridgeInv, NEW r \in Reqs,
         \/ RevealPhrase(r) \/ FounderCreate(r) \/ NativeSecurity(r) \/ SecurityEnd(r) \/ CreateStart(r)
         \/ \E a \in Accounts : SelectAccount(r, a) \/ CreateEnd(r, a)
  PROVE  BridgeInv'
<1>a. gen \in Nat /\ Idle \in Requests
  BY RequestFacts DEF BridgeInv, TypeOK
<1>1. CASE SecurityStart(r)
  <2> DEFINE v == [Idle EXCEPT !.kind = "security", !.phase = "dialog"]
  <2>1. v \in Requests
    BY <1>a DEF Requests, Kinds, Phases
  <2>2. v.kind = "security" /\ v.gen = 0
    BY DEF Idle
  <2>3. req' = [req EXCEPT ![r] = v]
    BY <1>1 DEF SecurityStart
  <2> HIDE DEF v
  <2>4. ~Signing(v) /\ v.gen <= gen'
    BY <1>a, <1>1, <2>2 DEF Signing, SecurityStart
  <2>5. ~pending
    BY <1>1 DEF SecurityStart, Gate
  <2>6. gen' \in Nat /\ gen' >= gen /\ active' = active
    BY <1>1, <1>a DEF SecurityStart
  <2>7. RequestInv' /\ req' \in [Reqs -> Requests]
    BY <2>1, <2>3, <2>4, <2>5, <2>6, RequestReplaced DEF BridgeInv
  <2>8. TypeOK'
    BY <1>1, <2>7 DEF SecurityStart, BridgeInv, TypeOK, trust, evidence
  <2>9. SimulationInv'
    BY <1>1, SimulationsStay DEF SecurityStart, BridgeInv, evidence
  <2>10. HistoryReaches' /\ DialogShown'
    BY <1>1 DEF SecurityStart, BridgeInv, HistoryReaches, SavedHere, DialogShown, trust
  <2>11. QED
    BY <2>7, <2>8, <2>9, <2>10 DEF BridgeInv
<1>2. CASE SecurityEnd(r)
  <2>1. /\ End(r) /\ securityPending' = FALSE
        /\ UNCHANGED <<opts, entries, active, gen, pending, accountPending, trust, evidence, simCount, consumed, strays>>
    BY <1>2 DEF SecurityEnd
  <2>2. gen' \in Nat /\ gen' >= gen /\ active' = active
    BY <1>a, <2>1
  <2>3. ~pending \/ (pending' /\ (securityPending' => securityPending) /\ (accountPending' => accountPending))
    BY <2>1
  <2>4. RequestInv' /\ req' \in [Reqs -> Requests]
    BY <2>1, <2>2, <2>3, RequestEnds DEF BridgeInv
  <2>5. TypeOK'
    BY <2>1, <2>4 DEF BridgeInv, TypeOK, trust, evidence
  <2>6. SimulationInv'
    BY <2>1, SimulationsStay DEF BridgeInv, evidence
  <2>7. HistoryReaches' /\ DialogShown'
    BY <2>1 DEF BridgeInv, HistoryReaches, SavedHere, DialogShown, trust
  <2>8. QED
    BY <2>4, <2>5, <2>6, <2>7 DEF BridgeInv
<1>3. CASE CreateStart(r)
  <2> DEFINE v == [req[r] EXCEPT !.phase = "dialog"]
  <2>1. ~pending /\ req[r].kind = "create"
    BY <1>3 DEF CreateStart, Body, Busy
  <2>2. req[r] \in Requests /\ req[r].gen \in Nat /\ req[r].gen <= gen
    BY DEF BridgeInv, TypeOK, RequestInv, OfGeneration, Requests
  <2>3. v \in Requests
    BY <2>2 DEF Requests, Phases
  <2>4. v.kind = "create" /\ v.gen = req[r].gen
    BY <2>1, <2>2 DEF Requests
  <2>5. req' = [req EXCEPT ![r] = v]
    BY <1>3 DEF CreateStart, BridgeInv, TypeOK
  <2> HIDE DEF v
  <2>6. gen' \in Nat /\ gen' >= gen /\ active' = active
    BY <1>3, <1>a DEF CreateStart
  <2>7. ~Signing(v) /\ v.gen <= gen'
    BY <1>a, <2>2, <2>4, <2>6 DEF Signing
  <2>8. RequestInv' /\ req' \in [Reqs -> Requests]
    BY <2>1, <2>3, <2>5, <2>6, <2>7, RequestReplaced DEF BridgeInv
  <2>9. TypeOK'
    BY <1>3, <2>8 DEF CreateStart, BridgeInv, TypeOK, trust, evidence
  <2>10. SimulationInv'
    BY <1>3, SimulationsStay DEF CreateStart, BridgeInv, evidence
  <2>11. HistoryReaches' /\ DialogShown'
    BY <1>3 DEF CreateStart, BridgeInv, HistoryReaches, SavedHere, DialogShown, trust
  <2>12. QED
    BY <2>8, <2>9, <2>10, <2>11 DEF BridgeInv
<1>4. ASSUME NEW a \in Accounts, SelectAccount(r, a) PROVE BridgeInv'
  <2>1. Activate(a) /\ End(r) /\ UNCHANGED <<opts, entries, flags, trust, simCount, consumed, strays>>
    BY <1>4 DEF SelectAccount
  <2>2. /\ gen' \in Nat /\ gen' >= gen /\ (active' = active \/ gen' > gen)
        /\ active' \in Accounts /\ accountStates' \in [Accounts -> States]
        /\ sims' \subseteq sims /\ (sims' = {} \/ UNCHANGED <<accountStates, active>>)
    BY <2>1, ActivateFacts DEF BridgeInv
  <2>3. ~pending \/ (pending' /\ (securityPending' => securityPending) /\ (accountPending' => accountPending))
    BY <2>1 DEF flags
  <2>4. RequestInv' /\ req' \in [Reqs -> Requests]
    BY <2>1, <2>2, <2>3, RequestEnds DEF BridgeInv
  <2>5. TypeOK'
    BY <2>1, <2>2, <2>4 DEF BridgeInv, TypeOK, trust
  <2>6. SimulationInv'
    BY <2>1, <2>2, SimulationsStay DEF BridgeInv
  <2>7. HistoryReaches' /\ DialogShown'
    BY <2>1 DEF BridgeInv, HistoryReaches, SavedHere, DialogShown, trust
  <2>8. QED
    BY <2>4, <2>5, <2>6, <2>7 DEF BridgeInv
<1>5. ASSUME NEW a \in Accounts, CreateEnd(r, a) PROVE BridgeInv'
  <2>1. /\ End(r) /\ accountPending' = FALSE
        /\ UNCHANGED <<opts, pending, securityPending, trust, simCount, consumed, strays>>
        /\ \/ entries' = entries \cup {a} /\ Activate(a)
           \/ UNCHANGED <<entries, active, gen, evidence>>
    BY <1>5 DEF CreateEnd
  <2>2. /\ gen' \in Nat /\ gen' >= gen /\ (active' = active \/ gen' > gen)
        /\ active' \in Accounts /\ accountStates' \in [Accounts -> States]
        /\ sims' \subseteq sims /\ (sims' = {} \/ UNCHANGED <<accountStates, active>>)
        /\ entries' \subseteq Accounts
    <3>1. CASE Activate(a) /\ entries' = entries \cup {a}
      BY <3>1, ActivateFacts DEF BridgeInv, TypeOK
    <3>2. CASE UNCHANGED <<entries, active, gen, evidence>>
      BY <3>2 DEF BridgeInv, TypeOK, evidence
    <3>3. QED
      BY <2>1, <3>1, <3>2
  <2>3. ~pending \/ (pending' /\ (securityPending' => securityPending) /\ (accountPending' => accountPending))
    BY <2>1
  <2>4. RequestInv' /\ req' \in [Reqs -> Requests]
    BY <2>1, <2>2, <2>3, RequestEnds DEF BridgeInv
  <2>5. TypeOK'
    BY <2>1, <2>2, <2>4 DEF BridgeInv, TypeOK, trust
  <2>6. SimulationInv'
    BY <2>1, <2>2, SimulationsStay DEF BridgeInv
  <2>7. HistoryReaches' /\ DialogShown'
    BY <2>1 DEF BridgeInv, HistoryReaches, SavedHere, DialogShown, trust
  <2>8. QED
    BY <2>4, <2>5, <2>6, <2>7 DEF BridgeInv
<1>6. QED
  BY <1>1, <1>2, <1>3, <1>4, <1>5 DEF RevealPhrase, FounderCreate, NativeSecurity

-----------------------------------------------------------------------------
(* What the bridge has verified                                            *)

\* A verifying request ends: nothing else happens to sessions and dialogs.
LEMMA VerifierEnds ==
  ASSUME TypeOK, RequestInv, NEW r \in Reqs, End(r), UNCHANGED <<gen, active, flags>>
  PROVE  RequestInv' /\ req' \in [Reqs -> Requests]
<1>1. gen' \in Nat /\ gen' >= gen /\ active' = active
  BY DEF TypeOK
<1>2. ~pending \/ (pending' /\ (securityPending' => securityPending) /\ (accountPending' => accountPending))
  BY DEF flags
<1>3. QED
  BY <1>1, <1>2, RequestEnds

\* A handoff, a finality chain, an account's proof or an asset's proof.
LEMMA TrustStep ==
  ASSUME BridgeInv, NEW r \in Reqs,
         \/ UpdateTrust(r)
         \/ \E a \in Holders : VerifyAsset(r, a)
         \/ \E h \in 0..MaxHeight : VerifyFinality(r, h) \/ \E a \in Accounts : VerifyAccount(r, a, h)
  PROVE  BridgeInv'
<1>a. Empty \in [Accounts -> States]
  BY RequestFacts DEF BridgeInv
<1>b. None \in Int /\ MaxHeight \in Nat
  BY BridgeConstants DEF None
<1>1. CASE UpdateTrust(r)
  <2>1. /\ tip' = None /\ ClearEvidence /\ End(r) /\ known' \in known..Cardinality(Handoffs)
        /\ UNCHANGED <<opts, entries, active, gen, flags, net, checkpoint, saved, headers, simCount, consumed, strays>>
    BY <1>1 DEF UpdateTrust
  <2>a. known \in Nat /\ known' \in Nat /\ known' >= known
    BY <2>1, BridgeConstants, FS_CardinalityType DEF BridgeInv, TypeOK
  <2>2. RequestInv' /\ req' \in [Reqs -> Requests]
    BY <2>1, VerifierEnds DEF BridgeInv
  <2>3. TypeOK'
    BY <1>a, <1>b, <2>1, <2>2, <2>a DEF BridgeInv, TypeOK, ClearEvidence
  <2>4. SimulationInv'
    BY <2>1, SimulationsStay DEF BridgeInv, ClearEvidence
  <2>b. ASSUME requireCheckpointHandoff(SavedHere, known) PROVE requireCheckpointHandoff(SavedHere, known')
    BY <2>a, <2>b, BehindType DEF requireCheckpointHandoff
  <2>5. HistoryReaches' /\ DialogShown'
    BY <2>1, <2>b DEF BridgeInv, HistoryReaches, SavedHere, DialogShown
  <2>6. QED
    BY <2>2, <2>3, <2>4, <2>5 DEF BridgeInv
<1>2. ASSUME NEW h \in 0..MaxHeight, VerifyFinality(r, h) PROVE BridgeInv'
  <2>1. /\ headers' = appendWalletHeaders(h) /\ tip' = h /\ ClearEvidence /\ End(r)
        /\ UNCHANGED <<opts, entries, active, gen, flags, net, known, checkpoint, saved, simCount, consumed, strays>>
    BY <1>2 DEF VerifyFinality
  <2>2. h \in Nat /\ headers \in Nat /\ SavedHere \in Int
    BY <1>b, SavedNat DEF BridgeInv, TypeOK
  <2>3. headers' \in Nat /\ headers' >= headers /\ (opts.headers => headers' >= h)
    BY <2>1, <2>2 DEF appendWalletHeaders
  <2>4. RequestInv' /\ req' \in [Reqs -> Requests]
    BY <2>1, VerifierEnds DEF BridgeInv
  <2>5. TypeOK'
    BY <1>a, <2>1, <2>2, <2>3, <2>4 DEF BridgeInv, TypeOK, ClearEvidence
  <2>6. SimulationInv'
    BY <2>1, SimulationsStay DEF BridgeInv, ClearEvidence
  <2>7. HistoryReaches'
    BY <2>1, <2>2, <2>3 DEF BridgeInv, HistoryReaches, SavedHere
  <2>8. DialogShown'
    BY <2>1 DEF BridgeInv, DialogShown
  <2>9. QED
    BY <2>4, <2>5, <2>6, <2>7, <2>8 DEF BridgeInv
<1>3. ASSUME NEW h \in 0..MaxHeight, NEW a \in Accounts, VerifyAccount(r, a, h) PROVE BridgeInv'
  <2>1. /\ Trusted(h) /\ Acceptable(h)
        /\ accountStates' = [accountStates EXCEPT ![a] = <<net, h>>] /\ sims' = {} /\ End(r)
        /\ UNCHANGED <<opts, entries, active, gen, flags, net, known, headers, simCount, consumed, strays>>
    BY <1>3 DEF VerifyAccount
  <2>2. h \in Nat /\ headers \in Nat /\ checkpoint \in Int /\ tip \in Int /\ net \in Networks /\ saved \in [Networks -> {None} \cup Nat]
    BY <1>b DEF BridgeInv, TypeOK
  <2>3. accountStates' \in [Accounts -> States]
    <3>1. <<net, h>> \in States
      BY <2>2 DEF States
    <3>2. QED
      BY <2>1, <3>1 DEF BridgeInv, TypeOK
  <2>4. RequestInv' /\ req' \in [Reqs -> Requests]
    BY <2>1, VerifierEnds DEF BridgeInv
  <2>5. SimulationInv'
    BY <2>1, SimulationsStay DEF BridgeInv
  <2>6. DialogShown'
    BY <2>1 DEF BridgeInv, DialogShown
  <2>7. /\ checkpoint' \in Int /\ tip' \in Int /\ saved' \in [Networks -> {None} \cup Nat]
        /\ HistoryReaches'
    <3>1. CASE opts.checkpoint /\ h > checkpoint
      <4>1. checkpoint' = h /\ saved' = [saved EXCEPT ![net] = h] /\ tip' = None
        BY <1>3, <3>1 DEF VerifyAccount
      <4>2. saved' \in [Networks -> {None} \cup Nat] /\ SavedHere' = h
        BY <4>1, <2>1, <2>2, <3>1 DEF SavedHere
      <4>3. ASSUME opts.headers PROVE headers >= h
        <5>1. h > Persisted => tip = h
          BY <2>1 DEF Acceptable
        <5>2. CASE h > Persisted
          BY <4>3, <5>1, <5>2, <2>2 DEF BridgeInv, HistoryReaches, None
        <5>3. CASE ~(h > Persisted)
          \* Only at height 0, before there is a checkpoint.
          BY <5>3, <3>1, <2>1, <2>2 DEF Acceptable, Persisted, BridgeInv, HistoryReaches, None
        <5>4. QED
          BY <5>2, <5>3
      <4>4. requireCheckpointHandoff(h, known)
        BY <2>1 DEF requireCheckpointHandoff, Trusted
      <4>5. QED
        BY <1>b, <2>1, <2>2, <4>1, <4>2, <4>3, <4>4 DEF HistoryReaches
    <3>2. CASE ~(opts.checkpoint /\ h > checkpoint)
      <4>1. UNCHANGED <<checkpoint, saved, tip>>
        BY <1>3, <3>2 DEF VerifyAccount
      <4>2. QED
        BY <2>1, <2>2, <4>1 DEF BridgeInv, HistoryReaches, SavedHere
    <3>3. QED
      BY <3>1, <3>2
  <2>8. TypeOK'
    BY <2>1, <2>2, <2>3, <2>4, <2>7 DEF BridgeInv, TypeOK
  <2>9. QED
    BY <2>4, <2>5, <2>6, <2>7, <2>8 DEF BridgeInv
<1>4. ASSUME NEW a \in Holders, VerifyAsset(r, a) PROVE BridgeInv'
  <2>1. /\ sims' = {} /\ End(r)
        /\ UNCHANGED <<opts, entries, active, gen, flags, trust, accountStates, simCount, consumed, strays>>
    BY <1>4 DEF VerifyAsset
  <2>2. RequestInv' /\ req' \in [Reqs -> Requests]
    BY <2>1, VerifierEnds DEF BridgeInv
  <2>3. TypeOK'
    BY <2>1, <2>2 DEF BridgeInv, TypeOK, trust
  <2>4. SimulationInv'
    BY <2>1, SimulationsStay DEF BridgeInv
  <2>5. HistoryReaches' /\ DialogShown'
    BY <2>1 DEF BridgeInv, HistoryReaches, SavedHere, DialogShown, trust
  <2>6. QED
    BY <2>2, <2>3, <2>4, <2>5 DEF BridgeInv
<1>5. QED
  BY <1>1, <1>2, <1>3, <1>4

\* A new simulation gets an id that was never given out, from the state its
\* account is proven at.
LEMMA SimulateStep ==
  ASSUME BridgeInv, NEW r \in Reqs, NEW others \in SUBSET Accounts, NEW assets \in SUBSET Holders,
         Simulate(r, others, assets)
  PROVE  BridgeInv'
<1> DEFINE E == {accountStates[a] : a \in others \cup {active}} \cup {assetStates[a] : a \in assets}
           new == [id |-> simCount + 1, at |-> accountStates[active], all |-> E]
<1>1. /\ simCount < MaxSims /\ bridgeSimulationEvidence(E) /\ sims' = sims \cup {new}
      /\ simCount' = simCount + 1 /\ End(r)
      /\ UNCHANGED <<opts, entries, active, gen, flags, trust, accountStates, consumed, strays>>
  BY DEF Simulate
<1>2. simCount \in Nat /\ MaxSims \in Nat /\ simCount' \in 0..MaxSims
  BY <1>1, BridgeConstants DEF BridgeInv, TypeOK
<1>3. new.id = simCount + 1 /\ new.all = {accountStates[active]}
  BY <1>1, OneState DEF BridgeInv
<1> HIDE DEF new
<1>4. Unattempted'
  <2>1. new.id \in 1..simCount' /\ consumed[new.id] = 0
    BY <1>1, <1>2, <1>3 DEF BridgeInv, SimulationInv, Unattempted
  <2>2. \A s \in sims : s.id \in 1..simCount /\ consumed[s.id] = 0
    BY DEF BridgeInv, SimulationInv, Unattempted
  <2>3. \A s \in sims' : s.id \in 1..simCount' /\ consumed'[s.id] = 0
    BY <1>1, <1>2, <2>1, <2>2
  <2>4. \A s \in sims : s.id # new.id
    BY <1>2, <1>3, <2>2
  <2>5. \A s, t \in sims' : s.id = t.id => s = t
    BY <1>1, <2>4 DEF BridgeInv, SimulationInv, Unattempted
  <2>6. \A i \in 1..MaxSims : i > simCount' => consumed'[i] = 0
    BY <1>1, <1>2 DEF BridgeInv, SimulationInv, Unattempted
  <2>7. QED
    BY <2>3, <2>5, <2>6 DEF Unattempted
<1>5. SimulationOnce' /\ SimulationsCurrent'
  BY <1>1, <1>3 DEF BridgeInv, SimulationInv, SimulationOnce, SimulationsCurrent
<1>6. RequestInv' /\ req' \in [Reqs -> Requests]
  BY <1>1, VerifierEnds DEF BridgeInv
<1>7. TypeOK'
  BY <1>1, <1>2, <1>6 DEF BridgeInv, TypeOK, trust
<1>8. HistoryReaches' /\ DialogShown'
  BY <1>1 DEF BridgeInv, HistoryReaches, SavedHere, DialogShown, trust
<1>9. QED
  BY <1>4, <1>5, <1>6, <1>7, <1>8 DEF BridgeInv, SimulationInv

\* A simulation expires.
LEMMA ExpireStep ==
  ASSUME BridgeInv, NEW s \in sims, Expire(s)
  PROVE  BridgeInv'
<1>1. /\ sims' \subseteq sims
      /\ UNCHANGED <<opts, entries, active, gen, flags, trust, accountStates, simCount, consumed, req, strays>>
  BY DEF Expire
<1>2. TypeOK'
  BY <1>1 DEF BridgeInv, TypeOK, trust
<1>3. RequestInv'
  BY <1>1 DEF BridgeInv, RequestInv, OfGeneration, OfAccount, OneDialog, PaymentAlone, flags
<1>4. SimulationInv'
  BY <1>1, SimulationsStay DEF BridgeInv
<1>5. HistoryReaches' /\ DialogShown'
  BY <1>1 DEF BridgeInv, HistoryReaches, SavedHere, DialogShown, trust
<1>6. QED
  BY <1>2, <1>3, <1>4, <1>5 DEF BridgeInv

\* Another network, or the process starts again from its files.
LEMMA StartStep ==
  ASSUME BridgeInv, Restart \/ \E n \in Networks : SetNetworkTrust(n)
  PROVE  BridgeInv'
<1>a. Empty \in [Accounts -> States] /\ Idle \in Requests /\ ~Signing(Idle)
  BY RequestFacts DEF BridgeInv
<1>b. None \in Int /\ gen \in Nat
  BY DEF None, BridgeInv, TypeOK
<1>1. ASSUME NEW n \in Networks, SetNetworkTrust(n) PROVE BridgeInv'
  <2>1. /\ ~opts.headers /\ ~opts.handoffs /\ opts' = [opts EXCEPT !.checkpoint = TRUE]
        /\ net' = n /\ known' = 0 /\ checkpoint' = saved[n] /\ tip' = None /\ gen' = gen + 1 /\ ClearEvidence
        /\ UNCHANGED <<entries, active, flags, saved, headers, simCount, consumed, req, strays>>
    BY <1>1 DEF SetNetworkTrust
  <2>b. opts \in [checkpoint : BOOLEAN, headers : BOOLEAN, handoffs : BOOLEAN] /\ saved[n] \in {None} \cup Nat
    BY DEF BridgeInv, TypeOK
  <2>c. /\ opts' \in [checkpoint : BOOLEAN, headers : BOOLEAN, handoffs : BOOLEAN]
        /\ ~opts'.headers /\ ~opts'.handoffs
    BY <2>1, <2>b
  <2>a. /\ opts' \in [checkpoint : BOOLEAN, headers : BOOLEAN, handoffs : BOOLEAN]
        /\ ~opts'.headers /\ ~opts'.handoffs /\ saved[n] \in Int
    BY <1>b, <2>b, <2>c
  <2>2. TypeOK'
    BY <1>a, <1>b, <2>1, <2>a DEF BridgeInv, TypeOK, ClearEvidence
  <2>3. RequestInv'
    <3>1. \A r \in Reqs : req'[r] = req[r] /\ req[r].gen \in Nat /\ req[r].gen <= gen
      BY <2>1 DEF BridgeInv, TypeOK, Requests, RequestInv, OfGeneration
    <3>2. gen' \in Nat /\ gen' >= gen /\ active' = active
      BY <1>b, <2>1
    <3>3. \A r \in Reqs : req'[r].gen <= gen'
      BY <1>b, <3>1, <2>1
    <3>4. \A r \in Reqs : Signing(req'[r]) => pending'
      BY <2>1 DEF BridgeInv, RequestInv, OneDialog, flags
    <3>5. \A r \in Reqs : Signing(req'[r]) /\ req'[r].kind = "sign" => ~securityPending' /\ ~accountPending'
      BY <2>1 DEF BridgeInv, RequestInv, PaymentAlone, Signing, flags
    <3>6. QED
      BY <3>1, <3>2, <3>3, <3>4, <3>5, NoNewDialog DEF BridgeInv
  <2>4. SimulationInv'
    BY <2>1, SimulationsStay DEF BridgeInv, ClearEvidence
  <2>5. HistoryReaches' /\ DialogShown'
    BY <2>1, <2>a DEF BridgeInv, HistoryReaches, DialogShown
  <2>6. QED
    BY <2>2, <2>3, <2>4, <2>5 DEF BridgeInv
<1>2. CASE Restart
  <2> DEFINE handoffs == IF opts.handoffs THEN known ELSE 0
             last == IF opts.headers /\ SavedHere # None THEN SavedHere ELSE 0
  <2>1. /\ Starts(handoffs) /\ known' = handoffs /\ checkpoint' = SavedHere
        /\ headers' = last /\ tip' = IF last > 0 THEN last ELSE None
        /\ gen' = gen + 1 /\ ClearEvidence /\ req' = [r \in Reqs |-> Idle]
        /\ simCount' = 0 /\ consumed' = [i \in 1..MaxSims |-> 0]
        /\ UNCHANGED <<opts, entries, active, net, saved, strays>>
    BY <1>2 DEF Restart
  <2>2. SavedHere \in {None} \cup Nat /\ SavedHere \in Int /\ headers \in Nat /\ handoffs \in Nat
    BY <1>b, SavedNat DEF BridgeInv, TypeOK
  <2>a. last \in Nat
    BY <2>2
  <2>b. SavedHere' = SavedHere
    BY <2>1 DEF SavedHere
  <2>3. TypeOK'
    BY <1>a, <1>b, <2>1, <2>2, <2>a, BridgeConstants DEF BridgeInv, TypeOK, ClearEvidence
  <2>4. RequestInv'
    <3>1. \A r \in Reqs : req'[r] = Idle
      BY <2>1
    <3>2. Idle.gen = 0
      BY DEF Idle
    <3>3. gen' \in Nat /\ gen' >= gen /\ gen' >= 0 /\ active' = active
      BY <1>b, <2>1
    <3>4. \A r \in Reqs : req'[r].gen <= gen'
      BY <3>1, <3>2, <3>3
    <3>5. \A r \in Reqs : ~Signing(req'[r])
      BY <3>1, <1>a
    <3>6. QED
      BY <3>3, <3>4, <3>5, NoNewDialog DEF BridgeInv
  <2>5. SimulationInv'
    BY <2>1 DEF SimulationInv, Unattempted, SimulationOnce, SimulationsCurrent, ClearEvidence
  <2>6. HistoryReaches'
    <3>1. opts.headers => (tip' # None => headers' >= tip') /\ (SavedHere # None => headers' >= SavedHere)
      BY <1>b, <2>1, <2>2, <2>a
    <3>2. opts.handoffs => requireCheckpointHandoff(SavedHere, known')
      BY <2>1 DEF Starts
    <3>3. QED
      BY <2>1, <2>b, <3>1, <3>2 DEF HistoryReaches
  <2>7. DialogShown'
    BY <2>1 DEF BridgeInv, DialogShown
  <2>8. QED
    BY <2>3, <2>4, <2>5, <2>6, <2>7 DEF BridgeInv
<1>3. QED
  BY <1>1, <1>2

-----------------------------------------------------------------------------
(* The theorems                                                            *)

LEMMA BridgeStep ==
  ASSUME BridgeInv, [Next]_vars
  PROVE  BridgeInv'
<1>1. CASE UNCHANGED vars
  BY <1>1, BridgeStutters DEF vars
<1>2. CASE Next
  <2>1. {"sign", "attest", "founder", "app-connect", "select", "create", "verify"} \subseteq Kinds
    BY DEF Kinds
  <2>2. QED
    BY <1>2, <2>1, SessionStep, DialogStep, AnswerStep, AccountStep, TrustStep, SimulateStep,
       ExpireStep, StartStep DEF Next
<1>3. QED
  BY <1>1, <1>2

\* Requests, dialogs, simulations and header history stay in step, whatever
\* requests, account switches, network switches and restarts interleave.
THEOREM BridgeInvariant == Spec => []BridgeInv
<1>1. Init => BridgeInv
  BY BridgeInit
<1>2. BridgeInv /\ [Next]_vars => BridgeInv'
  BY BridgeStep
<1>3. QED
  BY <1>1, <1>2, PTL DEF Spec

\* What wallet-bridge.mjs signs is what the dialog showed, alone in its dialog, and
\* at most once from a simulation that is current when it is taken.
THEOREM SignedAsConfirmedHolds == Spec => []SignedAsConfirmed
<1>1. BridgeInv => SignedAsConfirmed
  BY DEF BridgeInv, RequestInv, SimulationInv, SignedAsConfirmed
<1>2. QED
  BY <1>1, BridgeInvariant, PTL

\* Wherever a bridge with a handoff history stops, the next start accepts its
\* checkpoint, headers and handoffs.
THEOREM HistoryLoadsHolds == Spec => []HistoryLoads
<1>1. BridgeInv => HistoryLoads
  BY DEF BridgeInv, HistoryReaches, HistoryLoads, Starts
<1>2. QED
  BY <1>1, BridgeInvariant, PTL
=============================================================================
