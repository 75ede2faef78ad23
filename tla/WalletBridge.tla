---------------------------- MODULE WalletBridge ----------------------------
(***************************************************************************)
(* The local wallet bridge (blockchain/wallet-bridge.mjs): one process     *)
(* that holds the vaults, answers the wallet page over HTTP and signs      *)
(* after a dialog in a native window.  A handler checks the flags, waits   *)
(* for its body, checks again, may wait for the dialog, and checks once    *)
(* more; other requests, a network switch and a restart of the pairing run *)
(* in between.  A finalized state is a pair of network and height: the     *)
(* validators of a network sign one state per height.  The anchors of the  *)
(* networks have a genesis checkpoint.                                     *)
(***************************************************************************)
EXTENDS Integers, FiniteSets

CONSTANTS
    Accounts,     \* vaults that exist or that createAccount may make
    Hosts,        \* which of the three files a launcher gives the bridge: its
                  \* trust checkpoints, header history and handoff history
    Holders,      \* those whose asset balances are looked at
    Networks,     \* networks that setNetworkTrust may switch to
    Reqs,         \* concurrent requests
    MaxHeight,    \* bound: finalized heights of each network
    Handoffs,     \* the heights at which the validator sets change
    MaxAttempts,  \* pairing attempts per code (5 in the source)
    MaxSims,      \* bound: simulations
    MaxGen        \* bound: sessionGeneration

ASSUME BridgeConstants ==
    /\ IsFiniteSet(Accounts) /\ Accounts # {} /\ Holders \subseteq Accounts
    /\ Hosts \subseteq [checkpoint : BOOLEAN, headers : BOOLEAN, handoffs : BOOLEAN]
    /\ IsFiniteSet(Handoffs) /\ Handoffs \subseteq Nat
    /\ Networks # {} /\ MaxSims \in Nat /\ MaxHeight \in Nat /\ MaxGen \in Nat

VARIABLES
    opts,      \* trustCheckpointPath, headerHistoryPath, trustHistoryPath: which are given
    entries, active,                       \* accountEntries, activeAccountId
    session, gen,                          \* sessionActive, sessionGeneration
    pairing,   \* [available, attempts] of the current code
    pending, securityPending, accountPending,
    net, known, checkpoint, tip,           \* trust: handoffs accepted, trustCheckpoint, verifiedFinalityTip
    saved, headers,                        \* on disk: checkpoint per network, header history
    accountStates, assetStates, sims,      \* verifiedAccountStates, verifiedAssetStates, simulations
    simCount, consumed,                    \* simulation ids given out; sign attempts per id (history)
    req,       \* the requests
    strays     \* history: a signature was made for something else than its dialog has shown

trust == <<net, known, checkpoint, tip, saved, headers>>
evidence == <<accountStates, assetStates, sims>>
flags == <<pending, securityPending, accountPending>>
vars == <<opts, entries, active, session, gen, pairing, flags, trust, evidence, simCount, consumed, req, strays>>

None == -1
NoState == <<>>
Idle == [kind |-> "idle", phase |-> "idle", gen |-> 0, account |-> "", state |-> NoState, base |-> None]
Empty == [a \in Accounts |-> NoState]

\* Where checkpoints alone are kept, earlier runs may have left some of networks
\* that the wallet may switch to.
Init ==
    /\ opts \in Hosts
    /\ active = CHOOSE a \in Accounts : TRUE
    /\ entries = {active}
    /\ session = FALSE /\ gen = 0
    /\ pairing = [available |-> TRUE, attempts |-> 0]
    /\ pending = FALSE /\ securityPending = FALSE /\ accountPending = FALSE
    /\ net = (CHOOSE n \in Networks : TRUE) /\ known = 0 /\ checkpoint = None /\ tip = None
    /\ saved \in {s \in [Networks -> {None} \cup 0..MaxHeight] : opts.headers \/ opts.handoffs => s = [n \in Networks |-> None]}
    /\ saved[net] = None /\ headers = 0
    /\ accountStates = Empty /\ assetStates = [a \in Holders |-> NoState] /\ sims = {}
    /\ simCount = 0 /\ consumed = [i \in 1..MaxSims |-> 0]
    /\ req = [r \in Reqs |-> Idle]
    /\ strays = FALSE

-----------------------------------------------------------------------------
(* Sessions                                                                *)

End(r) == req' = [req EXCEPT ![r] = Idle]
ClearEvidence == accountStates' = Empty /\ assetStates' = [a \in Holders |-> NoState] /\ sims' = {}

\* POST /v1/pair: the attempt counts before the body with the code is there.
PairStart(r) ==
    /\ req[r].kind = "idle" /\ \A q \in Reqs : req[q].kind # "pair"
    /\ pairing.available /\ ~session
    /\ IF pairing.attempts < MaxAttempts
       THEN /\ pairing' = [pairing EXCEPT !.attempts = @ + 1]
            /\ req' = [req EXCEPT ![r] = [Idle EXCEPT !.kind = "pair", !.phase = "body"]]
       ELSE pairing' = [pairing EXCEPT !.available = FALSE] /\ UNCHANGED req
    /\ UNCHANGED <<opts, entries, active, session, gen, flags, trust, evidence, simCount, consumed, strays>>

PairRight(r) ==
    /\ req[r].kind = "pair" /\ End(r)
    /\ pairing' = [pairing EXCEPT !.available = FALSE]
    /\ session' = TRUE
    /\ UNCHANGED <<opts, entries, active, gen, flags, trust, evidence, simCount, consumed, strays>>

PairWrong(r) ==
    /\ req[r].kind = "pair" /\ End(r)
    /\ UNCHANGED <<opts, entries, active, session, gen, pairing, flags, trust, evidence, simCount, consumed, strays>>

\* DELETE /v1/session.
Disconnect ==
    /\ session /\ gen < MaxGen
    /\ session' = FALSE /\ gen' = gen + 1 /\ pairing' = [pairing EXCEPT !.available = FALSE]
    /\ ClearEvidence
    /\ UNCHANGED <<opts, entries, active, flags, trust, simCount, consumed, req, strays>>

\* server.restartPairing: the window was opened again.
RestartPairing ==
    /\ gen < MaxGen
    /\ session' = FALSE /\ gen' = gen + 1
    /\ pairing' = [available |-> TRUE, attempts |-> 0]
    /\ ClearEvidence
    /\ UNCHANGED <<opts, entries, active, flags, trust, simCount, consumed, req, strays>>

\* activateAccount.
Activate(a) ==
    IF a = active THEN UNCHANGED <<active, gen, evidence>>
    ELSE active' = a /\ gen' = gen + 1 /\ gen < MaxGen /\ ClearEvidence

-----------------------------------------------------------------------------
(* A request: the checks before its body, its body, its dialog             *)

\* What each handler asks of the flags before it reads its body.
Gate(k) ==
    /\ k # "app-connect" => session
    /\ k \in {"sign", "attest", "select", "create", "verify"} => ~accountPending
    /\ k \in {"sign", "select", "create"} => ~securityPending
    /\ k \in {"select", "create"} => ~pending
    /\ k \in {"security", "app-connect"} => ~pending /\ ~securityPending /\ ~accountPending
    /\ k = "app-connect" => \A q \in Reqs : req[q].kind # k

Busy == pending \/ securityPending \/ accountPending

\* verify-asset-proof remembers the finalized state of the time before its body.
Base == IF tip # None THEN tip ELSE IF checkpoint # None THEN checkpoint ELSE 0

Arrive(r, k) ==
    /\ req[r].kind = "idle" /\ Gate(k) /\ k # "security"
    /\ req' = [req EXCEPT ![r] = [Idle EXCEPT !.kind = k, !.phase = "body", !.gen = gen,
                                              !.base = IF k = "verify" THEN Base ELSE None]]
    /\ UNCHANGED <<opts, entries, active, session, gen, pairing, flags, trust, evidence, simCount, consumed, strays>>

\* readAuthenticatedBody: the session or the account changed meanwhile, or the
\* body is not valid; app-connect reads an unauthenticated body.
Refuse(r) ==
    /\ req[r].phase = "body" /\ req[r].kind # "pair" /\ End(r)
    /\ UNCHANGED <<opts, entries, active, session, gen, pairing, flags, trust, evidence, simCount, consumed, strays>>

Body(r, k) == req[r].kind = k /\ req[r].phase = "body" /\ session /\ req[r].gen = gen

Dialog(r) ==
    req' = [req EXCEPT ![r].phase = "dialog", ![r].gen = gen, ![r].account = active, ![r].state = accountStates[active]]

\* /v1/sign, /v1/sign-resource and /v1/sign-payment-request with simulation s:
\* simulationForSigning takes it out of the table and the dialog opens.
SignBody(r, s) ==
    /\ Body(r, "sign") /\ ~Busy
    /\ s.at = accountStates[active]
    /\ sims' = sims \ {s} /\ consumed' = [consumed EXCEPT ![s.id] = @ + 1]
    /\ pending' = TRUE /\ Dialog(r)
    /\ UNCHANGED <<opts, entries, active, session, gen, pairing, securityPending, accountPending, trust, accountStates, assetStates, simCount, strays>>

\* The same, with a proof of a version that binds the transfer to a genesis and
\* release anchor this bridge does not have: refused, the simulation is gone.
SignUnanchored(r, s) ==
    /\ Body(r, "sign") /\ ~Busy
    /\ s.at = accountStates[active]
    /\ sims' = sims \ {s} /\ consumed' = [consumed EXCEPT ![s.id] = @ + 1] /\ End(r)
    /\ UNCHANGED <<opts, entries, active, session, gen, pairing, flags, trust, accountStates, assetStates, simCount, strays>>

\* What the three handlers below have in common.
AttestBody(r) ==
    /\ Body(r, "attest") /\ ~pending
    /\ pending' = TRUE /\ Dialog(r)
    /\ UNCHANGED <<opts, entries, active, session, gen, pairing, securityPending, accountPending, trust, evidence, simCount, consumed, strays>>

\* A proof of the address for the local operator, the transactions of a name
\* and the receipt of a local run.
SignOperatorLink(r) == AttestBody(r)
SignName(r) == AttestBody(r)
SignLocalIrisReceipt(r) == AttestBody(r)

\* /v1/founder/transfer: the founder key signs a payment to this wallet.
FounderBody(r) ==
    /\ Body(r, "founder") /\ ~Busy
    /\ pending' = TRUE /\ Dialog(r)
    /\ UNCHANGED <<opts, entries, active, session, gen, pairing, securityPending, accountPending, trust, evidence, simCount, consumed, strays>>

\* /v1/app-connect of the model lab, without a session.
AppConnectBody(r) ==
    /\ req[r].kind = "app-connect" /\ req[r].phase = "body" /\ Dialog(r)
    /\ UNCHANGED <<opts, entries, active, session, gen, pairing, flags, trust, evidence, simCount, consumed, strays>>

\* Mutant: the signature is made with whatever account is active now.
SameWalletLater(r) == session

\* What has to be as it was when the dialog opened.
SameWallet(r) ==
    CASE req[r].kind = "sign" -> session /\ req[r].gen = gen /\ accountStates[active] # NoState /\ accountStates[active] = req[r].state
      [] req[r].kind \in {"founder", "attest"} -> session /\ req[r].gen = gen /\ active = req[r].account
      [] OTHER -> active = req[r].account

\* What the dialog of request r has shown is what is signed with now.
AsConfirmed(r) == active = req[r].account /\ (req[r].kind = "sign" => accountStates[active] = req[r].state)

\* The user entered the password.  Every signature uses the active vault, or a
\* path that was compared with it.
Approve(r) ==
    /\ req[r].phase = "dialog" /\ req[r].kind \in {"sign", "attest", "founder", "app-connect"}
    /\ strays' = (strays \/ (SameWallet(r) /\ ~AsConfirmed(r)))
    /\ pending' = (pending /\ req[r].kind = "app-connect")
    /\ End(r)
    /\ UNCHANGED <<opts, entries, active, session, gen, pairing, securityPending, accountPending, trust, evidence, simCount, consumed>>

\* Declined, or SIGN_CONFIRMATION_TIMEOUT_MS passed.
Decline(r) ==
    /\ req[r].phase = "dialog" /\ req[r].kind \in {"sign", "attest", "founder", "app-connect"}
    /\ pending' = (pending /\ req[r].kind = "app-connect") /\ End(r)
    /\ UNCHANGED <<opts, entries, active, session, gen, pairing, securityPending, accountPending, trust, evidence, simCount, consumed, strays>>

\* What the security windows below have in common.
SecurityStart(r) ==
    /\ req[r].kind = "idle" /\ Gate("security")
    /\ securityPending' = TRUE
    /\ req' = [req EXCEPT ![r] = [Idle EXCEPT !.kind = "security", !.phase = "dialog"]]
    /\ UNCHANGED <<opts, entries, active, session, gen, pairing, pending, accountPending, trust, evidence, simCount, consumed, strays>>

RevealPhrase(r) == SecurityStart(r)
FounderCreate(r) == SecurityStart(r)
NativeSecurity(r) == SecurityStart(r)

SecurityEnd(r) ==
    /\ req[r].kind = "security" /\ End(r) /\ securityPending' = FALSE
    /\ UNCHANGED <<opts, entries, active, session, gen, pairing, pending, accountPending, trust, evidence, simCount, consumed, strays>>

SelectAccount(r, a) ==
    /\ Body(r, "select") /\ ~Busy /\ a \in entries
    /\ Activate(a) /\ End(r)
    /\ UNCHANGED <<opts, entries, session, pairing, flags, trust, simCount, consumed, strays>>

CreateStart(r) ==
    /\ Body(r, "create") /\ ~Busy
    /\ accountPending' = TRUE /\ req' = [req EXCEPT ![r].phase = "dialog"]
    /\ UNCHANGED <<opts, entries, active, session, gen, pairing, pending, securityPending, trust, evidence, simCount, consumed, strays>>

\* The vault of account a is there; nothing is added when the session has ended.
CreateEnd(r, a) ==
    /\ req[r].kind = "create" /\ req[r].phase = "dialog" /\ a \notin entries
    /\ IF session /\ req[r].gen = gen
       THEN entries' = entries \cup {a} /\ Activate(a)
       ELSE UNCHANGED <<entries, active, gen, evidence>>
    /\ accountPending' = FALSE /\ End(r)
    /\ UNCHANGED <<opts, session, pairing, pending, securityPending, trust, simCount, consumed, strays>>

-----------------------------------------------------------------------------
(* What the bridge has verified                                            *)

\* advanceValidatorTrust: a proof at height h verifies when every validator set
\* up to h is known.
Behind(h) == Cardinality({x \in Handoffs : x <= h})
Trusted(h) == Behind(h) <= known

\* A checkpoint names the last handoff at or below it, which must be known.
requireCheckpointHandoff(height, handoffs) == height # None => Behind(height) <= handoffs

Persisted == IF checkpoint # None THEN checkpoint ELSE 0

\* POST /v1/update-validator-trust: the history is extended, and saved when
\* there is a file for it.
UpdateTrust(r) ==
    /\ Body(r, "verify")
    /\ known' \in known..Cardinality(Handoffs) /\ requireCheckpointHandoff(checkpoint, known')
    /\ tip' = None /\ ClearEvidence /\ End(r)
    /\ UNCHANGED <<opts, entries, active, session, gen, pairing, flags, net, checkpoint, saved, headers, simCount, consumed, strays>>

\* appendWalletHeaders with retainUncheckpointed.
appendWalletHeaders(h) ==
    IF ~opts.headers THEN headers ELSE IF h > headers THEN h ELSE headers

\* POST /v1/verify-finality-chain up to height h, from the tip or again from
\* the persisted checkpoint.
VerifyFinality(r, h) ==
    /\ Body(r, "verify") /\ Trusted(h)
    /\ \E base \in {Persisted, IF tip # None THEN tip ELSE Persisted} : h > base
    /\ headers' = appendWalletHeaders(h)
    /\ tip' = h /\ ClearEvidence /\ End(r)
    /\ UNCHANGED <<opts, entries, active, session, gen, pairing, flags, net, known, checkpoint, saved, simCount, consumed, strays>>

\* enforceWalletTrustCheckpoint, and the finality chain for anything newer.
Acceptable(h) == h >= Persisted /\ (h > Persisted => tip = h)

\* POST /v1/verify-account-proof of account a at height h.
VerifyAccount(r, a, h) ==
    /\ Body(r, "verify") /\ Trusted(h) /\ Acceptable(h)
    /\ IF opts.checkpoint /\ h > checkpoint
       THEN checkpoint' = h /\ saved' = [saved EXCEPT ![net] = h] /\ tip' = None
       ELSE UNCHANGED <<checkpoint, saved, tip>>
    /\ accountStates' = [accountStates EXCEPT ![a] = <<net, h>>] /\ sims' = {} /\ End(r)
    /\ UNCHANGED <<opts, entries, active, session, gen, pairing, flags, net, known, headers, assetStates, simCount, consumed, strays>>

\* POST /v1/verify-asset-proof, against the state remembered before the body.
VerifyAsset(r, a) ==
    /\ Body(r, "verify") /\ Trusted(req[r].base)
    /\ assetStates' = [assetStates EXCEPT ![a] = <<net, req[r].base>>] /\ sims' = {} /\ End(r)
    /\ UNCHANGED <<opts, entries, active, session, gen, pairing, flags, trust, accountStates, simCount, consumed, strays>>

\* bridgeSimulationEvidence: all of one finalized state.
bridgeSimulationEvidence(E) == NoState \notin E /\ Cardinality(E) = 1

\* POST /v1/simulate-transaction with the account's own proof, the proofs of
\* other participants and, for assets, asset proofs.
Simulate(r, others, assets) ==
    /\ Body(r, "verify") /\ simCount < MaxSims
    /\ LET E == {accountStates[a] : a \in others \cup {active}} \cup {assetStates[a] : a \in assets}
       IN  /\ bridgeSimulationEvidence(E)
           /\ sims' = sims \cup {[id |-> simCount + 1, at |-> accountStates[active], all |-> E]}
    /\ simCount' = simCount + 1 /\ End(r)
    /\ UNCHANGED <<opts, entries, active, session, gen, pairing, flags, trust, accountStates, assetStates, consumed, strays>>

\* SIMULATION_LIFETIME_MS passed.
Expire(s) ==
    /\ sims' = sims \ {s}
    /\ UNCHANGED <<opts, entries, active, session, gen, pairing, flags, trust, accountStates, assetStates, simCount, consumed, req, strays>>

\* server.setNetworkTrust: only without header and handoff histories.  Its one
\* caller names the checkpoint file of the network and no handoffs; a saved
\* checkpoint behind a handoff is refused, and nothing changes.
SetNetworkTrust(n) ==
    /\ ~opts.headers /\ ~opts.handoffs /\ n # net /\ gen < MaxGen
    /\ requireCheckpointHandoff(saved[n], 0)
    /\ opts' = [opts EXCEPT !.checkpoint = TRUE]
    /\ net' = n /\ known' = 0 /\ checkpoint' = saved[n] /\ tip' = None
    /\ gen' = gen + 1 /\ ClearEvidence
    /\ UNCHANGED <<entries, active, session, pairing, flags, saved, headers, simCount, consumed, req, strays>>

\* What a start asks of the files: the saved checkpoint is behind no handoff
\* that is unknown, and the header history contains it.
SavedHere == IF opts.checkpoint THEN saved[net] ELSE None
Starts(handoffs) ==
    /\ requireCheckpointHandoff(SavedHere, handoffs)
    /\ opts.headers /\ SavedHere # None => headers >= SavedHere

\* The process stops and starts: what is on disk is what is left.  Headers
\* after the checkpoint are discarded, and the last one left is the tip.  (gen
\* counts on, so that MaxGen bounds the restarts as well.)
Restart ==
    LET handoffs == IF opts.handoffs THEN known ELSE 0
        last == IF opts.headers /\ SavedHere # None THEN SavedHere ELSE 0
    IN
    /\ gen < MaxGen /\ Starts(handoffs)
    /\ known' = handoffs /\ checkpoint' = SavedHere
    /\ headers' = last /\ tip' = IF last > 0 THEN last ELSE None
    /\ session' = FALSE /\ gen' = gen + 1 /\ pairing' = [available |-> TRUE, attempts |-> 0]
    /\ pending' = FALSE /\ securityPending' = FALSE /\ accountPending' = FALSE
    /\ ClearEvidence /\ req' = [r \in Reqs |-> Idle] /\ simCount' = 0 /\ consumed' = [i \in 1..MaxSims |-> 0]
    /\ UNCHANGED <<opts, entries, active, net, saved, strays>>

Next ==
    \/ Disconnect \/ RestartPairing \/ Restart
    \/ \E n \in Networks : SetNetworkTrust(n)
    \/ \E s \in sims : Expire(s)
    \/ \E r \in Reqs :
        \/ PairStart(r) \/ PairRight(r) \/ PairWrong(r)
        \/ \E k \in {"sign", "attest", "founder", "app-connect", "select", "create", "verify"} : Arrive(r, k)
        \/ Refuse(r) \/ SignOperatorLink(r) \/ SignName(r) \/ SignLocalIrisReceipt(r)
        \/ FounderBody(r) \/ AppConnectBody(r) \/ Approve(r) \/ Decline(r)
        \/ \E s \in sims : SignBody(r, s) \/ SignUnanchored(r, s)
        \/ RevealPhrase(r) \/ FounderCreate(r) \/ NativeSecurity(r) \/ SecurityEnd(r) \/ CreateStart(r)
        \/ \E a \in Accounts : SelectAccount(r, a) \/ CreateEnd(r, a)
        \/ \E a \in Holders : VerifyAsset(r, a)
        \/ UpdateTrust(r)
        \/ \E h \in 0..MaxHeight : VerifyFinality(r, h) \/ \E a \in Accounts : VerifyAccount(r, a, h)
        \/ \E others \in SUBSET Accounts, assets \in SUBSET Holders : Simulate(r, others, assets)

Spec == Init /\ [][Next]_vars

-----------------------------------------------------------------------------
(* Properties                                                              *)

\* DialogShown: a signature is made by the account whose dialog the user
\* confirmed; a payment, moreover, for the network and the proven state that it
\* was reviewed in, however requests, account switches and network switches
\* interleave.
DialogShown == ~strays

\* PaymentAlone: while a payment waits for its dialog no account is made and no
\* security window is open, although each handler has waited for its body.
PaymentAlone ==
    \A r \in Reqs : (req[r].kind = "sign" /\ req[r].phase = "dialog") => pending /\ ~securityPending /\ ~accountPending

\* SimulationOnce: "One simulationId is consumed by one signing attempt"
\* (docs/wallet-transaction-simulation.md).
SimulationOnce == \A i \in 1..MaxSims : consumed[i] <= 1

\* SimulationsCurrent: a simulation that may still be signed was computed from one
\* finalized state, the one that its account is proven at now.
SimulationsCurrent == \A s \in sims : s.all = {accountStates[active]}

\* SignedAsConfirmed: what is signed is what the dialog showed, alone in its dialog,
\* and at most once from a simulation that is current when it is taken.
SignedAsConfirmed == DialogShown /\ PaymentAlone /\ SimulationOnce /\ SimulationsCurrent

\* HistoryLoads: wherever a bridge with a handoff history stops, the files it has
\* written, its checkpoint, headers and handoffs, are accepted at the next start.
HistoryLoads == opts.handoffs => Starts(known)
=============================================================================
