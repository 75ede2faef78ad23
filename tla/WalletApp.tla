----------------------------- MODULE WalletApp ------------------------------
(***************************************************************************)
(* The wallet page (wallet-ui/app.js) in front of the local bridge.  Every *)
(* handler waits for the bridge or a node and goes on with what it         *)
(* remembered; meanwhile the user clicks elsewhere, the session ends or    *)
(* another account is chosen.  accountEpoch, nodeRefreshSequence and       *)
(* accountRefreshSequence are only ever compared with a remembered value,  *)
(* so a task carries `ok`: none of the counters it remembers has moved.    *)
(***************************************************************************)
EXTENDS Integers, FiniteSets

CONSTANTS
    Accounts,      \* the accounts of the vault directory
    MaxSessions,   \* bound: pairings
    MaxIntents,    \* bound: operations entered into forms
    MaxTasks,      \* bound: handlers that wait at the same time
    Handlers       \* bound: the handlers that run at all

VARIABLES
    native,     \* localApp: paired by the launcher, at start only
    token,      \* external: the session that the bridge accepts (0: none)
    active,     \* external: the bridge's selected account
    session, wallet, network,            \* bridgeSession, walletInfo, networkInfo # null
    balance, assets,                     \* whose numbers are on the screen
    chip, chainName,                     \* account label shown; whose .nir name is shown
    transfer, resource, simulation,      \* pendingIntent, pendingResourceIntent, pendingSimulation
    payment, request,                    \* pendingPaymentRequest; the signed request on the screen
    review,                              \* #send-review is shown, #send-form is hidden
    made, seen, sessions,                \* intents made and rendered, sessions opened
    task

bridge == <<native, token, active, sessions>>
view == <<balance, assets, chip, chainName>>
forms == <<transfer, resource, simulation, payment, request, review, made, seen>>
vars == <<bridge, session, wallet, network, view, forms, task>>

None == "none"
NoIntent == [id |-> 0, of |-> None]
Idle == [at |-> "idle", ok |-> TRUE, of |-> None, intent |-> NoIntent, shown |-> NoIntent]
Slots == {"pair", "change", "node1", "node2", "transfer", "twice", "resource", "payment", "sign", "confirm", "assets", "name"}
Busy == {s \in Slots : task[s].at # "idle"}
Free(s) == s \in Handlers /\ task[s].at = "idle" /\ Cardinality(Busy) < MaxTasks

Init ==
    /\ native \in BOOLEAN /\ token = 0 /\ active \in Accounts /\ sessions = 0
    /\ session = 0 /\ wallet = None /\ network = FALSE
    /\ balance = None /\ assets = None /\ chip = None /\ chainName = None
    /\ transfer = NoIntent /\ resource = NoIntent /\ simulation = NoIntent
    /\ payment = NoIntent /\ request = NoIntent /\ review = FALSE /\ made = 0 /\ seen = {}
    /\ task = [s \in Slots |-> Idle]

-----------------------------------------------------------------------------
(* What the handlers share                                                 *)

\* bridgeRequest: refused without a session of this page, and 401 when the
\* bridge no longer knows it.
Answered == session # 0 /\ session = token

Stale(ts) == [s \in Slots |-> IF ts[s].at = "idle" THEN Idle ELSE [ts[s] EXCEPT !.ok = FALSE]]
At(s, p) == [task EXCEPT ![s].at = p]
Done(s) == [task EXCEPT ![s] = Idle]
Started(ts, s, p) == [ts EXCEPT ![s] = [Idle EXCEPT !.at = p, !.of = wallet]]

\* resetAccountView moves every counter; ts is what the tasks become.
resetAccountView(ts) ==
    /\ task' = ts
    /\ transfer' = NoIntent /\ resource' = NoIntent /\ simulation' = NoIntent /\ payment' = NoIntent
    /\ request' = NoIntent /\ review' = FALSE /\ balance' = None /\ assets' = None /\ network' = FALSE
    /\ UNCHANGED <<made, seen>>

clearWalletSession(ts) ==
    /\ session' = 0 /\ wallet' = None
    /\ resetAccountView(ts)
    /\ UNCHANGED <<chip, chainName>>

\* A request of task s that the bridge refuses: a 401 also ends the session.
Refused(s) ==
    IF session # 0 /\ session # token THEN clearWalletSession(Stale(Done(s)))
    ELSE task' = Done(s) /\ UNCHANGED <<session, wallet, network, view, forms>>

\* refreshNodeStatus: a new one makes those before it stale.
NodeTasks == {"node1", "node2"}
refreshNodeStatus(ts, s) ==
    /\ task' = Started([t \in Slots |-> IF t \in NodeTasks THEN Stale(ts)[t] ELSE ts[t]], s, "select")
    /\ network' = FALSE /\ balance' = None

\* refreshAccount: only the account reads before it become stale.
refreshAccount(ts, s) ==
    /\ task' = Started([t \in Slots |-> IF t \in NodeTasks /\ ts[t].at = "account" THEN Stale(ts)[t] ELSE ts[t]], s, "account")
    /\ balance' = None

-----------------------------------------------------------------------------
(* The network and the balance                                             *)

\* The interval, a finished submission or the network button.
RefreshNode(s) ==
    /\ Free(s) /\ refreshNodeStatus(task, s)
    /\ UNCHANGED <<bridge, session, wallet, assets, chip, chainName, forms>>

\* openResources.
openResources(s) ==
    /\ Free(s) /\ wallet # None /\ network /\ refreshAccount(task, s)
    /\ UNCHANGED <<bridge, session, wallet, network, assets, chip, chainName, forms>>

\* Enough nodes agree (node-selection.js), or not; then the account is read.
selectActiveNode(s) ==
    /\ task[s].at = "select"
    /\ IF session # 0 /\ session # token THEN clearWalletSession(Stale(Done(s)))
       ELSE IF ~task[s].ok THEN task' = Done(s) /\ UNCHANGED <<session, wallet, network, view, forms>>
       ELSE /\ UNCHANGED <<session, wallet, assets, chip, chainName, forms>>
            /\ \/ network' = TRUE
                  /\ IF wallet # None THEN refreshAccount(task, s) ELSE task' = Done(s) /\ UNCHANGED balance
               \/ network' = FALSE /\ balance' = None /\ task' = Done(s)
    /\ UNCHANGED bridge

\* readAccount in refreshAccount: finality, account, history and transaction
\* proofs are verified by the bridge; every failure hides the answer.
AccountAnswer(s) ==
    /\ task[s].at = "account" /\ Answered /\ task' = Done(s)
    /\ balance' = IF task[s].ok /\ wallet = task[s].of THEN task[s].of ELSE balance
    /\ UNCHANGED <<bridge, session, wallet, network, assets, chip, chainName, forms>>

AccountFails(s) == task[s].at = "account" /\ Refused(s) /\ UNCHANGED bridge

\* refreshAssets and verifyAssetState: the same, for the list of assets.
refreshAssets ==
    /\ Free("assets") /\ wallet # None /\ assets' = None
    /\ task' = Started(task, "assets", "proofs")
    /\ UNCHANGED <<bridge, session, wallet, network, balance, chip, chainName, forms>>

verifyAssetState ==
    /\ task["assets"].at = "proofs" /\ Answered /\ network /\ task' = Done("assets")
    /\ assets' = IF task["assets"].ok /\ wallet = task["assets"].of THEN wallet ELSE assets
    /\ UNCHANGED <<bridge, session, wallet, network, balance, chip, chainName, forms>>

AssetsFail == task["assets"].at = "proofs" /\ Refused("assets") /\ UNCHANGED bridge

-----------------------------------------------------------------------------
(* Pairing and accounts                                                    *)

\* The pairing form, or connectNativeWallet at start.
Pair ==
    /\ Free("pair") /\ sessions < MaxSessions /\ (native => sessions = 0)
    /\ clearWalletSession(Started(Stale(task), "pair", "pair"))
    /\ UNCHANGED bridge

\* The bridge accepts a code when no session is open; the page may have gone on.
pairBridge ==
    /\ task["pair"].at = "pair" /\ token = 0 /\ sessions < MaxSessions
    /\ sessions' = sessions + 1 /\ token' = sessions + 1
    /\ IF task["pair"].ok THEN session' = sessions + 1 /\ task' = At("pair", "wallet")
       ELSE task' = Done("pair") /\ UNCHANGED session
    /\ UNCHANGED <<native, active, wallet, network, view, forms>>

\* A step of pairing that fails ends the session unless another took over.
PairFails ==
    /\ task["pair"].at # "idle"
    /\ IF task["pair"].ok \/ session # token THEN clearWalletSession(Stale(Done("pair")))
       ELSE task' = Done("pair") /\ UNCHANGED <<session, wallet, network, view, forms>>
    /\ UNCHANGED bridge

\* GET /v1/wallet; the native page takes the answer before it looks at the epoch.
PairWallet ==
    /\ task["pair"].at = "wallet" /\ Answered
    /\ wallet' = IF task["pair"].ok \/ native THEN active ELSE wallet
    /\ task' = IF task["pair"].ok THEN At("pair", "accounts") ELSE Done("pair")
    /\ UNCHANGED <<bridge, session, network, view, forms>>

\* renderAccounts at the end of a pairing or a change, and what follows it: the
\* selected account must be the connected one; the network is looked up again.
renderAccounts(s, n) ==
    /\ task[s].at = "accounts" /\ Answered /\ wallet = active
    /\ IF task[s].ok
       THEN /\ chip' = active /\ chainName' = None
            /\ n \in Handlers /\ task[n].at = "idle" /\ refreshNodeStatus(Done(s), n)
       ELSE task' = Done(s) /\ UNCHANGED <<chip, chainName, network, balance>>
    /\ UNCHANGED <<bridge, session, wallet, assets, forms>>

\* changeAccount and #add-account: one at a time, from the list of accounts.
changeAccount ==
    /\ Free("change") /\ session # 0 /\ wallet # None /\ chip # None
    /\ task' = [Started(task, "change", "select") EXCEPT !["change"].intent.id = session]
    /\ UNCHANGED <<bridge, session, wallet, network, view, forms>>

\* The bridge takes another account; its answer comes later, or never.
SelectAccount(a) ==
    /\ task["change"].at = "select" /\ task["change"].intent.id = token
    /\ active' = a /\ task' = At("change", "selected")
    /\ UNCHANGED <<native, token, sessions, session, wallet, network, view, forms>>

\* completeAccountChange after the answer, reconcileAccountAfterError after an
\* error: both forget everything and ask who is selected.
completeAccountChange ==
    /\ task["change"].at \in {"select", "selected"}
    /\ IF session # task["change"].intent.id THEN task' = Done("change") /\ UNCHANGED <<network, view, forms>>
       ELSE /\ resetAccountView([Stale(task) EXCEPT !["change"].at = "wallet", !["change"].ok = TRUE])
            /\ UNCHANGED <<chip, chainName>>
    /\ UNCHANGED <<bridge, session, wallet>>

ChangedWallet ==
    /\ task["change"].at = "wallet" /\ Answered /\ session = task["change"].intent.id
    /\ IF task["change"].ok THEN wallet' = active /\ task' = At("change", "accounts")
       ELSE task' = Done("change") /\ UNCHANGED wallet
    /\ UNCHANGED <<bridge, session, network, view, forms>>

\* Nothing left but to end the session, if it is still the one of the change.
ChangeFails ==
    /\ task["change"].at \in {"wallet", "accounts"}
    /\ IF session = task["change"].intent.id THEN clearWalletSession(Stale(Done("change")))
       ELSE task' = Done("change") /\ UNCHANGED <<session, wallet, network, view, forms>>
    /\ UNCHANGED bridge

\* #disconnect-wallet, and a bridge that ends the session by itself.
Disconnect ==
    /\ session # 0 /\ wallet # None
    /\ token' = IF token = session THEN 0 ELSE token
    /\ clearWalletSession(Stale(task))
    /\ UNCHANGED <<native, active, sessions>>

SessionEnds == token # 0 /\ token' = 0 /\ UNCHANGED <<native, active, sessions, session, wallet, network, view, forms, task>>

\* refreshChainName: the name and the way back are two requests to a node.
refreshChainName ==
    /\ Free("name") /\ wallet # None /\ task' = Started(task, "name", "names")
    /\ UNCHANGED <<bridge, session, wallet, network, view, forms>>

verifiedNameOf ==
    /\ task["name"].at = "names" /\ task' = Done("name")
    /\ chainName' \in {IF wallet = task["name"].of THEN wallet ELSE chainName, None}
    /\ UNCHANGED <<bridge, session, wallet, network, balance, assets, chip, forms>>

-----------------------------------------------------------------------------
(* Forms, simulations and signatures                                       *)

TransferTasks == {"transfer", "twice"}

\* A form is submitted: the account is read, fees and names are asked for.
\* The transfer form keeps its button, so a second submission may follow.
Submit(s) ==
    /\ Free(s) /\ wallet # None /\ network /\ made < MaxIntents
    /\ s \in TransferTasks => ~review
    /\ made' = made + 1
    /\ task' = [Started(task, s, "read") EXCEPT ![s].intent = [id |-> made + 1, of |-> wallet]]
    /\ UNCHANGED <<bridge, session, wallet, network, view, transfer, resource, simulation, payment, request, review, seen>>

\* The transfer is pending before it is simulated, the others only after it.
SubmitTransfer(s) ==
    /\ task[s].at = "read" /\ Answered /\ network
    /\ transfer' = task[s].intent /\ task' = At(s, "simulate")
    /\ UNCHANGED <<bridge, session, wallet, network, view, resource, simulation, payment, request, review, made, seen>>

\* The bridge simulates with the proven state of its own account only.
Simulated(s) ==
    /\ Answered /\ task[s].intent.of = active /\ task' = Done(s)
    /\ seen' = seen \cup {task[s].intent.id}

simulateIntent(s) ==
    /\ task[s].at = "simulate" /\ Simulated(s) /\ simulation' = task[s].intent /\ review' = TRUE
    /\ UNCHANGED <<bridge, session, wallet, network, view, transfer, resource, payment, request, made>>

prepareResourceSimulation ==
    /\ task["resource"].at = "read" /\ network /\ Simulated("resource")
    /\ resource' = task["resource"].intent /\ simulation' = task["resource"].intent
    /\ UNCHANGED <<bridge, session, wallet, network, view, transfer, payment, request, review, made>>

PreparePayment ==
    /\ task["payment"].at = "read" /\ network /\ Simulated("payment") /\ payment' = task["payment"].intent
    /\ UNCHANGED <<bridge, session, wallet, network, view, transfer, resource, simulation, request, review, made>>

SubmitFails(s) == task[s].at # "idle" /\ Refused(s) /\ UNCHANGED bridge

\* #edit-transfer, #edit-payment-request-simulation and openSend, which leaves
\* pendingSimulation alone.
Edit ==
    /\ \/ review /\ transfer' = NoIntent /\ simulation' \in {NoIntent, simulation} /\ review' = FALSE /\ UNCHANGED payment
       \/ payment # NoIntent /\ payment' = NoIntent /\ UNCHANGED <<transfer, simulation, review>>
    /\ UNCHANGED <<bridge, session, wallet, network, view, resource, request, made, seen, task>>

\* The sign buttons: what is on the screen is remembered as `shown`.
RequestSignature(s, intent, shown) ==
    /\ Free(s) /\ intent # NoIntent /\ shown # NoIntent
    /\ task' = [Started(task, s, "recheck") EXCEPT ![s].intent = intent, ![s].shown = shown]
    /\ UNCHANGED <<bridge, session, wallet, network, view, forms>>

\* Mutant: the repeated simulation is not compared with the reviewed one.
recheckLoosely(s, now) ==
    /\ task[s].at = "recheck" /\ Answered /\ network /\ wallet = task[s].intent.of /\ active = wallet
    /\ now = task[s].intent
    /\ task' = [task EXCEPT ![s].at = "dialog", ![s].intent = now]
    /\ UNCHANGED <<bridge, session, wallet, network, view, forms>>

\* recheckSimulation simulates the remembered intent again; the request then
\* names the intent that is pending NOW, which the bridge compares with the
\* simulation that it is given.
recheckSimulation(s, now) ==
    /\ task[s].at = "recheck" /\ Answered /\ network /\ wallet = task[s].intent.of /\ active = wallet
    /\ task[s].shown = task[s].intent
    /\ now = task[s].intent
    /\ task' = [task EXCEPT ![s].at = "dialog", ![s].intent = now]
    /\ UNCHANGED <<bridge, session, wallet, network, view, forms>>

\* signWithRecovery for a payment request: verified again and compared with the
\* request that is pending when the answer arrives.
ConfirmPayment ==
    /\ task["confirm"].at = "dialog" /\ Answered /\ task' = Done("confirm")
    /\ IF payment = task["confirm"].intent THEN request' = payment /\ payment' = NoIntent
       ELSE UNCHANGED <<request, payment>>
    /\ UNCHANGED <<bridge, session, wallet, network, view, transfer, resource, simulation, review, made, seen>>

\* assertSignedMatchesIntent: every field of the intent must be in the signed
\* transaction; the intent has a requestId, the transaction has none.
requestSignature ==
    /\ task["sign"].at = "dialog" /\ Answered /\ task' = Done("sign")
    /\ UNCHANGED <<bridge, session, wallet, network, view, forms>>

SignFails(s) == task[s].at # "idle" /\ Refused(s) /\ UNCHANGED bridge

-----------------------------------------------------------------------------
Next ==
    \/ \E s \in NodeTasks : RefreshNode(s) \/ openResources(s) \/ selectActiveNode(s) \/ AccountAnswer(s) \/ AccountFails(s)
    \/ refreshAssets \/ verifyAssetState \/ AssetsFail
    \/ Pair \/ pairBridge \/ PairFails \/ PairWallet
    \/ \E s \in {"pair", "change"}, n \in NodeTasks : renderAccounts(s, n)
    \/ changeAccount \/ completeAccountChange \/ ChangedWallet \/ ChangeFails
    \/ \E a \in Accounts : SelectAccount(a)
    \/ Disconnect \/ SessionEnds \/ refreshChainName \/ verifiedNameOf
    \/ \E s \in TransferTasks \cup {"resource", "payment"} : Submit(s) \/ SubmitFails(s)
    \/ \E s \in TransferTasks : SubmitTransfer(s) \/ simulateIntent(s)
    \/ prepareResourceSimulation \/ PreparePayment \/ Edit
    \/ review /\ RequestSignature("sign", transfer, simulation)
    \/ RequestSignature("sign", resource, simulation)
    \/ RequestSignature("confirm", payment, payment)
    \/ recheckSimulation("sign", transfer) \/ recheckSimulation("sign", resource) \/ recheckSimulation("confirm", payment)
    \/ ConfirmPayment \/ requestSignature
    \/ \E s \in {"sign", "confirm"} : SignFails(s)

Spec == Init /\ [][Next]_vars

-----------------------------------------------------------------------------
Settled == task["pair"].at = "idle" /\ task["change"].at = "idle"

\* In every settled state the balance on the screen is the connected wallet's,
\* whatever answers are still on their way (refreshAccount, refreshNodeStatus).
BalanceIsOwn == Settled => balance \in {wallet, None}

\* Once no pairing and no change of accounts is under way, the page's wallet is
\* the account that the bridge would sign with (changeAccount, completeAccountChange,
\* reconcileAccountAfterError): an answer that was lost makes no difference.
WalletAgrees == Settled /\ session # 0 /\ session = token /\ wallet # None => wallet = active

\* The name shown is the connected wallet's, in every settled state.
NameIsOwn == Settled /\ wallet # None => chainName \in {wallet, None}

\* The confirmation window opens for an operation whose simulation the user has
\* seen, and for no other, though transfers and resource operations share
\* pendingSimulation and the form may be submitted twice.
DialogReviewed == \A s \in {"sign", "confirm"} : task[s].at = "dialog" => task[s].intent.id \in seen

\* A signed payment request on the screen was made by the connected wallet.
RequestIsOwn == request # NoIntent => request.of = wallet
=============================================================================
