------------------------------- MODULE MCApps -------------------------------
(* The programs around the chain that hold keys or decide what a user sees.*)
(* A behaviour is a behaviour of one of them.                              *)
EXTENDS WalletBridge, Integers, FiniteSets, Sequences, TLC
CONSTANTS w1, w2, u1, u2, NoAddress, Unread

VARIABLES part,   \* the component that this behaviour is about
    native, token, active1, session1, wallet, network, balance, assets, chip, chainName, transfer,
    resource, simulation, payment, request, review, made, seen, sessions, task, server, requests,
    jobs, ledger, page, mode, now, sched, replay, peer, calls, catchup, control

suiteVars == <<part,
    opts, entries, active, session, gen, pairing, pending, securityPending, accountPending, net,
    known, checkpoint, tip, saved, headers, accountStates, assetStates, sims, simCount, consumed,
    req, strays, native, token, active1, session1, wallet, network, balance, assets, chip,
    chainName, transfer, resource, simulation, payment, request, review, made, seen, sessions, task,
    server, requests, jobs, ledger, page, mode, now, sched, replay, peer, calls, catchup, control>>

\* Concurrent requests, and the accounts of the page, are interchangeable.
AppSymmetry == Permutations({w1, w2}) \cup Permutations({u1, u2})

\* The bridges that are shipped: from the command line, and in the Mac wallet
\* (which verifies nothing before the miner has made a network).
CommandLine == [checkpoint |-> TRUE, headers |-> TRUE, handoffs |-> TRUE]
MacWallet == [checkpoint |-> TRUE, headers |-> FALSE, handoffs |-> FALSE]
Launchers == {CommandLine, MacWallet}

-----------------------------------------------------------------------------
\* Two accounts, two networks, two concurrent requests; the command-line
\* bridge, which keeps all three files, and the Mac wallet, which keeps
\* checkpoints only.
BridgeInit ==
    /\ part = "bridge" /\ Init /\ native = 0 /\ token = 0 /\ active1 = 0 /\ session1 = 0
    /\ wallet = 0 /\ network = 0 /\ balance = 0 /\ assets = 0 /\ chip = 0 /\ chainName = 0
    /\ transfer = 0 /\ resource = 0 /\ simulation = 0 /\ payment = 0 /\ request = 0 /\ review = 0
    /\ made = 0 /\ seen = 0 /\ sessions = 0 /\ task = 0 /\ server = 0 /\ requests = 0 /\ jobs = 0
    /\ ledger = 0 /\ page = 0 /\ mode = 0 /\ now = 0 /\ sched = 0 /\ replay = 0 /\ peer = 0
    /\ calls = 0 /\ catchup = 0 /\ control = 0
BridgeStep ==
    /\ part = "bridge" /\ Next
    /\ UNCHANGED <<part,
        native, token, active1, session1, wallet, network, balance, assets, chip, chainName,
        transfer, resource, simulation, payment, request, review, made, seen, sessions, task,
        server, requests, jobs, ledger, page, mode, now, sched, replay, peer, calls, catchup,
        control>>
-----------------------------------------------------------------------------
\* The page while accounts change and sessions end.
WA == INSTANCE WalletApp WITH
    Accounts <- {u1, u2}, MaxSessions <- 2, MaxIntents <- 0, MaxTasks <- 2, Handlers <- {"pair",
    "change", "node1", "node2", "assets", "name"}, active <- active1, session <- session1
PageInit ==
    /\ part = "page" /\ WA!Init /\ Init /\ opts = CommandLine /\ server = 0 /\ requests = 0
    /\ jobs = 0 /\ ledger = 0 /\ page = 0 /\ mode = 0 /\ now = 0 /\ sched = 0 /\ replay = 0
    /\ peer = 0 /\ calls = 0 /\ catchup = 0 /\ control = 0
PageStep ==
    /\ part = "page" /\ WA!Next
    /\ UNCHANGED <<part,
        opts, entries, active, session, gen, pairing, pending, securityPending, accountPending, net,
        known, checkpoint, tip, saved, headers, accountStates, assetStates, sims, simCount,
        consumed, req, strays, server, requests, jobs, ledger, page, mode, now, sched, replay, peer,
        calls, catchup, control>>
-----------------------------------------------------------------------------
\* Two operations entered, one of them perhaps twice, and signed.
WF == INSTANCE WalletApp WITH
    Accounts <- {u1, u2}, MaxSessions <- 1, MaxIntents <- 2, MaxTasks <- 2, Handlers <- {"pair",
    "change", "node1", "transfer", "twice", "resource", "payment", "sign", "confirm"}, active <-
    active1, session <- session1
FormsInit ==
    /\ part = "forms" /\ WF!Init /\ Init /\ opts = CommandLine /\ server = 0 /\ requests = 0
    /\ jobs = 0 /\ ledger = 0 /\ page = 0 /\ mode = 0 /\ now = 0 /\ sched = 0 /\ replay = 0
    /\ peer = 0 /\ calls = 0 /\ catchup = 0 /\ control = 0
FormsStep ==
    /\ part = "forms" /\ WF!Next
    /\ UNCHANGED <<part,
        opts, entries, active, session, gen, pairing, pending, securityPending, accountPending, net,
        known, checkpoint, tip, saved, headers, accountStates, assetStates, sims, simCount,
        consumed, req, strays, server, requests, jobs, ledger, page, mode, now, sched, replay, peer,
        calls, catchup, control>>
-----------------------------------------------------------------------------
\* Two model checks, a link and a receipt, one lost answer.
LR == INSTANCE ModelLab WITH
    Handlers <- {"connect", "check", "receipt"}, Addresses <- {u1}, Unread <- Unread, None <-
    NoAddress, MaxRequests <- 4, MaxFaults <- 1, MaxJobs <- 1, Units <- 2
ReceiptsInit ==
    /\ part = "receipts" /\ LR!Init /\ Init /\ opts = CommandLine /\ native = 0 /\ token = 0
    /\ active1 = 0 /\ session1 = 0 /\ wallet = 0 /\ network = 0 /\ balance = 0 /\ assets = 0
    /\ chip = 0 /\ chainName = 0 /\ transfer = 0 /\ resource = 0 /\ simulation = 0 /\ payment = 0
    /\ request = 0 /\ review = 0 /\ made = 0 /\ sessions = 0 /\ task = 0 /\ mode = 0 /\ now = 0
    /\ sched = 0 /\ replay = 0 /\ peer = 0 /\ calls = 0 /\ catchup = 0 /\ control = 0
ReceiptsStep ==
    /\ part = "receipts" /\ LR!Next
    /\ UNCHANGED <<part,
        opts, entries, active, session, gen, pairing, pending, securityPending, accountPending, net,
        known, checkpoint, tip, saved, headers, accountStates, assetStates, sims, simCount,
        consumed, req, strays, native, token, active1, session1, wallet, network, balance, assets,
        chip, chainName, transfer, resource, simulation, payment, request, review, made, sessions,
        task, mode, now, sched, replay, peer, calls, catchup, control>>
-----------------------------------------------------------------------------
\* Every other way to run a model.
LM == INSTANCE ModelLab WITH
    Handlers <- {"verify", "pair", "candidate", "stress", "recheck", "qwen", "replay"}, Addresses <-
    {u1}, Unread <- Unread, None <- NoAddress, MaxRequests <- 3, MaxFaults <- 1, MaxJobs <- 1, Units
    <- 2
ModelsInit ==
    /\ part = "models" /\ LM!Init /\ Init /\ opts = CommandLine /\ native = 0 /\ token = 0
    /\ active1 = 0 /\ session1 = 0 /\ wallet = 0 /\ network = 0 /\ balance = 0 /\ assets = 0
    /\ chip = 0 /\ chainName = 0 /\ transfer = 0 /\ resource = 0 /\ simulation = 0 /\ payment = 0
    /\ request = 0 /\ review = 0 /\ made = 0 /\ sessions = 0 /\ task = 0 /\ mode = 0 /\ now = 0
    /\ sched = 0 /\ replay = 0 /\ peer = 0 /\ calls = 0 /\ catchup = 0 /\ control = 0
ModelsStep ==
    /\ part = "models" /\ LM!Next
    /\ UNCHANGED <<part,
        opts, entries, active, session, gen, pairing, pending, securityPending, accountPending, net,
        known, checkpoint, tip, saved, headers, accountStates, assetStates, sims, simCount,
        consumed, req, strays, native, token, active1, session1, wallet, network, balance, assets,
        chip, chainName, transfer, resource, simulation, payment, request, review, made, sessions,
        task, mode, now, sched, replay, peer, calls, catchup, control>>
-----------------------------------------------------------------------------
\* The training ledger, one lost answer.
LT == INSTANCE ModelLab WITH
    Handlers <- {"connect", "training", "send"}, Addresses <- {u1}, Unread <- Unread, None <-
    NoAddress, MaxRequests <- 5, MaxFaults <- 1, MaxJobs <- 1, Units <- 2
TrainingInit ==
    /\ part = "training" /\ LT!Init /\ Init /\ opts = CommandLine /\ native = 0 /\ token = 0
    /\ active1 = 0 /\ session1 = 0 /\ wallet = 0 /\ network = 0 /\ balance = 0 /\ assets = 0
    /\ chip = 0 /\ chainName = 0 /\ transfer = 0 /\ resource = 0 /\ simulation = 0 /\ payment = 0
    /\ request = 0 /\ review = 0 /\ made = 0 /\ sessions = 0 /\ task = 0 /\ mode = 0 /\ now = 0
    /\ sched = 0 /\ replay = 0 /\ peer = 0 /\ calls = 0 /\ catchup = 0 /\ control = 0
TrainingStep ==
    /\ part = "training" /\ LT!Next
    /\ UNCHANGED <<part,
        opts, entries, active, session, gen, pairing, pending, securityPending, accountPending, net,
        known, checkpoint, tip, saved, headers, accountStates, assetStates, sims, simCount,
        consumed, req, strays, native, token, active1, session1, wallet, network, balance, assets,
        chip, chainName, transfer, resource, simulation, payment, request, review, made, sessions,
        task, mode, now, sched, replay, peer, calls, catchup, control>>
-----------------------------------------------------------------------------
\* The two ways to link an address.
LL == INSTANCE ModelLab WITH
    Handlers <- {"connect", "link", "complete", "state"}, Addresses <- {u1, u2}, Unread <- Unread,
    None <- NoAddress, MaxRequests <- 3, MaxFaults <- 1, MaxJobs <- 1, Units <- 2
LinksInit ==
    /\ part = "links" /\ LL!Init /\ Init /\ opts = CommandLine /\ native = 0 /\ token = 0
    /\ active1 = 0 /\ session1 = 0 /\ wallet = 0 /\ network = 0 /\ balance = 0 /\ assets = 0
    /\ chip = 0 /\ chainName = 0 /\ transfer = 0 /\ resource = 0 /\ simulation = 0 /\ payment = 0
    /\ request = 0 /\ review = 0 /\ made = 0 /\ sessions = 0 /\ task = 0 /\ mode = 0 /\ now = 0
    /\ sched = 0 /\ replay = 0 /\ peer = 0 /\ calls = 0 /\ catchup = 0 /\ control = 0
LinksStep ==
    /\ part = "links" /\ LL!Next
    /\ UNCHANGED <<part,
        opts, entries, active, session, gen, pairing, pending, securityPending, accountPending, net,
        known, checkpoint, tip, saved, headers, accountStates, assetStates, sims, simCount,
        consumed, req, strays, native, token, active1, session1, wallet, network, balance, assets,
        chip, chainName, transfer, resource, simulation, payment, request, review, made, sessions,
        task, mode, now, sched, replay, peer, calls, catchup, control>>
-----------------------------------------------------------------------------
\* Four identities share two slots; a window of three ticks; two
\* synchronizations with three peers of which one is faulty.
VH == INSTANCE ValidatorHttp WITH
    Modes <- {"schedule", "replay", "limits", "sync", "control"}, Identities <- {"a", "b", "c",
    "d"}, MaxConcurrent <- 2, MaxPerIdentity <- 1, MaxQueued <- 4, MaxQueuedPerIdentity <- 2, Skew
    <- 1, Ttl <- 2, Burst <- 2, Refill <- 1, MaxAddresses <- 2, MaxActive <- 2, Threshold <- 2,
    QuarantineTime <- 2, DecayTime <- 3, MaxEntries <- 4, Nested <- {}, Peers <- 1..3, Faulty <-
    {3}, SnapshotGap <- 2, RangeLimit <- 1, MaxTime <- 4, MaxHeight <- 2, MaxRuns <- 2, MaxOthers <-
    2
HttpInit ==
    /\ part = "http" /\ VH!Init /\ Init /\ opts = CommandLine /\ native = 0 /\ token = 0
    /\ active1 = 0 /\ session1 = 0 /\ wallet = 0 /\ network = 0 /\ balance = 0 /\ assets = 0
    /\ chip = 0 /\ chainName = 0 /\ transfer = 0 /\ resource = 0 /\ simulation = 0 /\ payment = 0
    /\ request = 0 /\ review = 0 /\ made = 0 /\ seen = 0 /\ sessions = 0 /\ task = 0 /\ server = 0
    /\ requests = 0 /\ jobs = 0 /\ ledger = 0 /\ page = 0
HttpStep ==
    /\ part = "http" /\ VH!Next
    /\ UNCHANGED <<part,
        opts, entries, active, session, gen, pairing, pending, securityPending, accountPending, net,
        known, checkpoint, tip, saved, headers, accountStates, assetStates, sims, simCount,
        consumed, req, strays, native, token, active1, session1, wallet, network, balance, assets,
        chip, chainName, transfer, resource, simulation, payment, request, review, made, seen,
        sessions, task, server, requests, jobs, ledger, page>>
-----------------------------------------------------------------------------
SuiteInit ==
    \/ BridgeInit
    \/ PageInit
    \/ FormsInit
    \/ ReceiptsInit
    \/ ModelsInit
    \/ TrainingInit
    \/ LinksInit
    \/ HttpInit
SuiteNext ==
    \/ BridgeStep
    \/ PageStep
    \/ FormsStep
    \/ ReceiptsStep
    \/ ModelsStep
    \/ TrainingStep
    \/ LinksStep
    \/ HttpStep
SuiteSpec == SuiteInit /\ [][SuiteNext]_suiteVars

\* WalletApp: in every settled state the page shows the account that the
\* bridge would sign with, its balance, name and payment request, and asks to
\* confirm only what it has simulated. ModelLab: a stored receipt belongs to
\* the current run, the page confirms only what the service has checked for
\* it, the job it polls for is not evicted, and it reports of a training
\* transfer what the ledger holds. WalletBridge: the saved height of a
\* network is never above the header history it is loaded with, so that a
\* reload never refuses the wallet's own files.
PagesAgree ==
    /\ part = "page" => WA!BalanceIsOwn /\ WA!WalletAgrees /\ WA!NameIsOwn
    /\ part = "forms" => WF!BalanceIsOwn /\ WF!WalletAgrees /\ WF!DialogReviewed /\ WF!RequestIsOwn
    /\ part = "receipts" => LR!ReceiptIsForRun /\ LR!ConfirmedIsChecked
    /\ part = "models" => LM!ReceiptIsForRun /\ LM!JobIsKept
    /\ part = "training" => LT!FateIsTrue
    /\ part = "bridge" => HistoryLoads

\* ValidatorHttp: slots are shared, a request is executed once whatever the
\* network repeats, no peer exceeds its rate, a synchronization with honest
\* peers reaches their height, control operations are never blocked.
IngressSafe ==
    /\ part = "http" =>
           VH!SlotsShared /\ VH!ExecutedOnce /\ VH!RateKept /\ VH!SyncReaches /\ VH!ControlFree

\* ModelLab: a transfer that may have been sent is repeated under the same
\* identifier. ValidatorHttp: requests that were already inside do not extend
\* a quarantine.
RepeatsHarmless == [][
    /\ part = "training" => LT!RetryKeepsId
    /\ part = "http" => VH!QuarantineEnds]_suiteVars

-----------------------------------------------------------------------------
SignSpec == FormsInit /\ [][FormsStep]_suiteVars

\* WalletApp: when a confirmed signature arrives for the operation that is
\* still pending, the page replaces it by the signed transaction.
SignedIsDisplayed == [][WF!requestSignature => task["sign"].intent \notin {transfer', resource'}]_suiteVars

=============================================================================
