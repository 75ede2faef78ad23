------------------------------ MODULE ModelLab ------------------------------
(***************************************************************************)
(* The model laboratory of the mining app: the page                         *)
(* (src/mining-app/app.js) and the local service behind it                  *)
(* (src/blockchain/mining-practice-app.mjs), joined by HTTP exchanges that  *)
(* overtake each other and lose their answers.  The service keeps one flag  *)
(* for "a model is running", the evidence of the last model check, the      *)
(* intent and the receipt that bind it to a linked wallet, one committed    *)
(* candidate, the jobs of the open model, and a training ledger.  A run, a  *)
(* nonce, a challenge, a job and a transfer are named by the request that   *)
(* made them; 0 is "none".                                                  *)
(***************************************************************************)
EXTENDS Naturals, FiniteSets, Sequences, SequencesExt

CONSTANTS
    Handlers,     \* the buttons of the page that are used
    Addresses,    \* wallet addresses
    None,         \* no address
    Unread,       \* the page has no snapshot of the training ledger
    MaxRequests,  \* bound on the HTTP exchanges
    MaxFaults,    \* bound on lost answers, offline spells and reloads
    MaxJobs,      \* the service keeps this many jobs of the open model
    Units         \* TRAINING_UNITS: the amounts are all 1

VARIABLES
    server,    \* what the service keeps
    requests,  \* the exchanges, in the order the page made them
    jobs,      \* openModelJobs: requests in insertion order
    ledger,    \* the training ledger: who started it, the transfers entered
    page,      \* what the page keeps
    seen       \* history: overlapping runs, receipts checked, faults

vars == <<server, requests, jobs, ledger, page, seen>>

NoIntent == [nonce |-> 0, recipient |-> None, evidence |-> 0]
Nothing  == [id |-> 0, status |-> "none"]

Init ==
    /\ server = [running |-> FALSE, linked |-> None, challenge |-> 0,
                 evidence |-> 0, intent |-> NoIntent, receipt |-> 0,
                 completing |-> FALSE, candidate |-> 0]
    /\ requests = << >>
    /\ jobs = << >>
    /\ ledger = [owner |-> None, entries |-> {}]
    /\ page = [waits |-> [h \in Handlers |-> 0], linked |-> None, pending |-> 0,
               panel |-> NoIntent, snapshot |-> Unread, transfer |-> 0,
               shown |-> Nothing, fate |-> Nothing]
    /\ seen = [overlap |-> FALSE, relinked |-> FALSE, checked |-> {}, faults |-> 0]

---------------------------------------------------------------------------
\* Exchanges.

Waits(h) == h \in Handlers /\ page.waits[h] # 0
Of(h)    == requests[page.waits[h]]

\* The page sends a request for handler h, and waits for its answer.
Post(h, op, arg) ==
    /\ Len(requests) < MaxRequests
    /\ requests' = Append(requests, [op |-> op, arg |-> arg, stage |-> "sent", answer |-> "none",
                                     of |-> NoIntent, data |-> {}])
Posted(h) == [page.waits EXCEPT ![h] = Len(requests) + 1]
Settled(h) == [page.waits EXCEPT ![h] = 0]

Serving(i, op, stage) == i \in DOMAIN requests /\ requests[i].op = op /\ requests[i].stage = stage
Answered(i, answer) == [requests EXCEPT ![i].stage = "answered", ![i].answer = answer]

---------------------------------------------------------------------------
\* The page: one handler for each button.

\* Handlers that refuse to start while one of these is in flight.  The recheck
\* is not among them: recheckRunning is only read by its own handler.
Exclusive == {"check", "verify", "pair", "candidate", "stress", "qwen", "replay"}

Free(h) == \A g \in Exclusive \cup (IF h = "recheck" THEN {"recheck"} ELSE {}) : ~Waits(g)

Click(h, op, arg) ==
    /\ h \in Handlers /\ ~Waits(h)
    /\ Post(h, op, arg)

\* start: the run's panel is emptied, then the model check is asked for.
clickStart ==
    /\ Click("check", "check", 0) /\ Free("check")
    /\ page' = [page EXCEPT !.waits = Posted("check"), !.panel = NoIntent]
    /\ UNCHANGED <<server, jobs, ledger, seen>>

Evaluate(h, op) ==
    /\ Click(h, op, 0) /\ Free(h)
    /\ page' = [page EXCEPT !.waits = Posted(h)]
    /\ UNCHANGED <<server, jobs, ledger, seen>>

clickVerify    == Evaluate("verify", "verify")
clickPair      == Evaluate("pair", "pair")
clickCandidate == Evaluate("candidate", "candidate")
clickStress    == Evaluate("stress", "commit")
clickRecheck   == Evaluate("recheck", "recheck")
clickQwen      == Evaluate("qwen", "qwen")
clickReplay    == Evaluate("replay", "replay")

\* irisReceiptComplete: the wallet has signed the intent of the panel.
clickReceipt ==
    /\ page.panel # NoIntent
    /\ Click("receipt", "receipt", page.panel.nonce)
    /\ page' = [page EXCEPT !.waits = Posted("receipt")]
    /\ UNCHANGED <<server, jobs, ledger, seen>>

\* walletLinkConnect: any wallet may answer.
clickConnect ==
    /\ Click("connect", "connect", 0)
    /\ page' = [page EXCEPT !.waits = Posted("connect")]
    /\ UNCHANGED <<server, jobs, ledger, seen>>

\* walletLinkStart
clickLinkStart ==
    /\ Click("link", "challenge", 0)
    /\ page' = [page EXCEPT !.waits = Posted("link"), !.linked = None, !.panel = NoIntent,
                            !.snapshot = Unread, !.transfer = 0, !.pending = 0]
    /\ seen' = [seen EXCEPT !.relinked = @ \/ page.transfer # 0]
    /\ UNCHANGED <<server, jobs, ledger>>

\* walletLinkComplete: the proof carries the challenge of the page.
clickLinkComplete ==
    /\ page.pending # 0
    /\ Click("complete", "complete", page.pending)
    /\ page' = [page EXCEPT !.waits = Posted("complete")]
    /\ UNCHANGED <<server, jobs, ledger, seen>>

\* syntheticStart
clickTraining ==
    /\ Click("training", "training", 0)
    /\ page' = [page EXCEPT !.waits = Posted("training")]
    /\ UNCHANGED <<server, jobs, ledger, seen>>

\* Mutant: a retry after an unknown outcome gets a new identifier.
clickSendFresh ==
    /\ page.linked # None /\ page.snapshot = page.linked
    /\ Click("send", "transfer", [id |-> Len(requests) + 1, recipient |-> page.linked])
    /\ page' = [page EXCEPT !.waits = Posted("send"), !.transfer = Len(requests) + 1,
                            !.fate = [id |-> Len(requests) + 1, status |-> "sent"]]
    /\ UNCHANGED <<server, jobs, ledger, seen>>

\* syntheticSend: a transfer whose outcome is unknown is sent again as it was.
\* A retry goes out to the address the first attempt named.
clickSend ==
    /\ page.linked # None /\ page.snapshot = page.linked
    /\ LET id == IF page.transfer # 0 THEN page.transfer ELSE Len(requests) + 1
           to == IF page.transfer # 0 THEN requests[page.transfer].arg.recipient ELSE page.linked
       IN  /\ Click("send", "transfer", [id |-> id, recipient |-> to])
           /\ page' = [page EXCEPT !.waits = Posted("send"), !.transfer = id,
                                   !.fate = [id |-> id, status |-> "sent"]]
    /\ UNCHANGED <<server, jobs, ledger, seen>>

\* loadSyntheticState
loadSyntheticState ==
    /\ ~Waits("link") /\ page.pending = 0 /\ page.snapshot = Unread
    /\ Click("state", "state", 0)
    /\ page' = [page EXCEPT !.waits = Posted("state")]
    /\ UNCHANGED <<server, jobs, ledger, seen>>

---------------------------------------------------------------------------
\* The service: one action where a handler runs without waiting, two where it
\* waits for a body, a wallet or a model.

Refuse(i) ==
    /\ requests' = Answered(i, "refused")
    /\ UNCHANGED <<server, jobs, ledger, page, seen>>

\* The handlers that only hold the running flag while they work.
Admit(i, op) ==
    /\ Serving(i, op, "sent")
    /\ IF server.running
       THEN Refuse(i)
       ELSE /\ server' = [server EXCEPT !.running = TRUE]
            /\ requests' = [requests EXCEPT ![i].stage = "run"]
            /\ UNCHANGED <<jobs, ledger, page, seen>>

Finish(i, op) ==
    /\ Serving(i, op, "run")
    /\ server' = [server EXCEPT !.running = FALSE]
    /\ \E answer \in {"ok", "failed"} : requests' = Answered(i, answer)
    /\ UNCHANGED <<jobs, ledger, page, seen>>

verifyEvidence(i)    == Admit(i, "verify") \/ Finish(i, "verify")
recheckReceipt(i)    == Admit(i, "pair") \/ Finish(i, "pair")
evaluateCandidate(i) == Admit(i, "candidate") \/ Finish(i, "candidate")
recheckCandidate(i)  == Admit(i, "recheck") \/ Finish(i, "recheck")

\* /model-check: the recipient is the address linked when the run starts.
admitModelCheck(i) ==
    /\ Serving(i, "check", "sent")
    /\ IF server.running
       THEN Refuse(i)
       ELSE /\ server' = [server EXCEPT !.running = TRUE, !.evidence = 0, !.intent = NoIntent,
                                        !.receipt = 0]
            /\ requests' = [requests EXCEPT ![i].stage = "run", ![i].of.recipient = server.linked]
            /\ UNCHANGED <<jobs, ledger, page, seen>>

finishModelCheck(i) ==
    /\ Serving(i, "check", "run")
    /\ \/ /\ LET who == requests[i].of.recipient
             IN  server' = [server EXCEPT !.running = FALSE, !.evidence = i,
                               !.intent = IF who = None THEN @
                                          ELSE [nonce |-> i, recipient |-> who, evidence |-> i]]
          /\ requests' = Answered(i, "ok")
       \/ /\ server' = [server EXCEPT !.running = FALSE]
          /\ requests' = Answered(i, "failed")
    /\ UNCHANGED <<jobs, ledger, page, seen>>

\* /model-run-receipt/intent
readIntent(i) ==
    /\ Serving(i, "intent", "sent")
    /\ requests' = IF server.intent = NoIntent \/ server.linked # server.intent.recipient
                   THEN Answered(i, "refused")
                   ELSE [Answered(i, "ok") EXCEPT ![i].of = server.intent]
    /\ UNCHANGED <<server, jobs, ledger, page, seen>>

\* /model-run-receipt/complete up to the body.
admitReceipt(i) ==
    /\ Serving(i, "receipt", "sent")
    /\ IF \/ server.intent = NoIntent \/ server.linked # server.intent.recipient
          \/ server.evidence = 0 \/ server.receipt # 0 \/ server.completing
       THEN Refuse(i)
       ELSE /\ server' = [server EXCEPT !.completing = TRUE]
            /\ requests' = [requests EXCEPT ![i].stage = "body",
                               ![i].of = [server.intent EXCEPT !.evidence = server.evidence]]
            /\ UNCHANGED <<jobs, ledger, page, seen>>

\* /model-run-receipt/complete from the body on: the run must not have changed,
\* and the receipt must be signed for this intent and this evidence.  Or the
\* body does not come within ten seconds.
finishReceipt(i) ==
    /\ Serving(i, "receipt", "body")
    /\ LET at == requests[i].of
           good == /\ server.intent.nonce = at.nonce /\ server.evidence = at.evidence
                   /\ server.linked = at.recipient /\ server.receipt = 0
                   /\ at.nonce = requests[i].arg /\ server.intent.evidence = at.evidence
       IN  \E arrives \in {good, FALSE} :
           /\ server' = [server EXCEPT !.completing = FALSE, !.receipt = IF arrives THEN at.nonce ELSE @]
           /\ requests' = Answered(i, IF arrives THEN "ok" ELSE "failed")
           /\ seen' = [seen EXCEPT !.checked = IF arrives THEN @ \cup {at.nonce} ELSE @]
    /\ UNCHANGED <<jobs, ledger, page>>

\* /model-run-receipt/status
readReceiptStatus(i) ==
    /\ Serving(i, "status", "sent")
    /\ requests' = IF /\ server.intent # NoIntent /\ server.linked = server.intent.recipient
                      /\ server.receipt # 0
                   THEN [Answered(i, "ok") EXCEPT ![i].of = server.intent]
                   ELSE Answered(i, "refused")
    /\ UNCHANGED <<server, jobs, ledger, page, seen>>

\* /candidate/iris-linear/commit: refused while one is pending that has not
\* expired; the seed is drawn after the model is fixed.
commitCandidate(i) ==
    \/ /\ Serving(i, "commit", "sent")
       /\ \E expired \in BOOLEAN :
             IF server.running \/ (server.candidate # 0 /\ ~expired)
             THEN Refuse(i)
             ELSE /\ server' = [server EXCEPT !.running = TRUE]
                  /\ requests' = [requests EXCEPT ![i].stage = "run"]
                  /\ UNCHANGED <<jobs, ledger, page, seen>>
    \/ /\ Serving(i, "commit", "run")
       /\ \/ /\ server' = [server EXCEPT !.running = FALSE, !.candidate = i]
             /\ requests' = Answered(i, "ok")
          \/ /\ server' = [server EXCEPT !.running = FALSE]
             /\ requests' = Answered(i, "failed")
       /\ UNCHANGED <<jobs, ledger, page, seen>>

\* /candidate/iris-linear/reveal: the commitment is taken out before its age is
\* read, and the evaluation does not wait.
revealCandidate(i) ==
    /\ Serving(i, "reveal", "sent")
    /\ IF server.running \/ server.candidate = 0 \/ server.candidate # requests[i].arg
       THEN Refuse(i)
       ELSE /\ server' = [server EXCEPT !.candidate = 0]
            /\ \E answer \in {"ok", "failed"} : requests' = Answered(i, answer)
            /\ UNCHANGED <<jobs, ledger, page, seen>>

\* A job is entered; the oldest leaves a full table.  A finished job that no
\* page waits for may be past its thirty minutes.
Entered(i) ==
    LET Stale == {j \in Range(jobs) : requests[j].stage # "job" /\ \A h \in Handlers : page.waits[h] # j}
        kept  == SelectSeq(jobs, LAMBDA j : j \notin Stale)
        Room(s) == IF Len(s) >= MaxJobs THEN Tail(s) ELSE s
    IN  {Append(Room(jobs), i), Append(Room(kept), i)}

StartJob(i) ==
    /\ server' = [server EXCEPT !.running = TRUE]
    /\ jobs' \in Entered(i)
    /\ requests' = [requests EXCEPT ![i].stage = "job", ![i].answer = "accepted"]
    /\ seen' = [seen EXCEPT !.overlap = @ \/ server.running]
    /\ UNCHANGED <<ledger, page>>

\* /open-model/qwen-check
startOpenModel(i) ==
    /\ Serving(i, "qwen", "sent")
    /\ IF server.running THEN Refuse(i) ELSE StartJob(i)

\* /open-model/replay: the flag is read before the body is awaited and set
\* after it, without another look.
startReplay(i) ==
    \/ /\ Serving(i, "replay", "sent")
       /\ IF server.running
          THEN Refuse(i)
          ELSE /\ requests' = [requests EXCEPT ![i].stage = "body"]
               /\ UNCHANGED <<server, jobs, ledger, page, seen>>
    \/ /\ Serving(i, "replay", "body")
       /\ \/ StartJob(i)
          \/ requests' = Answered(i, "failed") /\ UNCHANGED <<server, jobs, ledger, page, seen>>

\* The model of a job ends.
endJob(i) ==
    /\ \E op \in {"qwen", "replay"} : Serving(i, op, "job")
    /\ server' = [server EXCEPT !.running = FALSE]
    /\ \E end \in {"done", "failed"} : requests' = Answered(i, end)
    /\ UNCHANGED <<jobs, ledger, page, seen>>

\* /wallet-link/connect: the wallet on this machine is asked, for up to three
\* minutes; its user may decline.
connectWallet(i) ==
    \/ /\ Serving(i, "connect", "sent")
       /\ requests' = [requests EXCEPT ![i].stage = "run"]
       /\ UNCHANGED <<server, jobs, ledger, page, seen>>
    \/ /\ Serving(i, "connect", "run")
       /\ \/ \E a \in Addresses :
                /\ server' = [server EXCEPT !.linked = a]
                /\ requests' = [Answered(i, "ok") EXCEPT ![i].of.recipient = a]
          \/ requests' = Answered(i, "failed") /\ UNCHANGED server
       /\ UNCHANGED <<jobs, ledger, page, seen>>

\* /wallet-link/challenge
createChallenge(i) ==
    /\ Serving(i, "challenge", "sent")
    /\ server' = [server EXCEPT !.challenge = i, !.linked = None]
    /\ requests' = Answered(i, "ok")
    /\ UNCHANGED <<jobs, ledger, page, seen>>

\* /wallet-link/complete: the challenge is taken before the body is read, so
\* that one challenge is tried once.
completeLink(i) ==
    \/ /\ Serving(i, "complete", "sent")
       /\ server' = [server EXCEPT !.challenge = 0]
       /\ requests' = IF server.challenge = 0 THEN Answered(i, "failed")
                      ELSE [requests EXCEPT ![i].stage = "body", ![i].of.nonce = server.challenge]
       /\ UNCHANGED <<jobs, ledger, page, seen>>
    \/ /\ Serving(i, "complete", "body")
       /\ \/ /\ requests[i].of.nonce = requests[i].arg
             /\ \E a \in Addresses :
                   /\ server' = [server EXCEPT !.linked = a]
                   /\ requests' = [Answered(i, "ok") EXCEPT ![i].of.recipient = a]
          \/ requests' = Answered(i, "failed") /\ UNCHANGED server
       /\ UNCHANGED <<jobs, ledger, page, seen>>

\* syntheticState: the address is shown while it may use the ledger.
VerifiedRecipient ==
    IF ledger.owner \in {None, server.linked} THEN server.linked ELSE None

readSyntheticState(i) ==
    /\ \E op \in {"state", "reconcile"} : Serving(i, op, "sent")
    /\ requests' = [Answered(i, "ok") EXCEPT ![i].of.recipient = VerifiedRecipient,
                                             ![i].data = {t.id : t \in ledger.entries}]
    /\ UNCHANGED <<server, jobs, ledger, page, seen>>

\* /synthetic-transfer/start
startTraining(i) ==
    /\ Serving(i, "training", "sent")
    /\ IF server.linked = None \/ ledger.owner # None
       THEN Refuse(i)
       ELSE /\ ledger' = [ledger EXCEPT !.owner = server.linked]
            /\ requests' = [Answered(i, "ok") EXCEPT ![i].of.recipient = server.linked]
            /\ UNCHANGED <<server, jobs, page, seen>>

\* transfer of synthetic-transfer.mjs
Accepts(t) ==
    /\ ledger.owner # None
    /\ \A e \in ledger.entries : e.id # t.id
    /\ t.recipient = ledger.owner
    /\ Cardinality(ledger.entries) < Units

\* /synthetic-transfer
enterTransfer(i) ==
    /\ Serving(i, "transfer", "sent")
    /\ LET t == requests[i].arg
       IN  IF server.linked = t.recipient /\ Accepts(t)
           THEN /\ ledger' = [ledger EXCEPT !.entries = @ \cup {t}]
                /\ requests' = [Answered(i, "ok") EXCEPT ![i].of.recipient = t.recipient]
                /\ UNCHANGED <<server, jobs, page, seen>>
           ELSE /\ requests' = Answered(i, "failed")
                /\ UNCHANGED <<server, jobs, ledger, page, seen>>

---------------------------------------------------------------------------
\* The page again: what it does with an answer, or without one.

Ends(h) == Waits(h) /\ Of(h).stage = "answered"
Ok(h)   == Of(h).answer = "ok"

Fault == seen.faults < MaxFaults /\ seen' = [seen EXCEPT !.faults = @ + 1]

Settle(h) == page' = [page EXCEPT !.waits = Settled(h)] /\ UNCHANGED requests

\* start: with an address linked, the intent of the run is asked for.
answerCheck ==
    /\ Ends("check") /\ Of("check").op = "check"
    /\ IF Ok("check") /\ page.linked # None
       THEN Post("check", "intent", 0) /\ page' = [page EXCEPT !.waits = Posted("check")]
       ELSE Settle("check")
    /\ UNCHANGED <<server, jobs, ledger, seen>>

answerIntent ==
    /\ Ends("check") /\ Of("check").op = "intent"
    /\ page' = [page EXCEPT !.waits = Settled("check"),
                            !.panel = IF Ok("check") /\ Of("check").of.recipient = page.linked
                                      THEN Of("check").of ELSE @]
    /\ UNCHANGED <<server, requests, jobs, ledger, seen>>

\* The handlers that only show the answer, and the first half of the stress test.
answerEvaluation ==
    /\ \E h \in {"verify", "pair", "candidate", "stress", "recheck"} :
          /\ Ends(h)
          /\ IF Of(h).op = "commit" /\ Ok(h)
             THEN Post(h, "reveal", page.waits[h]) /\ page' = [page EXCEPT !.waits = Posted(h)]
             ELSE Settle(h)
    /\ UNCHANGED <<server, jobs, ledger, seen>>

\* The polling loop ends when the job has ended or is not in the table.
pollJob ==
    /\ \E h \in {"qwen", "replay"} :
          /\ Waits(h)
          /\ Ends(h) \/ (Of(h).stage = "job" /\ page.waits[h] \notin Range(jobs))
          /\ Settle(h)
    /\ UNCHANGED <<server, jobs, ledger, seen>>

Showing(nonce, status) == [id |-> nonce, status |-> status]

\* irisReceiptComplete: an answer that is neither 200 nor 400 leaves the
\* outcome open, and the service is asked for it.
answerReceipt ==
    /\ Ends("receipt") /\ Of("receipt").op = "receipt"
    /\ IF Of("receipt").answer = "refused"
       THEN Post("receipt", "status", 0) /\ page' = [page EXCEPT !.waits = Posted("receipt")]
       ELSE /\ page' = [page EXCEPT !.waits = Settled("receipt"),
                   !.shown = Showing(Of("receipt").arg, IF Ok("receipt") THEN "confirmed" ELSE "rejected")]
            /\ UNCHANGED requests
    /\ UNCHANGED <<server, jobs, ledger, seen>>

answerStatus ==
    /\ Ends("receipt") /\ Of("receipt").op = "status"
    /\ page' = [page EXCEPT !.waits = Settled("receipt"),
           !.shown = Showing(page.panel.nonce,
                             IF Ok("receipt") /\ page.panel # NoIntent
                                /\ Of("receipt").of.nonce = page.panel.nonce
                             THEN "confirmed" ELSE "unknown")]
    /\ UNCHANGED <<server, requests, jobs, ledger, seen>>

answerConnect ==
    /\ Ends("connect")
    /\ page' = IF Ok("connect")
               THEN [page EXCEPT !.waits = Settled("connect"), !.linked = Of("connect").of.recipient,
                                 !.snapshot = Unread]
               ELSE [page EXCEPT !.waits = Settled("connect")]
    /\ UNCHANGED <<server, requests, jobs, ledger, seen>>

answerChallenge ==
    /\ Ends("link")
    /\ page' = [page EXCEPT !.waits = Settled("link"), !.pending = page.waits["link"]]
    /\ UNCHANGED <<server, requests, jobs, ledger, seen>>

answerComplete ==
    /\ Ends("complete")
    /\ page' = IF Ok("complete")
               THEN [page EXCEPT !.waits = Settled("complete"), !.linked = Of("complete").of.recipient,
                                 !.snapshot = Unread, !.pending = 0]
               ELSE [page EXCEPT !.waits = Settled("complete"), !.pending = 0]
    /\ UNCHANGED <<server, requests, jobs, ledger, seen>>

answerTraining ==
    /\ Ends("training")
    /\ page' = [page EXCEPT !.waits = Settled("training"),
                            !.snapshot = IF Ok("training") THEN Of("training").of.recipient ELSE @]
    /\ UNCHANGED <<server, requests, jobs, ledger, seen>>

\* loadSyntheticState, unless a link is being made
answerState ==
    /\ Ends("state")
    /\ page' = IF Waits("link") \/ page.pending # 0
               THEN [page EXCEPT !.waits = Settled("state")]
               ELSE [page EXCEPT !.waits = Settled("state"), !.snapshot = Of("state").of.recipient,
                                 !.linked = Of("state").of.recipient]
    /\ UNCHANGED <<server, requests, jobs, ledger, seen>>

\* syntheticSend: anything but success is settled by the ledger's history.
Reconcile(rejected) ==
    /\ Post("send", "reconcile", [id |-> Of("send").arg.id, rejected |-> rejected])
    /\ page' = [page EXCEPT !.waits = Posted("send")]

answerSend ==
    /\ Ends("send") /\ Of("send").op = "transfer"
    /\ IF Ok("send")
       THEN /\ page' = [page EXCEPT !.waits = Settled("send"), !.snapshot = Of("send").of.recipient,
                            !.transfer = 0, !.fate = Showing(Of("send").arg.id, "entered")]
            /\ UNCHANGED requests
       ELSE Reconcile(TRUE)
    /\ UNCHANGED <<server, jobs, ledger, seen>>

answerReconcile ==
    /\ Ends("send") /\ Of("send").op = "reconcile"
    /\ LET r == Of("send")
           done == r.arg.id \in r.data
           fate == IF done THEN "entered" ELSE IF r.arg.rejected THEN "rejected" ELSE "unknown"
       IN  page' = [page EXCEPT !.waits = Settled("send"), !.snapshot = r.of.recipient,
                       !.transfer = IF fate = "unknown" THEN @ ELSE 0,
                       !.fate = Showing(r.arg.id, fate)]
    /\ UNCHANGED <<server, requests, jobs, ledger, seen>>

\* fetchQwenJson, AbortSignal.timeout, a reset connection: the page stops
\* waiting; the exchange goes on without it.  The model check has no deadline.
loseAnswer ==
    /\ Fault
    /\ \E h \in Handlers \ {"check"} :
          /\ Waits(h)
          /\ CASE h = "send" /\ Of(h).op = "transfer" -> Reconcile(FALSE)
               [] h = "receipt" /\ Of(h).op = "receipt" ->
                     Post(h, "status", 0) /\ page' = [page EXCEPT !.waits = Posted(h)]
               [] h = "send" /\ Of(h).op = "reconcile" ->
                     /\ page' = [page EXCEPT !.waits = Settled(h),
                                   !.fate = Showing(Of(h).arg.id, "unknown")]
                     /\ UNCHANGED requests
               [] h = "receipt" /\ Of(h).op = "status" ->
                     /\ page' = [page EXCEPT !.waits = Settled(h),
                                   !.shown = Showing(page.panel.nonce, "unknown")]
                     /\ UNCHANGED requests
               [] h = "complete" ->
                     page' = [page EXCEPT !.waits = Settled(h), !.pending = 0] /\ UNCHANGED requests
               [] OTHER -> Settle(h)
    /\ UNCHANGED <<server, jobs, ledger>>

\* showOffline: a status request failed; the next one brings the page back.
showOffline ==
    /\ Fault
    /\ page.linked # None \/ page.pending # 0 \/ page.panel # NoIntent
    /\ page' = [page EXCEPT !.linked = None, !.pending = 0, !.panel = NoIntent, !.snapshot = Unread]
    /\ UNCHANGED <<server, requests, jobs, ledger>>

\* The window is loaded again while the service goes on.
reload ==
    /\ Fault
    /\ \E h \in Handlers : Waits(h)
    /\ page' = [page EXCEPT !.waits = [h \in Handlers |-> 0], !.linked = None, !.pending = 0,
                            !.panel = NoIntent, !.snapshot = Unread, !.transfer = 0,
                            !.shown = Nothing, !.fate = Nothing]
    /\ UNCHANGED <<server, requests, jobs, ledger>>

Page ==
    \/ clickStart \/ clickVerify \/ clickPair \/ clickCandidate \/ clickStress \/ clickRecheck
    \/ clickQwen \/ clickReplay \/ clickReceipt \/ clickConnect \/ clickLinkStart
    \/ clickLinkComplete \/ clickTraining \/ clickSend \/ loadSyntheticState
    \/ answerCheck \/ answerIntent \/ answerEvaluation \/ pollJob \/ answerReceipt \/ answerStatus
    \/ answerConnect \/ answerChallenge \/ answerComplete \/ answerTraining \/ answerState
    \/ answerSend \/ answerReconcile \/ loseAnswer \/ showOffline \/ reload

Service(i) ==
    \/ verifyEvidence(i) \/ recheckReceipt(i) \/ evaluateCandidate(i) \/ recheckCandidate(i)
    \/ admitModelCheck(i) \/ finishModelCheck(i) \/ readIntent(i)
    \/ admitReceipt(i) \/ finishReceipt(i) \/ readReceiptStatus(i)
    \/ commitCandidate(i) \/ revealCandidate(i) \/ startOpenModel(i) \/ startReplay(i) \/ endJob(i)
    \/ connectWallet(i) \/ createChallenge(i) \/ completeLink(i)
    \/ readSyntheticState(i) \/ startTraining(i) \/ enterTransfer(i)

Next == Page \/ \E i \in DOMAIN requests : Service(i)

Spec == Init /\ [][Next]_vars

---------------------------------------------------------------------------
\* A stored receipt is the one of the current intent, and of its evidence,
\* however runs, links and receipts interleave: as long as no replay started
\* beside another run (startReplay reads the flag before it awaits the body).
ReceiptIsForRun ==
    seen.overlap \/ server.receipt = 0
    \/ (server.receipt = server.intent.nonce /\ server.evidence = server.intent.evidence)

\* The page says that a receipt was checked only for a run whose receipt the
\* service has checked, also when the answer was lost and it asked again.
ConfirmedIsChecked ==
    seen.overlap \/ (page.shown.status = "confirmed" => page.shown.id \in seen.checked)

\* A job that the page polls for stays in the table while its model runs: a
\* full table only loses a job that has ended.
JobIsKept ==
    seen.overlap \/ \A h \in {"qwen", "replay"} :
        Waits(h) /\ Of(h).stage = "job" => page.waits[h] \in Range(jobs)

\* What the page says about a training transfer is what the ledger holds: an
\* entry it reports is there, one it reports refused is not and never will be.
FateIsTrue ==
    LET ids == {t.id : t \in ledger.entries}
    IN  /\ page.fate.status = "entered" => page.fate.id \in ids
        /\ page.fate.status = "rejected" => page.fate.id \notin ids

\* A transfer that is not known to have failed is sent again under its own
\* identifier: two entries never stem from one decision of the user, unless
\* the address was linked again in between.
Owed == page.fate.status \in {"sent", "unknown"}
RetryKeepsId ==
    page'.fate # page.fate /\ page'.fate.status = "sent" /\ Owed /\ ~seen.relinked
        => page'.fate.id = page.fate.id
=============================================================================
