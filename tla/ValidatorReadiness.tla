------------------------- MODULE ValidatorReadiness -------------------------
(* The three processes by which a candidate validator answers readiness      *)
(* challenges: a launcher starts a consensus signer, a transport signer and  *)
(* a gateway (validator-readiness-three-process-launcher.mjs), takes them    *)
(* through READY, PREPARE, activation and COMMIT, and then tells the signers *)
(* the height.  Every process is fail-stop: what it does not expect ends it, *)
(* and the end of one ends the cohort.                                       *)
(*                                                                           *)
(* A frame is its type, the sequence number and height of a height update,   *)
(* and whether its bindings (hashes, nonces, process ids, session) are those *)
(* of this cohort: the verify functions compare nothing else.  The launcher  *)
(* holds every pipe, so that a child learns of the end of any other process  *)
(* by `cut`: the launcher has released the pipes, or is dead.                *)
EXTENDS Naturals, Sequences, FiniteSets

CONSTANTS
    Challenges,     \* what observers ask; names the operation to be signed
    ExpiresAt,      \* the height at which the session ends
    MaxUpdates,     \* bound on height updates
    MaxFaults       \* bound on faults

VARIABLES
    step,           \* where launchCohort or updateHeight waits
    state,          \* the launcher's state
    closing,        \* teardown has been called
    terminal,       \* waitForTermination is resolved
    target,         \* the height of the update in progress
    previousUpdates,\* per signer, the last update acknowledged to the launcher
    inbox,          \* per child, the launcher's Inbox
    cut,            \* the pipes to the children are released
    child,          \* per child, its phase
    refused,        \* the signers that stopped over an invalid height
    hung,           \* the children that answer nothing any more
    control, status,\* per child, the frames on its control and status pipe
    previousUpdate, \* per signer, the last update it has taken
    adopting,       \* per signer, an update acknowledged and not yet taken
    request, response, \* per signer, the frames on its data pipes
    pending,        \* per signer, what the gateway's adapter waits for
    query,          \* per challenge, how far the gateway is with it
    work,           \* per signer, the request whose key operation is under way
    operations,     \* per signer, the operations reserved and completed
    keyed,          \* per signer, how often the key was used for an operation
    expired,        \* the session has expired by the clock
    installed,      \* the installed release is the one of the session
    updates, faults

launcherVars == <<step, state, closing, terminal, target, previousUpdates, inbox, cut>>
childVars == <<child, refused, hung, control, status, previousUpdate, adopting>>
dataVars == <<request, response, pending, query, work, operations, keyed>>
worldVars == <<expired, installed, updates, faults>>
vars == <<launcherVars, childVars, dataVars, worldVars>>

Roles == {"consensus", "transport"}
Procs == Roles \union {"gateway"}
None == "none"

\* Of the session, the release, the candidate and the trusted checkpoint that
\* a package names, only the time can come to disagree.
sessionOk == ~expired

\* A frame bound to this cohort, and what every verification asks of one.
Frame(type) == [type |-> type, n |-> 0, h |-> 0, good |-> TRUE]
Bound(frame, type) == frame.type = type /\ frame.good /\ sessionOk
NoUpdate == [n |-> 0, h |-> 0]
NoInbox == [expected |-> "ready", waiting |-> FALSE, following |-> None,
            message |-> Frame(None), failed |-> FALSE]
NoWork == [of |-> None, late |-> FALSE, polled |-> FALSE, signed |-> FALSE]

Init ==
    /\ step = "spawn" /\ state = "starting" /\ closing = FALSE /\ terminal = FALSE
    /\ target = 0 /\ previousUpdates = [r \in Roles |-> NoUpdate]
    /\ inbox = [p \in Procs |-> NoInbox] /\ cut = FALSE
    /\ child = [p \in Procs |-> None] /\ refused = {} /\ hung = {}
    /\ control = [p \in Procs |-> <<>>] /\ status = [p \in Procs |-> <<>>]
    /\ previousUpdate = [r \in Roles |-> NoUpdate]
    /\ adopting = [r \in Roles |-> NoUpdate]
    /\ request = [r \in Roles |-> <<>>] /\ response = [r \in Roles |-> <<>>]
    /\ pending = [r \in Roles |-> None] /\ query = [c \in Challenges |-> "new"]
    /\ work = [r \in Roles |-> NoWork]
    /\ operations = [r \in Roles |-> [c \in Challenges |-> None]]
    /\ keyed = [r \in Roles |-> [c \in Challenges |-> 0]]
    /\ expired = FALSE /\ installed = TRUE /\ updates = 0 /\ faults = 0

Gone(p) == child[p] \in {None, "exited"}
Alive(p) == child[p] \notin {None, "stopping", "exited"} /\ p \notin hung

-----------------------------------------------------------------------------
(* The frames.  READY names the process, its pid and nonce and its bootstrap *)
(* package; PREPARE binds the three READYs and carries the activation of     *)
(* each signer; COMMIT binds PREPARE, its acknowledgement and the activation *)
(* acknowledgements; every acknowledgement binds what it acknowledges.       *)

signerReady == Frame("ready")
gatewayReady == Frame("ready")
prepareCommand == Frame("prepare")
prepareAcknowledgement == Frame("prepare-ack")
activationCommand == Frame("activation")
activationAcknowledgement == Frame("activation-ack")
commitCommand == Frame("commit")
commitAcknowledgement == Frame("commit-ack")
activeAcknowledgement == Frame("active-ack")
heightUpdate(update) == [type |-> "height", n |-> update.n, h |-> update.h, good |-> TRUE]
heightAcknowledgement(update) ==
    [type |-> "height-ack", n |-> update.n, h |-> update.h, good |-> TRUE]
fatalStatus == Frame("fatal")

verifySignerReady(frame) == Bound(frame, "ready")
verifyGatewayReady(frame) == Bound(frame, "ready")
verifyReady(p, frame) ==
    IF p = "gateway" THEN verifyGatewayReady(frame) ELSE verifySignerReady(frame)
verifyPrepareCommand(frame) == Bound(frame, "prepare")
verifyPrepareAcknowledgement(p, frame) == Bound(frame, "prepare-ack")
verifyActivationCommand(frame) == Bound(frame, "activation")
verifyActivationAcknowledgement(p, frame) == Bound(frame, "activation-ack")
verifyCommitCommand(frame) == Bound(frame, "commit")
verifyCommitAcknowledgement(frame) == Bound(frame, "commit-ack")
verifyActiveAcknowledgement(frame) == Bound(frame, "active-ack")
verifyHeightAcknowledgement(frame, update) == Bound(frame, "height-ack") /\ frame.n = update.n

\* The input frames of the children carry the packages of the three roles; the
\* launcher and the child verify them.
signerInputOk == sessionOk
gatewayInputOk == sessionOk
validatedInputs == signerInputOk /\ gatewayInputOk

\* Requests and responses on a signer's data channel.
verifySignRequest(r) == sessionOk
createSignResponse(r) == sessionOk

\* A height update continues the chain of the signer's updates, does not go
\* back and stays below the height at which the session ends.
createHeightUpdate(previous, height) == [n |-> previous.n + 1, h |-> height]
heightUpdateOk(previous, update) ==
    update.n = previous.n + 1 /\ update.h >= previous.h /\ update.h < ExpiresAt /\ sessionOk

-----------------------------------------------------------------------------
(* The launcher.                                                             *)

\* The pipes are released before the children are asked to end.
teardown(reason) ==
    /\ closing' = TRUE /\ state' = reason /\ cut' = TRUE
fail == IF closing THEN UNCHANGED <<closing, state, cut>> ELSE teardown("failed")

\* The checks of the caller's options, the pins, the secrets and the inputs
\* of the children come before any child is started; a child that does not
\* start leaves the earlier ones to the teardown.
launchFails ==
    /\ step = "spawn" /\ faults < MaxFaults /\ faults' = faults + 1
    /\ \E started \in {{}, {"consensus"}, Roles} :
           child' = [p \in Procs |-> IF p \in started THEN "boot" ELSE None]
    /\ fail /\ step' = "over"
    /\ UNCHANGED <<terminal, target, previousUpdates, inbox, refused, hung, control, status,
                   previousUpdate, adopting, dataVars, expired, installed, updates>>

launch ==
    /\ step = "spawn" /\ installed /\ validatedInputs
    /\ child' = [p \in Procs |-> "boot"] /\ step' = "writes"
    /\ UNCHANGED <<state, closing, terminal, target, previousUpdates, inbox, cut, refused,
                   hung, control, status, previousUpdate, adopting, dataVars, worldVars>>

\* Inbox.next: a frame that has come is taken, else the caller waits for it.
next(ib, type, followingType) ==
    LET phase == IF ib.expected = None THEN type ELSE ib.expected
    IN IF ib.message.type # None
       THEN [ib EXCEPT !.expected = followingType, !.waiting = FALSE]
       ELSE [ib EXCEPT !.expected = phase, !.waiting = TRUE, !.following = followingType]

\* A write to a child whose pipes are released is refused.
writesDone ==
    /\ step = "writes"
    /\ IF closing
       THEN step' = "over" /\ UNCHANGED inbox
       ELSE /\ inbox' = [p \in Procs |-> IF inbox[p].failed THEN inbox[p]
                                         ELSE next(inbox[p], "ready", None)]
            /\ step' = "ready"
    /\ UNCHANGED <<state, closing, terminal, target, previousUpdates, cut, childVars,
                   dataVars, worldVars>>

\* The data handler of an Inbox: one frame at a time, of the expected type.
\* (What it reads after the teardown is of use in the last phase only.)
InboxReads(p) ==
    /\ status[p] # <<>> /\ step # "dead" /\ (closing => step = "active-ack")
    /\ status' = [status EXCEPT ![p] = Tail(@)]
    /\ LET ib == inbox[p]
           frame == Head(status[p])
       IN CASE ib.failed -> UNCHANGED <<inbox, closing, state, cut>>
            [] ~ib.failed /\ (ib.expected # frame.type \/ ib.message.type # None) ->
                   /\ inbox' = [inbox EXCEPT ![p].failed = TRUE, ![p].message = Frame(None)]
                   /\ fail
            [] OTHER ->
                   /\ inbox' = [inbox EXCEPT
                          ![p].message = frame, ![p].waiting = FALSE,
                          ![p].expected = IF ib.waiting THEN ib.following ELSE @]
                   /\ UNCHANGED <<closing, state, cut>>
    /\ UNCHANGED <<step, terminal, target, previousUpdates, child, refused, hung, control,
                   previousUpdate, adopting, dataVars, worldVars>>

\* A child's exit, and the end of its pipes, reach the launcher.
SeesExit(p) ==
    /\ child[p] = "exited" /\ ~closing /\ step # "dead"
    /\ fail /\ inbox' = [inbox EXCEPT ![p].failed = TRUE, ![p].message = Frame(None)]
    /\ UNCHANGED <<step, terminal, target, previousUpdates, childVars, dataVars,
                   worldVars>>

Arrived(p) == inbox[p].message.type # None /\ ~inbox[p].waiting
Taken(p) == [inbox[p] EXCEPT !.message = Frame(None)]
live == ~closing

\* One phase of launchCohort: the frames of `from` are verified, then `to` is
\* sent the next command and its answer awaited.
Phase(at, from, Verify(_, _), to, command, answer, followingType) ==
    /\ step = at /\ \A p \in from : Arrived(p)
    /\ IF (\A p \in from : Verify(p, inbox[p].message)) /\ live
       THEN /\ control' = [control EXCEPT ![to] = Append(@, command)]
            /\ inbox' = [p \in Procs |->
                   LET ib == IF p \in from THEN Taken(p) ELSE inbox[p]
                   IN IF p = to THEN next(ib, answer, followingType) ELSE ib]
            /\ step' = answer \o "@" \o to
            /\ UNCHANGED <<closing, state, cut>>
       ELSE /\ fail /\ step' = "over" /\ UNCHANGED <<control, inbox>>
    /\ UNCHANGED <<terminal, target, previousUpdates, child, refused, hung, status,
                   previousUpdate, adopting, dataVars, worldVars>>

prepare == Phase("ready", Procs, verifyReady, "gateway", prepareCommand, "prepare-ack", None)
activateConsensus ==
    Phase("prepare-ack@gateway", {"gateway"}, verifyPrepareAcknowledgement,
          "consensus", activationCommand, "activation-ack", None)
activateTransport ==
    Phase("activation-ack@consensus", {"consensus"}, verifyActivationAcknowledgement,
          "transport", activationCommand, "activation-ack", None)
\* The installed release is verified again before COMMIT.
commit ==
    \/ /\ installed
       /\ Phase("activation-ack@transport", {"transport"}, verifyActivationAcknowledgement,
                "gateway", commitCommand, "commit-ack", "active-ack")
    \/ /\ ~installed /\ step = "activation-ack@transport" /\ Arrived("transport")
       /\ fail /\ step' = "over"
       /\ UNCHANGED <<terminal, target, previousUpdates, inbox, childVars, dataVars, worldVars>>

commitAcknowledged ==
    /\ step = "commit-ack@gateway" /\ Arrived("gateway")
    /\ IF verifyCommitAcknowledgement(inbox["gateway"].message)
       THEN /\ inbox' = [inbox EXCEPT !["gateway"] = next(Taken("gateway"), "active-ack", None)]
            /\ step' = "active-ack" /\ UNCHANGED <<closing, state, cut>>
       ELSE fail /\ step' = "over" /\ UNCHANGED inbox
    /\ UNCHANGED <<terminal, target, previousUpdates, childVars, dataVars, worldVars>>

activeUnchecked ==
    /\ step = "active-ack" /\ Arrived("gateway")
    /\ verifyActiveAcknowledgement(inbox["gateway"].message)
    /\ state' = "active" /\ step' = "run"
    /\ inbox' = [inbox EXCEPT !["gateway"] = Taken("gateway")]
    /\ UNCHANGED <<closing, cut, terminal, target, previousUpdates, childVars, dataVars,
                   worldVars>>

activated ==
    /\ step = "active-ack" /\ Arrived("gateway")
    /\ IF verifyActiveAcknowledgement(inbox["gateway"].message) /\ live
       THEN /\ state' = "active" /\ step' = "run" /\ UNCHANGED <<closing, cut>>
            /\ inbox' = [inbox EXCEPT !["gateway"] = Taken("gateway")]
       ELSE fail /\ step' = "over" /\ UNCHANGED inbox
    /\ UNCHANGED <<terminal, target, previousUpdates, childVars, dataVars, worldVars>>

\* deadline: a phase that gets no answer in time fails the launch.
Waiting == step \notin {"spawn", "writes", "run", "over", "dead"}
phaseTimeout ==
    /\ Waiting /\ ~closing /\ faults < MaxFaults /\ faults' = faults + 1
    /\ fail /\ step' = "over"
    /\ UNCHANGED <<terminal, target, previousUpdates, inbox, childVars, dataVars,
                   expired, installed, updates>>

\* The rejected promise of a phase ends a launch that was torn down meanwhile.
phaseRejected ==
    /\ Waiting /\ closing
    /\ \E p \in Procs : inbox[p].failed \/ Gone(p)
    /\ step' = "over"
    /\ UNCHANGED <<state, closing, terminal, target, previousUpdates, inbox, cut,
                   childVars, dataVars, worldVars>>

-----------------------------------------------------------------------------
(* Height updates.                                                           *)

SendHeight(r, height) ==
    LET update == createHeightUpdate(previousUpdates[r], height)
    IN IF heightUpdateOk(previousUpdates[r], update) /\ ~closing
       THEN /\ control' = [control EXCEPT ![r] = Append(@, heightUpdate(update))]
            /\ step' = "height-ack@" \o r
            /\ UNCHANGED <<closing, state, cut>>
       ELSE fail /\ step' = "over" /\ UNCHANGED control

\* An update that cannot be made ends the cohort.
updateHeight(height) ==
    /\ step = "run" /\ state = "active" /\ updates < MaxUpdates
    /\ updates' = updates + 1 /\ target' = height
    /\ SendHeight("consensus", height)
    /\ inbox' = [inbox EXCEPT !["consensus"] = next(@, "height-ack", None)]
    /\ UNCHANGED <<terminal, previousUpdates, child, refused, hung, status, previousUpdate,
                   adopting, dataVars, expired, installed, faults>>

heightAcknowledgedForgets(r) ==
    /\ step = "height-ack@" \o r /\ Arrived(r) /\ live
    /\ step' = "run" /\ inbox' = [inbox EXCEPT ![r] = Taken(r)]
    /\ UNCHANGED <<state, closing, cut, terminal, target, childVars, dataVars, worldVars,
                   previousUpdates>>

heightAcknowledged(r) ==
    /\ step = "height-ack@" \o r /\ Arrived(r)
    /\ LET acknowledged == createHeightUpdate(previousUpdates[r], target)
       IN IF verifyHeightAcknowledgement(inbox[r].message, acknowledged) /\ live
          THEN /\ previousUpdates' = [previousUpdates EXCEPT ![r] = acknowledged]
               /\ IF r = "consensus"
                  THEN /\ SendHeight("transport", target)
                       /\ inbox' = [inbox EXCEPT ![r] = Taken(r),
                                          !["transport"] = next(@, "height-ack", None)]
                  ELSE /\ step' = "run" /\ inbox' = [inbox EXCEPT ![r] = Taken(r)]
                       /\ UNCHANGED <<control, closing, state, cut>>
          ELSE fail /\ step' = "over" /\ UNCHANGED <<previousUpdates, inbox, control>>
    /\ UNCHANGED <<terminal, target, child, refused, hung, status, previousUpdate, adopting,
                   dataVars, worldVars>>

-----------------------------------------------------------------------------
(* The end of the cohort.                                                    *)

close ==
    /\ step = "run" \/ step \in {"height-ack@consensus", "height-ack@transport"}
    /\ ~closing /\ teardown("closed")
    /\ UNCHANGED <<step, terminal, target, previousUpdates, inbox, childVars, dataVars,
                   worldVars>>

boundedExitPolite(p) ==
    /\ closing /\ step # "dead" /\ Alive(p)
    /\ child' = [child EXCEPT ![p] = "exited"]
    /\ UNCHANGED <<launcherVars, refused, hung, control, status, previousUpdate, adopting,
                   dataVars, worldVars>>

\* boundedExit: the end of the lifeline, then SIGTERM, which a child takes the
\* same way, and SIGKILL for one that has not ended in time.
boundedExit(p) ==
    /\ closing /\ step # "dead" /\ ~Gone(p)
    /\ child' = [child EXCEPT ![p] = "exited"]
    /\ UNCHANGED <<launcherVars, refused, hung, control, status, previousUpdate, adopting,
                   dataVars, worldVars>>

terminated ==
    /\ closing /\ ~terminal /\ step # "dead" /\ \A p \in Procs : Gone(p)
    /\ terminal' = TRUE
    /\ UNCHANGED <<step, state, closing, target, previousUpdates, inbox, cut, childVars,
                   dataVars, worldVars>>

-----------------------------------------------------------------------------
(* The children.                                                             *)

\* Every frame a child does not expect, and every error, stops it: it answers
\* nothing more, reports a fatal status when it has sent READY, and exits.
stop(p) ==
    /\ child' = [child EXCEPT ![p] = IF @ = "boot" THEN "exited" ELSE "stopping"]
    /\ UNCHANGED refused

lifelineEnds(p) ==
    /\ cut /\ Alive(p) /\ stop(p)
    /\ UNCHANGED <<launcherVars, hung, control, status, previousUpdate, adopting, dataVars,
                   worldVars>>

\* The fatal status is written after the service is deactivated.
exits(p) ==
    /\ child[p] = "stopping" /\ p \notin hung
    /\ child' = [child EXCEPT ![p] = "exited"]
    /\ status' = [status EXCEPT ![p] = IF cut THEN @ ELSE Append(@, fatalStatus)]
    /\ UNCHANGED <<launcherVars, refused, hung, control, previousUpdate, adopting, dataVars,
                   worldVars>>

\* The bootstrap frame and the password that opens the vault, then READY.
signerBoots(r) ==
    /\ child[r] = "boot" /\ Alive(r) /\ ~cut
    /\ IF signerInputOk
       THEN /\ child' = [child EXCEPT ![r] = "ready"] /\ UNCHANGED refused
            /\ status' = [status EXCEPT ![r] = Append(@, signerReady)]
       ELSE stop(r) /\ UNCHANGED status
    /\ UNCHANGED <<launcherVars, hung, control, previousUpdate, adopting, dataVars, worldVars>>

\* The bootstrap frame and the TLS secrets, an inactive server on the
\* listener, then READY.
gatewayBoots ==
    /\ child["gateway"] = "boot" /\ Alive("gateway") /\ ~cut
    /\ IF gatewayInputOk
       THEN /\ child' = [child EXCEPT !["gateway"] = "ready"] /\ UNCHANGED refused
            /\ status' = [status EXCEPT !["gateway"] = Append(@, gatewayReady)]
       ELSE stop("gateway") /\ UNCHANGED status
    /\ UNCHANGED <<launcherVars, hung, control, previousUpdate, adopting, dataVars, worldVars>>

\* A signer verifies its activation and acknowledges it; no other frame may
\* be queued behind the command.
signerActivation(r) ==
    /\ child[r] = "ready" /\ Alive(r) /\ control[r] # <<>>
    /\ control' = [control EXCEPT ![r] = Tail(@)]
    /\ IF verifyActivationCommand(Head(control[r])) /\ Len(control[r]) = 1
       THEN /\ child' = [child EXCEPT ![r] = "acked"] /\ UNCHANGED refused
            /\ status' = [status EXCEPT ![r] = Append(@, activationAcknowledgement)]
       ELSE stop(r) /\ UNCHANGED status
    /\ UNCHANGED <<launcherVars, hung, previousUpdate, adopting, dataVars, worldVars>>

\* The data channel is opened after the acknowledgement is flushed.
opensEndpoint(r) ==
    /\ child[r] = "acked" /\ Alive(r)
    /\ IF control[r] = <<>> /\ request[r] = <<>>
       THEN child' = [child EXCEPT ![r] = "open"] /\ UNCHANGED refused
       ELSE stop(r)
    /\ UNCHANGED <<launcherVars, hung, control, status, previousUpdate, adopting, dataVars,
                   worldVars>>

\* The height is acknowledged, then taken.
takesHeight(r) ==
    /\ child[r] = "open" /\ Alive(r) /\ adopting[r] = NoUpdate /\ control[r] # <<>>
    /\ control' = [control EXCEPT ![r] = Tail(@)]
    /\ LET update == [n |-> Head(control[r]).n, h |-> Head(control[r]).h]
       IN IF Head(control[r]).type = "height" /\ heightUpdateOk(previousUpdate[r], update)
          THEN /\ status' = [status EXCEPT ![r] = Append(@, heightAcknowledgement(update))]
               /\ adopting' = [adopting EXCEPT ![r] = update] /\ UNCHANGED <<child, refused>>
          ELSE /\ child' = [child EXCEPT ![r] = "stopping"] /\ UNCHANGED <<status, adopting>>
               /\ refused' = refused \union (IF expired THEN {} ELSE {r})
    /\ UNCHANGED <<launcherVars, hung, previousUpdate, dataVars, worldVars>>

adoptsHeight(r) ==
    /\ child[r] = "open" /\ Alive(r) /\ adopting[r] # NoUpdate
    /\ previousUpdate' = [previousUpdate EXCEPT ![r] = adopting[r]]
    /\ adopting' = [adopting EXCEPT ![r] = NoUpdate]
    /\ UNCHANGED <<launcherVars, child, refused, hung, control, status, dataVars, worldVars>>

\* The controller of the gateway: PREPARE, COMMIT and activation in this
\* order.  Before it acknowledges COMMIT, and before it serves, the gateway
\* lets what is readable be read, so that a released pipe stops it first.
gatewayControlBlind ==
    /\ child["gateway"] \in {"ready", "prepared"} /\ Alive("gateway")
    /\ control["gateway"] # <<>>
    /\ control' = [control EXCEPT !["gateway"] = Tail(@)]
    /\ child' = [child EXCEPT !["gateway"] = "committed"]
    /\ status' = [status EXCEPT !["gateway"] = Append(@,
           Frame(IF child["gateway"] = "ready" THEN "prepare-ack" ELSE "commit-ack"))]
    /\ UNCHANGED <<launcherVars, refused, hung, previousUpdate, adopting, dataVars, worldVars>>

gatewayControl ==
    /\ child["gateway"] \in {"ready", "prepared"} /\ Alive("gateway")
    /\ control["gateway"] # <<>>
    /\ control' = [control EXCEPT !["gateway"] = Tail(@)]
    /\ LET frame == Head(control["gateway"])
           alone == Len(control["gateway"]) = 1 /\ ~cut
       IN CASE child["gateway"] = "ready" /\ verifyPrepareCommand(frame) /\ alone ->
                   /\ child' = [child EXCEPT !["gateway"] = "prepared"] /\ UNCHANGED refused
                   /\ status' = [status EXCEPT !["gateway"] = Append(@, prepareAcknowledgement)]
            [] child["gateway"] = "prepared" /\ verifyCommitCommand(frame) /\ alone ->
                   /\ child' = [child EXCEPT !["gateway"] = "committed"] /\ UNCHANGED refused
                   /\ status' = [status EXCEPT !["gateway"] = Append(@, commitAcknowledgement)]
            [] OTHER -> stop("gateway") /\ UNCHANGED status
    /\ UNCHANGED <<launcherVars, hung, previousUpdate, adopting, dataVars, worldVars>>

gatewayServes ==
    /\ child["gateway"] = "committed" /\ Alive("gateway")
    /\ IF control["gateway"] = <<>> /\ ~cut
       THEN /\ child' = [child EXCEPT !["gateway"] = "serving"] /\ UNCHANGED refused
            /\ status' = [status EXCEPT !["gateway"] = Append(@, activeAcknowledgement)]
       ELSE stop("gateway") /\ UNCHANGED status
    /\ UNCHANGED <<launcherVars, hung, control, previousUpdate, adopting, dataVars, worldVars>>

\* The gateway's timer for the end of the session.
sessionExpires ==
    /\ expired /\ Alive("gateway") /\ child["gateway"] # "boot"
    /\ stop("gateway")
    /\ UNCHANGED <<launcherVars, hung, control, status, previousUpdate, adopting, dataVars,
                   worldVars>>

-----------------------------------------------------------------------------
(* Challenges.  The gateway has each one signed by the transport key and     *)
(* then by the consensus key; an adapter has one request under way, and      *)
(* whatever goes wrong with it ends the channel and so the gateway.          *)

Serving == child["gateway"] = "serving" /\ Alive("gateway")

\* A challenge is admitted when it was not answered and is not active; a busy
\* adapter refuses it, and the observer may ask again.
challenge(c) ==
    /\ Serving /\ query[c] = "new" /\ pending["transport"] = None
    /\ query' = [query EXCEPT ![c] = "active"]
    /\ pending' = [pending EXCEPT !["transport"] = c]
    /\ request' = [request EXCEPT !["transport"] =
           IF cut THEN @ ELSE Append(@, c)]
    /\ UNCHANGED <<launcherVars, childVars, response, work, operations, keyed, worldVars>>

transportSigned ==
    /\ Serving /\ response["transport"] # <<>>
    /\ LET c == Head(response["transport"])
       IN IF pending["consensus"] = None
          THEN /\ pending' = [pending EXCEPT !["transport"] = None, !["consensus"] = c]
               /\ request' = [request EXCEPT !["consensus"] = IF cut THEN @ ELSE Append(@, c)]
               /\ UNCHANGED query
          ELSE /\ pending' = [pending EXCEPT !["transport"] = None]
               /\ query' = [query EXCEPT ![c] = "new"] /\ UNCHANGED request
    /\ response' = [response EXCEPT !["transport"] = Tail(@)]
    /\ UNCHANGED <<launcherVars, childVars, work, operations, keyed, worldVars>>

consensusSigned ==
    /\ Serving /\ response["consensus"] # <<>>
    /\ LET c == Head(response["consensus"])
       IN /\ query' = [query EXCEPT ![c] = "answered"]
          /\ pending' = [pending EXCEPT !["consensus"] = None]
    /\ response' = [response EXCEPT !["consensus"] = Tail(@)]
    /\ UNCHANGED <<launcherVars, childVars, request, work, operations, keyed, worldVars>>

\* The observer leaves or the answer takes too long: the adapter is poisoned.
challengeAborts ==
    /\ Serving /\ faults < MaxFaults /\ \E r \in Roles : pending[r] # None
    /\ faults' = faults + 1 /\ stop("gateway")
    /\ UNCHANGED <<launcherVars, hung, control, status, previousUpdate, adopting, dataVars,
                   expired, installed, updates>>

\* An endpoint takes a request: a completed operation is answered again, a
\* new one is reserved before the key is used.  height() holds whenever the
\* updates were verified.
endpointTakesAgain(r) ==
    /\ child[r] = "open" /\ Alive(r) /\ request[r] # <<>> /\ work[r].of = None
    /\ request' = [request EXCEPT ![r] = Tail(@)]
    /\ work' = [work EXCEPT ![r] =
           [of |-> Head(request[r]), late |-> cut \/ expired, polled |-> FALSE, signed |-> FALSE]]
    /\ operations' = [operations EXCEPT ![r][Head(request[r])] = "pending"]
    /\ UNCHANGED <<launcherVars, childVars, response, pending, query, keyed, worldVars>>

endpointTakes(r) ==
    /\ child[r] = "open" /\ Alive(r) /\ request[r] # <<>> /\ work[r].of = None
    /\ request' = [request EXCEPT ![r] = Tail(@)]
    /\ LET c == Head(request[r])
       IN CASE ~verifySignRequest(r) ->
                  stop(r) /\ UNCHANGED <<work, operations, response>>
            [] verifySignRequest(r) /\ operations[r][c] = "completed" ->
                  /\ response' = [response EXCEPT ![r] = IF cut THEN @ ELSE Append(@, c)]
                  /\ UNCHANGED <<work, operations, child, refused>>
            [] OTHER ->
                  /\ work' = [work EXCEPT ![r] =
                         [of |-> c, late |-> cut, polled |-> FALSE, signed |-> FALSE]]
                  /\ operations' = [operations EXCEPT ![r][c] = "pending"]
                  /\ UNCHANGED <<response, child, refused>>
    /\ UNCHANGED <<launcherVars, hung, control, status, previousUpdate, adopting, pending, query,
                   keyed, worldVars>>

\* activeSigner: two turns of the event loop pass before the key is used, with a
\* poll between them, in which a lifeline that has ended is seen (lifelineEnds).
polls(r) ==
    /\ work[r].of # None /\ ~work[r].polled /\ Alive(r) /\ ~cut
    /\ work' = [work EXCEPT ![r].polled = TRUE]
    /\ UNCHANGED <<launcherVars, childVars, request, response, pending, query, operations, keyed,
                   worldVars>>

\* Mutant: the key is used in the turn that brought the request.
useKeyAtOnce(r) ==
    /\ work[r].of # None /\ ~work[r].signed /\ Alive(r)
    /\ keyed' = [keyed EXCEPT ![r][work[r].of] = @ + 1]
    /\ work' = [work EXCEPT ![r].signed = TRUE]
    /\ UNCHANGED <<launcherVars, childVars, request, response, pending, query, operations,
                   worldVars>>

useKey(r) ==
    /\ work[r].of # None /\ work[r].polled /\ ~work[r].signed /\ Alive(r)
    /\ keyed' = [keyed EXCEPT ![r][work[r].of] = @ + 1]
    /\ work' = [work EXCEPT ![r].signed = TRUE]
    /\ UNCHANGED <<launcherVars, childVars, request, response, pending, query, operations,
                   worldVars>>

\* The response is made with the time of its writing, so that none is made
\* after the session; an operation that is not completed poisons the channel.
endpointAnswers(r) ==
    /\ work[r].of # None /\ work[r].signed /\ Alive(r)
    /\ work' = [work EXCEPT ![r] = NoWork]
    /\ IF ~createSignResponse(r)
       THEN stop(r) /\ UNCHANGED <<operations, response>>
       ELSE /\ operations' = [operations EXCEPT ![r][work[r].of] = "completed"]
            /\ response' = [response EXCEPT ![r] = IF cut THEN @ ELSE Append(@, work[r].of)]
            /\ UNCHANGED <<child, refused>>
    /\ UNCHANGED <<launcherVars, hung, control, status, previousUpdate, adopting, request,
                   pending, query, keyed, worldVars>>

-----------------------------------------------------------------------------
(* Faults.                                                                   *)

Fault == faults < MaxFaults /\ faults' = faults + 1

\* A child fails: it ends at once, stops on an error of its own, or hangs.
childFails(p) ==
    /\ Fault /\ Alive(p)
    /\ \/ child' = [child EXCEPT ![p] = "exited"] /\ UNCHANGED <<refused, hung>>
       \/ stop(p) /\ UNCHANGED hung
       \/ hung' = hung \union {p} /\ UNCHANGED <<child, refused>>
    /\ UNCHANGED <<launcherVars, control, status, previousUpdate, adopting, dataVars, expired,
                   installed, updates>>

\* A child sends a status frame that does not belong here, or one twice.
childBabbles(p) ==
    /\ Fault /\ Alive(p) /\ child[p] # "boot" /\ ~cut
    /\ status' = [status EXCEPT ![p] = Append(@, IF @ # <<>> THEN @[Len(@)]
                                                 ELSE [Frame("active-ack") EXCEPT !.good = FALSE])]
    /\ UNCHANGED <<launcherVars, child, refused, hung, control, previousUpdate, adopting, dataVars,
                   expired, installed, updates>>

\* The launcher is killed: its pipes close.
launcherDies ==
    /\ Fault /\ step # "dead" /\ ~closing
    /\ step' = "dead" /\ cut' = TRUE
    /\ UNCHANGED <<state, closing, terminal, target, previousUpdates, inbox, childVars,
                   dataVars, expired, installed, updates>>

\* The session passes, or another release is installed.
worldChanges ==
    /\ Fault /\ ~cut
    /\ \/ ~expired /\ expired' = TRUE /\ UNCHANGED installed
       \/ installed /\ Waiting /\ installed' = FALSE /\ UNCHANGED expired
    /\ UNCHANGED <<launcherVars, childVars, dataVars, updates>>

-----------------------------------------------------------------------------
Launcher ==
    \/ launch \/ writesDone \/ prepare \/ activateConsensus \/ activateTransport \/ commit
    \/ commitAcknowledged \/ activated \/ phaseRejected \/ terminated
    \/ \E p \in Procs : InboxReads(p) \/ SeesExit(p) \/ boundedExit(p)
    \/ \E r \in Roles : heightAcknowledged(r)

Children ==
    \/ \E p \in Procs : lifelineEnds(p) \/ exits(p)
    \/ \E r \in Roles :
           \/ signerBoots(r) \/ signerActivation(r) \/ opensEndpoint(r)
           \/ takesHeight(r) \/ adoptsHeight(r)
           \/ endpointTakes(r) \/ polls(r) \/ useKey(r) \/ endpointAnswers(r)
    \/ gatewayBoots \/ gatewayControl \/ gatewayServes \/ sessionExpires
    \/ transportSigned \/ consensusSigned

Environment ==
    \/ close \/ launchFails \/ phaseTimeout \/ challengeAborts \/ launcherDies \/ worldChanges
    \/ \E h \in 0 .. ExpiresAt : updateHeight(h)
    \/ \E c \in Challenges : challenge(c)
    \/ \E p \in Procs : childFails(p) \/ childBabbles(p)

Next == Launcher \/ Children \/ Environment

Spec == Init /\ [][Next]_vars

-----------------------------------------------------------------------------
\* While the gateway serves, both signers have acknowledged this activation:
\* no order of frames, faults and teardown opens the service before the keys
\* behind it are ready.
ServingIsBacked ==
    child["gateway"] = "serving" =>
        \A r \in Roles : child[r] \in {"acked", "open", "stopping", "exited"}

\* The launcher reports an active cohort only when the gateway has come to
\* serve and the teardown has not begun, whatever ended in the meantime.
ActiveIsServing ==
    state = "active" =>
        ~closing /\ child["gateway"] \in {"serving", "stopping", "exited"}

\* A key signs an operation at most once, asked again or not, and an answered
\* challenge carries both signatures.
SignedOnce ==
    \A c \in Challenges :
        /\ \A r \in Roles : keyed[r][c] <= 1
        /\ query[c] = "answered" => \A r \in Roles : keyed[r][c] = 1

\* The chain of height updates of the launcher and of each signer never come
\* apart: a signer refuses no update as invalid.
HeightsAgree ==
    /\ refused = {}
    /\ state = "active" /\ step = "run" =>
           \A r \in Roles : child[r] = "open" =>
               previousUpdates[r] = IF adopting[r] = NoUpdate THEN previousUpdate[r]
                                    ELSE adopting[r]

\* A request that a signer takes after its launcher let go of it is not
\* signed, whichever of the two became readable first.
NoLateSignature ==
    \A r \in Roles : work[r].late => ~work[r].signed

\* The steps that end a process: it sees its lifeline end, it exits, or the
\* launcher's timers run out.
Ends(p) == lifelineEnds(p) \/ exits(p) \/ boundedExit(p)

\* Every process ends once the cohort is torn down or its launcher is dead.
\* A hung child is beyond a dead launcher.
CohortEnds == \A p \in Procs : Gone(p) \/ (step = "dead" /\ p \in hung)
=============================================================================
