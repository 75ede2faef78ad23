--------------------------- MODULE LockDiscovery ---------------------------
(***************************************************************************)
(* How a producer session chooses the proposal it goes on with:            *)
(* discoverLockedProposal (blockchain/validator-service.mjs) and           *)
(* selectHighestCertifiedProposal (blockchain/consensus-view.mjs).  Module *)
(* Finality lets a session take any valid lock; this module has the fold   *)
(* over the peers' reports and the choice between the groups.              *)
(***************************************************************************)
EXTENDS Naturals, FiniteSets

CONSTANTS
    N,        \* the reporters, in the order of the transport view: at the boundary
              \* of a rotation the members of the old and of the new set
    ValidatorCount, \* validatorCountForHeight: members that the next height requires
    Hashes,   \* block hashes that locks may be for
    MaxRound, \* MAX_CONSENSUS_ROUND
    NoLock    \* no answer, no lock, or a proof that is not valid

Locks == [hash : Hashes, round : 0..MaxRound]

VARIABLES
    reports,  \* reports[i]: what validator i answered, checked already
    next,     \* index of the next report of the loop
    groups,   \* groups[hash]: reports counted, and the greatest of their rounds
    outcome   \* what the selection returned

vars == <<reports, next, groups, outcome>>

Init ==
    /\ reports \in [1..N -> Locks \cup {NoLock}]
    /\ next = 1
    /\ groups = [hash \in Hashes |-> [count |-> 0, round |-> 0]]
    /\ outcome = [kind |-> "waiting"]

Skip ==
    /\ next <= N /\ reports[next] = NoLock
    /\ next' = next + 1
    /\ UNCHANGED <<reports, groups, outcome>>

\* Mutant: the first report of a hash decides the round of its group.
CountFirst ==
    /\ next <= N /\ reports[next] # NoLock
    /\ LET report == reports[next]
           group == groups[report.hash]
           round == IF group.count = 0 THEN report.round ELSE group.round
       IN  groups' = [groups EXCEPT ![report.hash] = [count |-> group.count + 1, round |-> round]]
    /\ next' = next + 1
    /\ UNCHANGED <<reports, outcome>>

\* A report joins the group of its hash; a later round replaces the candidate.
Count ==
    /\ next <= N /\ reports[next] # NoLock
    /\ LET report == reports[next]
           group == groups[report.hash]
           round == IF group.count = 0 \/ report.round > group.round
                    THEN report.round ELSE group.round
       IN  groups' = [groups EXCEPT ![report.hash] = [count |-> group.count + 1, round |-> round]]
    /\ next' = next + 1
    /\ UNCHANGED <<reports, outcome>>

Eligible == {hash \in Hashes : groups[hash].count > 0}
Highest == {hash \in Eligible : \A other \in Eligible : groups[other].round <= groups[hash].round}

\* null without a group; throws for a group with more reports than the next
\* height has validators, and when two groups share the highest round.
selectHighestCertifiedProposal ==
    /\ next > N /\ outcome.kind = "waiting"
    /\ outcome' = IF \E hash \in Eligible : groups[hash].count > ValidatorCount THEN [kind |-> "throws"]
                  ELSE IF Eligible = {} THEN [kind |-> "null"]
                  ELSE IF Cardinality(Highest) > 1 THEN [kind |-> "throws"]
                  ELSE LET hash == CHOOSE h \in Highest : TRUE
                       IN  [kind |-> "proposal", hash |-> hash, round |-> groups[hash].round]
    /\ UNCHANGED <<reports, next, groups>>

Next == Skip \/ Count \/ selectHighestCertifiedProposal

Spec == Init /\ [][Next]_vars

-----------------------------------------------------------------------------
(* Properties                                                              *)

Reported == {reports[i] : i \in 1..N} \ {NoLock}
Top == {l \in Reported : \A m \in Reported : m.round <= l.round}

\* More reporters than the next height has validators hold one value: only the
\* old and the new members of a rotation together can.
Crowded == \E hash \in Hashes :
    Cardinality({i \in 1..N : reports[i] # NoLock /\ reports[i].hash = hash}) > ValidatorCount

\* SelectsHighest: what the loop over the answers and the selection make of them
\* is what they say whatever their order: the one reported lock of the highest
\* round, a refusal when two values share it, null when there is none; a value
\* that more report than the next height has validators is refused as well.
SelectsHighest ==
    outcome.kind # "waiting" =>
        outcome = IF Crowded THEN [kind |-> "throws"]
                  ELSE IF Reported = {} THEN [kind |-> "null"]
                  ELSE IF Cardinality(Top) > 1 THEN [kind |-> "throws"]
                  ELSE LET l == CHOOSE m \in Top : TRUE
                       IN  [kind |-> "proposal", hash |-> l.hash, round |-> l.round]

=============================================================================
