---------------------------- MODULE NameRegistry ----------------------------
(***************************************************************************)
(* Account names: blockchain/name-registry.mjs under #applyNameTransaction *)
(* of blockchain/chain.mjs.  A commitment hides a name; it is the triple   *)
(* <<name, owner, salt>>, and anyone may submit a commitment it has seen.  *)
(* Malformed and reserved names never enter; prices are one per name.      *)
(***************************************************************************)
EXTENDS Integers, FiniteSets

CONSTANTS
    Names, Accounts, Salts,
    Price,           \* Price[n]: namePrice, burned
    RevealDelay,     \* revealDelayBlocks
    CommitLifetime,  \* commitLifetimeBlocks
    MaxCommits,      \* maxPendingCommits
    MaxNames,        \* maxNames
    Funds, MaxHeight

ASSUME NameConstants ==
    /\ Price \in [Names -> Nat]
    /\ {RevealDelay, CommitLifetime, MaxCommits, MaxNames, Funds, MaxHeight} \subseteq Nat

None == [none |-> TRUE]
Commitments == Names \X Accounts \X Salts

VARIABLES height, names, owners, commits, balances, burned,
          committed   \* committed[c]: first height of a commitment (history)
vars == <<height, names, owners, commits, balances, burned, committed>>

\* commits[c]: None or [at, sender]; owners[a], names[n]: None or the other.
Init ==
    /\ height = 1 /\ burned = 0
    /\ names = [n \in Names |-> None] /\ owners = [a \in Accounts |-> None]
    /\ commits = [c \in Commitments |-> None] /\ committed = [c \in Commitments |-> 0]
    /\ balances = [a \in Accounts |-> Funds]

Taken == {n \in Names : names[n] # None}
Pending == {c \in Commitments : commits[c] # None}

\* Nonces and the fee, which the proposer gets, are left out.
applyNameTransaction(a, price) ==
    /\ balances[a] >= price
    /\ balances' = [balances EXCEPT ![a] = @ - price] /\ burned' = burned + price

applyNameCommit(a, c) ==
    /\ applyNameTransaction(a, 0)
    /\ c \notin Pending /\ Cardinality(Pending) < MaxCommits
    /\ commits' = [commits EXCEPT ![c] = [at |-> height, sender |-> a]]
    /\ committed' = [committed EXCEPT ![c] = IF @ = 0 THEN height ELSE @]
    /\ UNCHANGED <<height, names, owners>>

\* Mutant: a registration does not wait for its commitment to age.
RegisterAtOnce(a, n, salt) ==
    LET c == <<n, a, salt>> IN
    /\ commits[c] # None /\ commits[c].sender = a
    /\ height <= commits[c].at + CommitLifetime
    /\ n \notin Taken /\ Cardinality(Taken) < MaxNames
    /\ commits' = [commits EXCEPT ![c] = None]
    /\ names' = [m \in Names |-> IF m = n THEN [owner |-> a] ELSE IF owners[a] = [name |-> m] THEN None ELSE names[m]]
    /\ owners' = [owners EXCEPT ![a] = [name |-> n]]
    /\ applyNameTransaction(a, Price[n])
    /\ UNCHANGED <<height, committed>>

\* Mutant: the sender's previous name is not freed.
RegisterKeepsOld(a, n, salt) ==
    LET c == <<n, a, salt>> IN
    /\ commits[c] # None /\ commits[c].sender = a
    /\ height >= commits[c].at + RevealDelay /\ height <= commits[c].at + CommitLifetime
    /\ n \notin Taken /\ Cardinality(Taken) < MaxNames
    /\ commits' = [commits EXCEPT ![c] = None]
    /\ names' = [names EXCEPT ![n] = [owner |-> a]]
    /\ owners' = [owners EXCEPT ![a] = [name |-> n]]
    /\ applyNameTransaction(a, Price[n])
    /\ UNCHANGED <<height, committed>>

\* Reveals the commitment; a name the sender already had is freed.
applyNameRegister(a, n, salt) ==
    LET c == <<n, a, salt>> IN
    /\ commits[c] # None /\ commits[c].sender = a
    /\ height >= commits[c].at + RevealDelay /\ height <= commits[c].at + CommitLifetime
    /\ n \notin Taken /\ Cardinality(Taken) < MaxNames
    /\ commits' = [commits EXCEPT ![c] = None]
    /\ names' = [m \in Names |-> IF m = n THEN [owner |-> a] ELSE IF owners[a] = [name |-> m] THEN None ELSE names[m]]
    /\ owners' = [owners EXCEPT ![a] = [name |-> n]]
    /\ applyNameTransaction(a, Price[n])
    /\ UNCHANGED <<height, committed>>

applyNameRelease(a) ==
    /\ applyNameTransaction(a, 0)
    /\ owners[a] # None
    /\ names' = [names EXCEPT ![owners[a].name] = None] /\ owners' = [owners EXCEPT ![a] = None]
    /\ UNCHANGED <<height, commits, committed>>

applyNameTransfer(a, b) ==
    /\ applyNameTransaction(a, 0)
    /\ a # b /\ owners[a] # None /\ owners[b] = None
    /\ names' = [names EXCEPT ![owners[a].name] = [owner |-> b]]
    /\ owners' = [owners EXCEPT ![a] = None, ![b] = owners[a]]
    /\ UNCHANGED <<height, commits, committed>>

\* End of a block: commitments past their lifetime go.
endNameRegistryBlock ==
    /\ height < MaxHeight /\ height' = height + 1
    /\ commits' = [c \in Commitments |-> IF commits[c] # None /\ height > commits[c].at + CommitLifetime THEN None ELSE commits[c]]
    /\ UNCHANGED <<names, owners, balances, burned, committed>>

Next ==
    \/ \E a \in Accounts : applyNameRelease(a)
    \/ \E a, b \in Accounts : applyNameTransfer(a, b)
    \/ \E a \in Accounts, c \in Commitments : applyNameCommit(a, c)
    \/ \E a \in Accounts, n \in Names, s \in Salts : applyNameRegister(a, n, s)
    \/ endNameRegistryBlock

Spec == Init /\ [][Next]_vars

-----------------------------------------------------------------------------
(* What fromVerifiedSnapshot requires of the state                         *)

Held == {a \in Accounts : owners[a] # None}

parseNameRegistrySnapshot ==
    /\ Cardinality(Held) = Cardinality(Taken) /\ Cardinality(Taken) <= MaxNames
    /\ \A a \in Held : names[owners[a].name] = [owner |-> a]
    /\ Cardinality(Pending) <= MaxCommits

-----------------------------------------------------------------------------
(* Properties                                                              *)

\* The two maps are inverse: a wallet that shows a name only when both agree
\* always can, and a restored snapshot is accepted.
OneNamePerAddress == parseNameRegistrySnapshot

\* Nobody takes a name it saw in a registration of the same or the last
\* block: its own commitment is RevealDelay blocks older than its use.
AgedClaim(n) ==
    names'[n] # None /\ n \notin Taken =>
        \E salt \in Salts :
            LET c == <<n, names'[n].owner, salt>>
            IN  committed[c] # 0 /\ height >= committed[c] + RevealDelay
NoFrontRunning == [][\A n \in Names : AgedClaim(n)]_vars

\* A commitment that someone else submitted first holds up its owner for at
\* most CommitLifetime blocks: no commitment stays longer.
CommitsExpire == \A c \in Pending : height <= commits[c].at + CommitLifetime + 1

=============================================================================
