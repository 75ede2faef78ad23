--------------------------- MODULE ReplicatedLog ---------------------------
(***************************************************************************)
(* What finality promises to whoever reads the chain: every replica holds  *)
(* a log that only grows by appending, and no two replicas ever hold       *)
(* different values at one position.                                       *)
(***************************************************************************)
EXTENDS Naturals, Sequences

CONSTANTS Replicas, Values

VARIABLE log    \* log[r]: the values replica r has, in order

Init == log = [r \in Replicas |-> << >>]

\* Replica r appends x; a replica that is further ahead has x there already.
Extend(r, x) ==
    /\ \A q \in Replicas : Len(log[q]) > Len(log[r]) => log[q][Len(log[r]) + 1] = x
    /\ log' = [log EXCEPT ![r] = Append(@, x)]

Next == \E r \in Replicas, x \in Values : Extend(r, x)

Spec == Init /\ [][Next]_log
=============================================================================
