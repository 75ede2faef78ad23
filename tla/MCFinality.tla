----------------------------- MODULE MCFinality -----------------------------
(* Instances of Finality for TLC.                                          *)
EXTENDS Finality, TLC

CONSTANTS A, B   \* two payloads

NoRotation == [x \in Payloads |-> {}]

\* No payload is special in an instance without rotations.
PayloadSymmetry == Permutations(Payloads)

-----------------------------------------------------------------------------
(* Progress.  Validators 1, 2 and 3 keep running, 4 may stop at any time.   *)

Running == {1, 2, 3}

LiveSpec ==
    Spec /\ \A v \in Running : WF_vars(ReplicaStep(v)) /\ WF_vars(BlockStep(v))

\* OneOfflineProgress: with one validator that may go silent at any point, the
\* three others finalize every height whose round-zero proposer is among them
\* (produceValidatorBlock and finalizeValidatorProposal, retried until done).
OneOfflineProgress == <>(\A v \in Running : Len(chain[v]) = MaxHeight)
=============================================================================
