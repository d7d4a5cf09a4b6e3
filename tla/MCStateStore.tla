----------------------------- MODULE MCStateStore -----------------------------
(* Values of the constants for model checking StateStore. *)
EXTENDS StateStore, MCAdmissionEngine, TLC

\* Two requests that fit together.
Second == [Thin EXCEPT !.id = q2]

RecoveryDescriptors == {Thin, Second}
RecoveryPredictions == [d \in RecoveryDescriptors |-> {Answer(V(2, 1))}]

\* The two requests differ in their identity only.
RequestSymmetry == Permutations(RequestId)
================================================================================
