-------------------------- MODULE MCReservationManager --------------------------
(* Values of the constants for model checking ReservationManager. *)
EXTENDS ReservationManager, TLC

CONSTANTS mem, kv, r1, r2, r3, a1

V(m, k) == [d \in Resource |-> IF d = mem THEN m ELSE k]

MCTotals     == {V(0, 4), V(6, 3)}
MCAllowances == {V(5, 2)}
MCDemands    == {Zero, V(1, 2), V(4, 1)}
MCSymmetry   == Permutations(ReservationId)
================================================================================
