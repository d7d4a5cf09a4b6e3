------------------------------ MODULE MCPredictor ------------------------------
(* Values of the constants for model checking Predictor. *)
EXTENDS Predictor

\* A profile with the default margins: fixed memory 90 and 5 bytes of each kind
\* per token.
Default ==
  [fixed |-> 90, overhead |-> 1, kv |-> 5, tensor |-> 5, workspace |-> 4, staging |-> 5,
   pinned |-> 2, host |-> 7, transfer |-> 10, safety |-> 100, fragmentation |-> 50,
   prefill_rate |-> 1000, decode_rate |-> 40, transfer_rate |-> 100]

\* Larger margins, and no decode rate.
Cautious == [Default EXCEPT !.safety = 300, !.host = 500, !.decode_rate = 0]

MCProfiles     == {Default, Cautious}

Request(m, n) == [key |-> <<m, n>>, input |-> 1, expected |-> 1, max |-> 2]

Seen(m, n, kind, peak, rate) ==
  [key |-> <<m, n>>, kind |-> kind, valid |-> TRUE, peak |-> peak, rate |-> rate]

MCRequests == {Request(1, 0), Request(1, 1), Request(1, 2), Request(2, 1)}

MCObservations ==
  {Seen(1, 2, "Completed", 1000, 400), Seen(1, 1, "Failed", 0, 0), Seen(2, 1, "Completed", 10, 2),
   [Seen(1, 1, "Completed", UMax, 40) EXCEPT !.valid = FALSE]}

MCEarned == [n \in 1 .. kMaxSamplesPerKey |-> 60 + n]

================================================================================
