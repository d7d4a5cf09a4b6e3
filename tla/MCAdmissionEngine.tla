--------------------------- MODULE MCAdmissionEngine ---------------------------
(* Values of the constants for model checking AdmissionEngine. *)
EXTENDS AdmissionEngine

CONSTANTS mem, kv, q1, q2

V(m, k) == [d \in Resource |-> IF d = mem THEN m ELSE k]

MCReservationId == 1 .. IdMax
MCAdmission     == RequestId \X (0 .. IdMax)

-----------------------------------------------------------------------------
(* Requests.  `wide` needs most of the capacity, `thin` little of it. *)

Base ==
  [id |-> q1, tenant |-> 1, valid |-> TRUE, keys |-> {}, policy_generation |-> 1,
   capabilities |-> {}, tokens |-> 1, small |-> TRUE, deadline |-> 0,
   latency_class |-> "BestEffort"]

Answer(demand) == [demand |-> demand, expected |-> 10, transfer |-> 0, confidence |-> 50]

\* Two requests that do not fit together, and a malformed resubmission.
Thin      == Base
Malformed == [Base EXCEPT !.valid = FALSE]
Wide      == [Base EXCEPT !.id = q2, !.small = FALSE]

LifecycleDescriptors == {Thin, Malformed, Wide}
LifecyclePredictions ==
  [d \in LifecycleDescriptors |-> {Answer(IF d = Wide THEN V(3, 1) ELSE V(2, 1))}]

\* One request per gate: a missing capability, an impossible deadline, a thin
\* margin, no deadline for a class that needs one, too many tokens, a matching
\* override, and a prediction that may be empty or large.
Special   == [Base EXCEPT !.capabilities = {"backend=cuda"}]
TooLate   == [Base EXCEPT !.deadline = 16]
Barely    == [Base EXCEPT !.deadline = 17]
Undated   == [Base EXCEPT !.latency_class = "FixedDeadline"]
Wordy     == [Base EXCEPT !.tokens = 9]
Favoured  == [Base EXCEPT !.id = q2, !.keys = {"tenant=1"}]
Uncertain == [Base EXCEPT !.id = q2, !.latency_class = "Interactive"]

GateDescriptors == {Special, TooLate, Barely, Undated, Wordy, Favoured, Uncertain}
GatePredictions ==
  [d \in GateDescriptors |->
     IF d = Uncertain THEN {Answer(Zero), Answer(V(2, 1)), Answer(V(4, 1))} ELSE {Answer(V(3, 1))}]

-----------------------------------------------------------------------------
(* Policies, snapshots and quotas. *)

Plain ==
  [safety_headroom_ratio |-> 0, absolute_safety_margin |-> Zero,
   overcommit |-> "None", overcommit_allowance |-> Zero,
   min_predictor_confidence |-> 20, max_snapshot_age |-> 1,
   accept_stale_snapshot |-> FALSE, require_reservation |-> TRUE,
   max_reservation_lifetime |-> 1, fairness_window |-> 256, overrides |-> <<>>]

\* Keeps a margin, and lets one tenant overcommit with a ratio of its own.
Guarded ==
  [Plain EXCEPT
     !.absolute_safety_margin = V(1, 0), !.max_snapshot_age = 0,
     !.overrides = <<[key |-> "tenant=1",
                      set |-> [overcommit |-> "Bounded", overcommit_allowance |-> V(4, 0)]],
                     [key |-> "tenant=1", set |-> [safety_headroom_ratio |-> 25]]>>]

\* Overcommits for everybody, tolerates a stale or absent snapshot, and lets
\* one waiting small request hold back a large one.
Lenient ==
  [Plain EXCEPT !.overcommit = "PredictionAware", !.overcommit_allowance = V(1, 1),
                !.min_predictor_confidence = 60, !.fairness_window = 4,
                !.accept_stale_snapshot = TRUE, !.require_reservation = FALSE]

\* Refused: the second override keeps everything back.
Greedy ==
  [Guarded EXCEPT !.overrides = @ \o <<[key |-> "tenant=1", set |-> [safety_headroom_ratio |-> 100]]>>]

\* Refused: an allowance without an overcommit mode.
Loose == [Plain EXCEPT !.overcommit_allowance = V(1, 1)]

Roomy ==
  [present |-> TRUE, total |-> V(4, 4), timestamp |-> 0, unavailable |-> FALSE,
   capabilities |-> {"backend=cuda"}, pressure |-> "Low"]

Bare    == [Roomy EXCEPT !.total = V(0, 2), !.capabilities = {}, !.pressure = "High"]
Dark    == [Roomy EXCEPT !.unavailable = TRUE]

Metered ==
  [present |-> TRUE, limits |-> V(5, 0), used |-> V(1, 0), reserved |-> V(1, 0),
   token_budget |-> 5]

GatePolicies  == {Guarded, Lenient, Greedy, Loose}
GateSnapshots == {Roomy, Bare, Dark}
GateQuotas    == {Metered}

LifecyclePolicies  == {Plain}
LifecycleSnapshots == {[Roomy EXCEPT !.timestamp = 1]}
================================================================================
