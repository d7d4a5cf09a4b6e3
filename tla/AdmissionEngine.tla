---------------------------- MODULE AdmissionEngine ----------------------------
(****************************************************************************)
(* The admission engine (engine.cpp): the request records, the ten stages   *)
(* of evaluate, and the transitions commit_admission, release_reservation   *)
(* and cancel_request, over the reservation manager and the policy library. *)
(*                                                                          *)
(* evaluate is one step of the model: the engine is called from one thread  *)
(* at a time.  Each of its exits is an action, and the stages it has passed *)
(* on the way there are a chain of predicates.                              *)
(*                                                                          *)
(* A descriptor carries what the stages read: the request id, the tenant,   *)
(* whether validate() accepts it, the override keys it matches, the policy  *)
(* generation the client quotes, the capabilities it requires (none when it *)
(* names no backend), its tokens, whether its expected output is below 512  *)
(* tokens, its deadline (0 for none) and its latency class.  The predictor  *)
(* is another component: Predictions[d] are the answers it may give for d.  *)
(****************************************************************************)
EXTENDS ReservationManager, PolicyEngine

CONSTANTS
  RequestId, Tenant,
  Predictions,         \* for each descriptor, what the predictor may say
  Snapshots,           \* the capacity snapshots that may arrive
  Quotas,              \* the quota snapshots that may arrive
  AcceleratorMemory,   \* the dimension that pressure and fairness look at
  StarvationTicks,     \* ten seconds
  kMaxTenants,         \* bound on the fairness controller's table
  MaxEvaluations       \* bound on the calls of evaluate

PressureLevel == {"None", "Low", "Normal", "High", "Critical"}
LatencyClass  == {"BestEffort", "Interactive", "Realtime", "FixedDeadline", "SoftRealtime"}

Descriptor ==
  [id : RequestId, tenant : Tenant, valid : BOOLEAN, keys : SUBSET STRING,
   policy_generation : Nat, capabilities : SUBSET STRING, tokens : Nat, small : BOOLEAN,
   deadline : Nat, latency_class : LatencyClass]

Prediction == [demand : Vec, expected : Nat, transfer : Nat, confidence : 0 .. 100]

Snapshot ==
  [present : BOOLEAN, total : Vec, timestamp : Nat, unavailable : BOOLEAN,
   capabilities : SUBSET STRING, pressure : PressureLevel]

Quota == [present : BOOLEAN, limits : Vec, used : Vec, reserved : Vec, token_budget : Nat]

ASSUME EngineAssumption ==
  /\ ReservationId = 1 .. IdMax
  /\ Admission = RequestId \X (0 .. IdMax)
  /\ IsFiniteSet(RequestId) /\ RequestId # {} /\ IsFiniteSet(Tenant)
  /\ AcceleratorMemory \in Resource
  /\ Descriptors \subseteq Descriptor
  /\ DOMAIN Predictions = Descriptors
  /\ \A d \in Descriptors : Predictions[d] \subseteq Prediction
  /\ Snapshots \subseteq Snapshot /\ Quotas \subseteq Quota
  /\ StarvationTicks \in Nat /\ MaxEvaluations \in Nat
  /\ Tenant \subseteq Nat /\ kMaxTenants \in Nat \ {0}

VARIABLES
  snapshot,               \* snapshot_ with has_snapshot_
  quota,                  \* quota_
  requests,               \* requests_; an id not in the map is "Absent"
  admission_generation,   \* admission_generation_
  reservation_counter,    \* reservation_counter_
  metrics,                \* metrics_, the counters of outcomes
  last_admit              \* the fairness controller's last_admit_, per tenant

inputVars   == <<snapshot, quota, last_admit>>
counterVars == <<admission_generation, reservation_counter>>
engineVars  == <<rmVars, policyVars, inputVars, counterVars, requests, metrics>>

Lifecycle ==
  {"Absent", "Proposed", "Evaluating", "Reserved", "Admitted", "Released",
   "Deferred", "Rejected", "Expired", "Cancelled"}

ReasonCode ==
  {"AdmitWithReservation", "AdmitWithRisk", "DeferCapacity", "DeferQuota", "DeferSlo",
   "RejectMalformed", "RejectPolicy", "RejectCapability", "RejectStale", "RejectQuota",
   "RejectInfeasible", "NoDecision"}

\* The reservation of a decision that has none.
None  == 0
Never == -1

Decision ==
  [reason : ReasonCode, reservation : 0 .. IdMax, generation : 0 .. IdMax,
   policy_generation : Nat]

Request == [lifecycle : Lifecycle, small : BOOLEAN, decision : Decision]

NoDecision ==
  [reason |-> "NoDecision", reservation |-> None, generation |-> 0, policy_generation |-> 0]

NoRequest  == [lifecycle |-> "Absent", small |-> TRUE, decision |-> NoDecision]
NoSnapshot ==
  [present |-> FALSE, total |-> Zero, timestamp |-> 0, unavailable |-> FALSE,
   capabilities |-> {}, pressure |-> "None"]
NoQuota    ==
  [present |-> FALSE, limits |-> Zero, used |-> Zero, reserved |-> Zero, token_budget |-> 0]

-----------------------------------------------------------------------------
(* The stages of evaluate.  Each predicate says that the stages before it,  *)
(* and its own, let the descriptor through.                                 *)

Duplicate(d) ==
  requests[d.id].lifecycle \notin {"Absent", "Proposed", "Deferred", "Evaluating"}

Entered(d) == d.valid /\ ~Duplicate(d)

Governed(d) == Entered(d) /\ latest # 0

\* The policy that governs the descriptor, and the envelope it sets.
Governing(d) == Effective(d, policies[latest])

AllowanceOf(pol) == IF pol.overcommit = "None" THEN Zero ELSE pol.overcommit_allowance

Capable(d) == Governed(d) /\ d.capabilities \subseteq snapshot.capabilities

Stale(pol) ==
  snapshot.present /\ now - snapshot.timestamp > pol.max_snapshot_age /\ ~pol.accept_stale_snapshot

Unknown(pol) == IF snapshot.present THEN snapshot.unavailable ELSE pol.require_reservation

Informed(d) == Capable(d) /\ ~Stale(Governing(d)) /\ ~Unknown(Governing(d))

\* The token budget is a hard limit; a resource limit of zero means none.
OverTokens(d) == quota.present /\ quota.token_budget # 0 /\ d.tokens > quota.token_budget

OverLimits(demand) ==
  /\ quota.present
  /\ \E r \in Resource :
       /\ quota.limits[r] # 0
       /\ demand[r] > VecSatSub(quota.limits, VecSatAdd(quota.used, quota.reserved))[r]

Entitled(d, p) == Informed(d) /\ ~OverTokens(d) /\ ~OverLimits(p.demand)

\* Time in milliseconds until the work would be done.
QueueDelay ==
  CASE snapshot.pressure = "Critical" -> 200
    [] snapshot.pressure = "High"     -> 80
    [] snapshot.pressure = "Normal"   -> 20
    [] snapshot.pressure = "Low"      -> 5
    [] OTHER                          -> 0

PredictedTotal(p) == QueueDelay + p.transfer + p.expected + 1

SloVerdict(d, p) ==
  LET remaining == d.deadline - PredictedTotal(p)
  IN CASE d.deadline = 0 /\ d.latency_class = "BestEffort"    -> "Feasible"
       [] d.deadline = 0 /\ d.latency_class = "FixedDeadline" -> "Unknown"
       [] d.deadline = 0                                      -> "FeasibleWithRisk"
       [] d.deadline # 0 /\ remaining <= 0                    -> "Infeasible"
       [] d.deadline # 0 /\ remaining > 0 /\ 10 * remaining < d.deadline -> "FeasibleWithRisk"
       [] OTHER                                               -> "Feasible"

Timely(d, p) == Entitled(d, p) /\ SloVerdict(d, p) \in {"Feasible", "FeasibleWithRisk"}

\* Mutant: the absolute margin is left out of the headroom.
HeadroomRatioOnly(pol, avail) ==
  VecSatSub(avail, [r \in Resource |-> (avail[r] * pol.safety_headroom_ratio) \div 100])

\* What the policy lets a request use of the available capacity.
Headroom(pol, avail) ==
  VecSatSub(avail,
            [r \in Resource |->
               SatAdd((avail[r] * pol.safety_headroom_ratio) \div 100,
                      pol.absolute_safety_margin[r])])

Available(d) == Availability(Governing(d).overcommit, AllowanceOf(Governing(d)))

Fits(d, p) == Timely(d, p) /\ FitsIn(p.demand, Headroom(Governing(d), Available(d)))

PendingSmall ==
  Cardinality({q \in RequestId : requests[q].lifecycle = "Deferred" /\ requests[q].small})

Starving(t) == last_admit[t] # Never /\ now - last_admit[t] > StarvationTicks

\* More than 60% of the available accelerator memory while small requests wait.
ShouldDeferLarge(d, p) ==
  /\ PendingSmall # 0
  /\ ~Starving(d.tenant)
  /\ Available(d)[AcceleratorMemory] > 0
  /\ 10 * p.demand[AcceleratorMemory] > 6 * Available(d)[AcceleratorMemory]
  /\ PendingSmall >= Governing(d).fairness_window \div 4

InTurn(d, p) == Fits(d, p) /\ ~ShouldDeferLarge(d, p)

Reservable(d, p) ==
  CanReserve(total, Governing(d).overcommit, AllowanceOf(Governing(d)),
             reservation_counter, p.demand)

-----------------------------------------------------------------------------
(* How a decision is recorded. *)

Conclude(d, reason, r, g) ==
  [reason |-> reason, reservation |-> r, generation |-> g,
   policy_generation |-> d.policy_generation]

\* The decision always replaces the one before it; the lifecycle moves to `to`
\* only from a record that is new or under evaluation, and the descriptor is
\* kept only when the record is created by a well-formed request.
Emit(d, to, decision) ==
  requests' =
    [requests EXCEPT ![d.id] =
       [lifecycle |-> IF @.lifecycle \in {"Absent", "Proposed", "Evaluating"}
                      THEN to ELSE @.lifecycle,
        small     |-> IF @.lifecycle = "Absent" THEN d.valid => d.small ELSE @.small,
        decision  |-> decision]]

Entries == {r \in ReservationId : reservations[r].status # "Absent"}

\* Every evaluation is counted when it starts; each exit counts its own outcome.
Count(outcome) ==
  metrics' = [metrics EXCEPT !.evaluations = @ + 1, ![outcome] = @ + 1]

\* What the exits of evaluate that make no reservation have in common.
Refuse(d, to, reason) ==
  /\ Emit(d, to, Conclude(d, reason, None, 0))
  /\ UNCHANGED <<tableVars, total, now, policyVars, inputVars, admission_generation>>

Reject(d, reason) == Refuse(d, "Rejected", reason) /\ UNCHANGED reservation_counter

Defer(d, reason) == Refuse(d, "Deferred", reason) /\ UNCHANGED reservation_counter

\* Mutant: the overrides are weighed but the manager keeps its old envelope.
GovernKeepsEnvelope(d) == UNCHANGED <<mode, allowance>>

\* From the policy stage on, the envelope is that of the governing policy.
Govern(d) ==
  /\ mode' = Governing(d).overcommit
  /\ allowance' = AllowanceOf(Governing(d))

NextAdmissionGeneration ==
  IF admission_generation = IdMax THEN IdMax ELSE admission_generation + 1

\* Mutant: the reservation counter does not wrap.
NextReservationCounterPastMax == reservation_counter + 1

NextReservationCounter ==
  IF reservation_counter = IdMax THEN 1 ELSE reservation_counter + 1

-----------------------------------------------------------------------------
(* evaluate, one action per exit. *)

RejectMalformed(d) ==
  /\ ~d.valid
  /\ Reject(d, "RejectMalformed")
  /\ Count("rejections")
  /\ UNCHANGED <<mode, allowance>>

\* Mutant: the counter is forgotten in this one exit.
RejectDuplicateUncounted(d) ==
  /\ d.valid /\ Duplicate(d)
  /\ Reject(d, "RejectMalformed")
  /\ metrics' = [metrics EXCEPT !.evaluations = @ + 1]
  /\ UNCHANGED <<mode, allowance>>

RejectDuplicate(d) ==
  /\ d.valid /\ Duplicate(d)
  /\ Reject(d, "RejectMalformed")
  /\ Count("rejections")
  /\ UNCHANGED <<mode, allowance>>

RejectPolicy(d) ==
  /\ Entered(d) /\ latest = 0
  /\ Reject(d, "RejectPolicy")
  /\ Count("rejections")
  /\ UNCHANGED <<mode, allowance>>

RejectCapability(d) ==
  /\ Governed(d) /\ ~Capable(d)
  /\ Govern(d)
  /\ Reject(d, "RejectCapability")
  /\ Count("rejections")

RejectStale(d) ==
  /\ Capable(d) /\ Stale(Governing(d))
  /\ Govern(d)
  /\ Reject(d, "RejectStale")
  /\ Count("rejections")

DeferUnknown(d) ==
  /\ Capable(d) /\ ~Stale(Governing(d)) /\ Unknown(Governing(d))
  /\ Govern(d)
  /\ Defer(d, "DeferCapacity")
  /\ Count("deferrals")

RejectQuota(d) ==
  /\ Informed(d) /\ OverTokens(d)
  /\ Govern(d)
  /\ Reject(d, "RejectQuota")
  /\ Count("rejections")

DeferQuota(d, p) ==
  /\ Informed(d) /\ ~OverTokens(d) /\ OverLimits(p.demand)
  /\ Govern(d)
  /\ Defer(d, "DeferQuota")
  /\ Count("deferrals")

RejectInfeasible(d, p) ==
  /\ Entitled(d, p) /\ SloVerdict(d, p) = "Infeasible"
  /\ Govern(d)
  /\ Reject(d, "RejectInfeasible")
  /\ Count("rejections")

DeferSlo(d, p) ==
  /\ Entitled(d, p) /\ SloVerdict(d, p) = "Unknown"
  /\ Govern(d)
  /\ Defer(d, "DeferSlo")
  /\ Count("deferrals")

DeferHeadroom(d, p) ==
  /\ Timely(d, p) /\ ~Fits(d, p)
  /\ Govern(d)
  /\ Defer(d, "DeferCapacity")
  /\ Count("deferrals")

DeferFairness(d, p) ==
  /\ Fits(d, p) /\ ShouldDeferLarge(d, p)
  /\ Govern(d)
  /\ Defer(d, "DeferCapacity")
  /\ Count("deferrals")

\* The manager refuses the reservation; the identity is spent all the same.
DeferReservation(d, p) ==
  /\ InTurn(d, p) /\ ~Reservable(d, p)
  /\ Govern(d)
  /\ Refuse(d, "Deferred", "DeferCapacity")
  /\ Count("deferrals")
  /\ reservation_counter' = NextReservationCounter

AdmitReason(d, p) ==
  IF \/ p.confidence < Governing(d).min_predictor_confidence
     \/ SloVerdict(d, p) = "FeasibleWithRisk"
  THEN "AdmitWithRisk" ELSE "AdmitWithReservation"

Admit(d, p) ==
  /\ InTurn(d, p) /\ Reservable(d, p)
  /\ Govern(d)
  /\ Insert(reservation_counter, p.demand, Governing(d).max_reservation_lifetime)
  /\ reservation_counter' = NextReservationCounter
  /\ admission_generation' = NextAdmissionGeneration
  /\ Emit(d, "Reserved",
          Conclude(d, AdmitReason(d, p), reservation_counter, admission_generation))
  /\ metrics' = [metrics EXCEPT !.evaluations = @ + 1, !.admissions = @ + 1,
                                !.active_reservations = Cardinality(Entries')]
  /\ UNCHANGED <<total, now, policyVars, inputVars>>

-----------------------------------------------------------------------------
(* The authoritative transitions. *)

Names(q, r) == requests[q].decision.reservation = r

\* Mutant: like emit, the commit ignores a transition that is not legal, and
\* only RESERVED work becomes ADMITTED.
CommitAdmissionFromReserved(q, g) ==
  LET r == requests[q].decision.reservation
  IN /\ requests[q].lifecycle # "Absent"
     /\ requests[q].decision.generation = g
     /\ r # None
     /\ CanCommit(r)
     /\ CommitTable(r, <<q, g>>)
     /\ requests' = [requests EXCEPT ![q].lifecycle = IF @ = "Reserved" THEN "Admitted" ELSE @]
     /\ UNCHANGED <<envelopeVars, now, policyVars, inputVars, counterVars, metrics>>

\* No lifecycle is asked for: the generation and the reservation decide.
CommitAdmission(q, g) ==
  LET r == requests[q].decision.reservation
  IN /\ requests[q].lifecycle # "Absent"
     /\ requests[q].decision.generation = g
     /\ r # None
     /\ CanCommit(r)
     /\ CommitTable(r, <<q, g>>)
     /\ requests' = [requests EXCEPT ![q].lifecycle = "Admitted"]
     /\ UNCHANGED <<envelopeVars, now, policyVars, inputVars, counterVars, metrics>>

CommitAdmissionTooLate(q, g) ==
  LET r == requests[q].decision.reservation
  IN /\ requests[q].lifecycle # "Absent"
     /\ requests[q].decision.generation = g
     /\ r # None
     /\ PastTtl(r, now)
     /\ FreeReserved(r, "Expired")
     /\ UNCHANGED <<envelopeVars, now, policyVars, inputVars, counterVars, requests, metrics>>

\* Mutant: the requests are not told that their capacity is gone.
ReleaseForgetsRequests(r) ==
  /\ ReleaseTable(r)
  /\ metrics' = [metrics EXCEPT !.active_reservations = Cardinality(Entries)]
  /\ UNCHANGED <<envelopeVars, now, policyVars, inputVars, counterVars, requests>>

\* Mutant: every request that names the reservation is released, even a
\* cancelled one.
ReleaseAnyLifecycle(r) ==
  /\ \/ ReleaseTable(r)
     \/ reservations[r].status \in {"Released", "RolledBack"} /\ UNCHANGED tableVars
  /\ requests' =
       [q \in RequestId |->
          IF Names(q, r) THEN [requests[q] EXCEPT !.lifecycle = "Released"] ELSE requests[q]]
  /\ metrics' = [metrics EXCEPT !.active_reservations = Cardinality(Entries)]
  /\ UNCHANGED <<envelopeVars, now, policyVars, inputVars, counterVars>>

\* Releasing what is already released or rolled back succeeds as well.
ReleaseReservation(r) ==
  /\ \/ ReleaseTable(r)
     \/ reservations[r].status \in {"Released", "RolledBack"} /\ UNCHANGED tableVars
  /\ requests' =
       [q \in RequestId |->
          IF Names(q, r) /\ requests[q].lifecycle \in {"Reserved", "Admitted"}
          THEN [requests[q] EXCEPT !.lifecycle = "Released"] ELSE requests[q]]
  /\ metrics' = [metrics EXCEPT !.active_reservations = Cardinality(Entries)]
  /\ UNCHANGED <<envelopeVars, now, policyVars, inputVars, counterVars>>

CancelPending(q) ==
  /\ requests[q].lifecycle \in {"Proposed", "Evaluating", "Deferred"}
  /\ requests' = [requests EXCEPT ![q].lifecycle = "Cancelled"]
  /\ UNCHANGED <<rmVars, policyVars, inputVars, counterVars, metrics>>

\* Mutant: the provisional reservation is not rolled back.
CancelKeepsReservation(q) ==
  /\ requests[q].lifecycle = "Reserved"
  /\ requests' = [requests EXCEPT ![q].lifecycle = "Cancelled"]
  /\ UNCHANGED <<rmVars, policyVars, inputVars, counterVars, metrics>>

\* The outcome of the rollback is ignored.
CancelReserved(q) ==
  LET r == requests[q].decision.reservation
      rollback == r # None /\ reservations[r].status = "Reserved"
  IN /\ requests[q].lifecycle = "Reserved"
     /\ IF rollback THEN FreeReserved(r, "RolledBack") ELSE UNCHANGED tableVars
     /\ requests' = [requests EXCEPT ![q].lifecycle = "Cancelled"]
     /\ UNCHANGED <<envelopeVars, now, policyVars, inputVars, counterVars, metrics>>

-----------------------------------------------------------------------------
(* Inputs. *)

InstallPolicy(p) ==
  /\ \/ InstallNext(p) /\ mode' = p.overcommit /\ allowance' = AllowanceOf(p)
     \/ InstallRefused(p) /\ UNCHANGED <<mode, allowance>>
  /\ UNCHANGED <<total, tableVars, now, inputVars, counterVars, requests, metrics>>

SetSnapshot(s) ==
  /\ snapshot' = s
  /\ total' = s.total
  /\ UNCHANGED <<mode, allowance, tableVars, now, policyVars, quota, last_admit, counterVars,
                 requests, metrics>>

SetQuota(q) ==
  /\ quota' = q
  /\ UNCHANGED <<rmVars, policyVars, snapshot, last_admit, counterVars, requests, metrics>>

\* The fairness controller is told of an admission by whoever embeds the
\* engine; a full table makes room by dropping its first tenant.
NoteAdmission(t) ==
  LET known   == {u \in Tenant : last_admit[u] # Never}
      evicted == {u \in known : /\ t \notin known /\ Cardinality(known) >= kMaxTenants
                                /\ \A v \in known : u <= v}
  IN /\ last_admit' =
          [u \in Tenant |-> IF u = t THEN now ELSE IF u \in evicted THEN Never ELSE last_admit[u]]
     /\ UNCHANGED <<rmVars, policyVars, snapshot, quota, counterVars, requests, metrics>>

ClockStep ==
  Clock /\ UNCHANGED <<policyVars, inputVars, counterVars, requests, metrics>>

-----------------------------------------------------------------------------
EngineInit ==
  /\ RMInit /\ PolicyInit
  /\ snapshot = NoSnapshot /\ quota = NoQuota
  /\ requests = [q \in RequestId |-> NoRequest]
  /\ admission_generation = 1 /\ reservation_counter = 1
  /\ metrics = [evaluations |-> 0, admissions |-> 0, deferrals |-> 0, rejections |-> 0,
                active_reservations |-> 0]
  /\ last_admit = [t \in Tenant |-> Never]

Evaluate(d) ==
  /\ metrics.evaluations < MaxEvaluations
  /\ \/ RejectMalformed(d)
     \/ RejectDuplicate(d)
     \/ RejectPolicy(d)
     \/ RejectCapability(d)
     \/ RejectStale(d)
     \/ DeferUnknown(d)
     \/ RejectQuota(d)
     \/ \E p \in Predictions[d] :
          \/ DeferQuota(d, p)
          \/ RejectInfeasible(d, p)
          \/ DeferSlo(d, p)
          \/ DeferHeadroom(d, p)
          \/ DeferFairness(d, p)
          \/ DeferReservation(d, p)
          \/ Admit(d, p)

\* Everything but evaluate.
Transition ==
  \/ \E q \in RequestId, g \in 0 .. IdMax : CommitAdmission(q, g)
  \/ \E q \in RequestId, g \in 0 .. IdMax : CommitAdmissionTooLate(q, g)
  \/ \E r \in ReservationId : ReleaseReservation(r)
  \/ \E q \in RequestId : CancelPending(q)
  \/ \E q \in RequestId : CancelReserved(q)
  \/ \E p \in Policies : InstallPolicy(p)
  \/ \E s \in Snapshots : SetSnapshot(s)
  \/ \E q \in Quotas : SetQuota(q)
  \/ \E t \in Tenant : NoteAdmission(t)
  \/ ClockStep

EngineNext == Transition \/ \E d \in Descriptors : Evaluate(d)

EngineSpec == EngineInit /\ [][EngineNext]_engineVars

\* Clients that submit every request id once and never again.
OnceNext ==
  \/ Transition
  \/ \E d \in Descriptors : requests[d.id].lifecycle = "Absent" /\ Evaluate(d)

OnceSpec == EngineInit /\ [][OnceNext]_engineVars

-----------------------------------------------------------------------------
(* Properties *)

\* Every variable of the engine, its reservation manager and its policy
\* library has its type.
EngineTypeOK ==
  /\ RMTypeOK /\ PolicyTypeOK
  /\ snapshot \in Snapshot /\ quota \in Quota
  /\ requests \in [RequestId -> Request]
  /\ admission_generation \in 1 .. IdMax
  /\ reservation_counter \in ReservationId
  /\ metrics \in [{"evaluations", "admissions", "deferrals", "rejections",
                   "active_reservations"} -> Nat]
  /\ last_admit \in [Tenant -> Nat \cup {Never}]

\* A reservation backs at most one request: whatever clients resubmit, and
\* even when the identity counter wraps, two last decisions never name the
\* same reservation, and what a decision names is in the table.
SoleOwner ==
  \A q \in RequestId :
    requests[q].decision.reservation # None =>
      /\ reservations[requests[q].decision.reservation].status # "Absent"
      /\ \A o \in RequestId \ {q} :
           requests[o].decision.reservation # requests[q].decision.reservation

\* The lifecycle of a request agrees with the reservation its last decision
\* names: ADMITTED work holds committed capacity that records this very
\* request and generation, RESERVED work has not been committed or released,
\* and the capacity of RELEASED work is free.
BackedByCapacity ==
  \A q \in RequestId :
    LET dec == requests[q].decision
        r   == reservations[dec.reservation]
    IN dec.reservation # None =>
         /\ requests[q].lifecycle = "Admitted" =>
              r.status = "Committed" /\ r.admission = <<q, dec.generation>>
         /\ requests[q].lifecycle = "Reserved" => r.status \in {"Reserved", "Expired"}
         /\ requests[q].lifecycle = "Released" => r.status = "Released"

\* The reservations that were ever committed for a request.
ChargedTo(q) ==
  {r \in ReservationId :
     reservations[r].admission # NoAdmission /\ reservations[r].admission[1] = q}

\* A request is charged once.  An id that is DEFERRED may be evaluated again and
\* again, and every admission leaves it DEFERRED and makes another reservation;
\* it may be cancelled and committed all the same.  But no two reservations are
\* ever committed for one id, and once one was, the request is ADMITTED or
\* RELEASED and cannot be evaluated or cancelled any more.
ChargedOnce ==
  \A q \in RequestId :
    /\ \A r, o \in ChargedTo(q) : r = o
    /\ ChargedTo(q) # {} => requests[q].lifecycle \in {"Admitted", "Released"}

\* The evidence counters account for every evaluation once, and every
\* admission for one entry of the reservation table.
EvidenceAddsUp ==
  /\ metrics.evaluations = metrics.admissions + metrics.deferrals + metrics.rejections
  /\ metrics.admissions = Cardinality(Entries)

\* An admission leaves the absolute safety margin of the policy in force free
\* in every dimension it takes capacity from, under the envelope that the
\* request's own overrides set up.
HeadroomKept ==
  [][\A d \in Resource :
       Load(d)' > Load(d) =>
         Ceiling'[d] - Load(d)' >= policies[latest].absolute_safety_margin[d]]_engineVars

\* Capacity is held only for a request that still wants it: every live
\* reservation is named by the last decision of a RESERVED or ADMITTED request.
NoOrphan ==
  \A r \in ReservationId :
    reservations[r].status \in Live =>
      \E q \in RequestId : Names(q, r) /\ requests[q].lifecycle \in {"Reserved", "Admitted"}

\* A terminal request cannot mutate (the error text of cancel_request).
TerminalFinal ==
  [][\A q \in RequestId :
       requests[q].lifecycle \in {"Released", "Rejected", "Expired", "Cancelled"} =>
         requests'[q].lifecycle = requests[q].lifecycle]_engineVars
================================================================================
