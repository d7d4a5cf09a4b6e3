------------------------- MODULE AdmissionEngineProofs -------------------------
(****************************************************************************)
(* Proofs about AdmissionEngine, for every set of requests, descriptors,    *)
(* predictions, policies, snapshots and quotas, and every word size.        *)
(*                                                                          *)
(* Whatever stage evaluate stops at, it either refuses, which leaves the    *)
(* reservation table alone, or admits.  EvaluateExits says so once, and     *)
(* every invariant is then shown for those two cases and for the            *)
(* authoritative transitions.                                               *)
(*                                                                          *)
(* What the policy library guarantees by itself comes first.                *)
(****************************************************************************)
EXTENDS AdmissionEngine, ReservationManagerProofs, WellFoundedInduction

-----------------------------------------------------------------------------
(* The effective policy. *)

\* The last position of a non-empty set of positions is one of them.
LEMMA LastIn ==
  ASSUME NEW n \in Nat, NEW I \in SUBSET (1 .. n), I # {}
  PROVE  Last(I) \in I
<1> DEFINE J == {m \in Nat : n - m \in I}
<1>1. PICK j \in I : TRUE
  OBVIOUS
<1>2. n - j \in Nat /\ n - (n - j) = j
  BY <1>1
<1>3. J \subseteq Nat /\ J # {}
  <2>1. n - j \in J
    BY <1>1, <1>2
  <2> QED
    BY <2>1
<1>4. PICK k \in J : \A m \in J : ~(<<m, k>> \in OpToRel(<, Nat))
  <2> HIDE DEF J
  <2> QED BY <1>3, NatLessThanWellFounded, WFMin, Zenon
<1>5. \A i \in I : i <= n - k
  <2> TAKE i \in I
  <2>1. n - i \in Nat /\ n - (n - i) = i
    OBVIOUS
  <2>2. n - i \in J
    BY <2>1
  <2>3. ~(n - i < k)
    BY <1>4, <2>1, <2>2 DEF OpToRel
  <2>4. k \in Nat /\ i \in Int
    OBVIOUS
  <2> QED
    BY <2>1, <2>3, <2>4
<1>6. n - k \in I
  BY <1>4
<1> QED
  BY <1>5, <1>6 DEF Last

\* A field that an override may set keeps its type in the effective policy.
LEMMA EffectiveField ==
  ASSUME NEW p \in Policies, NEW d, NEW f \in PolicyFields
  PROVE  /\ Effective(d, p)[f] \in FieldType(f)
         /\ \/ Effective(d, p)[f] = p[f]
            \/ \E i \in DOMAIN p.overrides :
                 f \in DOMAIN p.overrides[i].set /\ Effective(d, p)[f] = p.overrides[i].set[f]
<1> DEFINE I == Setting(d, p, f)
<1>1. f \in DOMAIN p /\ p[f] \in FieldType(f)
  BY PolicyAssumption
<1>2. Effective(d, p)[f] = IF I = {} THEN p[f] ELSE p.overrides[Last(I)].set[f]
  BY <1>1 DEF Effective
<1>3. CASE I = {}
  BY <1>1, <1>2, <1>3
<1>4. CASE I # {}
  <2>1. Len(p.overrides) \in Nat /\ I \in SUBSET (1 .. Len(p.overrides))
    BY PolicyAssumption DEF Setting
  <2>2. Last(I) \in I
    <3> HIDE DEF I
    <3> QED BY <1>4, <2>1, LastIn
  <2>3. Last(I) \in DOMAIN p.overrides /\ f \in DOMAIN p.overrides[Last(I)].set
    BY <2>2 DEF Setting
  <2>4. p.overrides[Last(I)].set[f] \in FieldType(f)
    BY <2>3, PolicyAssumption
  <2> QED
    <3> HIDE DEF I
    <3> QED BY <1>2, <1>4, <2>3, <2>4
<1> QED
  BY <1>3, <1>4

\* A policy that passes validation has an effective ratio below one, whatever
\* overrides apply.
LEMMA ValidatedRatio ==
  ASSUME NEW p \in Policies, NEW d, Validate(p)
  PROVE  Effective(d, p).safety_headroom_ratio < 100
<1>1. "safety_headroom_ratio" \in PolicyFields
  BY DEF PolicyFields, Overridable
<1>2. \/ Effective(d, p).safety_headroom_ratio = p.safety_headroom_ratio
      \/ \E i \in DOMAIN p.overrides :
           /\ "safety_headroom_ratio" \in DOMAIN p.overrides[i].set
           /\ Effective(d, p).safety_headroom_ratio = p.overrides[i].set.safety_headroom_ratio
  BY <1>1, EffectiveField
<1> QED
  BY <1>2 DEF Validate

-----------------------------------------------------------------------------
(* The library. *)

LEMMA NextCounterType ==
  ASSUME policy_counter \in PolicyGen
  PROVE  NextCounter \in PolicyGen
BY PolicyAssumption DEF NextCounter, PolicyGen

LEMMA InstallNextTypeOK ==
  ASSUME PolicyTypeOK, NEW p \in Policies, InstallNext(p)
  PROVE  PolicyTypeOK'
<1>1. policy_counter \in PolicyGen /\ policies \in [PolicyGen -> Policies \cup {NoPolicy}]
  BY DEF PolicyTypeOK
<1>2. policies'[policy_counter] = p /\ p # NoPolicy
  BY <1>1, PolicyAssumption DEF InstallNext
<1>3. policy_counter \in Installed'
  BY <1>1, <1>2 DEF Installed
<1>4. latest' \in Installed' /\ latest' # 0
  BY <1>1, <1>3, PolicyAssumption DEF InstallNext, PolicyGen
<1>5. policies' \in [PolicyGen -> Policies \cup {NoPolicy}]
  BY <1>1 DEF InstallNext
<1> QED
  BY <1>1, <1>4, <1>5, NextCounterType DEF PolicyTypeOK, InstallNext

LEMMA InstallRefusedTypeOK ==
  ASSUME PolicyTypeOK, NEW p \in Policies, InstallRefused(p)
  PROVE  PolicyTypeOK'
BY NextCounterType DEF PolicyTypeOK, InstallRefused, Installed

LEMMA InstallAtTypeOK ==
  ASSUME PolicyTypeOK, NEW p \in Policies, NEW gen \in PolicyGen, InstallAtGeneration(p, gen)
  PROVE  PolicyTypeOK'
<1>1. policies \in [PolicyGen -> Policies \cup {NoPolicy}]
  BY DEF PolicyTypeOK
<1>2. gen \in Installed' /\ Installed \subseteq Installed'
  BY <1>1, PolicyAssumption DEF InstallAtGeneration, Installed
<1>3. gen \in Nat /\ gen > 0 /\ latest \in Nat
  BY PolicyAssumption DEF PolicyGen, PolicyTypeOK, Installed
<1>4. latest' \in Installed' /\ latest' # 0
  BY <1>2, <1>3 DEF InstallAtGeneration, PolicyTypeOK
<1> QED
  BY <1>1, <1>4 DEF PolicyTypeOK, InstallAtGeneration

\* Type correctness of the library (PolicyTypeOK): once any policy is
\* installed, latest() always finds one.
THEOREM PolicyTypeCorrect == PolicySpec => []PolicyTypeOK
<1>1. PolicyInit => PolicyTypeOK
  BY PolicyAssumption DEF PolicyInit, PolicyTypeOK, Installed, PolicyGen
<1>2. PolicyTypeOK /\ [PolicyNext]_policyVars => PolicyTypeOK'
  <2> SUFFICES ASSUME PolicyTypeOK, [PolicyNext]_policyVars PROVE PolicyTypeOK'
    OBVIOUS
  <2>1. CASE UNCHANGED policyVars
    BY <2>1 DEF policyVars, PolicyTypeOK, Installed
  <2> QED
    BY <2>1, InstallNextTypeOK, InstallRefusedTypeOK, InstallAtTypeOK DEF PolicyNext
<1> QED
  BY <1>1, <1>2, PTL DEF PolicySpec

\* Everything in the library passed validation.
AllValidated == \A g \in Installed : Validate(policies[g])

LEMMA ValidatedStep ==
  ASSUME PolicyTypeOK, AllValidated, [PolicyNext]_policyVars
  PROVE  AllValidated'
<1>1. policies \in [PolicyGen -> Policies \cup {NoPolicy}] /\ policy_counter \in PolicyGen
  BY DEF PolicyTypeOK
<1>2. ASSUME NEW p \in Policies, NEW gen \in PolicyGen, Validate(p),
             policies' = [policies EXCEPT ![gen] = p]
      PROVE  AllValidated'
  <2> SUFFICES ASSUME NEW g \in PolicyGen, policies'[g] # NoPolicy
               PROVE  Validate(policies'[g])
    BY DEF AllValidated, Installed
  <2>1. CASE g = gen
    BY <1>1, <1>2, <2>1
  <2>2. CASE g # gen
    <3>1. policies'[g] = policies[g]
      BY <1>1, <1>2, <2>2
    <3> QED
      BY <3>1 DEF AllValidated, Installed
  <2> QED
    BY <2>1, <2>2
<1>3. ASSUME policies' = policies
      PROVE  AllValidated'
  BY <1>3 DEF AllValidated, Installed
<1> QED
  BY <1>1, <1>2, <1>3 DEF PolicyNext, InstallNext, InstallRefused, InstallAtGeneration, policyVars

\* No policy that can come into force keeps the whole capacity back as
\* headroom, whichever of its overrides apply (EffectiveRatioInRange).
THEOREM EffectiveRatioHolds == PolicySpec => []EffectiveRatioInRange
<1>1. PolicyInit => AllValidated
  BY DEF PolicyInit, AllValidated, Installed
<1>2. PolicyTypeOK /\ AllValidated => EffectiveRatioInRange
  <2> SUFFICES ASSUME PolicyTypeOK, AllValidated, NEW g \in Installed, NEW d \in Descriptors
               PROVE  Effective(d, policies[g]).safety_headroom_ratio < 100
    BY DEF EffectiveRatioInRange
  <2>1. policies[g] \in Policies /\ Validate(policies[g])
    BY DEF AllValidated, PolicyTypeOK, Installed
  <2> QED
    BY <2>1, ValidatedRatio
<1> QED
  BY <1>1, <1>2, PolicyTypeCorrect, ValidatedStep, PTL DEF PolicySpec

\* install keeps the history within its bound and nothing drops a generation
\* (BoundedHistory).
THEOREM BoundedHistoryHolds == PolicySpec => BoundedHistory
<1>1. PolicyTypeOK /\ [PolicyNext]_policyVars =>
        [/\ Installed \subseteq Installed'
         /\ policy_counter' # policy_counter /\ Installed' # Installed
              => Cardinality(Installed') <= kMaxGenerations]_policyVars
  <2> SUFFICES ASSUME PolicyTypeOK, PolicyNext
               PROVE  /\ Installed \subseteq Installed'
                      /\ policy_counter' # policy_counter /\ Installed' # Installed
                           => Cardinality(Installed') <= kMaxGenerations
    OBVIOUS
  <2>1. policies \in [PolicyGen -> Policies \cup {NoPolicy}] /\ policy_counter \in PolicyGen
    BY DEF PolicyTypeOK
  <2>2. ASSUME NEW p \in Policies, InstallNext(p)
        PROVE  /\ Installed \subseteq Installed'
               /\ Installed' # Installed => Cardinality(Installed') <= kMaxGenerations
    <3>1. Installed' = Installed \cup {policy_counter}
      BY <2>1, <2>2, PolicyAssumption DEF InstallNext, Installed
    <3>2. CASE policy_counter \in Installed
      BY <3>1, <3>2
    <3>3. CASE policy_counter \notin Installed
      <4>1. IsFiniteSet(PolicyGen)
        BY PolicyAssumption, FS_Interval DEF PolicyGen
      <4>2. IsFiniteSet(Installed)
        BY <4>1, FS_Subset DEF Installed
      <4>3. Cardinality(Installed \cup {policy_counter}) = Cardinality(Installed) + 1
        BY <3>3, <4>2, FS_AddElement
      <4>4. Cardinality(Installed) \in Nat
        BY <4>2, FS_CardinalityType
      <4>5. ~(Cardinality(Installed) >= kMaxGenerations)
        BY <2>1, <2>2, <3>3 DEF InstallNext, HistoryFull, Installed
      <4> QED
        BY <3>1, <4>3, <4>4, <4>5, PolicyAssumption
    <3> QED
      BY <3>2, <3>3
  <2>3. ASSUME NEW p \in Policies, InstallRefused(p)
        PROVE  Installed' = Installed
    BY <2>3 DEF InstallRefused, Installed
  <2>4. ASSUME NEW p \in Policies, NEW gen \in PolicyGen, InstallAtGeneration(p, gen)
        PROVE  Installed \subseteq Installed' /\ policy_counter' = policy_counter
    BY <2>1, <2>4, PolicyAssumption DEF InstallAtGeneration, Installed
  <2> QED
    BY <2>2, <2>3, <2>4 DEF PolicyNext
<1> QED
  BY <1>1, PolicyTypeCorrect, PTL DEF PolicySpec, BoundedHistory

-----------------------------------------------------------------------------
(* The exits of evaluate. *)

AdmitReasons == {"AdmitWithReservation", "AdmitWithRisk"}

Refusals == ReasonCode \ AdmitReasons

\* An exit with its counter.
Concluded(d, to, reason, outcome) == Refuse(d, to, reason) /\ Count(outcome)

\* An evaluation that stops short of a reservation, leaving a sane envelope.
Refused(d) ==
  /\ \E to \in {"Rejected", "Deferred"}, reason \in Refusals,
        outcome \in {"rejections", "deferrals"} : Concluded(d, to, reason, outcome)
  /\ mode' \in OvercommitMode /\ allowance' \in Vec
  /\ reservation_counter' \in ReservationId

-----------------------------------------------------------------------------
(* The envelope that the governing policy sets. *)

\* A policy sets a sane envelope.
LEMMA GoverningType ==
  ASSUME EngineTypeOK, NEW d, latest # 0
  PROVE  /\ Governing(d).overcommit \in OvercommitMode
         /\ Governing(d).overcommit_allowance \in Vec
         /\ Governing(d).safety_headroom_ratio \in Nat
         /\ Governing(d).absolute_safety_margin \in Vec
         /\ Governing(d).max_reservation_lifetime \in Nat
<1>1. policies[latest] \in Policies
  BY DEF EngineTypeOK, PolicyTypeOK, Installed
<1>2. \A f \in PolicyFields : Governing(d)[f] \in FieldType(f)
  BY <1>1, EffectiveField DEF Governing
<1>3. /\ "overcommit" \in PolicyFields /\ "overcommit_allowance" \in PolicyFields
      /\ "safety_headroom_ratio" \in PolicyFields /\ "absolute_safety_margin" \in PolicyFields
      /\ "max_reservation_lifetime" \in PolicyFields
  BY DEF PolicyFields, Overridable
<1> QED
  BY <1>2, <1>3 DEF FieldType

LEMMA ZeroVec == Zero \in Vec
BY UMaxAssumption DEF Zero, Vec, Word

LEMMA GovernType ==
  ASSUME EngineTypeOK, NEW d, latest # 0, Govern(d)
  PROVE  mode' \in OvercommitMode /\ allowance' \in Vec
BY GoverningType, ZeroVec DEF Govern, AllowanceOf

LEMMA NextReservationCounterType ==
  ASSUME reservation_counter \in ReservationId
  PROVE  NextReservationCounter \in ReservationId
BY EngineAssumption, PolicyAssumption DEF NextReservationCounter

\* The ways out of evaluate: a refusal or an admission.
LEMMA EvaluateExits ==
  ASSUME EngineTypeOK, NEW d \in Descriptors, Evaluate(d)
  PROVE  \/ Refused(d)
         \/ \E p \in Predictions[d] : Admit(d, p)
<1>1. mode \in OvercommitMode /\ allowance \in Vec /\ reservation_counter \in ReservationId
  BY DEF EngineTypeOK, RMTypeOK
<1>2. /\ "RejectMalformed" \in Refusals /\ "RejectPolicy" \in Refusals
      /\ "RejectCapability" \in Refusals /\ "RejectStale" \in Refusals
      /\ "RejectQuota" \in Refusals /\ "RejectInfeasible" \in Refusals
      /\ "DeferCapacity" \in Refusals /\ "DeferQuota" \in Refusals /\ "DeferSlo" \in Refusals
  BY DEF Refusals, ReasonCode, AdmitReasons
<1>3. ASSUME NEW reason \in Refusals, Reject(d, reason), Count("rejections"),
             mode' \in OvercommitMode, allowance' \in Vec
      PROVE  Refused(d)
  BY <1>1, <1>3 DEF Reject, Concluded, Refused
<1>4. ASSUME NEW reason \in Refusals, Defer(d, reason), Count("deferrals"),
             mode' \in OvercommitMode, allowance' \in Vec
      PROVE  Refused(d)
  BY <1>1, <1>4 DEF Defer, Concluded, Refused
<1>5. CASE RejectMalformed(d) \/ RejectDuplicate(d) \/ RejectPolicy(d)
  BY <1>1, <1>2, <1>3, <1>5 DEF RejectMalformed, RejectDuplicate, RejectPolicy
<1>6. CASE RejectCapability(d)
  BY <1>2, <1>3, <1>6, GovernType DEF RejectCapability, Governed
<1>7. CASE RejectStale(d)
  BY <1>2, <1>3, <1>7, GovernType DEF RejectStale, Capable, Governed
<1>8. CASE DeferUnknown(d)
  BY <1>2, <1>4, <1>8, GovernType DEF DeferUnknown, Capable, Governed
<1>9. CASE RejectQuota(d)
  BY <1>2, <1>3, <1>9, GovernType DEF RejectQuota, Informed, Capable, Governed
<1>10. ASSUME NEW p \in Predictions[d],
              \/ DeferQuota(d, p) \/ RejectInfeasible(d, p) \/ DeferSlo(d, p)
              \/ DeferHeadroom(d, p) \/ DeferFairness(d, p) \/ DeferReservation(d, p)
       PROVE  Refused(d)
  <2>1. latest # 0 /\ Govern(d)
    BY <1>10
    DEF DeferQuota, RejectInfeasible, DeferSlo, DeferHeadroom, DeferFairness, DeferReservation,
        InTurn, Fits, Timely, Entitled, Informed, Capable, Governed
  <2>2. mode' \in OvercommitMode /\ allowance' \in Vec
    BY <2>1, GovernType
  <2>3. CASE DeferReservation(d, p)
    <3>1. Concluded(d, "Deferred", "DeferCapacity", "deferrals")
      BY <2>3 DEF DeferReservation, Concluded
    <3>2. reservation_counter' \in ReservationId
      BY <1>1, <2>3, NextReservationCounterType DEF DeferReservation
    <3> QED
      BY <1>2, <2>2, <3>1, <3>2 DEF Refused
  <2> QED
    BY <1>2, <1>3, <1>4, <1>10, <2>2, <2>3
    DEF DeferQuota, RejectInfeasible, DeferSlo, DeferHeadroom, DeferFairness
<1> QED
  BY <1>5, <1>6, <1>7, <1>8, <1>9, <1>10 DEF Evaluate

-----------------------------------------------------------------------------
(* Type correctness. *)

\* What an emitted decision does to the request table.
LEMMA EmitTypeOK ==
  ASSUME requests \in [RequestId -> Request], NEW d \in Descriptors,
         NEW to \in {"Rejected", "Deferred", "Reserved"}, NEW dec \in Decision,
         Emit(d, to, dec)
  PROVE  requests' \in [RequestId -> Request]
<1>1. d.id \in RequestId /\ d.valid \in BOOLEAN /\ d.small \in BOOLEAN
  BY EngineAssumption DEF Descriptor
<1>2. requests[d.id] \in Request
  BY <1>1
<1>3. to \in Lifecycle
  BY DEF Lifecycle
<1>4. requests'[d.id] \in Request /\ requests' = [requests EXCEPT ![d.id] = requests'[d.id]]
  <2> DEFINE l == IF requests[d.id].lifecycle \in {"Absent", "Proposed", "Evaluating"}
                  THEN to ELSE requests[d.id].lifecycle
             s == IF requests[d.id].lifecycle = "Absent" THEN d.valid => d.small
                  ELSE requests[d.id].small
  <2>1. l \in Lifecycle
    BY <1>2, <1>3 DEF Request
  <2>2. (d.valid => d.small) \in BOOLEAN
    BY <1>1
  <2>3. s \in BOOLEAN
    BY <1>2, <2>2 DEF Request
  <2>4. requests' = [requests EXCEPT ![d.id] = [lifecycle |-> l, small |-> s, decision |-> dec]]
    BY DEF Emit
  <2> HIDE DEF l, s
  <2>5. [lifecycle |-> l, small |-> s, decision |-> dec] \in Request
    BY <2>1, <2>3 DEF Request
  <2> QED
    BY <1>1, <2>4, <2>5
<1> QED
  BY <1>1, <1>4

LEMMA ConcludeType ==
  ASSUME NEW d \in Descriptors, NEW reason \in ReasonCode, NEW r \in 0 .. IdMax, NEW g \in 0 .. IdMax
  PROVE  Conclude(d, reason, r, g) \in Decision
BY EngineAssumption DEF Conclude, Decision, Descriptor

Counters == {"evaluations", "admissions", "deferrals", "rejections", "active_reservations"}

LEMMA CountType ==
  ASSUME metrics \in [Counters -> Nat], NEW outcome \in {"rejections", "deferrals"}, Count(outcome)
  PROVE  metrics' \in [Counters -> Nat]
BY DEF Count, Counters

LEMMA AdmissionCount ==
  ASSUME NEW m \in [Counters -> Nat], NEW o \in Counters, NEW c \in Nat
  PROVE  [m EXCEPT !.evaluations = @ + 1, ![o] = @ + 1, !.active_reservations = c]
           \in [Counters -> Nat]
<1> DEFINE m2 == [m EXCEPT !.evaluations = @ + 1, ![o] = @ + 1]
<1>1. m2 \in [Counters -> Nat]
  BY DEF Counters
<1>2. [m EXCEPT !.evaluations = @ + 1, ![o] = @ + 1, !.active_reservations = c]
        = [m2 EXCEPT !.active_reservations = c]
  OBVIOUS
<1> HIDE DEF m2
<1> QED
  BY <1>1, <1>2 DEF Counters

LEMMA EntriesFinite == IsFiniteSet(Entries) /\ Cardinality(Entries) \in Nat
BY ReservationAssumption, FS_Subset, FS_CardinalityType DEF Entries

LEMMA EntriesFiniteNext == Cardinality(Entries') \in Nat
<1>1. Entries' \in SUBSET ReservationId
  BY DEF Entries
<1> QED
  BY <1>1, ReservationAssumption, FS_Subset, FS_CardinalityType

LEMMA PolicyUnchanged ==
  ASSUME PolicyTypeOK, UNCHANGED policyVars
  PROVE  PolicyTypeOK'
BY DEF PolicyTypeOK, policyVars, Installed

\* A refusal leaves every variable well typed.
LEMMA RefusedTypeOK ==
  ASSUME EngineTypeOK, NEW d \in Descriptors, Refused(d)
  PROVE  EngineTypeOK'
<1>1. PICK to \in {"Rejected", "Deferred"}, reason \in Refusals,
           outcome \in {"rejections", "deferrals"} : Concluded(d, to, reason, outcome)
  BY DEF Refused
<1>2. reason \in ReasonCode /\ None \in 0 .. IdMax /\ 0 \in 0 .. IdMax
  BY PolicyAssumption DEF Refusals, None
<1>3. requests' \in [RequestId -> Request]
  BY <1>1, <1>2, EmitTypeOK, ConcludeType DEF Concluded, Refuse, EngineTypeOK
<1>4. metrics' \in [Counters -> Nat]
  BY <1>1, CountType DEF Concluded, Refuse, EngineTypeOK, Counters
<1>5. RMTypeOK'
  BY <1>1 DEF Refused, Concluded, Refuse, EngineTypeOK, RMTypeOK, tableVars
<1>6. PolicyTypeOK'
  BY <1>1, PolicyUnchanged DEF Concluded, Refuse, EngineTypeOK
<1> QED
  BY <1>1, <1>3, <1>4, <1>5, <1>6 DEF Refused, Concluded, Refuse, EngineTypeOK, inputVars, Counters

\* What an admission assumes and does, without the stages that led to it.
LEMMA AdmitFacts ==
  ASSUME EngineTypeOK, NEW d \in Descriptors, NEW p \in Predictions[d], Admit(d, p)
  PROVE  /\ latest # 0
         /\ p.demand \in Vec
         /\ Governing(d).max_reservation_lifetime \in Nat
         /\ mode' \in OvercommitMode /\ allowance' \in Vec
         /\ reservation_counter \in ReservationId
         /\ reservations[reservation_counter].status = "Absent"
         /\ CanAdd(reserved_sum, p.demand)
         /\ d.id \in RequestId
<1>1. latest # 0
  BY DEF Admit, InTurn, Fits, Timely, Entitled, Informed, Capable, Governed
<1>2. p.demand \in Vec /\ d.id \in RequestId
  BY EngineAssumption DEF Prediction, Descriptor
<1>3. mode' \in OvercommitMode /\ allowance' \in Vec
  BY <1>1, GovernType DEF Admit
<1> QED
  BY <1>1, <1>2, <1>3, GoverningType DEF Admit, Reservable, CanReserve, EngineTypeOK

LEMMA AdmitTypeOK ==
  ASSUME EngineTypeOK, NEW d \in Descriptors, NEW p \in Predictions[d], Admit(d, p)
  PROVE  EngineTypeOK'
<1>1. RMTypeOK'
  <2>1. /\ reserved_sum' \in Vec /\ used_sum' \in Vec
        /\ reservations' \in [ReservationId -> Reservation]
        /\ generation' \in Word
    BY AdmitFacts, InsertTypeOK DEF Admit, EngineTypeOK
  <2> QED
    BY <2>1, AdmitFacts DEF Admit, RMTypeOK, EngineTypeOK
<1>2. AdmitReason(d, p) \in ReasonCode
  BY DEF AdmitReason, ReasonCode
<1>3. reservation_counter \in 0 .. IdMax /\ admission_generation \in 0 .. IdMax
  BY EngineAssumption, PolicyAssumption DEF EngineTypeOK
<1>4. requests' \in [RequestId -> Request]
  BY <1>2, <1>3, EmitTypeOK, ConcludeType DEF Admit, EngineTypeOK
<1>5. metrics' \in [Counters -> Nat]
  <2> DEFINE c == Cardinality(Entries')
  <2>1. c \in Nat
    BY EntriesFiniteNext
  <2>2. metrics' = [metrics EXCEPT !.evaluations = @ + 1, !.admissions = @ + 1,
                                   !.active_reservations = c]
    BY DEF Admit
  <2>3. metrics \in [Counters -> Nat]
    BY DEF EngineTypeOK, Counters
  <2> HIDE DEF c
  <2> QED
    BY <2>1, <2>2, <2>3, AdmissionCount DEF Counters
<1>6. PolicyTypeOK'
  BY PolicyUnchanged DEF Admit, EngineTypeOK
<1>7. admission_generation' \in 1 .. IdMax
  BY PolicyAssumption DEF Admit, NextAdmissionGeneration, EngineTypeOK
<1>8. reservation_counter' \in ReservationId
  BY NextReservationCounterType DEF Admit, EngineTypeOK
<1> QED
  BY <1>1, <1>4, <1>5, <1>6, <1>7, <1>8 DEF Admit, EngineTypeOK, inputVars, Counters

\* The request table after one lifecycle changed.
LEMMA LifecycleType ==
  ASSUME requests \in [RequestId -> Request], NEW q \in RequestId, NEW l \in Lifecycle
  PROVE  [requests EXCEPT ![q].lifecycle = l] \in [RequestId -> Request]
BY DEF Request

LEMMA NamedReservation ==
  ASSUME EngineTypeOK, NEW q \in RequestId, requests[q].decision.reservation # None
  PROVE  requests[q].decision.reservation \in ReservationId
BY EngineAssumption, PolicyAssumption DEF EngineTypeOK, Request, Decision, None

LEMMA CommitAdmissionTypeOK ==
  ASSUME EngineTypeOK, NEW q \in RequestId, NEW g \in 0 .. IdMax, CommitAdmission(q, g)
  PROVE  EngineTypeOK'
<1> DEFINE r == requests[q].decision.reservation
<1>1. r \in ReservationId /\ CanCommit(r) /\ CommitTable(r, <<q, g>>)
  BY NamedReservation DEF CommitAdmission
<1>2. <<q, g>> \in Admission
  BY EngineAssumption
<1>3. RMTypeOK'
  BY <1>1, <1>2, CommitTypeOK DEF CommitAdmission, EngineTypeOK, RMTypeOK, envelopeVars
<1>4. requests' \in [RequestId -> Request]
  BY LifecycleType DEF CommitAdmission, EngineTypeOK, Lifecycle
<1>5. PolicyTypeOK'
  BY PolicyUnchanged DEF CommitAdmission, EngineTypeOK
<1> QED
  BY <1>3, <1>4, <1>5 DEF CommitAdmission, EngineTypeOK, inputVars, counterVars

LEMMA CommitTooLateTypeOK ==
  ASSUME EngineTypeOK, NEW q \in RequestId, NEW g \in 0 .. IdMax, CommitAdmissionTooLate(q, g)
  PROVE  EngineTypeOK'
<1> DEFINE r == requests[q].decision.reservation
<1>1. r \in ReservationId /\ FreeReserved(r, "Expired")
  BY NamedReservation DEF CommitAdmissionTooLate
<1>2. "Expired" \in Status
  BY DEF Status, Terminal
<1>3. RMTypeOK'
  BY <1>1, <1>2, FreeReservedTypeOK
  DEF CommitAdmissionTooLate, EngineTypeOK, RMTypeOK, envelopeVars
<1>4. PolicyTypeOK'
  BY PolicyUnchanged DEF CommitAdmissionTooLate, EngineTypeOK
<1> QED
  BY <1>3, <1>4 DEF CommitAdmissionTooLate, EngineTypeOK, inputVars, counterVars

LEMMA ReleaseReservationTypeOK ==
  ASSUME EngineTypeOK, NEW r \in ReservationId, ReleaseReservation(r)
  PROVE  EngineTypeOK'
<1>1. RMTypeOK'
  <2>1. CASE ReleaseTable(r)
    BY <2>1, ReleaseTypeOK DEF ReleaseReservation, EngineTypeOK, RMTypeOK, envelopeVars
  <2>2. CASE UNCHANGED tableVars
    BY <2>2 DEF ReleaseReservation, EngineTypeOK, RMTypeOK, envelopeVars, tableVars
  <2> QED
    BY <2>1, <2>2 DEF ReleaseReservation
<1>2. requests' \in [RequestId -> Request]
  <2>1. \A q \in RequestId : [requests[q] EXCEPT !.lifecycle = "Released"] \in Request
    BY DEF EngineTypeOK, Request, Lifecycle
  <2> QED
    BY <2>1 DEF ReleaseReservation, EngineTypeOK
<1>3. metrics' \in [Counters -> Nat]
  <2> DEFINE c == Cardinality(Entries)
  <2>1. c \in Nat
    BY EntriesFinite
  <2>2. metrics' = [metrics EXCEPT !.active_reservations = c] /\ metrics \in [Counters -> Nat]
    BY DEF ReleaseReservation, EngineTypeOK, Counters
  <2> HIDE DEF c
  <2> QED
    BY <2>1, <2>2 DEF Counters
<1>4. PolicyTypeOK'
  BY PolicyUnchanged DEF ReleaseReservation, EngineTypeOK
<1> QED
  BY <1>1, <1>2, <1>3, <1>4 DEF ReleaseReservation, EngineTypeOK, inputVars, counterVars, Counters

LEMMA CancelTypeOK ==
  ASSUME EngineTypeOK, NEW q \in RequestId, CancelPending(q) \/ CancelReserved(q)
  PROVE  EngineTypeOK'
<1> DEFINE r == requests[q].decision.reservation
<1>1. "Cancelled" \in Lifecycle /\ "RolledBack" \in Status
  BY DEF Lifecycle, Status, Terminal
<1>2. requests' \in [RequestId -> Request]
  BY <1>1, LifecycleType DEF CancelPending, CancelReserved, EngineTypeOK
<1>3. PolicyTypeOK'
  BY PolicyUnchanged DEF CancelPending, CancelReserved, EngineTypeOK
<1>4. RMTypeOK'
  <2>1. CASE CancelPending(q)
    BY <2>1 DEF CancelPending, EngineTypeOK, RMTypeOK, rmVars
  <2>2. CASE CancelReserved(q)
    <3>1. CASE r # None /\ FreeReserved(r, "RolledBack")
      BY <1>1, <2>2, <3>1, NamedReservation, FreeReservedTypeOK
      DEF CancelReserved, EngineTypeOK, RMTypeOK, envelopeVars
    <3>2. CASE UNCHANGED tableVars
      BY <2>2, <3>2 DEF CancelReserved, EngineTypeOK, RMTypeOK, envelopeVars, tableVars
    <3> QED
      BY <2>2, <3>1, <3>2 DEF CancelReserved
  <2> QED
    BY <2>1, <2>2
<1> QED
  BY <1>2, <1>3, <1>4 DEF CancelPending, CancelReserved, EngineTypeOK, inputVars, counterVars

\* The inputs leave the reservation table alone.
Input ==
  \/ \E p \in Policies : InstallPolicy(p)
  \/ \E s \in Snapshots : SetSnapshot(s)
  \/ \E q \in Quotas : SetQuota(q)
  \/ \E t \in Tenant : NoteAdmission(t)
  \/ ClockStep

LEMMA InputTypeOK ==
  ASSUME EngineTypeOK, Input
  PROVE  EngineTypeOK'
<1>1. ASSUME NEW p \in Policies, InstallPolicy(p)
      PROVE  EngineTypeOK'
  <2>1. PolicyTypeOK'
    BY <1>1, InstallNextTypeOK, InstallRefusedTypeOK DEF InstallPolicy, EngineTypeOK
  <2>2. p.overcommit \in OvercommitMode /\ p.overcommit_allowance \in Vec
    <3>1. "overcommit" \in PolicyFields /\ "overcommit_allowance" \in PolicyFields
      BY DEF PolicyFields, Overridable
    <3>2. p.overcommit \in FieldType("overcommit")
          /\ p.overcommit_allowance \in FieldType("overcommit_allowance")
      BY <3>1, PolicyAssumption
    <3> QED
      BY <3>2 DEF FieldType
  <2>3. mode' \in OvercommitMode /\ allowance' \in Vec
    BY <1>1, <2>2, ZeroVec DEF InstallPolicy, AllowanceOf, EngineTypeOK, RMTypeOK
  <2> QED
    BY <1>1, <2>1, <2>3
    DEF InstallPolicy, EngineTypeOK, RMTypeOK, tableVars, inputVars, counterVars
<1>2. ASSUME NEW s \in Snapshots, SetSnapshot(s)
      PROVE  EngineTypeOK'
  <2>1. s \in Snapshot /\ s.total \in Vec
    BY EngineAssumption DEF Snapshot
  <2> QED
    BY <1>2, <2>1, PolicyUnchanged
    DEF SetSnapshot, EngineTypeOK, RMTypeOK, tableVars, counterVars
<1>3. ASSUME NEW q \in Quotas, SetQuota(q)
      PROVE  EngineTypeOK'
  BY <1>3, EngineAssumption, PolicyUnchanged DEF SetQuota, EngineTypeOK, RMTypeOK, rmVars, counterVars
<1>4. ASSUME NEW t \in Tenant, NoteAdmission(t)
      PROVE  EngineTypeOK'
  <2>1. now \in Nat
    BY DEF EngineTypeOK, RMTypeOK
  <2>2. last_admit' \in [Tenant -> Nat \cup {Never}]
    BY <1>4, <2>1 DEF NoteAdmission, EngineTypeOK
  <2> QED
    BY <1>4, <2>2, PolicyUnchanged DEF NoteAdmission, EngineTypeOK, RMTypeOK, rmVars, counterVars
<1>5. CASE ClockStep
  BY <1>5, ReservationAssumption, PolicyUnchanged
  DEF ClockStep, Clock, Time, EngineTypeOK, RMTypeOK, envelopeVars, tableVars, inputVars, counterVars
<1> QED
  BY <1>1, <1>2, <1>3, <1>4, <1>5 DEF Input

LEMMA StutterTypeOK ==
  ASSUME EngineTypeOK, UNCHANGED engineVars
  PROVE  EngineTypeOK'
BY PolicyUnchanged DEF engineVars, EngineTypeOK, RMTypeOK, rmVars, inputVars, counterVars

\* Every step of the engine, by the part of the state it changes.
LEMMA StepCases ==
  ASSUME EngineTypeOK, [EngineNext]_engineVars
  PROVE  \/ \E d \in Descriptors : Refused(d)
         \/ \E d \in Descriptors : \E p \in Predictions[d] : Admit(d, p)
         \/ \E q \in RequestId, g \in 0 .. IdMax : CommitAdmission(q, g)
         \/ \E q \in RequestId, g \in 0 .. IdMax : CommitAdmissionTooLate(q, g)
         \/ \E r \in ReservationId : ReleaseReservation(r)
         \/ \E q \in RequestId : CancelPending(q) \/ CancelReserved(q)
         \/ Input
         \/ UNCHANGED engineVars
BY EvaluateExits DEF EngineNext, Transition, Input

LEMMA EngineTypeStep ==
  ASSUME EngineTypeOK, [EngineNext]_engineVars
  PROVE  EngineTypeOK'
BY StepCases, RefusedTypeOK, AdmitTypeOK, CommitAdmissionTypeOK, CommitTooLateTypeOK,
   ReleaseReservationTypeOK, CancelTypeOK, InputTypeOK, StutterTypeOK

LEMMA EngineInitTypeOK == EngineInit => EngineTypeOK
<1> SUFFICES ASSUME EngineInit PROVE EngineTypeOK
  OBVIOUS
<1>1. RMTypeOK
  BY ZeroVec, UMaxAssumption, ReservationAssumption
  DEF EngineInit, RMInit, RMTypeOK, Word, OvercommitMode, Reservation, NoReservation, Status
<1>2. PolicyTypeOK
  BY PolicyAssumption DEF EngineInit, PolicyInit, PolicyTypeOK, Installed, PolicyGen
<1>3. snapshot \in Snapshot /\ quota \in Quota
  BY ZeroVec DEF EngineInit, Snapshot, Quota, NoSnapshot, NoQuota, PressureLevel
<1>4. NoRequest \in Request
  BY PolicyAssumption DEF NoRequest, Request, NoDecision, Decision, ReasonCode, Lifecycle, None
<1>5. 1 \in 1 .. IdMax /\ 1 \in ReservationId
  BY PolicyAssumption, EngineAssumption
<1> QED
  BY <1>1, <1>2, <1>3, <1>4, <1>5 DEF EngineInit, EngineTypeOK

\* Type correctness of the engine and of what it is built on (EngineTypeOK):
\* the identity counters wrap or saturate inside their range, and every total
\* stays a machine word whatever clients submit.
THEOREM EngineTypeCorrect == EngineSpec => []EngineTypeOK
BY EngineInitTypeOK, EngineTypeStep, PTL DEF EngineSpec

-----------------------------------------------------------------------------
(* Accounting: the engine drives the manager without upsetting its books. *)

LEMMA EngineAccountingStep ==
  ASSUME EngineTypeOK, Accounting, [EngineNext]_engineVars
  PROVE  Accounting'
<1>1. RMTypeOK
  BY DEF EngineTypeOK
<1>2. ASSUME NEW d \in Descriptors, Refused(d)
      PROVE  Accounting'
  BY <1>2, QuietAccounting DEF Refused, Concluded, Refuse
<1>3. ASSUME NEW d \in Descriptors, NEW p \in Predictions[d], Admit(d, p)
      PROVE  Accounting'
  BY <1>1, <1>3, AdmitFacts, InsertAccounting DEF Admit
<1>4. ASSUME NEW q \in RequestId, NEW g \in 0 .. IdMax, CommitAdmission(q, g)
      PROVE  Accounting'
  <2>1. <<q, g>> \in Admission
    BY EngineAssumption
  <2> QED
    BY <1>1, <1>4, <2>1, NamedReservation, CommitAccounting DEF CommitAdmission
<1>5. ASSUME NEW q \in RequestId, NEW g \in 0 .. IdMax, CommitAdmissionTooLate(q, g)
      PROVE  Accounting'
  BY <1>1, <1>5, NamedReservation, FreeReservedAccounting
  DEF CommitAdmissionTooLate, PastTtl, Terminal
<1>6. ASSUME NEW r \in ReservationId, ReleaseReservation(r)
      PROVE  Accounting'
  BY <1>1, <1>6, ReleaseAccounting, QuietAccounting DEF ReleaseReservation
<1>7. ASSUME NEW q \in RequestId, CancelPending(q) \/ CancelReserved(q)
      PROVE  Accounting'
  <2>1. CASE CancelPending(q)
    BY <2>1, QuietAccounting DEF CancelPending, rmVars, tableVars
  <2>2. CASE CancelReserved(q)
    BY <1>1, <2>2, NamedReservation, FreeReservedAccounting, QuietAccounting
    DEF CancelReserved, Terminal
  <2> QED
    BY <1>7, <2>1, <2>2
<1>8. CASE Input \/ UNCHANGED engineVars
  <2>1. UNCHANGED tableVars
    BY <1>8
    DEF Input, InstallPolicy, SetSnapshot, SetQuota, NoteAdmission, ClockStep, Clock,
        engineVars, rmVars, tableVars
  <2> QED
    BY <2>1, QuietAccounting
<1> QED
  BY <1>2, <1>3, <1>4, <1>5, <1>6, <1>7, <1>8, StepCases

\* The manager's running totals agree with its table after every sequence of
\* evaluations, commits, releases and cancellations (Accounting), orphaned and
\* resubmitted requests included.
THEOREM EngineAccountingHolds == EngineSpec => []Accounting
<1>1. EngineInit => Accounting
  BY InitAccounting DEF EngineInit
<1> QED
  BY <1>1, EngineAccountingStep, EngineTypeCorrect, PTL DEF EngineSpec

-----------------------------------------------------------------------------
(* The load: what an admission takes, and what it leaves free. *)

\* No override reaches the absolute safety margin: the effective policy keeps
\* the one of the policy it is made from.
LEMMA MarginNotOverridden ==
  ASSUME NEW p \in Policies, NEW d
  PROVE  Effective(d, p).absolute_safety_margin = p.absolute_safety_margin
<1>1. "absolute_safety_margin" \in DOMAIN p
  BY PolicyAssumption DEF PolicyFields
<1>2. Setting(d, p, "absolute_safety_margin") = {}
  BY PolicyAssumption DEF Setting, Overridable
<1> QED
  BY <1>1, <1>2 DEF Effective

\* What fits in the headroom leaves the margin of the available capacity
\* free, however large the share f that the ratio sets aside.
LEMMA HeadroomLeavesMargin ==
  ASSUME NEW avail \in Nat, NEW f \in Nat, NEW margin \in Word, NEW demand \in Nat,
         demand > 0, demand <= SatSub(avail, SatAdd(f, margin))
  PROVE  avail - demand >= margin
<1> DEFINE s == SatAdd(f, margin)
<1>1. s \in Nat /\ s >= margin
  BY UMaxAssumption DEF SatAdd, Word
<1> HIDE DEF s
<1>2. avail >= s /\ demand <= avail - s
  BY <1>1 DEF SatSub, s
<1> QED
  BY <1>1, <1>2, UMaxAssumption DEF Word

\* A share in hundredths of a natural number is a natural number.
LEMMA ShareType ==
  ASSUME NEW a \in Nat, NEW r \in Nat
  PROVE  (a * r) \div 100 \in Nat
<1>1. a * r \in Nat
  OBVIOUS
<1> DEFINE n == a * r
<1> HIDE DEF n
<1>2. n \in Nat
  BY <1>1 DEF n
<1>3. n \div 100 \in Nat
  BY <1>2
<1> QED
  BY <1>3 DEF n

\* An admission adds exactly the predicted demand, stays within the envelope
\* that it leaves behind, and keeps the margin of the policy in force free
\* wherever it takes something.
LEMMA AdmitLoad ==
  ASSUME EngineTypeOK, NEW d \in Descriptors, NEW p \in Predictions[d], Admit(d, p),
         NEW e \in Resource
  PROVE  /\ Load(e)' = Load(e) + p.demand[e]
         /\ Load(e)' <= Ceiling'[e]
         /\ p.demand[e] > 0 =>
              Ceiling'[e] - Load(e)' >= policies[latest].absolute_safety_margin[e]
<1> DEFINE pol   == Governing(d)
           limit == DimCeiling(total, pol.overcommit, AllowanceOf(pol), e)
           free  == SatSub(limit, SatAdd(reserved_sum[e], used_sum[e]))
           share == (free * pol.safety_headroom_ratio) \div 100
<1>1. /\ latest # 0 /\ policies[latest] \in Policies
      /\ pol.overcommit \in OvercommitMode /\ AllowanceOf(pol) \in Vec
      /\ pol.safety_headroom_ratio \in Nat /\ pol.absolute_safety_margin \in Vec
      /\ total \in Vec
  BY AdmitFacts, GoverningType, ZeroVec
  DEF AllowanceOf, EngineTypeOK, RMTypeOK, PolicyTypeOK, Installed
<1>2. /\ reserved_sum[e] \in Nat /\ used_sum[e] \in Nat /\ p.demand[e] \in Nat
      /\ pol.absolute_safety_margin[e] \in Word
  BY <1>1, AdmitFacts, UMaxAssumption DEF EngineTypeOK, RMTypeOK, Vec, Word
<1>3. limit \in Word
  BY <1>1, CeilingType
<1>4. Ceiling'[e] = limit
  BY DEF Admit, Govern, Ceiling, DimCeiling
<1>5. Load(e)' = Load(e) + p.demand[e]
  <2>1. reserved_sum'[e] = reserved_sum[e] + p.demand[e] /\ used_sum'[e] = used_sum[e]
    BY DEF Admit, Insert, Plus
  <2> QED
    BY <1>2, <2>1 DEF Load
<1>6. used_sum[e] + reserved_sum[e] + p.demand[e] <= limit
  BY DEF Admit, Reservable, CanReserve
<1>7. p.demand[e] <= SatSub(free, SatAdd(share, pol.absolute_safety_margin[e]))
  BY DEF Admit, InTurn, Fits, FitsIn, Headroom, Available, Availability, VecSatSub
<1>8. pol.absolute_safety_margin = policies[latest].absolute_safety_margin
  BY <1>1, MarginNotOverridden DEF Governing
<1> HIDE DEF limit, pol
<1>9. free = limit - Load(e) /\ free \in Nat /\ Load(e) \in Nat
  BY <1>2, <1>3, <1>6, UMaxAssumption DEF SatSub, SatAdd, Load, Word
<1> HIDE DEF free
<1>10. share \in Nat
  BY <1>1, <1>9, ShareType
<1> HIDE DEF share
<1>11. p.demand[e] > 0 => free - p.demand[e] >= pol.absolute_safety_margin[e]
  BY <1>2, <1>7, <1>9, <1>10, HeadroomLeavesMargin
<1>12. Load(e)' <= limit
  BY <1>2, <1>3, <1>5, <1>6, UMaxAssumption DEF Load, Word
<1>13. free - p.demand[e] = limit - Load(e)'
  BY <1>2, <1>3, <1>5, <1>9, UMaxAssumption DEF Word
<1> QED
  BY <1>4, <1>5, <1>8, <1>11, <1>12, <1>13

\* Only an admission raises the load.
LEMMA EngineLoadStep ==
  ASSUME EngineTypeOK, [EngineNext]_engineVars
  PROVE  \/ \E d \in Descriptors : \E p \in Predictions[d] : Admit(d, p)
         \/ \A e \in Resource : Load(e)' <= Load(e)
<1>0. /\ reserved_sum \in [Resource -> Nat] /\ used_sum \in [Resource -> Nat]
      /\ \A id \in ReservationId : reservations[id].demand \in [Resource -> Nat]
  BY UMaxAssumption DEF EngineTypeOK, RMTypeOK, Vec, Word, Reservation
<1>1. ASSUME UNCHANGED <<reserved_sum, used_sum>>
      PROVE  \A e \in Resource : Load(e)' <= Load(e)
  BY <1>0, <1>1 DEF Load
<1>2. ASSUME NEW id \in ReservationId, NEW s, FreeReserved(id, s)
      PROVE  \A e \in Resource : Load(e)' <= Load(e)
  BY <1>0, <1>2 DEF FreeReserved, Minus, Load
<1>3. ASSUME NEW d \in Descriptors, Refused(d)
      PROVE  \A e \in Resource : Load(e)' <= Load(e)
  BY <1>1, <1>3 DEF Refused, Concluded, Refuse, tableVars
<1>4. ASSUME NEW q \in RequestId, NEW g \in 0 .. IdMax, CommitAdmission(q, g)
      PROVE  \A e \in Resource : Load(e)' <= Load(e)
  <2>1. PICK id \in ReservationId : CommitTable(id, <<q, g>>)
    BY <1>4, NamedReservation DEF CommitAdmission
  <2> QED
    BY <1>0, <2>1 DEF CommitTable, Minus, Plus, Load
<1>5. ASSUME NEW q \in RequestId, NEW g \in 0 .. IdMax, CommitAdmissionTooLate(q, g)
      PROVE  \A e \in Resource : Load(e)' <= Load(e)
  BY <1>2, <1>5, NamedReservation DEF CommitAdmissionTooLate
<1>6. ASSUME NEW r \in ReservationId, ReleaseReservation(r)
      PROVE  \A e \in Resource : Load(e)' <= Load(e)
  <2>1. CASE ReleaseCommitted(r)
    BY <1>0, <2>1 DEF ReleaseCommitted, Minus, Load
  <2>2. CASE ReleaseExpired(r) \/ UNCHANGED tableVars
    BY <1>1, <2>2 DEF ReleaseExpired, tableVars
  <2> QED
    BY <1>2, <1>6, <2>1, <2>2 DEF ReleaseReservation, ReleaseTable
<1>7. ASSUME NEW q \in RequestId, CancelPending(q) \/ CancelReserved(q)
      PROVE  \A e \in Resource : Load(e)' <= Load(e)
  <2>1. CASE CancelPending(q)
    BY <1>1, <2>1 DEF CancelPending, rmVars
  <2>2. CASE CancelReserved(q)
    BY <1>1, <1>2, <2>2, NamedReservation DEF CancelReserved, tableVars
  <2> QED
    BY <1>7, <2>1, <2>2
<1>8. CASE Input \/ UNCHANGED engineVars
  <2>1. UNCHANGED <<reserved_sum, used_sum>>
    BY <1>8
    DEF Input, InstallPolicy, SetSnapshot, SetQuota, NoteAdmission, ClockStep, Clock,
        engineVars, rmVars, tableVars
  <2> QED
    BY <1>1, <2>1
<1> QED
  BY <1>3, <1>4, <1>5, <1>6, <1>7, <1>8, StepCases

\* A step that raises the load somewhere is an admission.
LEMMA RaisedByAdmission ==
  ASSUME EngineTypeOK, [EngineNext]_engineVars, NEW e \in Resource, Load(e)' > Load(e)
  PROVE  \E d \in Descriptors : \E p \in Predictions[d] : Admit(d, p)
<1>1. Load(e) \in Nat /\ Load(e)' \in Nat
  BY EngineTypeStep, UMaxAssumption DEF EngineTypeOK, RMTypeOK, Load, Vec, Word
<1> QED
  BY <1>1, EngineLoadStep

\* What a step that raises the load leaves behind: every dimension within the
\* envelope, and the margin of the policy in force free where it took something.
LEMMA RaisedWithinBounds ==
  ASSUME EngineTypeOK, [EngineNext]_engineVars, NEW e \in Resource, Load(e)' > Load(e)
  PROVE  /\ \A i \in Resource : Load(i)' <= Ceiling'[i]
         /\ Ceiling'[e] - Load(e)' >= policies[latest].absolute_safety_margin[e]
<1>1. PICK d \in Descriptors : \E p \in Predictions[d] : Admit(d, p)
  BY RaisedByAdmission
<1>2. PICK p \in Predictions[d] : Admit(d, p)
  BY <1>1
<1>3. Load(e) \in Nat /\ p.demand[e] \in Nat
  BY <1>2, AdmitFacts, UMaxAssumption DEF EngineTypeOK, RMTypeOK, Load, Vec, Word
<1>4. p.demand[e] > 0
  BY <1>2, <1>3, AdmitLoad
<1> QED
  BY <1>2, <1>4, AdmitLoad

\* No step of the engine takes capacity past the envelope in any dimension
\* (NoOverclaim), although evaluate changes the envelope, by the overrides of
\* the request it is working on, in the same step.
THEOREM EngineNoOverclaimHolds == EngineSpec => NoOverclaim
<1>1. EngineTypeOK /\ [EngineNext]_engineVars =>
        [\A d \in Resource : Load(d)' > Load(d) => \A e \in Resource : Load(e)' <= Ceiling'[e]]_rmVars
  BY RaisedWithinBounds
<1> QED
  BY <1>1, EngineTypeCorrect, PTL DEF EngineSpec, NoOverclaim

\* Every admission leaves the absolute safety margin of the policy in force
\* free in the dimensions it takes capacity from (HeadroomKept): no override
\* can touch the margin, and the saturating sums of headroom cannot lose it.
THEOREM HeadroomKeptHolds == EngineSpec => HeadroomKept
<1>1. EngineTypeOK /\ [EngineNext]_engineVars =>
        [\A d \in Resource :
           Load(d)' > Load(d) =>
             Ceiling'[d] - Load(d)' >= policies[latest].absolute_safety_margin[d]]_engineVars
  BY RaisedWithinBounds
<1> QED
  BY <1>1, EngineTypeCorrect, PTL DEF EngineSpec, HeadroomKept

-----------------------------------------------------------------------------
(* Ownership: which request a reservation backs. *)

OwnershipInv == SoleOwner /\ BackedByCapacity

\* What a decision does to the records: only the record of its request moves.
LEMMA EmitEffect ==
  ASSUME requests \in [RequestId -> Request], NEW d \in Descriptors, NEW to, NEW dec,
         Emit(d, to, dec)
  PROVE  /\ d.id \in RequestId
         /\ requests'[d.id].decision = dec
         /\ requests'[d.id].lifecycle =
              IF requests[d.id].lifecycle \in {"Absent", "Proposed", "Evaluating"}
              THEN to ELSE requests[d.id].lifecycle
         /\ \A q \in RequestId \ {d.id} : requests'[q] = requests[q]
BY EngineAssumption DEF Emit, Descriptor

LEMMA RefusedEffect ==
  ASSUME EngineTypeOK, NEW d \in Descriptors, Refused(d)
  PROVE  /\ d.id \in RequestId
         /\ requests'[d.id].decision.reservation = None
         /\ requests'[d.id].lifecycle \in {requests[d.id].lifecycle, "Rejected", "Deferred"}
         /\ \A q \in RequestId \ {d.id} : requests'[q] = requests[q]
         /\ UNCHANGED tableVars
<1>1. PICK to \in {"Rejected", "Deferred"}, reason \in Refusals,
           outcome \in {"rejections", "deferrals"} : Concluded(d, to, reason, outcome)
  BY DEF Refused
<1>2. Emit(d, to, Conclude(d, reason, None, 0)) /\ UNCHANGED tableVars
  BY <1>1 DEF Concluded, Refuse
<1>3. requests \in [RequestId -> Request]
  BY DEF EngineTypeOK
<1>4. Conclude(d, reason, None, 0).reservation = None
  BY DEF Conclude
<1> QED
  BY <1>2, <1>3, <1>4, EmitEffect

LEMMA AdmitEffect ==
  ASSUME EngineTypeOK, NEW d \in Descriptors, NEW p \in Predictions[d], Admit(d, p)
  PROVE  /\ d.id \in RequestId
         /\ requests'[d.id].decision.reservation = reservation_counter
         /\ requests[d.id].lifecycle # "Absent" \/ requests'[d.id].lifecycle = "Reserved"
         /\ requests'[d.id].lifecycle \in {"Reserved", "Deferred"}
         /\ \A q \in RequestId \ {d.id} : requests'[q] = requests[q]
         /\ reservations'[reservation_counter].status = "Reserved"
         /\ \A r \in ReservationId \ {reservation_counter} : reservations'[r] = reservations[r]
<1>1. Emit(d, "Reserved",
           Conclude(d, AdmitReason(d, p), reservation_counter, admission_generation))
  BY DEF Admit
<1>2. requests \in [RequestId -> Request]
  BY DEF EngineTypeOK
<1>3. Conclude(d, AdmitReason(d, p), reservation_counter, admission_generation).reservation
        = reservation_counter
  BY DEF Conclude
<1>4. requests[d.id].lifecycle \in {"Absent", "Proposed", "Deferred", "Evaluating"}
  BY DEF Admit, InTurn, Fits, Timely, Entitled, Informed, Capable, Governed, Entered, Duplicate
<1>5. reservations \in [ReservationId -> Reservation] /\ reservation_counter \in ReservationId
  BY DEF EngineTypeOK, RMTypeOK
<1>6. /\ reservations'[reservation_counter].status = "Reserved"
      /\ \A r \in ReservationId \ {reservation_counter} : reservations'[r] = reservations[r]
  <2>1. Insert(reservation_counter, p.demand, Governing(d).max_reservation_lifetime)
    BY DEF Admit
  <2> QED
    BY <1>5, <2>1 DEF Insert
<1> QED
  BY <1>1, <1>2, <1>3, <1>4, <1>6, EmitEffect

\* What the transitions on a reservation do to the two tables.
LEMMA CommitAdmissionEffect ==
  ASSUME EngineTypeOK, NEW q \in RequestId, NEW g \in 0 .. IdMax, CommitAdmission(q, g),
         NEW r, r = requests[q].decision.reservation
  PROVE  /\ r \in ReservationId /\ r # None
         /\ requests[q].decision.generation = g
         /\ reservations[r].status = "Reserved"
         /\ reservations'[r].status = "Committed" /\ reservations'[r].admission = <<q, g>>
         /\ \A o \in ReservationId \ {r} : reservations'[o] = reservations[o]
         /\ requests'[q].lifecycle = "Admitted" /\ requests'[q].decision = requests[q].decision
         /\ \A o \in RequestId \ {q} : requests'[o] = requests[o]
<1>1. r \in ReservationId /\ r # None /\ requests[q].decision.generation = g
  BY NamedReservation DEF CommitAdmission
<1>2. CanCommit(r) /\ CommitTable(r, <<q, g>>)
  BY DEF CommitAdmission
<1>3. reservations \in [ReservationId -> Reservation]
  BY DEF EngineTypeOK, RMTypeOK
<1>4. /\ reservations'[r].status = "Committed" /\ reservations'[r].admission = <<q, g>>
      /\ \A o \in ReservationId \ {r} : reservations'[o] = reservations[o]
  BY <1>1, <1>2, <1>3 DEF CommitTable, Reservation
<1>5. requests \in [RequestId -> Request]
      /\ requests' = [requests EXCEPT ![q].lifecycle = "Admitted"]
  BY DEF EngineTypeOK, CommitAdmission
<1>6. /\ requests'[q].lifecycle = "Admitted" /\ requests'[q].decision = requests[q].decision
      /\ \A o \in RequestId \ {q} : requests'[o] = requests[o]
  BY <1>5 DEF Request
<1> QED
  BY <1>1, <1>2, <1>4, <1>6 DEF CanCommit

\* Freeing one provisional reservation touches no other.
LEMMA FreeReservedEffect ==
  ASSUME EngineTypeOK, NEW r \in ReservationId, NEW s, FreeReserved(r, s)
  PROVE  /\ reservations'[r].status = s
         /\ \A o \in ReservationId \ {r} : reservations'[o] = reservations[o]
<1>1. reservations \in [ReservationId -> Reservation]
  BY DEF EngineTypeOK, RMTypeOK
<1> QED
  BY <1>1 DEF FreeReserved, Reservation

LEMMA ReleaseEffect ==
  ASSUME EngineTypeOK, NEW r \in ReservationId, ReleaseReservation(r)
  PROVE  /\ \A o \in ReservationId \ {r} : reservations'[o] = reservations[o]
         /\ \/ /\ reservations[r].status \in {"Reserved", "Committed", "Expired"}
               /\ reservations'[r].status = "Released"
            \/ /\ reservations[r].status \in {"Released", "RolledBack"}
               /\ reservations'[r] = reservations[r]
         /\ \A q \in RequestId :
              /\ requests'[q].decision = requests[q].decision
              /\ requests'[q].lifecycle =
                   IF Names(q, r) /\ requests[q].lifecycle \in {"Reserved", "Admitted"}
                   THEN "Released" ELSE requests[q].lifecycle
<1>1. /\ reservations \in [ReservationId -> Reservation]
      /\ requests \in [RequestId -> Request]
  BY DEF EngineTypeOK, RMTypeOK
<1>2. \A q \in RequestId :
        /\ requests'[q].decision = requests[q].decision
        /\ requests'[q].lifecycle =
             IF Names(q, r) /\ requests[q].lifecycle \in {"Reserved", "Admitted"}
             THEN "Released" ELSE requests[q].lifecycle
  BY <1>1 DEF ReleaseReservation, Request
<1>3. CASE ReleaseTable(r)
  <2>1. CASE reservations[r].status = "Reserved" /\ FreeReserved(r, "Released")
    BY <1>2, <2>1, FreeReservedEffect
  <2>2. CASE ReleaseCommitted(r) \/ ReleaseExpired(r)
    BY <1>1, <1>2, <2>2 DEF ReleaseCommitted, ReleaseExpired, Reservation
  <2> QED
    BY <1>3, <2>1, <2>2 DEF ReleaseTable
<1>4. CASE reservations[r].status \in {"Released", "RolledBack"} /\ UNCHANGED tableVars
  BY <1>2, <1>4 DEF tableVars
<1> QED
  BY <1>3, <1>4 DEF ReleaseReservation

LEMMA CancelEffect ==
  ASSUME EngineTypeOK, NEW q \in RequestId, CancelPending(q) \/ CancelReserved(q),
         NEW r, r = requests[q].decision.reservation
  PROVE  /\ requests[q].lifecycle \in {"Proposed", "Evaluating", "Deferred", "Reserved"}
         /\ requests'[q].lifecycle = "Cancelled" /\ requests'[q].decision = requests[q].decision
         /\ \A o \in RequestId \ {q} : requests'[o] = requests[o]
         /\ \A o \in ReservationId \ {r} : reservations'[o] = reservations[o]
         /\ r # None /\ reservations'[r] # reservations[r] =>
              reservations[r].status = "Reserved" /\ reservations'[r].status = "RolledBack"
         /\ r # None /\ reservations[r].status = "Reserved" /\ requests[q].lifecycle = "Reserved" =>
              reservations'[r].status = "RolledBack"
<1>1. /\ requests[q].lifecycle \in {"Proposed", "Evaluating", "Deferred", "Reserved"}
      /\ requests \in [RequestId -> Request]
      /\ requests' = [requests EXCEPT ![q].lifecycle = "Cancelled"]
  BY DEF CancelPending, CancelReserved, EngineTypeOK
<1>2. /\ requests'[q].lifecycle = "Cancelled" /\ requests'[q].decision = requests[q].decision
      /\ \A o \in RequestId \ {q} : requests'[o] = requests[o]
  BY <1>1 DEF Request
<1>3. CASE CancelPending(q)
  BY <1>1, <1>2, <1>3 DEF CancelPending, rmVars
<1>4. CASE CancelReserved(q)
  <2>1. CASE r # None /\ reservations[r].status = "Reserved"
    <3>1. r \in ReservationId /\ FreeReserved(r, "RolledBack")
      BY <1>4, <2>1, NamedReservation DEF CancelReserved
    <3> QED
      BY <1>1, <1>2, <2>1, <3>1, FreeReservedEffect
  <2>2. CASE ~(r # None /\ reservations[r].status = "Reserved")
    BY <1>1, <1>2, <1>4, <2>2 DEF CancelReserved, tableVars
  <2> QED
    BY <2>1, <2>2
<1> QED
  BY <1>3, <1>4

\* Inputs and stuttering steps touch neither table.
LEMMA QuietStep ==
  ASSUME Input \/ UNCHANGED engineVars
  PROVE  UNCHANGED <<requests, reservations>>
BY DEF Input, InstallPolicy, SetSnapshot, SetQuota, NoteAdmission, ClockStep, Clock,
       engineVars, rmVars, tableVars

\* The two invariants, one request at a time.
Owns(q) ==
  requests[q].decision.reservation # None =>
    /\ reservations[requests[q].decision.reservation].status # "Absent"
    /\ \A o \in RequestId \ {q} :
         requests[o].decision.reservation # requests[q].decision.reservation

Backed(q) ==
  requests[q].decision.reservation # None =>
    LET r == reservations[requests[q].decision.reservation]
    IN /\ requests[q].lifecycle = "Admitted" =>
            r.status = "Committed" /\ r.admission = <<q, requests[q].decision.generation>>
       /\ requests[q].lifecycle = "Reserved" => r.status \in {"Reserved", "Expired"}
       /\ requests[q].lifecycle = "Released" => r.status = "Released"

LEMMA OwnershipByRequest == OwnershipInv <=> \A q \in RequestId : Owns(q) /\ Backed(q)
BY DEF OwnershipInv, SoleOwner, BackedByCapacity, Owns, Backed

LEMMA OwnershipByRequestNext == OwnershipInv' <=> \A q \in RequestId : Owns(q)' /\ Backed(q)'
BY DEF OwnershipInv, SoleOwner, BackedByCapacity, Owns, Backed

\* A decision that names a reservation names one that is in the table, so a
\* fresh reservation has no owner yet.
LEMMA OwnershipStep ==
  ASSUME EngineTypeOK, OwnershipInv, [EngineNext]_engineVars
  PROVE  OwnershipInv'
<1>1. \A q \in RequestId : Owns(q) /\ Backed(q)
  BY OwnershipByRequest
<1>2. \A q \in RequestId :
        requests[q].decision.reservation # None =>
          requests[q].decision.reservation \in ReservationId
  BY NamedReservation
<1> SUFFICES ASSUME NEW q \in RequestId
             PROVE  Owns(q)' /\ Backed(q)'
  BY OwnershipByRequestNext
<1>3. ASSUME NEW d \in Descriptors, Refused(d)
      PROVE  Owns(q)' /\ Backed(q)'
  <2>1. /\ requests'[d.id].decision.reservation = None
        /\ \A o \in RequestId \ {d.id} : requests'[o] = requests[o]
        /\ UNCHANGED reservations
    BY <1>3, RefusedEffect DEF tableVars
  <2> QED
    BY <1>1, <2>1, ZenonT(60) DEF Owns, Backed
<1>4. ASSUME NEW d \in Descriptors, NEW p \in Predictions[d], Admit(d, p)
      PROVE  Owns(q)' /\ Backed(q)'
  <2> DEFINE r == reservation_counter
  <2>1. r \in ReservationId /\ reservations[r].status = "Absent"
    BY <1>4, AdmitFacts
  <2>2. /\ d.id \in RequestId
        /\ requests'[d.id].decision.reservation = r
        /\ requests'[d.id].lifecycle \in {"Reserved", "Deferred"}
        /\ \A o \in RequestId \ {d.id} : requests'[o] = requests[o]
        /\ reservations'[r].status = "Reserved"
        /\ \A o \in ReservationId \ {r} : reservations'[o] = reservations[o]
    BY <1>4, AdmitEffect
  <2>3. \A o \in RequestId :
          requests[o].decision.reservation # None =>
            requests[o].decision.reservation \in ReservationId \ {r}
    BY <1>1, <1>2, <2>1 DEF Owns
  <2> HIDE DEF r
  <2>4. r # None
    BY <2>1, EngineAssumption, PolicyAssumption DEF None
  <2>5. CASE q = d.id
    BY <2>2, <2>3, <2>4, <2>5 DEF Owns, Backed
  <2>6. CASE q # d.id
    <3>1. requests'[q] = requests[q]
      BY <2>2, <2>6
    <3>2. requests[q].decision.reservation # None =>
            reservations'[requests[q].decision.reservation]
              = reservations[requests[q].decision.reservation]
      BY <2>2, <2>3
    <3> QED
      BY <1>1, <2>2, <2>3, <2>6, <3>1, <3>2 DEF Owns, Backed
  <2> QED
    BY <2>5, <2>6
<1>5. ASSUME NEW o \in RequestId, NEW g \in 0 .. IdMax, CommitAdmission(o, g)
      PROVE  Owns(q)' /\ Backed(q)'
  <2> DEFINE r == requests[o].decision.reservation
  <2>1. /\ r \in ReservationId /\ r # None
        /\ requests[o].decision.generation = g
        /\ reservations'[r].status = "Committed" /\ reservations'[r].admission = <<o, g>>
        /\ \A i \in ReservationId \ {r} : reservations'[i] = reservations[i]
        /\ requests'[o].lifecycle = "Admitted" /\ requests'[o].decision = requests[o].decision
        /\ \A i \in RequestId \ {o} : requests'[i] = requests[i]
    BY <1>5, CommitAdmissionEffect, SMTT(30)
  <2>2. \A i \in RequestId : requests'[i].decision = requests[i].decision
    BY <2>1
  <2>3. CASE q = o
    BY <1>1, <2>1, <2>2, <2>3, ZenonT(60) DEF Owns, Backed
  <2>4. CASE q # o
    BY <1>1, <1>2, <2>1, <2>2, <2>4, SMTT(60) DEF Owns, Backed
  <2> QED
    BY <2>3, <2>4
<1>6. ASSUME NEW o \in RequestId, NEW g \in 0 .. IdMax, CommitAdmissionTooLate(o, g)
      PROVE  Owns(q)' /\ Backed(q)'
  <2> DEFINE r == requests[o].decision.reservation
  <2>1. /\ r \in ReservationId /\ reservations[r].status = "Reserved"
        /\ FreeReserved(r, "Expired") /\ UNCHANGED requests
    BY <1>6, NamedReservation DEF CommitAdmissionTooLate, PastTtl
  <2>2. /\ reservations'[r].status = "Expired"
        /\ \A i \in ReservationId \ {r} : reservations'[i] = reservations[i]
    BY <2>1, FreeReservedEffect
  <2> QED
    BY <1>1, <1>2, <2>1, <2>2 DEF Owns, Backed
<1>7. ASSUME NEW r \in ReservationId, ReleaseReservation(r)
      PROVE  Owns(q)' /\ Backed(q)'
  <2>1. /\ \A o \in ReservationId \ {r} : reservations'[o] = reservations[o]
        /\ \/ /\ reservations[r].status \in {"Reserved", "Committed", "Expired"}
              /\ reservations'[r].status = "Released"
           \/ /\ reservations[r].status \in {"Released", "RolledBack"}
              /\ reservations'[r] = reservations[r]
    BY <1>7, ReleaseEffect
  <2>2. \A o \in RequestId :
          /\ requests'[o].decision = requests[o].decision
          /\ requests'[o].lifecycle =
               IF Names(o, r) /\ requests[o].lifecycle \in {"Reserved", "Admitted"}
               THEN "Released" ELSE requests[o].lifecycle
    BY <1>7, ReleaseEffect
  <2>3. CASE Names(q, r)
    BY <1>1, <2>1, <2>2, <2>3 DEF Owns, Backed, Names
  <2>4. CASE ~Names(q, r)
    BY <1>1, <1>2, <2>1, <2>2, <2>4, SMTT(30) DEF Owns, Backed, Names
  <2> QED
    BY <2>3, <2>4
<1>8. ASSUME NEW o \in RequestId, CancelPending(o) \/ CancelReserved(o)
      PROVE  Owns(q)' /\ Backed(q)'
  <2> DEFINE r == requests[o].decision.reservation
  <2>1. /\ requests'[o].lifecycle = "Cancelled" /\ requests'[o].decision = requests[o].decision
        /\ \A i \in RequestId \ {o} : requests'[i] = requests[i]
        /\ \A i \in ReservationId \ {r} : reservations'[i] = reservations[i]
        /\ r # None /\ reservations'[r] # reservations[r] =>
             reservations[r].status = "Reserved" /\ reservations'[r].status = "RolledBack"
    BY <1>8, CancelEffect
  <2>2. \A i \in RequestId : requests'[i].decision = requests[i].decision
    BY <2>1
  <2>3. CASE q = o
    BY <1>1, <2>1, <2>2, <2>3 DEF Owns, Backed
  <2>4. CASE q # o
    BY <1>1, <1>2, <2>1, <2>2, <2>4, SMTT(30) DEF Owns, Backed
  <2> QED
    BY <2>3, <2>4
<1>9. CASE Input \/ UNCHANGED engineVars
  BY <1>1, <1>9, QuietStep DEF Owns, Backed
<1> QED
  BY <1>3, <1>4, <1>5, <1>6, <1>7, <1>8, <1>9, StepCases

LEMMA OwnershipInit == EngineInit => OwnershipInv
BY DEF EngineInit, OwnershipInv, SoleOwner, BackedByCapacity, NoRequest, NoDecision, None

LEMMA OwnershipHolds == EngineSpec => []OwnershipInv
BY OwnershipInit, OwnershipStep, EngineTypeCorrect, PTL DEF EngineSpec

\* A reservation backs at most one request (SoleOwner), even after the
\* identity counter of next_reservation_id_ has wrapped.
THEOREM SoleOwnerHolds == EngineSpec => []SoleOwner
<1>1. OwnershipInv => SoleOwner
  BY DEF OwnershipInv
<1> QED
  BY <1>1, OwnershipHolds, PTL

\* ADMITTED requests hold committed capacity recorded for them, RESERVED ones
\* have not lost theirs to a release, RELEASED ones hold none
\* (BackedByCapacity), whatever is resubmitted, committed late or cancelled.
THEOREM BackedByCapacityHolds == EngineSpec => []BackedByCapacity
<1>1. OwnershipInv => BackedByCapacity
  BY DEF OwnershipInv
<1> QED
  BY <1>1, OwnershipHolds, PTL

-----------------------------------------------------------------------------
(* What a request is charged for.  A commit is the only step that records an *)
(* admission in the table.  It leaves the request ADMITTED, which no step    *)
(* but a release ends, and neither an ADMITTED nor a RELEASED request names  *)
(* a provisional reservation (BackedByCapacity): it cannot commit again.     *)

Final == {"Admitted", "Released"}

Charged(r)   == reservations[r].admission # NoAdmission
Charge(r)    == reservations[r].admission[1]

ChargeInv ==
  /\ \A r \in ReservationId : Charged(r) => requests[Charge(r)].lifecycle \in Final
  /\ \A r, o \in ReservationId : Charged(r) /\ Charged(o) /\ Charge(r) = Charge(o) => r = o

LEMMA ChargeType ==
  ASSUME EngineTypeOK, NEW r \in ReservationId, Charged(r)
  PROVE  Charge(r) \in RequestId
<1>1. reservations[r].admission \in Admission
  BY DEF EngineTypeOK, RMTypeOK, Reservation, Charged
<1> QED BY <1>1, EngineAssumption DEF Charge

\* A step that records no admission, and after which ADMITTED or RELEASED
\* requests are ADMITTED or RELEASED still.
LEMMA ChargeKept ==
  ASSUME EngineTypeOK, ChargeInv,
         \A r \in ReservationId :
           reservations'[r].admission \in {reservations[r].admission, NoAdmission},
         \A q \in RequestId : requests[q].lifecycle \in Final => requests'[q].lifecycle \in Final
  PROVE  ChargeInv'
<1>1. ASSUME NEW r \in ReservationId, Charged(r)'
      PROVE  Charged(r) /\ Charge(r)' = Charge(r) /\ Charge(r) \in RequestId
  BY <1>1, ChargeType DEF Charged, Charge
<1>2. ASSUME NEW r \in ReservationId, Charged(r)'
      PROVE  (requests[Charge(r)].lifecycle \in Final)'
  <2>1. requests[Charge(r)].lifecycle \in Final
    BY <1>1, <1>2 DEF ChargeInv
  <2>2. requests'[Charge(r)].lifecycle \in Final
    BY <1>1, <1>2, <2>1
  <2> QED BY <1>1, <1>2, <2>2 DEF Final
<1>3. ASSUME NEW r \in ReservationId, NEW o \in ReservationId,
             Charged(r)', Charged(o)', Charge(r)' = Charge(o)'
      PROVE  r = o
  BY <1>1, <1>3 DEF ChargeInv
<1> QED BY <1>2, <1>3 DEF ChargeInv

LEMMA FreeKeepsAdmissions ==
  ASSUME EngineTypeOK, NEW i \in ReservationId, NEW s,
         reservations' = [reservations EXCEPT ![i].status = s]
  PROVE  \A r \in ReservationId : reservations'[r].admission = reservations[r].admission
BY DEF EngineTypeOK, RMTypeOK, Reservation

LEMMA ChargeStep ==
  ASSUME EngineTypeOK, OwnershipInv, ChargeInv, [EngineNext]_engineVars
  PROVE  ChargeInv'
<1>0. requests \in [RequestId -> Request]
  BY DEF EngineTypeOK
<1>1. ASSUME NEW d \in Descriptors, Refused(d)
      PROVE  ChargeInv'
  <2>1. PICK to \in {"Rejected", "Deferred"}, reason \in Refusals,
             outcome \in {"rejections", "deferrals"} : Concluded(d, to, reason, outcome)
    BY <1>1 DEF Refused
  <2>2. Emit(d, to, Conclude(d, reason, None, 0)) /\ UNCHANGED reservations
    BY <2>1 DEF Concluded, Refuse, tableVars
  <2>3. \A q \in RequestId : requests[q].lifecycle \in Final => requests'[q].lifecycle \in Final
    BY <1>0, <2>2, EmitEffect DEF Final
  <2> QED BY <2>2, <2>3, ChargeKept
<1>2. ASSUME NEW d \in Descriptors, NEW p \in Predictions[d], Admit(d, p)
      PROVE  ChargeInv'
  <2>1. Emit(d, "Reserved",
             Conclude(d, AdmitReason(d, p), reservation_counter, admission_generation))
    BY <1>2 DEF Admit
  <2>2. \A q \in RequestId : requests[q].lifecycle \in Final => requests'[q].lifecycle \in Final
    BY <1>0, <2>1, EmitEffect DEF Final
  <2>3. reservations \in [ReservationId -> Reservation] /\ reservation_counter \in ReservationId
    BY DEF EngineTypeOK, RMTypeOK
  <2>4. Insert(reservation_counter, p.demand, Governing(d).max_reservation_lifetime)
    BY <1>2 DEF Admit
  <2>5. \A r \in ReservationId :
          reservations'[r].admission \in {reservations[r].admission, NoAdmission}
    BY <2>3, <2>4 DEF Insert
  <2> QED BY <2>2, <2>5, ChargeKept
<1>3. ASSUME NEW q \in RequestId, NEW g \in 0 .. IdMax, CommitAdmission(q, g)
      PROVE  ChargeInv'
  <2>0. PICK c \in ReservationId : c = requests[q].decision.reservation
    BY <1>3, CommitAdmissionEffect
  <2>1. /\ c \in ReservationId /\ c # None /\ reservations[c].status = "Reserved"
        /\ reservations'[c].admission = <<q, g>>
        /\ \A o \in ReservationId \ {c} : reservations'[o] = reservations[o]
        /\ requests'[q].lifecycle = "Admitted"
        /\ \A o \in RequestId \ {q} : requests'[o] = requests[o]
    BY <1>3, <2>0, CommitAdmissionEffect
  <2>2. requests[q].lifecycle \notin Final
    <3>1. Backed(q)
      BY OwnershipByRequest
    <3> QED BY <2>0, <2>1, <3>1 DEF Backed, Final
  <2>3. \A r \in ReservationId : Charged(r) => Charge(r) # q /\ Charge(r) \in RequestId
    BY <2>2, ChargeType DEF ChargeInv
  <2>4. Charge(c)' = q
    BY <2>1 DEF Charge
  <2>5. \A r \in ReservationId \ {c} : (Charged(r)' <=> Charged(r)) /\ Charge(r)' = Charge(r)
    BY <2>1 DEF Charged, Charge
  <2>6. ASSUME NEW r \in ReservationId, Charged(r)'
        PROVE  (requests[Charge(r)].lifecycle \in Final)'
    <3>1. CASE r = c
      BY <2>1, <2>4, <3>1 DEF Final
    <3>2. CASE r # c
      <4>1. Charge(r) \in RequestId \ {q} /\ requests[Charge(r)].lifecycle \in Final
        BY <2>3, <2>5, <2>6, <3>2 DEF ChargeInv
      <4>2. Charge(r)' = Charge(r)
        BY <2>5, <2>6, <3>2
      <4>3. requests'[Charge(r)] = requests[Charge(r)]
        BY <2>1, <4>1
      <4> QED BY <4>1, <4>2, <4>3 DEF Final
    <3> QED BY <3>1, <3>2
  <2>7. ASSUME NEW r \in ReservationId, NEW o \in ReservationId,
               Charged(r)', Charged(o)', Charge(r)' = Charge(o)'
        PROVE  r = o
    BY <2>3, <2>4, <2>5, <2>7 DEF ChargeInv
  <2> QED BY <2>6, <2>7 DEF ChargeInv
<1>4. ASSUME NEW q \in RequestId, NEW g \in 0 .. IdMax, CommitAdmissionTooLate(q, g)
      PROVE  ChargeInv'
  <2> DEFINE r == requests[q].decision.reservation
  <2>1. r \in ReservationId /\ FreeReserved(r, "Expired") /\ UNCHANGED requests
    BY <1>4, NamedReservation DEF CommitAdmissionTooLate
  <2>2. reservations' = [reservations EXCEPT ![r].status = "Expired"]
    BY <2>1 DEF FreeReserved
  <2> HIDE DEF r
  <2> QED BY <2>1, <2>2, FreeKeepsAdmissions, ChargeKept
<1>5. ASSUME NEW r \in ReservationId, ReleaseReservation(r)
      PROVE  ChargeInv'
  <2>1. \A q \in RequestId : requests[q].lifecycle \in Final => requests'[q].lifecycle \in Final
    BY <1>5, ReleaseEffect DEF Final
  <2>2. \/ reservations' = [reservations EXCEPT ![r].status = "Released"]
        \/ reservations' = reservations
    BY <1>5 DEF ReleaseReservation, ReleaseTable, FreeReserved, ReleaseCommitted, ReleaseExpired,
                tableVars
  <2> QED BY <2>1, <2>2, FreeKeepsAdmissions, ChargeKept
<1>6. ASSUME NEW q \in RequestId, CancelPending(q) \/ CancelReserved(q)
      PROVE  ChargeInv'
  <2>1. \A o \in RequestId : requests[o].lifecycle \in Final => requests'[o].lifecycle \in Final
    BY <1>6, CancelEffect DEF Final
  <2>2. \/ \E r \in ReservationId : reservations' = [reservations EXCEPT ![r].status = "RolledBack"]
        \/ reservations' = reservations
    BY <1>6, NamedReservation DEF CancelPending, CancelReserved, FreeReserved, rmVars, tableVars
  <2> QED BY <2>1, <2>2, FreeKeepsAdmissions, ChargeKept
<1>7. CASE Input \/ UNCHANGED engineVars
  BY <1>7, QuietStep, ChargeKept
<1> QED
  BY <1>1, <1>2, <1>3, <1>4, <1>5, <1>6, <1>7, StepCases

\* Whatever is deferred, evaluated again, cancelled and committed late, no
\* request id is charged for two reservations (ChargedOnce).  It rests on
\* commit_admission making every request ADMITTED, whatever it was before.
THEOREM ChargedOnceHolds == EngineSpec => []ChargedOnce
<1>1. EngineInit => ChargeInv
  BY DEF EngineInit, RMInit, NoReservation, ChargeInv, Charged
<1>2. ChargeInv => ChargedOnce
  BY DEF ChargeInv, Charged, Charge, ChargedOnce, ChargedTo, Final
<1> QED
  BY <1>1, <1>2, ChargeStep, OwnershipHolds, EngineTypeCorrect, PTL DEF EngineSpec

-----------------------------------------------------------------------------
(* Evidence: the counters, and the entries of the table. *)

\* A step that keeps the entries and at most refreshes the gauge.
LEMMA EvidenceKept ==
  ASSUME EngineTypeOK, EvidenceAddsUp,
         \A r \in ReservationId : reservations'[r].status = "Absent" <=> reservations[r].status = "Absent",
         \A m \in Counters \ {"active_reservations"} : metrics'[m] = metrics[m]
  PROVE  EvidenceAddsUp'
<1>1. Entries' = Entries
  BY DEF Entries
<1> QED BY <1>1 DEF EvidenceAddsUp, Counters

LEMMA EvidenceStep ==
  ASSUME EngineTypeOK, EvidenceAddsUp, [EngineNext]_engineVars
  PROVE  EvidenceAddsUp'
<1>0. metrics \in [Counters -> Nat]
  BY DEF EngineTypeOK, Counters
<1>1. ASSUME NEW d \in Descriptors, Refused(d)
      PROVE  EvidenceAddsUp'
  <2>1. PICK outcome \in {"rejections", "deferrals"} : Count(outcome)
    BY <1>1 DEF Refused, Concluded, Refuse
  <2>2. Entries' = Entries
    BY <1>1, RefusedEffect DEF Entries, tableVars
  <2>3. metrics'.evaluations = metrics'.admissions + metrics'.deferrals + metrics'.rejections
        /\ metrics'.admissions = metrics.admissions
    BY <1>0, <2>1 DEF Count, Counters, EvidenceAddsUp
  <2> QED BY <2>2, <2>3 DEF EvidenceAddsUp
<1>2. ASSUME NEW d \in Descriptors, NEW p \in Predictions[d], Admit(d, p)
      PROVE  EvidenceAddsUp'
  <2>1. Entries' = Entries \cup {reservation_counter} /\ reservation_counter \notin Entries
    BY <1>2, AdmitEffect, AdmitFacts DEF Entries
  <2>2. Cardinality(Entries') = Cardinality(Entries) + 1
    BY <2>1, EntriesFinite, FS_AddElement
  <2> DEFINE c == Cardinality(Entries')
  <2>3. metrics' = [metrics EXCEPT !.evaluations = @ + 1, !.admissions = @ + 1,
                                   !.active_reservations = c]
    BY <1>2 DEF Admit
  <2> HIDE DEF c
  <2>4. /\ metrics'.evaluations = metrics.evaluations + 1
        /\ metrics'.admissions = metrics.admissions + 1
        /\ metrics'.deferrals = metrics.deferrals /\ metrics'.rejections = metrics.rejections
    BY <1>0, <2>3 DEF Counters
  <2>5. /\ metrics.evaluations \in Nat /\ metrics.admissions \in Nat
        /\ metrics.deferrals \in Nat /\ metrics.rejections \in Nat
    BY <1>0 DEF Counters
  <2> QED BY <2>2, <2>4, <2>5 DEF EvidenceAddsUp
<1>3. ASSUME NEW q \in RequestId, NEW g \in 0 .. IdMax, CommitAdmission(q, g)
      PROVE  EvidenceAddsUp'
  <2>1. UNCHANGED metrics
    BY <1>3 DEF CommitAdmission
  <2> QED BY <1>3, <2>1, CommitAdmissionEffect, EvidenceKept
<1>4. ASSUME NEW q \in RequestId, NEW g \in 0 .. IdMax, CommitAdmissionTooLate(q, g)
      PROVE  EvidenceAddsUp'
  <2> DEFINE r == requests[q].decision.reservation
  <2>1. /\ r \in ReservationId /\ reservations[r].status = "Reserved"
        /\ FreeReserved(r, "Expired") /\ UNCHANGED metrics
    BY <1>4, NamedReservation DEF CommitAdmissionTooLate, PastTtl
  <2> QED BY <2>1, FreeReservedEffect, EvidenceKept
<1>5. ASSUME NEW r \in ReservationId, ReleaseReservation(r)
      PROVE  EvidenceAddsUp'
  <2> DEFINE c == Cardinality(Entries)
  <2>1. metrics' = [metrics EXCEPT !.active_reservations = c]
    BY <1>5 DEF ReleaseReservation
  <2> HIDE DEF c
  <2>2. \A m \in Counters \ {"active_reservations"} : metrics'[m] = metrics[m]
    BY <1>0, <2>1
  <2> QED BY <1>5, <2>2, ReleaseEffect, EvidenceKept
<1>6. ASSUME NEW q \in RequestId, CancelPending(q) \/ CancelReserved(q)
      PROVE  EvidenceAddsUp'
  <2> DEFINE r == requests[q].decision.reservation
  <2>1. UNCHANGED metrics
    BY <1>6 DEF CancelPending, CancelReserved
  <2>2. \A o \in ReservationId : reservations'[o].status = "Absent" <=> reservations[o].status = "Absent"
    <3>1. CASE r = None
      <4>1. r \notin ReservationId
        BY <3>1, EngineAssumption DEF None
      <4> QED BY <1>6, <4>1, CancelEffect
    <3>2. CASE r # None
      BY <1>6, <3>2, CancelEffect
    <3> QED BY <3>1, <3>2
  <2> QED BY <2>1, <2>2, EvidenceKept
<1>7. CASE Input \/ UNCHANGED engineVars
  <2>1. UNCHANGED metrics
    BY <1>7
    DEF Input, InstallPolicy, SetSnapshot, SetQuota, NoteAdmission, ClockStep, Clock, engineVars
  <2> QED BY <1>7, <2>1, QuietStep, EvidenceKept
<1> QED
  BY <1>1, <1>2, <1>3, <1>4, <1>5, <1>6, <1>7, StepCases

\* The evidence counters account for every evaluation once, and for every entry
\* of the reservation table by one admission (EvidenceAddsUp).
THEOREM EvidenceAddsUpHolds == EngineSpec => []EvidenceAddsUp
<1>1. EngineInit => EvidenceAddsUp
  <2> SUFFICES ASSUME EngineInit PROVE EvidenceAddsUp
    OBVIOUS
  <2>1. Entries = {}
    BY DEF EngineInit, RMInit, Entries, NoReservation
  <2> QED BY <2>1, FS_EmptySet DEF EngineInit, EvidenceAddsUp
<1> QED
  BY <1>1, EvidenceStep, EngineTypeCorrect, PTL DEF EngineSpec

-----------------------------------------------------------------------------
(* Clients that submit every request id once.  Then no decision that names a *)
(* reservation is ever overwritten, and the lifecycle tells what is held.    *)

Undecided == {"Absent", "Proposed", "Evaluating", "Deferred", "Rejected"}
Holding   == {"Reserved", "Admitted"}

Settled(q) ==
  /\ requests[q].lifecycle # "Expired"
  /\ requests[q].lifecycle \in Undecided => requests[q].decision.reservation = None
  /\ requests[q].lifecycle = "Cancelled" /\ requests[q].decision.reservation # None =>
       reservations[requests[q].decision.reservation].status \notin Live

OnceInv == NoOrphan /\ \A q \in RequestId : Settled(q)

\* The steps of the engine, with the evaluations of new requests only.
LEMMA OnceCases ==
  ASSUME EngineTypeOK, [OnceNext]_engineVars
  PROVE  \/ \E d \in Descriptors : requests[d.id].lifecycle = "Absent" /\ Refused(d)
         \/ \E d \in Descriptors : \E p \in Predictions[d] :
              requests[d.id].lifecycle = "Absent" /\ Admit(d, p)
         \/ \E q \in RequestId, g \in 0 .. IdMax : CommitAdmission(q, g)
         \/ \E q \in RequestId, g \in 0 .. IdMax : CommitAdmissionTooLate(q, g)
         \/ \E r \in ReservationId : ReleaseReservation(r)
         \/ \E q \in RequestId : CancelPending(q) \/ CancelReserved(q)
         \/ Input
         \/ UNCHANGED engineVars
BY EvaluateExits DEF OnceNext, Transition, Input

LEMMA OnceIsEngine == OnceNext => EngineNext
BY DEF OnceNext, EngineNext

\* Every live reservation has the holding request NoOrphan asks for.
Held(r) ==
  reservations[r].status \in Live =>
    \E q \in RequestId : Names(q, r) /\ requests[q].lifecycle \in Holding

LEMMA OnceByPart ==
  OnceInv <=> (\A r \in ReservationId : Held(r)) /\ (\A q \in RequestId : Settled(q))
BY DEF OnceInv, NoOrphan, Held, Holding

LEMMA OnceByPartNext ==
  OnceInv' <=> (\A r \in ReservationId : Held(r)') /\ (\A q \in RequestId : Settled(q)')
BY DEF OnceInv, NoOrphan, Held, Holding

LEMMA OnceStep ==
  ASSUME EngineTypeOK, OwnershipInv, OnceInv, [OnceNext]_engineVars
  PROVE  OnceInv'
<1>1. \A q \in RequestId : Owns(q) /\ Backed(q)
  BY OwnershipByRequest
<1>2. \A q \in RequestId :
        requests[q].decision.reservation # None =>
          requests[q].decision.reservation \in ReservationId
  BY NamedReservation
<1>3. (\A r \in ReservationId : Held(r)) /\ (\A q \in RequestId : Settled(q))
  BY OnceByPart
<1>4. \A r \in ReservationId : r # None
  BY EngineAssumption, PolicyAssumption DEF None
<1> SUFFICES ASSUME NEW q \in RequestId, NEW r \in ReservationId
             PROVE  Held(r)' /\ Settled(q)'
  <2>1. RequestId # {} /\ 1 \in ReservationId
    BY EngineAssumption, PolicyAssumption
  <2> QED
    BY <2>1, OnceByPartNext
<1>5. ASSUME NEW d \in Descriptors, requests[d.id].lifecycle = "Absent", Refused(d)
      PROVE  Held(r)' /\ Settled(q)'
  <2>1. /\ d.id \in RequestId
        /\ requests'[d.id].decision.reservation = None
        /\ requests'[d.id].lifecycle \in {requests[d.id].lifecycle, "Rejected", "Deferred"}
        /\ \A o \in RequestId \ {d.id} : requests'[o] = requests[o]
        /\ UNCHANGED reservations
    BY <1>5, RefusedEffect DEF tableVars
  <2>2. Settled(q)'
    BY <1>3, <1>5, <2>1 DEF Settled, Undecided
  <2>3. Held(r)'
    BY <1>3, <1>5, <2>1 DEF Held, Holding, Names
  <2> QED
    BY <2>2, <2>3
<1>6. ASSUME NEW d \in Descriptors, NEW p \in Predictions[d],
             requests[d.id].lifecycle = "Absent", Admit(d, p)
      PROVE  Held(r)' /\ Settled(q)'
  <2> DEFINE n == reservation_counter
  <2>1. n \in ReservationId /\ reservations[n].status = "Absent"
    BY <1>6, AdmitFacts
  <2>2. /\ d.id \in RequestId
        /\ requests'[d.id].decision.reservation = n
        /\ requests'[d.id].lifecycle = "Reserved"
        /\ \A o \in RequestId \ {d.id} : requests'[o] = requests[o]
        /\ reservations'[n].status = "Reserved"
        /\ \A o \in ReservationId \ {n} : reservations'[o] = reservations[o]
    BY <1>6, AdmitEffect
  <2>3. \A o \in RequestId :
          requests[o].decision.reservation # None =>
            requests[o].decision.reservation \in ReservationId \ {n}
    BY <1>1, <1>2, <2>1 DEF Owns
  <2> HIDE DEF n
  <2>4. Settled(q)'
    BY <1>3, <2>2, <2>3 DEF Settled, Undecided
  <2>5. Held(r)'
    <3>1. CASE r = n
      BY <2>2, <3>1 DEF Held, Holding, Names
    <3>2. CASE r # n
      BY <1>3, <1>6, <2>2, <3>2 DEF Held, Holding, Names
    <3> QED
      BY <3>1, <3>2
  <2> QED
    BY <2>4, <2>5
<1>7. ASSUME NEW o \in RequestId, NEW g \in 0 .. IdMax, CommitAdmission(o, g)
      PROVE  Held(r)' /\ Settled(q)'
  <2> DEFINE n == requests[o].decision.reservation
  <2>1. /\ n \in ReservationId /\ n # None
        /\ reservations[n].status = "Reserved" /\ reservations'[n].status = "Committed"
        /\ \A i \in ReservationId \ {n} : reservations'[i] = reservations[i]
        /\ requests'[o].lifecycle = "Admitted" /\ requests'[o].decision = requests[o].decision
        /\ \A i \in RequestId \ {o} : requests'[i] = requests[i]
    BY <1>7, CommitAdmissionEffect
  <2>2. Settled(q)'
    <3>1. CASE q = o
      BY <2>1, <3>1 DEF Settled, Undecided
    <3>2. CASE q # o
      BY <1>1, <1>2, <1>3, <2>1, <3>2 DEF Settled, Undecided, Owns
    <3> QED
      BY <3>1, <3>2
  <2>3. Held(r)'
    <3>1. CASE r = n
      BY <2>1, <3>1 DEF Held, Holding, Names
    <3>2. CASE r # n
      <4>1. \A i \in RequestId : Names(i, r) => i # o
        BY <3>2 DEF Names
      <4> QED
        BY <1>3, <2>1, <3>2, <4>1 DEF Held, Holding, Names
    <3> QED
      BY <3>1, <3>2
  <2> QED
    BY <2>2, <2>3
<1>8. ASSUME NEW o \in RequestId, NEW g \in 0 .. IdMax, CommitAdmissionTooLate(o, g)
      PROVE  Held(r)' /\ Settled(q)'
  <2> DEFINE n == requests[o].decision.reservation
  <2>1. n \in ReservationId /\ FreeReserved(n, "Expired") /\ UNCHANGED requests
    BY <1>8, NamedReservation DEF CommitAdmissionTooLate
  <2>2. /\ reservations'[n].status = "Expired"
        /\ \A i \in ReservationId \ {n} : reservations'[i] = reservations[i]
    BY <2>1, FreeReservedEffect
  <2> HIDE DEF n
  <2> QED
    BY <1>2, <1>3, <2>1, <2>2 DEF Held, Settled, Names, Live
<1>9. ASSUME NEW n \in ReservationId, ReleaseReservation(n)
      PROVE  Held(r)' /\ Settled(q)'
  <2>1. /\ \A o \in ReservationId \ {n} : reservations'[o] = reservations[o]
        /\ reservations'[n].status \in {"Released", "RolledBack"}
    BY <1>9, ReleaseEffect
  <2>2. \A o \in RequestId :
          /\ requests'[o].decision = requests[o].decision
          /\ requests'[o].lifecycle =
               IF Names(o, n) /\ requests[o].lifecycle \in {"Reserved", "Admitted"}
               THEN "Released" ELSE requests[o].lifecycle
    BY <1>9, ReleaseEffect
  <2>3. Settled(q)'
    BY <1>2, <1>3, <2>1, <2>2 DEF Settled, Undecided, Live
  <2>4. Held(r)'
    BY <1>3, <2>1, <2>2 DEF Held, Holding, Names, Live
  <2> QED
    BY <2>3, <2>4
<1>10. ASSUME NEW o \in RequestId, CancelPending(o) \/ CancelReserved(o)
       PROVE  Held(r)' /\ Settled(q)'
  <2> DEFINE n == requests[o].decision.reservation
  <2>1. /\ requests[o].lifecycle \in {"Proposed", "Evaluating", "Deferred", "Reserved"}
        /\ requests'[o].lifecycle = "Cancelled" /\ requests'[o].decision = requests[o].decision
        /\ \A i \in RequestId \ {o} : requests'[i] = requests[i]
        /\ \A i \in ReservationId \ {n} : reservations'[i] = reservations[i]
        /\ n # None /\ reservations'[n] # reservations[n] => reservations'[n].status = "RolledBack"
        /\ n # None /\ reservations[n].status = "Reserved" /\ requests[o].lifecycle = "Reserved" =>
             reservations'[n].status = "RolledBack"
    BY <1>10, CancelEffect
  <2>2. n # None => requests[o].lifecycle = "Reserved" /\ reservations[n].status \in {"Reserved", "Expired"}
    BY <1>1, <1>3, <2>1 DEF Settled, Undecided, Backed
  <2>3. n # None => reservations'[n].status \notin Live
    BY <2>1, <2>2 DEF Live
  <2>4. Settled(q)'
    <3>1. CASE q = o
      BY <2>1, <2>3, <3>1 DEF Settled, Undecided
    <3>2. CASE q # o
      BY <1>1, <1>2, <1>3, <2>1, <3>2 DEF Settled, Undecided, Owns
    <3> QED
      BY <3>1, <3>2
  <2>5. Held(r)'
    <3>1. CASE r = n
      BY <1>4, <2>3, <3>1 DEF Held
    <3>2. CASE r # n
      <4>1. \A i \in RequestId : Names(i, r) => i # o
        BY <3>2 DEF Names
      <4> QED
        BY <1>3, <2>1, <3>2, <4>1 DEF Held, Holding, Names
    <3> QED
      BY <3>1, <3>2
  <2> QED
    BY <2>4, <2>5
<1>11. CASE Input \/ UNCHANGED engineVars
  BY <1>3, <1>11, QuietStep DEF Held, Settled, Names
<1> QED
  BY <1>5, <1>6, <1>7, <1>8, <1>9, <1>10, <1>11, OnceCases

LEMMA OnceInit == EngineInit => OnceInv
BY DEF EngineInit, RMInit, OnceInv, NoOrphan, Settled, Undecided, Live, NoRequest, NoDecision,
       NoReservation, None

\* The invariants of every client hold for the ones that submit each id once.
LEMMA OnceStrengthened == OnceSpec => [](EngineTypeOK /\ OwnershipInv /\ OnceInv)
<1>1. EngineInit => EngineTypeOK /\ OwnershipInv /\ OnceInv
  BY EngineInitTypeOK, OwnershipInit, OnceInit
<1>2. EngineTypeOK /\ OwnershipInv /\ OnceInv /\ [OnceNext]_engineVars
        => (EngineTypeOK /\ OwnershipInv /\ OnceInv)'
  BY OnceIsEngine, EngineTypeStep, OwnershipStep, OnceStep
<1> QED
  BY <1>1, <1>2, PTL DEF OnceSpec

\* With one submission per request id, no capacity is orphaned (NoOrphan):
\* every live reservation is held for a RESERVED or ADMITTED request.
THEOREM NoOrphanHolds == OnceSpec => []NoOrphan
<1>1. OnceInv => NoOrphan
  BY DEF OnceInv
<1> QED
  BY <1>1, OnceStrengthened, PTL

FinalStep(q) ==
  requests[q].lifecycle \in {"Released", "Rejected", "Expired", "Cancelled"} =>
    requests'[q].lifecycle = requests[q].lifecycle

\* A late commit finds no provisional reservation behind a terminal request.
LEMMA OnceFinal ==
  ASSUME EngineTypeOK, OwnershipInv, OnceInv, [OnceNext]_engineVars, NEW q \in RequestId
  PROVE  FinalStep(q)
<1>1. Owns(q) /\ Backed(q) /\ Settled(q)
  BY OwnershipByRequest, OnceByPart
<1>2. ASSUME NEW d \in Descriptors, requests[d.id].lifecycle = "Absent", Refused(d)
      PROVE  FinalStep(q)
  BY <1>2, RefusedEffect DEF FinalStep
<1>3. ASSUME NEW d \in Descriptors, NEW p \in Predictions[d],
             requests[d.id].lifecycle = "Absent", Admit(d, p)
      PROVE  FinalStep(q)
  BY <1>3, AdmitEffect DEF FinalStep
<1>4. ASSUME NEW o \in RequestId, NEW g \in 0 .. IdMax, CommitAdmission(o, g)
      PROVE  FinalStep(q)
  <2> DEFINE n == requests[o].decision.reservation
  <2>1. /\ n # None /\ reservations[n].status = "Reserved"
        /\ \A i \in RequestId \ {o} : requests'[i] = requests[i]
    BY <1>4, CommitAdmissionEffect
  <2>2. CASE q = o
    BY <1>1, <2>1, <2>2 DEF Settled, Backed, FinalStep, Undecided, Live
  <2>3. CASE q # o
    BY <2>1, <2>3 DEF FinalStep
  <2> QED
    BY <2>2, <2>3
<1>5. ASSUME NEW o \in RequestId, NEW g \in 0 .. IdMax, CommitAdmissionTooLate(o, g)
      PROVE  FinalStep(q)
  BY <1>5 DEF CommitAdmissionTooLate, FinalStep
<1>6. ASSUME NEW r \in ReservationId, ReleaseReservation(r)
      PROVE  FinalStep(q)
  BY <1>6, ReleaseEffect DEF FinalStep
<1>7. ASSUME NEW o \in RequestId, CancelPending(o) \/ CancelReserved(o)
      PROVE  FinalStep(q)
  BY <1>7, CancelEffect DEF FinalStep
<1>8. CASE Input \/ UNCHANGED engineVars
  BY <1>8, QuietStep DEF FinalStep
<1> QED
  BY <1>2, <1>3, <1>4, <1>5, <1>6, <1>7, <1>8, OnceCases

\* With one submission per request id, a terminal request never mutates
\* (TerminalFinal), although commit_admission does not look at the lifecycle.
THEOREM TerminalFinalHolds == OnceSpec => TerminalFinal
<1>1. EngineTypeOK /\ OwnershipInv /\ OnceInv /\ [OnceNext]_engineVars
        => [\A q \in RequestId :
              requests[q].lifecycle \in {"Released", "Rejected", "Expired", "Cancelled"} =>
                requests'[q].lifecycle = requests[q].lifecycle]_engineVars
  BY OnceFinal DEF FinalStep
<1> QED
  BY <1>1, OnceStrengthened, PTL DEF OnceSpec, TerminalFinal
================================================================================
