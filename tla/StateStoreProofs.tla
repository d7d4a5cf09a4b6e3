---------------------------- MODULE StateStoreProofs ----------------------------
(****************************************************************************)
(* Proofs about StateStore, for any number of crashes, requests and         *)
(* policies, and every word size.                                           *)
(*                                                                          *)
(* What an image must carry is what the engine's own invariants say of the  *)
(* tables it was copied from (SoundImage).  A save in progress holds a      *)
(* sound image, the temporary file is that image from the end of the write  *)
(* to the rename, so the state file is never anything but a sound image, and*)
(* an engine that loads it has its invariants back.                         *)
(****************************************************************************)
EXTENDS StateStore, AdmissionEngineProofs

\* Accounting and ownership, of the tables in an image.
OwnedImage(img) ==
  \A q \in RequestId :
    LET dec == img.requests[q].decision
        r   == img.reservations[dec.reservation]
    IN dec.reservation # None =>
         /\ r.status # "Absent"
         /\ \A o \in RequestId \ {q} : img.requests[o].decision.reservation # dec.reservation
         /\ img.requests[q].lifecycle = "Admitted" =>
              r.status = "Committed" /\ r.admission = <<q, dec.generation>>
         /\ img.requests[q].lifecycle = "Reserved" => r.status \in {"Reserved", "Expired"}
         /\ img.requests[q].lifecycle = "Released" => r.status = "Released"

SoundImage(img) == img \in Image /\ Balanced(img) /\ OwnedImage(img)

EngineSound == EngineTypeOK /\ Accounting /\ OwnershipInv

StoreSound ==
  /\ file # NoImage => SoundImage(file)
  /\ temp \in Image \cup {NoImage, Torn}
  /\ saving.step \in Steps
  /\ saving.step = "idle" => saving.payload = NoImage
  /\ saving.step # "idle" => SoundImage(saving.payload)
  /\ saving.step = "rename" => temp = saving.payload
  /\ crashes \in 0 .. MaxCrashes

RecoveryInv == EngineSound /\ StoreSound

\* The engine's tables and an image of the same tables say the same.
LEMMA SavedIsSound ==
  ASSUME EngineSound
  PROVE  SoundImage(SaveState)
<1>1. SaveState \in Image
  BY DEF EngineSound, EngineTypeOK, RMTypeOK, PolicyTypeOK, SaveState, Image
<1>2. Balanced(SaveState)
  BY DEF EngineSound, Accounting, Balanced, ImageSum, TableSum, Having, SaveState
<1>3. OwnedImage(SaveState)
  BY DEF EngineSound, OwnershipInv, SoleOwner, BackedByCapacity, OwnedImage, SaveState
<1> QED BY <1>1, <1>2, <1>3 DEF SoundImage

\* A new engine.
LEMMA CrashSound ==
  ASSUME EngineTypeOK, Crash
  PROVE  EngineSound'
<1>1. RMTypeOK'
  <2>1. NoReservation \in Reservation
    BY ZeroVec, UMaxAssumption, ReservationAssumption DEF Word, Reservation, NoReservation, Status
  <2>2. 1 \in Word /\ "None" \in OvercommitMode
    BY UMaxAssumption, ReservationAssumption DEF Word, OvercommitMode
  <2> QED BY <2>1, <2>2, ZeroVec DEF Crash, EngineTypeOK, RMTypeOK
<1>2. PolicyTypeOK'
  BY PolicyAssumption DEF Crash, PolicyTypeOK, Installed, PolicyGen
<1>3. snapshot' \in Snapshot /\ quota' \in Quota
  BY ZeroVec DEF Crash, Snapshot, Quota, NoSnapshot, NoQuota, PressureLevel
<1>4. NoRequest \in Request
  BY PolicyAssumption DEF NoRequest, Request, NoDecision, Decision, ReasonCode, Lifecycle, None
<1>5. 1 \in 1 .. IdMax /\ 1 \in ReservationId
  BY PolicyAssumption, EngineAssumption
<1>6. metrics' \in [{"evaluations", "admissions", "deferrals", "rejections",
                     "active_reservations"} -> Nat]
  BY DEF Crash, EngineTypeOK
<1>7. EngineTypeOK'
  BY <1>1, <1>2, <1>3, <1>4, <1>5, <1>6 DEF Crash, EngineTypeOK
<1>8. Accounting'
  <2>1. /\ reserved_sum' = Zero /\ used_sum' = Zero
        /\ reservations' = [r \in ReservationId |-> NoReservation]
    BY DEF Crash
  <2> QED BY <2>1, EmptyAccountingNext
<1>9. OwnershipInv'
  BY DEF Crash, OwnershipInv, SoleOwner, BackedByCapacity, NoRequest, NoDecision, None
<1> QED BY <1>7, <1>8, <1>9 DEF EngineSound

\* The policies of an image, and the highest of their generations.
LEMMA RestoredPolicies ==
  ASSUME PolicyTypeOK, NEW img \in Image, RestorePolicies(img), Installed = {}
  PROVE  /\ PolicyTypeOK'
         /\ Generations(img) # {} => img.policies[Last(Generations(img))] \in Policies
<1>1. img.policies \in [PolicyGen -> Policies \cup {NoPolicy}]
  BY DEF Image
<1>2. Generations(img) # {} => Last(Generations(img)) \in Generations(img)
  BY LastIn, PolicyAssumption DEF Generations, PolicyGen
<1>3. Installed' = Generations(img)
  BY DEF RestorePolicies, Installed, Generations
<1>4. latest \notin Installed /\ latest = 0
  BY DEF PolicyTypeOK
<1>5. PolicyTypeOK'
  BY <1>1, <1>2, <1>3, <1>4, PolicyAssumption DEF RestorePolicies, PolicyTypeOK, Generations, PolicyGen
<1> QED BY <1>1, <1>2, <1>5 DEF Generations

\* An engine that has loaded a sound image is sound.
LEMMA LoadSound ==
  ASSUME EngineSound, SoundImage(file), LoadState
  PROVE  EngineSound'
<1> DEFINE img == file
<1>1. /\ PolicyTypeOK'
      /\ Generations(img) # {} => img.policies[Last(Generations(img))] \in Policies
  BY RestoredPolicies DEF LoadState, FreshTarget, EngineSound, EngineTypeOK, SoundImage
<1>2. mode' \in OvercommitMode /\ allowance' \in Vec
  <2>1. CASE Generations(img) = {}
    BY <2>1 DEF LoadState, RestoreEnvelope, SoundImage, Image
  <2>2. CASE Generations(img) # {}
    <3> DEFINE p == img.policies[Last(Generations(img))]
    <3>1. "overcommit" \in PolicyFields /\ "overcommit_allowance" \in PolicyFields
      BY DEF PolicyFields, Overridable
    <3>2. p.overcommit \in FieldType("overcommit")
          /\ p.overcommit_allowance \in FieldType("overcommit_allowance")
      BY <1>1, <2>2, <3>1, PolicyAssumption
    <3>3. p.overcommit \in OvercommitMode /\ p.overcommit_allowance \in Vec
      BY <3>2 DEF FieldType
    <3>4. mode' = p.overcommit /\ allowance' = AllowanceOf(p)
      BY <2>2 DEF LoadState, RestoreEnvelope
    <3> QED BY <3>3, <3>4, ZeroVec DEF AllowanceOf
  <2> QED BY <2>1, <2>2
<1>3. snapshot' \in Snapshot /\ total' \in Vec
  <2>1. file.snapshot \in Snapshot /\ snapshot \in Snapshot /\ total \in Vec
    BY DEF SoundImage, Image, EngineSound, EngineTypeOK, RMTypeOK
  <2>2. file.snapshot.total \in Vec /\ [snapshot EXCEPT !.present = FALSE] \in Snapshot
    BY <2>1 DEF Snapshot
  <2> QED BY <2>1, <2>2 DEF LoadState
<1>4. /\ reservations' = file.reservations /\ reserved_sum' = file.reserved_sum
      /\ used_sum' = file.used_sum /\ requests' = file.requests
  BY DEF LoadState, RestoreTable
<1>5. EngineTypeOK'
  <2>1. RMTypeOK'
    BY <1>2, <1>3, <1>4 DEF LoadState, SoundImage, Image, EngineSound, EngineTypeOK, RMTypeOK
  <2>2. /\ quota' \in Quota /\ requests' \in [RequestId -> Request]
        /\ admission_generation' \in 1 .. IdMax /\ reservation_counter' \in ReservationId
    BY <1>4 DEF LoadState, RestoreCounters, SoundImage, Image
  <2> QED BY <1>1, <1>3, <2>1, <2>2 DEF LoadState, EngineSound, EngineTypeOK
<1>6. Accounting'
  BY <1>4 DEF SoundImage, Balanced, ImageSum, Accounting, TableSum, Having
<1>7. OwnershipInv'
  BY <1>4 DEF SoundImage, OwnedImage, OwnershipInv, SoleOwner, BackedByCapacity
<1> QED BY <1>5, <1>6, <1>7 DEF EngineSound

\* A load that is refused leaves the policies behind, and nothing else.
LEMMA RefusedSound ==
  ASSUME EngineSound, SoundImage(file), LoadRefused
  PROVE  EngineSound'
<1>1. PolicyTypeOK'
  BY RestoredPolicies DEF LoadRefused, FreshTarget, EngineSound, EngineTypeOK, SoundImage
<1>2. EngineTypeOK'
  BY <1>1 DEF LoadRefused, EngineSound, EngineTypeOK, RMTypeOK, rmVars, inputVars, counterVars
<1>3. UNCHANGED <<tableVars, requests, reservations>>
  BY DEF LoadRefused, rmVars, tableVars
<1>4. Accounting'
  BY <1>3, QuietAccounting DEF EngineSound
<1>5. OwnershipInv'
  BY <1>3 DEF EngineSound, OwnershipInv, SoleOwner, BackedByCapacity
<1> QED BY <1>2, <1>4, <1>5 DEF EngineSound

LEMMA StutterSound ==
  ASSUME EngineSound, UNCHANGED engineVars
  PROVE  EngineSound'
<1>1. EngineTypeOK' /\ Accounting' /\ OwnershipInv'
  BY EngineTypeStep, EngineAccountingStep, OwnershipStep DEF EngineSound
<1> QED BY <1>1 DEF EngineSound

LEMMA RecoveryStep ==
  ASSUME RecoveryInv, [RecoveryNext]_recoveryVars
  PROVE  RecoveryInv'
<1> USE DEF RecoveryInv
<1>1. CASE EngineNext /\ UNCHANGED storeVars
  <2>1. EngineSound'
    BY <1>1, EngineTypeStep, EngineAccountingStep, OwnershipStep DEF EngineSound
  <2> QED BY <1>1, <2>1, ZenonT(60) DEF StoreSound, storeVars, SoundImage, Balanced, ImageSum, OwnedImage
<1>2. CASE BuildPayload
  BY <1>2, SavedIsSound, StutterSound DEF BuildPayload, StoreSound, Steps
<1>3. CASE OpenTemp
  BY <1>3, StutterSound DEF OpenTemp, StoreSound, Steps
<1>4. CASE WriteTemp
  BY <1>4, StutterSound DEF WriteTemp, StoreSound, Steps, SoundImage
<1>5. CASE AtomicReplace
  BY <1>5, StutterSound DEF AtomicReplace, StoreSound, Steps, NotSaving
<1>6. CASE SaveFails
  BY <1>6, StutterSound DEF SaveFails, StoreSound, Steps, NotSaving
<1>7. CASE LoadState
  <2>1. SoundImage(file) /\ UNCHANGED storeVars
    BY <1>7 DEF LoadState, Readable, StoreSound
  <2> QED BY <1>7, <2>1, LoadSound DEF StoreSound, storeVars
<1>8. CASE LoadRefused
  <2>1. SoundImage(file) /\ UNCHANGED storeVars
    BY <1>8 DEF LoadRefused, Readable, StoreSound
  <2> QED BY <1>8, <2>1, RefusedSound DEF StoreSound, storeVars
<1>9. CASE Crash
  <2>1. EngineSound'
    BY <1>9, CrashSound DEF EngineSound
  <2>2. StoreSound'
    BY <1>9, StoreAssumption DEF Crash, StoreSound, NotSaving, Steps
  <2> QED BY <2>1, <2>2
<1>10. CASE UNCHANGED recoveryVars
  BY <1>10, StutterSound DEF recoveryVars, storeVars, StoreSound
<1> QED
  BY <1>1, <1>2, <1>3, <1>4, <1>5, <1>6, <1>7, <1>8, <1>9, <1>10 DEF RecoveryNext

LEMMA RecoveryStart == RecoveryInit => RecoveryInv
<1> SUFFICES ASSUME RecoveryInit PROVE RecoveryInv
  OBVIOUS
<1>1. EngineSound
  BY EngineInitTypeOK, OwnershipInit, InitAccounting DEF RecoveryInit, EngineInit, EngineSound
<1>2. StoreSound
  BY StoreAssumption DEF RecoveryInit, StoreSound, NotSaving, Steps
<1> QED BY <1>1, <1>2 DEF RecoveryInv

LEMMA RecoveryInvariant == RecoverySpec => []RecoveryInv
BY RecoveryStart, RecoveryStep, PTL DEF RecoverySpec

\* The types of the engine, of the files and of the save in progress, through
\* crashes, failed saves and loads.
THEOREM RecoveryTypeCorrect == RecoverySpec => []RecoveryTypeOK
<1>1. RecoveryInv => RecoveryTypeOK
  BY DEF RecoveryInv, EngineSound, StoreSound, SoundImage, RecoveryTypeOK
<1> QED BY <1>1, RecoveryInvariant, PTL

\* Wherever the process dies, the state file is absent or a whole image whose
\* totals agree with its table.
THEOREM FileIntactHolds == RecoverySpec => []FileIntact
<1>1. RecoveryInv => FileIntact
  BY StoreAssumption DEF RecoveryInv, StoreSound, SoundImage, FileIntact
<1> QED BY <1>1, RecoveryInvariant, PTL

\* An engine that crashes and recovers, any number of times, has books that
\* balance (Accounting).
THEOREM RecoveryAccountingHolds == RecoverySpec => []Accounting
<1>1. RecoveryInv => Accounting
  BY DEF RecoveryInv, EngineSound
<1> QED BY <1>1, RecoveryInvariant, PTL

\* Recovery never makes one reservation back two requests (SoleOwner).
THEOREM RecoverySoleOwnerHolds == RecoverySpec => []SoleOwner
<1>1. RecoveryInv => SoleOwner
  BY DEF RecoveryInv, EngineSound, OwnershipInv
<1> QED BY <1>1, RecoveryInvariant, PTL

\* Nor does it part a request's lifecycle from the state of its reservation
\* (BackedByCapacity).
THEOREM RecoveryBackedHolds == RecoverySpec => []BackedByCapacity
<1>1. RecoveryInv => BackedByCapacity
  BY DEF RecoveryInv, EngineSound, OwnershipInv
<1> QED BY <1>1, RecoveryInvariant, PTL

-----------------------------------------------------------------------------
(* The identity counters.  Every evaluation spends at most one value of each *)
(* counter, so a counter is never above the evaluations of this process, all *)
(* that earlier ones may have made, and one; as long as that many values     *)
(* exist, nothing wraps, and the order of the counters survives a crash.     *)

Spent == 1 + crashes * MaxEvaluations + metrics.evaluations

\* CountersAhead, of the tables and the counters in an image, which have not
\* counted beyond n.
AheadImage(img, n) ==
  /\ img.reservation_counter <= n /\ img.admission_generation <= n
  /\ \A r \in ReservationId : img.reservations[r].status # "Absent" => r < img.reservation_counter
  /\ \A q \in RequestId : img.requests[q].decision.generation < img.admission_generation

CountersInv ==
  /\ metrics.evaluations <= MaxEvaluations
  /\ reservation_counter <= Spent /\ admission_generation <= Spent
  /\ CountersAhead
  /\ file # NoImage => AheadImage(file, Spent)
  /\ saving.step # "idle" => AheadImage(saving.payload, Spent)

\* There are more identities than evaluations.
Enough == (MaxCrashes + 1) * MaxEvaluations < IdMax

LEMMA Budget ==
  ASSUME NEW c \in 0 .. MaxCrashes, NEW n \in 0 .. MaxEvaluations
  PROVE  /\ c * MaxEvaluations \in Nat /\ (c + 1) * MaxEvaluations \in Nat
         /\ (c + 1) * MaxEvaluations = c * MaxEvaluations + MaxEvaluations
         /\ (c + 1) * MaxEvaluations <= (MaxCrashes + 1) * MaxEvaluations
         /\ 1 + c * MaxEvaluations + n \in Nat
<1>1. MaxCrashes \in Nat /\ MaxEvaluations \in Nat /\ c \in Nat /\ n \in Nat
  BY StoreAssumption, EngineAssumption
<1>2. ASSUME NEW a \in Nat, NEW b \in Nat, NEW m \in Nat, a <= b
      PROVE  /\ a * m \in Nat /\ (a + 1) * m = a * m + m
             /\ a * m <= b * m
  <2>1. PICK k \in Nat : b = a + k
    <3>1. b - a \in Nat /\ b = a + (b - a)
      BY <1>2
    <3> QED
      BY <3>1
  <2>2. b * m = a * m + k * m /\ a * m \in Nat /\ k * m \in Nat
    BY <2>1
  <2>3. (a + 1) * m = a * m + m
    OBVIOUS
  <2> QED
    BY <2>2, <2>3
<1>3. c + 1 <= MaxCrashes + 1 /\ c + 1 \in Nat /\ MaxCrashes + 1 \in Nat
  BY <1>1
<1>4. c * MaxEvaluations \in Nat /\ (c + 1) * MaxEvaluations = c * MaxEvaluations + MaxEvaluations
  BY <1>1, <1>2
<1>5. (c + 1) * MaxEvaluations \in Nat
      /\ (c + 1) * MaxEvaluations <= (MaxCrashes + 1) * MaxEvaluations
  BY <1>1, <1>2, <1>3
<1> DEFINE x == c * MaxEvaluations
<1> HIDE DEF x
<1>6. x \in Nat => 1 + x + n \in Nat
  BY <1>1
<1> QED
  BY <1>4, <1>5, <1>6 DEF x

\* What a step of the engine does to the counters and to the identities and
\* generations in use.
EvaluationCounted ==
  /\ metrics.evaluations < MaxEvaluations
  /\ metrics'.evaluations = metrics.evaluations + 1

Spends ==
  /\ EvaluationCounted
  /\ reservation_counter' \in {reservation_counter, NextReservationCounter}
  /\ admission_generation' = admission_generation
  /\ Entries' = Entries
  /\ \A q \in RequestId :
       requests'[q].decision.generation \in {requests[q].decision.generation, 0}

Issues ==
  /\ EvaluationCounted
  /\ reservation_counter' = NextReservationCounter
  /\ admission_generation' = NextAdmissionGeneration
  /\ Entries' = Entries \cup {reservation_counter}
  /\ \A q \in RequestId :
       requests'[q].decision.generation \in {requests[q].decision.generation, admission_generation}

Keeps ==
  /\ UNCHANGED counterVars
  /\ metrics'.evaluations = metrics.evaluations
  /\ Entries' = Entries
  /\ \A q \in RequestId : requests'[q].decision.generation = requests[q].decision.generation

LEMMA RefusalSpends ==
  ASSUME EngineTypeOK, NEW d \in Descriptors, Evaluate(d), Refused(d)
  PROVE  Spends \/ \E p \in Predictions[d] : Admit(d, p)
<1>1. PICK to \in {"Rejected", "Deferred"}, reason \in Refusals,
           outcome \in {"rejections", "deferrals"} : Concluded(d, to, reason, outcome)
  BY DEF Refused
<1>2. \/ reservation_counter' \in {reservation_counter, NextReservationCounter}
      \/ \E p \in Predictions[d] : Admit(d, p)
  BY DEF Evaluate, RejectMalformed, RejectDuplicate, RejectPolicy, RejectCapability, RejectStale,
         DeferUnknown, RejectQuota, DeferQuota, RejectInfeasible, DeferSlo, DeferHeadroom,
         DeferFairness, DeferReservation, Reject, Defer
<1>3. admission_generation' = admission_generation /\ Entries' = Entries
  BY <1>1 DEF Concluded, Refuse, tableVars, Entries
<1>4. EvaluationCounted
  BY <1>1 DEF Evaluate, Concluded, Refuse, Count, EvaluationCounted, EngineTypeOK
<1>5. \A q \in RequestId :
        requests'[q].decision.generation \in {requests[q].decision.generation, 0}
  <2>1. Emit(d, to, Conclude(d, reason, None, 0)) /\ requests \in [RequestId -> Request]
    BY <1>1 DEF Concluded, Refuse, EngineTypeOK
  <2>2. Conclude(d, reason, None, 0).generation = 0
    BY DEF Conclude
  <2> QED
    BY <2>1, <2>2, EmitEffect
<1> QED
  BY <1>2, <1>3, <1>4, <1>5 DEF Spends

LEMMA AdmissionIssues ==
  ASSUME EngineTypeOK, NEW d \in Descriptors, metrics.evaluations < MaxEvaluations,
         NEW p \in Predictions[d], Admit(d, p)
  PROVE  Issues
<1>1. Entries' = Entries \cup {reservation_counter}
  BY AdmitEffect, AdmitFacts DEF Entries
<1>2. EvaluationCounted
  BY DEF Admit, EvaluationCounted, EngineTypeOK
<1>3. \A q \in RequestId :
        requests'[q].decision.generation \in {requests[q].decision.generation, admission_generation}
  <2> DEFINE dec == Conclude(d, AdmitReason(d, p), reservation_counter, admission_generation)
  <2>1. Emit(d, "Reserved", dec) /\ requests \in [RequestId -> Request]
    BY DEF Admit, EngineTypeOK
  <2>2. dec.generation = admission_generation
    BY DEF Conclude
  <2> QED
    BY <2>1, <2>2, EmitEffect
<1> QED
  BY <1>1, <1>2, <1>3 DEF Issues, Admit

LEMMA TransitionKeeps ==
  ASSUME EngineTypeOK, Transition \/ UNCHANGED engineVars
  PROVE  Keeps
<1> USE DEF Keeps
<1>1. ASSUME NEW q \in RequestId, NEW g \in 0 .. IdMax, CommitAdmission(q, g)
      PROVE  Keeps
  <2> DEFINE r == requests[q].decision.reservation
  <2>1. /\ r \in ReservationId
        /\ reservations[r].status = "Reserved" /\ reservations'[r].status = "Committed"
        /\ \A o \in ReservationId \ {r} : reservations'[o] = reservations[o]
        /\ \A o \in RequestId : requests'[o].decision = requests[o].decision
    BY <1>1, CommitAdmissionEffect
  <2>2. Entries' = Entries
    BY <2>1 DEF Entries
  <2> QED
    BY <1>1, <2>1, <2>2 DEF CommitAdmission
<1>2. ASSUME NEW q \in RequestId, NEW g \in 0 .. IdMax, CommitAdmissionTooLate(q, g)
      PROVE  Keeps
  <2> DEFINE r == requests[q].decision.reservation
  <2>1. r \in ReservationId /\ FreeReserved(r, "Expired") /\ reservations[r].status = "Reserved"
    BY <1>2, NamedReservation DEF CommitAdmissionTooLate, PastTtl
  <2>2. Entries' = Entries
    BY <2>1, FreeReservedEffect DEF Entries
  <2> QED
    BY <1>2, <2>2 DEF CommitAdmissionTooLate
<1>3. ASSUME NEW r \in ReservationId, ReleaseReservation(r)
      PROVE  Keeps
  <2>1. Entries' = Entries
    BY <1>3, ReleaseEffect DEF Entries
  <2>2. metrics'.evaluations = metrics.evaluations /\ UNCHANGED counterVars
    BY <1>3 DEF ReleaseReservation, EngineTypeOK
  <2> QED
    BY <1>3, <2>1, <2>2, ReleaseEffect
<1>4. ASSUME NEW q \in RequestId, CancelPending(q) \/ CancelReserved(q)
      PROVE  Keeps
  <2> DEFINE r == requests[q].decision.reservation
  <2>1. \A o \in ReservationId :
          reservations'[o] = reservations[o] \/ (reservations[o].status # "Absent"
                                                 /\ reservations'[o].status # "Absent")
    <3> TAKE o \in ReservationId
    <3>1. o # None
      BY EngineAssumption, PolicyAssumption DEF None
    <3> QED
      BY <1>4, <3>1, CancelEffect
  <2>2. Entries' = Entries
    BY <2>1 DEF Entries
  <2>3. \A o \in RequestId : requests'[o].decision = requests[o].decision
    BY <1>4, CancelEffect
  <2> QED
    BY <1>4, <2>2, <2>3 DEF CancelPending, CancelReserved
<1>5. CASE Input \/ UNCHANGED engineVars
  <2>1. UNCHANGED <<counterVars, metrics>>
    BY <1>5 DEF Input, InstallPolicy, SetSnapshot, SetQuota, NoteAdmission, ClockStep, engineVars
  <2> QED
    BY <1>5, <2>1, QuietStep DEF Entries
<1> QED
  BY <1>1, <1>2, <1>3, <1>4, <1>5 DEF Transition, Input

LEMMA EngineSpends ==
  ASSUME EngineTypeOK, [EngineNext]_engineVars
  PROVE  Spends \/ Issues \/ Keeps
<1>1. ASSUME NEW d \in Descriptors, Evaluate(d)
      PROVE  Spends \/ Issues
  BY <1>1, EvaluateExits, RefusalSpends, AdmissionIssues DEF Evaluate
<1> QED
  BY <1>1, TransitionKeeps DEF EngineNext

\* A number below the next value of a counter that has not reached its end.
LEMMA CounterAdvance ==
  ASSUME EngineTypeOK, reservation_counter < IdMax, admission_generation < IdMax
  PROVE  /\ NextReservationCounter = reservation_counter + 1
         /\ NextAdmissionGeneration = admission_generation + 1
BY EngineAssumption, PolicyAssumption
DEF EngineTypeOK, NextReservationCounter, NextAdmissionGeneration

\* Numbers in use are integers, so that they can be compared.
LEMMA InUseType ==
  ASSUME EngineTypeOK
  PROVE  /\ \A r \in ReservationId : r \in Nat
         /\ \A q \in RequestId : requests[q].decision.generation \in Nat
         /\ reservation_counter \in Nat /\ admission_generation \in Nat
         /\ admission_generation > 0
         /\ metrics.evaluations \in Nat
BY EngineAssumption, PolicyAssumption DEF EngineTypeOK, Request, Decision

\* The order of the counters through a step of the engine.
LEMMA AheadStep ==
  ASSUME EngineTypeOK, EngineTypeOK', CountersAhead, [EngineNext]_engineVars,
         EvaluationCounted => reservation_counter < IdMax /\ admission_generation < IdMax
  PROVE  /\ CountersAhead'
         /\ \/ EvaluationCounted
            \/ metrics'.evaluations = metrics.evaluations /\ UNCHANGED counterVars
         /\ reservation_counter' \in {reservation_counter, reservation_counter + 1}
         /\ admission_generation' \in {admission_generation, admission_generation + 1}
<1> USE InUseType DEF CountersAhead
<1>1. CASE Spends
  <2>1. /\ EvaluationCounted /\ Entries' = Entries
        /\ reservation_counter' \in {reservation_counter, reservation_counter + 1}
        /\ admission_generation' = admission_generation
    BY <1>1, CounterAdvance DEF Spends
  <2>2. \A r \in Entries' : r < reservation_counter'
    BY <2>1 DEF Entries
  <2>3. \A q \in RequestId : requests'[q].decision.generation < admission_generation'
    BY <1>1, <2>1 DEF Spends
  <2> QED
    BY <2>1, <2>2, <2>3
<1>2. CASE Issues
  <2>1. /\ EvaluationCounted /\ Entries' = Entries \cup {reservation_counter}
        /\ reservation_counter' = reservation_counter + 1
        /\ admission_generation' = admission_generation + 1
    BY <1>2, CounterAdvance DEF Issues
  <2>2. \A r \in Entries' : r < reservation_counter'
    BY <2>1 DEF Entries
  <2>3. \A q \in RequestId : requests'[q].decision.generation < admission_generation'
    BY <1>2, <2>1 DEF Issues
  <2> QED
    BY <2>1, <2>2, <2>3
<1>3. CASE Keeps
  BY <1>3 DEF Keeps, counterVars
<1> QED
  BY <1>1, <1>2, <1>3, EngineSpends

\* An image stays ahead when the budget grows.
LEMMA ImageKept ==
  ASSUME NEW img \in Image, NEW m \in Nat, NEW n \in Nat, m <= n, AheadImage(img, m)
  PROVE  AheadImage(img, n)
<1>1. img.reservation_counter \in Nat /\ img.admission_generation \in Nat
  BY EngineAssumption, PolicyAssumption DEF Image
<1> QED
  BY <1>1 DEF AheadImage

\* The store's images through a step that leaves the file and the save alone.
LEMMA ImagesKept ==
  ASSUME RecoveryInv, CountersInv, Spent \in Nat, Spent' \in Nat, Spent <= Spent',
         UNCHANGED <<file, saving>>
  PROVE  /\ file' # NoImage => AheadImage(file', Spent')
         /\ saving'.step # "idle" => AheadImage(saving'.payload, Spent')
BY ImageKept DEF RecoveryInv, StoreSound, SoundImage, CountersInv

LEMMA CountersStep ==
  ASSUME Enough, RecoveryInv, CountersInv, [RecoveryNext]_recoveryVars
  PROVE  CountersInv'
<1> DEFINE before == crashes * MaxEvaluations
<1>0. RecoveryInv'
  BY RecoveryStep
<1>1. /\ EngineTypeOK /\ EngineTypeOK' /\ crashes \in 0 .. MaxCrashes /\ crashes' \in 0 .. MaxCrashes
      /\ metrics.evaluations \in 0 .. MaxEvaluations
      /\ MaxEvaluations \in Nat
  BY <1>0, InUseType, EngineAssumption
  DEF RecoveryInv, EngineSound, StoreSound, CountersInv
<1>2. /\ Spent = 1 + before + metrics.evaluations /\ Spent \in Nat
      /\ before \in Nat /\ before + MaxEvaluations < IdMax
      /\ (crashes + 1) * MaxEvaluations = before + MaxEvaluations
  <2>1. /\ before \in Nat /\ (crashes + 1) * MaxEvaluations = before + MaxEvaluations
        /\ (crashes + 1) * MaxEvaluations <= (MaxCrashes + 1) * MaxEvaluations
        /\ (crashes + 1) * MaxEvaluations \in Nat
        /\ (MaxCrashes + 1) * MaxEvaluations \in Nat
        /\ Spent \in Nat
    BY <1>1, Budget, StoreAssumption DEF Spent
  <2>2. Spent = 1 + before + metrics.evaluations
    BY DEF Spent
  <2>3. before + MaxEvaluations < IdMax
    <3> DEFINE all == (MaxCrashes + 1) * MaxEvaluations
    <3>1. all \in Nat /\ before + MaxEvaluations <= all /\ all < IdMax
      BY <2>1 DEF Enough
    <3> HIDE DEF all, before
    <3> QED
      BY <1>1, <2>1, <3>1, PolicyAssumption
  <2> QED
    BY <2>1, <2>2, <2>3
<1>3. ASSUME UNCHANGED <<crashes, metrics>>
      PROVE  Spent' = Spent
  BY <1>3 DEF Spent
<1> HIDE DEF before
<1>4. CASE EngineNext /\ UNCHANGED storeVars
  <2>1. EvaluationCounted => reservation_counter < IdMax /\ admission_generation < IdMax
    BY <1>1, <1>2, InUseType, PolicyAssumption DEF EvaluationCounted, CountersInv
  <2>2. /\ CountersAhead'
        /\ \/ EvaluationCounted
           \/ metrics'.evaluations = metrics.evaluations /\ UNCHANGED counterVars
        /\ reservation_counter' \in {reservation_counter, reservation_counter + 1}
        /\ admission_generation' \in {admission_generation, admission_generation + 1}
    BY <1>1, <1>4, <2>1, AheadStep DEF CountersInv
  <2>3. Spent' = 1 + before + metrics'.evaluations
    BY <1>4 DEF Spent, storeVars, before
  <2>4. Spent' \in Nat /\ Spent <= Spent'
    BY <1>1, <1>2, <2>2, <2>3 DEF EvaluationCounted
  <2>5. metrics'.evaluations <= MaxEvaluations
    BY <1>1, <2>2 DEF EvaluationCounted
  <2>6. reservation_counter' <= Spent' /\ admission_generation' <= Spent'
    BY <1>1, <1>2, <2>2, <2>3, InUseType DEF EvaluationCounted, CountersInv, counterVars
  <2>7. UNCHANGED <<file, saving>>
    BY <1>4 DEF storeVars
  <2> QED
    BY <1>2, <2>2, <2>4, <2>5, <2>6, <2>7, ImagesKept DEF CountersInv
<1>5. ASSUME UNCHANGED <<engineVars, crashes>>
      PROVE  /\ Spent' = Spent
             /\ metrics'.evaluations <= MaxEvaluations
             /\ reservation_counter' <= Spent' /\ admission_generation' <= Spent'
             /\ CountersAhead'
  BY <1>3, <1>5
  DEF engineVars, rmVars, counterVars, CountersInv, CountersAhead, Entries
<1>6. CASE BuildPayload
  <2>1. AheadImage(SaveState, Spent)
    BY DEF CountersInv, CountersAhead, Entries, AheadImage, SaveState
  <2> QED
    BY <1>5, <1>6, <2>1 DEF BuildPayload, CountersInv
<1>7. CASE OpenTemp
  BY <1>5, <1>7 DEF OpenTemp, CountersInv, RecoveryInv, StoreSound
<1>8. CASE WriteTemp
  BY <1>5, <1>8 DEF WriteTemp, CountersInv, RecoveryInv, StoreSound
<1>9. CASE AtomicReplace
  BY <1>5, <1>9 DEF AtomicReplace, CountersInv, RecoveryInv, StoreSound, NotSaving
<1>10. CASE SaveFails
  BY <1>5, <1>10 DEF SaveFails, CountersInv, NotSaving
<1>11. CASE LoadState
  <2>1. UNCHANGED <<metrics, file, saving, crashes>> /\ file # NoImage
    BY <1>11 DEF LoadState, storeVars, Readable
  <2>2. /\ reservations' = file.reservations /\ requests' = file.requests
        /\ reservation_counter' = file.reservation_counter
        /\ admission_generation' = file.admission_generation
    BY <1>11 DEF LoadState, RestoreTable, RestoreCounters
  <2>3. CountersAhead' /\ reservation_counter' <= Spent' /\ admission_generation' <= Spent'
    BY <1>3, <2>1, <2>2 DEF CountersInv, AheadImage, CountersAhead, Entries
  <2> QED
    BY <1>3, <2>1, <2>3 DEF CountersInv
<1>12. CASE LoadRefused
  <2>1. UNCHANGED <<metrics, file, saving, crashes, counterVars, requests, reservations>>
    BY <1>12 DEF LoadRefused, storeVars, rmVars
  <2> QED
    BY <1>3, <2>1 DEF CountersInv, CountersAhead, Entries, counterVars
<1>13. CASE Crash
  <2>1. /\ crashes' = crashes + 1 /\ metrics'.evaluations = 0
        /\ reservation_counter' = 1 /\ admission_generation' = 1
    BY <1>1, <1>13 DEF Crash, EngineTypeOK
  <2>2. Spent' = 1 + (crashes + 1) * MaxEvaluations + 0
    BY <2>1 DEF Spent
  <2>3. Spent' = 1 + before + MaxEvaluations
    BY <1>1, <1>2, <2>2
  <2>4. Spent' \in Nat /\ Spent <= Spent' /\ 1 <= Spent'
    BY <1>1, <1>2, <2>3
  <2>5. CountersAhead'
    BY <1>13, <2>1
    DEF Crash, CountersAhead, Entries, NoReservation, NoRequest, NoDecision
  <2>6. \A i \in {file} : i # NoImage => AheadImage(i, Spent')
    BY <1>2, <2>4, ImageKept DEF RecoveryInv, StoreSound, SoundImage, CountersInv
  <2> QED
    BY <1>1, <1>13, <2>1, <2>4, <2>5, <2>6 DEF Crash, CountersInv, NotSaving
<1>14. CASE UNCHANGED recoveryVars
  BY <1>5, <1>14 DEF recoveryVars, storeVars, CountersInv
<1> QED
  BY <1>4, <1>6, <1>7, <1>8, <1>9, <1>10, <1>11, <1>12, <1>13, <1>14 DEF RecoveryNext

\* While there are more identities than all the processes together can make
\* evaluations, the next reservation identity and admission generation are
\* above every one in use, through crashes, failed saves and recoveries
\* (CountersAhead): what restore_state reads back never lets an identity be
\* issued twice.
THEOREM CountersAheadHolds ==
  ASSUME (MaxCrashes + 1) * MaxEvaluations < IdMax
  PROVE  RecoverySpec => []CountersAhead
<1>1. Enough
  BY DEF Enough
<1>2. RecoveryInit => CountersInv
  <2> SUFFICES ASSUME RecoveryInit PROVE CountersInv
    OBVIOUS
  <2>1. crashes = 0 /\ metrics.evaluations = 0 /\ reservation_counter = 1 /\ admission_generation = 1
    BY DEF RecoveryInit, EngineInit
  <2>2. Spent = 1 /\ MaxEvaluations \in Nat
    BY <2>1, EngineAssumption DEF Spent
  <2>3. CountersAhead
    BY <2>1
    DEF RecoveryInit, EngineInit, RMInit, CountersAhead, Entries, NoReservation, NoRequest, NoDecision
  <2> QED
    BY <2>1, <2>2, <2>3 DEF RecoveryInit, CountersInv, NotSaving
<1>3. RecoveryInv /\ CountersInv /\ [RecoveryNext]_recoveryVars => CountersInv'
  BY <1>1, CountersStep
<1>4. CountersInv => CountersAhead
  BY DEF CountersInv
<1> QED
  BY <1>2, <1>3, <1>4, RecoveryInvariant, PTL DEF RecoverySpec
================================================================================
