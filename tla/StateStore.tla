------------------------------- MODULE StateStore -------------------------------
(****************************************************************************)
(* The state store (persistence.cpp) and the engine it saves and recovers   *)
(* (save_state and restore_state of engine.cpp, restore of reservation.hpp).*)
(*                                                                          *)
(* save copies the engine's state into a framed, checksummed buffer, writes *)
(* the buffer to a temporary file and renames it over the state file.  The  *)
(* process may die between any two of these steps, and the engine may move  *)
(* on while the buffer is being written.  What a process leaves in memory   *)
(* is lost with it; what it wrote to a file is not.                         *)
(*                                                                          *)
(* A file is an image of the engine, or Torn when its bytes are not what    *)
(* one save wrote (truncated, or cut short): parse_frame refuses those by   *)
(* length and checksum.  A load that is refused before it changes anything  *)
(* is a stuttering step.                                                    *)
(****************************************************************************)
EXTENDS AdmissionEngine

CONSTANTS
  NoImage,      \* the file does not exist
  Torn,         \* the file is not a whole frame
  MaxCrashes    \* bound on the deaths of the process

VARIABLES
  file,      \* cfg.path
  temp,      \* cfg.temp_path()
  saving,    \* the save in progress: its next step and its payload
  crashes    \* how often the process has died

storeVars    == <<file, temp, saving, crashes>>
recoveryVars == <<engineVars, storeVars>>

Steps == {"idle", "open", "write", "rename"}

NotSaving == [step |-> "idle", payload |-> NoImage]

\* What save_state writes.  The metrics, the fairness table, the policy
\* counter, the policy in force and the manager's generation are not part of it.
Image ==
  [policies : [PolicyGen -> Policies \cup {NoPolicy}],
   reservations : [ReservationId -> Reservation], reserved_sum : Vec, used_sum : Vec,
   mode : OvercommitMode, allowance : Vec,
   requests : [RequestId -> Request], quota : Quota,
   admission_generation : 1 .. IdMax, reservation_counter : ReservationId,
   snapshot : Snapshot]

ASSUME StoreAssumption ==
  MaxCrashes \in Nat /\ NoImage # Torn /\ NoImage \notin Image /\ Torn \notin Image

SaveState ==
  [policies |-> policies,
   reservations |-> reservations, reserved_sum |-> reserved_sum, used_sum |-> used_sum,
   mode |-> mode, allowance |-> allowance,
   requests |-> requests, quota |-> quota,
   admission_generation |-> admission_generation, reservation_counter |-> reservation_counter,
   snapshot |-> snapshot]

-----------------------------------------------------------------------------
(* save *)

BuildPayload ==
  /\ saving.step = "idle"
  /\ saving' = [step |-> "open", payload |-> SaveState]
  /\ UNCHANGED <<engineVars, file, temp, crashes>>

\* Mutant: the state file itself is opened for writing.
OpenTempInPlace ==
  /\ saving.step = "open"
  /\ file' = Torn
  /\ saving' = [saving EXCEPT !.step = "write"]
  /\ UNCHANGED <<engineVars, temp, crashes>>

\* Opening the temporary file cuts what an earlier attempt left in it.
OpenTemp ==
  /\ saving.step = "open"
  /\ temp' = Torn
  /\ saving' = [saving EXCEPT !.step = "write"]
  /\ UNCHANGED <<engineVars, file, crashes>>

\* write, flush and close succeed.
WriteTemp ==
  /\ saving.step = "write"
  /\ temp' = saving.payload
  /\ saving' = [saving EXCEPT !.step = "rename"]
  /\ UNCHANGED <<engineVars, file, crashes>>

AtomicReplace ==
  /\ saving.step = "rename"
  /\ file' = temp /\ temp' = NoImage
  /\ saving' = NotSaving
  /\ UNCHANGED <<engineVars, crashes>>

\* Any of the steps may report an I/O error; the temporary file stays behind.
SaveFails ==
  /\ saving.step # "idle"
  /\ saving' = NotSaving
  /\ UNCHANGED <<engineVars, file, temp, crashes>>

-----------------------------------------------------------------------------
(* load *)

ImageSum(img, s, d) ==
  SumOf(img.reservations, {r \in ReservationId : img.reservations[r].status = s}, d)

Balanced(img) ==
  \A d \in Resource :
    /\ img.reserved_sum[d] = ImageSum(img, "Reserved", d)
    /\ img.used_sum[d] = ImageSum(img, "Committed", d)

\* The checks that restore makes before it rebuilds the table.
Restorable(img) ==
  /\ \A r \in ReservationId :
       img.reservations[r].status \in Terminal => IsZero(img.reservations[r].demand)
  /\ Balanced(img)

\* load_payload finds a file, and a frame whose length and checksum are right.
Readable(f) == f \notin {NoImage, Torn}

Generations(img) == {g \in PolicyGen : img.policies[g] # NoPolicy}

\* The policies are installed in the order of their generations, so the
\* highest one ends up in force.  The counter keeps its initial value.
RestorePolicies(img) ==
  /\ policies' = img.policies
  /\ latest' = IF Generations(img) = {} THEN latest ELSE Last(Generations(img))
  /\ UNCHANGED policy_counter

\* The recovery target is a new engine.
FreshTarget ==
  /\ Installed = {} /\ Entries = {}
  /\ \A q \in RequestId : requests[q].lifecycle = "Absent"

\* The policies come before the table: when the table is refused they stay.
LoadRefused ==
  /\ FreshTarget
  /\ Readable(file) /\ ~Restorable(file)
  /\ RestorePolicies(file)
  /\ UNCHANGED <<rmVars, inputVars, counterVars, requests, metrics, storeVars>>

\* Mutant: the reservation table and its totals are not restored.
RestoreTableNever(img) ==
  UNCHANGED <<reservations, reserved_sum, used_sum>>

\* Mutant: the running totals are left to the next operations.
RestoreTableOnly(img) ==
  /\ reservations' = img.reservations
  /\ UNCHANGED <<reserved_sum, used_sum>>

RestoreTable(img) ==
  /\ reservations' = img.reservations
  /\ reserved_sum' = img.reserved_sum
  /\ used_sum' = img.used_sum

\* Mutant: the counters start again from their initial values.
RestoreCountersNever(img) == UNCHANGED counterVars

RestoreCounters(img) ==
  /\ admission_generation' = img.admission_generation
  /\ reservation_counter' = img.reservation_counter

\* The overcommit envelope is bound to the policy in force, if there is one.
RestoreEnvelope(img) ==
  LET p == img.policies[Last(Generations(img))]
  IN IF Generations(img) = {}
     THEN mode' = img.mode /\ allowance' = img.allowance
     ELSE mode' = p.overcommit /\ allowance' = AllowanceOf(p)

LoadState ==
  /\ FreshTarget
  /\ Readable(file) /\ Restorable(file)
  /\ RestorePolicies(file)
  /\ RestoreTable(file)
  /\ RestoreCounters(file)
  /\ RestoreEnvelope(file)
  /\ requests' = file.requests
  /\ quota' = file.quota
  /\ snapshot' = IF file.snapshot.present THEN file.snapshot ELSE [snapshot EXCEPT !.present = FALSE]
  /\ total' = IF file.snapshot.present THEN file.snapshot.total ELSE total
  /\ UNCHANGED <<generation, now, last_admit, metrics, storeVars>>

-----------------------------------------------------------------------------
\* The process dies, and a new one starts with a newly constructed engine.
Crash ==
  /\ crashes < MaxCrashes
  /\ crashes' = crashes + 1
  /\ saving' = NotSaving
  /\ total' = Zero /\ mode' = "None" /\ allowance' = Zero
  /\ reserved_sum' = Zero /\ used_sum' = Zero
  /\ reservations' = [r \in ReservationId |-> NoReservation]
  /\ generation' = 1
  /\ policies' = [g \in PolicyGen |-> NoPolicy] /\ latest' = 0 /\ policy_counter' = 1
  /\ snapshot' = NoSnapshot /\ quota' = NoQuota
  /\ requests' = [q \in RequestId |-> NoRequest]
  /\ admission_generation' = 1 /\ reservation_counter' = 1
  /\ metrics' = [m \in DOMAIN metrics |-> 0]
  /\ last_admit' = [t \in Tenant |-> Never]
  /\ UNCHANGED <<now, file, temp>>

RecoveryInit ==
  /\ EngineInit
  /\ file = NoImage /\ temp = NoImage
  /\ saving = NotSaving
  /\ crashes = 0

RecoveryNext ==
  \/ EngineNext /\ UNCHANGED storeVars
  \/ BuildPayload
  \/ OpenTemp
  \/ WriteTemp
  \/ AtomicReplace
  \/ SaveFails
  \/ LoadState
  \/ LoadRefused
  \/ Crash

RecoverySpec == RecoveryInit /\ [][RecoveryNext]_recoveryVars

-----------------------------------------------------------------------------
(* Properties *)

\* The engine and the store have their types; a file is absent, torn or an
\* image of a well-typed engine.
RecoveryTypeOK ==
  /\ EngineTypeOK
  /\ file \in Image \cup {NoImage, Torn} /\ temp \in Image \cup {NoImage, Torn}
  /\ saving.step \in Steps
  /\ saving.step = "idle" => saving.payload = NoImage
  /\ saving.step # "idle" => saving.payload \in Image
  /\ crashes \in 0 .. MaxCrashes

\* Whenever the process dies, also in the middle of a save or after a save
\* that failed, the state file is absent or a whole image, and the totals in
\* the image agree with the table in it: restore never refuses it as torn or
\* for an accounting mismatch.
FileIntact == file # Torn /\ (file # NoImage => Balanced(file))

\* As long as the 64-bit counters have not wrapped or saturated, the next
\* reservation identity and the next admission generation are above every one
\* in use, also after a recovery: a fresh value never collides with one that
\* a decision or the table still carries.
CountersAhead ==
  /\ \A r \in Entries : r < reservation_counter
  /\ \A q \in RequestId : requests[q].decision.generation < admission_generation

\* Recovery refuses corrupt, truncated, duplicate and inconsistent state, and
\* nothing else: a state that save wrote can be loaded.
SavedStateLoads == Readable(file) => Restorable(file)
================================================================================
