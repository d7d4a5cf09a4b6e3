--------------------------- MODULE ReservationManager ---------------------------
(****************************************************************************)
(* The atomic capacity reservation manager (reservation.hpp).               *)
(*                                                                          *)
(* The manager keeps a table of reservations, and beside it two running     *)
(* totals: reserved_sum for the provisional reservations and used_sum for   *)
(* the committed ones.  Feasibility is decided from the running totals, so  *)
(* they have to agree with the table after every sequence of calls.         *)
(*                                                                          *)
(* A call that the code refuses without changing anything is a stuttering   *)
(* step here; a refused call that does change something (a commit that      *)
(* finds the reservation expired) is an action.                             *)
(****************************************************************************)
EXTENDS ResourceVectors, FiniteSets

CONSTANTS
  ReservationId,  \* the identities a caller may use
  Admission,      \* what a commit records: a request with its generation
  NoAdmission,    \* the empty optional
  Totals,         \* the capacities a snapshot may report
  Allowances,     \* the overcommit allowances a policy may grant
  Demands,        \* the demands a caller may ask for
  Ttls,           \* reservation lifetimes, in clock ticks
  MaxTime         \* bound on the wall clock

ASSUME ReservationAssumption ==
  /\ IsFiniteSet(ReservationId)
  /\ NoAdmission \notin Admission
  /\ Totals \subseteq Vec /\ Allowances \subseteq Vec /\ Demands \subseteq Vec
  /\ Ttls \subseteq Nat
  /\ MaxTime \in Nat
  /\ UMax > 0

VARIABLES
  total,          \* total_
  mode,           \* overcommit_mode_
  allowance,      \* overcommit_allowance_
  reserved_sum,   \* reserved_sum_
  used_sum,       \* used_sum_
  reservations,   \* reservations_; an identity not in the map is "Absent"
  generation,     \* generation_
  now             \* the system clock

tableVars    == <<reserved_sum, used_sum, reservations, generation>>
envelopeVars == <<total, mode, allowance>>
rmVars       == <<total, mode, allowance, reserved_sum, used_sum, reservations, generation, now>>

Live           == {"Reserved", "Committed"}
Terminal       == {"Released", "Expired", "RolledBack"}
Status         == Live \cup Terminal \cup {"Absent"}
Time           == 0 .. MaxTime

Reservation ==
  [status : Status, demand : Vec, expires_at : Nat, generation : Word,
   admission : Admission \cup {NoAdmission}]

NoReservation ==
  [status |-> "Absent", demand |-> Zero, expires_at |-> 0, generation |-> 0,
   admission |-> NoAdmission]

-----------------------------------------------------------------------------
(* Capacity *)

kUnbounded == UMax \div 4

\* A dimension whose total is zero is not governed by the snapshot.
DimCeiling(t, m, a, d) ==
  IF t[d] = 0 THEN kUnbounded
  ELSE SatAdd(t[d], IF m = "None" THEN 0 ELSE a[d])

Ceiling == [d \in Resource |-> DimCeiling(total, mode, allowance, d)]

Load(d) == reserved_sum[d] + used_sum[d]

\* What is left of the envelope (total, m, a).
Availability(m, a) ==
  [d \in Resource |->
     SatSub(DimCeiling(total, m, a, d), SatAdd(reserved_sum[d], used_sum[d]))]

Having(s) == {id \in ReservationId : reservations[id].status = s}

\* The demand of the reservations in S, in dimension d: the code adds the
\* demands up one by one, the model counts the units of capacity they hold.
Units(table, S, d) == {u \in S \X (1 .. UMax) : u[2] <= table[u[1]].demand[d]}
SumOf(table, S, d) == Cardinality(Units(table, S, d))

TableSum(s, d) == SumOf(reservations, Having(s), d)

-----------------------------------------------------------------------------
(* Operations *)

\* Mutant: the demand alone is held against the ceiling.
CanReserveDemandOnly(t, m, a, id, demand) ==
  /\ reservations[id].status = "Absent"
  /\ ~IsZero(demand)
  /\ \A d \in Resource : demand[d] <= DimCeiling(t, m, a, d)

\* Mutant: committed capacity is left out of the feasibility check.
CanReserveForgetsUsed(t, m, a, id, demand) ==
  /\ reservations[id].status = "Absent"
  /\ ~IsZero(demand)
  /\ CanAdd(reserved_sum, demand)
  /\ \A d \in Resource : reserved_sum[d] + demand[d] <= DimCeiling(t, m, a, d)

\* Mutant: an identity that is already in the table is accepted again.
CanReserveReusedId(t, m, a, id, demand) ==
  /\ ~IsZero(demand)
  /\ CanAdd(reserved_sum, demand)
  /\ CanAdd(used_sum, Plus(reserved_sum, demand))
  /\ \A d \in Resource : used_sum[d] + reserved_sum[d] + demand[d] <= DimCeiling(t, m, a, d)

\* The feasibility check of reserve, under the envelope (t, m, a).
CanReserve(t, m, a, id, demand) ==
  /\ reservations[id].status = "Absent"
  /\ ~IsZero(demand)
  /\ CanAdd(reserved_sum, demand)
  /\ CanAdd(used_sum, Plus(reserved_sum, demand))
  /\ \A d \in Resource : used_sum[d] + reserved_sum[d] + demand[d] <= DimCeiling(t, m, a, d)

NextGeneration == IF generation = UMax THEN 1 ELSE generation + 1

Insert(id, demand, ttl) ==
  /\ reserved_sum' = Plus(reserved_sum, demand)
  /\ generation' = NextGeneration
  /\ reservations' =
       [reservations EXCEPT ![id] = [status |-> "Reserved", demand |-> demand,
                                     expires_at |-> now + ttl, generation |-> NextGeneration,
                                     admission |-> NoAdmission]]
  /\ UNCHANGED used_sum

Reserve(id, demand, ttl) ==
  /\ CanReserve(total, mode, allowance, id, demand)
  /\ Insert(id, demand, ttl)
  /\ UNCHANGED <<envelopeVars, now>>

\* Free the provisional capacity of id and leave it in a terminal status.
FreeReserved(id, status) ==
  /\ CanSub(reserved_sum, reservations[id].demand)
  /\ reserved_sum' = Minus(reserved_sum, reservations[id].demand)
  /\ reservations' = [reservations EXCEPT ![id].status = status]
  /\ UNCHANGED <<used_sum, generation>>

\* Mutant: the expiry test does not look at the status.
PastTtlAnyLive(id, t) == reservations[id].status \in Live /\ t > reservations[id].expires_at

PastTtl(id, t) == reservations[id].status = "Reserved" /\ t > reservations[id].expires_at

\* Mutant: commit does not check that the reservation is still provisional.
CanCommitAnyStatus(id) ==
  /\ reservations[id].status # "Absent"
  /\ now <= reservations[id].expires_at
  /\ CanSub(reserved_sum, reservations[id].demand)
  /\ CanAdd(used_sum, reservations[id].demand)

CanCommit(id) ==
  /\ reservations[id].status = "Reserved"
  /\ now <= reservations[id].expires_at
  /\ CanSub(reserved_sum, reservations[id].demand)
  /\ CanAdd(used_sum, reservations[id].demand)

CommitTable(id, adm) ==
  /\ reserved_sum' = Minus(reserved_sum, reservations[id].demand)
  /\ used_sum' = Plus(used_sum, reservations[id].demand)
  /\ reservations' = [reservations EXCEPT ![id].status = "Committed", ![id].admission = adm]
  /\ UNCHANGED generation

Commit(id, adm) ==
  /\ CanCommit(id)
  /\ CommitTable(id, adm)
  /\ UNCHANGED <<envelopeVars, now>>

\* A commit that comes after the TTL frees the capacity and reports the expiry.
CommitTooLate(id) ==
  /\ PastTtl(id, now)
  /\ FreeReserved(id, "Expired")
  /\ UNCHANGED <<envelopeVars, now>>

\* Mutant: a rollback is accepted after the reservation has expired.
RollbackExpired(id) ==
  /\ reservations[id].status \in {"Reserved", "Expired"}
  /\ FreeReserved(id, "RolledBack")
  /\ UNCHANGED <<envelopeVars, now>>

Rollback(id) ==
  /\ reservations[id].status = "Reserved"
  /\ FreeReserved(id, "RolledBack")
  /\ UNCHANGED <<envelopeVars, now>>

ReleaseCommitted(id) ==
  /\ reservations[id].status = "Committed"
  /\ CanSub(used_sum, reservations[id].demand)
  /\ used_sum' = Minus(used_sum, reservations[id].demand)
  /\ reservations' = [reservations EXCEPT ![id].status = "Released"]
  /\ UNCHANGED <<reserved_sum, generation>>

ReleaseExpired(id) ==
  /\ reservations[id].status = "Expired"
  /\ reservations' = [reservations EXCEPT ![id].status = "Released"]
  /\ UNCHANGED <<reserved_sum, used_sum, generation>>

\* Mutant: releasing a provisional reservation forgets its reserved capacity.
ReleaseKeepsReserved(id) ==
  \/ /\ reservations[id].status \in {"Reserved", "Expired"}
     /\ reservations' = [reservations EXCEPT ![id].status = "Released"]
     /\ UNCHANGED <<reserved_sum, used_sum, generation>>
  \/ ReleaseCommitted(id)

ReleaseTable(id) ==
  \/ reservations[id].status = "Reserved" /\ FreeReserved(id, "Released")
  \/ ReleaseCommitted(id)
  \/ ReleaseExpired(id)

Release(id) == ReleaseTable(id) /\ UNCHANGED <<envelopeVars, now>>

\* One sweep over the whole table, at a time the caller passes in.  The code
\* subtracts the demands one at a time and skips one it cannot subtract; by
\* NeverStuck it never has to, so the sweep subtracts them together.
ExpireStale(t) ==
  LET stale == {id \in ReservationId : PastTtl(id, t)}
      freed == [d \in Resource |-> SumOf(reservations, stale, d)]
  IN /\ stale # {}
     /\ CanSub(reserved_sum, freed)
     /\ reserved_sum' = Minus(reserved_sum, freed)
     /\ reservations' =
          [id \in ReservationId |->
             IF id \in stale THEN [reservations[id] EXCEPT !.status = "Expired"]
                             ELSE reservations[id]]
     /\ UNCHANGED <<used_sum, generation, envelopeVars, now>>

SetTotal(t) ==
  /\ total' = t
  /\ UNCHANGED <<mode, allowance, tableVars, now>>

SetOvercommitMode(m) ==
  /\ mode' = m
  /\ UNCHANGED <<total, allowance, tableVars, now>>

SetOvercommitAllowance(a) ==
  /\ allowance' = a
  /\ UNCHANGED <<total, mode, tableVars, now>>

\* The wall clock may be stepped in either direction.
Clock ==
  /\ now' \in Time
  /\ UNCHANGED <<envelopeVars, tableVars>>

-----------------------------------------------------------------------------
RMInit ==
  /\ total = Zero /\ mode = "None" /\ allowance = Zero
  /\ reserved_sum = Zero /\ used_sum = Zero
  /\ reservations = [id \in ReservationId |-> NoReservation]
  /\ generation = 1
  /\ now = 0

RMNext ==
  \/ \E id \in ReservationId, demand \in Demands, ttl \in Ttls : Reserve(id, demand, ttl)
  \/ \E id \in ReservationId, adm \in Admission : Commit(id, adm)
  \/ \E id \in ReservationId : CommitTooLate(id)
  \/ \E id \in ReservationId : Rollback(id)
  \/ \E id \in ReservationId : Release(id)
  \/ \E t \in Time : ExpireStale(t)
  \/ \E t \in Totals : SetTotal(t)
  \/ \E m \in OvercommitMode : SetOvercommitMode(m)
  \/ \E a \in Allowances : SetOvercommitAllowance(a)
  \/ Clock

RMSpec == RMInit /\ [][RMNext]_rmVars

-----------------------------------------------------------------------------
(* Properties *)

\* Every variable has its type, and the totals are machine words.
RMTypeOK ==
  /\ total \in Vec /\ mode \in OvercommitMode /\ allowance \in Vec
  /\ reserved_sum \in Vec /\ used_sum \in Vec
  /\ reservations \in [ReservationId -> Reservation]
  /\ generation \in Word
  /\ now \in Nat

\* The running totals equal what the table holds: no sequence of reserve,
\* commit, rollback, release and expiry, in any order and with any repetition,
\* leaks capacity or counts it twice (the recomputation of verify_accounting).
Accounting ==
  \A d \in Resource :
    /\ reserved_sum[d] = TableSum("Reserved", d)
    /\ used_sum[d] = TableSum("Committed", d)

\* Every reservation that is still live can be committed, freed or released:
\* the underflow and overflow errors that commit, rollback, release and the
\* expiry sweep guard against ("rollback underflow", "used-commit overflow",
\* ...) never arise, so no reservation gets stuck holding capacity.
NeverStuck ==
  \A id \in ReservationId :
    /\ reservations[id].status = "Reserved" =>
         /\ CanSub(reserved_sum, reservations[id].demand)
         /\ CanAdd(used_sum, reservations[id].demand)
    /\ reservations[id].status = "Committed" => CanSub(used_sum, reservations[id].demand)

\* A step that takes capacity leaves the load within the envelope of that
\* moment, in every dimension of the vector: reserve is all or nothing, and a
\* load above the envelope can only come from the envelope shrinking.
NoOverclaim ==
  [][\A d \in Resource : Load(d)' > Load(d) => \A e \in Resource : Load(e)' <= Ceiling'[e]]_rmVars

Successors ==
  [s \in Status |->
     CASE s = "Absent"    -> {"Reserved"}
       [] s = "Reserved"  -> {"Committed", "Released", "Expired", "RolledBack"}
       [] s = "Committed" -> {"Released"}
       [] s = "Expired"   -> {"Released"}
       [] OTHER           -> {}]

\* A reservation only moves forward through its statuses, its demand never
\* changes after it was made, and the admission it backs is recorded once, by
\* the commit: a double commit, a double release or a late call on a closed
\* reservation changes nothing.
ForwardOnly ==
  [][\A id \in ReservationId :
       LET r == reservations[id]
           s == reservations'[id]
       IN /\ s.status # r.status => s.status \in Successors[r.status]
          /\ s.demand # r.demand => r.status = "Absent"
          /\ s.admission # r.admission => r.status = "Reserved" /\ s.status = "Committed"]_rmVars

\* The manager implements the ledger: the ledger sees the envelope as the
\* ceiling and the claims as the table, and never the running totals.
PhaseOf(s) ==
  CASE s = "Absent"    -> "free"
    [] s = "Reserved"  -> "provisional"
    [] s = "Committed" -> "confirmed"
    [] OTHER           -> "closed"

Ledger == INSTANCE CapacityLedger WITH
  ClaimId  <- ReservationId,
  Demand   <- Demands,
  envelope <- Ceiling,
  phase    <- [id \in ReservationId |-> PhaseOf(reservations[id].status)],
  claim    <- [id \in ReservationId |-> reservations[id].demand]

\* Every behaviour of the manager is a behaviour of CapacityLedger: a claim is
\* granted only when the claims really held leave room for it, and a closed
\* claim never comes back.
ImplementsLedger == Ledger!LedgerSpec
================================================================================
