------------------------ MODULE ReservationManagerProofs ------------------------
(****************************************************************************)
(* Proofs about ReservationManager, for every set of identities, every      *)
(* word size, every table of capacities, demands and lifetimes.             *)
(****************************************************************************)
EXTENDS ReservationManager, FiniteSetTheorems, TLAPS

-----------------------------------------------------------------------------
(* What a sum over the table is made of. *)

\* The units of capacity held by a finite set of reservations are finitely
\* many (the table is finite and a demand is a machine word).
LEMMA UnitsFinite ==
  ASSUME NEW table, NEW S, NEW d, IsFiniteSet(S)
  PROVE  IsFiniteSet(Units(table, S, d))
<1>1. IsFiniteSet(1 .. UMax)
  BY UMaxAssumption, FS_Interval
<1>2. IsFiniteSet(S \X (1 .. UMax))
  BY <1>1, FS_Product
<1>3. Units(table, S, d) \in SUBSET (S \X (1 .. UMax))
  BY DEF Units
<1> QED
  BY <1>2, <1>3, FS_Subset

\* A sum over the table is a natural number.
LEMMA SumIsNat ==
  ASSUME NEW table, NEW S, NEW d, IsFiniteSet(S)
  PROVE  SumOf(table, S, d) \in Nat
BY UnitsFinite, FS_CardinalityType DEF SumOf

\* One reservation holds exactly its demand.
LEMMA SumOfOne ==
  ASSUME NEW table, NEW id, NEW d, NEW n \in Word, table[id].demand[d] = n
  PROVE  SumOf(table, {id}, d) = n
<1>1. n \in Nat /\ n <= UMax
  BY UMaxAssumption DEF Word
<1>2. Units(table, {id}, d) = {id} \X (1 .. n)
  BY <1>1, UMaxAssumption DEF Units
<1>3. IsFiniteSet({id}) /\ Cardinality({id}) = 1
  BY FS_Singleton
<1>4. IsFiniteSet(1 .. n) /\ Cardinality(1 .. n) = n
  BY <1>1, FS_Interval
<1>5. Cardinality({id} \X (1 .. n)) = Cardinality({id}) * Cardinality(1 .. n)
  BY <1>3, <1>4, FS_Product, Zenon
<1>6. Cardinality({id} \X (1 .. n)) = 1 * n
  BY <1>3, <1>4, <1>5, Zenon
<1>7. SumOf(table, {id}, d) = 1 * n
  BY <1>2, <1>6 DEF SumOf
<1> QED
  BY <1>1, <1>7

\* The sum over two disjoint sets of reservations is the sum of their sums.
LEMMA SumOfUnion ==
  ASSUME NEW table, NEW S, NEW T, NEW d, IsFiniteSet(S), IsFiniteSet(T), S \cap T = {}
  PROVE  SumOf(table, S \cup T, d) = SumOf(table, S, d) + SumOf(table, T, d)
<1> DEFINE US == Units(table, S, d)
           UT == Units(table, T, d)
<1>1. Units(table, S \cup T, d) = US \cup UT
  BY DEF Units
<1>2. US \cap UT = {}
  BY DEF Units
<1>3. IsFiniteSet(US) /\ IsFiniteSet(UT)
  BY UnitsFinite
<1>4. Cardinality(US \cup UT) = Cardinality(US) + Cardinality(UT) - Cardinality(US \cap UT)
  BY <1>3, FS_Union
<1>5. Cardinality(US \cap UT) = 0
  BY <1>2, FS_EmptySet
<1>6. Cardinality(US) \in Nat /\ Cardinality(UT) \in Nat
  BY <1>3, FS_CardinalityType
<1> HIDE DEF US, UT
<1>7. Cardinality(US \cup UT) = Cardinality(US) + Cardinality(UT)
  BY <1>4, <1>5, <1>6
<1> QED
  BY <1>1, <1>7 DEF SumOf, US, UT

\* The sum over a set is the sum over a subset and over the rest.
LEMMA SumSplit ==
  ASSUME NEW table, NEW S, NEW T, NEW d, IsFiniteSet(S), T \subseteq S
  PROVE  /\ SumOf(table, S, d) = SumOf(table, S \ T, d) + SumOf(table, T, d)
         /\ SumOf(table, S \ T, d) \in Nat
         /\ SumOf(table, T, d) \in Nat
<1>1. IsFiniteSet(T) /\ IsFiniteSet(S \ T)
  BY FS_Subset
<1>2. (S \ T) \cup T = S /\ (S \ T) \cap T = {}
  OBVIOUS
<1> QED
  BY <1>1, <1>2, SumOfUnion, SumIsNat

\* Two tables that agree on the demands of S have the same sum over S.
LEMMA SumAgree ==
  ASSUME NEW table1, NEW table2, NEW S, NEW d,
         \A id \in S : table1[id].demand = table2[id].demand
  PROVE  SumOf(table1, S, d) = SumOf(table2, S, d)
<1>1. Units(table1, S, d) = Units(table2, S, d)
  BY DEF Units
<1> QED
  BY <1>1 DEF SumOf

-----------------------------------------------------------------------------
(* Type correctness. *)

\* A reserve keeps every total a machine word, for any demand it accepts.
LEMMA InsertTypeOK ==
  ASSUME RMTypeOK, NEW id \in ReservationId, NEW demand \in Vec, NEW ttl \in Nat,
         CanAdd(reserved_sum, demand), Insert(id, demand, ttl)
  PROVE  /\ reserved_sum' \in Vec /\ used_sum' \in Vec
         /\ reservations' \in [ReservationId -> Reservation]
         /\ generation' \in Word
<1>1. reserved_sum' \in Vec
  BY UMaxAssumption DEF RMTypeOK, Insert, CanAdd, Plus, Vec, Word
<1>2. NextGeneration \in Word
  BY UMaxAssumption, ReservationAssumption DEF RMTypeOK, NextGeneration, Word
<1>3. [status |-> "Reserved", demand |-> demand, expires_at |-> now + ttl,
       generation |-> NextGeneration, admission |-> NoAdmission] \in Reservation
  BY <1>2 DEF RMTypeOK, Reservation, Status, Live
<1> QED
  BY <1>1, <1>2, <1>3 DEF RMTypeOK, Insert

\* Subtracting what can be subtracted leaves machine words.
LEMMA MinusType ==
  ASSUME NEW u \in Vec, NEW v \in [Resource -> Nat], CanSub(u, v)
  PROVE  Minus(u, v) \in Vec
BY UMaxAssumption DEF Vec, Word, CanSub, FitsIn, Minus

LEMMA PlusType ==
  ASSUME NEW u \in Vec, NEW v \in Vec, CanAdd(u, v)
  PROVE  Plus(u, v) \in Vec
BY UMaxAssumption DEF Vec, Word, CanAdd, Plus

LEMMA FreeReservedTypeOK ==
  ASSUME RMTypeOK, NEW id \in ReservationId, NEW s \in Status, FreeReserved(id, s)
  PROVE  /\ reserved_sum' \in Vec /\ used_sum' \in Vec
         /\ reservations' \in [ReservationId -> Reservation]
         /\ generation' \in Word
<1>1. reservations[id] \in Reservation /\ reservations[id].demand \in Vec
  BY DEF RMTypeOK, Reservation
<1>2. reservations[id].demand \in [Resource -> Nat]
  BY <1>1, UMaxAssumption DEF Vec, Word
<1>3. reserved_sum' \in Vec
  BY <1>2, MinusType DEF FreeReserved, RMTypeOK
<1> QED
  BY <1>1, <1>3 DEF FreeReserved, RMTypeOK, Reservation

LEMMA CommitTypeOK ==
  ASSUME RMTypeOK, NEW id \in ReservationId, NEW adm \in Admission,
         CanCommit(id), CommitTable(id, adm)
  PROVE  /\ reserved_sum' \in Vec /\ used_sum' \in Vec
         /\ reservations' \in [ReservationId -> Reservation]
         /\ generation' \in Word
<1>1. reservations[id] \in Reservation /\ reservations[id].demand \in Vec
  BY DEF RMTypeOK, Reservation
<1>2. reservations[id].demand \in [Resource -> Nat]
  BY <1>1, UMaxAssumption DEF Vec, Word
<1>3. reserved_sum' \in Vec /\ used_sum' \in Vec
  BY <1>1, <1>2, MinusType, PlusType DEF CanCommit, CommitTable, RMTypeOK
<1>4. [reservations[id] EXCEPT !.status = "Committed", !.admission = adm] \in Reservation
  BY <1>1 DEF Reservation, Status, Live
<1> QED
  BY <1>3, <1>4 DEF CommitTable, RMTypeOK, Reservation, Status, Live

LEMMA ReleaseTypeOK ==
  ASSUME RMTypeOK, NEW id \in ReservationId, ReleaseTable(id)
  PROVE  /\ reserved_sum' \in Vec /\ used_sum' \in Vec
         /\ reservations' \in [ReservationId -> Reservation]
         /\ generation' \in Word
<1>1. reservations[id] \in Reservation /\ reservations[id].demand \in Vec
  BY DEF RMTypeOK, Reservation
<1>2. reservations[id].demand \in [Resource -> Nat]
  BY <1>1, UMaxAssumption DEF Vec, Word
<1>3. CASE FreeReserved(id, "Released")
  BY <1>3, FreeReservedTypeOK DEF Status, Terminal
<1>4. CASE ReleaseCommitted(id)
  <2>1. used_sum' \in Vec
    BY <1>2, <1>4, MinusType DEF ReleaseCommitted, RMTypeOK
  <2> QED
    BY <1>1, <1>4, <2>1 DEF ReleaseCommitted, RMTypeOK, Reservation, Status, Terminal
<1>5. CASE ReleaseExpired(id)
  BY <1>1, <1>5 DEF ReleaseExpired, RMTypeOK, Reservation, Status, Terminal
<1> QED
  BY <1>3, <1>4, <1>5 DEF ReleaseTable

LEMMA ExpireStaleTypeOK ==
  ASSUME RMTypeOK, NEW t \in Time, ExpireStale(t)
  PROVE  RMTypeOK'
<1> DEFINE stale == {id \in ReservationId : PastTtl(id, t)}
           freed == [d \in Resource |-> SumOf(reservations, stale, d)]
<1>1. IsFiniteSet(stale)
  BY ReservationAssumption, FS_Subset
<1>2. freed \in [Resource -> Nat]
  BY <1>1, SumIsNat
<1>3. CanSub(reserved_sum, freed) /\ reserved_sum' = Minus(reserved_sum, freed)
  BY DEF ExpireStale
<1>4. reserved_sum' \in Vec
  <2> HIDE DEF freed
  <2> QED BY <1>2, <1>3, MinusType DEF RMTypeOK
<1>5. \A id \in ReservationId :
        /\ reservations[id] \in Reservation
        /\ [reservations[id] EXCEPT !.status = "Expired"] \in Reservation
  BY DEF RMTypeOK, Reservation, Status, Terminal
<1>6. reservations' \in [ReservationId -> Reservation]
  BY <1>5 DEF ExpireStale
<1> QED
  BY <1>4, <1>6 DEF ExpireStale, RMTypeOK, envelopeVars

\* One step of the manager keeps the types.
LEMMA RMTypeStep ==
  ASSUME RMTypeOK, [RMNext]_rmVars
  PROVE  RMTypeOK'
<1>1. ASSUME NEW id \in ReservationId, NEW demand \in Demands, NEW ttl \in Ttls,
             Reserve(id, demand, ttl)
      PROVE  RMTypeOK'
  <2>1. demand \in Vec /\ ttl \in Nat
    BY ReservationAssumption
  <2> QED
    BY <1>1, <2>1, InsertTypeOK DEF Reserve, CanReserve, RMTypeOK, envelopeVars
<1>2. ASSUME NEW id \in ReservationId, NEW adm \in Admission, Commit(id, adm)
      PROVE  RMTypeOK'
  BY <1>2, CommitTypeOK DEF Commit, RMTypeOK, envelopeVars
<1>3. ASSUME NEW id \in ReservationId, CommitTooLate(id)
      PROVE  RMTypeOK'
  BY <1>3, FreeReservedTypeOK DEF CommitTooLate, RMTypeOK, envelopeVars, Status, Terminal
<1>4. ASSUME NEW id \in ReservationId, Rollback(id)
      PROVE  RMTypeOK'
  BY <1>4, FreeReservedTypeOK DEF Rollback, RMTypeOK, envelopeVars, Status, Terminal
<1>5. ASSUME NEW id \in ReservationId, Release(id)
      PROVE  RMTypeOK'
  BY <1>5, ReleaseTypeOK DEF Release, RMTypeOK, envelopeVars
<1>6. ASSUME NEW t \in Time, ExpireStale(t)
      PROVE  RMTypeOK'
  BY <1>6, ExpireStaleTypeOK
<1>7. ASSUME NEW t \in Totals, SetTotal(t)
      PROVE  RMTypeOK'
  BY <1>7, ReservationAssumption DEF SetTotal, RMTypeOK, tableVars
<1>8. ASSUME NEW m \in OvercommitMode, SetOvercommitMode(m)
      PROVE  RMTypeOK'
  BY <1>8 DEF SetOvercommitMode, RMTypeOK, tableVars
<1>9. ASSUME NEW a \in Allowances, SetOvercommitAllowance(a)
      PROVE  RMTypeOK'
  BY <1>9, ReservationAssumption DEF SetOvercommitAllowance, RMTypeOK, tableVars
<1>10. CASE Clock
  BY <1>10, ReservationAssumption DEF Clock, RMTypeOK, Time, envelopeVars, tableVars
<1>11. CASE UNCHANGED rmVars
  BY <1>11 DEF rmVars, RMTypeOK
<1> QED
  BY <1>1, <1>2, <1>3, <1>4, <1>5, <1>6, <1>7, <1>8, <1>9, <1>10, <1>11 DEF RMNext

\* Every variable of the manager keeps its type, and no total ever leaves the
\* range of a machine word, whatever the calls (RMTypeOK).
THEOREM RMTypeCorrect == RMSpec => []RMTypeOK
<1>1. RMInit => RMTypeOK
  BY UMaxAssumption, ReservationAssumption
  DEF RMInit, RMTypeOK, Vec, Word, Zero, OvercommitMode, Reservation, NoReservation, Status
<1> QED
  BY <1>1, RMTypeStep, PTL DEF RMSpec

-----------------------------------------------------------------------------
(* Accounting. *)

\* How a sum over the table changes: it keeps the value of a set whose demands
\* did not change, and moving a set T in or out adds or subtracts the sum of T.
LEMMA SumGrows ==
  ASSUME NEW old, NEW new, NEW H, NEW id, NEW d,
         IsFiniteSet(H), id \notin H,
         \A i \in H : new[i].demand = old[i].demand,
         NEW n \in Word, SumOf(new, {id}, d) = n
  PROVE  SumOf(new, H \cup {id}, d) = SumOf(old, H, d) + n
<1>1. IsFiniteSet({id}) /\ H \cap {id} = {}
  BY FS_Singleton
<1>2. SumOf(new, H \cup {id}, d) = SumOf(new, H, d) + SumOf(new, {id}, d)
  BY <1>1, SumOfUnion
<1>3. SumOf(new, H, d) = SumOf(old, H, d)
  BY SumAgree
<1> QED
  BY <1>2, <1>3

LEMMA SumShrinks ==
  ASSUME NEW old, NEW new, NEW H, NEW T, NEW d,
         IsFiniteSet(H), T \subseteq H,
         \A i \in H : new[i].demand = old[i].demand
  PROVE  SumOf(new, H \ T, d) = SumOf(old, H, d) - SumOf(old, T, d)
<1>1. /\ SumOf(old, H, d) = SumOf(old, H \ T, d) + SumOf(old, T, d)
      /\ SumOf(old, H \ T, d) \in Nat
      /\ SumOf(old, T, d) \in Nat
  BY SumSplit
<1>2. SumOf(new, H \ T, d) = SumOf(old, H \ T, d)
  BY SumAgree
<1> QED
  BY <1>1, <1>2

LEMMA HavingFinite ==
  ASSUME NEW s
  PROVE  IsFiniteSet(Having(s))
BY ReservationAssumption, FS_Subset DEF Having

\* A reserve books its demand in the table and in the running total alike.
LEMMA InsertAccounting ==
  ASSUME RMTypeOK, Accounting, NEW id \in ReservationId, NEW demand \in Vec, NEW ttl \in Nat,
         reservations[id].status = "Absent", Insert(id, demand, ttl)
  PROVE  Accounting'
<1> DEFINE R == Having("Reserved")
           C == Having("Committed")
<1>1. Having("Reserved")' = R \cup {id} /\ Having("Committed")' = C
  BY DEF Having, Insert, RMTypeOK
<1>2. id \notin R /\ id \notin C
  BY DEF Having
<1>3. reservations'[id].demand = demand
  BY DEF Insert, RMTypeOK
<1>4. \A i \in R \cup C : reservations'[i].demand = reservations[i].demand
  BY <1>2 DEF Insert, RMTypeOK, Having
<1>5. ASSUME NEW d \in Resource
      PROVE  /\ reserved_sum'[d] = SumOf(reservations', R \cup {id}, d)
             /\ used_sum'[d] = SumOf(reservations', C, d)
  <2>1. demand[d] \in Word
    BY DEF Vec
  <2>2. SumOf(reservations', R \cup {id}, d) = SumOf(reservations, R, d) + demand[d]
    <3> HIDE DEF R
    <3>1. IsFiniteSet(R)
      BY HavingFinite DEF R
    <3>2. SumOf(reservations', {id}, d) = demand[d]
      BY <1>3, <2>1, SumOfOne
    <3> QED BY <1>2, <1>4, <2>1, <3>1, <3>2, SumGrows
  <2>3. SumOf(reservations', C, d) = SumOf(reservations, C, d)
    BY <1>4, SumAgree
  <2>4. reserved_sum'[d] = reserved_sum[d] + demand[d] /\ used_sum' = used_sum
    BY DEF Insert, Plus
  <2> QED
    BY <2>2, <2>3, <2>4 DEF Accounting, TableSum
<1> QED
  BY <1>1, <1>5 DEF Accounting, TableSum

\* Freeing one provisional reservation frees exactly its demand.
LEMMA FreeReservedAccounting ==
  ASSUME RMTypeOK, Accounting, NEW id \in ReservationId, NEW s \in Terminal,
         reservations[id].status = "Reserved", FreeReserved(id, s)
  PROVE  Accounting'
<1> DEFINE R == Having("Reserved")
           C == Having("Committed")
<1>1. Having("Reserved")' = R \ {id} /\ Having("Committed")' = C
  BY DEF Having, FreeReserved, RMTypeOK, Terminal
<1>2. {id} \subseteq R
  BY DEF Having
<1>3. \A i \in ReservationId : reservations'[i].demand = reservations[i].demand
  BY DEF FreeReserved, RMTypeOK, Reservation
<1>4. ASSUME NEW d \in Resource
      PROVE  /\ reserved_sum'[d] = SumOf(reservations', R \ {id}, d)
             /\ used_sum'[d] = SumOf(reservations', C, d)
  <2>1. reservations[id].demand[d] \in Word
    BY DEF RMTypeOK, Reservation, Vec
  <2>2. SumOf(reservations, {id}, d) = reservations[id].demand[d]
    BY <2>1, SumOfOne
  <2>3. SumOf(reservations', R \ {id}, d) = SumOf(reservations, R, d) - SumOf(reservations, {id}, d)
    <3>1. IsFiniteSet(R) /\ \A i \in R : reservations'[i].demand = reservations[i].demand
      BY <1>3, HavingFinite DEF Having
    <3> HIDE DEF R
    <3> QED BY <1>2, <3>1, SumShrinks
  <2>4. SumOf(reservations', C, d) = SumOf(reservations, C, d)
    BY <1>3, SumAgree DEF Having
  <2>5. reserved_sum'[d] = reserved_sum[d] - reservations[id].demand[d] /\ used_sum' = used_sum
    BY DEF FreeReserved, Minus
  <2> QED
    BY <2>2, <2>3, <2>4, <2>5 DEF Accounting, TableSum
<1> QED
  BY <1>1, <1>4 DEF Accounting, TableSum

\* A commit moves exactly its demand from one running total to the other.
LEMMA CommitAccounting ==
  ASSUME RMTypeOK, Accounting, NEW id \in ReservationId, NEW adm \in Admission,
         CanCommit(id), CommitTable(id, adm)
  PROVE  Accounting'
<1> DEFINE R == Having("Reserved")
           C == Having("Committed")
<1>1. Having("Reserved")' = R \ {id} /\ Having("Committed")' = C \cup {id}
  BY DEF Having, CanCommit, CommitTable, RMTypeOK
<1>2. {id} \subseteq R /\ id \notin C
  BY DEF Having, CanCommit
<1>3. \A i \in ReservationId : reservations'[i].demand = reservations[i].demand
  BY DEF CommitTable, RMTypeOK, Reservation
<1>4. ASSUME NEW d \in Resource
      PROVE  /\ reserved_sum'[d] = SumOf(reservations', R \ {id}, d)
             /\ used_sum'[d] = SumOf(reservations', C \cup {id}, d)
  <2>1. reservations[id].demand[d] \in Word
    BY DEF RMTypeOK, Reservation, Vec
  <2>2. SumOf(reservations, {id}, d) = reservations[id].demand[d]
    BY <2>1, SumOfOne
  <2>3. /\ IsFiniteSet(R) /\ \A i \in R : reservations'[i].demand = reservations[i].demand
        /\ IsFiniteSet(C) /\ \A i \in C : reservations'[i].demand = reservations[i].demand
    BY <1>3, HavingFinite DEF Having
  <2> HIDE DEF R, C
  <2>4. SumOf(reservations', R \ {id}, d) = SumOf(reservations, R, d) - SumOf(reservations, {id}, d)
    BY <1>2, <2>3, SumShrinks
  <2>5. SumOf(reservations', C \cup {id}, d) = SumOf(reservations, C, d) + reservations[id].demand[d]
    <3>1. \A i \in {id} : reservations'[i].demand = reservations[i].demand
      BY <1>3
    <3>2. SumOf(reservations', {id}, d) = reservations[id].demand[d]
      BY <2>2, <3>1, SumAgree
    <3> QED BY <1>2, <2>1, <2>3, <3>2, SumGrows
  <2>6. /\ reserved_sum'[d] = reserved_sum[d] - reservations[id].demand[d]
        /\ used_sum'[d] = used_sum[d] + reservations[id].demand[d]
    BY DEF CommitTable, Minus, Plus
  <2> QED
    BY <2>2, <2>4, <2>5, <2>6 DEF Accounting, TableSum, R, C
<1> QED
  BY <1>1, <1>4 DEF Accounting, TableSum

\* A release returns exactly what the reservation still holds.
LEMMA ReleaseAccounting ==
  ASSUME RMTypeOK, Accounting, NEW id \in ReservationId, ReleaseTable(id)
  PROVE  Accounting'
<1> DEFINE R == Having("Reserved")
           C == Having("Committed")
<1>1. CASE reservations[id].status = "Reserved" /\ FreeReserved(id, "Released")
  BY <1>1, FreeReservedAccounting DEF Terminal
<1>2. CASE ReleaseCommitted(id)
  <2>1. Having("Reserved")' = R /\ Having("Committed")' = C \ {id}
    BY <1>2 DEF Having, ReleaseCommitted, RMTypeOK
  <2>2. {id} \subseteq C
    BY <1>2 DEF Having, ReleaseCommitted
  <2>3. \A i \in ReservationId : reservations'[i].demand = reservations[i].demand
    BY <1>2 DEF ReleaseCommitted, RMTypeOK, Reservation
  <2>4. ASSUME NEW d \in Resource
        PROVE  /\ reserved_sum'[d] = SumOf(reservations', R, d)
               /\ used_sum'[d] = SumOf(reservations', C \ {id}, d)
    <3>1. reservations[id].demand[d] \in Word
      BY DEF RMTypeOK, Reservation, Vec
    <3>2. SumOf(reservations, {id}, d) = reservations[id].demand[d]
      BY <3>1, SumOfOne
    <3>3. SumOf(reservations', R, d) = SumOf(reservations, R, d)
      BY <2>3, SumAgree DEF Having
    <3>4. IsFiniteSet(C) /\ \A i \in C : reservations'[i].demand = reservations[i].demand
      BY <2>3, HavingFinite DEF Having
    <3> HIDE DEF C
    <3>5. SumOf(reservations', C \ {id}, d) = SumOf(reservations, C, d) - SumOf(reservations, {id}, d)
      BY <2>2, <3>4, SumShrinks
    <3>6. used_sum'[d] = used_sum[d] - reservations[id].demand[d] /\ reserved_sum' = reserved_sum
      BY <1>2 DEF ReleaseCommitted, Minus
    <3> QED
      BY <3>2, <3>3, <3>5, <3>6 DEF Accounting, TableSum, C
  <2> QED
    BY <2>1, <2>4 DEF Accounting, TableSum
<1>3. CASE ReleaseExpired(id)
  <2>1. Having("Reserved")' = R /\ Having("Committed")' = C
    BY <1>3 DEF Having, ReleaseExpired, RMTypeOK
  <2>2. \A i \in ReservationId : reservations'[i].demand = reservations[i].demand
    BY <1>3 DEF ReleaseExpired, RMTypeOK, Reservation
  <2>3. ASSUME NEW d \in Resource
        PROVE  /\ SumOf(reservations', R, d) = SumOf(reservations, R, d)
               /\ SumOf(reservations', C, d) = SumOf(reservations, C, d)
    BY <2>2, SumAgree DEF Having
  <2> QED
    BY <1>3, <2>1, <2>3 DEF Accounting, TableSum, ReleaseExpired
<1> QED
  BY <1>1, <1>2, <1>3 DEF ReleaseTable

\* The expiry sweep frees exactly the demand of the reservations it expires.
LEMMA ExpireStaleAccounting ==
  ASSUME RMTypeOK, Accounting, NEW t \in Time, ExpireStale(t)
  PROVE  Accounting'
<1> DEFINE R == Having("Reserved")
           C == Having("Committed")
           stale == {id \in ReservationId : PastTtl(id, t)}
           freed == [d \in Resource |-> SumOf(reservations, stale, d)]
<1>1. Having("Reserved")' = R \ stale /\ Having("Committed")' = C
  BY DEF Having, ExpireStale, PastTtl, RMTypeOK, Reservation
<1>2. stale \subseteq R
  BY DEF Having, PastTtl
<1>3. \A i \in ReservationId : reservations'[i].demand = reservations[i].demand
  BY DEF ExpireStale, RMTypeOK, Reservation
<1>4. ASSUME NEW d \in Resource
      PROVE  /\ reserved_sum'[d] = SumOf(reservations', R \ stale, d)
             /\ used_sum'[d] = SumOf(reservations', C, d)
  <2>1. SumOf(reservations', C, d) = SumOf(reservations, C, d)
    BY <1>3, SumAgree DEF Having
  <2>2. IsFiniteSet(R) /\ \A i \in R : reservations'[i].demand = reservations[i].demand
    BY <1>3, HavingFinite DEF Having
  <2>3. reserved_sum'[d] = reserved_sum[d] - SumOf(reservations, stale, d) /\ used_sum' = used_sum
    BY DEF ExpireStale, Minus
  <2> HIDE DEF R, stale
  <2>4. SumOf(reservations', R \ stale, d) = SumOf(reservations, R, d) - SumOf(reservations, stale, d)
    BY <1>2, <2>2, SumShrinks
  <2> QED
    BY <2>1, <2>3, <2>4 DEF Accounting, TableSum, R
<1> QED
  BY <1>1, <1>4 DEF Accounting, TableSum

\* A step that leaves the table and the totals alone keeps them in agreement.
LEMMA QuietAccounting ==
  ASSUME Accounting, UNCHANGED tableVars
  PROVE  Accounting'
BY DEF Accounting, TableSum, Having, tableVars

\* An empty table and empty totals agree.
LEMMA EmptyAccounting ==
  ASSUME reserved_sum = Zero, used_sum = Zero,
         reservations = [id \in ReservationId |-> NoReservation]
  PROVE  Accounting
<1> SUFFICES ASSUME NEW d \in Resource
             PROVE  /\ reserved_sum[d] = TableSum("Reserved", d)
                    /\ used_sum[d] = TableSum("Committed", d)
  BY DEF Accounting
<1>1. Having("Reserved") = {} /\ Having("Committed") = {}
  BY DEF Having, NoReservation
<1>2. Units(reservations, {}, d) = {}
  BY DEF Units
<1>3. SumOf(reservations, {}, d) = 0
  BY <1>2, FS_EmptySet DEF SumOf
<1> QED
  BY <1>1, <1>3 DEF TableSum, Zero

\* The same of the next state.
LEMMA EmptyAccountingNext ==
  ASSUME reserved_sum' = Zero, used_sum' = Zero,
         reservations' = [id \in ReservationId |-> NoReservation]
  PROVE  Accounting'
<1> SUFFICES ASSUME NEW d \in Resource
             PROVE  /\ reserved_sum'[d] = TableSum("Reserved", d)'
                    /\ used_sum'[d] = TableSum("Committed", d)'
  BY DEF Accounting
<1>1. Having("Reserved")' = {} /\ Having("Committed")' = {}
  BY DEF Having, NoReservation
<1>2. Units(reservations', {}, d) = {}
  BY DEF Units
<1>3. SumOf(reservations', {}, d) = 0
  BY <1>2, FS_EmptySet DEF SumOf
<1> QED
  BY <1>1, <1>3 DEF TableSum, Zero

LEMMA InitAccounting == RMInit => Accounting
BY EmptyAccounting DEF RMInit

\* The running totals agree with the table after every sequence of calls
\* (Accounting): verify_accounting never finds a leak or a double count.
THEOREM AccountingHolds == RMSpec => []Accounting
<1>1. RMInit => Accounting
  BY InitAccounting
<1>2. RMTypeOK /\ Accounting /\ [RMNext]_rmVars => Accounting'
  <2> SUFFICES ASSUME RMTypeOK, Accounting, [RMNext]_rmVars PROVE Accounting'
    OBVIOUS
  <2>1. ASSUME NEW id \in ReservationId, NEW demand \in Demands, NEW ttl \in Ttls,
               Reserve(id, demand, ttl)
        PROVE  Accounting'
    BY <2>1, ReservationAssumption, InsertAccounting DEF Reserve, CanReserve
  <2>2. ASSUME NEW id \in ReservationId, NEW adm \in Admission, Commit(id, adm)
        PROVE  Accounting'
    BY <2>2, CommitAccounting DEF Commit
  <2>3. ASSUME NEW id \in ReservationId, CommitTooLate(id)
        PROVE  Accounting'
    BY <2>3, FreeReservedAccounting DEF CommitTooLate, PastTtl, Terminal
  <2>4. ASSUME NEW id \in ReservationId, Rollback(id)
        PROVE  Accounting'
    BY <2>4, FreeReservedAccounting DEF Rollback, Terminal
  <2>5. ASSUME NEW id \in ReservationId, Release(id)
        PROVE  Accounting'
    BY <2>5, ReleaseAccounting DEF Release
  <2>6. ASSUME NEW t \in Time, ExpireStale(t)
        PROVE  Accounting'
    BY <2>6, ExpireStaleAccounting
  <2>7. CASE \/ \E t \in Totals : SetTotal(t)
             \/ \E m \in OvercommitMode : SetOvercommitMode(m)
             \/ \E a \in Allowances : SetOvercommitAllowance(a)
             \/ Clock
             \/ UNCHANGED rmVars
    BY <2>7, QuietAccounting
    DEF SetTotal, SetOvercommitMode, SetOvercommitAllowance, Clock, tableVars, rmVars
  <2> QED
    BY <2>1, <2>2, <2>3, <2>4, <2>5, <2>6, <2>7 DEF RMNext
<1> QED
  BY <1>1, <1>2, RMTypeCorrect, PTL DEF RMSpec

-----------------------------------------------------------------------------
(* The load and the envelope. *)

\* A ceiling is a machine word, whatever the total and the allowance.
LEMMA CeilingType ==
  ASSUME NEW t \in Vec, NEW m \in OvercommitMode, NEW a \in Vec, NEW d \in Resource
  PROVE  DimCeiling(t, m, a, d) \in Word
<1>1. t[d] \in Word /\ a[d] \in Word
  BY DEF Vec
<1>2. kUnbounded \in Word
  BY UMaxAssumption DEF kUnbounded, Word
<1> QED
  BY <1>1, <1>2, UMaxAssumption DEF DimCeiling, SatAdd, Word

\* The load of a dimension fits in a machine word.
LoadFits == \A d \in Resource : Load(d) <= UMax

\* What one action does to the load: only a reserve raises it, and only up to
\* the ceiling.
LEMMA LoadStep ==
  ASSUME RMTypeOK, [RMNext]_rmVars
  PROVE  \/ /\ \A e \in Resource : Load(e)' <= Ceiling[e]
            /\ Ceiling' = Ceiling
         \/ \A d \in Resource : Load(d)' <= Load(d)
<1> USE UMaxAssumption
<1>0. /\ reserved_sum \in [Resource -> Nat] /\ used_sum \in [Resource -> Nat]
      /\ \A id \in ReservationId : reservations[id].demand \in [Resource -> Nat]
  BY DEF RMTypeOK, Vec, Word, Reservation
<1>1. ASSUME NEW id \in ReservationId, NEW demand \in Demands, NEW ttl \in Ttls,
             Reserve(id, demand, ttl)
      PROVE  (\A e \in Resource : Load(e)' <= Ceiling[e]) /\ Ceiling' = Ceiling
  <2>1. demand \in [Resource -> Nat]
    BY ReservationAssumption DEF Vec, Word
  <2>2. Ceiling' = Ceiling
    BY <1>1 DEF Reserve, envelopeVars, Ceiling
  <2>3. ASSUME NEW e \in Resource PROVE Load(e)' <= Ceiling[e]
    <3>1. used_sum[e] + reserved_sum[e] + demand[e] <= Ceiling[e]
      BY <1>1 DEF Reserve, CanReserve, Ceiling
    <3>2. reserved_sum'[e] = reserved_sum[e] + demand[e] /\ used_sum' = used_sum
      BY <1>1 DEF Reserve, Insert, Plus
    <3>3. Ceiling[e] \in Nat
      BY CeilingType DEF RMTypeOK, Ceiling, Word
    <3> QED
      BY <1>0, <2>1, <3>1, <3>2, <3>3 DEF Load
  <2> QED
    BY <2>2, <2>3
<1>2. ASSUME NEW id \in ReservationId, NEW adm \in Admission, Commit(id, adm)
      PROVE  \A d \in Resource : Load(d)' <= Load(d)
  BY <1>0, <1>2 DEF Commit, CommitTable, Minus, Plus, Load
<1>3. ASSUME NEW id \in ReservationId, NEW s, FreeReserved(id, s)
      PROVE  \A d \in Resource : Load(d)' <= Load(d)
  BY <1>0, <1>3 DEF FreeReserved, Minus, Load
<1>4. ASSUME NEW id \in ReservationId, Release(id)
      PROVE  \A d \in Resource : Load(d)' <= Load(d)
  <2>1. CASE ReleaseCommitted(id)
    BY <1>0, <2>1 DEF ReleaseCommitted, Minus, Load
  <2>2. CASE ReleaseExpired(id)
    BY <1>0, <2>2 DEF ReleaseExpired, Load
  <2> QED
    BY <1>3, <1>4, <2>1, <2>2 DEF Release, ReleaseTable
<1>5. ASSUME NEW t \in Time, ExpireStale(t)
      PROVE  \A d \in Resource : Load(d)' <= Load(d)
  <2> DEFINE stale == {id \in ReservationId : PastTtl(id, t)}
             freed == [d \in Resource |-> SumOf(reservations, stale, d)]
  <2>1. IsFiniteSet(stale)
    BY ReservationAssumption, FS_Subset
  <2>2. freed \in [Resource -> Nat]
    BY <2>1, SumIsNat
  <2>3. reserved_sum' = Minus(reserved_sum, freed) /\ used_sum' = used_sum
    BY <1>5 DEF ExpireStale
  <2> HIDE DEF freed
  <2> QED
    BY <1>0, <2>2, <2>3 DEF Minus, Load
<1>6. CASE \/ \E t \in Totals : SetTotal(t)
           \/ \E m \in OvercommitMode : SetOvercommitMode(m)
           \/ \E a \in Allowances : SetOvercommitAllowance(a)
           \/ Clock
           \/ UNCHANGED rmVars
  <2>1. UNCHANGED <<reserved_sum, used_sum>>
    BY <1>6 DEF SetTotal, SetOvercommitMode, SetOvercommitAllowance, Clock, tableVars, rmVars
  <2> QED
    BY <1>0, <2>1 DEF Load
<1> QED
  BY <1>1, <1>2, <1>3, <1>4, <1>5, <1>6 DEF RMNext, CommitTooLate, Rollback

\* No step takes capacity past the envelope in any dimension (NoOverclaim).
THEOREM NoOverclaimHolds == RMSpec => NoOverclaim
<1>1. RMTypeOK /\ [RMNext]_rmVars =>
        [\A d \in Resource : Load(d)' > Load(d) => \A e \in Resource : Load(e)' <= Ceiling'[e]]_rmVars
  <2> SUFFICES ASSUME RMTypeOK, [RMNext]_rmVars, NEW d \in Resource, Load(d)' > Load(d)
               PROVE  \A e \in Resource : Load(e)' <= Ceiling'[e]
    BY DEF rmVars
  <2>1. RMTypeOK'
    BY RMTypeStep
  <2>2. Load(d) \in Nat /\ Load(d)' \in Nat
    BY <2>1, UMaxAssumption DEF RMTypeOK, Load, Vec, Word
  <2> QED
    BY <2>2, LoadStep
<1> QED
  BY <1>1, RMTypeCorrect, PTL DEF RMSpec, NoOverclaim

\* The load always fits in a machine word: the overflow checks of reserve and
\* the saturation of the ceiling are enough.
THEOREM LoadAlwaysFits == RMSpec => []LoadFits
<1>1. RMInit => LoadFits
  <2> SUFFICES ASSUME RMInit, NEW d \in Resource PROVE Load(d) <= UMax
    BY DEF LoadFits
  <2>1. reserved_sum[d] = 0 /\ used_sum[d] = 0
    BY DEF RMInit, Zero
  <2> QED
    BY <2>1, UMaxAssumption DEF Load
<1>2. RMTypeOK /\ RMTypeOK' /\ LoadFits /\ [RMNext]_rmVars => LoadFits'
  <2> SUFFICES ASSUME RMTypeOK, RMTypeOK', LoadFits, [RMNext]_rmVars, NEW d \in Resource
               PROVE  Load(d)' <= UMax
    BY DEF LoadFits
  <2>1. Load(d) \in Nat /\ Load(d)' \in Nat
    BY UMaxAssumption DEF RMTypeOK, Load, Vec, Word
  <2>2. Ceiling[d] \in Word
    BY CeilingType DEF RMTypeOK, Ceiling
  <2>3. Load(d) <= UMax
    BY DEF LoadFits
  <2> QED
    BY <2>1, <2>2, <2>3, LoadStep, UMaxAssumption DEF Word
<1> QED
  BY <1>1, <1>2, RMTypeCorrect, PTL DEF RMSpec

\* No live reservation is ever stuck (NeverStuck): the totals always cover its
\* demand, because they are the sum over a table that contains it.
THEOREM NeverStuckHolds == RMSpec => []NeverStuck
<1>1. RMTypeOK /\ Accounting /\ LoadFits => NeverStuck
  <2> SUFFICES ASSUME RMTypeOK, Accounting, LoadFits, NEW id \in ReservationId, NEW d \in Resource
               PROVE  /\ reservations[id].status = "Reserved" =>
                           /\ reservations[id].demand[d] <= reserved_sum[d]
                           /\ reservations[id].demand[d] <= UMax - used_sum[d]
                      /\ reservations[id].status = "Committed" =>
                           reservations[id].demand[d] <= used_sum[d]
    BY DEF NeverStuck, CanSub, CanAdd, FitsIn
  <2>1. reservations[id].demand[d] \in Word
    BY DEF RMTypeOK, Reservation, Vec
  <2>2. ASSUME NEW s, reservations[id].status = s
        PROVE  reservations[id].demand[d] <= TableSum(s, d)
    <3>1. IsFiniteSet(Having(s)) /\ {id} \subseteq Having(s)
      BY <2>2, HavingFinite DEF Having
    <3>2. SumOf(reservations, {id}, d) = reservations[id].demand[d]
      BY <2>1, SumOfOne
    <3>3. /\ TableSum(s, d) = SumOf(reservations, Having(s) \ {id}, d) + SumOf(reservations, {id}, d)
          /\ SumOf(reservations, Having(s) \ {id}, d) \in Nat
      BY <3>1, SumSplit DEF TableSum
    <3> QED
      BY <2>1, <3>2, <3>3, UMaxAssumption DEF Word
  <2>3. reserved_sum[d] \in Nat /\ used_sum[d] \in Nat /\ Load(d) <= UMax
    BY UMaxAssumption DEF RMTypeOK, Vec, Word, LoadFits
  <2> QED
    BY <2>1, <2>2, <2>3, UMaxAssumption DEF Accounting, Load, Word
<1> QED
  BY <1>1, RMTypeCorrect, AccountingHolds, LoadAlwaysFits, PTL

-----------------------------------------------------------------------------
(* The life of a reservation. *)

LEMMA SuccessorValues ==
  /\ "Reserved" \in Successors["Absent"]
  /\ \A s \in {"Committed", "Released", "Expired", "RolledBack"} : s \in Successors["Reserved"]
  /\ "Released" \in Successors["Committed"]
  /\ "Released" \in Successors["Expired"]
BY DEF Successors, Status, Live, Terminal

\* An identity that is not in the table has nothing recorded under it.
AbsentIsEmpty ==
  \A id \in ReservationId : reservations[id].status = "Absent" => reservations[id] = NoReservation

\* What one step may do to one entry of the table.
Forward(id) ==
  LET r == reservations[id]
      s == reservations'[id]
  IN /\ s.status # r.status => s.status \in Successors[r.status]
     /\ s.demand # r.demand => r.status = "Absent"
     /\ s.admission # r.admission => r.status = "Reserved" /\ s.status = "Committed"

\* Changing nothing but the status, to a successor, is a move forward.
LEMMA StatusForward ==
  ASSUME NEW id, NEW t, reservations[id] \in Reservation,
         t \in Successors[reservations[id].status],
         reservations'[id] = [reservations[id] EXCEPT !.status = t]
  PROVE  Forward(id)
BY DEF Forward, Reservation

\* Every step of the manager moves every reservation forward or leaves it.
LEMMA ForwardStep ==
  ASSUME RMTypeOK, AbsentIsEmpty, [RMNext]_rmVars, NEW id \in ReservationId
  PROVE  /\ Forward(id)
         /\ reservations'[id].status = "Absent" => reservations'[id] = reservations[id]
<1> DEFINE Goal == /\ Forward(id)
                   /\ reservations'[id].status = "Absent" => reservations'[id] = reservations[id]
<1>0. reservations[id] \in Reservation
  BY DEF RMTypeOK
<1>1. CASE reservations'[id] = reservations[id]
  BY <1>1 DEF Forward
<1>2. ASSUME NEW t \in {"Committed", "Released", "Expired", "RolledBack"},
             t \in Successors[reservations[id].status],
             reservations'[id] = [reservations[id] EXCEPT !.status = t]
      PROVE  Goal
  <2>1. reservations'[id].status = t
    BY <1>0, <1>2 DEF Reservation
  <2> QED
    BY <1>0, <1>2, <2>1, StatusForward
<1>3. ASSUME NEW i \in ReservationId, NEW demand \in Demands, NEW ttl \in Ttls,
             Reserve(i, demand, ttl)
      PROVE  Goal
  <2>1. CASE i = id
    <3>1. reservations[id].status = "Absent" /\ reservations[id].admission = NoAdmission
      BY <1>3, <2>1 DEF Reserve, CanReserve, AbsentIsEmpty, NoReservation
    <3>2. reservations'[id].status = "Reserved" /\ reservations'[id].admission = NoAdmission
      BY <1>3, <2>1 DEF Reserve, Insert, RMTypeOK
    <3> QED
      BY <3>1, <3>2, SuccessorValues DEF Forward
  <2>2. CASE i # id
    BY <1>1, <1>3, <2>2 DEF Reserve, Insert, RMTypeOK
  <2> QED
    BY <2>1, <2>2
<1>4. ASSUME NEW i \in ReservationId, NEW adm \in Admission, Commit(i, adm)
      PROVE  Goal
  <2>1. CASE i = id
    <3>1. /\ reservations[id].status = "Reserved"
          /\ reservations'[id].status = "Committed"
          /\ reservations'[id].demand = reservations[id].demand
      BY <1>0, <1>4, <2>1 DEF Commit, CanCommit, CommitTable, RMTypeOK, Reservation
    <3> QED
      BY <3>1, SuccessorValues DEF Forward
  <2>2. CASE i # id
    BY <1>1, <1>4, <2>2 DEF Commit, CommitTable, RMTypeOK
  <2> QED
    BY <2>1, <2>2
<1>5. ASSUME NEW i \in ReservationId, NEW t \in {"Released", "Expired", "RolledBack"},
             reservations[i].status = "Reserved", FreeReserved(i, t)
      PROVE  Goal
  <2>1. CASE i = id
    BY <1>2, <1>5, <2>1, SuccessorValues DEF FreeReserved, RMTypeOK
  <2>2. CASE i # id
    BY <1>1, <1>5, <2>2 DEF FreeReserved, RMTypeOK
  <2> QED
    BY <2>1, <2>2
<1>6. ASSUME NEW i \in ReservationId, ReleaseTable(i)
      PROVE  Goal
  <2>1. CASE ReleaseCommitted(i) \/ ReleaseExpired(i)
    <3>1. CASE i = id
      BY <1>2, <2>1, <3>1, SuccessorValues DEF ReleaseCommitted, ReleaseExpired, RMTypeOK
    <3>2. CASE i # id
      BY <1>1, <2>1, <3>2 DEF ReleaseCommitted, ReleaseExpired, RMTypeOK
    <3> QED
      BY <3>1, <3>2
  <2> QED
    BY <1>5, <1>6, <2>1 DEF ReleaseTable
<1>7. ASSUME NEW t \in Time, ExpireStale(t)
      PROVE  Goal
  <2>1. CASE PastTtl(id, t)
    <3>1. reservations'[id] = [reservations[id] EXCEPT !.status = "Expired"]
      BY <1>7, <2>1 DEF ExpireStale
    <3> QED
      BY <1>2, <2>1, <3>1, SuccessorValues DEF PastTtl
  <2>2. CASE ~PastTtl(id, t)
    BY <1>1, <1>7, <2>2 DEF ExpireStale
  <2> QED
    BY <2>1, <2>2
<1>8. CASE \/ \E t \in Totals : SetTotal(t)
           \/ \E m \in OvercommitMode : SetOvercommitMode(m)
           \/ \E a \in Allowances : SetOvercommitAllowance(a)
           \/ Clock
           \/ UNCHANGED rmVars
  BY <1>1, <1>8 DEF SetTotal, SetOvercommitMode, SetOvercommitAllowance, Clock, tableVars, rmVars
<1>9. CASE \E i \in ReservationId : CommitTooLate(i) \/ Rollback(i) \/ Release(i)
  BY <1>5, <1>6, <1>9 DEF CommitTooLate, PastTtl, Rollback, Release
<1> QED
  BY <1>3, <1>4, <1>7, <1>8, <1>9 DEF RMNext

\* Nothing is ever recorded under an identity that is not in the table.
THEOREM AbsentIsEmptyHolds == RMSpec => []AbsentIsEmpty
<1>1. RMInit => AbsentIsEmpty
  BY DEF RMInit, AbsentIsEmpty
<1>2. RMTypeOK /\ AbsentIsEmpty /\ [RMNext]_rmVars => AbsentIsEmpty'
  BY ForwardStep DEF AbsentIsEmpty
<1> QED
  BY <1>1, <1>2, RMTypeCorrect, PTL DEF RMSpec

\* Reservations only move forward (ForwardOnly): a repeated or late commit,
\* release, rollback or expiry can neither revive a reservation, nor change
\* its demand, nor re-assign the admission it backs.
THEOREM ForwardOnlyHolds == RMSpec => ForwardOnly
<1>1. RMTypeOK /\ AbsentIsEmpty /\ [RMNext]_rmVars => [\A id \in ReservationId : Forward(id)]_rmVars
  BY ForwardStep
<1>2. [][\A id \in ReservationId : Forward(id)]_rmVars => ForwardOnly
  BY PTL DEF ForwardOnly, Forward
<1> QED
  BY <1>1, <1>2, RMTypeCorrect, AbsentIsEmptyHolds, PTL DEF RMSpec

-----------------------------------------------------------------------------
(* The manager implements the ledger. *)

\* What the ledger counts as held is the sum of the two running totals.
LEMMA HeldIsLoad ==
  ASSUME RMTypeOK, Accounting, NEW d \in Resource
  PROVE  Ledger!Held(d) = Load(d)
<1> DEFINE R == Having("Reserved")
           C == Having("Committed")
           L == {i \in ReservationId :
                   [id \in ReservationId |-> PhaseOf(reservations[id].status)][i]
                     \in {"provisional", "confirmed"}}
<1>1. L = R \cup C
  BY DEF Having, PhaseOf, RMTypeOK, Reservation, Status, Live, Terminal
<1>2. IsFiniteSet(R) /\ IsFiniteSet(C) /\ R \cap C = {}
  BY HavingFinite DEF Having
<1>3. SumOf(reservations, R \cup C, d) = SumOf(reservations, R, d) + SumOf(reservations, C, d)
  <2> HIDE DEF R, C
  <2> QED BY <1>2, SumOfUnion
<1>4. Ledger!HeldUnits(d) = Units(reservations, R \cup C, d)
  <2>1. Ledger!HeldUnits(d) =
          {u \in L \X (1 .. UMax) : u[2] <= [id \in ReservationId |-> reservations[id].demand][u[1]][d]}
    BY DEF Ledger!HeldUnits
  <2>2. \A u \in L \X (1 .. UMax) :
          [id \in ReservationId |-> reservations[id].demand][u[1]] = reservations[u[1]].demand
    OBVIOUS
  <2> QED
    BY <1>1, <2>1, <2>2 DEF Units
<1>5. Ledger!Held(d) = Cardinality(Ledger!HeldUnits(d))
  BY DEF Ledger!Held, Ledger!Cardinality, Cardinality
<1>6. Ledger!Held(d) = SumOf(reservations, R \cup C, d)
  BY <1>4, <1>5 DEF SumOf
<1>7. reserved_sum[d] = SumOf(reservations, R, d) /\ used_sum[d] = SumOf(reservations, C, d)
  BY DEF Accounting, TableSum
<1> QED
  BY <1>3, <1>6, <1>7 DEF Load

\* The manager implements CapacityLedger (ImplementsLedger): what it decides
\* from its running totals is what the ledger decides from the claims.
THEOREM RefinesLedger == RMSpec => ImplementsLedger
<1> DEFINE ph == [id \in ReservationId |-> PhaseOf(reservations[id].status)]
           cl == [id \in ReservationId |-> reservations[id].demand]
<1>1. RMInit => Ledger!LedgerInit
  <2> SUFFICES ASSUME RMInit PROVE Ledger!LedgerInit
    OBVIOUS
  <2>1. total \in Vec /\ allowance \in Vec /\ mode \in OvercommitMode
    BY UMaxAssumption DEF RMInit, Vec, Word, Zero, OvercommitMode
  <2>2. Ceiling \in Vec
    BY <2>1, CeilingType DEF Ceiling, Vec
  <2> QED
    BY <2>2 DEF RMInit, Ledger!LedgerInit, Ledger!Vec, Ledger!Word, Ledger!Zero, Vec, Word, Zero,
                NoReservation, PhaseOf
<1>2. RMTypeOK /\ RMTypeOK' /\ Accounting /\ [RMNext]_rmVars => [Ledger!LedgerNext]_(Ledger!ledgerVars)
  <2> SUFFICES ASSUME RMTypeOK, RMTypeOK', Accounting, [RMNext]_rmVars
               PROVE  Ledger!LedgerNext \/ UNCHANGED <<Ceiling, ph, cl>>
    BY DEF Ledger!ledgerVars
  <2>0. \A i \in ReservationId : reservations[i] \in Reservation /\ reservations[i].status \in Status
    BY DEF RMTypeOK, Reservation
  <2>1. ASSUME NEW i \in ReservationId, NEW demand \in Demands, NEW ttl \in Ttls,
               Reserve(i, demand, ttl)
        PROVE  Ledger!Claim(i, demand)
    <3>1. demand \in Vec /\ demand \in [Resource -> Nat]
      BY ReservationAssumption, UMaxAssumption DEF Vec, Word
    <3>2. \E d \in Resource : demand[d] > 0
      BY <2>1, <3>1 DEF Reserve, CanReserve, IsZero
    <3>3. ASSUME NEW d \in Resource
          PROVE  Ledger!Held(d) + demand[d] <= Ceiling[d]
      <4>1. Ledger!Held(d) = reserved_sum[d] + used_sum[d]
        BY HeldIsLoad DEF Load
      <4>2. reserved_sum[d] \in Nat /\ used_sum[d] \in Nat /\ demand[d] \in Nat
        BY <3>1, UMaxAssumption DEF RMTypeOK, Vec, Word
      <4>3. used_sum[d] + reserved_sum[d] + demand[d] <= Ceiling[d]
        BY <2>1 DEF Reserve, CanReserve, Ceiling
      <4>4. Ceiling[d] \in Nat
        BY CeilingType, UMaxAssumption DEF RMTypeOK, Ceiling, Word
      <4> QED
        BY <4>1, <4>2, <4>3, <4>4
    <3>4. ph[i] = "free"
      BY <2>1 DEF Reserve, CanReserve, PhaseOf
    <3>5. ph' = [ph EXCEPT ![i] = "provisional"] /\ cl' = [cl EXCEPT ![i] = demand]
      BY <2>1 DEF Reserve, Insert, RMTypeOK, PhaseOf
    <3>6. Ceiling' = Ceiling
      BY <2>1 DEF Reserve, envelopeVars, Ceiling
    <3> QED
      BY <3>2, <3>3, <3>4, <3>5, <3>6 DEF Ledger!Claim
  <2>2. ASSUME NEW i \in ReservationId, NEW adm \in Admission, Commit(i, adm)
        PROVE  Ledger!Confirm(i)
    <3>1. ph[i] = "provisional"
      BY <2>2 DEF Commit, CanCommit, PhaseOf
    <3>2. ph' = [ph EXCEPT ![i] = "confirmed"] /\ cl' = cl
      BY <2>0, <2>2 DEF Commit, CommitTable, RMTypeOK, PhaseOf, Reservation
    <3>3. Ceiling' = Ceiling
      BY <2>2 DEF Commit, envelopeVars, Ceiling
    <3> QED
      BY <3>1, <3>2, <3>3 DEF Ledger!Confirm
  <2>3. ASSUME NEW S \in SUBSET ReservationId, S # {}, NEW t \in Terminal,
               \A i \in S : reservations[i].status = "Reserved",
               \A i \in ReservationId : reservations'[i] =
                 IF i \in S THEN [reservations[i] EXCEPT !.status = t] ELSE reservations[i],
               UNCHANGED envelopeVars
        PROVE  Ledger!Lapse(S)
    <3>1. \A i \in S : ph[i] = "provisional"
      BY <2>3 DEF PhaseOf
    <3>2. \A i \in ReservationId :
            /\ ph'[i] = IF i \in S THEN "closed" ELSE ph[i]
            /\ cl'[i] = cl[i]
      BY <2>0, <2>3 DEF PhaseOf, Terminal, Reservation
    <3>3. ph' = [i \in ReservationId |-> IF i \in S THEN "closed" ELSE ph[i]] /\ cl' = cl
      BY <3>2
    <3>4. Ceiling' = Ceiling
      BY <2>3 DEF envelopeVars, Ceiling
    <3> QED
      BY <2>3, <3>1, <3>3, <3>4 DEF Ledger!Lapse
  <2>4. ASSUME NEW i \in ReservationId, NEW t \in Terminal, reservations[i].status = "Reserved",
               FreeReserved(i, t), UNCHANGED envelopeVars
        PROVE  Ledger!LedgerNext
    <3>1. \A j \in ReservationId : reservations'[j] =
            IF j \in {i} THEN [reservations[j] EXCEPT !.status = t] ELSE reservations[j]
      BY <2>4 DEF FreeReserved, RMTypeOK
    <3>2. {i} \in SUBSET ReservationId /\ {i} # {}
      OBVIOUS
    <3>3. Ledger!Lapse({i})
      BY <2>3, <2>4, <3>1, <3>2
    <3> QED
      BY <3>2, <3>3 DEF Ledger!LedgerNext
  <2>5. ASSUME NEW i \in ReservationId, ReleaseCommitted(i), UNCHANGED envelopeVars
        PROVE  Ledger!Return(i)
    <3>1. ph[i] = "confirmed"
      BY <2>5 DEF ReleaseCommitted, PhaseOf
    <3>2. ph' = [ph EXCEPT ![i] = "closed"] /\ cl' = cl
      BY <2>0, <2>5 DEF ReleaseCommitted, RMTypeOK, PhaseOf, Reservation
    <3>3. Ceiling' = Ceiling
      BY <2>5 DEF envelopeVars, Ceiling
    <3> QED
      BY <3>1, <3>2, <3>3 DEF Ledger!Return
  <2>6. ASSUME NEW i \in ReservationId, ReleaseExpired(i), UNCHANGED envelopeVars
        PROVE  UNCHANGED <<Ceiling, ph, cl>>
    <3>1. ph' = ph /\ cl' = cl
      BY <2>0, <2>6 DEF ReleaseExpired, RMTypeOK, PhaseOf, Reservation
    <3> QED
      BY <2>6, <3>1 DEF envelopeVars, Ceiling
  <2>7. ASSUME NEW t \in Time, ExpireStale(t)
        PROVE  Ledger!LedgerNext
    <3> DEFINE stale == {id \in ReservationId : PastTtl(id, t)}
    <3>1. stale # {} /\ stale \in SUBSET ReservationId /\ UNCHANGED envelopeVars
      BY <2>7 DEF ExpireStale
    <3>2. \A i \in stale : reservations[i].status = "Reserved"
      BY DEF PastTtl
    <3>3. \A i \in ReservationId : reservations'[i] =
            IF i \in stale THEN [reservations[i] EXCEPT !.status = "Expired"] ELSE reservations[i]
      BY <2>7 DEF ExpireStale
    <3>4. Ledger!Lapse(stale)
      <4> HIDE DEF stale
      <4> QED BY <2>3, <3>1, <3>2, <3>3 DEF Terminal
    <3> QED
      BY <3>1, <3>4 DEF Ledger!LedgerNext
  <2>8. CASE \/ \E t \in Totals : SetTotal(t)
             \/ \E m \in OvercommitMode : SetOvercommitMode(m)
             \/ \E a \in Allowances : SetOvercommitAllowance(a)
    <3>1. ph' = ph /\ cl' = cl
      BY <2>8 DEF SetTotal, SetOvercommitMode, SetOvercommitAllowance, tableVars
    <3>2. Ceiling' \in Vec
      BY CeilingType DEF RMTypeOK, Ceiling, Vec
    <3>3. Ledger!Resize
      BY <3>1, <3>2 DEF Ledger!Resize, Ledger!Vec, Ledger!Word, Vec, Word
    <3> QED
      BY <3>3 DEF Ledger!LedgerNext
  <2>9. CASE Clock \/ UNCHANGED rmVars
    BY <2>9 DEF Clock, rmVars, tableVars, envelopeVars, Ceiling
  <2> QED
    BY <2>1, <2>2, <2>4, <2>5, <2>6, <2>7, <2>8, <2>9
    DEF RMNext, Ledger!LedgerNext, CommitTooLate, PastTtl, Rollback, Release, ReleaseTable, Terminal
<1> QED
  BY <1>1, <1>2, RMTypeCorrect, AccountingHolds, PTL DEF RMSpec, ImplementsLedger, Ledger!LedgerSpec
================================================================================
