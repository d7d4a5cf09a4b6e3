---------------------------- MODULE PredictorProofs ----------------------------
(****************************************************************************)
(* Proofs about Predictor, for any profiles, keys, requests, observations   *)
(* and bounds.                                                              *)
(*                                                                          *)
(* The generations of the profiles stay within their bound because every    *)
(* profile in the table took at least one of them: the table is smaller     *)
(* than the generation counter (Counted).  A recovery, which numbers the    *)
(* profiles by their place in the order of the keys, therefore fits.        *)
(****************************************************************************)
EXTENDS Predictor, FiniteSetTheorems, TLAPS

\* Every profile in the table took a generation.
Counted == Cardinality(Registered) < generation

TableInv == PredictorTypeOK /\ TableBounded /\ Counted /\ StampsIdentify

LEMMA RegisteredFinite ==
  /\ IsFiniteSet(Registered) /\ Cardinality(Registered) \in Nat
  /\ Registered \subseteq Key
BY PredictorAssumption, FS_Subset, FS_CardinalityType DEF Registered

LEMMA CountFacts ==
  /\ kMaxSamplesPerKey \in Nat \ {0}
  /\ \A st \in Learned : st.count \in Count /\ st.count \in Nat /\ st.count <= kMaxSamplesPerKey
                       /\ st.last_peak \in Word /\ st.decode_ema \in Average
<1>1. kMaxSamplesPerKey \in Nat \ {0}
  BY PredictorAssumption
<1>2. \A st \in Learned : st.count \in Count /\ st.last_peak \in Word /\ st.decode_ema \in Average
  BY DEF Learned
<1>3. \A n \in Count : n \in Nat /\ n <= kMaxSamplesPerKey
  BY <1>1 DEF Count
<1> QED BY <1>1, <1>2, <1>3

\* A key is a pair of numbers.
LEMMA KeyParts ==
  ASSUME NEW k \in Key
  PROVE  /\ k[1] \in Nat /\ k[2] \in Nat /\ k[1] \in Models /\ k[2] \in Details
         /\ k = <<k[1], k[2]>>
<1>1. Models \subseteq Nat /\ Details \subseteq Nat
  BY PredictorAssumption
<1>2. PICK m \in Models, x \in Details : k = <<m, x>>
  BY DEF Key
<1> QED BY <1>1, <1>2

-----------------------------------------------------------------------------
(* Keys *)

\* A set of keys of one model has a first one.
LEMMA FirstIn ==
  ASSUME NEW K \in SUBSET Key, K # {}
  PROVE  FirstOf(K) \in K
<1> DEFINE T == {0 .. (k[2] - 1) : k \in K}
           R == StrictSubsetOrdering(Nat)
<1>1. T \subseteq FiniteSubsetsOf(Nat) /\ T # {}
  <2>1. \A k \in K : 0 .. (k[2] - 1) \in SUBSET Nat /\ IsFiniteSet(0 .. (k[2] - 1))
    <3> SUFFICES ASSUME NEW k \in K
                 PROVE  0 .. (k[2] - 1) \in SUBSET Nat /\ IsFiniteSet(0 .. (k[2] - 1))
      OBVIOUS
    <3>1. 0 \in Int /\ k[2] - 1 \in Int
      BY KeyParts
    <3> QED BY <3>1, FS_Interval
  <2> QED BY <2>1 DEF FiniteSubsetsOf
<1>2. PICK x \in T : \A y \in T : <<y, x>> \notin R
  BY <1>1, FS_StrictSubsetOrderingWellFounded, WFMin
<1>3. PICK k \in K : x = 0 .. (k[2] - 1)
  OBVIOUS
<1>4. \A j \in K : k[2] <= j[2]
  <2> SUFFICES ASSUME NEW j \in K, ~(k[2] <= j[2])
               PROVE  FALSE
    OBVIOUS
  <2>0. j[2] \in Nat /\ k[2] \in Nat /\ j[2] < k[2]
    BY KeyParts
  <2>1. /\ 0 .. (j[2] - 1) \in SUBSET Nat /\ 0 .. (k[2] - 1) \in SUBSET Nat
        /\ 0 .. (j[2] - 1) \subseteq 0 .. (k[2] - 1)
    BY <2>0
  <2>2. j[2] \in 0 .. (k[2] - 1) /\ j[2] \notin 0 .. (j[2] - 1)
    BY <2>0
  <2>3. <<0 .. (j[2] - 1), 0 .. (k[2] - 1)>> \in R
    BY <2>1, <2>2 DEF StrictSubsetOrdering
  <2> QED BY <1>2, <1>3, <2>3
<1> QED BY <1>4 DEF FirstOf

LEMMA ResolveType ==
  ASSUME NEW k \in Key
  PROVE  Resolve(k) \in Key
<1>1. SameModel(k) \in SUBSET Key
  BY DEF SameModel, Registered
<1> QED BY <1>1, FirstIn DEF Resolve

-----------------------------------------------------------------------------
(* What is learned *)

Ratios == 200 .. 5000

LEMMA BlendRange ==
  \A a \in Average, r \in Ratios : Blend(a, r) \in Average
<1> SUFFICES ASSUME NEW a \in Average, NEW r \in Ratios PROVE Blend(a, r) \in Average
  OBVIOUS
<1>1. a \in Int /\ (a = 0 \/ (a >= 200 /\ a <= 5000)) /\ r \in Int /\ r >= 200 /\ r <= 5000
  BY DEF Average, Ratios
<1>2. CASE a = 0
  BY <1>1, <1>2 DEF Blend, Average
<1>3. CASE a # 0
  <2>1. (6 * a + 4 * r) \div 10 >= 200 /\ (6 * a + 4 * r) \div 10 <= 5000
        /\ (6 * a + 4 * r) \div 10 \in Int
    BY <1>1, <1>3
  <2> DEFINE b == (6 * a + 4 * r) \div 10
  <2>2. Blend(a, r) = b
    BY <1>3 DEF Blend
  <2> HIDE DEF b
  <2>3. b \in Int /\ b >= 200 /\ b <= 5000
    BY <2>1 DEF b
  <2> QED BY <2>2, <2>3 DEF Average
<1> QED BY <1>2, <1>3

LEMMA RatioRange ==
  ASSUME profs \in [Key -> Profiles \cup {NoProfile}], NEW k \in Registered,
         NEW o \in Observations
  PROVE  RateRatio(k, o) \in Ratios
<1>1. profs[k] \in Profiles /\ o.rate \in Nat
  BY PredictorAssumption DEF Registered
<1>2. profs[k].decode_rate \in Nat
  BY <1>1, PredictorAssumption DEF ProfileFields, Word
<1>3. CASE profs[k].decode_rate = 0
  BY <1>3 DEF RateRatio, Ratios
<1>4. CASE profs[k].decode_rate # 0
  <2> DEFINE x == (1000 * o.rate) \div profs[k].decode_rate
  <2>1. x \in Int
    BY <1>1, <1>2, <1>4
  <2>2. RateRatio(k, o) = Clamp(x, 200, 5000)
    BY <1>4 DEF RateRatio
  <2> HIDE DEF x
  <2> QED BY <2>1, <2>2 DEF Clamp, Ratios
<1> QED BY <1>3, <1>4

LEMMA LearnedUpdate ==
  ASSUME NEW x \in Learned, NEW p \in Word, NEW a \in Average
  PROVE  /\ [x EXCEPT !.last_peak = p, !.decode_ema = a] \in Learned
         /\ [x EXCEPT !.last_peak = p, !.decode_ema = a].count = x.count
BY DEF Learned

LEMMA LearnType ==
  ASSUME profs \in [Key -> Profiles \cup {NoProfile}], NEW k \in Key, NEW o \in Observations,
         NEW st \in Learned
  PROVE  Learn(st, k, o) \in Learned /\ Learn(st, k, o).count >= st.count
<1>1. o.peak \in Word /\ o.rate \in Nat
  BY PredictorAssumption
<1> DEFINE n == IF st.count >= kMaxSamplesPerKey THEN kMaxSamplesPerKey ELSE st.count + 1
<1>2. n \in Count /\ n \in Nat /\ n >= st.count
  BY CountFacts DEF Count
<1>3. CountOne(st) = [st EXCEPT !.count = n]
  BY DEF CountOne
<1> HIDE DEF n
<1>4. CountOne(st) = [count |-> n, last_peak |-> st.last_peak, decode_ema |-> st.decode_ema]
  BY <1>3 DEF Learned
<1> DEFINE e == IF o.rate > 0 /\ k \in Registered THEN Blend(st.decode_ema, RateRatio(k, o))
                ELSE st.decode_ema
<1>5. e \in Average
  <2>1. ASSUME k \in Registered PROVE Blend(st.decode_ema, RateRatio(k, o)) \in Average
    <3>1. RateRatio(k, o) \in Ratios
      BY <2>1, RatioRange
    <3>2. st.decode_ema \in Average
      BY CountFacts
    <3> QED BY <3>1, <3>2, BlendRange
  <2>2. st.decode_ema \in Average
    BY CountFacts
  <2> DEFINE x == Blend(st.decode_ema, RateRatio(k, o))
  <2> HIDE DEF x
  <2>3. k \in Registered => x \in Average
    BY <2>1 DEF x
  <2>4. e = IF o.rate > 0 /\ k \in Registered THEN x ELSE st.decode_ema
    BY DEF x
  <2> HIDE DEF e
  <2> QED BY <2>2, <2>3, <2>4
<1>6. Learn(st, k, o) = IF o.kind # "Completed" THEN CountOne(st)
                        ELSE [CountOne(st) EXCEPT !.last_peak = o.peak, !.decode_ema = e]
  BY <1>4 DEF Learn
<1> HIDE DEF e
<1>7. CountOne(st) \in Learned /\ CountOne(st).count = n
  BY <1>2, <1>4, CountFacts DEF Learned
<1>8. CASE o.kind # "Completed"
  BY <1>2, <1>6, <1>7, <1>8
<1>9. CASE o.kind = "Completed"
  <2> DEFINE Taught(x, a) == [x EXCEPT !.last_peak = o.peak, !.decode_ema = a]
  <2>1. \A x \in Learned, a \in Average : Taught(x, a) \in Learned /\ Taught(x, a).count = x.count
    BY <1>1, LearnedUpdate
  <2>2. Learn(st, k, o) = Taught(CountOne(st), e)
    BY <1>6, <1>9
  <2> HIDE DEF Taught
  <2> QED BY <1>2, <1>5, <1>7, <2>1, <2>2
<1> QED BY <1>8, <1>9

-----------------------------------------------------------------------------
(* The order of the keys *)

Upto(k) == {j \in Registered : j[1] < k[1] \/ (j[1] = k[1] /\ j[2] <= k[2])}

LEMMA PositionRange ==
  ASSUME NEW k \in Registered
  PROVE  Position(k) \in 1 .. Cardinality(Registered)
<1>1. Upto(k) \in SUBSET Registered
  BY DEF Upto
<1>2. k \in Upto(k)
  BY KeyParts, RegisteredFinite DEF Upto
<1>3. IsFiniteSet(Upto(k)) /\ Cardinality(Upto(k)) <= Cardinality(Registered)
  BY <1>1, RegisteredFinite, FS_Subset
<1>4. Cardinality(Upto(k)) \in Nat /\ Cardinality(Upto(k)) # 0
  BY <1>2, <1>3, FS_CardinalityType, FS_EmptySet
<1>5. Position(k) = Cardinality(Upto(k))
  BY DEF Position, Upto
<1> QED BY <1>3, <1>4, <1>5, RegisteredFinite

\* Of two keys one comes first, and fewer are up to it.
LEMMA PositionDistinct ==
  ASSUME NEW j \in Registered, NEW k \in Registered, j # k
  PROVE  Position(j) # Position(k)
<1>0. j \in Key /\ k \in Key
  BY RegisteredFinite
<1>1. ASSUME NEW a \in Registered, NEW b \in Registered,
             a[1] < b[1] \/ (a[1] = b[1] /\ a[2] < b[2])
      PROVE  Position(a) # Position(b)
  <2>0. a \in Key /\ b \in Key
    BY RegisteredFinite
  <2>1. Upto(a) \in SUBSET Upto(b)
    <3> SUFFICES ASSUME NEW i \in Registered, i[1] < a[1] \/ (i[1] = a[1] /\ i[2] <= a[2])
                 PROVE  i[1] < b[1] \/ (i[1] = b[1] /\ i[2] <= b[2])
      BY DEF Upto
    <3>1. i \in Key
      BY RegisteredFinite
    <3>2. /\ i[1] \in Nat /\ i[2] \in Nat /\ a[1] \in Nat /\ a[2] \in Nat
          /\ b[1] \in Nat /\ b[2] \in Nat
      BY <2>0, <3>1, KeyParts
    <3> QED BY <1>1, <3>2
  <2>2. b \in Upto(b) /\ b \notin Upto(a)
    <3>1. a[1] \in Nat /\ a[2] \in Nat /\ b[1] \in Nat /\ b[2] \in Nat
      BY <2>0, KeyParts
    <3> QED BY <1>1, <3>1 DEF Upto
  <2>3. IsFiniteSet(Upto(b))
    <3>1. Upto(b) \in SUBSET Registered
      BY DEF Upto
    <3> QED BY <3>1, RegisteredFinite, FS_Subset
  <2>4. Cardinality(Upto(b)) # Cardinality(Upto(a))
    BY <2>1, <2>2, <2>3, FS_Subset
  <2> QED BY <2>4 DEF Position, Upto
<1>2. \/ j[1] < k[1] \/ (j[1] = k[1] /\ j[2] < k[2])
      \/ k[1] < j[1] \/ (k[1] = j[1] /\ k[2] < j[2])
  <2>1. j[1] # k[1] \/ j[2] # k[2]
    BY <1>0, KeyParts
  <2>2. j[1] \in Nat /\ j[2] \in Nat /\ k[1] \in Nat /\ k[2] \in Nat
    BY <1>0, KeyParts
  <2> QED BY <2>1, <2>2
<1> QED BY <1>1, <1>2

-----------------------------------------------------------------------------
(* The invariant *)

LEMMA RegisterKeeps ==
  ASSUME TableInv, NEW k \in Key, NEW p \in Profiles, RegisterProfile(k, p)
  PROVE  TableInv'
<1> USE DEF TableInv
<1>1. Registered' = Registered \cup {k}
  <2>1. p # NoProfile
    BY PredictorAssumption
  <2> QED BY <2>1 DEF RegisterProfile, Registered, PredictorTypeOK
<1>2. Cardinality(Registered') = IF k \in Registered THEN Cardinality(Registered)
                                 ELSE Cardinality(Registered) + 1
  BY <1>1, RegisteredFinite, FS_AddElement
<1>3. generation' = generation + 1 /\ generation \in Nat /\ generation' \in 1 .. MaxGeneration
      /\ generation >= 1
  BY PredictorAssumption DEF RegisterProfile, PredictorTypeOK
<1>4. PredictorTypeOK'
  <2>1. stamps' \in [Key -> 0 .. MaxGeneration]
    BY <1>3, PredictorAssumption DEF RegisterProfile, PredictorTypeOK
  <2>2. profs' \in [Key -> Profiles \cup {NoProfile}] /\ seen' = Registered' /\ UNCHANGED learn
    BY <1>1 DEF RegisterProfile, PredictorTypeOK
  <2> QED BY <1>3, <2>1, <2>2 DEF PredictorTypeOK
<1>5. TableBounded'
  <2>1. k \in Registered \/ Cardinality(Registered) < kMaxProfiles
    BY DEF RegisterProfile, HasRoom, PredictorTypeOK
  <2>2. kMaxProfiles \in Nat
    BY PredictorAssumption
  <2> QED BY <1>2, <2>1, <2>2, RegisteredFinite DEF TableBounded
<1>6. Counted'
  BY <1>2, <1>3, RegisteredFinite DEF Counted
<1>7. StampsIdentify'
  <2>1. stamps'[k] = generation + 1 /\ \A j \in Key \ {k} : stamps'[j] = stamps[j]
    BY DEF RegisterProfile, PredictorTypeOK
  <2>2. \A j \in Registered \ {k} : stamps'[j] \in 2 .. generation
    BY <2>1, RegisteredFinite DEF StampsIdentify
  <2>3. ASSUME NEW j \in Registered' PROVE stamps'[j] \in 2 .. generation'
    BY <1>1, <1>3, <2>1, <2>2
  <2>4. ASSUME NEW j \in Registered', NEW i \in Registered' \ {j} PROVE stamps'[j] # stamps'[i]
    <3>1. CASE j = k
      BY <1>1, <1>3, <2>1, <2>2, <3>1
    <3>2. CASE i = k
      BY <1>1, <1>3, <2>1, <2>2, <3>2
    <3>3. CASE j # k /\ i # k
      <4>1. j \in Registered /\ i \in Registered \ {j}
        BY <1>1, <3>3
      <4> QED BY <2>1, <3>3, <4>1, RegisteredFinite DEF StampsIdentify
    <3> QED BY <3>1, <3>2, <3>3
  <2> QED BY <2>3, <2>4 DEF StampsIdentify
<1> QED BY <1>4, <1>5, <1>6, <1>7

LEMMA ObserveKeeps ==
  ASSUME TableInv, NEW o \in Observations, Observe(o)
  PROVE  TableInv'
<1> USE DEF TableInv
<1>1. Registered' = Registered
  BY DEF Observe, Registered
<1>2. learn' \in [Key -> Learned]
  <2> DEFINE k == Resolve(o.key)
  <2>1. k \in Key
    <3>1. o.key \in Key
      BY PredictorAssumption
    <3> QED BY <3>1, ResolveType
  <2>2. learn' = [learn EXCEPT ![k] = Learn(learn[k], k, o)] /\ learn \in [Key -> Learned]
    BY DEF Observe, PredictorTypeOK
  <2>3. Learn(learn[k], k, o) \in Learned
    BY <2>1, <2>2, LearnType DEF PredictorTypeOK
  <2> HIDE DEF k
  <2> QED BY <2>1, <2>2, <2>3
<1>3. PredictorTypeOK'
  <2>1. UNCHANGED <<profs, stamps, seen, generation>>
    BY DEF Observe
  <2> QED BY <1>1, <1>2, <2>1 DEF PredictorTypeOK
<1> QED
  BY <1>1, <1>3 DEF Observe, TableBounded, Counted, StampsIdentify

LEMMA RecoverKeeps ==
  ASSUME TableInv, Recover
  PROVE  TableInv'
<1> USE DEF TableInv
<1>1. Registered' = Registered
  BY DEF Recover, Registered
<1>2. generation' = 1 + Cardinality(Registered) /\ generation' \in 1 .. MaxGeneration
  BY RegisteredFinite, PredictorAssumption DEF Recover, Counted, PredictorTypeOK
<1>3. \A k \in Registered : stamps'[k] = 1 + Position(k) /\ stamps'[k] \in 2 .. generation'
  BY <1>2, PositionRange, RegisteredFinite DEF Recover
<1>4. stamps' \in [Key -> 0 .. MaxGeneration]
  <2>1. \A k \in Key : (IF k \in Registered THEN 1 + Position(k) ELSE 0) \in 0 .. MaxGeneration
    BY <1>2, PositionRange, RegisteredFinite, PredictorAssumption
  <2> QED BY <2>1 DEF Recover
<1>5. PredictorTypeOK'
  <2>1. NothingLearned \in Learned
    BY PredictorAssumption DEF NothingLearned, Learned, Count, Average, Word
  <2>2. learn' \in [Key -> Learned]
    BY <2>1 DEF Recover
  <2>3. seen' = Registered' /\ UNCHANGED profs
    BY <1>1 DEF Recover
  <2> QED BY <1>2, <1>4, <2>2, <2>3 DEF PredictorTypeOK
<1>6. StampsIdentify'
  <2>1. \A j \in Registered : \A k \in Registered \ {j} : stamps'[j] # stamps'[k]
    <3> SUFFICES ASSUME NEW j \in Registered, NEW k \in Registered \ {j}
                 PROVE  stamps'[j] # stamps'[k]
      OBVIOUS
    <3>1. Position(j) # Position(k) /\ Position(j) \in Int /\ Position(k) \in Int
      BY PositionDistinct, PositionRange
    <3>2. stamps'[j] = 1 + Position(j) /\ stamps'[k] = 1 + Position(k)
      BY <1>3
    <3> QED BY <3>1, <3>2
  <2> QED BY <1>1, <1>3, <2>1 DEF StampsIdentify
<1>7. TableBounded' /\ Counted'
  BY <1>1, <1>2, RegisteredFinite DEF TableBounded, Counted
<1> QED BY <1>5, <1>6, <1>7

LEMMA TableStep ==
  ASSUME TableInv, [PredictorNext]_predictorVars
  PROVE  TableInv'
<1>1. CASE UNCHANGED predictorVars
  BY <1>1
  DEF predictorVars, TableInv, PredictorTypeOK, TableBounded, Counted, StampsIdentify, Registered
<1> QED BY <1>1, RegisterKeeps, ObserveKeeps, RecoverKeeps DEF PredictorNext

LEMMA TableInit == PredictorInit => TableInv
<1> SUFFICES ASSUME PredictorInit PROVE TableInv
  OBVIOUS
<1>1. Registered = {}
  BY DEF PredictorInit, Registered
<1>2. NothingLearned \in Learned /\ 0 \in 0 .. MaxGeneration /\ 1 \in 1 .. MaxGeneration
  BY PredictorAssumption DEF NothingLearned, Learned, Count, Average, Word
<1>3. PredictorTypeOK
  BY <1>1, <1>2 DEF PredictorInit, PredictorTypeOK
<1>4. TableBounded /\ Counted
  BY <1>1, FS_EmptySet, PredictorAssumption DEF PredictorInit, TableBounded, Counted
<1> QED BY <1>1, <1>3, <1>4 DEF TableInv, StampsIdentify

LEMMA TableInvariant == PredictorSpec => []TableInv
BY TableInit, TableStep, PTL DEF PredictorSpec

\* Types of the predictor: what is learned stays a small count, a word and a
\* rate between a fifth and five times the profile's, and the keys marked as
\* seen are the keys of the table.
THEOREM PredictorTypeCorrect == PredictorSpec => []PredictorTypeOK
<1>1. TableInv => PredictorTypeOK
  BY DEF TableInv
<1> QED BY <1>1, TableInvariant, PTL

\* The profile table keeps its bound through registrations and recoveries.
THEOREM TableBoundedHolds == PredictorSpec => []TableBounded
<1>1. TableInv => TableBounded
  BY DEF TableInv
<1> QED BY <1>1, TableInvariant, PTL

\* A generation names one profile, also after a recovery numbered them again.
THEOREM StampsIdentifyHolds == PredictorSpec => []StampsIdentify
<1>1. TableInv => StampsIdentify
  BY DEF TableInv
<1> QED BY <1>1, TableInvariant, PTL

-----------------------------------------------------------------------------
(* What predictions are bound to *)

LEMMA Bound ==
  ASSUME TableInv, TableInv', [PredictorNext]_predictorVars, NEW d \in Requests,
         d.key \in Registered
  PROVE  /\ Resolve(d.key)' = Resolve(d.key)
         /\ \/ Evidence(d)' >= Evidence(d) /\ Confidence(d)' >= Confidence(d)
            \/ \A k \in Key : learn'[k].count = 0
<1> DEFINE k == d.key
<1> USE DEF TableInv
<1>1. Registered \subseteq Registered'
  <2>1. NoProfile \notin Profiles
    BY PredictorAssumption
  <2> QED BY <2>1 DEF PredictorNext, RegisterProfile, Observe, Recover, predictorVars, Registered, PredictorTypeOK
<1>2. Resolve(k) = k /\ Resolve(k)' = k /\ k \in Key
  BY <1>1, RegisteredFinite DEF Resolve
<1>3. Usable(k)' = Usable(k)
  BY <1>1 DEF Usable
<1>4. learn[k] \in Learned /\ learn'[k] \in Learned
  BY <1>2 DEF PredictorTypeOK
<1>5. learn'[k].count >= learn[k].count \/ \A j \in Key : learn'[j].count = 0
  <2>1. CASE Recover
    BY <2>1 DEF Recover, NothingLearned
  <2>2. ASSUME NEW o \in Observations, Observe(o)
        PROVE  learn'[k].count >= learn[k].count
    <3>1. Resolve(o.key) \in Key
      <4>1. o.key \in Key
        BY PredictorAssumption
      <4> QED BY <4>1, ResolveType
    <3>2. learn' = [learn EXCEPT ![Resolve(o.key)] = Learn(learn[Resolve(o.key)], Resolve(o.key), o)]
      BY <2>2 DEF Observe
    <3>3. learn \in [Key -> Learned]
      BY DEF PredictorTypeOK
    <3>4. CASE Resolve(o.key) = k
      <4>1. learn'[k] = Learn(learn[k], k, o) /\ learn[k] \in Learned /\ k \in Key
        BY <3>1, <3>2, <3>3, <3>4
      <4>2. profs \in [Key -> Profiles \cup {NoProfile}]
        BY DEF PredictorTypeOK
      <4> HIDE DEF k
      <4> QED BY <4>1, <4>2, LearnType
    <3>5. CASE Resolve(o.key) # k
      <4>1. learn'[k] = learn[k] /\ learn[k].count \in Nat
        BY <1>2, <1>4, <3>2, <3>3, <3>5, CountFacts
      <4> QED BY <4>1
    <3> QED BY <3>4, <3>5
  <2>3. CASE UNCHANGED learn
    <3>1. learn[k].count \in Nat
      BY <1>4, CountFacts
    <3> QED BY <2>3, <3>1
  <2> QED BY <2>1, <2>2, <2>3 DEF PredictorNext, RegisterProfile, predictorVars
<1>6. ASSUME learn'[k].count >= learn[k].count
      PROVE  Evidence(d)' >= Evidence(d) /\ Confidence(d)' >= Confidence(d)
  <2> DEFINE m == learn[k].count
             n == learn'[k].count
  <2>1. m \in 0 .. kMaxSamplesPerKey /\ n \in 0 .. kMaxSamplesPerKey /\ kMaxSamplesPerKey \in Nat
        /\ m <= n
    BY <1>4, <1>6, CountFacts
  <2>2. Evidence(d) = (IF Usable(k) THEN m ELSE 0) /\ Evidence(d)' = (IF Usable(k) THEN n ELSE 0)
    BY <1>2, <1>3 DEF Evidence
  <2>3. /\ Confidence(d) = IF ~Usable(k) THEN 10 ELSE IF m = 0 THEN 60 ELSE Earned[m]
        /\ Confidence(d)' = IF ~Usable(k) THEN 10 ELSE IF n = 0 THEN 60 ELSE Earned[n]
    BY <1>2, <1>3, <2>2 DEF Confidence
  <2>4. /\ \A i \in 1 .. kMaxSamplesPerKey : Earned[i] \in 60 .. 98
        /\ m # 0 => Earned[m] <= Earned[n]
    <3>1. /\ Earned \in [1 .. kMaxSamplesPerKey -> 60 .. 98]
          /\ \A i, j \in 1 .. kMaxSamplesPerKey : i <= j => Earned[i] <= Earned[j]
      BY PredictorAssumption
    <3>2. m # 0 => m \in 1 .. kMaxSamplesPerKey /\ n \in 1 .. kMaxSamplesPerKey
      BY <2>1
    <3> HIDE DEF m, n
    <3> QED BY <2>1, <3>1, <3>2
  <2> HIDE DEF m, n
  <2>5. n # 0 => n \in 1 .. kMaxSamplesPerKey
    BY <2>1
  <2>6. Evidence(d)' >= Evidence(d)
    BY <2>1, <2>2
  <2>7. Confidence(d)' >= Confidence(d)
    <3>1. CASE ~Usable(k)
      BY <2>3, <3>1
    <3>2. CASE Usable(k) /\ m = 0
      BY <2>1, <2>3, <2>4, <2>5, <3>2
    <3>3. CASE Usable(k) /\ m # 0
      BY <2>1, <2>3, <2>4, <2>5, <3>3
    <3> QED BY <3>1, <3>2, <3>3
  <2> QED BY <2>6, <2>7
<1> QED BY <1>2, <1>5, <1>6

\* A request whose own key is registered stays bound to that profile, and what
\* is reported for it never falls but for a recovery (BindingStable).
THEOREM BindingStableHolds == PredictorSpec => BindingStable
<1> DEFINE Kept ==
      \A d \in Requests :
        d.key \in Registered =>
          /\ Resolve(d.key)' = Resolve(d.key)
          /\ \/ Evidence(d)' >= Evidence(d) /\ Confidence(d)' >= Confidence(d)
             \/ \A k \in Key : learn'[k].count = 0
<1>1. TableInv /\ TableInv' /\ [PredictorNext]_predictorVars => [Kept]_predictorVars
  BY Bound
<1> QED BY <1>1, TableInvariant, PTL DEF PredictorSpec, BindingStable

-----------------------------------------------------------------------------
(* How far an estimate moves *)

Footprints ==
  [fixed : Nat, overhead : Nat, kv : Nat, tensor : Nat, workspace : Nat, staging : Nat,
   pinned : Nat, margin : Nat, fragmentation : Nat]

\* Names for the numbers of the adjustment: the room that Sane asks for, the
\* ratios that it allows, and what they do to a part.
Roomy(n, u) == 3000 * n <= u

Allowed == 800 .. 2000

Near(b, x) == (800 * b) \div 1000 <= x /\ x <= 2 * b

Thousand(n) == 1000 * n

PartsOf(f) == f.fixed + f.overhead + f.kv + f.tensor + f.workspace + f.staging

\* Replacing some parts of a footprint leaves the others.
SetMargins(f, m, q) == [f EXCEPT !.margin = m, !.fragmentation = q]

SetVariable(f, k, t, s) == [f EXCEPT !.kv = k, !.tensor = t, !.staging = s]

LEMMA SetMarginsParts ==
  ASSUME NEW f \in Footprints, NEW m \in Nat, NEW q \in Nat
  PROVE  LET h == SetMargins(f, m, q)
         IN /\ h \in Footprints /\ h.margin = m /\ h.fragmentation = q
            /\ h.fixed = f.fixed /\ h.overhead = f.overhead /\ h.kv = f.kv
            /\ h.tensor = f.tensor /\ h.workspace = f.workspace /\ h.staging = f.staging
BY DEF Footprints, SetMargins

LEMMA SetVariableParts ==
  ASSUME NEW f \in Footprints, NEW k \in Nat, NEW t \in Nat, NEW s \in Nat
  PROVE  LET h == SetVariable(f, k, t, s)
         IN /\ h \in Footprints /\ h.kv = k /\ h.tensor = t /\ h.staging = s
            /\ h.fixed = f.fixed /\ h.overhead = f.overhead /\ h.workspace = f.workspace
BY DEF Footprints, SetVariable

LEMMA PartTypes ==
  ASSUME NEW f \in Footprints
  PROVE  /\ f.fixed \in Nat /\ f.overhead \in Nat /\ f.kv \in Nat /\ f.tensor \in Nat
         /\ f.workspace \in Nat /\ f.staging \in Nat
BY DEF Footprints

LEMMA ProfileTypes ==
  ASSUME NEW p \in Profiles, NEW d \in Requests
  PROVE  /\ p.prefill_rate \in Nat /\ p.decode_rate \in Nat /\ p.transfer \in Nat
         /\ p.transfer_rate \in Nat /\ d.input \in Nat /\ d.expected \in Nat
BY PredictorAssumption, SMTT(30) DEF ProfileFields, Word

LEMMA Quotient ==
  ASSUME NEW a \in Nat, NEW b \in Nat, b > 0
  PROVE  a \div b \in Nat /\ b * (a \div b) <= a /\ a < b * (a \div b) + b
OBVIOUS

LEMMA ProductOrder ==
  ASSUME NEW a \in Nat, NEW b \in Nat, NEW c \in Nat, a <= b
  PROVE  a * c \in Nat /\ b * c \in Nat /\ a * c <= b * c /\ c * a <= c * b
OBVIOUS

LEMMA RatOfType ==
  ASSUME NEW b \in Nat, NEW ratio \in Nat
  PROVE  RatOf(b, ratio) \in Nat
<1> DEFINE x == b * ratio
<1>1. x \in Nat
  OBVIOUS
<1>2. RatOf(b, ratio) = IF x > UMax THEN UMax ELSE x \div 1000
  BY DEF RatOf
<1> HIDE DEF x
<1> QED
  BY <1>1, <1>2, PredictorAssumption

\* A number that is scaled by a ratio between low and high thousandths, and has
\* room to grow, ends up between the two.
LEMMA RatOfRange ==
  ASSUME NEW b \in Nat, NEW low \in Nat, NEW high \in Nat, NEW ratio \in low .. high,
         high * b <= UMax
  PROVE  /\ RatOf(b, ratio) \in Nat
         /\ (low * b) \div 1000 <= RatOf(b, ratio)
         /\ 1000 * RatOf(b, ratio) <= high * b
<1> DEFINE x == b * ratio
           l == low * b
           h == high * b
<1>1. x \in Nat /\ l \in Nat /\ h \in Nat /\ l <= x /\ x <= h
  <2>1. low <= ratio /\ ratio <= high /\ ratio \in Nat
    OBVIOUS
  <2>2. b * ratio = ratio * b
    BY <2>1
  <2> QED
    BY <2>1, <2>2, ProductOrder
<1>2. RatOf(b, ratio) = IF x > UMax THEN UMax ELSE x \div 1000
  BY DEF RatOf
<1>3. h <= UMax
  OBVIOUS
<1> HIDE DEF x, l, h
<1>4. RatOf(b, ratio) = x \div 1000
  BY <1>1, <1>2, <1>3, PredictorAssumption
<1>5. x \div 1000 \in Nat /\ l \div 1000 <= x \div 1000 /\ 1000 * (x \div 1000) <= h
  BY <1>1
<1> QED
  BY <1>4, <1>5 DEF l, h

\* In a word, a sum does not wrap.
LEMMA WrapsNothing ==
  ASSUME NEW n \in Nat, n <= UMax
  PROVE  Wrap(n) = n
BY PredictorAssumption DEF Wrap

\* The peak covers the parts when there is room for the margins.
LEMMA PeakCovers ==
  ASSUME NEW f \in Footprints, PartsOf(f) + f.margin + f.fragmentation <= UMax
  PROVE  /\ PartsOf(f) \in Nat /\ BaseOf(f) = PartsOf(f)
         /\ PeakOf(f) \in Nat /\ PeakOf(f) >= PartsOf(f)
<1>1. PartsOf(f) \in Nat /\ f.margin \in Nat /\ f.fragmentation \in Nat
  BY DEF Footprints, PartsOf
<1>2. BaseOf(f) = Wrap(PartsOf(f)) /\ PeakOf(f) = Wrap(BaseOf(f) + f.margin + f.fragmentation)
  BY DEF BaseOf, PartsOf, PeakOf
<1> DEFINE n == PartsOf(f)
<1>3. n \in Nat /\ n + f.margin + f.fragmentation <= UMax
  BY <1>1
<1> HIDE DEF n
<1>4. n <= UMax /\ n + f.margin + f.fragmentation \in Nat
  BY <1>1, <1>3, PredictorAssumption
<1>5. Wrap(n) = n /\ Wrap(n + f.margin + f.fragmentation) = n + f.margin + f.fragmentation
  BY <1>3, <1>4, WrapsNothing
<1> QED
  BY <1>1, <1>2, <1>3, <1>5 DEF n

\* The default margins, of ten and five percent, leave room.
LEMMA DefaultMargins ==
  ASSUME NEW f \in Footprints, Roomy(PartsOf(f), 2 * UMax),
         NEW h, h = WithMargins(f, 100, 50)
  PROVE  /\ h \in Footprints /\ PartsOf(h) = PartsOf(f)
         /\ h.fixed = f.fixed /\ h.overhead = f.overhead /\ h.kv = f.kv
         /\ h.tensor = f.tensor /\ h.workspace = f.workspace /\ h.staging = f.staging
         /\ PeakOf(h) \in Nat /\ PeakOf(h) >= PartsOf(h)
<1> DEFINE n == PartsOf(f)
           m == RatOf(BaseOf(f), 100)
           q == RatOf(BaseOf(f), 50)
<1>1. n \in Nat
  BY DEF Footprints, PartsOf
<1>2. BaseOf(f) = Wrap(n)
  BY DEF BaseOf, PartsOf
<1>3. 3000 * n <= 2 * UMax
  BY DEF Roomy
<1>4. h = SetMargins(f, m, q)
  BY DEF WithMargins, SetMargins
<1> HIDE DEF n
<1>5. BaseOf(f) = n /\ 100 * n <= UMax /\ 50 * n <= UMax
  BY <1>1, <1>2, <1>3, WrapsNothing, PredictorAssumption
<1>6. m \in Nat /\ 1000 * m <= 100 * n
  BY <1>1, <1>5, RatOfRange
<1>7. q \in Nat /\ 1000 * q <= 50 * n
  BY <1>1, <1>5, RatOfRange
<1> HIDE DEF m, q
<1>8. m \in Nat /\ q \in Nat
  BY <1>6, <1>7
<1>9. LET i == SetMargins(f, m, q)
      IN /\ i \in Footprints /\ i.margin = m /\ i.fragmentation = q
         /\ i.fixed = f.fixed /\ i.overhead = f.overhead /\ i.kv = f.kv
         /\ i.tensor = f.tensor /\ i.workspace = f.workspace /\ i.staging = f.staging
  BY <1>8, SetMarginsParts, Zenon
<1>10. /\ h \in Footprints /\ h.margin = m /\ h.fragmentation = q
      /\ h.fixed = f.fixed /\ h.overhead = f.overhead /\ h.kv = f.kv
      /\ h.tensor = f.tensor /\ h.workspace = f.workspace /\ h.staging = f.staging
  BY <1>4, <1>9
<1>11. PartsOf(h) = n
  BY <1>10 DEF PartsOf, n
<1>12. n + m + q <= UMax
  BY <1>1, <1>3, <1>6, <1>7, PredictorAssumption
<1> QED
  BY <1>10, <1>11, <1>12, PeakCovers DEF n

\* A part scaled by a ratio that the adjustment allows.
LEMMA ScaledPart ==
  ASSUME NEW b \in Nat, Roomy(b, UMax), NEW ratio \in Allowed
  PROVE  RatOf(b, ratio) \in Nat /\ Near(b, RatOf(b, ratio))
<1> USE DEF Roomy, Allowed, Near
<1> DEFINE x == b * ratio
<1>1. ratio \in Nat /\ 800 <= ratio /\ ratio <= 2000
  OBVIOUS
<1>2. x \in Nat /\ 800 * b <= x /\ x <= 2000 * b
  <2>1. ratio * b \in Nat /\ 800 * b <= ratio * b /\ ratio * b <= 2000 * b
    BY <1>1, ProductOrder
  <2>2. x = ratio * b
    BY <1>1
  <2> QED
    BY <2>1, <2>2
<1>3. RatOf(b, ratio) = IF x > UMax THEN UMax ELSE x \div 1000
  BY DEF RatOf
<1> HIDE DEF x
<1>4. RatOf(b, ratio) = x \div 1000
  BY <1>2, <1>3, PredictorAssumption
<1>5. x \div 1000 \in Nat /\ (800 * b) \div 1000 <= x \div 1000 /\ x \div 1000 <= 2 * b
  BY <1>2
<1> QED
  BY <1>4, <1>5

\* The variable parts after scaling, and all parts together.
Scaled(f, ratio) ==
  SetVariable(f, RatOf(f.kv, ratio), RatOf(f.tensor, ratio), RatOf(f.staging, ratio))

LEMMA RoomyParts ==
  ASSUME NEW f \in Footprints, Roomy(PartsOf(f), UMax)
  PROVE  Roomy(f.kv, UMax) /\ Roomy(f.tensor, UMax) /\ Roomy(f.staging, UMax)
<1> DEFINE n == PartsOf(f)
<1>1. f.kv \in Nat /\ f.tensor \in Nat /\ f.staging \in Nat
  BY PartTypes
<1>2. n \in Nat /\ f.kv <= n /\ f.tensor <= n /\ f.staging <= n
  BY PartTypes DEF PartsOf
<1>3. 3000 * n <= UMax
  BY DEF Roomy
<1> HIDE DEF n
<1> QED
  BY <1>1, <1>2, <1>3, PredictorAssumption DEF Roomy

LEMMA ScaledParts ==
  ASSUME NEW f \in Footprints, Roomy(PartsOf(f), UMax), NEW ratio \in Allowed
  PROVE  LET h == Scaled(f, ratio)
         IN /\ h \in Footprints /\ h.fixed = f.fixed
            /\ Near(f.kv, h.kv) /\ Near(f.tensor, h.tensor) /\ Near(f.staging, h.staging)
            /\ Roomy(PartsOf(h), 2 * UMax)
<1> DEFINE k == RatOf(f.kv, ratio)
           t == RatOf(f.tensor, ratio)
           s == RatOf(f.staging, ratio)
           h == Scaled(f, ratio)
           n == PartsOf(f)
<1>1. /\ f.fixed \in Nat /\ f.overhead \in Nat /\ f.kv \in Nat /\ f.tensor \in Nat
      /\ f.workspace \in Nat /\ f.staging \in Nat
  BY PartTypes, Zenon
<1>2. n \in Nat
  BY <1>1 DEF PartsOf
<1>3. /\ k \in Nat /\ Near(f.kv, k) /\ t \in Nat /\ Near(f.tensor, t)
      /\ s \in Nat /\ Near(f.staging, s)
  BY <1>1, RoomyParts, ScaledPart, Zenon
<1>4. h = SetVariable(f, k, t, s)
  BY DEF Scaled
<1>5. Roomy(n, UMax)
  OBVIOUS
<1> HIDE DEF k, t, s, h, n
<1>6. k \in Nat /\ t \in Nat /\ s \in Nat
  BY <1>3
<1>7. LET i == SetVariable(f, k, t, s)
      IN /\ i \in Footprints /\ i.kv = k /\ i.tensor = t /\ i.staging = s
         /\ i.fixed = f.fixed /\ i.overhead = f.overhead /\ i.workspace = f.workspace
  BY <1>6, SetVariableParts
<1>8. /\ h \in Footprints
      /\ h.fixed = f.fixed /\ h.overhead = f.overhead /\ h.workspace = f.workspace
      /\ h.kv = k /\ h.tensor = t /\ h.staging = s
  BY <1>4, <1>7
<1>9. k <= 2 * f.kv /\ t <= 2 * f.tensor /\ s <= 2 * f.staging
  BY <1>3 DEF Near
<1>10. PartsOf(h) \in Nat /\ PartsOf(h) <= 2 * n
  BY <1>1, <1>3, <1>8, <1>9 DEF PartsOf, n
<1>11. Roomy(PartsOf(h), 2 * UMax)
  BY <1>2, <1>5, <1>10, PredictorAssumption DEF Roomy
<1> QED
  BY <1>3, <1>8, <1>11, Zenon DEF h

LEMMA AllowedRatio ==
  ASSUME NEW x \in Int
  PROVE  Clamp(x, 800, 2000) \in Allowed
BY DEF Clamp, Allowed

\* What an estimate keeps of the profile, whatever was learned.
LEMMA AdjustedWithin ==
  ASSUME NEW f \in Footprints, Sane(f), NEW st \in Learned, NEW h, h = Adjusted(f, st)
  PROVE  /\ h \in Footprints /\ h.fixed = f.fixed
         /\ Near(f.kv, h.kv) /\ Near(f.tensor, h.tensor) /\ Near(f.staging, h.staging)
         /\ PeakOf(h) >= PartsOf(h)
<1>1. Roomy(PartsOf(f), UMax) /\ PartsOf(f) + f.margin + f.fragmentation <= UMax
  BY DEF Sane, PartsOf, Roomy
<1>2. f.kv \in Nat /\ f.tensor \in Nat /\ f.staging \in Nat
  BY DEF Footprints
<1>3. PeakOf(f) \in Nat /\ PeakOf(f) >= PartsOf(f)
  BY <1>1, PeakCovers
<1>4. CASE st.count = 0 \/ st.last_peak = 0 \/ PeakOf(f) = 0
  <2>1. h = f
    BY <1>4 DEF Adjusted
  <2> QED
    BY <1>2, <1>3, <2>1 DEF Near
<1>5. CASE ~(st.count = 0 \/ st.last_peak = 0 \/ PeakOf(f) = 0)
  <2> DEFINE x     == (1000 * st.last_peak) \div PeakOf(f)
             ratio == Clamp(x, 800, 2000)
             g     == Scaled(f, ratio)
  <2>1. x \in Int
    <3>1. st.last_peak \in Nat /\ PeakOf(f) > 0
      BY <1>3, <1>5, CountFacts, PredictorAssumption DEF Word
    <3>2. 1000 * st.last_peak \in Nat
      BY <3>1
    <3> QED
      BY <1>3, <3>1, <3>2, Quotient
  <2>2. h = WithMargins(g, 100, 50)
    BY <1>5 DEF Adjusted, Scaled, SetVariable
  <2> HIDE DEF x
  <2>3. ratio \in Allowed
    BY <2>1, AllowedRatio
  <2> HIDE DEF ratio
  <2>4. /\ g \in Footprints /\ g.fixed = f.fixed
        /\ Near(f.kv, g.kv) /\ Near(f.tensor, g.tensor) /\ Near(f.staging, g.staging)
        /\ Roomy(PartsOf(g), 2 * UMax)
    BY <1>1, <2>3, ScaledParts, Zenon
  <2> HIDE DEF g
  <2>5. /\ h \in Footprints /\ PeakOf(h) >= PartsOf(h)
        /\ h.fixed = g.fixed /\ h.kv = g.kv /\ h.tensor = g.tensor /\ h.staging = g.staging
    BY <2>2, <2>4, DefaultMargins, Zenon
  <2> QED
    BY <2>4, <2>5
<1> QED
  BY <1>4, <1>5

LEMMA ProfileFootprintType ==
  ASSUME NEW d \in Requests, NEW p \in Profiles
  PROVE  ProfileFootprint(d, p) \in Footprints
<1>1. /\ p.fixed \in Nat /\ p.overhead \in Nat /\ p.kv \in Nat /\ p.tensor \in Nat
      /\ p.workspace \in Nat /\ p.staging \in Nat /\ p.pinned \in Nat
      /\ p.safety \in Nat /\ p.fragmentation \in Nat
      /\ d.input \in Nat /\ d.expected \in Nat /\ d.max \in Nat
  BY PredictorAssumption, SMTT(30) DEF ProfileFields, Word
<1> DEFINE k == Saturate(p.kv * (d.input + d.expected))
           t == Saturate(p.tensor * (d.input + OutputBound(d)))
<1>2. ASSUME NEW a \in Nat, NEW b \in Nat
      PROVE  Saturate(a * b) \in Nat
  <2> DEFINE x == a * b
  <2>1. x \in Nat
    OBVIOUS
  <2> HIDE DEF x
  <2>2. Saturate(x) \in Nat
    BY <2>1, PredictorAssumption DEF Saturate
  <2> QED
    BY <2>2 DEF x
<1>3. d.input + d.expected \in Nat /\ d.input + OutputBound(d) \in Nat
  BY <1>1 DEF OutputBound
<1>4. k \in Nat /\ t \in Nat
  BY <1>1, <1>2, <1>3
<1> DEFINE f == [fixed |-> p.fixed, overhead |-> p.overhead, kv |-> k, tensor |-> t,
                 workspace |-> p.workspace, staging |-> p.staging, pinned |-> p.pinned,
                 margin |-> 0, fragmentation |-> 0]
           m == RatOf(BaseOf(f), p.safety)
           q == RatOf(BaseOf(f), p.fragmentation)
<1>5. ProfileFootprint(d, p) = [f EXCEPT !.margin = m, !.fragmentation = q]
  BY DEF ProfileFootprint, WithMargins
<1> HIDE DEF k, t
<1>6. f \in Footprints
  BY <1>1, <1>4 DEF Footprints
<1> HIDE DEF f
<1>7. BaseOf(f) \in Nat
  <2>1. f.fixed + f.overhead + f.kv + f.tensor + f.workspace + f.staging \in Nat
    BY <1>6 DEF Footprints
  <2> QED
    BY <2>1, PredictorAssumption DEF BaseOf, Wrap
<1>8. m \in Nat /\ q \in Nat
  BY <1>1, <1>7, RatOfType
<1> HIDE DEF m, q
<1> QED
  BY <1>5, <1>6, <1>8 DEF Footprints

\* Dividing by at least a fifth gives at most five times as much, and a bit.
LEMMA FiveTimes ==
  ASSUME NEW n \in Nat, NEW z \in Nat, NEW a \in Nat, NEW b \in Nat, z > 0, z <= a, b = 5 * z
  PROVE  /\ n \div a \in Nat /\ n \div b \in Nat
         /\ n \div a <= 5 * (n \div b) + 4
<1> DEFINE x == n \div a
           y == n \div b
<1>1. a > 0 /\ b > 0
  OBVIOUS
<1>2. x \in Nat /\ a * x <= n
  BY <1>1, Quotient
<1>3. y \in Nat /\ n < b * y + b
  BY <1>1, Quotient
<1> HIDE DEF x, y
<1>4. z * x <= a * x /\ z * x \in Nat /\ a * x \in Nat
  BY <1>1, <1>2, ProductOrder
<1>5. z * x < z * (5 * y + 5)
  <2>1. b * y + b = z * (5 * y + 5)
    BY <1>1, <1>3
  <2>2. z * (5 * y + 5) \in Nat
    BY <1>1, <1>3
  <2> QED
    BY <1>2, <1>3, <1>4, <2>1, <2>2
<1>6. x < 5 * y + 5
  <2>1. SUFFICES ASSUME ~(x < 5 * y + 5) PROVE FALSE
    OBVIOUS
  <2>2. 5 * y + 5 \in Nat /\ 5 * y + 5 <= x
    BY <1>2, <1>3, <2>1
  <2>3. z * (5 * y + 5) <= z * x
    BY <1>1, <1>2, <2>2, ProductOrder
  <2>4. z * (5 * y + 5) \in Nat
    BY <1>1, <1>3
  <2> QED
    BY <1>4, <1>5, <2>3, <2>4
<1>7. x <= 5 * y + 4
  BY <1>2, <1>3, <1>6
<1> QED
  BY <1>2, <1>3, <1>7 DEF x, y

LEMMA TimeForType ==
  ASSUME NEW a \in Nat, NEW r \in Nat
  PROVE  TimeFor(a, r) \in Nat
<1>1. 1000 * a \in Nat
  OBVIOUS
<1> QED
  BY <1>1, Quotient DEF TimeFor

\* A rate between a fifth and five times the profile's.
LEMMA DecodeWithin ==
  ASSUME NEW e \in Nat, NEW rate \in Nat, rate > 0, NEW ema \in Ratios
  PROVE  /\ TimeFor(e, rate * ema) \in Nat
         /\ TimeFor(e, rate * ema) <= 5 * TimeFor(e, Thousand(rate)) + 4
<1> DEFINE n == 1000 * e
           z == 200 * rate
           a == rate * ema
           b == Thousand(rate)
<1>1. n \in Nat /\ z \in Nat /\ z > 0 /\ b \in Nat /\ b = 5 * z /\ b # 0
  BY DEF Thousand
<1>2. a \in Nat /\ z <= a
  <2>1. ema \in Nat /\ 200 <= ema
    BY DEF Ratios
  <2>2. ema * rate \in Nat /\ 200 * rate <= ema * rate
    BY <2>1, ProductOrder
  <2>3. a = ema * rate
    BY <2>1
  <2> QED
    BY <2>2, <2>3
<1>3. TimeFor(e, a) = (IF a = 0 THEN 0 ELSE n \div a) /\ TimeFor(e, b) = (IF b = 0 THEN 0 ELSE n \div b)
  BY DEF TimeFor
<1> HIDE DEF n, z, a, b
<1>4. a # 0
  BY <1>1, <1>2
<1>5. /\ n \div a \in Nat /\ n \div b \in Nat
      /\ n \div a <= 5 * (n \div b) + 4
  BY <1>1, <1>2, FiveTimes, Zenon
<1>6. TimeFor(e, a) \in Nat /\ TimeFor(e, a) <= 5 * TimeFor(e, b) + 4
  BY <1>1, <1>3, <1>4, <1>5, Zenon
<1> QED
  BY <1>6 DEF a, b

LEMMA ThousandType ==
  ASSUME NEW n \in Nat
  PROVE  Thousand(n) \in Nat
BY DEF Thousand

LEMMA SumWithin ==
  ASSUME NEW a \in Nat, NEW c \in Nat, NEW x \in Nat, NEW y \in Nat, x <= 5 * y + 4
  PROVE  a + x + c <= 5 * (a + y + c) + 5
OBVIOUS

LEMMA DurationParts ==
  ASSUME NEW d, NEW p, NEW decode
  PROVE  DurationAt(d, p, decode) =
           TimeFor(d.input, p.prefill_rate) + TimeFor(Thousand(d.expected), decode)
             + TimeFor(p.transfer, p.transfer_rate)
BY DEF DurationAt, Thousand

\* predict_duration under what was learned, against the profile alone.
LEMMA DurationWithin ==
  ASSUME NEW d \in Requests, NEW p \in Profiles, p.decode_rate > 0
  PROVE  /\ DurationAt(d, p, Thousand(p.decode_rate)) \in Nat
         /\ \A ema \in Ratios :
              DurationAt(d, p, p.decode_rate * ema)
                <= 5 * DurationAt(d, p, Thousand(p.decode_rate)) + 5
<1> DEFINE a == TimeFor(d.input, p.prefill_rate)
           c == TimeFor(p.transfer, p.transfer_rate)
           e == Thousand(d.expected)
           rate == p.decode_rate
           y == TimeFor(e, Thousand(rate))
<1>1. /\ p.prefill_rate \in Nat /\ rate \in Nat /\ p.transfer \in Nat
      /\ p.transfer_rate \in Nat /\ d.input \in Nat /\ d.expected \in Nat
  BY ProfileTypes, Zenon
<1>2. e \in Nat /\ Thousand(rate) \in Nat /\ rate > 0
  BY <1>1, ThousandType, Zenon
<1>3. a \in Nat /\ c \in Nat /\ y \in Nat
  BY <1>1, <1>2, TimeForType, Zenon
<1>4. DurationAt(d, p, Thousand(rate)) = a + y + c
  BY DurationParts, Zenon
<1>5. ASSUME NEW ema \in Ratios
      PROVE  DurationAt(d, p, rate * ema) <= 5 * DurationAt(d, p, Thousand(rate)) + 5
  <2> DEFINE x == TimeFor(e, rate * ema)
  <2>1. DurationAt(d, p, rate * ema) = a + x + c
    BY DurationParts, Zenon
  <2> HIDE DEF a, c, e, rate
  <2>2. x \in Nat /\ x <= 5 * y + 4
    BY <1>1, <1>2, DecodeWithin, Zenon
  <2> HIDE DEF x, y
  <2>3. a + x + c <= 5 * (a + y + c) + 5
    BY <1>3, <2>2, SumWithin, Zenon
  <2> QED
    BY <1>4, <2>1, <2>3, Zenon
<1> HIDE DEF a, c, y
<1>6. a + y + c \in Nat
  BY <1>3
<1> QED
  BY <1>4, <1>5, <1>6, Zenon

\* Whatever is observed and in whatever order, the parts of a prediction stay
\* within fixed factors of the profile's, and its duration stays below one
\* (LearnedWithinBounds), for every profile, request and word size: rounding,
\* clamping and the recomputed margins included.
THEOREM LearnedWithinBoundsHolds == PredictorSpec => []LearnedWithinBounds
<1>1. PredictorTypeOK => LearnedWithinBounds
  <2> SUFFICES ASSUME PredictorTypeOK, NEW d \in Requests,
                      Usable(Resolve(d.key)), Sane(ProfileFootprint(d, profs[Resolve(d.key)]))
               PROVE  LET k == Resolve(d.key)
                          p == profs[k]
                          f == Estimate(d)
                          g == ProfileFootprint(d, p)
                      IN /\ f.fixed = g.fixed
                         /\ \A part \in {"kv", "tensor", "staging"} :
                              (800 * g[part]) \div 1000 <= f[part] /\ f[part] <= 2 * g[part]
                         /\ Demand(d).accelerator >=
                              f.fixed + f.overhead + f.workspace + f.staging
                                + Demand(d).kv + Demand(d).tensor
                         /\ p.decode_rate > 0 =>
                              Duration(d) <= 5 * DurationAt(d, p, 1000 * p.decode_rate) + 5
    BY DEF LearnedWithinBounds
  <2> DEFINE k == Resolve(d.key)
             p == profs[k]
             f == Estimate(d)
             g == ProfileFootprint(d, p)
  <2>1. k \in Key /\ k \in Registered
    BY PredictorAssumption, ResolveType DEF Usable
  <2>2. p \in Profiles
    BY <2>1 DEF PredictorTypeOK, Registered
  <2>3. learn[k] \in Learned
    BY <2>1 DEF TableInv, PredictorTypeOK
  <2>4. f = Adjusted(g, learn[k])
    BY DEF Estimate, Footprint
  <2>5. g \in Footprints
    BY <2>2, ProfileFootprintType
  <2>6. /\ f \in Footprints /\ f.fixed = g.fixed
        /\ Near(g.kv, f.kv) /\ Near(g.tensor, f.tensor) /\ Near(g.staging, f.staging)
        /\ PeakOf(f) >= PartsOf(f)
    <3>1. Sane(g)
      OBVIOUS
    <3> HIDE DEF f, g, k
    <3> QED
      BY <2>3, <2>4, <2>5, <3>1, AdjustedWithin, Zenon
  <2>7. Demand(d).accelerator = PeakOf(f) /\ Demand(d).kv = f.kv /\ Demand(d).tensor = f.tensor
    BY DEF Demand
  <2>8. ASSUME p.decode_rate > 0
        PROVE  Duration(d) <= 5 * DurationAt(d, p, 1000 * p.decode_rate) + 5
    <3> DEFINE ema == learn[k].decode_ema
               D   == DurationAt(d, p, Thousand(p.decode_rate))
    <3>1. ema \in Average
      BY <2>3, CountFacts
    <3>2. /\ Duration(d) = DurationAt(d, p, DecodeRate(k))
          /\ DecodeRate(k) = IF ema = 0 THEN Thousand(p.decode_rate) ELSE p.decode_rate * ema
      BY <2>8 DEF Duration, DecodeRate, Thousand
    <3>7. D = DurationAt(d, p, 1000 * p.decode_rate)
      BY DEF Thousand
    <3>3. /\ D \in Nat
          /\ \A r \in Ratios : DurationAt(d, p, p.decode_rate * r) <= 5 * D + 5
      <4> HIDE DEF k, p
      <4> QED BY <2>2, <2>8, DurationWithin, Zenon
    <3>4. D <= 5 * D + 5
      <4> HIDE DEF D
      <4> QED BY <3>3
    <3>5. ema = 0 \/ ema \in Ratios
      <4> HIDE DEF ema
      <4> QED BY <3>1 DEF Average, Ratios
    <3> HIDE DEF ema, D, p, k
    <3>6. Duration(d) <= 5 * D + 5
      <4>1. CASE ema = 0
        <5>1. Duration(d) = D
          BY <3>2, <4>1 DEF D
        <5> QED
          BY <3>4, <5>1
      <4>2. CASE ema # 0
        <5>1. Duration(d) = DurationAt(d, p, p.decode_rate * ema)
          BY <3>2, <4>2
        <5>2. ema \in Ratios
          BY <3>5, <4>2
        <5> QED
          BY <3>3, <5>1, <5>2
      <4> QED
        BY <4>1, <4>2
    <3> QED
      BY <3>6, <3>7
  <2> HIDE DEF f, g
  <2>9. f.fixed + f.overhead + f.workspace + f.staging + f.kv + f.tensor = PartsOf(f)
    BY <2>6 DEF Footprints, PartsOf
  <2>10. /\ f.fixed = g.fixed
         /\ \A part \in {"kv", "tensor", "staging"} :
              (800 * g[part]) \div 1000 <= f[part] /\ f[part] <= 2 * g[part]
         /\ Demand(d).accelerator >=
              f.fixed + f.overhead + f.workspace + f.staging + Demand(d).kv + Demand(d).tensor
    BY <2>6, <2>7, <2>9 DEF Near
  <2> QED
    BY <2>8, <2>10 DEF f, g
<1> QED
  BY <1>1, PredictorTypeCorrect, PTL
================================================================================
